---------------------------- MODULE DeployProofs ----------------------------
(***************************************************************************)
(* What lockboot-deploy promises, for every set of calls, mirrors, keys    *)
(* and architectures, and any number of calls that die.                    *)
(***************************************************************************)
EXTENDS Rollout, WellFoundedInduction, TLAPS

-----------------------------------------------------------------------------
(* Induction and recursion up to a number, with sets in the place of       *)
(* predicates.                                                             *)

\* A set of natural numbers has a least element.
LEMMA NatMin ==
  ASSUME NEW T \in SUBSET Nat, T # {}
  PROVE  \E x \in T : \A y \in T : x <= y
<1> DEFINE R == {ss \in Nat \X Nat : ss[1] < ss[2]}
<1>1. IsWellFoundedOn(R, Nat)
  BY NatLessThanWellFounded DEF OpToRel
<1>2. PICK x \in T : \A y \in T : <<y, x>> \notin R
  <2> HIDE DEF R
  <2> QED BY <1>1, WFMin
<1>3. ASSUME NEW y \in T PROVE x <= y
  <2>1. <<y, x>> \notin R /\ <<y, x>> \in Nat \X Nat
    BY <1>2
  <2>2. <<y, x>>[1] = y /\ <<y, x>>[2] = x
    OBVIOUS
  <2>3. ~ (y < x)
    BY <2>1, <2>2
  <2> QED BY <2>3
<1> QED BY <1>3

\* What holds of 0 and is handed on holds up to n.
LEMMA UpTo ==
  ASSUME NEW n \in Nat, NEW S, 0 \in S, \A k \in 1..n : k - 1 \in S => k \in S
  PROVE  \A k \in 0..n : k \in S
<1> DEFINE T == {k \in 0..n : k \notin S}
<1> SUFFICES ASSUME T # {} PROVE FALSE
  OBVIOUS
<1>1. PICK k \in T : \A y \in T : k <= y
  <2>1. T \in SUBSET Nat
    OBVIOUS
  <2> HIDE DEF T
  <2> QED BY <2>1, NatMin
<1>2. k \in 0..n /\ k \notin S /\ k # 0
  OBVIOUS
<1>3. k - 1 \in 0..n /\ k - 1 \notin T
  BY <1>1, <1>2
<1> QED BY <1>2, <1>3

\* f has the values that a loop of n passes over a value of S goes through.
Steps(n, S) == [1..n -> [S -> S]]
IsLoop(f, n, S, x0, step) ==
  f \in [0..n -> S] /\ f[0] = x0 /\ \A i \in 1..n : f[i] = step[i][f[i - 1]]

\* Every loop has them.
LEMMA Loop ==
  ASSUME NEW n \in Nat, NEW S, NEW x0 \in S, NEW step \in Steps(n, S)
  PROVE  \E f : IsLoop(f, n, S, x0, step)
<1> USE DEF Steps, IsLoop
<1> DEFINE P(k) == \E f \in [0..k -> S] : f[0] = x0 /\ \A i \in 1..k : f[i] = step[i][f[i - 1]]
           Q == {k \in Nat : P(k)}
<1>1. P(0)
  <2> DEFINE g == [i \in 0..0 |-> x0]
  <2>1. g \in [0..0 -> S] /\ g[0] = x0 /\ \A i \in 1..0 : FALSE
    OBVIOUS
  <2> HIDE DEF g
  <2> QED BY <2>1
<1>2. ASSUME NEW k \in 1..n, P(k - 1) PROVE P(k)
  <2>1. PICK f \in [0..(k - 1) -> S] :
               f[0] = x0 /\ \A i \in 1..(k - 1) : f[i] = step[i][f[i - 1]]
    BY <1>2
  <2> DEFINE g == [i \in 0..k |-> IF i = k THEN step[k][f[k - 1]] ELSE f[i]]
  <2>2. step[k] \in [S -> S] /\ f[k - 1] \in S
    OBVIOUS
  <2>3. g \in [0..k -> S]
    BY <2>2
  <2>4. g[0] = x0
    BY <2>1
  <2>5. \A i \in 1..k : g[i] = step[i][g[i - 1]]
    BY <2>1
  <2> HIDE DEF g
  <2> QED BY <2>3, <2>4, <2>5
<1> SUFFICES P(n)
  OBVIOUS
<1> HIDE DEF P
<1>3. 0 \in Q /\ \A k \in 1..n : k - 1 \in Q => k \in Q
  BY <1>1, <1>2
<1>4. n \in Q
  <2> HIDE DEF Q
  <2>1. n \in 0..n
    OBVIOUS
  <2> QED BY <1>3, <2>1, UpTo
<1> QED BY <1>4

-----------------------------------------------------------------------------
(* The elements of sequences.                                              *)

IsSeq(s) == s \in Seq(ToSet(s))

\* The elements of a sequence are at its places.
LEMMA ToSetIs ==
  ASSUME NEW S, NEW s \in Seq(S)
  PROVE  /\ \A x : x \in ToSet(s) <=> \E i \in 1..Len(s) : x = s[i]
         /\ IsSeq(s) /\ ToSet(s) \subseteq S
<1>1. DOMAIN s = 1..Len(s) /\ Len(s) \in Nat /\ \A i \in 1..Len(s) : s[i] \in S
  OBVIOUS
<1>2. \A x : x \in ToSet(s) <=> \E i \in 1..Len(s) : x = s[i]
  BY <1>1 DEF ToSet
<1>3. s \in [1..Len(s) -> ToSet(s)]
  BY <1>1, <1>2
<1>4. s \in Seq(ToSet(s))
  BY <1>1, <1>3
<1> QED BY <1>1, <1>2, <1>4 DEF IsSeq

LEMMA ToSetAppend ==
  ASSUME NEW S, NEW s \in Seq(S), NEW e \in S
  PROVE  \A x : x \in ToSet(Append(s, e)) <=> x \in ToSet(s) \/ x = e
<1>0. PICK n \in Nat : n = Len(s)
  OBVIOUS
<1>1. PICK t \in Seq(S) : t = Append(s, e)
  <2>1. Append(s, e) \in Seq(S)
    OBVIOUS
  <2> QED BY <2>1, Zenon
<1>2. /\ Len(t) = n + 1 /\ t[n + 1] = e /\ \A i \in 1..n : t[i] = s[i]
  BY <1>0, <1>1
<1>3. \A x : x \in ToSet(t) <=> \E i \in 1..Len(t) : x = t[i]
  BY ToSetIs
<1>4. \A x : x \in ToSet(s) <=> \E i \in 1..n : x = s[i]
  BY <1>0, ToSetIs
<1>5. ASSUME NEW x PROVE x \in ToSet(t) <=> x \in ToSet(s) \/ x = e
  <2>1. ASSUME NEW i \in 1..Len(t) PROVE t[i] \in ToSet(s) \/ t[i] = e
    <3>1. i \in 1..n \/ i = n + 1
      BY <1>2
    <3> QED BY <1>2, <1>4, <3>1
  <2>2. ASSUME NEW i \in 1..n PROVE s[i] \in ToSet(t)
    <3>1. i \in 1..Len(t) /\ t[i] = s[i]
      BY <1>2
    <3> QED BY <1>3, <3>1
  <2>3. e \in ToSet(t)
    <3>1. n + 1 \in 1..Len(t)
      BY <1>2
    <3> QED BY <1>2, <1>3, <3>1
  <2> QED BY <1>3, <1>4, <2>1, <2>2, <2>3
<1> QED BY <1>1, <1>5

-----------------------------------------------------------------------------
(* modify.                                                                 *)

\* The elements of q: those of the list that do not go; those of x0 and the new.
Kept(q, n, gone, list) ==
  \A x : x \in ToSet(q) <=> \E j \in 1..n : ~ gone[j] /\ x = list[j]
Grown(q, n, x0, cand) ==
  \A x : x \in ToSet(q) <=> x \in ToSet(x0) \/ \E j \in 1..n : x = cand[j]

\* The two loops of rewrite_urls, over what they test: the elements that go ...
LEMMA RetainLoop ==
  ASSUME NEW T, NEW n \in Nat, NEW list \in [1..n -> T], NEW gone \in [1..n -> BOOLEAN]
  PROVE  /\ \E h : h = [i \in 0..n |-> IF i = 0 THEN <<>>
                          ELSE IF gone[i] THEN h[i - 1] ELSE Append(h[i - 1], list[i])]
         /\ \A h : h = [i \in 0..n |-> IF i = 0 THEN <<>>
                          ELSE IF gone[i] THEN h[i - 1] ELSE Append(h[i - 1], list[i])]
              => /\ h[n] \in Seq(T)
                 /\ Kept(h[n], n, gone, list)
<1>1. PICK S : S = Seq(T)
  OBVIOUS
<1> DEFINE step == [i \in 1..n |-> [s \in S |-> IF gone[i] THEN s ELSE Append(s, list[i])]]
<1>2. step \in Steps(n, S) /\ <<>> \in S
  BY <1>1 DEF Steps
<1>3. \E h : h = [i \in 0..n |-> IF i = 0 THEN <<>>
                    ELSE IF gone[i] THEN h[i - 1] ELSE Append(h[i - 1], list[i])]
  <2>1. PICK f : IsLoop(f, n, S, <<>>, step)
    <3> HIDE DEF step
    <3> QED BY <1>2, Loop
  <2>2. \A i \in 1..n : f[i] = IF gone[i] THEN f[i - 1] ELSE Append(f[i - 1], list[i])
    <3> TAKE i \in 1..n
    <3>1. f[i] = step[i][f[i - 1]] /\ f[i - 1] \in S
      BY <2>1 DEF IsLoop
    <3> QED BY <3>1
  <2>3. f \in [0..n -> S] /\ f[0] = <<>>
    BY <2>1 DEF IsLoop
  <2>4. \A i \in 0..n : f[i] = IF i = 0 THEN <<>>
                    ELSE IF gone[i] THEN f[i - 1] ELSE Append(f[i - 1], list[i])
    <3> TAKE i \in 0..n
    <3>1. CASE i = 0
      BY <2>3, <3>1
    <3>2. CASE i # 0
      <4>1. i \in 1..n
        BY <3>2
      <4> QED BY <2>2, <3>2, <4>1, Zenon
    <3> QED BY <3>1, <3>2
  <2>5. f = [i \in 0..n |-> IF i = 0 THEN <<>>
                    ELSE IF gone[i] THEN f[i - 1] ELSE Append(f[i - 1], list[i])]
    BY <2>3, <2>4
  <2> QED BY <2>5
<1>4. ASSUME NEW h, h = [i \in 0..n |-> IF i = 0 THEN <<>>
                    ELSE IF gone[i] THEN h[i - 1] ELSE Append(h[i - 1], list[i])]
      PROVE  /\ h[n] \in Seq(T)
             /\ Kept(h[n], n, gone, list)
  <2> DEFINE P(i) == Kept(h[i], i, gone, list)
             Q == {i \in 0..n : h[i] \in S /\ P(i)}
  <2>1. 0 \in Q
    <3>1. h[0] = <<>>
      BY <1>4
    <3>2. P(0)
      BY <3>1 DEF ToSet, Kept
    <3> HIDE DEF P
    <3> QED BY <1>2, <3>1, <3>2
  <2>2. ASSUME NEW k \in 1..n, k - 1 \in Q PROVE k \in Q
    <3>1. h[k] = IF gone[k] THEN h[k - 1] ELSE Append(h[k - 1], list[k])
      <4>1. k \in 0..n /\ k # 0
        OBVIOUS
      <4>2. h[k] = IF k = 0 THEN <<>> ELSE IF gone[k] THEN h[k - 1] ELSE Append(h[k - 1], list[k])
        BY <1>4, <4>1, Zenon
      <4> QED BY <4>1, <4>2
    <3>2. h[k - 1] \in Seq(T) /\ P(k - 1) /\ list[k] \in T
      BY <1>1, <2>2
    <3>3. h[k] \in Seq(T)
      BY <3>1, <3>2
    <3>4. ASSUME gone[k] PROVE P(k)
      <4>1. h[k] = h[k - 1]
        BY <3>1, <3>4
      <4>2. \A x : (\E j \in 1..k : ~ gone[j] /\ x = list[j])
                     <=> \E j \in 1..(k - 1) : ~ gone[j] /\ x = list[j]
        BY <3>4
      <4> QED BY <3>2, <4>1, <4>2 DEF Kept
    <3>5. ASSUME ~ gone[k] PROVE P(k)
      <4>1. h[k] = Append(h[k - 1], list[k])
        BY <3>1, <3>5
      <4>2. \A x : (\E j \in 1..k : ~ gone[j] /\ x = list[j])
                     <=> x = list[k] \/ \E j \in 1..(k - 1) : ~ gone[j] /\ x = list[j]
        BY <3>5
      <4>3. \A x : x \in ToSet(Append(h[k - 1], list[k])) <=> x \in ToSet(h[k - 1]) \/ x = list[k]
        BY <3>2, ToSetAppend
      <4> QED BY <3>2, <4>1, <4>2, <4>3 DEF Kept
    <3>6. P(k)
      BY <3>4, <3>5
    <3> HIDE DEF P
    <3> QED BY <1>1, <3>3, <3>6
  <2>3. n \in Q
    <3> HIDE DEF Q
    <3>1. n \in 0..n
      OBVIOUS
    <3> QED BY <2>1, <2>2, <3>1, UpTo
  <2> QED BY <1>1, <2>3
<1> QED BY <1>3, <1>4

\* ... and the ones that come, unless they are there.
LEMMA PushLoop ==
  ASSUME NEW T, NEW n \in Nat, NEW x0 \in Seq(T), NEW cand \in [1..n -> T]
  PROVE  /\ \E h : h = [i \in 0..n |-> IF i = 0 THEN x0
                          ELSE IF Contains(h[i - 1], cand[i]) THEN h[i - 1]
                               ELSE Append(h[i - 1], cand[i])]
         /\ \A h : h = [i \in 0..n |-> IF i = 0 THEN x0
                          ELSE IF Contains(h[i - 1], cand[i]) THEN h[i - 1]
                               ELSE Append(h[i - 1], cand[i])]
              => /\ h[n] \in Seq(T)
                 /\ Grown(h[n], n, x0, cand)
<1>1. PICK S : S = Seq(T)
  OBVIOUS
<1> DEFINE step == [i \in 1..n |-> [s \in S |-> IF Contains(s, cand[i]) THEN s ELSE Append(s, cand[i])]]
<1>2. step \in Steps(n, S) /\ x0 \in S
  BY <1>1 DEF Steps
<1>3. \E h : h = [i \in 0..n |-> IF i = 0 THEN x0
                    ELSE IF Contains(h[i - 1], cand[i]) THEN h[i - 1] ELSE Append(h[i - 1], cand[i])]
  <2>1. PICK f : IsLoop(f, n, S, x0, step)
    <3> HIDE DEF step
    <3> QED BY <1>2, Loop
  <2>2. \A i \in 1..n : f[i] = IF Contains(f[i - 1], cand[i]) THEN f[i - 1]
                               ELSE Append(f[i - 1], cand[i])
    <3> TAKE i \in 1..n
    <3>1. f[i] = step[i][f[i - 1]] /\ f[i - 1] \in S
      <4> HIDE DEF step
      <4> QED BY <2>1 DEF IsLoop
    <3>2. step[i] = [s \in S |-> IF Contains(s, cand[i]) THEN s ELSE Append(s, cand[i])]
      BY Zenon
    <3> HIDE DEF step
    <3> QED BY <3>1, <3>2, Zenon
  <2>3. f \in [0..n -> S] /\ f[0] = x0
    BY <2>1 DEF IsLoop
  <2>4. \A i \in 0..n : f[i] = IF i = 0 THEN x0
                    ELSE IF Contains(f[i - 1], cand[i]) THEN f[i - 1] ELSE Append(f[i - 1], cand[i])
    <3> TAKE i \in 0..n
    <3>1. CASE i = 0
      BY <2>3, <3>1
    <3>2. CASE i # 0
      <4>1. i \in 1..n
        BY <3>2
      <4> QED BY <2>2, <3>2, <4>1, Zenon
    <3> QED BY <3>1, <3>2
  <2>5. f = [i \in 0..n |-> IF i = 0 THEN x0
                    ELSE IF Contains(f[i - 1], cand[i]) THEN f[i - 1] ELSE Append(f[i - 1], cand[i])]
    BY <2>3, <2>4
  <2> QED BY <2>5
<1>4. ASSUME NEW h, h = [i \in 0..n |-> IF i = 0 THEN x0
                    ELSE IF Contains(h[i - 1], cand[i]) THEN h[i - 1] ELSE Append(h[i - 1], cand[i])]
      PROVE  /\ h[n] \in Seq(T)
             /\ Grown(h[n], n, x0, cand)
  <2> DEFINE P(i) == Grown(h[i], i, x0, cand)
             Q == {i \in 0..n : h[i] \in S /\ P(i)}
  <2>1. 0 \in Q
    <3>1. h[0] = x0
      BY <1>4
    <3>2. P(0)
      BY <3>1 DEF Grown
    <3> HIDE DEF P
    <3> QED BY <1>2, <3>1, <3>2
  <2>2. ASSUME NEW k \in 1..n, k - 1 \in Q PROVE k \in Q
    <3>1. h[k] = IF Contains(h[k - 1], cand[k]) THEN h[k - 1] ELSE Append(h[k - 1], cand[k])
      <4>1. k \in 0..n /\ k # 0
        OBVIOUS
      <4>2. h[k] = IF k = 0 THEN x0 ELSE IF Contains(h[k - 1], cand[k]) THEN h[k - 1] ELSE Append(h[k - 1], cand[k])
        BY <1>4, <4>1, Zenon
      <4> QED BY <4>1, <4>2
    <3>2. h[k - 1] \in Seq(T) /\ P(k - 1) /\ cand[k] \in T
      BY <1>1, <2>2
    <3>3. h[k] \in Seq(T)
      BY <3>1, <3>2
    <3>0. \A x : (\E j \in 1..k : x = cand[j]) <=> x = cand[k] \/ \E j \in 1..(k - 1) : x = cand[j]
      OBVIOUS
    <3>4. ASSUME Contains(h[k - 1], cand[k]) PROVE P(k)
      <4>1. h[k] = h[k - 1]
        BY <3>1, <3>4
      <4>2. cand[k] \in ToSet(h[k - 1])
        <5>1. \E i \in 1..Len(h[k - 1]) : cand[k] = h[k - 1][i]
          BY <3>4 DEF Contains
        <5> QED BY <3>2, <5>1, ToSetIs
      <4> QED BY <3>0, <3>2, <4>1, <4>2 DEF Grown
    <3>5. ASSUME ~ Contains(h[k - 1], cand[k]) PROVE P(k)
      <4>1. h[k] = Append(h[k - 1], cand[k])
        BY <3>1, <3>5
      <4>2. \A x : x \in ToSet(Append(h[k - 1], cand[k])) <=> x \in ToSet(h[k - 1]) \/ x = cand[k]
        BY <3>2, ToSetAppend
      <4> QED BY <3>0, <3>2, <4>1, <4>2 DEF Grown
    <3>6. P(k)
      BY <3>4, <3>5
    <3> HIDE DEF P
    <3> QED BY <1>1, <3>3, <3>6
  <2>3. n \in Q
    <3> HIDE DEF Q
    <3>1. n \in 0..n
      OBVIOUS
    <3> QED BY <2>1, <2>2, <3>1, UpTo
  <2> QED BY <1>1, <2>3
<1> QED BY <1>3, <1>4

\* What rewrite_urls leaves in a list was there, or is an added base with the
\* path of the first URL.
LEMMA RewriteUrls ==
  ASSUME NEW T, NEW list \in Seq(T), NEW m \in ModifyArgs,
         list # <<>> => \A b \in Base : Compose(b, list[1].path) \in T
  PROVE  /\ rewrite_urls(list, m) \in Seq(T)
         /\ rewrite_urls(<<>>, m) = <<>>
         /\ list # <<>> =>
              \A x : x \in ToSet(rewrite_urls(list, m)) <=>
                \/ /\ x \in ToSet(list)
                   /\ ~ \E i \in 1..Len(m.remove_base_url) : Under(x, m.remove_base_url[i])
                \/ \E i \in 1..Len(m.add_base_url) : x = Compose(m.add_base_url[i], list[1].path)
<1> DEFINE n == Len(list)
           a == Len(m.add_base_url)
           removed(u) == \E i \in 1..Len(m.remove_base_url) : Under(u, m.remove_base_url[i])
           Retain(h) == [i \in 0..n |-> IF i = 0 THEN <<>>
                           ELSE IF removed(list[i]) THEN h[i - 1] ELSE Append(h[i - 1], list[i])]
           retain == CHOOSE h : h = Retain(h)
           Push(h) == [i \in 0..a |-> IF i = 0 THEN retain[n]
                         ELSE IF Contains(h[i - 1], Compose(m.add_base_url[i], list[1].path))
                              THEN h[i - 1]
                              ELSE Append(h[i - 1], Compose(m.add_base_url[i], list[1].path))]
           push == CHOOSE h : h = Push(h)
           gone == [i \in 1..n |-> removed(list[i])]
           cand == [i \in 1..a |-> Compose(m.add_base_url[i], list[1].path)]
           RetainG(h) == [i \in 0..n |-> IF i = 0 THEN <<>>
                           ELSE IF gone[i] THEN h[i - 1] ELSE Append(h[i - 1], list[i])]
           PushC(h) == [i \in 0..a |-> IF i = 0 THEN retain[n]
                          ELSE IF Contains(h[i - 1], cand[i]) THEN h[i - 1]
                               ELSE Append(h[i - 1], cand[i])]
<1>1. rewrite_urls(list, m) = IF list = <<>> THEN <<>> ELSE push[a]
  BY DEF rewrite_urls
<1>2. n \in Nat /\ a \in Nat /\ list \in [1..n -> T] /\ \A i \in 1..a : m.add_base_url[i] \in Base
  BY DEF ModifyArgs
<1>3. gone \in [1..n -> BOOLEAN] /\ \A i \in 1..n : gone[i] = removed(list[i])
  <2> HIDE DEF n
  <2> QED BY Zenon
<1>4. ASSUME NEW h PROVE Retain(h) = RetainG(h)
  <2> HIDE DEF gone, removed, n
  <2> QED BY <1>2, <1>3
<1>5. /\ retain[n] \in Seq(T)
      /\ Kept(retain[n], n, gone, list)
  <2>1. /\ \E h : h = RetainG(h)
        /\ \A h : h = RetainG(h) =>
             /\ h[n] \in Seq(T)
             /\ Kept(h[n], n, gone, list)
    <3> HIDE DEF gone, removed, n
    <3> QED BY <1>2, <1>3, RetainLoop
  <2> HIDE DEF Retain, RetainG, gone, removed, n
  <2>2. retain = Retain(retain)
    BY <1>4, <2>1
  <2> QED BY <1>4, <2>1, <2>2
<1>6. ASSUME list # <<>>
      PROVE  /\ push[a] \in Seq(T)
             /\ Grown(push[a], a, retain[n], cand)
  <2>1. cand \in [1..a -> T] /\ \A i \in 1..a : cand[i] = Compose(m.add_base_url[i], list[1].path)
    BY <1>2, <1>6
  <2> HIDE DEF retain
  <2>2. ASSUME NEW h PROVE Push(h) = PushC(h)
    <3> HIDE DEF cand, a, n
    <3> QED BY <1>2, <2>1
  <2>3. PICK x0 \in Seq(T) : x0 = retain[n]
    BY <1>5
  <2>4. /\ \E h : h = PushC(h)
        /\ \A h : h = PushC(h) =>
             /\ h[a] \in Seq(T)
             /\ Grown(h[a], a, retain[n], cand)
    <3> HIDE DEF cand, a, n
    <3> QED BY <1>2, <2>1, <2>3, PushLoop
  <2> HIDE DEF Push, PushC, cand, a, n
  <2>5. push = Push(push)
    BY <2>2, <2>4
  <2> QED BY <2>2, <2>4, <2>5
<1>7. rewrite_urls(<<>>, m) = <<>>
  BY DEF rewrite_urls
<1>8. ASSUME list # <<>>
      PROVE  \A x : x \in ToSet(push[a]) <=>
               \/ x \in ToSet(list) /\ ~ removed(x)
               \/ \E i \in 1..a : x = Compose(m.add_base_url[i], list[1].path)
  <2> HIDE DEF push, retain, removed
  <2>1. \A x : (\E i \in 1..a : x = cand[i])
                 <=> \E i \in 1..a : x = Compose(m.add_base_url[i], list[1].path)
    OBVIOUS
  <2>2. \A x : x \in ToSet(list) <=> \E j \in 1..n : x = list[j]
    BY ToSetIs
  <2> HIDE DEF cand, gone, n, a
  <2>3. \A x : (\E j \in 1..n : ~ gone[j] /\ x = list[j]) <=> x \in ToSet(list) /\ ~ removed(x)
    BY <1>3, <2>2
  <2> QED BY <1>5, <1>6, <1>8, <2>1, <2>3 DEF Kept, Grown
<1> HIDE DEF push
<1> QED BY <1>1, <1>6, <1>7, <1>8

-----------------------------------------------------------------------------
(* The files that `create` writes.                                         *)

\* What is in a concatenation is in one of its parts.
LEMMA ToSetConcat ==
  ASSUME NEW s, NEW t, IsSeq(s), IsSeq(t)
  PROVE  IsSeq(s \o t) /\ ToSet(s \o t) = ToSet(s) \cup ToSet(t)
<1>1. PICK S : S = ToSet(s) \cup ToSet(t)
  OBVIOUS
<1>2. s \in Seq(S) /\ t \in Seq(S)
  BY <1>1 DEF IsSeq
<1>3. s \o t \in Seq(S)
  BY <1>2
<1>4. ToSet(s \o t) \subseteq S
  BY <1>3 DEF ToSet
<1>5. ASSUME NEW i \in 1..Len(s) PROVE s[i] \in ToSet(s \o t)
  <2>1. i \in 1..Len(s \o t) /\ (s \o t)[i] = s[i]
    BY <1>2
  <2> QED BY <1>3, <2>1, ToSetIs
<1>6. ASSUME NEW i \in 1..Len(t) PROVE t[i] \in ToSet(s \o t)
  <2>1. Len(s) + i \in 1..Len(s \o t) /\ (s \o t)[Len(s) + i] = t[i]
    BY <1>2
  <2> QED BY <1>3, <2>1, ToSetIs
<1>7. S \subseteq ToSet(s \o t)
  <2>1. ASSUME NEW x \in S PROVE x \in ToSet(s \o t)
    <3>1. CASE x \in ToSet(s)
      BY <1>2, <1>5, <3>1, ToSetIs
    <3>2. CASE x \in ToSet(t)
      BY <1>2, <1>6, <3>2, ToSetIs
    <3> QED BY <1>1, <3>1, <3>2
  <2> QED BY <2>1
<1> QED BY <1>1, <1>3, <1>4, <1>7 DEF IsSeq

\* A sequence is its head and its tail.
LEMMA ToSetTail ==
  ASSUME NEW s, IsSeq(s), s # <<>>
  PROVE  /\ Head(s) \in ToSet(s) /\ IsSeq(Tail(s))
         /\ ToSet(s) = {Head(s)} \cup ToSet(Tail(s))
<1>1. PICK S : S = ToSet(s)
  OBVIOUS
<1>2. s \in Seq(S) /\ Len(s) \in Nat /\ Len(s) # 0 /\ DOMAIN s = 1..Len(s)
  BY <1>1 DEF IsSeq
<1>3. /\ Tail(s) \in Seq(S) /\ Len(Tail(s)) = Len(s) - 1
      /\ \A i \in 1..(Len(s) - 1) : Tail(s)[i] = s[i + 1]
  BY <1>2
<1>4. Head(s) = s[1] /\ 1 \in DOMAIN s
  BY <1>2
<1>5. ToSet(Tail(s)) \subseteq S
  BY <1>3 DEF ToSet
<1>6. ASSUME NEW i \in DOMAIN s PROVE s[i] \in {Head(s)} \cup ToSet(Tail(s))
  <2>1. CASE i = 1
    BY <1>4, <2>1
  <2>2. CASE i # 1
    <3>1. i - 1 \in 1..(Len(s) - 1) /\ Tail(s)[i - 1] = s[(i - 1) + 1] /\ (i - 1) + 1 = i
      BY <1>2, <1>3, <2>2
    <3>2. i - 1 \in DOMAIN Tail(s)
      BY <1>2, <1>3, <3>1
    <3> QED BY <3>1, <3>2 DEF ToSet
  <2> QED BY <2>1, <2>2
<1>7. IsSeq(Tail(s))
  BY <1>3, ToSetIs
<1> QED BY <1>1, <1>4, <1>5, <1>6, <1>7 DEF ToSet

SignedSet(name, content, key, domain) ==
  IF key = None
  THEN {Write(name, content)}
  ELSE {Write(name, content), WriteSig(name, sign(key, domain, content))}

LEMMA SignedIs ==
  ASSUME NEW name, NEW content, NEW key, NEW domain
  PROVE  /\ IsSeq(Signed(name, content, key, domain))
         /\ ToSet(Signed(name, content, key, domain)) = SignedSet(name, content, key, domain)
<1>1. PICK w : w = Write(name, content)
  OBVIOUS
<1>2. PICK x : x = WriteSig(name, sign(key, domain, content))
  OBVIOUS
<1>3. IsSeq(<<w>>) /\ ToSet(<<w>>) = {w}
  BY DEF IsSeq, ToSet
<1>4. IsSeq(<<w, x>>) /\ ToSet(<<w, x>>) = {w, x}
  BY DEF IsSeq, ToSet
<1> QED BY <1>1, <1>2, <1>3, <1>4 DEF Signed, SignedSet

\* The files of a release, in no order.
WriteSet(a) ==
  SignedSet("linux.efi", a.uki, payload_key(a), "stage1.uki")
  \cup SignedSet("stage2", a.stage2, payload_key(a), "stage2.payload")
  \cup (IF a.sign_args /\ a.args # Malformed
        THEN SignedSet("args.json", [args |-> a.args], a.key, "stage2.args")
        ELSE {})
  \cup (IF a.manifest /\ a.args # Malformed
        THEN SignedSet("linux.efi.manifest.json", Fragment(uki_payload(a)),
                       a.key, "stage1.manifest")
             \cup SignedSet("stage2.manifest.json", Fragment(stage2_payload(a)),
                            a.key, "stage2.manifest")
        ELSE {})

LEMMA WritesAre ==
  ASSUME NEW a
  PROVE  IsSeq(Writes(a)) /\ ToSet(Writes(a)) = WriteSet(a)
<1>1. IsSeq(<<>>) /\ ToSet(<<>>) = {}
  BY DEF IsSeq, ToSet
<1>2. PICK p1 : p1 = Signed("linux.efi", a.uki, payload_key(a), "stage1.uki")
  OBVIOUS
<1>3. PICK p2 : p2 = Signed("stage2", a.stage2, payload_key(a), "stage2.payload")
  OBVIOUS
<1>4. PICK p3 : p3 = IF a.sign_args /\ a.args # Malformed
                     THEN Signed("args.json", [args |-> a.args], a.key, "stage2.args")
                     ELSE <<>>
  OBVIOUS
<1>5. PICK m1 : m1 = Signed("linux.efi.manifest.json", Fragment(uki_payload(a)),
                            a.key, "stage1.manifest")
  OBVIOUS
<1>6. PICK m2 : m2 = Signed("stage2.manifest.json", Fragment(stage2_payload(a)),
                            a.key, "stage2.manifest")
  OBVIOUS
<1>7. PICK p4 : p4 = IF a.manifest /\ a.args # Malformed THEN m1 \o m2 ELSE <<>>
  OBVIOUS
<1>8. Writes(a) = p1 \o p2 \o p3 \o p4
  BY <1>2, <1>3, <1>4, <1>5, <1>6, <1>7 DEF Writes
<1>9. /\ IsSeq(p1)
      /\ ToSet(p1) = SignedSet("linux.efi", a.uki, payload_key(a), "stage1.uki")
  BY <1>2, SignedIs
<1>10. /\ IsSeq(p2)
       /\ ToSet(p2) = SignedSet("stage2", a.stage2, payload_key(a), "stage2.payload")
  BY <1>3, SignedIs
<1>11. /\ IsSeq(p3)
       /\ ToSet(p3) = IF a.sign_args /\ a.args # Malformed
                      THEN SignedSet("args.json", [args |-> a.args], a.key, "stage2.args")
                      ELSE {}
  <2> DEFINE c == [args |-> a.args]
  <2>1. /\ IsSeq(Signed("args.json", c, a.key, "stage2.args"))
        /\ ToSet(Signed("args.json", c, a.key, "stage2.args"))
             = SignedSet("args.json", c, a.key, "stage2.args")
    <3> HIDE DEF c
    <3> QED BY SignedIs
  <2> QED BY <1>1, <1>4, <2>1, Zenon
<1>12. /\ IsSeq(m1)
       /\ ToSet(m1) = SignedSet("linux.efi.manifest.json", Fragment(uki_payload(a)),
                                a.key, "stage1.manifest")
  BY <1>5, SignedIs
<1>13. /\ IsSeq(m2)
       /\ ToSet(m2) = SignedSet("stage2.manifest.json", Fragment(stage2_payload(a)),
                                a.key, "stage2.manifest")
  BY <1>6, SignedIs
<1>14. /\ IsSeq(p4)
       /\ ToSet(p4) = IF a.manifest /\ a.args # Malformed THEN ToSet(m1) \cup ToSet(m2) ELSE {}
  BY <1>1, <1>7, <1>12, <1>13, ToSetConcat
<1>15. IsSeq(p1 \o p2) /\ ToSet(p1 \o p2) = ToSet(p1) \cup ToSet(p2)
  BY <1>9, <1>10, ToSetConcat
<1>16. IsSeq(p1 \o p2 \o p3) /\ ToSet(p1 \o p2 \o p3) = ToSet(p1) \cup ToSet(p2) \cup ToSet(p3)
  BY <1>11, <1>15, ToSetConcat
<1>17. /\ IsSeq(p1 \o p2 \o p3 \o p4)
       /\ ToSet(p1 \o p2 \o p3 \o p4) = ToSet(p1) \cup ToSet(p2) \cup ToSet(p3) \cup ToSet(p4)
  BY <1>14, <1>16, ToSetConcat
<1> QED BY <1>8, <1>9, <1>10, <1>11, <1>12, <1>13, <1>14, <1>17 DEF WriteSet

\* No file is written twice with different contents.
LEMMA OneContent ==
  ASSUME NEW a, NEW w1 \in WriteSet(a), NEW w2 \in WriteSet(a), w1.file = w2.file
  PROVE  w1.content = w2.content
BY DEF WriteSet, SignedSet, Write, WriteSig

\* They are files of the directory.
LEMMA WritesFiles ==
  ASSUME NEW a, NEW w \in WriteSet(a)
  PROVE  w.file \in File
<1> DEFINE Name == {"linux.efi", "stage2", "args.json", "linux.efi.manifest.json",
                    "stage2.manifest.json"}
<1>1. ASSUME NEW n \in Name, NEW c, NEW k, NEW d, w \in SignedSet(n, c, k, d)
      PROVE  w.file \in File
  <2>1. w = Write(n, c) \/ w = WriteSig(n, sign(k, d, c))
    BY <1>1 DEF SignedSet
  <2>2. w.file = [name |-> n, sig |-> FALSE] \/ w.file = [name |-> n, sig |-> TRUE]
    <3>1. ASSUME NEW f, NEW x PROVE [file |-> f, content |-> x].file = f
      OBVIOUS
    <3> QED BY <2>1, <3>1, Zenon DEF Write, WriteSig
  <2>3. [name |-> n, sig |-> FALSE] \in File
    BY DEF File
  <2>4. [name |-> n, sig |-> TRUE] \in File
    BY DEF File
  <2> QED BY <2>2, <2>3, <2>4
<1> QED BY <1>1 DEF WriteSet

\* What `create` is called with.
LEMMA CreateArgsAre ==
  ASSUME NEW a \in Creates
  PROVE  /\ a \in CreateArgs
         /\ a.arch \in Arch /\ a.uki \in Bytes /\ a.stage2 \in Bytes
         /\ a.key \in Keys \cup {None}
         /\ a.base_url \in Seq(Base) /\ a.base_url # <<>>
         /\ a.args \in Seq(Arg) \cup {None, Malformed}
         /\ a.sign_args \in BOOLEAN /\ a.manifest \in BOOLEAN
         /\ (a.sign_args => a.key # None /\ a.args # None)
         /\ (a.manifest => a.key # None)
<1>1. a \in CreateArgs
  BY DeployAssumption
<1> QED BY <1>1 DEF CreateArgs

-----------------------------------------------------------------------------
(* The directory.                                                          *)

Written == {Absent, Torn} \cup UNION {{w.content : w \in ToSet(Writes(a))} : a \in Creates}

\* Content c of file f is no file, a torn one, or what a `create` writes.
Held(arch, f, c) ==
  \/ c \in {Absent, Torn}
  \/ \E a \in Creates : /\ a.arch = arch /\ ~ Refused(a)
                        /\ \E w \in WriteSet(a) : w.file = f /\ w.content = c

FilesInv ==
  /\ dir \in [Arch -> [File -> Written]]
  /\ \A arch \in Arch, f \in File : Held(arch, f, dir[arch][f])

\* What a running `create` has not left to do is done.
JobInv ==
  job # None =>
    /\ job = [a |-> job.a, todo |-> job.todo]
    /\ job.a \in Creates /\ ~ Refused(job.a)
    /\ IsSeq(job.todo) /\ ToSet(job.todo) \subseteq WriteSet(job.a)
    /\ \A w \in WriteSet(job.a) :
         w \in ToSet(job.todo) \/ dir[job.a.arch][w.file] = w.content
    /\ released[job.a.arch] = None

ReleasedInv ==
  /\ released \in [Arch -> Creates \cup {None}]
  /\ \A arch \in Arch : released[arch] # None =>
       /\ released[arch].arch = arch /\ ~ Refused(released[arch])
       /\ EmitsValid(released[arch])
       /\ \A w \in WriteSet(released[arch]) : dir[arch][w.file] = w.content

DirInv == FilesInv /\ JobInv /\ ReleasedInv

\* Writing one file changes that file.
LEMMA PutFile ==
  ASSUME NEW S, NEW d \in [Arch -> [File -> S]], NEW arch \in Arch, NEW f \in File, NEW c \in S
  PROVE  /\ [d EXCEPT ![arch][f] = c] \in [Arch -> [File -> S]]
         /\ [d EXCEPT ![arch][f] = c][arch][f] = c
         /\ \A x \in Arch, g \in File : x # arch \/ g # f =>
              [d EXCEPT ![arch][f] = c][x][g] = d[x][g]
OBVIOUS

LEMMA DirInvInit == Init => DirInv
<1> SUFFICES ASSUME Init PROVE DirInv
  OBVIOUS
<1>1. Absent \in Written
  BY Zenon DEF Written
<1>2. FilesInv
  BY <1>1 DEF Init, FilesInv, Held
<1> QED BY <1>2 DEF Init, DirInv, JobInv, ReleasedInv

LEMMA DirInvNext == DirInv /\ [Next]_vars => DirInv'
<1> SUFFICES ASSUME DirInv, [Next]_vars PROVE DirInv'
  OBVIOUS
<1> USE DEF DirInv
<1>1. Absent \in Written /\ Torn \in Written
  BY DEF Written
<1>2. ASSUME NEW a \in Creates, NEW w \in WriteSet(a) PROVE w.content \in Written
  BY <1>2, WritesAre DEF Written
<1>3. ASSUME NEW a \in Creates, create(a) PROVE DirInv'
  <2> USE DEF create
  <2>1. FilesInv'
    BY <1>3 DEF FilesInv
  <2>2. JobInv'
    <3>1. a.arch \in Arch
      BY CreateArgsAre
    <3> QED BY <1>3, <3>1, WritesAre DEF JobInv, ReleasedInv
  <2>3. ReleasedInv'
    BY <1>3 DEF ReleasedInv
  <2> QED BY <2>1, <2>2, <2>3
<1>4. CASE write_file
  <2>1. PICK w : w = Head(job.todo)
    OBVIOUS
  <2>2. PICK a \in Creates : a = job.a /\ ~ Refused(a) /\ a.arch \in Arch
    BY <1>4, CreateArgsAre DEF write_file, JobInv
  <2>3. /\ w \in ToSet(job.todo) /\ w \in WriteSet(a) /\ w.file \in File /\ w.content \in Written
        /\ IsSeq(Tail(job.todo))
        /\ ToSet(job.todo) = {w} \cup ToSet(Tail(job.todo))
    <3>1. IsSeq(job.todo) /\ job.todo # <<>> /\ ToSet(job.todo) \subseteq WriteSet(a)
      BY <1>4, <2>2 DEF write_file, JobInv
    <3> QED BY <2>1, <3>1, <1>2, ToSetTail, WritesFiles
  <2>4. /\ dir' = [dir EXCEPT ![a.arch][w.file] = w.content]
        /\ job' = [a |-> a, todo |-> Tail(job.todo)]
        /\ UNCHANGED <<doc, released, published>>
    BY <1>4, <2>1, <2>2 DEF write_file, JobInv
  <2>5. /\ dir' \in [Arch -> [File -> Written]]
        /\ dir'[a.arch][w.file] = w.content
        /\ \A x \in Arch, g \in File : x # a.arch \/ g # w.file => dir'[x][g] = dir[x][g]
    BY <2>2, <2>3, <2>4, PutFile DEF FilesInv
  <2>6. FilesInv'
    <3> SUFFICES ASSUME NEW x \in Arch, NEW g \in File PROVE Held(x, g, dir'[x][g])
      BY <2>5 DEF FilesInv
    <3>1. CASE x = a.arch /\ g = w.file
      BY <2>2, <2>3, <2>5, <3>1 DEF Held
    <3>2. CASE ~ (x = a.arch /\ g = w.file)
      BY <2>5, <3>2 DEF FilesInv
    <3> QED BY <3>1, <3>2
  <2>7. released[a.arch] = None /\ \A v \in WriteSet(a) : v \in ToSet(job.todo) \/ dir[a.arch][v.file] = v.content
    BY <1>4, <2>2 DEF JobInv, write_file
  <2>8. JobInv'
    <3>1. ASSUME NEW v \in WriteSet(a)
          PROVE  v \in ToSet(Tail(job.todo)) \/ dir'[a.arch][v.file] = v.content
      <4>1. CASE v.file = w.file
        BY <2>3, <2>5, <4>1, OneContent
      <4>2. CASE v.file # w.file
        <5>1. dir'[a.arch][v.file] = dir[a.arch][v.file]
          BY <2>2, <2>5, <4>2, WritesFiles
        <5> QED BY <2>3, <2>7, <4>2, <5>1
      <4> QED BY <4>1, <4>2
    <3>2. job'.a = a /\ job'.todo = Tail(job.todo) /\ released' = released
      BY <2>4
    <3>3. job' = [a |-> job'.a, todo |-> job'.todo]
      BY <2>4, <3>2
    <3>4. ToSet(Tail(job.todo)) \subseteq WriteSet(a)
      BY <1>4, <2>2, <2>3 DEF JobInv, write_file
    <3> QED BY <2>2, <2>3, <2>7, <3>1, <3>2, <3>3, <3>4 DEF JobInv
  <2>9. ReleasedInv'
    <3>1. ASSUME NEW x \in Arch, released[x] # None, NEW v \in WriteSet(released[x])
          PROVE  dir'[x][v.file] = dir[x][v.file]
      BY <2>5, <2>7, <3>1, WritesFiles
    <3> QED BY <2>4, <3>1 DEF ReleasedInv
  <2> QED BY <2>6, <2>8, <2>9
<1>5. CASE merge_user_data
  <2> USE DEF merge_user_data
  <2>1. FilesInv' /\ JobInv'
    BY <1>5 DEF FilesInv, JobInv
  <2>2. PICK a \in Creates : a = job.a /\ ~ Refused(a) /\ a.arch \in Arch /\ EmitsValid(a)
    BY <1>5, CreateArgsAre DEF JobInv
  <2>3. \A w \in WriteSet(a) : dir[a.arch][w.file] = w.content
    BY <1>5, <2>2 DEF JobInv, ToSet
  <2>4. dir' = dir /\ released' = [released EXCEPT ![a.arch] = a]
    BY <1>5, <2>2
  <2>5. ReleasedInv'
    BY <2>2, <2>3, <2>4 DEF ReleasedInv
  <2> QED BY <2>1, <2>5
<1>6. CASE bail
  BY <1>6 DEF bail, FilesInv, JobInv, ReleasedInv
<1>7. CASE create_dies
  <2>1. job' = None /\ UNCHANGED <<released, published>>
    BY <1>7 DEF create_dies
  <2>2. CASE dir' = dir
    BY <2>1, <2>2 DEF FilesInv, JobInv, ReleasedInv
  <2>3. CASE job.todo # <<>> /\ dir' = [dir EXCEPT ![job.a.arch][Head(job.todo).file] = Torn]
    <3>1. PICK w : w = Head(job.todo)
      OBVIOUS
    <3>2. PICK a \in Creates : a = job.a /\ a.arch \in Arch /\ released[a.arch] = None
      BY <1>7, CreateArgsAre DEF create_dies, JobInv
    <3>3. w.file \in File
      <4>1. IsSeq(job.todo) /\ job.todo # <<>> /\ ToSet(job.todo) \subseteq WriteSet(a)
        BY <1>7, <2>3, <3>2 DEF create_dies, JobInv
      <4> QED BY <3>1, <4>1, ToSetTail, WritesFiles
    <3>4. /\ dir' \in [Arch -> [File -> Written]]
          /\ dir'[a.arch][w.file] = Torn
          /\ \A x \in Arch, g \in File : x # a.arch \/ g # w.file => dir'[x][g] = dir[x][g]
      <4>1. dir' = [dir EXCEPT ![a.arch][w.file] = Torn]
        BY <2>3, <3>1, <3>2
      <4> QED BY <1>1, <3>2, <3>3, <4>1, PutFile DEF FilesInv
    <3>5. FilesInv'
      BY <3>2, <3>3, <3>4 DEF FilesInv, Held
    <3>6. ReleasedInv'
      <4>1. ASSUME NEW x \in Arch, released[x] # None, NEW v \in WriteSet(released[x])
            PROVE  dir'[x][v.file] = dir[x][v.file]
        BY <3>2, <3>4, <4>1, WritesFiles
      <4> QED BY <2>1, <4>1 DEF ReleasedInv
    <3> QED BY <2>1, <3>5, <3>6 DEF JobInv
  <2> QED BY <1>7, <2>2, <2>3 DEF create_dies
<1>8. ASSUME NEW m \in Modifies, modify(m) PROVE DirInv'
  BY <1>8 DEF modify, FilesInv, JobInv, ReleasedInv
<1>9. CASE discard
  BY <1>9 DEF discard, FilesInv, JobInv, ReleasedInv
<1>10. CASE UNCHANGED vars
  BY <1>10 DEF vars, FilesInv, JobInv, ReleasedInv
<1> QED BY <1>3, <1>4, <1>5, <1>6, <1>7, <1>8, <1>9, <1>10 DEF Next

-----------------------------------------------------------------------------
(* What `create` emits.                                                    *)

FileName(s) == IF s = "_stage1" THEN "linux.efi" ELSE "stage2"
CodeOf(a, s) == IF s = "_stage1" THEN a.uki ELSE a.stage2
PayloadOf(a, s) == IF s = "_stage1" THEN uki_payload(a) ELSE stage2_payload(a)

\* The payload's record, field by field.
LEMMA PayloadIs ==
  ASSUME NEW a, NEW s
  PROVE  PayloadOf(a, s) =
           [url          |-> compose_urls(a.base_url, a.arch, FileName(s)),
            sha256       |-> IF payload_key(a) = None THEN sha256(CodeOf(a, s)) ELSE Absent,
            ed25519      |-> IF payload_key(a) = None THEN Absent ELSE pubkey_b64(payload_key(a)),
            sig_url      |-> Absent,
            args         |-> IF s = "_stage1" \/ a.args = None \/ a.sign_args THEN Absent ELSE a.args,
            args_url     |-> IF s # "_stage1" /\ a.sign_args
                             THEN compose_urls(a.base_url, a.arch, "args.json") ELSE Absent,
            args_sig_url |-> Absent]
BY DEF PayloadOf, uki_payload, stage2_payload, build_payload, FileName, CodeOf

\* Base URLs with a file of the directory are URLs.
LEMMA ComposeUrls ==
  ASSUME NEW a \in Creates, NEW f \in File
  PROVE  /\ compose_urls(a.base_url, a.arch, f.name) \in UrlList
         /\ compose_urls(a.base_url, a.arch, f.name) # <<>>
         /\ Len(compose_urls(a.base_url, a.arch, f.name)) = Len(a.base_url)
<1>1. a.arch \in Arch /\ a.base_url \in Seq(Base) /\ a.base_url # <<>>
  BY CreateArgsAre
<1>2. Len(a.base_url) \in Nat \ {0}
  BY <1>1
<1>3. \A i \in 1..Len(a.base_url) : Compose(a.base_url[i], <<a.arch, f.name>>) \in Url
  BY <1>1, DeployAssumption
<1>4. compose_urls(a.base_url, a.arch, f.name) \in [1..Len(a.base_url) -> Url]
  BY <1>3 DEF compose_urls
<1> QED BY <1>2, <1>4 DEF UrlList

LEMMA FileNames ==
  ASSUME NEW n \in {"linux.efi", "stage2", "args.json",
                    "linux.efi.manifest.json", "stage2.manifest.json"}
  PROVE  \E f \in File : f.name = n
<1>1. [name |-> n, sig |-> FALSE] \in File
  BY DEF File
<1> QED BY <1>1

LEMMA PayloadTyped ==
  ASSUME NEW a \in Creates, a.args # Malformed, NEW s
  PROVE  PayloadOf(a, s) \in Payload
<1>1. /\ compose_urls(a.base_url, a.arch, FileName(s)) \in UrlList
      /\ compose_urls(a.base_url, a.arch, "args.json") \in UrlList
  BY ComposeUrls, FileNames DEF FileName
<1>2. CodeOf(a, s) \in Bytes /\ a.args \in Seq(Arg) \cup {None}
  BY CreateArgsAre DEF CodeOf
<1>3. sha256(CodeOf(a, s)) \in Hex
  BY <1>2 DEF sha256, Hex
<1>4. payload_key(a) # None => pubkey_b64(payload_key(a)) \in PubKey
  BY CreateArgsAre DEF payload_key, pubkey_b64, PubKey
<1> QED BY <1>1, <1>2, <1>3, <1>4, PayloadIs DEF Payload, Maybe

\* Inside a manifest, once it is parsed: the payload pinned, its arguments there.
LEMMA PinnedFields ==
  ASSUME NEW a \in Creates, a.manifest, ~ Refused(a), a.args # Malformed, NEW s \in Stage
  PROVE  LET p == Fields(PayloadOf(a, s))
         IN  /\ p.url = compose_urls(a.base_url, a.arch, FileName(s))
             /\ p.sha256 = sha256(CodeOf(a, s)) /\ p.sha256 # None
             /\ p.args_url = None
             /\ (IF p.args = None THEN <<>> ELSE p.args) = Promised(a, s).args
<1>1. payload_key(a) = None /\ ~ a.sign_args
  BY DEF payload_key, Refused
<1>2. sha256(CodeOf(a, s)) \notin {Absent, None}
  <2>1. sha256(CodeOf(a, s)) \in Hex
    BY CreateArgsAre DEF CodeOf, sha256, Hex
  <2> QED BY <2>1, NoObject
<1>3. compose_urls(a.base_url, a.arch, FileName(s)) # Absent
  <2>1. compose_urls(a.base_url, a.arch, FileName(s)) \in UrlList
    BY ComposeUrls, FileNames DEF FileName
  <2> QED BY <2>1, NoObject
<1>4. a.args # Absent
  BY CreateArgsAre, NoObject, MetadataAssumption
<1>5. PICK r : r = PayloadOf(a, s)
  OBVIOUS
<1>6. /\ {"url", "sha256", "args", "args_url"} \subseteq DOMAIN r
      /\ r.url = compose_urls(a.base_url, a.arch, FileName(s))
      /\ r.sha256 = sha256(CodeOf(a, s))
      /\ r.args_url = Absent
      /\ r.args = IF s = "_stage1" \/ a.args = None THEN Absent ELSE a.args
  BY <1>1, <1>5, PayloadIs
<1>7. /\ Fields(r).url = r.url /\ Fields(r).sha256 = r.sha256
      /\ Fields(r).args_url = None
      /\ Fields(r).args = IF s = "_stage1" \/ a.args = None THEN None ELSE a.args
  BY <1>2, <1>3, <1>4, <1>6 DEF Fields
<1>8. Promised(a, s).args = IF s = "_stage1" \/ a.args = None THEN <<>> ELSE a.args
  BY DEF Promised
<1> QED BY <1>2, <1>5, <1>6, <1>7, <1>8

-----------------------------------------------------------------------------
(* Manifests.                                                              *)

ManifestFile(s) == ManifestName(FileName(s))

\* The pointer of a document to a manifest, on some mirrors.
PointerTo(L, key) ==
  [payload |-> Absent,
   manifest |-> [url |-> L, ed25519 |-> pubkey_b64(key), sig_url |-> Absent, sha256 |-> Absent],
   resolved_manifests |-> Absent]

ServedUrl(arch, name) ==
  {u \in DeployUrl : /\ Len(u.path) >= 2
                     /\ u.path[Len(u.path) - 1] = arch
                     /\ u.path[Len(u.path)] = name}

\* Entry e points to the manifest of stage s of a's architecture, under a's key.
IsPointer(e, a, s) ==
  \E L \in Seq(ServedUrl(a.arch, ManifestFile(s))) : e = PointerTo(L, a.key)

\* A base and a path are a URL that `create` or `modify` may write.
LEMMA ComposeDeploy ==
  ASSUME NEW b \in Base, NEW path \in Seq(PathPart)
  PROVE  Compose(b, path) \in DeployUrl /\ Compose(b, path).path = b.path \o path
<1>1. b.scheme \in {"http", "https", "other"} /\ b.graphic \in BOOLEAN /\ b.path \in Seq(PathPart)
  BY DeployAssumption
<1>2. PICK full : full = b.path \o path
  OBVIOUS
<1>3. full \in Seq(PathPart)
  BY <1>1, <1>2
<1>4. b.host \in {x.host : x \in Base}
  OBVIOUS
<1>5. PICK u : u = Compose(b, path)
  OBVIOUS
<1>6. u = [scheme |-> b.scheme, graphic |-> b.graphic, template |-> FALSE,
           host |-> b.host, path |-> full]
  BY <1>2, <1>5 DEF Compose
<1>7. PICK H : H = {x.host : x \in Base}
  OBVIOUS
<1>8. u \in [scheme : {"http", "https", "other"}, graphic : BOOLEAN, template : {FALSE},
             host : H, path : Seq(PathPart)]
  BY <1>1, <1>3, <1>4, <1>6, <1>7
<1>9. u \in DeployUrl /\ u.path = full
  BY <1>6, <1>7, <1>8 DEF DeployUrl
<1> QED BY <1>2, <1>5, <1>9

LEMMA ComposeServed ==
  ASSUME NEW b \in Base, NEW arch, NEW name, NEW path \in Seq(PathPart), Len(path) >= 2,
         path[Len(path) - 1] = arch, path[Len(path)] = name
  PROVE  Compose(b, path) \in ServedUrl(arch, name)
<1>1. PICK front \in Seq(PathPart) : front = b.path
  BY DeployAssumption
<1>2. PICK full : full = front \o path
  OBVIOUS
<1>3. /\ full \in Seq(PathPart) /\ Len(full) >= 2
      /\ full[Len(full) - 1] = arch /\ full[Len(full)] = name
  <2>1. PICK k \in Nat, n \in Nat : k = Len(front) /\ n = Len(path)
    OBVIOUS
  <2>2. full \in Seq(PathPart) /\ Len(full) = k + n
    BY <1>2, <2>1
  <2>3. \A i \in 1..n : full[k + i] = path[i]
    BY <1>2, <2>1
  <2>4. PICK i \in 1..n, j \in 1..n : i = n - 1 /\ j = n
    BY <2>1
  <2>5. full[k + i] = arch /\ full[k + j] = name
    BY <2>1, <2>3, <2>4
  <2>6. Len(full) >= 2 /\ k + i = Len(full) - 1 /\ k + j = Len(full)
    BY <2>1, <2>2, <2>4
  <2> QED BY <2>2, <2>5, <2>6
<1>4. Compose(b, path) \in DeployUrl /\ Compose(b, path).path = full
  BY <1>1, <1>2, ComposeDeploy
<1> QED BY <1>3, <1>4 DEF ServedUrl

LEMMA EntryIsPointer ==
  ASSUME NEW a \in Creates, a.manifest, NEW s \in Stage
  PROVE  IsPointer(Entries(a)[s], a, s)
<1> DEFINE L == compose_urls(a.base_url, a.arch, ManifestFile(s))
<1>1. ManifestFile(s) \in PathPart /\ a.arch \in PathPart
  <2>1. \E f \in File : f.name = ManifestFile(s)
    BY FileNames DEF ManifestFile, ManifestName
  <2>2. a.arch \in Arch
    BY CreateArgsAre
  <2> QED BY <2>1, <2>2, Zenon DEF PathPart
<1>2. PICK path : path = <<a.arch, ManifestFile(s)>>
  OBVIOUS
<1>3. /\ path \in Seq(PathPart) /\ Len(path) = 2
      /\ path[1] = a.arch /\ path[2] = ManifestFile(s)
  BY <1>1, <1>2
<1>4. a.base_url \in Seq(Base)
  BY CreateArgsAre
<1>5. PICK T : T = ServedUrl(a.arch, ManifestFile(s))
  OBVIOUS
<1>6. \A i \in 1..Len(a.base_url) : Compose(a.base_url[i], path) \in T
  <2>1. /\ Len(path) >= 2 /\ path[Len(path) - 1] = a.arch
        /\ path[Len(path)] = ManifestFile(s)
    BY <1>3
  <2>2. ASSUME NEW b \in Base PROVE Compose(b, path) \in T
    BY <1>3, <1>5, <2>1, ComposeServed
  <2> QED BY <1>4, <2>2
<1>7. L \in [1..Len(a.base_url) -> T]
  BY <1>2, <1>6 DEF compose_urls
<1>8. L \in Seq(T)
  <2> HIDE DEF L
  <2> QED BY <1>4, <1>7
<1>9. Entries(a)[s] = PointerTo(L, a.key)
  BY DEF Entries, ArchEntry, PointerTo, ManifestFile, FileName, Stage
<1> HIDE DEF L
<1> QED BY <1>5, <1>8, <1>9 DEF IsPointer

\* `modify` leaves a pointer a pointer to the same manifest.
LEMMA RewritePointer ==
  ASSUME NEW e, NEW a, NEW s, IsPointer(e, a, s), NEW m \in ModifyArgs
  PROVE  IsPointer(RewriteEntry(e, m), a, s)
<1>1. PICK T : T = ServedUrl(a.arch, ManifestFile(s))
  OBVIOUS
<1>2. PICK L \in Seq(T) : e = PointerTo(L, a.key)
  BY <1>1 DEF IsPointer
<1>3. L # <<>> => \A b \in Base : Compose(b, L[1].path) \in T
  <2>1. SUFFICES ASSUME L # <<>>, NEW b \in Base PROVE Compose(b, L[1].path) \in T
    OBVIOUS
  <2>2. L[1] \in T
    BY <1>2, <2>1
  <2>3. /\ L[1].path \in Seq(PathPart) /\ Len(L[1].path) >= 2
        /\ L[1].path[Len(L[1].path) - 1] = a.arch
        /\ L[1].path[Len(L[1].path)] = ManifestFile(s)
    BY <1>1, <2>2 DEF ServedUrl, DeployUrl
  <2> QED BY <1>1, <2>3, ComposeServed
<1>4. rewrite_urls(L, m) \in Seq(T)
  BY <1>3, RewriteUrls
<1>5. PICK k : k = pubkey_b64(a.key)
  OBVIOUS
<1>6. PICK r : r = [url |-> L, ed25519 |-> k, sig_url |-> Absent, sha256 |-> Absent]
  OBVIOUS
<1>7. \E M \in Seq(T) :
        RewriteFields(r, m) = [url |-> M, ed25519 |-> k, sig_url |-> Absent, sha256 |-> Absent]
  <2>1. CASE ~ Given(r)
    <3>1. RewriteFields(r, m) = r
      BY <2>1 DEF RewriteFields
    <3> QED BY <1>2, <1>6, <3>1, Zenon
  <2>2. CASE Given(r)
    <3>1. PICK M \in Seq(T) : M = IF Given(L) THEN rewrite_urls(L, m) ELSE L
      BY <1>4
    <3>2. RewriteFields(r, m) = [url |-> M, ed25519 |-> k, sig_url |-> Absent, sha256 |-> Absent]
      BY <1>6, <2>2, <3>1 DEF RewriteFields, Given
    <3> QED BY <3>2, Zenon
  <2> QED BY <2>1, <2>2
<1>8. e = [payload |-> Absent, manifest |-> r, resolved_manifests |-> Absent]
  BY <1>2, <1>5, <1>6 DEF PointerTo
<1>9. RewriteFields(Absent, m) = Absent
  BY DEF RewriteFields, Given
<1>10. CASE ~ Given(e)
  BY <1>10 DEF RewriteEntry
<1>11. CASE Given(e)
  <2>1. RewriteEntry(e, m) = [payload |-> Absent, manifest |-> RewriteFields(r, m),
                              resolved_manifests |-> Absent]
    BY <1>8, <1>9, <1>11 DEF RewriteEntry
  <2>2. PICK M \in Seq(T) : RewriteFields(r, m) = [url |-> M, ed25519 |-> k, sig_url |-> Absent,
                                                  sha256 |-> Absent]
    BY <1>7, Zenon
  <2>3. RewriteEntry(e, m) = PointerTo(M, a.key)
    BY <1>5, <2>1, <2>2 DEF PointerTo
  <2> QED BY <1>1, <2>3 DEF IsPointer
<1> QED BY <1>10, <1>11

-----------------------------------------------------------------------------
(* The type of user-data.json.                                             *)

LEMMA ComposeListTyped ==
  ASSUME NEW a \in Creates, NEW f \in File
  PROVE  compose_urls(a.base_url, a.arch, f.name) \in Seq(DeployUrl)
<1>1. a.base_url \in Seq(Base) /\ a.arch \in Arch
  BY CreateArgsAre
<1>2. a.arch \in PathPart /\ f.name \in PathPart
  BY <1>1, Zenon DEF PathPart
<1>3. PICK path : path = <<a.arch, f.name>>
  OBVIOUS
<1>4. path \in Seq(PathPart)
  BY <1>2, <1>3
<1>5. PICK T : T = DeployUrl
  OBVIOUS
<1>6. ASSUME NEW i \in 1..Len(a.base_url) PROVE Compose(a.base_url[i], path) \in T
  BY <1>1, <1>4, <1>5, ComposeDeploy
<1>7. PICK L : L = compose_urls(a.base_url, a.arch, f.name)
  OBVIOUS
<1>8. L \in [1..Len(a.base_url) -> T]
  BY <1>3, <1>6, <1>7 DEF compose_urls
<1>9. L \in Seq(T)
  BY <1>1, <1>8
<1> QED BY <1>5, <1>7, <1>9

LEMMA EmittedPayloadTyped ==
  ASSUME NEW a \in Creates, a.args # Malformed, NEW s
  PROVE  PayloadOf(a, s) \in EmittedPayload
<1>1. /\ compose_urls(a.base_url, a.arch, FileName(s)) \in Seq(DeployUrl)
      /\ compose_urls(a.base_url, a.arch, "args.json") \in Seq(DeployUrl)
  BY ComposeListTyped, FileNames DEF FileName
<1>2. CodeOf(a, s) \in Bytes /\ a.args \in Seq(Arg) \cup {None}
  BY CreateArgsAre DEF CodeOf
<1>3. sha256(CodeOf(a, s)) \in Hex
  BY <1>2 DEF sha256, Hex
<1>4. payload_key(a) # None => pubkey_b64(payload_key(a)) \in PubKey
  BY CreateArgsAre DEF payload_key, pubkey_b64, PubKey
<1> QED BY <1>1, <1>2, <1>3, <1>4, PayloadIs DEF EmittedPayload

LEMMA PointerTyped ==
  ASSUME NEW a \in Creates, a.manifest, NEW L \in Seq(DeployUrl)
  PROVE  PointerTo(L, a.key).manifest \in EmittedPointer
<1>1. pubkey_b64(a.key) \in PubKey
  BY CreateArgsAre DEF pubkey_b64, PubKey
<1> QED BY <1>1 DEF PointerTo, EmittedPointer

\* The entries in the terms of the parts above.
LEMMA EntriesAre ==
  ASSUME NEW a, NEW s \in Stage
  PROVE  Entries(a)[s] =
           IF a.manifest THEN PointerTo(compose_urls(a.base_url, a.arch, ManifestFile(s)), a.key)
           ELSE [payload |-> PayloadOf(a, s), manifest |-> Absent, resolved_manifests |-> Absent]
BY DEF Entries, ArchEntry, PointerTo, ManifestFile, FileName, PayloadOf, Stage

LEMMA EntriesTyped ==
  ASSUME NEW a \in Creates, a.args # Malformed, NEW s \in Stage
  PROVE  Entries(a)[s] \in EmittedEntry
<1>1. CASE a.manifest
  <2>1. PICK L \in Seq(DeployUrl) : L = compose_urls(a.base_url, a.arch, ManifestFile(s))
    BY ComposeListTyped, FileNames DEF ManifestFile, ManifestName
  <2>2. Entries(a)[s] = PointerTo(L, a.key)
    BY <1>1, <2>1, EntriesAre, Zenon
  <2>3. PointerTo(L, a.key).manifest \in EmittedPointer
    BY <1>1, PointerTyped
  <2> QED BY <2>2, <2>3 DEF PointerTo, EmittedEntry
<1>2. CASE ~ a.manifest
  <2>1. Entries(a)[s] = [payload |-> PayloadOf(a, s), manifest |-> Absent,
                         resolved_manifests |-> Absent]
    BY <1>2, EntriesAre, Zenon
  <2> QED BY <2>1, EmittedPayloadTyped DEF EmittedEntry
<1> QED BY <1>1, <1>2

LEMMA RewriteTyped ==
  ASSUME NEW e \in EmittedEntry \cup {Absent}, NEW m \in ModifyArgs
  PROVE  RewriteEntry(e, m) \in EmittedEntry \cup {Absent}
<1>1. ASSUME NEW L \in Seq(DeployUrl) PROVE rewrite_urls(L, m) \in Seq(DeployUrl)
  <2>1. PICK T : T = DeployUrl
    OBVIOUS
  <2>2. L # <<>> => \A b \in Base : Compose(b, L[1].path) \in T
    <3>1. SUFFICES ASSUME L # <<>>, NEW b \in Base PROVE Compose(b, L[1].path) \in T
      OBVIOUS
    <3>2. L[1] \in T
      BY <1>1, <2>1, <3>1
    <3>3. L[1].path \in Seq(PathPart)
      BY <2>1, <3>2 DEF DeployUrl
    <3> QED BY <2>1, <3>3, ComposeDeploy
  <2> QED BY <1>1, <2>1, <2>2, RewriteUrls
<1>2. PICK SL : SL = Seq(DeployUrl)
  OBVIOUS
<1>3. \A L \in SL : rewrite_urls(L, m) \in SL
  BY <1>1, <1>2
<1>4. ASSUME NEW r \in EmittedPayload PROVE RewriteFields(r, m) \in EmittedPayload
  <2>1. CASE ~ Given(r)
    BY <2>1 DEF RewriteFields
  <2>2. CASE Given(r)
    <3>1. r = [url |-> r.url, sha256 |-> r.sha256, ed25519 |-> r.ed25519, sig_url |-> Absent,
               args |-> r.args, args_url |-> r.args_url, args_sig_url |-> Absent]
      BY DEF EmittedPayload
    <3>2. /\ r.url \in SL /\ r.args_url \in SL \cup {Absent}
          /\ r.sha256 \in Hex \cup {Absent} /\ r.ed25519 \in PubKey \cup {Absent}
          /\ r.args \in Seq(Arg) \cup {Absent}
      BY <1>2 DEF EmittedPayload
    <3>3. PICK u \in SL : u = IF Given(r.url) THEN rewrite_urls(r.url, m) ELSE r.url
      BY <1>3, <3>2
    <3>4. PICK v \in SL \cup {Absent} :
            v = IF Given(r.args_url) THEN rewrite_urls(r.args_url, m) ELSE r.args_url
      BY <1>3, <3>2 DEF Given
    <3>5. RewriteFields(r, m) =
            [url |-> u, sha256 |-> r.sha256, ed25519 |-> r.ed25519, sig_url |-> Absent,
             args |-> r.args, args_url |-> v, args_sig_url |-> Absent]
      <4>1. DOMAIN r = {"url", "sha256", "ed25519", "sig_url", "args", "args_url", "args_sig_url"}
        BY <3>1
      <4>2. r.sig_url = Absent /\ r.args_sig_url = Absent
        BY <3>1
      <4> QED BY <2>2, <3>3, <3>4, <4>1, <4>2 DEF RewriteFields, Given
    <3> QED BY <1>2, <3>2, <3>5 DEF EmittedPayload
  <2> QED BY <2>1, <2>2
<1>5. ASSUME NEW r \in EmittedPointer PROVE RewriteFields(r, m) \in EmittedPointer
  <2>1. CASE ~ Given(r)
    BY <2>1 DEF RewriteFields
  <2>2. CASE Given(r)
    <3>1. r = [url |-> r.url, ed25519 |-> r.ed25519, sig_url |-> Absent, sha256 |-> Absent]
      BY DEF EmittedPointer
    <3>2. r.url \in SL /\ r.ed25519 \in PubKey
      BY <1>2 DEF EmittedPointer
    <3>3. PICK u \in SL : u = IF Given(r.url) THEN rewrite_urls(r.url, m) ELSE r.url
      BY <1>3, <3>2
    <3>4. RewriteFields(r, m) =
            [url |-> u, ed25519 |-> r.ed25519, sig_url |-> Absent, sha256 |-> Absent]
      <4>1. DOMAIN r = {"url", "ed25519", "sig_url", "sha256"}
        BY <3>1
      <4>2. r.sig_url = Absent /\ r.sha256 = Absent
        BY <3>1
      <4> QED BY <2>2, <3>3, <4>1, <4>2 DEF RewriteFields, Given
    <3> QED BY <1>2, <3>2, <3>4 DEF EmittedPointer
  <2> QED BY <2>1, <2>2
<1>6. RewriteFields(Absent, m) = Absent
  BY DEF RewriteFields, Given
<1>7. CASE ~ Given(e)
  BY <1>7 DEF RewriteEntry
<1>8. CASE Given(e)
  <2>1. e \in EmittedEntry
    BY <1>8 DEF Given
  <2>2. PICK x \in EmittedPayload \cup {Absent}, y \in EmittedPointer \cup {Absent} :
          e = [payload |-> x, manifest |-> y, resolved_manifests |-> Absent]
    BY <2>1 DEF EmittedEntry
  <2>3. RewriteEntry(e, m) = [payload |-> RewriteFields(x, m), manifest |-> RewriteFields(y, m),
                              resolved_manifests |-> Absent]
    BY <1>8, <2>2 DEF RewriteEntry
  <2>4. /\ RewriteFields(x, m) \in EmittedPayload \cup {Absent}
        /\ RewriteFields(y, m) \in EmittedPointer \cup {Absent}
    BY <1>4, <1>5, <1>6
  <2> QED BY <2>3, <2>4 DEF EmittedEntry
<1> QED BY <1>7, <1>8

-----------------------------------------------------------------------------
(* user-data.json.                                                         *)

\* What a step publishes is what the document then holds.
LEMMA EmittedAre ==
  ASSUME NEW d, NEW complete, NEW p \in Emitted(d, complete)
  PROVE  \E arch \in Arch, s \in Stage :
           /\ complete[arch] # None
           /\ p.a = complete[arch] /\ p.arch = arch /\ p.stage = s /\ p.entry = d[s][arch]
<1>1. PICK x \in {y \in Arch \X Stage : complete[y[1]] # None} :
        p = [a |-> complete[x[1]], arch |-> x[1], stage |-> x[2], entry |-> d[x[2]][x[1]]]
  BY DEF Emitted
<1>2. x[1] \in Arch /\ x[2] \in Stage /\ complete[x[1]] # None
  OBVIOUS
<1>3. p.a = complete[x[1]] /\ p.arch = x[1] /\ p.stage = x[2] /\ p.entry = d[x[2]][x[1]]
  BY <1>1
<1> QED BY <1>2, <1>3

\* Of a complete release with manifests the document has the pointers.
DocPoints ==
  /\ doc = Absent => \A arch \in Arch : released[arch] = None
  /\ doc \notin {Absent, Torn} =>
       \A arch \in Arch, s \in Stage : released[arch] # None /\ released[arch].manifest =>
         IsPointer(doc[s][arch], released[arch], s)

PublishedPoints ==
  \A p \in published :
    /\ p.arch \in Arch /\ p.stage \in Stage
    /\ p.a \in Creates /\ p.a.arch = p.arch /\ ~ Refused(p.a)
    /\ p.a.manifest => IsPointer(p.entry, p.a, p.stage)

DocTyped == doc \in Document \cup {Absent, Torn}

PointInv == DirInv /\ DocTyped /\ DocPoints /\ PublishedPoints

\* The document that a step writes is one.
LEMMA MergeTyped ==
  ASSUME NEW d \in Document \cup {Absent}, NEW a \in Creates, EmitsValid(a)
  PROVE  /\ set_arch(d, a) \in Document /\ set_arch(d, a) \notin {Absent, Torn}
         /\ \A s \in Stage, arch \in Arch :
              set_arch(d, a)[s][arch] = IF arch = a.arch THEN Entries(a)[s]
                                        ELSE IF d = Absent THEN Absent ELSE d[s][arch]
<1>1. \A s \in Stage : Entries(a)[s] \in EmittedEntry
  BY EntriesTyped DEF EmitsValid
<1>2. PICK E : E = EmittedEntry
  OBVIOUS
<1>3. d = Absent \/ d \in [Stage -> [Arch -> E \cup {Absent}]]
  BY <1>2 DEF Document
<1>4. set_arch(d, a) \in [Stage -> [Arch -> E \cup {Absent}]]
  BY <1>1, <1>2, <1>3 DEF set_arch
<1>5. set_arch(d, a) \in Document
  BY <1>2, <1>4 DEF Document
<1>6. set_arch(d, a) \notin {Absent, Torn}
  BY <1>5, DeployAssumption
<1> QED BY <1>5, <1>6 DEF set_arch

LEMMA ModifyTyped ==
  ASSUME NEW d \in Document, NEW m \in ModifyArgs,
         NEW e, e = [s \in Stage |-> [arch \in Arch |-> RewriteEntry(d[s][arch], m)]]
  PROVE  /\ e \in Document /\ e \notin {Absent, Torn}
         /\ \A s \in Stage, arch \in Arch : e[s][arch] = RewriteEntry(d[s][arch], m)
<1>1. PICK E : E = EmittedEntry \cup {Absent}
  OBVIOUS
<1>2. d \in [Stage -> [Arch -> E]]
  BY <1>1 DEF Document
<1>3. \A s \in Stage, arch \in Arch : RewriteEntry(d[s][arch], m) \in E
  BY <1>1, <1>2, RewriteTyped
<1>4. e \in Document
  BY <1>1, <1>3 DEF Document
<1> QED BY <1>4, DeployAssumption

LEMMA PointInvNext == PointInv /\ [Next]_vars => PointInv'
<1> SUFFICES ASSUME PointInv, [Next]_vars PROVE PointInv'
  OBVIOUS
<1> USE DEF PointInv
<1>1. DirInv'
  BY DirInvNext
<1>2. ASSUME DocPoints', doc' \notin {Absent, Torn}, published' = published \cup Emitted(doc', released')
      PROVE  PublishedPoints'
  <2> SUFFICES ASSUME NEW p \in published'
               PROVE  /\ p.arch \in Arch /\ p.stage \in Stage
                      /\ p.a \in Creates /\ p.a.arch = p.arch /\ ~ Refused(p.a)
                      /\ p.a.manifest => IsPointer(p.entry, p.a, p.stage)
    BY DEF PublishedPoints
  <2>1. CASE p \in published
    BY <2>1 DEF PublishedPoints
  <2>2. CASE p \in Emitted(doc', released')
    <3>1. PICK arch \in Arch, s \in Stage :
            /\ released'[arch] # None
            /\ p.a = released'[arch] /\ p.arch = arch /\ p.stage = s /\ p.entry = doc'[s][arch]
      BY <2>2, EmittedAre
    <3> QED BY <1>1, <1>2, <3>1 DEF DirInv, ReleasedInv, DocPoints
  <2> QED BY <1>2, <2>1, <2>2
<1>3. ASSUME NEW a \in Creates, create(a) PROVE PointInv'
  BY <1>1, <1>3 DEF create, DocTyped, DocPoints, PublishedPoints, DirInv, ReleasedInv
<1>4. CASE write_file \/ bail
  BY <1>1, <1>4 DEF write_file, bail, DocTyped, DocPoints, PublishedPoints
<1>5. CASE merge_user_data
  <2>1. PICK a \in Creates : a = job.a /\ a.arch \in Arch
    BY <1>5, CreateArgsAre DEF merge_user_data, DirInv, JobInv
  <2>2. /\ doc' = set_arch(doc, a) /\ released' = [released EXCEPT ![a.arch] = a]
        /\ published' = published \cup Emitted(doc', released') /\ doc # Torn
    BY <1>5, <2>1 DEF merge_user_data
  <2>3. EmitsValid(a) /\ doc \in Document \cup {Absent}
    BY <1>5, <2>1, <2>2 DEF merge_user_data, DocTyped
  <2>4. /\ doc' \in Document /\ doc' \notin {Absent, Torn}
        /\ \A s \in Stage, arch \in Arch :
             doc'[s][arch] = IF arch = a.arch THEN Entries(a)[s]
                             ELSE IF doc = Absent THEN Absent ELSE doc[s][arch]
    BY <2>2, <2>3, MergeTyped
  <2>5. ASSUME NEW arch \in Arch, NEW s \in Stage, released'[arch] # None, released'[arch].manifest
        PROVE  IsPointer(doc'[s][arch], released'[arch], s)
    <3>1. CASE arch = a.arch
      <4>1. doc'[s][arch] = Entries(a)[s] /\ released'[arch] = a
        BY <2>1, <2>2, <2>4, <3>1 DEF DirInv, ReleasedInv
      <4> QED BY <2>5, <4>1, EntryIsPointer
    <3>2. CASE arch # a.arch
      <4>1. released'[arch] = released[arch]
        BY <2>2, <3>2 DEF DirInv, ReleasedInv
      <4>2. doc # Absent
        BY <2>5, <4>1 DEF DocPoints
      <4>3. doc'[s][arch] = doc[s][arch]
        BY <2>4, <3>2, <4>2
      <4> QED BY <2>2, <2>5, <4>1, <4>2, <4>3 DEF DocPoints
    <3> QED BY <3>1, <3>2
  <2>6. DocPoints' /\ DocTyped'
    BY <2>4, <2>5 DEF DocPoints, DocTyped
  <2> QED BY <1>1, <1>2, <2>2, <2>4, <2>6
<1>6. CASE create_dies
  <2>1. doc' \in {doc, Torn} /\ UNCHANGED <<released, published>>
    BY <1>6 DEF create_dies
  <2> QED BY <1>1, <2>1, DeployAssumption DEF DocTyped, DocPoints, PublishedPoints
<1>7. ASSUME NEW m \in Modifies, modify(m) PROVE PointInv'
  <2>1. /\ m \in ModifyArgs /\ released' = released /\ doc \in Document
    BY <1>7, DeployAssumption DEF modify, DocTyped
  <2>2. CASE /\ doc' = [s \in Stage |-> [arch \in Arch |-> RewriteEntry(doc[s][arch], m)]]
             /\ published' = published \cup Emitted(doc', released)
    <3>1. /\ doc' \in Document /\ doc' \notin {Absent, Torn}
          /\ \A s \in Stage, arch \in Arch : doc'[s][arch] = RewriteEntry(doc[s][arch], m)
      BY <2>1, <2>2, ModifyTyped
    <3>2. doc \notin {Absent, Torn}
      BY <1>7 DEF modify
    <3>3. DocPoints' /\ DocTyped'
      BY <2>1, <3>1, <3>2, RewritePointer DEF DocPoints, DocTyped
    <3> QED BY <1>1, <1>2, <2>1, <2>2, <3>1, <3>3
  <2>3. CASE doc' = Torn /\ UNCHANGED published
    <3> QED BY <1>1, <2>1, <2>3, DeployAssumption DEF DocPoints, PublishedPoints, DocTyped
  <2> QED BY <1>7, <2>2, <2>3 DEF modify
<1>8. CASE discard
  BY <1>1, <1>8 DEF discard, DocTyped, DocPoints, PublishedPoints
<1>9. CASE UNCHANGED vars
  BY <1>1, <1>9 DEF vars, DocTyped, DocPoints, PublishedPoints
<1> QED BY <1>3, <1>4, <1>5, <1>6, <1>7, <1>8, <1>9 DEF Next

-----------------------------------------------------------------------------
(* What an instance with a pointer runs.                                   *)

\* The files at the name of a manifest are the manifest and its signature.
LEMMA ManifestFiles ==
  ASSUME NEW a, NEW w \in WriteSet(a), NEW s \in Stage, w.file.name = ManifestFile(s)
  PROVE  /\ a.manifest /\ a.args # Malformed
         /\ w.content = IF w.file.sig THEN sign(a.key, ManifestDomain(s), Fragment(PayloadOf(a, s)))
                                      ELSE Fragment(PayloadOf(a, s))
<1>1. ASSUME NEW n, NEW x, NEW k, NEW d, w \in SignedSet(n, x, k, d)
      PROVE  /\ w.file.name = n
             /\ w.content = IF w.file.sig THEN sign(k, d, x) ELSE x
  <2>1. CASE w = Write(n, x)
    BY <2>1 DEF Write
  <2>2. CASE w = WriteSig(n, sign(k, d, x))
    BY <2>2 DEF WriteSig
  <2> QED BY <1>1, <2>1, <2>2 DEF SignedSet
<1>2. ManifestFile(s) \notin {"linux.efi", "stage2", "args.json"}
  BY DEF ManifestFile, ManifestName
<1>3. /\ a.manifest /\ a.args # Malformed
      /\ \/ /\ ManifestFile(s) = "linux.efi.manifest.json"
            /\ w.content = IF w.file.sig
                           THEN sign(a.key, "stage1.manifest", Fragment(uki_payload(a)))
                           ELSE Fragment(uki_payload(a))
         \/ /\ ManifestFile(s) = "stage2.manifest.json"
            /\ w.content = IF w.file.sig
                           THEN sign(a.key, "stage2.manifest", Fragment(stage2_payload(a)))
                           ELSE Fragment(stage2_payload(a))
  BY <1>1, <1>2 DEF WriteSet
<1>4. CASE s = "_stage1"
  <2>1. /\ ManifestFile(s) = "linux.efi.manifest.json" /\ ManifestDomain(s) = "stage1.manifest"
        /\ PayloadOf(a, s) = uki_payload(a)
    BY <1>4 DEF ManifestFile, FileName, ManifestName, ManifestDomain, PayloadOf
  <2> QED BY <1>3, <2>1
<1>5. CASE s = "_stage2"
  <2>1. /\ ManifestFile(s) = "stage2.manifest.json" /\ ManifestDomain(s) = "stage2.manifest"
        /\ PayloadOf(a, s) = stage2_payload(a)
    BY <1>5 DEF ManifestFile, FileName, ManifestName, ManifestDomain, PayloadOf
  <2> QED BY <1>3, <2>1
<1> QED BY <1>4, <1>5 DEF Stage

\* Where a manifest is kept there is the manifest of a release ...
LEMMA ManifestHeld ==
  ASSUME NEW arch, NEW s \in Stage, NEW c, c \notin {Absent, Torn},
         Held(arch, [name |-> ManifestFile(s), sig |-> FALSE], c)
  PROVE  \E a \in Creates :
           /\ a.arch = arch /\ a.manifest /\ ~ Refused(a) /\ a.args # Malformed
           /\ c = Fragment(PayloadOf(a, s))
<1>1. PICK a \in Creates :
        /\ a.arch = arch /\ ~ Refused(a)
        /\ \E w \in WriteSet(a) : /\ w.file = [name |-> ManifestFile(s), sig |-> FALSE]
                                  /\ w.content = c
  BY DEF Held
<1>2. PICK w \in WriteSet(a) : w.file = [name |-> ManifestFile(s), sig |-> FALSE] /\ w.content = c
  BY <1>1
<1>3. w.file.name = ManifestFile(s) /\ ~ w.file.sig
  BY <1>2
<1>4. a.manifest /\ a.args # Malformed /\ c = Fragment(PayloadOf(a, s))
  BY <1>2, <1>3, ManifestFiles
<1> QED BY <1>1, <1>4

\* ... and next to it a release's signature.
LEMMA SignatureHeld ==
  ASSUME NEW arch, NEW s \in Stage, NEW c, c \notin {Absent, Torn},
         Held(arch, [name |-> ManifestFile(s), sig |-> TRUE], c)
  PROVE  \E a \in Creates :
           /\ a.arch = arch /\ a.manifest /\ ~ Refused(a) /\ a.args # Malformed
           /\ c = sign(a.key, ManifestDomain(s), Fragment(PayloadOf(a, s)))
<1>1. PICK a \in Creates :
        /\ a.arch = arch /\ ~ Refused(a)
        /\ \E w \in WriteSet(a) : /\ w.file = [name |-> ManifestFile(s), sig |-> TRUE]
                                  /\ w.content = c
  BY DEF Held
<1>2. PICK w \in WriteSet(a) : w.file = [name |-> ManifestFile(s), sig |-> TRUE] /\ w.content = c
  BY <1>1
<1>3. w.file.name = ManifestFile(s) /\ w.file.sig
  BY <1>2
<1>4. /\ a.manifest /\ a.args # Malformed
      /\ c = sign(a.key, ManifestDomain(s), Fragment(PayloadOf(a, s)))
  BY <1>2, <1>3, ManifestFiles
<1> QED BY <1>1, <1>4

\* A manifest that verifies is that of one release, whatever is next to it.
LEMMA VerifiedManifest ==
  ASSUME NEW arch, NEW s \in Stage, NEW k \in Keys, NEW m, NEW g,
         m \notin {Absent, Torn},
         Held(arch, [name |-> ManifestFile(s), sig |-> FALSE], m),
         Held(arch, [name |-> ManifestFile(s), sig |-> TRUE], g),
         verify(pubkey_b64(k), ManifestDomain(s), m, g)
  PROVE  \E a \in Creates :
           /\ a.arch = arch /\ a.key = k /\ a.manifest /\ ~ Refused(a) /\ a.args # Malformed
           /\ m = Fragment(PayloadOf(a, s))
<1>1. g = sign(k, ManifestDomain(s), m)
  BY DEF verify, pubkey_b64
<1>2. PICK b \in Creates : b.args # Malformed /\ m = Fragment(PayloadOf(b, s))
  BY ManifestHeld
<1>3. m \in Blob
  BY <1>2, PayloadTyped DEF Fragment, Blob
<1>4. ManifestDomain(s) \in Domain
  BY DEF ManifestDomain, Domain
<1>5. sha256(m) \in [len : Nat, hexdigits : BOOLEAN, case : {"lower", "upper"}, of : Blob]
  BY <1>3 DEF sha256
<1>6. g \in Signature
  BY <1>1, <1>4, <1>5 DEF sign, preimage, Signature
<1>7. g \notin {Absent, Torn}
  BY <1>6, DeployAssumption
<1>8. PICK a \in Creates :
        /\ a.arch = arch /\ a.manifest /\ ~ Refused(a) /\ a.args # Malformed
        /\ g = sign(a.key, ManifestDomain(s), Fragment(PayloadOf(a, s)))
  BY <1>7, SignatureHeld
<1>9. ASSUME NEW x, NEW y, NEW d, NEW k1, NEW k2, sign(k1, d, x) = sign(k2, d, y)
      PROVE  k1 = k2 /\ x = y
  <2>1. k1 = k2 /\ <<d, sha256(x)>> = <<d, sha256(y)>>
    BY <1>9 DEF sign, preimage
  <2>2. sha256(x) = sha256(y)
    BY <2>1
  <2> QED BY <2>1, <2>2 DEF sha256
<1>10. a.key = k /\ m = Fragment(PayloadOf(a, s))
  <2>1. PICK x, d : x = Fragment(PayloadOf(a, s)) /\ d = ManifestDomain(s)
    OBVIOUS
  <2>2. sign(a.key, d, x) = sign(k, d, m)
    BY <1>1, <1>8, <2>1
  <2>3. a.key = k /\ m = x
    BY <1>9, <2>2
  <2> QED BY <2>1, <2>3
<1> QED BY <1>8, <1>10

\* Under the payload of a manifest nothing but that payload is run.
LEMMA PinnedRuns ==
  ASSUME NEW a \in Creates, a.manifest, ~ Refused(a), a.args # Malformed, NEW s \in Stage,
         NEW u, NEW o \in RunsFrom(Fields(PayloadOf(a, s)), s, u)
  PROVE  o = Promised(a, s)
<1>1. PICK p : p = Fields(PayloadOf(a, s))
  OBVIOUS
<1>2. /\ p.sha256 = sha256(CodeOf(a, s)) /\ p.sha256 # None /\ p.args_url = None
      /\ (IF p.args = None THEN <<>> ELSE p.args) = Promised(a, s).args
  BY <1>1, PinnedFields
<1>3. PICK c : c = Content(u, FALSE)
  OBVIOUS
<1>4. /\ eq_ignore_ascii_case(p.sha256, sha256(c))
      /\ \E v \in Argvs(p) : o = [code |-> c, args |-> v]
  BY <1>1, <1>2, <1>3 DEF RunsFrom
<1>5. c = CodeOf(a, s)
  BY <1>2, <1>4 DEF eq_ignore_ascii_case, sha256
<1>6. o = [code |-> CodeOf(a, s), args |-> Promised(a, s).args]
  BY <1>2, <1>4, <1>5 DEF Argvs
<1> QED BY <1>6 DEF Promised, CodeOf

LEMMA ConcatRight ==
  ASSUME NEW S, NEW s \in Seq(S), NEW t \in Seq(S)
  PROVE  /\ Len(s) \in Nat /\ Len(s \o t) = Len(s) + Len(t)
         /\ \A i \in 1..Len(t) : (s \o t)[Len(s) + i] = t[i]
OBVIOUS

\* What is at a URL of an architecture is in its directory, or nowhere.
LEMMA ContentIs ==
  ASSUME DirInv, NEW arch \in Arch, NEW name, NEW u \in ServedUrl(arch, name), NEW sig \in BOOLEAN
  PROVE  Content(u, sig) = Absent \/ Held(arch, [name |-> name, sig |-> sig], Content(u, sig))
<1>1. u.path[Len(u.path) - 1] = arch /\ u.path[Len(u.path)] = name
  BY DEF ServedUrl
<1>2. CASE \E b \in Base : \E x \in Arch, f \in File : u = Compose(b, <<x, f.name>>)
  <2>1. PICK b \in Base, x \in Arch, f \in File : u = Compose(b, <<x, f.name>>)
    BY <1>2
  <2>2. f.name = name
    <3>1. b.path \in Seq(PathPart)
      BY DeployAssumption
    <3>2. PICK path : path = <<x, f.name>>
      OBVIOUS
    <3>3. x \in PathPart /\ f.name \in PathPart
      BY Zenon DEF PathPart
    <3>4. path \in Seq(PathPart) /\ Len(path) = 2 /\ path[2] = f.name
      BY <3>2, <3>3
    <3>5. u.path = b.path \o path
      BY <2>1, <3>2 DEF Compose
    <3>6. PICK full : full = b.path \o path
      OBVIOUS
    <3>7. Len(full) = Len(b.path) + 2 /\ full[Len(b.path) + 2] = path[2]
      <4>1. PICK q \in Seq(PathPart), t \in Seq(PathPart) : q = b.path /\ t = path
        BY <3>1, <3>4
      <4>2. Len(q) \in Nat /\ Len(q \o t) = Len(q) + Len(t) /\ \A i \in 1..Len(t) : (q \o t)[Len(q) + i] = t[i]
        BY ConcatRight
      <4>3. 2 \in 1..Len(t) /\ Len(t) = 2
        <5>1. Len(t) = 2
          BY <3>2, <4>1
        <5> QED BY <5>1
      <4>4. (q \o t)[Len(q) + 2] = t[2] /\ Len(q \o t) = Len(q) + 2
        BY <4>2, <4>3
      <4> QED BY <3>6, <4>1, <4>4
    <3> QED BY <1>1, <3>4, <3>5, <3>6, <3>7
  <2>3. [name |-> name, sig |-> sig] \in File
    BY <2>2 DEF File
  <2>4. Content(u, sig) = dir[arch][[name |-> name, sig |-> sig]]
    BY <1>1, <1>2 DEF Content
  <2> QED BY <2>3, <2>4 DEF DirInv, FilesInv
<1>3. CASE ~ \E b \in Base : \E x \in Arch, f \in File : u = Compose(b, <<x, f.name>>)
  BY <1>3 DEF Content
<1> QED BY <1>2, <1>3

LEMMA PointInvNoMixture == PointInv => NoMixture
<1> SUFFICES ASSUME PointInv, NEW p \in published, p.a.manifest,
                    NEW u \in Mirrors(p.entry), NEW o \in OutcomesAt(p.entry, p.stage, u)
             PROVE  \E a \in Creates : /\ a.arch = p.arch /\ a.key = p.a.key
                                       /\ o = Promised(a, p.stage)
  BY DEF NoMixture
<1>1. /\ p.arch \in Arch /\ p.stage \in Stage /\ p.a \in Creates /\ p.a.arch = p.arch
      /\ IsPointer(p.entry, p.a, p.stage)
  BY DEF PointInv, PublishedPoints
<1>2. PICK s \in Stage, arch \in Arch, k \in Keys : s = p.stage /\ arch = p.arch /\ k = p.a.key
  BY <1>1, CreateArgsAre
<1>3. PICK L \in Seq(ServedUrl(arch, ManifestFile(s))) : p.entry = PointerTo(L, k)
  BY <1>1, <1>2 DEF IsPointer
<1>4. L \in Seq(DeployUrl)
  <2>1. PICK T : T = ServedUrl(arch, ManifestFile(s)) /\ T \subseteq DeployUrl
    BY DEF ServedUrl
  <2>2. PICK D : D = DeployUrl
    OBVIOUS
  <2>3. L \in Seq(D)
    BY <1>3, <2>1, <2>2
  <2> QED BY <2>2, <2>3
<1>5. p.entry.manifest # Absent
  <2>1. PointerTo(L, p.a.key).manifest \in EmittedPointer
    BY <1>1, <1>4, PointerTyped
  <2> QED BY <1>2, <1>3, <2>1, DeployAssumption
<1>6. /\ p.entry.manifest.url = L /\ p.entry.manifest.ed25519 = pubkey_b64(k)
  BY <1>3 DEF PointerTo
<1>7. u \in ServedUrl(arch, ManifestFile(s))
  <2>1. PICK T : T = ServedUrl(arch, ManifestFile(s))
    OBVIOUS
  <2>2. u \in ToSet(L)
    BY <1>5, <1>6 DEF Mirrors, IsManifest
  <2> QED BY <1>3, <2>1, <2>2, ToSetIs
<1>8. PICK m, g : m = Content(u, FALSE) /\ g = Content(u, TRUE)
  OBVIOUS
<1>9. /\ m \notin {Absent, Torn} /\ verify(pubkey_b64(k), ManifestDomain(s), m, g)
      /\ \E w : o \in RunsFrom(Fields(m.payload), s, w)
  BY <1>2, <1>5, <1>6, <1>8 DEF OutcomesAt, IsManifest, SignedAt, Readable
<1>10. Held(arch, [name |-> ManifestFile(s), sig |-> FALSE], m)
  BY <1>7, <1>8, <1>9, ContentIs DEF PointInv
<1>11. Held(arch, [name |-> ManifestFile(s), sig |-> TRUE], g)
  <2>1. Content(u, TRUE) = Absent \/ Held(arch, [name |-> ManifestFile(s), sig |-> TRUE], Content(u, TRUE))
    BY <1>7, ContentIs DEF PointInv
  <2>2. g = Absent => Held(arch, [name |-> ManifestFile(s), sig |-> TRUE], g)
    BY DEF Held
  <2> QED BY <1>8, <2>1, <2>2
<1>12. PICK a \in Creates :
         /\ a.arch = arch /\ a.key = k /\ a.manifest /\ ~ Refused(a) /\ a.args # Malformed
         /\ m = Fragment(PayloadOf(a, s))
  BY <1>9, <1>10, <1>11, VerifiedManifest
<1>13. m.payload = PayloadOf(a, s)
  BY <1>12 DEF Fragment
<1>14. o = Promised(a, s)
  BY <1>9, <1>12, <1>13, PinnedRuns
<1> QED BY <1>2, <1>12, <1>14

LEMMA PointInvInit == Init => PointInv
<1> SUFFICES ASSUME Init PROVE PointInv
  OBVIOUS
<1>1. DirInv
  BY DirInvInit
<1>2. DocTyped /\ DocPoints /\ PublishedPoints
  BY DEF Init, DocTyped, DocPoints, PublishedPoints
<1> QED BY <1>1, <1>2 DEF PointInv

\* The directory holds what a `create` writes, and user-data.json what one
\* emits, whatever was created, modified, killed or discarded.
\* (create, merge_user_data, modify)
THEOREM TypeCorrect == Spec => []TypeOK
<1>1. PointInv => TypeOK
  <2> SUFFICES ASSUME PointInv PROVE TypeOK
    OBVIOUS
  <2>1. dir \in [Arch -> [File -> Written]]
    BY DEF PointInv, DirInv, FilesInv
  <2>2. doc \in Document \cup {Absent, Torn}
    BY DEF PointInv, DocTyped
  <2>3. job = None \/ job.a \in Creates
    BY DEF PointInv, DirInv, JobInv
  <2>4. \A arch \in Arch : released[arch] \in Creates \cup {None}
    BY DEF PointInv, DirInv, ReleasedInv
  <2>5. \A p \in published : p.a \in Creates
    BY DEF PointInv, PublishedPoints
  <2> QED BY <2>1, <2>2, <2>3, <2>4, <2>5, Zenon DEF TypeOK, Written
<1> QED BY <1>1, PointInvInit, PointInvNext, PTL DEF Spec

\* An instance with a manifest entry never runs the payload of one release
\* with the arguments of another, nor a release of another key or
\* architecture: not between two writes of a `create`, not after one that
\* died, not after any edit of the mirror lists.
\* (payload_key, wrap_manifest, rewrite_urls)
THEOREM ManifestsBind == Spec => []NoMixture
BY PointInvInit, PointInvNext, PointInvNoMixture, PTL DEF Spec

-----------------------------------------------------------------------------
(* Entries whose mirrors are base URLs.                                    *)

\* `modify` keeps to the layout <base>/<arch>/<file> if no base has a path.
Flat == \A b \in Base : b.path = <<>>

Urls(B, arch, name) == {Compose(b, <<arch, name>>) : b \in B}

IsList(L, B, arch, name) == IsSeq(L) /\ ToSet(L) = Urls(B, arch, name)

LEMMA ComposeIsList ==
  ASSUME NEW bases \in Seq(Base), NEW arch, NEW name
  PROVE  IsList(compose_urls(bases, arch, name), ToSet(bases), arch, name)
<1>1. PICK path : path = <<arch, name>>
  OBVIOUS
<1>2. PICK n \in Nat : n = Len(bases)
  OBVIOUS
<1>3. PICK L : L = [i \in 1..n |-> Compose(bases[i], path)]
  OBVIOUS
<1>4. PICK U : U = {Compose(b, path) : b \in ToSet(bases)}
  OBVIOUS
<1>5. \A b : b \in ToSet(bases) <=> \E i \in 1..n : b = bases[i]
  BY <1>2, ToSetIs
<1>6. L \in [1..n -> U]
  BY <1>3, <1>4, <1>5
<1>7. L \in Seq(U) /\ Len(L) = n
  BY <1>6
<1>8. /\ IsSeq(L) /\ ToSet(L) \subseteq U
      /\ \A x : x \in ToSet(L) <=> \E i \in 1..n : x = L[i]
  BY <1>7, ToSetIs
<1>9. ASSUME NEW x \in U PROVE x \in ToSet(L)
  <2>1. PICK b \in ToSet(bases) : x = Compose(b, path)
    BY <1>4
  <2>2. PICK i \in 1..n : b = bases[i]
    BY <1>5
  <2> QED BY <1>3, <1>8, <2>1, <2>2
<1>10. compose_urls(bases, arch, name) = L
  BY <1>1, <1>2, <1>3 DEF compose_urls
<1> QED BY <1>1, <1>4, <1>8, <1>9, <1>10 DEF IsList, Urls

\* A list of such URLs is one that documents may have.
LEMMA ListGiven ==
  ASSUME NEW B \in SUBSET Base, NEW arch \in Arch, NEW f \in File, NEW L,
         IsList(L, B, arch, f.name)
  PROVE  L \in UrlList /\ Given(L) /\ (L = <<>> <=> B = {})
<1>1. Urls(B, arch, f.name) \subseteq Url
  <2>1. ASSUME NEW b \in B PROVE Compose(b, <<arch, f.name>>) \in Url
    BY DeployAssumption
  <2> QED BY <2>1 DEF Urls
<1>2. PICK U : U = Urls(B, arch, f.name)
  OBVIOUS
<1>3. L \in Seq(U) /\ ToSet(L) = U
  BY <1>2 DEF IsList, IsSeq
<1>4. PICK V : V = Url
  OBVIOUS
<1>5. L \in Seq(V)
  BY <1>1, <1>2, <1>3, <1>4
<1>6. L \in UrlList
  BY <1>4, <1>5 DEF UrlList
<1>7. L = <<>> <=> U = {}
  <2>1. \A x : x \in U <=> \E i \in 1..Len(L) : x = L[i]
    BY <1>3, ToSetIs
  <2>2. CASE L = <<>>
    BY <2>1, <2>2
  <2>3. CASE L # <<>>
    <3>1. 1 \in 1..Len(L)
      BY <1>3, <2>3
    <3> QED BY <2>1, <2>3, <3>1
  <2> QED BY <2>2, <2>3
<1>8. U = {} <=> B = {}
  BY <1>2 DEF Urls
<1> QED BY <1>6, <1>7, <1>8, NoObject DEF Given

\* The bases that `modify` leaves.
After(B, m) ==
  IF B = {} THEN {}
  ELSE {b \in B : ~ \E i \in 1..Len(m.remove_base_url) :
                      /\ m.remove_base_url[i].scheme = b.scheme
                      /\ m.remove_base_url[i].host = b.host}
       \cup ToSet(m.add_base_url)

LEMMA RewriteIsList ==
  ASSUME Flat, NEW B \in SUBSET Base, NEW arch \in Arch, NEW f \in File, NEW L,
         IsList(L, B, arch, f.name), NEW m \in ModifyArgs
  PROVE  IsList(rewrite_urls(L, m), After(B, m), arch, f.name) /\ After(B, m) \in SUBSET Base
<1>1. PICK path : path = <<arch, f.name>>
  OBVIOUS
<1>2. path \in Seq(PathPart) /\ Len(path) = 2
  <2>1. arch \in PathPart /\ f.name \in PathPart
    BY Zenon DEF PathPart
  <2> QED BY <1>1, <2>1
<1>3. m.add_base_url \in Seq(Base) /\ m.remove_base_url \in Seq(Base)
  BY DEF ModifyArgs
<1>4. After(B, m) \in SUBSET Base
  <2>1. ToSet(m.add_base_url) \subseteq Base
    BY <1>3, ToSetIs
  <2> QED BY <2>1 DEF After
<1>5. ASSUME NEW b \in Base
      PROVE  /\ Compose(b, path).path = path /\ Compose(b, path).scheme = b.scheme
             /\ Compose(b, path).host = b.host
  <2>1. b.path = <<>>
    BY DEF Flat
  <2>2. <<>> \o path = path
    BY <1>2
  <2> QED BY <2>1, <2>2 DEF Compose
<1>6. ASSUME NEW b \in Base, NEW r \in Base
      PROVE  Under(Compose(b, path), r) <=> r.scheme = b.scheme /\ r.host = b.host
  <2>1. r.path = <<>>
    BY DEF Flat
  <2>2. IsStrictPrefix(<<>>, path)
    <3>1. Len(<<>>) = 0
      OBVIOUS
    <3>2. SubSeq(<<>>, 1, 0) = <<>>
      OBVIOUS
    <3>3. SubSeq(path, 1, 0) = <<>>
      BY <1>2
    <3>4. <<>> # path
      BY <1>1
    <3>5. 0 <= Len(path)
      BY <1>2
    <3> QED BY <3>1, <3>2, <3>3, <3>4, <3>5 DEF IsStrictPrefix, IsPrefix
  <2> QED BY <1>5, <2>1, <2>2 DEF Under
<1>7. PICK U : U = Urls(Base, arch, f.name)
  OBVIOUS
<1>8. \A b \in Base : Compose(b, path) \in U
  BY <1>1, <1>7 DEF Urls
<1>9. /\ L \in Seq(U)
      /\ \A x : x \in ToSet(L) <=> \E b \in B : x = Compose(b, path)
  <2>1. L \in Seq(ToSet(L)) /\ ToSet(L) = {Compose(b, path) : b \in B}
    BY <1>1 DEF IsList, IsSeq, Urls
  <2>2. PICK V : V = ToSet(L)
    OBVIOUS
  <2>3. V \subseteq U
    BY <1>8, <2>1, <2>2
  <2>4. L \in Seq(U)
    BY <2>1, <2>2, <2>3
  <2> QED BY <2>1, <2>4
<1>10. L = <<>> <=> B = {}
  BY ListGiven
<1>11. ASSUME L # <<>> PROVE L[1].path = path
  <2>1. 1 \in 1..Len(L)
    BY <1>9, <1>11
  <2>2. L[1] \in ToSet(L)
    BY <1>9, <2>1, ToSetIs
  <2> QED BY <1>5, <1>9, <2>2
<1>12. rewrite_urls(L, m) \in Seq(U)
  <2>1. L # <<>> => \A b \in Base : Compose(b, L[1].path) \in U
    BY <1>8, <1>11
  <2> QED BY <1>9, <2>1, RewriteUrls
<1>13. IsSeq(rewrite_urls(L, m))
  BY <1>12, ToSetIs
<1>14. CASE L = <<>>
  <2>1. rewrite_urls(L, m) = <<>>
    BY <1>14 DEF rewrite_urls
  <2>2. After(B, m) = {}
    BY <1>10, <1>14 DEF After
  <2>3. ToSet(<<>>) = {}
    BY DEF ToSet
  <2> QED BY <1>4, <1>13, <2>1, <2>2, <2>3 DEF IsList, Urls
<1>15. CASE L # <<>>
  <2>1. \A x : x \in ToSet(rewrite_urls(L, m)) <=>
          \/ /\ x \in ToSet(L)
             /\ ~ \E i \in 1..Len(m.remove_base_url) : Under(x, m.remove_base_url[i])
          \/ \E i \in 1..Len(m.add_base_url) : x = Compose(m.add_base_url[i], path)
    <3>1. \A b \in Base : Compose(b, L[1].path) \in U
      BY <1>8, <1>11, <1>15
    <3> QED BY <1>9, <1>11, <1>15, <3>1, RewriteUrls
  <2>2. \A b : b \in ToSet(m.add_base_url) <=> \E i \in 1..Len(m.add_base_url) : b = m.add_base_url[i]
    BY <1>3, ToSetIs
  <2>3. ASSUME NEW b \in Base
        PROVE  (\E i \in 1..Len(m.remove_base_url) : Under(Compose(b, path), m.remove_base_url[i]))
               <=> \E i \in 1..Len(m.remove_base_url) :
                      /\ m.remove_base_url[i].scheme = b.scheme
                      /\ m.remove_base_url[i].host = b.host
    BY <1>3, <1>6
  <2>4. \A b : b \in After(B, m) <=>
          \/ /\ b \in B
             /\ ~ \E i \in 1..Len(m.remove_base_url) :
                     /\ m.remove_base_url[i].scheme = b.scheme
                     /\ m.remove_base_url[i].host = b.host
          \/ b \in ToSet(m.add_base_url)
    BY <1>10, <1>15 DEF After
  <2>5. ASSUME NEW x \in ToSet(rewrite_urls(L, m)) PROVE \E b \in After(B, m) : x = Compose(b, path)
    <3>1. CASE /\ x \in ToSet(L)
               /\ ~ \E i \in 1..Len(m.remove_base_url) : Under(x, m.remove_base_url[i])
      <4>1. PICK b \in B : x = Compose(b, path)
        BY <1>9, <3>1
      <4> QED BY <2>3, <2>4, <3>1, <4>1
    <3>2. CASE \E i \in 1..Len(m.add_base_url) : x = Compose(m.add_base_url[i], path)
      BY <2>2, <2>4, <3>2
    <3> QED BY <2>1, <3>1, <3>2
  <2>6. ASSUME NEW b \in After(B, m) PROVE Compose(b, path) \in ToSet(rewrite_urls(L, m))
    BY <1>9, <2>1, <2>2, <2>3, <2>4
  <2>7. ToSet(rewrite_urls(L, m)) = Urls(After(B, m), arch, f.name)
    BY <1>1, <2>5, <2>6 DEF Urls
  <2> QED BY <1>4, <1>13, <2>7 DEF IsList
<1> QED BY <1>14, <1>15

\* a's payload of stage s on other mirrors: L has the payload, M the arguments.
PayloadWith(a, s, L, M) ==
  [url          |-> L,
   sha256       |-> IF payload_key(a) = None THEN sha256(CodeOf(a, s)) ELSE Absent,
   ed25519      |-> IF payload_key(a) = None THEN Absent ELSE pubkey_b64(payload_key(a)),
   sig_url      |-> Absent,
   args         |-> IF s = "_stage1" \/ a.args = None \/ a.sign_args THEN Absent ELSE a.args,
   args_url     |-> M,
   args_sig_url |-> Absent]

PayloadEntry(a, s, L, M) ==
  [payload |-> PayloadWith(a, s, L, M), manifest |-> Absent, resolved_manifests |-> Absent]

SignsArgs(a, s) == s # "_stage1" /\ a.sign_args

\* Entry e is a's of stage s, on the mirrors B.
IsEntryOn(e, a, s, B) ==
  IF a.manifest
  THEN \E L : IsList(L, B, a.arch, ManifestFile(s)) /\ e = PointerTo(L, a.key)
  ELSE \E L, M : /\ IsList(L, B, a.arch, FileName(s))
                 /\ IF SignsArgs(a, s) THEN IsList(M, B, a.arch, "args.json") ELSE M = Absent
                 /\ e = PayloadEntry(a, s, L, M)

IsEntry(e, a, s, X) == \E B \in SUBSET X : IsEntryOn(e, a, s, B)

LEMMA EntriesAreOn ==
  ASSUME NEW a \in Creates, ~ Refused(a), NEW s \in Stage, NEW X, MirrorBase \subseteq X
  PROVE  IsEntry(Entries(a)[s], a, s, X)
<1>1. a.base_url \in Seq(Base)
  BY CreateArgsAre
<1>2. PICK B : B = ToSet(a.base_url)
  OBVIOUS
<1>3. B \subseteq MirrorBase
  <2>1. \A b : b \in B <=> \E i \in 1..Len(a.base_url) : b = a.base_url[i]
    BY <1>1, <1>2, ToSetIs
  <2>2. \A i \in 1..Len(a.base_url) : a.base_url[i].scheme = "http" /\ a.base_url[i] \in Base
    BY <1>1 DEF Refused
  <2> QED BY <2>1, <2>2 DEF MirrorBase
<1>4. \A name : IsList(compose_urls(a.base_url, a.arch, name), B, a.arch, name)
  BY <1>1, <1>2, ComposeIsList
<1>5. CASE a.manifest
  <2>1. Entries(a)[s] = PointerTo(compose_urls(a.base_url, a.arch, ManifestFile(s)), a.key)
    BY <1>5, EntriesAre, Zenon
  <2>2. IsEntryOn(Entries(a)[s], a, s, B)
    BY <1>4, <1>5, <2>1 DEF IsEntryOn
  <2> QED BY <1>3, <2>2 DEF IsEntry
<1>6. CASE ~ a.manifest
  <2>1. PICK L : L = compose_urls(a.base_url, a.arch, FileName(s))
    OBVIOUS
  <2>2. PICK M : M = IF SignsArgs(a, s) THEN compose_urls(a.base_url, a.arch, "args.json")
                     ELSE Absent
    OBVIOUS
  <2>3. PayloadOf(a, s) = PayloadWith(a, s, L, M)
    BY <2>1, <2>2, PayloadIs, Zenon DEF PayloadWith, SignsArgs
  <2>4. Entries(a)[s] = PayloadEntry(a, s, L, M)
    BY <1>6, <2>3, EntriesAre, Zenon DEF PayloadEntry
  <2>5. /\ IsList(L, B, a.arch, FileName(s))
        /\ IF SignsArgs(a, s) THEN IsList(M, B, a.arch, "args.json") ELSE M = Absent
    BY <1>4, <2>1, <2>2
  <2>6. IsEntryOn(Entries(a)[s], a, s, B)
    BY <1>6, <2>4, <2>5 DEF IsEntryOn
  <2> QED BY <1>3, <2>6 DEF IsEntry
<1> QED BY <1>5, <1>6

LEMMA RewriteIsEntry ==
  ASSUME Flat, NEW a \in Creates, NEW s \in Stage, NEW e, IsEntry(e, a, s, Base), NEW m \in ModifyArgs
  PROVE  IsEntry(RewriteEntry(e, m), a, s, Base)
<1>1. PICK B \in SUBSET Base : IsEntryOn(e, a, s, B)
  BY DEF IsEntry
<1>2. CASE ~ Given(e)
  BY <1>2 DEF RewriteEntry
<1>3. RewriteFields(Absent, m) = Absent
  BY DEF RewriteFields, Given
<1>4. a.arch \in Arch
  BY CreateArgsAre
<1>5. After(B, m) \in SUBSET Base
  <2>1. ToSet(m.add_base_url) \subseteq Base
    BY ToSetIs DEF ModifyArgs
  <2> QED BY <2>1 DEF After
<1>6. ASSUME NEW f \in File, NEW L, IsList(L, B, a.arch, f.name)
      PROVE  Given(L) /\ IsList(rewrite_urls(L, m), After(B, m), a.arch, f.name)
  BY <1>4, <1>6, ListGiven, RewriteIsList
<1>7. CASE Given(e) /\ a.manifest
  <2>1. PICK L : IsList(L, B, a.arch, ManifestFile(s)) /\ e = PointerTo(L, a.key)
    BY <1>1, <1>7 DEF IsEntryOn
  <2>2. PICK f \in File : f.name = ManifestFile(s)
    BY FileNames DEF ManifestFile, ManifestName
  <2>3. Given(L) /\ IsList(rewrite_urls(L, m), After(B, m), a.arch, ManifestFile(s))
    BY <1>6, <2>1, <2>2
  <2>4. PICK k : k = pubkey_b64(a.key)
    OBVIOUS
  <2>5. PICK r : r = [url |-> L, ed25519 |-> k, sig_url |-> Absent, sha256 |-> Absent]
    OBVIOUS
  <2>6. e = [payload |-> Absent, manifest |-> r, resolved_manifests |-> Absent]
    BY <2>1, <2>4, <2>5 DEF PointerTo
  <2>7. CASE ~ Given(r)
    <3>1. RewriteEntry(e, m) = e
      <4>1. RewriteFields(r, m) = r
        BY <2>7 DEF RewriteFields
      <4>2. RewriteEntry(e, m) = [payload |-> Absent, manifest |-> RewriteFields(r, m),
                                  resolved_manifests |-> Absent]
        BY <1>3, <1>7, <2>6 DEF RewriteEntry
      <4> QED BY <2>6, <4>1, <4>2
    <3> QED BY <3>1
  <2>8. CASE Given(r)
    <3>1. PICK N : N = rewrite_urls(L, m)
      OBVIOUS
    <3>2. RewriteFields(r, m) = [url |-> N, ed25519 |-> k, sig_url |-> Absent, sha256 |-> Absent]
      BY <2>3, <2>5, <2>8, <3>1 DEF RewriteFields, Given
    <3>3. RewriteEntry(e, m) = [payload |-> Absent, manifest |-> RewriteFields(r, m),
                                resolved_manifests |-> Absent]
      BY <1>3, <1>7, <2>6 DEF RewriteEntry
    <3>4. RewriteEntry(e, m) = PointerTo(N, a.key)
      BY <2>4, <3>2, <3>3 DEF PointerTo
    <3>5. IsEntryOn(RewriteEntry(e, m), a, s, After(B, m))
      BY <1>7, <2>3, <3>1, <3>4 DEF IsEntryOn
    <3> QED BY <1>5, <3>5 DEF IsEntry
  <2> QED BY <2>7, <2>8
<1>8. CASE Given(e) /\ ~ a.manifest
  <2>1. PICK L, M : /\ IsList(L, B, a.arch, FileName(s))
                    /\ IF SignsArgs(a, s) THEN IsList(M, B, a.arch, "args.json") ELSE M = Absent
                    /\ e = PayloadEntry(a, s, L, M)
    BY <1>1, <1>8 DEF IsEntryOn
  <2>2. /\ \E f \in File : f.name = FileName(s)
        /\ \E f \in File : f.name = "args.json"
    BY FileNames DEF FileName
  <2>3. Given(L) /\ IsList(rewrite_urls(L, m), After(B, m), a.arch, FileName(s))
    BY <1>6, <2>1, <2>2
  <2>4. PICK M2 : M2 = IF SignsArgs(a, s) THEN rewrite_urls(M, m) ELSE Absent
    OBVIOUS
  <2>5. /\ IF SignsArgs(a, s) THEN IsList(M2, After(B, m), a.arch, "args.json") ELSE M2 = Absent
        /\ M2 = IF Given(M) THEN rewrite_urls(M, m) ELSE M
    BY <1>6, <2>1, <2>2, <2>4 DEF Given
  <2>6. PICK r : r = PayloadWith(a, s, L, M)
    OBVIOUS
  <2>7. e = [payload |-> r, manifest |-> Absent, resolved_manifests |-> Absent]
    BY <2>1, <2>6 DEF PayloadEntry
  <2>8. CASE ~ Given(r)
    <3>1. RewriteEntry(e, m) = e
      <4>1. RewriteFields(r, m) = r
        BY <2>8 DEF RewriteFields
      <4>2. RewriteEntry(e, m) = [payload |-> RewriteFields(r, m), manifest |-> Absent,
                                  resolved_manifests |-> Absent]
        BY <1>3, <1>8, <2>7 DEF RewriteEntry
      <4> QED BY <2>7, <4>1, <4>2
    <3> QED BY <3>1
  <2>9. CASE Given(r)
    <3>1. PICK N : N = rewrite_urls(L, m)
      OBVIOUS
    <3>2. PICK h, k, g : r = [url |-> L, sha256 |-> h, ed25519 |-> k, sig_url |-> Absent, args |-> g,
                              args_url |-> M, args_sig_url |-> Absent]
                         /\ PayloadWith(a, s, N, M2) =
                             [url |-> N, sha256 |-> h, ed25519 |-> k, sig_url |-> Absent, args |-> g,
                              args_url |-> M2, args_sig_url |-> Absent]
      BY <2>6, Zenon DEF PayloadWith
    <3>3. RewriteFields(r, m) =
            [url |-> N, sha256 |-> h, ed25519 |-> k, sig_url |-> Absent, args |-> g,
             args_url |-> M2, args_sig_url |-> Absent]
      <4>1. DOMAIN r = {"url", "sha256", "ed25519", "sig_url", "args", "args_url", "args_sig_url"}
        BY <3>2
      <4>2. /\ r.url = L /\ r.sha256 = h /\ r.ed25519 = k /\ r.sig_url = Absent /\ r.args = g
            /\ r.args_url = M /\ r.args_sig_url = Absent
        BY <3>2
      <4> QED BY <2>3, <2>5, <2>9, <3>1, <4>1, <4>2 DEF RewriteFields, Given
    <3>4. RewriteEntry(e, m) = [payload |-> RewriteFields(r, m), manifest |-> Absent,
                                resolved_manifests |-> Absent]
      BY <1>3, <1>8, <2>7 DEF RewriteEntry
    <3>5. RewriteEntry(e, m) = PayloadEntry(a, s, N, M2)
      BY <3>2, <3>3, <3>4 DEF PayloadEntry
    <3>6. IsEntryOn(RewriteEntry(e, m), a, s, After(B, m))
      BY <1>8, <2>3, <2>5, <3>1, <3>5 DEF IsEntryOn
    <3> QED BY <1>5, <3>6 DEF IsEntry
  <2> QED BY <2>8, <2>9
<1> QED BY <1>2, <1>7, <1>8

\* Of every complete release the document has the entries, and everything that
\* was published is an entry of its `create`.
DocServes(X) ==
  doc \notin {Absent, Torn} =>
    \A arch \in Arch, s \in Stage : released[arch] # None =>
      IsEntry(doc[s][arch], released[arch], s, X)

PublishedServes(X) ==
  \A p \in published : EmitsValid(p.a) /\ IsEntry(p.entry, p.a, p.stage, X)

ServedInv(X) == PointInv /\ DocServes(X) /\ PublishedServes(X)

LEMMA ServedInvInit == ASSUME NEW X PROVE Init => ServedInv(X)
<1> SUFFICES ASSUME Init PROVE ServedInv(X)
  OBVIOUS
<1>1. PointInv
  BY PointInvInit
<1>2. DocServes(X) /\ PublishedServes(X)
  BY DEF Init, DocServes, PublishedServes
<1> QED BY <1>1, <1>2 DEF ServedInv

\* A step of `create`, or of the operator's after one.
CreateStep ==
  \/ \E a \in Creates : create(a)
  \/ write_file \/ merge_user_data \/ bail \/ create_dies \/ discard

ModifyStep == \E m \in Modifies : modify(m)

LEMMA ServedInvNext ==
  ASSUME NEW X, MirrorBase \subseteq X, ServedInv(X),
         CreateStep \/ (ModifyStep /\ X = Base /\ Flat) \/ UNCHANGED vars
  PROVE  ServedInv(X)'
<1> USE DEF ServedInv
<1>1. PointInv'
  <2>1. [Next]_vars
    BY DEF CreateStep, ModifyStep, Next
  <2> QED BY <2>1, PointInvNext
<1>2. ASSUME DocServes(X)', doc' \notin {Absent, Torn},
             published' = published \cup Emitted(doc', released')
      PROVE  PublishedServes(X)'
  <2> SUFFICES ASSUME NEW p \in published'
               PROVE  EmitsValid(p.a) /\ IsEntry(p.entry, p.a, p.stage, X)
    BY DEF PublishedServes
  <2>1. CASE p \in published
    BY <2>1 DEF PublishedServes
  <2>2. CASE p \in Emitted(doc', released')
    <3>1. PICK arch \in Arch, s \in Stage :
            /\ released'[arch] # None
            /\ p.a = released'[arch] /\ p.arch = arch /\ p.stage = s /\ p.entry = doc'[s][arch]
      BY <2>2, EmittedAre
    <3> QED BY <1>1, <1>2, <3>1 DEF PointInv, DirInv, ReleasedInv, DocServes
  <2> QED BY <1>2, <2>1, <2>2
<1>3. ASSUME NEW a \in Creates, create(a) PROVE ServedInv(X)'
  BY <1>1, <1>3 DEF create, DocServes, PublishedServes, PointInv, DirInv, ReleasedInv
<1>4. CASE write_file \/ bail
  BY <1>1, <1>4 DEF write_file, bail, DocServes, PublishedServes
<1>5. CASE merge_user_data
  <2>1. PICK a \in Creates : a = job.a /\ a.arch \in Arch /\ ~ Refused(a)
    BY <1>5, CreateArgsAre DEF merge_user_data, PointInv, DirInv, JobInv
  <2>2. /\ doc' = set_arch(doc, a) /\ released' = [released EXCEPT ![a.arch] = a]
        /\ published' = published \cup Emitted(doc', released') /\ doc # Torn
    BY <1>5, <2>1 DEF merge_user_data
  <2>3. EmitsValid(a) /\ doc \in Document \cup {Absent}
    BY <1>5, <2>1, <2>2 DEF merge_user_data, PointInv, DocTyped
  <2>4. /\ doc' \in Document /\ doc' \notin {Absent, Torn}
        /\ \A s \in Stage, arch \in Arch :
             doc'[s][arch] = IF arch = a.arch THEN Entries(a)[s]
                             ELSE IF doc = Absent THEN Absent ELSE doc[s][arch]
    BY <2>2, <2>3, MergeTyped
  <2>5. ASSUME NEW arch \in Arch, NEW s \in Stage, released'[arch] # None
        PROVE  IsEntry(doc'[s][arch], released'[arch], s, X)
    <3>1. CASE arch = a.arch
      <4>1. doc'[s][arch] = Entries(a)[s] /\ released'[arch] = a
        BY <2>1, <2>2, <2>4, <3>1 DEF PointInv, DirInv, ReleasedInv
      <4> QED BY <2>1, <4>1, EntriesAreOn
    <3>2. CASE arch # a.arch
      <4>1. released'[arch] = released[arch]
        BY <2>2, <3>2 DEF PointInv, DirInv, ReleasedInv
      <4>2. doc # Absent
        BY <2>5, <4>1 DEF PointInv, DocPoints
      <4>3. doc'[s][arch] = doc[s][arch]
        BY <2>4, <3>2, <4>2
      <4> QED BY <2>2, <2>5, <4>1, <4>2, <4>3 DEF DocServes
    <3> QED BY <3>1, <3>2
  <2>6. DocServes(X)'
    BY <2>4, <2>5 DEF DocServes
  <2> QED BY <1>1, <1>2, <2>2, <2>4, <2>6
<1>6. CASE create_dies
  <2>1. doc' \in {doc, Torn} /\ UNCHANGED <<released, published>>
    BY <1>6 DEF create_dies
  <2> QED BY <1>1, <2>1 DEF DocServes, PublishedServes
<1>7. ASSUME NEW m \in Modifies, modify(m), X = Base, Flat PROVE ServedInv(X)'
  <2>1. /\ m \in ModifyArgs /\ released' = released /\ doc \in Document /\ doc \notin {Absent, Torn}
    BY <1>7, DeployAssumption DEF modify, PointInv, DocTyped
  <2>2. CASE /\ doc' = [s \in Stage |-> [arch \in Arch |-> RewriteEntry(doc[s][arch], m)]]
             /\ published' = published \cup Emitted(doc', released)
    <3>1. /\ doc' \in Document /\ doc' \notin {Absent, Torn}
          /\ \A s \in Stage, arch \in Arch : doc'[s][arch] = RewriteEntry(doc[s][arch], m)
      BY <2>1, <2>2, ModifyTyped
    <3>2. DocServes(X)'
      <4>1. \A arch \in Arch : released[arch] # None => released[arch] \in Creates
        BY DEF PointInv, DirInv, ReleasedInv
      <4> QED BY <1>7, <2>1, <3>1, <4>1, RewriteIsEntry DEF DocServes
    <3> QED BY <1>1, <1>2, <2>1, <2>2, <3>1, <3>2
  <2>3. CASE doc' = Torn /\ UNCHANGED published
    BY <1>1, <2>1, <2>3 DEF DocServes, PublishedServes
  <2> QED BY <1>7, <2>2, <2>3 DEF modify
<1>8. CASE discard
  BY <1>1, <1>8 DEF discard, DocServes, PublishedServes
<1>9. CASE UNCHANGED vars
  BY <1>1, <1>9 DEF vars, DocServes, PublishedServes
<1> QED BY <1>3, <1>4, <1>5, <1>6, <1>7, <1>8, <1>9 DEF CreateStep, ModifyStep

-----------------------------------------------------------------------------
(* What the mirrors serve.                                                 *)

\* The directory holds all that b writes.
Holds(b) == \A w \in WriteSet(b) : dir[b.arch][w.file] = w.content

LEMMA ContentAt ==
  ASSUME NEW x \in Base, NEW arch \in Arch, NEW n, \E f \in File : f.name = n,
         NEW u, u = Compose(x, <<arch, n>>)
  PROVE  /\ Content(u, FALSE) = dir[arch][[name |-> n, sig |-> FALSE]]
         /\ Content(u, TRUE) = dir[arch][[name |-> n, sig |-> TRUE]]
<1>1. PICK path : path = <<arch, n>>
  OBVIOUS
<1>2. u = Compose(x, path)
  BY <1>1
<1>3. arch \in PathPart /\ n \in PathPart
  BY Zenon DEF PathPart
<1>4. path \in Seq(PathPart) /\ Len(path) >= 2
  BY <1>1, <1>3
<1>5. path[Len(path) - 1] = arch /\ path[Len(path)] = n
  BY <1>1
<1>6. u \in ServedUrl(arch, n)
  BY <1>2, <1>4, <1>5, ComposeServed
<1>7. u.path[Len(u.path) - 1] = arch /\ u.path[Len(u.path)] = n
  BY <1>6 DEF ServedUrl
<1>8. \E b \in Base : \E y \in Arch, g \in File : u = Compose(b, <<y, g.name>>)
  BY Zenon
<1> QED BY <1>7, <1>8, Zenon DEF Content

LEMMA SignVerifies ==
  ASSUME NEW k, NEW d, NEW c
  PROVE  verify(pubkey_b64(k), d, c, sign(k, d, c))
<1>1. ASSUME NEW b, NEW l, NEW q
      PROVE  LET r == [base64 |-> b, len |-> l, key |-> q]
             IN  r.base64 = b /\ r.len = l /\ r.key = q
  OBVIOUS
<1>2. pubkey_b64(k).base64 = TRUE /\ pubkey_b64(k).len = 32 /\ pubkey_b64(k).key = k
  BY <1>1, Zenon DEF pubkey_b64
<1> QED BY <1>2, Zenon DEF verify

LEMMA SignedContent ==
  ASSUME NEW u, NEW k, NEW d, NEW c, Readable(c),
         Content(u, FALSE) = c, Content(u, TRUE) = sign(k, d, c)
  PROVE  SignedAt(u, pubkey_b64(k), d)
BY SignVerifies, Zenon DEF SignedAt

LEMMA SignedHolds ==
  ASSUME NEW D, NEW n, NEW c, NEW k, NEW d,
         \A w \in SignedSet(n, c, k, d) : D[w.file] = w.content
  PROVE  /\ D[[name |-> n, sig |-> FALSE]] = c
         /\ k # None => D[[name |-> n, sig |-> TRUE]] = sign(k, d, c)
<1>1. ASSUME NEW f, NEW x PROVE [file |-> f, content |-> x].file = f /\ [file |-> f, content |-> x].content = x
  OBVIOUS
<1>2. /\ Write(n, c).file = [name |-> n, sig |-> FALSE] /\ Write(n, c).content = c
      /\ WriteSig(n, sign(k, d, c)).file = [name |-> n, sig |-> TRUE]
      /\ WriteSig(n, sign(k, d, c)).content = sign(k, d, c)
  BY <1>1, Zenon DEF Write, WriteSig
<1>3. Write(n, c) \in SignedSet(n, c, k, d) /\ (k # None => WriteSig(n, sign(k, d, c)) \in SignedSet(n, c, k, d))
  BY DEF SignedSet
<1> QED BY <1>2, <1>3, Zenon

\* The payload of a stage, and its signature unless a manifest pins it.
LEMMA PayloadHolds ==
  ASSUME NEW b \in Creates, Holds(b), NEW s \in Stage
  PROVE  /\ dir[b.arch][[name |-> FileName(s), sig |-> FALSE]] = CodeOf(b, s)
         /\ payload_key(b) # None =>
              dir[b.arch][[name |-> FileName(s), sig |-> TRUE]] =
                sign(payload_key(b), PayloadDomain(s), CodeOf(b, s))
<1>1. \A w \in SignedSet(FileName(s), CodeOf(b, s), payload_key(b), PayloadDomain(s)) :
        dir[b.arch][w.file] = w.content
  <2>1. CASE s = "_stage1"
    BY <2>1 DEF Holds, WriteSet, FileName, CodeOf, PayloadDomain
  <2>2. CASE s = "_stage2"
    BY <2>2 DEF Holds, WriteSet, FileName, CodeOf, PayloadDomain
  <2> QED BY <2>1, <2>2 DEF Stage
<1> QED BY <1>1, SignedHolds

LEMMA ArgsHold ==
  ASSUME NEW b \in Creates, Holds(b), b.sign_args, b.args # Malformed
  PROVE  /\ dir[b.arch][[name |-> "args.json", sig |-> FALSE]] = [args |-> b.args]
         /\ dir[b.arch][[name |-> "args.json", sig |-> TRUE]] =
              sign(b.key, "stage2.args", [args |-> b.args])
<1> DEFINE c == [args |-> b.args]
<1>1. \A w \in SignedSet("args.json", c, b.key, "stage2.args") : dir[b.arch][w.file] = w.content
  BY DEF Holds, WriteSet
<1>2. b.key # None
  BY CreateArgsAre
<1> HIDE DEF c
<1>3. /\ dir[b.arch][[name |-> "args.json", sig |-> FALSE]] = c
      /\ dir[b.arch][[name |-> "args.json", sig |-> TRUE]] = sign(b.key, "stage2.args", c)
  BY <1>1, <1>2, SignedHolds
<1> QED BY <1>3 DEF c

LEMMA ManifestHolds ==
  ASSUME NEW b \in Creates, Holds(b), b.manifest, b.args # Malformed, NEW s \in Stage
  PROVE  /\ dir[b.arch][[name |-> ManifestFile(s), sig |-> FALSE]] = Fragment(PayloadOf(b, s))
         /\ dir[b.arch][[name |-> ManifestFile(s), sig |-> TRUE]] =
              sign(b.key, ManifestDomain(s), Fragment(PayloadOf(b, s)))
<1>1. \A w \in SignedSet(ManifestFile(s), Fragment(PayloadOf(b, s)), b.key, ManifestDomain(s)) :
        dir[b.arch][w.file] = w.content
  <2>1. CASE s = "_stage1"
    BY <2>1 DEF Holds, WriteSet, ManifestFile, ManifestName, FileName, PayloadOf, ManifestDomain
  <2>2. CASE s = "_stage2"
    BY <2>2 DEF Holds, WriteSet, ManifestFile, ManifestName, FileName, PayloadOf, ManifestDomain
  <2> QED BY <2>1, <2>2 DEF Stage
<1>2. b.key # None
  BY CreateArgsAre
<1> QED BY <1>1, <1>2, SignedHolds

\* What is served is no missing or torn file.
LEMMA BlobsReadable ==
  ASSUME NEW b \in Creates, b.args # Malformed, NEW s \in Stage
  PROVE  /\ Readable(CodeOf(b, s)) /\ Readable(Fragment(PayloadOf(b, s)))
         /\ b.args # None => Readable([args |-> b.args])
<1>1. CodeOf(b, s) \in Blob
  BY CreateArgsAre DEF CodeOf, Blob
<1>2. Fragment(PayloadOf(b, s)) \in Blob
  BY PayloadTyped DEF Fragment, Blob
<1>3. b.args # None => [args |-> b.args] \in Blob
  BY CreateArgsAre DEF Blob
<1> QED BY <1>1, <1>2, <1>3, DeployAssumption DEF Readable

\* A payload's entry, once it is parsed.
LEMMA EntryFields ==
  ASSUME NEW a \in Creates, a.args # Malformed, NEW s \in Stage, NEW L, L # Absent, NEW M
  PROVE  LET p == Fields(PayloadWith(a, s, L, M))
         IN  /\ p.url = L
             /\ payload_key(a) = None => p.sha256 = sha256(CodeOf(a, s)) /\ p.sha256 # None
             /\ payload_key(a) # None => /\ p.sha256 = None
                                         /\ p.ed25519 = pubkey_b64(payload_key(a))
             /\ p.args_url = IF M = Absent THEN None ELSE M
             /\ (IF p.args = None THEN <<>> ELSE p.args) =
                   IF s = "_stage1" \/ a.args = None \/ a.sign_args THEN <<>> ELSE a.args
<1>1. sha256(CodeOf(a, s)) \notin {Absent, None}
  <2>1. sha256(CodeOf(a, s)) \in Hex
    BY CreateArgsAre DEF CodeOf, sha256, Hex
  <2> QED BY <2>1, NoObject
<1>2. payload_key(a) # None => pubkey_b64(payload_key(a)) # Absent
  <2>1. payload_key(a) # None => pubkey_b64(payload_key(a)) \in PubKey
    BY CreateArgsAre DEF payload_key, pubkey_b64, PubKey
  <2> QED BY <2>1, NoObject
<1>3. a.args # Absent
  BY CreateArgsAre, NoObject, MetadataAssumption
<1>4. PICK r : r = PayloadWith(a, s, L, M)
  OBVIOUS
<1>5. /\ {"url", "sha256", "ed25519", "args", "args_url"} \subseteq DOMAIN r
      /\ r.url = L /\ r.args_url = M
      /\ r.sha256 = IF payload_key(a) = None THEN sha256(CodeOf(a, s)) ELSE Absent
      /\ r.ed25519 = IF payload_key(a) = None THEN Absent ELSE pubkey_b64(payload_key(a))
      /\ r.args = IF s = "_stage1" \/ a.args = None \/ a.sign_args THEN Absent ELSE a.args
  BY <1>4 DEF PayloadWith
<1>6. /\ Fields(r).url = L
      /\ Fields(r).sha256 = IF payload_key(a) = None THEN sha256(CodeOf(a, s)) ELSE None
      /\ payload_key(a) # None => Fields(r).ed25519 = pubkey_b64(payload_key(a))
      /\ Fields(r).args_url = IF M = Absent THEN None ELSE M
      /\ Fields(r).args = IF s = "_stage1" \/ a.args = None \/ a.sign_args THEN None ELSE a.args
  BY <1>1, <1>2, <1>3, <1>5 DEF Fields
<1> QED BY <1>1, <1>4, <1>6

\* Release b is a itself, or of the same key and the same way of admission.
Like(b, a) ==
  /\ b.arch = a.arch
  /\ b.key = a.key
  /\ a.key = None => b = a
  /\ b.manifest <=> a.manifest
  /\ b.sign_args <=> a.sign_args

\* M is the list of the mirrors of a's arguments, if they are signed.
ArgsList(M, a, s, B) ==
  IF SignsArgs(a, s) THEN IsList(M, B, a.arch, "args.json") ELSE M = Absent

\* From every mirror of a payload's entry comes the payload of release b that
\* is in the directory, if b is the release itself or signed by the same key.
LEMMA PayloadServes ==
  ASSUME NEW a \in Creates, NEW b \in Creates, ~ a.manifest, ~ b.manifest,
         a.args # Malformed, b.args # Malformed,
         Like(b, a), Holds(b), NEW s \in Stage, NEW B \in SUBSET Base, NEW L, NEW M,
         IsList(L, B, a.arch, FileName(s)),
         ArgsList(M, a, s, B),
         NEW u \in ToSet(L)
  PROVE  RunsFrom(Fields(PayloadWith(a, s, L, M)), s, u) =
           {[code |-> CodeOf(b, s),
             args |-> IF SignsArgs(a, s) THEN b.args
                      ELSE IF s = "_stage1" \/ a.args = None THEN <<>> ELSE a.args]}
<1>1. PICK arch \in Arch : arch = a.arch
  BY CreateArgsAre
<1>2. PICK x \in B : u = Compose(x, <<arch, FileName(s)>>)
  BY <1>1 DEF IsList, Urls
<1>3. PICK f \in File : f.name = FileName(s)
  BY FileNames DEF FileName
<1>4. PICK fa \in File : fa.name = "args.json"
  BY FileNames
<1>5. /\ Content(u, FALSE) = CodeOf(b, s)
      /\ payload_key(b) # None =>
           Content(u, TRUE) = sign(payload_key(b), PayloadDomain(s), CodeOf(b, s))
  <2>1. /\ Content(u, FALSE) = dir[arch][[name |-> FileName(s), sig |-> FALSE]]
        /\ Content(u, TRUE) = dir[arch][[name |-> FileName(s), sig |-> TRUE]]
    <3>1. x \in Base
      OBVIOUS
    <3> QED BY <1>2, <1>3, <3>1, ContentAt, Zenon
  <2> QED BY <1>1, <2>1, PayloadHolds DEF Like
<1>6. Readable(CodeOf(b, s))
  BY BlobsReadable
<1>7. L # Absent /\ (SignsArgs(a, s) => M \notin {Absent, None})
  <2>1. Given(L)
    BY <1>1, <1>3, ListGiven
  <2>2. SignsArgs(a, s) => Given(M)
    BY <1>1, <1>4, ListGiven DEF ArgsList
  <2> QED BY <2>1, <2>2 DEF Given
<1>8. PICK p : p = Fields(PayloadWith(a, s, L, M))
  OBVIOUS
<1>9. /\ payload_key(a) = None => p.sha256 = sha256(CodeOf(a, s)) /\ p.sha256 # None
      /\ payload_key(a) # None => p.sha256 = None /\ p.ed25519 = pubkey_b64(payload_key(a))
      /\ p.args_url = IF SignsArgs(a, s) THEN M ELSE None
      /\ (IF p.args = None THEN <<>> ELSE p.args) =
            IF s = "_stage1" \/ a.args = None \/ a.sign_args THEN <<>> ELSE a.args
  BY <1>7, <1>8, EntryFields DEF ArgsList
<1>10. payload_key(a) = a.key /\ payload_key(b) = a.key
  BY DEF payload_key, Like
<1>11. RunsFrom(p, s, u) = {[code |-> CodeOf(b, s), args |-> v] : v \in Argvs(p)}
  <2>1. CASE a.key = None
    <3>1. eq_ignore_ascii_case(p.sha256, sha256(Content(u, FALSE))) /\ p.sha256 # None
      BY <1>5, <1>9, <1>10, <2>1 DEF eq_ignore_ascii_case, Like
    <3> QED BY <1>5, <1>6, <3>1 DEF RunsFrom
  <2>2. CASE a.key # None
    <3>1. SignedAt(u, p.ed25519, PayloadDomain(s)) /\ p.sha256 = None
      BY <1>5, <1>6, <1>9, <1>10, <2>2, SignedContent
    <3> QED BY <1>5, <3>1 DEF RunsFrom
  <2> QED BY <2>1, <2>2
<1>12. Argvs(p) = {IF SignsArgs(a, s) THEN b.args
                   ELSE IF s = "_stage1" \/ a.args = None THEN <<>> ELSE a.args}
  <2>1. CASE ~ SignsArgs(a, s)
    BY <1>9, <2>1 DEF Argvs, SignsArgs
  <2>2. CASE SignsArgs(a, s)
    <3>1. a.key # None /\ b.args # None /\ b.sign_args
      BY <2>2, CreateArgsAre DEF SignsArgs, Like
    <3>2. ASSUME NEW v \in ToSet(M)
          PROVE  SignedAt(v, p.ed25519, "stage2.args") /\ Content(v, FALSE).args = b.args
      <4>1. PICK y \in B : v = Compose(y, <<arch, "args.json">>)
        BY <1>1, <2>2 DEF IsList, Urls, ArgsList
      <4>2. /\ Content(v, FALSE) = dir[arch][[name |-> "args.json", sig |-> FALSE]]
            /\ Content(v, TRUE) = dir[arch][[name |-> "args.json", sig |-> TRUE]]
        <5>1. y \in Base
          OBVIOUS
        <5> QED BY <1>4, <4>1, <5>1, ContentAt, Zenon
      <4>3. /\ Content(v, FALSE) = [args |-> b.args]
            /\ Content(v, TRUE) = sign(b.key, "stage2.args", [args |-> b.args])
        BY <1>1, <3>1, <4>2, ArgsHold DEF Like
      <4>4. Readable([args |-> b.args])
        BY <3>1, BlobsReadable
      <4>5. p.ed25519 = pubkey_b64(b.key)
        BY <1>9, <1>10, <3>1 DEF Like
      <4>6. SignedAt(v, p.ed25519, "stage2.args")
        BY <4>3, <4>4, <4>5, SignedContent, Zenon
      <4>7. Content(v, FALSE).args = b.args
        <5>1. PICK z : z = b.args
          OBVIOUS
        <5>2. [args |-> z].args = z
          OBVIOUS
        <5> QED BY <4>3, <5>1, <5>2, Zenon
      <4> QED BY <4>6, <4>7
    <3>3. \E v : v \in ToSet(M)
      <4>1. Compose(x, <<arch, "args.json">>) \in ToSet(M)
        BY <1>1, <2>2 DEF IsList, Urls, ArgsList
      <4> QED BY <4>1
    <3>4. p.args_url = M /\ p.args_url # None
      BY <1>7, <1>9, <2>2
    <3>5. Argvs(p) = {Content(v, FALSE).args : v \in {v \in ToSet(M) : SignedAt(v, p.ed25519, "stage2.args")}}
      BY <3>4 DEF Argvs
    <3>6. Argvs(p) = {b.args}
      BY <3>2, <3>3, <3>5
    <3> QED BY <2>2, <3>6
  <2> QED BY <2>1, <2>2
<1> QED BY <1>8, <1>11, <1>12

\* From every mirror of a pointer comes the release b that is in the
\* directory, if it is under the same key.
LEMMA PointerServes ==
  ASSUME NEW b \in Creates, b.manifest, ~ Refused(b), b.args # Malformed, Holds(b),
         NEW s \in Stage, NEW B \in SUBSET Base, NEW L, IsList(L, B, b.arch, ManifestFile(s)),
         NEW u \in ToSet(L)
  PROVE  OutcomesAt(PointerTo(L, b.key), s, u) = {Promised(b, s)}
<1>1. PICK arch \in Arch : arch = b.arch
  BY CreateArgsAre
<1>2. PICK x \in B : u = Compose(x, <<arch, ManifestFile(s)>>)
  BY <1>1 DEF IsList, Urls
<1>3. PICK f \in File : f.name = ManifestFile(s)
  BY FileNames DEF ManifestFile, ManifestName
<1>4. PICK g \in File : g.name = FileName(s)
  BY FileNames DEF FileName
<1>5. PICK m : m = Fragment(PayloadOf(b, s))
  OBVIOUS
<1>6. Content(u, FALSE) = m /\ Content(u, TRUE) = sign(b.key, ManifestDomain(s), m)
  <2>1. /\ Content(u, FALSE) = dir[arch][[name |-> ManifestFile(s), sig |-> FALSE]]
        /\ Content(u, TRUE) = dir[arch][[name |-> ManifestFile(s), sig |-> TRUE]]
    <3>1. PICK n : n = ManifestFile(s)
      OBVIOUS
    <3>2. x \in Base /\ f.name = n /\ u = Compose(x, <<arch, n>>)
      BY <1>2, <1>3, <3>1
    <3>3. /\ Content(u, FALSE) = dir[arch][[name |-> n, sig |-> FALSE]]
          /\ Content(u, TRUE) = dir[arch][[name |-> n, sig |-> TRUE]]
      BY <3>2, ContentAt, Zenon
    <3> QED BY <3>1, <3>3, Zenon
  <2> QED BY <1>1, <1>5, <2>1, ManifestHolds
<1>7. PICK e : e = PointerTo(L, b.key)
  OBVIOUS
<1>8. e.manifest # Absent
  <2>1. L \in UrlList
    BY <1>1, <1>3, ListGiven
  <2>2. pubkey_b64(b.key) \in PubKey
    BY CreateArgsAre DEF pubkey_b64, PubKey
  <2>3. e.manifest \in ManifestRef
    BY <1>7, <2>1, <2>2 DEF PointerTo, ManifestRef, Maybe
  <2> QED BY <2>3, NoObject
<1>9. e.manifest.ed25519 = pubkey_b64(b.key) /\ e.manifest.sha256 = Absent
  BY <1>7 DEF PointerTo
<1>10. SignedAt(u, e.manifest.ed25519, ManifestDomain(s))
  <2>1. Readable(m)
    BY <1>5, BlobsReadable
  <2> QED BY <1>6, <1>9, <2>1, SignedContent, Zenon
<1>11. PICK p : p = Fields(PayloadOf(b, s))
  OBVIOUS
<1>12. /\ p.url = compose_urls(b.base_url, b.arch, FileName(s))
       /\ p.sha256 = sha256(CodeOf(b, s)) /\ p.sha256 # None /\ p.args_url = None
       /\ (IF p.args = None THEN <<>> ELSE p.args) = Promised(b, s).args
  BY <1>11, PinnedFields
<1>13. OutcomesAt(e, s, u) = UNION {RunsFrom(p, s, w) : w \in ToSet(p.url)}
  <2>1. m.payload = PayloadOf(b, s)
    BY <1>5 DEF Fragment
  <2>2. Fields(Content(u, FALSE).payload) = p
    BY <1>6, <1>11, <2>1
  <2>3. ~ Given(e.manifest.sha256)
    BY <1>9 DEF Given
  <2> QED BY <1>8, <1>10, <2>2, <2>3 DEF OutcomesAt, IsManifest
<1>14. PICK Bs \in SUBSET Base : Bs = ToSet(b.base_url) /\ IsList(p.url, Bs, arch, FileName(s))
  <2>1. b.base_url \in Seq(Base)
    BY CreateArgsAre
  <2> QED BY <1>1, <1>12, <2>1, ComposeIsList, ToSetIs
<1>15. ASSUME NEW w \in ToSet(p.url) PROVE RunsFrom(p, s, w) = {Promised(b, s)}
  <2>1. PICK y \in Bs : w = Compose(y, <<arch, FileName(s)>>)
    BY <1>14 DEF IsList, Urls
  <2>2. Content(w, FALSE) = CodeOf(b, s)
    <3>1. PICK n : n = FileName(s)
      OBVIOUS
    <3>2. y \in Base /\ g.name = n /\ w = Compose(y, <<arch, n>>)
      BY <1>4, <2>1, <3>1
    <3>3. Content(w, FALSE) = dir[arch][[name |-> n, sig |-> FALSE]]
      BY <3>2, ContentAt, Zenon
    <3> QED BY <1>1, <3>1, <3>3, PayloadHolds
  <2>3. Readable(CodeOf(b, s))
    BY BlobsReadable
  <2>4. RunsFrom(p, s, w) = {[code |-> CodeOf(b, s), args |-> v] : v \in Argvs(p)}
    BY <1>12, <2>2, <2>3 DEF RunsFrom, eq_ignore_ascii_case
  <2>5. Argvs(p) = {Promised(b, s).args}
    BY <1>12 DEF Argvs
  <2>6. Promised(b, s) = [code |-> CodeOf(b, s), args |-> Promised(b, s).args]
    BY DEF Promised, CodeOf
  <2> QED BY <2>4, <2>5, <2>6
<1>16. \E w : w \in ToSet(p.url)
  <2>1. b.base_url \in Seq(Base) /\ b.base_url # <<>>
    BY CreateArgsAre
  <2>2. 1 \in 1..Len(b.base_url)
    BY <2>1
  <2>3. b.base_url[1] \in Bs
    BY <1>14, <2>1, <2>2, ToSetIs
  <2>4. Compose(b.base_url[1], <<arch, FileName(s)>>) \in ToSet(p.url)
    BY <1>14, <2>3 DEF IsList, Urls
  <2> QED BY <2>4
<1>17. OutcomesAt(e, s, u) = {Promised(b, s)}
  BY <1>13, <1>15, <1>16
<1> QED BY <1>7, <1>17

\* The argument list that an instance with a's entry takes when b is released.
ArgsFor(a, b, s) ==
  IF b.manifest THEN Promised(b, s).args
  ELSE IF SignsArgs(a, s) THEN b.args
  ELSE IF s = "_stage1" \/ a.args = None THEN <<>> ELSE a.args

\* Every mirror of a's entry gives such a release b.
LEMMA EntryServes ==
  ASSUME NEW a \in Creates, NEW b \in Creates, a.args # Malformed, b.args # Malformed,
         ~ Refused(b), Like(b, a),
         Holds(b), NEW s \in Stage, NEW e, IsEntry(e, a, s, Base)
  PROVE  /\ e # Absent
         /\ \A u \in Mirrors(e) :
              OutcomesAt(e, s, u) = {[code |-> CodeOf(b, s), args |-> ArgsFor(a, b, s)]}
<1>1. PICK B \in SUBSET Base : IsEntryOn(e, a, s, B)
  BY DEF IsEntry
<1>2. PICK arch \in Arch : arch = a.arch
  BY CreateArgsAre
<1>3. CASE a.manifest
  <2>1. PICK L : IsList(L, B, b.arch, ManifestFile(s)) /\ e = PointerTo(L, b.key)
    BY <1>1, <1>3 DEF IsEntryOn, Like
  <2>2. PICK f \in File : f.name = ManifestFile(s)
    BY FileNames DEF ManifestFile, ManifestName
  <2>3. L \in UrlList
    BY <1>2, <2>1, <2>2, ListGiven DEF Like
  <2>4. PICK r : r = [url |-> L, ed25519 |-> pubkey_b64(b.key), sig_url |-> Absent, sha256 |-> Absent]
    OBVIOUS
  <2>5. r \in ManifestRef /\ r.url = L
    <3>1. pubkey_b64(b.key) \in PubKey
      BY <1>3, CreateArgsAre DEF pubkey_b64, PubKey, Like
    <3> QED BY <2>3, <2>4, <3>1 DEF ManifestRef, Maybe
  <2>6. e = [payload |-> Absent, manifest |-> r, resolved_manifests |-> Absent]
    BY <2>1, <2>4 DEF PointerTo
  <2>7. e \in Entry /\ e.manifest = r
    BY <2>5, <2>6 DEF Entry, Maybe
  <2>8. e # Absent /\ e.manifest # Absent
    BY <2>5, <2>7, NoObject
  <2>9. Mirrors(e) = ToSet(L)
    BY <2>5, <2>7, <2>8 DEF Mirrors, IsManifest
  <2>10. ASSUME NEW u \in ToSet(L) PROVE OutcomesAt(e, s, u) = {Promised(b, s)}
    <3>1. b.manifest
      BY <1>3 DEF Like
    <3>2. IsList(L, B, b.arch, ManifestFile(s))
      BY <2>1
    <3>3. OutcomesAt(PointerTo(L, b.key), s, u) = {Promised(b, s)}
      BY <3>1, <3>2, PointerServes
    <3> QED BY <2>1, <3>3
  <2>11. Promised(b, s) = [code |-> CodeOf(b, s), args |-> ArgsFor(a, b, s)]
    <3>1. b.manifest
      BY <1>3 DEF Like
    <3>2. ArgsFor(a, b, s) = Promised(b, s).args
      BY <3>1 DEF ArgsFor
    <3>3. Promised(b, s) = [code |-> CodeOf(b, s), args |-> Promised(b, s).args]
      BY DEF Promised, CodeOf
    <3> QED BY <3>2, <3>3
  <2> QED BY <2>8, <2>9, <2>10, <2>11
<1>4. CASE ~ a.manifest
  <2>1. PICK L, M : /\ IsList(L, B, a.arch, FileName(s))
                    /\ IF SignsArgs(a, s) THEN IsList(M, B, a.arch, "args.json") ELSE M = Absent
                    /\ e = PayloadEntry(a, s, L, M)
    BY <1>1, <1>4, Zenon DEF IsEntryOn
  <2>2. PICK f \in File : f.name = FileName(s)
    BY FileNames DEF FileName
  <2>3. PICK fa \in File : fa.name = "args.json"
    BY FileNames
  <2>4. L \in UrlList /\ M \in UrlList \cup {Absent}
    <3>1. L \in UrlList
      BY <1>2, <2>1, <2>2, ListGiven
    <3>2. SignsArgs(a, s) => M \in UrlList
      BY <1>2, <2>1, <2>3, ListGiven
    <3> QED BY <2>1, <3>1, <3>2
  <2>5. PICK r : r = PayloadWith(a, s, L, M)
    OBVIOUS
  <2>6. r \in Payload /\ r.url = L
    <3>1. CodeOf(a, s) \in Bytes /\ a.args \in Seq(Arg) \cup {None}
      BY CreateArgsAre DEF CodeOf
    <3>2. sha256(CodeOf(a, s)) \in Hex
      BY <3>1 DEF sha256, Hex
    <3>3. payload_key(a) # None => pubkey_b64(payload_key(a)) \in PubKey
      BY CreateArgsAre DEF payload_key, pubkey_b64, PubKey
    <3> QED BY <2>4, <2>5, <3>1, <3>2, <3>3 DEF PayloadWith, Payload, Maybe
  <2>7. e = [payload |-> r, manifest |-> Absent, resolved_manifests |-> Absent]
    BY <2>1, <2>5 DEF PayloadEntry
  <2>8. e \in Entry /\ e.payload = r /\ e.manifest = Absent
    BY <2>6, <2>7 DEF Entry, Maybe
  <2>9. e # Absent
    BY <2>8, NoObject
  <2>10. Mirrors(e) = ToSet(L)
    BY <2>6, <2>8 DEF Mirrors, IsManifest
  <2>11. ASSUME NEW u \in ToSet(L)
         PROVE  OutcomesAt(e, s, u) = {[code |-> CodeOf(b, s), args |-> ArgsFor(a, b, s)]}
    <3>1. OutcomesAt(e, s, u) = RunsFrom(Fields(r), s, u)
      BY <2>8 DEF OutcomesAt, IsManifest
    <3>2. RunsFrom(Fields(PayloadWith(a, s, L, M)), s, u) =
            {[code |-> CodeOf(b, s),
              args |-> IF SignsArgs(a, s) THEN b.args
                       ELSE IF s = "_stage1" \/ a.args = None THEN <<>> ELSE a.args]}
      <4>1. ~ b.manifest
        BY <1>4 DEF Like
      <4>2. IsList(L, B, a.arch, FileName(s))
        BY <2>1
      <4>3. ArgsList(M, a, s, B)
        BY <2>1, Zenon DEF ArgsList
      <4> QED BY <1>4, <4>1, <4>2, <4>3, PayloadServes
    <3>3. ArgsFor(a, b, s) = IF SignsArgs(a, s) THEN b.args
                             ELSE IF s = "_stage1" \/ a.args = None THEN <<>> ELSE a.args
      <4>1. ~ b.manifest
        BY <1>4 DEF Like
      <4> QED BY <4>1 DEF ArgsFor
    <3> QED BY <2>5, <3>1, <3>2, <3>3
  <2> QED BY <2>9, <2>10, <2>11
<1> QED BY <1>3, <1>4

LEMMA ServedInvServes == ServedInv(Base) => ReleaseIsServed
<1> SUFFICES ASSUME ServedInv(Base), doc \notin {Absent, Torn}, NEW arch \in Arch,
                    released[arch] # None, NEW s \in Stage
             PROVE  /\ doc[s][arch] # Absent
                    /\ \A u \in Mirrors(doc[s][arch]) :
                         OutcomesAt(doc[s][arch], s, u) = {Promised(released[arch], s)}
  BY DEF ReleaseIsServed
<1>1. PICK b \in Creates : b = released[arch]
  BY DEF ServedInv, PointInv, DirInv, ReleasedInv
<1>2. b.arch = arch /\ ~ Refused(b) /\ b.args # Malformed /\ Holds(b)
  <2>1. /\ b.arch = arch /\ ~ Refused(b) /\ EmitsValid(b)
        /\ \A w \in WriteSet(b) : dir[arch][w.file] = w.content
    BY <1>1 DEF ServedInv, PointInv, DirInv, ReleasedInv
  <2> QED BY <2>1 DEF EmitsValid, Holds
<1>3. PICK e : e = doc[s][arch]
  OBVIOUS
<1>4. IsEntry(e, b, s, Base)
  BY <1>1, <1>3 DEF ServedInv, DocServes
<1>5. /\ e # Absent
      /\ \A u \in Mirrors(e) :
           OutcomesAt(e, s, u) = {[code |-> CodeOf(b, s), args |-> ArgsFor(b, b, s)]}
  <2>1. Like(b, b)
    BY DEF Like
  <2> QED BY <1>2, <1>4, <2>1, EntryServes
<1>6. Promised(b, s) = [code |-> CodeOf(b, s), args |-> ArgsFor(b, b, s)]
  <2>1. SignsArgs(b, s) => s # "_stage1" /\ b.args # None
    BY CreateArgsAre DEF SignsArgs
  <2> QED BY <2>1 DEF Promised, CodeOf, ArgsFor
<1> QED BY <1>1, <1>3, <1>5, <1>6

LEMMA ServedInvRolls == ServedInv(Base) => RollsForward
<1> SUFFICES ASSUME ServedInv(Base), NEW p \in published, released[p.arch] # None,
                    Succeeds(released[p.arch], p.a), NEW u \in Mirrors(p.entry)
             PROVE  IF released[p.arch].manifest \/ released[p.arch].sign_args
                    THEN OutcomesAt(p.entry, p.stage, u) = {Promised(released[p.arch], p.stage)}
                    ELSE {o.code : o \in OutcomesAt(p.entry, p.stage, u)}
                           = {Promised(released[p.arch], p.stage).code}
  BY DEF RollsForward
<1>1. PICK s \in Stage, arch \in Arch, a \in Creates :
        /\ s = p.stage /\ arch = p.arch /\ a = p.a /\ a.arch = arch
        /\ EmitsValid(a) /\ IsEntry(p.entry, a, s, Base)
  BY DEF ServedInv, PointInv, PublishedPoints, PublishedServes
<1>2. PICK b \in Creates : b = released[arch]
  BY <1>1 DEF ServedInv, PointInv, DirInv, ReleasedInv
<1>3. /\ b.arch = arch /\ ~ Refused(b) /\ b.args # Malformed /\ a.args # Malformed /\ Holds(b)
  <2>1. /\ b.arch = arch /\ ~ Refused(b) /\ EmitsValid(b)
        /\ \A w \in WriteSet(b) : dir[arch][w.file] = w.content
    BY <1>1, <1>2 DEF ServedInv, PointInv, DirInv, ReleasedInv
  <2> QED BY <1>1, <2>1 DEF EmitsValid, Holds
<1>4. b.key = a.key /\ a.key # None /\ b.manifest = a.manifest /\ b.sign_args = a.sign_args
  BY <1>1, <1>2 DEF Succeeds
<1>5. OutcomesAt(p.entry, s, u) = {[code |-> CodeOf(b, s), args |-> ArgsFor(a, b, s)]}
  <2>1. Like(b, a)
    BY <1>1, <1>3, <1>4, Zenon DEF Like
  <2>2. PICK e : e = p.entry
    OBVIOUS
  <2>3. IsEntry(e, a, s, Base) /\ u \in Mirrors(e)
    BY <1>1, <2>2
  <2>4. OutcomesAt(e, s, u) = {[code |-> CodeOf(b, s), args |-> ArgsFor(a, b, s)]}
    BY <1>3, <2>1, <2>3, EntryServes
  <2> QED BY <2>2, <2>4
<1>6. Promised(b, s).code = CodeOf(b, s)
  BY DEF Promised, CodeOf
<1>7. b.manifest \/ b.sign_args => Promised(b, s) = [code |-> CodeOf(b, s), args |-> ArgsFor(a, b, s)]
  <2>1. b.sign_args => b.args # None
    BY CreateArgsAre
  <2> QED BY <1>4, <2>1 DEF Promised, CodeOf, ArgsFor, SignsArgs
<1>8. {o.code : o \in OutcomesAt(p.entry, s, u)} = {CodeOf(b, s)}
  BY <1>5
<1> QED BY <1>1, <1>2, <1>5, <1>6, <1>7, <1>8

LEMMA ServedInvStep ==
  ASSUME Modifies = {} \/ Flat
  PROVE  ServedInv(Base) /\ [Next]_vars => ServedInv(Base)'
<1>1. MirrorBase \subseteq Base
  BY DEF MirrorBase
<1>2. [Next]_vars => CreateStep \/ ModifyStep \/ UNCHANGED vars
  BY DEF Next, CreateStep, ModifyStep
<1>3. ModifyStep => Flat
  BY DEF ModifyStep
<1> QED BY <1>1, <1>2, <1>3, ServedInvNext

\* Once `create` has finished, every mirror in the entries of its architecture
\* gives exactly the payloads and arguments it was asked to deploy, for any
\* releases and mirrors.  `modify` keeps this when no base URL has a path of
\* its own; otherwise it adds mirrors that serve nothing.
\* (create, merge_user_data, rewrite_urls)
THEOREM ServesTheRelease ==
  ASSUME Modifies = {} \/ Flat
  PROVE  Spec => []ReleaseIsServed
<1>1. Init => ServedInv(Base)
  BY ServedInvInit
<1>2. ServedInv(Base) /\ [Next]_vars => ServedInv(Base)'
  BY ServedInvStep
<1> QED BY <1>1, <1>2, ServedInvServes, PTL DEF Spec

\* An instance that still has an older user-data.json runs the new release of
\* its key, with the new arguments where a signature binds them.
\* (build_payload, wrap_manifest)
THEOREM OldDocumentsRollForward ==
  ASSUME Modifies = {} \/ Flat
  PROVE  Spec => []RollsForward
<1>1. Init => ServedInv(Base)
  BY ServedInvInit
<1>2. ServedInv(Base) /\ [Next]_vars => ServedInv(Base)'
  BY ServedInvStep
<1> QED BY <1>1, <1>2, ServedInvRolls, PTL DEF Spec

-----------------------------------------------------------------------------
(* A release on its way.                                                   *)

TheManifest(sig) == [name |-> ManifestFile("_stage2"), sig |-> sig]

\* A mirror has what was in the directory at some time.
MirrorInv ==
  /\ mirror \in [MirrorBase -> [Arch -> [Stage2File -> Written]]]
  /\ \A b \in MirrorBase, arch \in Arch, f \in Stage2File : Held(arch, f, mirror[b][arch][f])

\* The manifest that a boot goes by is that of release a.
FromRelease(a, p, blob) ==
  /\ a.arch = p.arch /\ a.key = p.key /\ a.manifest /\ ~ Refused(a) /\ a.args # Malformed
  /\ blob = Fragment(PayloadOf(a, "_stage2"))

StartedWith(p) ==
  \E arch \in Arch, k \in Keys : \E L : p = [arch |-> arch, entry |-> PointerTo(L, k), key |-> k]

Candidates(todo, arch) ==
  IsSeq(todo) /\ ToSet(todo) \subseteq Urls(MirrorBase, arch, ManifestFile("_stage2"))

BootOK(at, p, todo, blob, r) ==
  /\ at \in {"off", "manifest", "manifest.sig", "payload", "running"}
  /\ at # "off" => StartedWith(p)
  /\ at \in {"manifest", "manifest.sig"} => Candidates(todo, p.arch)
  /\ at = "manifest.sig" => /\ todo # <<>> /\ Readable(blob)
                            /\ Held(p.arch, TheManifest(FALSE), blob)
  /\ at = "payload" => \E a \in Creates : FromRelease(a, p, blob)
  /\ at = "running" => \E a \in Creates : /\ a.arch = p.arch /\ a.key = p.key
                                          /\ r = Promised(a, "_stage2")

IsBoot(b, at, p, todo, blob) ==
  \E still : b = [at |-> at, p |-> p, todo |-> todo, blob |-> blob, still |-> still]

BootInv ==
  \E at, p, todo, blob : IsBoot(boot, at, p, todo, blob) /\ BootOK(at, p, todo, blob, ran)

RolloutInv == ServedInv(MirrorBase) /\ MirrorInv /\ BootInv

\* A mirror of the list gives the manifest of a release of that architecture,
\* and a signature of one: not necessarily the same.
LEMMA GetManifest ==
  ASSUME MirrorInv, NEW arch \in Arch, NEW u \in Urls(MirrorBase, arch, ManifestFile("_stage2"))
  PROVE  /\ Held(arch, TheManifest(FALSE), Get(u, FALSE))
         /\ Held(arch, TheManifest(TRUE), Get(u, TRUE))
<1>1. PICK n : n = ManifestFile("_stage2") /\ n = "stage2.manifest.json"
  BY DEF ManifestFile, ManifestName, FileName
<1>2. PICK x \in MirrorBase : u = Compose(x, <<arch, n>>)
  BY <1>1 DEF Urls
<1>3. PICK path : path = <<arch, n>>
  OBVIOUS
<1>4. arch \in PathPart /\ n \in PathPart
  <2>1. \E f \in File : f.name = n
    BY <1>1, FileNames
  <2> QED BY <2>1, Zenon DEF PathPart
<1>5. path \in Seq(PathPart) /\ Len(path) >= 2
  BY <1>3, <1>4
<1>6. path[Len(path) - 1] = arch /\ path[Len(path)] = n
  BY <1>3
<1>7. u \in ServedUrl(arch, n)
  <2>1. x \in Base
    BY DEF MirrorBase
  <2> QED BY <1>2, <1>3, <1>5, <1>6, <2>1, ComposeServed
<1>8. u.path[Len(u.path) - 1] = arch /\ u.path[Len(u.path)] = n
  BY <1>7 DEF ServedUrl
<1>9. PICK b : b = CHOOSE y \in MirrorBase : Compose(y, <<arch, n>>) = u
  OBVIOUS
<1>10. b \in MirrorBase
  BY <1>2, <1>9
<1>11. /\ Get(u, FALSE) = mirror[b][arch][[name |-> n, sig |-> FALSE]]
       /\ Get(u, TRUE) = mirror[b][arch][[name |-> n, sig |-> TRUE]]
  BY <1>8, <1>9, Zenon DEF Get
<1>12. [name |-> n, sig |-> FALSE] \in Stage2File /\ [name |-> n, sig |-> TRUE] \in Stage2File
  BY <1>1 DEF Stage2File, File
<1>13. /\ Held(arch, [name |-> n, sig |-> FALSE], mirror[b][arch][[name |-> n, sig |-> FALSE]])
       /\ Held(arch, [name |-> n, sig |-> TRUE], mirror[b][arch][[name |-> n, sig |-> TRUE]])
  BY <1>10, <1>12, Zenon DEF MirrorInv
<1> QED BY <1>1, <1>11, <1>13, Zenon DEF TheManifest

LEMMA RolloutInvInit == RolloutInit => RolloutInv
<1> SUFFICES ASSUME RolloutInit PROVE RolloutInv
  OBVIOUS
<1>1. ServedInv(MirrorBase)
  BY ServedInvInit DEF RolloutInit
<1>2. MirrorInv
  <2>1. Absent \in Written
    BY Zenon DEF Written
  <2>2. mirror = [b \in MirrorBase |-> [arch \in Arch |-> [f \in Stage2File |-> Absent]]]
    BY DEF RolloutInit
  <2> QED BY <2>1, <2>2 DEF MirrorInv, Held
<1>3. BootInv
  <2>1. IsBoot(boot, "off", None, <<>>, None)
    <3>1. boot = Off
      BY DEF RolloutInit
    <3>2. \E still : Off = [at |-> "off", p |-> None, todo |-> <<>>, blob |-> None, still |-> still]
      BY Zenon DEF Off
    <3> QED BY <3>1, <3>2, Zenon DEF IsBoot
  <2>2. BootOK("off", None, <<>>, None, ran)
    BY DEF BootOK
  <2> QED BY <2>1, <2>2 DEF BootInv
<1> QED BY <1>1, <1>2, <1>3 DEF RolloutInv

LEMMA OperatorStep ==
  ASSUME Operator
  PROVE  CreateStep /\ UNCHANGED <<mirror, boot, ran>>
BY DEF Operator, CreateStep

\* The boot's record, and what a step makes of it.
LEMMA BootFields ==
  ASSUME NEW b, NEW at, NEW p, NEW todo, NEW blob, IsBoot(b, at, p, todo, blob)
  PROVE  b.at = at /\ b.p = p /\ b.todo = todo /\ b.blob = blob
<1>1. PICK still : b = [at |-> at, p |-> p, todo |-> todo, blob |-> blob, still |-> still]
  BY DEF IsBoot
<1> QED BY <1>1

LEMMA PutStill ==
  ASSUME NEW b, NEW at, NEW p, NEW todo, NEW blob, IsBoot(b, at, p, todo, blob)
  PROVE  IsBoot([b EXCEPT !.still = FALSE], at, p, todo, blob)
<1>1. PICK still : b = [at |-> at, p |-> p, todo |-> todo, blob |-> blob, still |-> still]
  BY DEF IsBoot
<1>2. ASSUME NEW f PROVE [b EXCEPT !.still = f] = [at |-> at, p |-> p, todo |-> todo, blob |-> blob, still |-> f]
  <2>1. PICK c : c = [b EXCEPT !.still = f]
    OBVIOUS
  <2>2. c = [at |-> at, p |-> p, todo |-> todo, blob |-> blob, still |-> f]
    BY <1>1, <2>1
  <2> QED BY <2>1, <2>2
<1> QED BY <1>2, Zenon DEF IsBoot

LEMMA PutTodo ==
  ASSUME NEW b, NEW at, NEW p, NEW todo, NEW blob, IsBoot(b, at, p, todo, blob), NEW x
  PROVE  IsBoot([b EXCEPT !.todo = x], at, p, x, blob)
<1>1. PICK still : b = [at |-> at, p |-> p, todo |-> todo, blob |-> blob, still |-> still]
  BY DEF IsBoot
<1>2. [b EXCEPT !.todo = x] = [at |-> at, p |-> p, todo |-> x, blob |-> blob, still |-> still]
  <2>1. PICK c : c = [b EXCEPT !.todo = x]
    OBVIOUS
  <2>2. c = [at |-> at, p |-> p, todo |-> x, blob |-> blob, still |-> still]
    BY <1>1, <2>1
  <2> QED BY <2>1, <2>2
<1> QED BY <1>2, Zenon DEF IsBoot

LEMMA PutBlob ==
  ASSUME NEW b, NEW at, NEW p, NEW todo, NEW blob, IsBoot(b, at, p, todo, blob), NEW x, NEW y
  PROVE  IsBoot([b EXCEPT !.at = x, !.blob = y], x, p, todo, y)
<1>1. PICK still : b = [at |-> at, p |-> p, todo |-> todo, blob |-> blob, still |-> still]
  BY DEF IsBoot
<1>2. [b EXCEPT !.at = x, !.blob = y] = [at |-> x, p |-> p, todo |-> todo, blob |-> y, still |-> still]
  <2>1. PICK c : c = [b EXCEPT !.at = x, !.blob = y]
    OBVIOUS
  <2>2. c = [at |-> x, p |-> p, todo |-> todo, blob |-> y, still |-> still]
    BY <1>1, <2>1
  <2> QED BY <2>1, <2>2
<1> QED BY <1>2, Zenon DEF IsBoot

LEMMA PutAt ==
  ASSUME NEW b, NEW at, NEW p, NEW todo, NEW blob, IsBoot(b, at, p, todo, blob), NEW x, NEW y
  PROVE  IsBoot([b EXCEPT !.at = x, !.todo = y], x, p, y, blob)
<1>1. PICK still : b = [at |-> at, p |-> p, todo |-> todo, blob |-> blob, still |-> still]
  BY DEF IsBoot
<1>2. [b EXCEPT !.at = x, !.todo = y] = [at |-> x, p |-> p, todo |-> y, blob |-> blob, still |-> still]
  <2>1. PICK c : c = [b EXCEPT !.at = x, !.todo = y]
    OBVIOUS
  <2>2. c = [at |-> x, p |-> p, todo |-> y, blob |-> blob, still |-> still]
    BY <1>1, <2>1
  <2> QED BY <2>1, <2>2
<1> QED BY <1>2, Zenon DEF IsBoot

LEMMA PutBack ==
  ASSUME NEW b, NEW at, NEW p, NEW todo, NEW blob, IsBoot(b, at, p, todo, blob), NEW x, NEW y, NEW z
  PROVE  IsBoot([b EXCEPT !.at = x, !.blob = y, !.todo = z], x, p, z, y)
<1>1. PICK still : b = [at |-> at, p |-> p, todo |-> todo, blob |-> blob, still |-> still]
  BY DEF IsBoot
<1>2. [b EXCEPT !.at = x, !.blob = y, !.todo = z] = [at |-> x, p |-> p, todo |-> z, blob |-> y, still |-> still]
  <2>1. PICK c : c = [b EXCEPT !.at = x, !.blob = y, !.todo = z]
    OBVIOUS
  <2>2. c = [at |-> x, p |-> p, todo |-> z, blob |-> y, still |-> still]
    BY <1>1, <2>1
  <2> QED BY <2>1, <2>2
<1> QED BY <1>2, Zenon DEF IsBoot

LEMMA PutRunning ==
  ASSUME NEW b, NEW at, NEW p, NEW todo, NEW blob, IsBoot(b, at, p, todo, blob), NEW x, NEW y, NEW z
  PROVE  IsBoot([b EXCEPT !.at = x, !.todo = y, !.blob = z, !.still = FALSE], x, p, y, z)
<1>1. PICK still : b = [at |-> at, p |-> p, todo |-> todo, blob |-> blob, still |-> still]
  BY DEF IsBoot
<1>2. ASSUME NEW f PROVE [b EXCEPT !.at = x, !.todo = y, !.blob = z, !.still = f] = [at |-> x, p |-> p, todo |-> y, blob |-> z, still |-> f]
  <2>1. PICK c : c = [b EXCEPT !.at = x, !.todo = y, !.blob = z, !.still = f]
    OBVIOUS
  <2>2. c = [at |-> x, p |-> p, todo |-> y, blob |-> z, still |-> f]
    BY <1>1, <2>1
  <2> QED BY <2>1, <2>2
<1> QED BY <1>2, Zenon DEF IsBoot

LEMMA BootInvIs ==
  ASSUME BootInv
  PROVE  \E p, todo, blob : /\ IsBoot(boot, boot.at, p, todo, blob)
                            /\ boot.p = p /\ boot.todo = todo /\ boot.blob = blob
                            /\ BootOK(boot.at, p, todo, blob, ran)
<1>1. PICK at, p, todo, blob : IsBoot(boot, at, p, todo, blob) /\ BootOK(at, p, todo, blob, ran)
  BY DEF BootInv
<1>2. boot.at = at /\ boot.p = p /\ boot.todo = todo /\ boot.blob = blob
  BY <1>1, BootFields
<1> QED BY <1>1, <1>2, Zenon

LEMMA StartBoot == RolloutInv /\ start => BootInv'
<1> SUFFICES ASSUME RolloutInv, start PROVE BootInv'
  OBVIOUS
<1>1. PICK x \in published :
        /\ x.stage = "_stage2"
        /\ boot' = [at |-> "manifest", p |-> [arch |-> x.arch, entry |-> x.entry, key |-> x.a.key],
                    todo |-> x.entry.manifest.url, blob |-> None, still |-> TRUE]
  BY DEF start
<1>2. PICK a \in Creates, arch \in Arch :
        /\ a = x.a /\ arch = x.arch /\ a.arch = arch
        /\ IsEntry(x.entry, a, "_stage2", MirrorBase)
  BY <1>1 DEF RolloutInv, ServedInv, PointInv, PublishedPoints, PublishedServes
<1>3. PICK k \in Keys : k = a.key
  BY RolloutAssumption, CreateArgsAre
<1>4. a.manifest
  BY RolloutAssumption
<1>5. PICK B \in SUBSET MirrorBase : IsEntryOn(x.entry, a, "_stage2", B)
  BY <1>2 DEF IsEntry
<1>6. PICK L : IsList(L, B, arch, ManifestFile("_stage2")) /\ x.entry = PointerTo(L, k)
  BY <1>2, <1>3, <1>4, <1>5 DEF IsEntryOn
<1>7. x.entry.manifest.url = L
  BY <1>6 DEF PointerTo
<1>8. PICK p : p = [arch |-> arch, entry |-> PointerTo(L, k), key |-> k]
  OBVIOUS
<1>9. boot' = [at |-> "manifest", p |-> p, todo |-> L, blob |-> None, still |-> TRUE]
  BY <1>1, <1>2, <1>3, <1>6, <1>7, <1>8, Zenon
<1>10. IsBoot(boot', "manifest", p, L, None)
  BY <1>9, Zenon DEF IsBoot
<1>11. StartedWith(p) /\ p.arch = arch
  <2>1. StartedWith(p)
    BY <1>8, Zenon DEF StartedWith
  <2> QED BY <1>8, <2>1
<1>12. Candidates(L, arch)
  BY <1>6 DEF Candidates, IsList, Urls
<1>13. BootOK("manifest", p, L, None, ran')
  BY <1>11, <1>12 DEF BootOK
<1> QED BY <1>10, <1>13, Zenon DEF BootInv

LEMMA TodoTail ==
  ASSUME NEW todo, NEW arch, Candidates(todo, arch), todo # <<>>
  PROVE  /\ Head(todo) \in Urls(MirrorBase, arch, ManifestFile("_stage2"))
         /\ Candidates(Tail(todo), arch)
BY ToSetTail DEF Candidates

LEMMA FetchBoot == RolloutInv /\ fetch_manifest => BootInv'
<1> SUFFICES ASSUME RolloutInv, fetch_manifest PROVE BootInv'
  OBVIOUS
<1>1. PICK p, todo, blob : /\ IsBoot(boot, "manifest", p, todo, blob)
                           /\ boot.todo = todo
                           /\ BootOK("manifest", p, todo, blob, ran)
  BY BootInvIs DEF RolloutInv, fetch_manifest
<1>2. todo # <<>> /\ StartedWith(p) /\ Candidates(todo, p.arch) /\ ran' = ran
  BY <1>1 DEF fetch_manifest, BootOK
<1>3. PICK b : b = Get(Head(todo), FALSE)
  OBVIOUS
<1>4. p.arch \in Arch
  BY <1>2 DEF StartedWith
<1>5. Held(p.arch, TheManifest(FALSE), b) /\ Candidates(Tail(todo), p.arch)
  BY <1>2, <1>3, <1>4, TodoTail, GetManifest DEF RolloutInv
<1>6. \/ Readable(b) /\ boot' = [boot EXCEPT !.at = "manifest.sig", !.blob = b]
      \/ boot' = [boot EXCEPT !.todo = Tail(todo)]
  BY <1>1, <1>3 DEF fetch_manifest
<1>7. CASE Readable(b) /\ boot' = [boot EXCEPT !.at = "manifest.sig", !.blob = b]
  <2>1. IsBoot(boot', "manifest.sig", p, todo, b)
    BY <1>1, <1>7, PutBlob, Zenon
  <2>2. BootOK("manifest.sig", p, todo, b, ran')
    BY <1>2, <1>5, <1>7 DEF BootOK
  <2> QED BY <2>1, <2>2, Zenon DEF BootInv
<1>8. CASE boot' = [boot EXCEPT !.todo = Tail(todo)]
  <2>1. IsBoot(boot', "manifest", p, Tail(todo), blob)
    BY <1>1, <1>8, PutTodo
  <2>2. BootOK("manifest", p, Tail(todo), blob, ran')
    BY <1>2, <1>5 DEF BootOK
  <2> QED BY <2>1, <2>2, Zenon DEF BootInv
<1> QED BY <1>6, <1>7, <1>8

LEMMA VerifyBoot == RolloutInv /\ verify_manifest => BootInv'
<1> SUFFICES ASSUME RolloutInv, verify_manifest PROVE BootInv'
  OBVIOUS
<1>1. PICK p, todo, blob : /\ IsBoot(boot, "manifest.sig", p, todo, blob)
                           /\ boot.p = p /\ boot.todo = todo /\ boot.blob = blob
                           /\ BootOK("manifest.sig", p, todo, blob, ran)
  BY BootInvIs DEF RolloutInv, verify_manifest
<1>2. /\ todo # <<>> /\ StartedWith(p) /\ Candidates(todo, p.arch) /\ ran' = ran
      /\ Readable(blob) /\ Held(p.arch, TheManifest(FALSE), blob)
  BY <1>1 DEF verify_manifest, BootOK
<1>3. PICK arch \in Arch, k \in Keys :
        \E L : p = [arch |-> arch, entry |-> PointerTo(L, k), key |-> k]
  BY <1>2 DEF StartedWith
<1>4. PICK L : p.arch = arch /\ p.key = k /\ p.entry = PointerTo(L, k)
  BY <1>3
<1>5. PICK g : g = Get(Head(todo), TRUE)
  OBVIOUS
<1>6. Held(arch, TheManifest(TRUE), g) /\ Candidates(Tail(todo), arch)
  BY <1>2, <1>4, <1>5, TodoTail, GetManifest DEF RolloutInv
<1>7. ThePointer.ed25519 = pubkey_b64(k)
  BY <1>1, <1>4 DEF ThePointer, PointerTo
<1>8. \/ /\ verify(pubkey_b64(k), "stage2.manifest", blob, g)
         /\ boot' = [boot EXCEPT !.at = "payload", !.todo = ThePayload.url]
      \/ boot' = [boot EXCEPT !.at = "manifest", !.blob = None, !.todo = Tail(todo)]
  BY <1>1, <1>5, <1>7 DEF verify_manifest
<1>9. CASE /\ verify(pubkey_b64(k), "stage2.manifest", blob, g)
           /\ boot' = [boot EXCEPT !.at = "payload", !.todo = ThePayload.url]
  <2>1. PICK s \in Stage : s = "_stage2" /\ ManifestDomain(s) = "stage2.manifest"
    BY DEF Stage, ManifestDomain
  <2>2. /\ blob \notin {Absent, Torn}
        /\ Held(arch, [name |-> ManifestFile(s), sig |-> FALSE], blob)
        /\ Held(arch, [name |-> ManifestFile(s), sig |-> TRUE], g)
        /\ verify(pubkey_b64(k), ManifestDomain(s), blob, g)
    BY <1>2, <1>4, <1>6, <1>9, <2>1, Zenon DEF TheManifest, Readable
  <2>3. PICK a \in Creates :
          /\ a.arch = arch /\ a.key = k /\ a.manifest /\ ~ Refused(a) /\ a.args # Malformed
          /\ blob = Fragment(PayloadOf(a, s))
    BY <2>2, VerifiedManifest
  <2>4. FromRelease(a, p, blob)
    BY <1>4, <2>1, <2>3 DEF FromRelease
  <2>5. IsBoot(boot', "payload", p, ThePayload.url, blob)
    BY <1>1, <1>9, PutAt, Zenon
  <2>6. BootOK("payload", p, ThePayload.url, blob, ran')
    BY <1>2, <2>4 DEF BootOK
  <2> QED BY <2>5, <2>6, Zenon DEF BootInv
<1>10. CASE boot' = [boot EXCEPT !.at = "manifest", !.blob = None, !.todo = Tail(todo)]
  <2>1. IsBoot(boot', "manifest", p, Tail(todo), None)
    BY <1>1, <1>10, PutBack, Zenon
  <2>2. BootOK("manifest", p, Tail(todo), None, ran')
    BY <1>2, <1>4, <1>6 DEF BootOK
  <2> QED BY <2>1, <2>2, Zenon DEF BootInv
<1> QED BY <1>8, <1>9, <1>10

LEMMA AdmitBoot == RolloutInv /\ admit_from => BootInv'
<1> SUFFICES ASSUME RolloutInv, admit_from PROVE BootInv'
  OBVIOUS
<1>1. PICK p, todo, blob : /\ IsBoot(boot, "payload", p, todo, blob)
                           /\ boot.todo = todo /\ boot.blob = blob
                           /\ BootOK("payload", p, todo, blob, ran)
  BY BootInvIs DEF RolloutInv, admit_from
<1>2. StartedWith(p)
  BY <1>1 DEF BootOK
<1>3. PICK a \in Creates : FromRelease(a, p, blob)
  BY <1>1 DEF BootOK
<1>4. PICK s \in Stage : s = "_stage2"
  BY DEF Stage
<1>5. blob.payload = PayloadOf(a, s)
  BY <1>3, <1>4 DEF FromRelease, Fragment
<1>6. PICK q : q = ThePayload
  OBVIOUS
<1>7. /\ q.sha256 = sha256(CodeOf(a, s))
      /\ (IF q.args = None THEN <<>> ELSE q.args) = Promised(a, s).args
  <2>1. q = Fields(PayloadOf(a, s))
    BY <1>1, <1>5, <1>6 DEF ThePayload
  <2> QED BY <1>3, <2>1, PinnedFields DEF FromRelease
<1>8. PICK b : b = Get(Head(todo), FALSE)
  OBVIOUS
<1>9. \/ /\ eq_ignore_ascii_case(q.sha256, sha256(b))
         /\ boot' = [boot EXCEPT !.at = "running", !.todo = <<>>, !.blob = None, !.still = FALSE]
         /\ ran' = [code |-> b, args |-> IF q.args = None THEN <<>> ELSE q.args]
      \/ boot' = [boot EXCEPT !.todo = Tail(todo)] /\ ran' = ran
  BY <1>1, <1>6, <1>8 DEF admit_from
<1>10. CASE /\ eq_ignore_ascii_case(q.sha256, sha256(b))
            /\ boot' = [boot EXCEPT !.at = "running", !.todo = <<>>, !.blob = None, !.still = FALSE]
            /\ ran' = [code |-> b, args |-> IF q.args = None THEN <<>> ELSE q.args]
  <2>1. b = CodeOf(a, s)
    BY <1>7, <1>10 DEF eq_ignore_ascii_case, sha256
  <2>2. ran' = [code |-> CodeOf(a, s), args |-> Promised(a, s).args]
    BY <1>7, <1>10, <2>1
  <2>3. ran' = Promised(a, s)
    BY <2>2 DEF Promised, CodeOf
  <2>4. IsBoot(boot', "running", p, <<>>, None)
    BY <1>1, <1>10, PutRunning, Zenon
  <2>5. BootOK("running", p, <<>>, None, ran')
    BY <1>2, <1>3, <1>4, <2>3 DEF BootOK, FromRelease
  <2> QED BY <2>4, <2>5, Zenon DEF BootInv
<1>11. CASE boot' = [boot EXCEPT !.todo = Tail(todo)] /\ ran' = ran
  <2>1. IsBoot(boot', "payload", p, Tail(todo), blob)
    BY <1>1, <1>11, PutTodo
  <2>2. BootOK("payload", p, Tail(todo), blob, ran')
    BY <1>2, <1>3 DEF BootOK
  <2> QED BY <2>1, <2>2, Zenon DEF BootInv
<1> QED BY <1>9, <1>10, <1>11

LEMMA SyncStep == RolloutInv /\ Sync => MirrorInv' /\ BootInv'
<1> SUFFICES ASSUME RolloutInv, NEW b \in MirrorBase, NEW arch \in Arch, NEW f \in Stage2File,
                    sync(b, arch, f)
             PROVE  MirrorInv' /\ BootInv'
  BY DEF Sync
<1>1. f \in File
  BY DEF Stage2File
<1>2. PICK c : c = dir[arch][f] /\ c \in Written /\ Held(arch, f, c)
  BY <1>1 DEF RolloutInv, ServedInv, PointInv, DirInv, FilesInv
<1>3. mirror' = [mirror EXCEPT ![b][arch][f] = c]
  BY <1>2 DEF sync
<1>4. MirrorInv'
  <2>1. mirror \in [MirrorBase -> [Arch -> [Stage2File -> Written]]]
    BY DEF RolloutInv, MirrorInv
  <2>2. /\ mirror' \in [MirrorBase -> [Arch -> [Stage2File -> Written]]]
        /\ mirror'[b][arch][f] = c
        /\ \A x \in MirrorBase, y \in Arch, g \in Stage2File :
             x # b \/ y # arch \/ g # f => mirror'[x][y][g] = mirror[x][y][g]
    BY <1>2, <1>3, <2>1
  <2>3. ASSUME NEW x \in MirrorBase, NEW y \in Arch, NEW g \in Stage2File
        PROVE  Held(y, g, mirror'[x][y][g])
    <3>1. Held(y, g, mirror[x][y][g])
      BY DEF RolloutInv, MirrorInv
    <3>2. CASE x = b /\ y = arch /\ g = f
      BY <1>2, <2>2, <3>2
    <3>3. CASE ~ (x = b /\ y = arch /\ g = f)
      BY <2>2, <3>1, <3>3
    <3> QED BY <3>2, <3>3
  <2> QED BY <2>2, <2>3 DEF MirrorInv
<1>5. BootInv'
  <2>1. PICK at, p, todo, blob : IsBoot(boot, at, p, todo, blob) /\ BootOK(at, p, todo, blob, ran)
    BY DEF RolloutInv, BootInv
  <2>2. IsBoot(boot', at, p, todo, blob) /\ ran' = ran
    BY <2>1, PutStill DEF sync
  <2> QED BY <2>1, <2>2, Zenon DEF BootInv
<1> QED BY <1>4, <1>5

LEMMA OffBoot == RolloutInv /\ poweroff => BootInv'
<1> SUFFICES ASSUME RolloutInv, poweroff PROVE BootInv'
  OBVIOUS
<1>1. PICK at, p, todo, blob : IsBoot(boot, at, p, todo, blob)
  BY DEF RolloutInv, BootInv
<1>2. boot' = [boot EXCEPT !.at = "off", !.blob = None]
  BY DEF poweroff
<1>3. IsBoot(boot', "off", p, todo, None)
  BY <1>1, <1>2, PutBlob, Zenon
<1>4. BootOK("off", p, todo, None, ran')
  BY DEF BootOK
<1> QED BY <1>3, <1>4, Zenon DEF BootInv

LEMMA RolloutInvNext == RolloutInv /\ [RolloutNext]_rolloutVars => RolloutInv'
<1> SUFFICES ASSUME RolloutInv, [RolloutNext]_rolloutVars PROVE RolloutInv'
  OBVIOUS
<1>1. ASSUME CreateStep \/ UNCHANGED vars PROVE ServedInv(MirrorBase)'
  BY <1>1, ServedInvNext DEF RolloutInv
<1>2. UNCHANGED deployVars => UNCHANGED vars
  BY DEF deployVars, vars
<1>3. UNCHANGED mirror => MirrorInv'
  BY DEF RolloutInv, MirrorInv
<1>4. UNCHANGED <<boot, ran>> => BootInv'
  BY DEF RolloutInv, BootInv
<1>5. CASE Operator
  BY <1>1, <1>3, <1>4, <1>5, OperatorStep DEF RolloutInv
<1>6. CASE Sync
  <2>1. UNCHANGED deployVars
    BY <1>6 DEF Sync, sync
  <2> QED BY <1>1, <1>2, <1>6, <2>1, SyncStep DEF RolloutInv
<1>7. CASE Instance
  <2>1. UNCHANGED <<deployVars, mirror>>
    BY <1>7 DEF Instance, start, fetch_manifest, verify_manifest, admit_from, poweroff
  <2>2. BootInv'
    BY <1>7, StartBoot, FetchBoot, VerifyBoot, AdmitBoot, OffBoot DEF Instance
  <2> QED BY <1>1, <1>2, <1>3, <2>1, <2>2 DEF RolloutInv
<1>8. CASE UNCHANGED rolloutVars
  BY <1>1, <1>2, <1>3, <1>4, <1>8 DEF rolloutVars, RolloutInv
<1> QED BY <1>5, <1>6, <1>7, <1>8 DEF RolloutNext

LEMMA RolloutInvRuns == RolloutInv => RunsOneRelease
<1> SUFFICES ASSUME RolloutInv, boot.at = "running"
             PROVE  \E a \in Creates : /\ a.arch = boot.p.arch /\ a.key = boot.p.key
                                       /\ ran = Promised(a, "_stage2")
  BY DEF RunsOneRelease
<1>1. PICK p, todo, blob : boot.p = p /\ BootOK("running", p, todo, blob, ran)
  BY BootInvIs DEF RolloutInv
<1> QED BY <1>1 DEF BootOK

\* However many releases are on their way to however many mirrors, and
\* however the mirrors change between the requests of a boot, an instance runs
\* the payload of one release of its key and architecture with the arguments
\* of that release: the manifest and its signature may come from two releases,
\* but then they do not verify, and the manifest pins the payload and has the
\* arguments.  (resolve_payload, fetch_manifest, admit_payload)
THEOREM BootsOneRelease == RolloutSpec => []RunsOneRelease
BY RolloutInvInit, RolloutInvNext, RolloutInvRuns, PTL DEF RolloutSpec

-----------------------------------------------------------------------------
(* What stage0 and stage1 accept.                                          *)

\* An entry of `create` is one that parses.
LEMMA EntryParses ==
  ASSUME NEW a \in Creates, a.args # Malformed, ~ Refused(a), NEW s \in Stage
  PROVE  ArchConfigParses(Entries(a)[s])
<1>1. PICK e : e = Entries(a)[s]
  OBVIOUS
<1>2. PICK B \in SUBSET Base : IsEntryOn(e, a, s, B)
  <2>1. MirrorBase \subseteq Base
    BY DEF MirrorBase
  <2>2. IsEntry(e, a, s, Base)
    BY <1>1, <2>1, EntriesAreOn
  <2> QED BY <2>2 DEF IsEntry
<1>3. PICK arch \in Arch : arch = a.arch
  BY CreateArgsAre
<1>4. CASE a.manifest
  <2>1. PICK L : IsList(L, B, arch, ManifestFile(s)) /\ e = PointerTo(L, a.key)
    BY <1>2, <1>3, <1>4 DEF IsEntryOn
  <2>2. PICK f \in File : f.name = ManifestFile(s)
    BY FileNames DEF ManifestFile, ManifestName
  <2>3. L \in UrlList /\ Given(L)
    BY <2>1, <2>2, ListGiven
  <2>4. PICK k : k = pubkey_b64(a.key) /\ k \in PubKey
    <3>1. pubkey_b64(a.key) \in PubKey
      BY <1>4, CreateArgsAre DEF pubkey_b64, PubKey
    <3> QED BY <3>1
  <2>5. PICK r : r = [url |-> L, ed25519 |-> k, sig_url |-> Absent, sha256 |-> Absent]
    OBVIOUS
  <2>6. r \in ManifestRef /\ r.url = L /\ r.ed25519 = k
    BY <2>3, <2>4, <2>5 DEF ManifestRef, Maybe
  <2>7. e = [payload |-> Absent, manifest |-> r, resolved_manifests |-> Absent]
    BY <2>1, <2>4, <2>5 DEF PointerTo
  <2>8. e \in Entry /\ e.manifest = r /\ e.resolved_manifests = Absent
    BY <2>6, <2>7 DEF Entry, Maybe
  <2>9. Given(e) /\ Given(r) /\ Given(k)
    BY <2>4, <2>6, <2>8, NoObject DEF Given
  <2>10. ManifestParses(e.manifest) /\ e.manifest # Absent
    BY <2>3, <2>6, <2>8, <2>9 DEF ManifestParses, Given
  <2> QED BY <1>1, <2>8, <2>9, <2>10, MetadataAssumption DEF ArchConfigParses, IsManifest
<1>5. CASE ~ a.manifest
  <2>1. PICK L, M : IsList(L, B, arch, FileName(s)) /\ e = PayloadEntry(a, s, L, M)
    BY <1>2, <1>3, <1>5, Zenon DEF IsEntryOn
  <2>2. PICK f \in File : f.name = FileName(s)
    BY FileNames DEF FileName
  <2>3. Given(L)
    BY <2>1, <2>2, ListGiven
  <2>4. e = [payload |-> PayloadOf(a, s), manifest |-> Absent, resolved_manifests |-> Absent]
    BY <1>1, <1>5, EntriesAre, Zenon
  <2>5. PICK r \in Payload : r = PayloadOf(a, s)
    BY PayloadTyped
  <2>6. e \in Entry /\ e.payload = r /\ e.manifest = Absent /\ e.resolved_manifests = Absent
    BY <2>4, <2>5 DEF Entry, Maybe
  <2>7. r.url = L
    <3>1. e.payload = PayloadWith(a, s, L, M)
      BY <2>1 DEF PayloadEntry
    <3>2. PayloadWith(a, s, L, M).url = L
      BY DEF PayloadWith
    <3> QED BY <2>6, <3>1, <3>2
  <2>8. Given(e) /\ Given(r)
    BY <2>5, <2>6, NoObject DEF Given
  <2>9. PayloadParses(e.payload)
    BY <2>3, <2>6, <2>7, <2>8 DEF PayloadParses
  <2> QED BY <1>1, <2>6, <2>8, <2>9, MetadataAssumption DEF ArchConfigParses, IsManifest
<1> QED BY <1>4, <1>5

\* An entry of the document is as `create` emitted it.
AsEmitted(e, s) == \E a \in Creates : EmitsValid(a) /\ ~ Refused(a) /\ e = Entries(a)[s]

EmittedInv ==
  /\ PointInv
  /\ doc \notin {Absent, Torn} =>
       \A s \in Stage, arch \in Arch : doc[s][arch] # Absent => AsEmitted(doc[s][arch], s)

LEMMA EmittedInvNext ==
  ASSUME Modifies = {}
  PROVE  EmittedInv /\ [Next]_vars => EmittedInv'
<1> SUFFICES ASSUME EmittedInv, [Next]_vars PROVE EmittedInv'
  OBVIOUS
<1>1. PointInv'
  BY PointInvNext DEF EmittedInv
<1>2. CASE merge_user_data
  <2>1. PICK a \in Creates : a = job.a /\ ~ Refused(a) /\ EmitsValid(a)
    BY <1>2 DEF merge_user_data, EmittedInv, PointInv, DirInv, JobInv
  <2>2. doc' = set_arch(doc, a) /\ doc \in Document \cup {Absent}
    BY <1>2, <2>1 DEF merge_user_data, EmittedInv, PointInv, DocTyped
  <2>3. /\ doc' \in Document /\ doc' \notin {Absent, Torn}
        /\ \A s \in Stage, arch \in Arch :
             doc'[s][arch] = IF arch = a.arch THEN Entries(a)[s]
                             ELSE IF doc = Absent THEN Absent ELSE doc[s][arch]
    BY <2>1, <2>2, MergeTyped
  <2>4. ASSUME NEW s \in Stage, NEW arch \in Arch, doc'[s][arch] # Absent
        PROVE  AsEmitted(doc'[s][arch], s)
    <3>1. CASE arch = a.arch
      BY <2>1, <2>3, <3>1 DEF AsEmitted
    <3>2. CASE arch # a.arch
      <4>1. doc # Absent /\ doc'[s][arch] = doc[s][arch]
        BY <2>3, <2>4, <3>2
      <4> QED BY <1>2, <2>4, <4>1 DEF EmittedInv, merge_user_data
    <3> QED BY <3>1, <3>2
  <2> QED BY <1>1, <2>4 DEF EmittedInv
<1>3. CASE doc' \in {doc, Torn, Absent}
  BY <1>1, <1>3 DEF EmittedInv
<1>4. merge_user_data \/ doc' \in {doc, Torn, Absent}
  BY DEF Next, vars, create, write_file, bail, create_dies, discard
<1> QED BY <1>2, <1>3, <1>4

LEMMA EmittedInvAccepted == EmittedInv => EmittedIsAccepted
<1> SUFFICES ASSUME EmittedInv, doc \notin {Absent, Torn}, NEW s \in Stage, NEW arch \in Arch,
                    doc[s][arch] # Absent
             PROVE  /\ ArchConfigParses(doc[s][arch])
                    /\ EntryValid(doc[s][arch], ProfileOf(s))
  BY DEF EmittedIsAccepted, check_stage
<1>1. PICK a \in Creates : EmitsValid(a) /\ ~ Refused(a) /\ doc[s][arch] = Entries(a)[s]
  BY DEF EmittedInv, AsEmitted
<1>2. a.args # Malformed /\ EntryValid(Entries(a)[s], ProfileOf(s))
  BY <1>1 DEF EmitsValid
<1> QED BY <1>1, <1>2, EntryParses

\* Without `modify`, a user-data.json that can be read at all parses and
\* passes the admission rules of the hop it is for, every architecture's entry
\* of it, whatever was merged into it and however often `create` died.
\* (ArchConfig::validate, merge_user_data)
THEOREM AcceptsWhatIsEmitted ==
  ASSUME Modifies = {}
  PROVE  Spec => []EmittedIsAccepted
<1>1. Init => EmittedInv
  BY PointInvInit DEF Init, EmittedInv
<1>2. EmittedInv /\ [Next]_vars => EmittedInv'
  BY EmittedInvNext
<1> QED BY <1>1, <1>2, EmittedInvAccepted, PTL DEF Spec
=============================================================================
