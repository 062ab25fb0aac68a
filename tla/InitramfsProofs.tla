-------------------------- MODULE InitramfsProofs --------------------------
(***************************************************************************)
(* What build_initramfs promises, for every list of layers, every order    *)
(* and spelling of a tar stream, and every tree.                           *)
(***************************************************************************)
EXTENDS InitramfsProperties, FiniteSetTheorems, WellFoundedInduction, TLAPS

-----------------------------------------------------------------------------
(* Names and entries have their types.                                     *)

LEMMA LeastOf ==
  ASSUME NEW n \in Nat, NEW T \in SUBSET (1..n), T # {}
  PROVE  Min(T) \in T /\ \A y \in T : Min(T) <= y
<1> DEFINE R == {ss \in Nat \X Nat : ss[1] < ss[2]}
<1>1. IsWellFoundedOn(R, Nat)
  BY NatLessThanWellFounded DEF OpToRel
<1>2. T \in SUBSET Nat
  OBVIOUS
<1>3. PICK x \in T : \A y \in T : <<y, x>> \notin R
  <2> HIDE DEF R
  <2> QED BY <1>1, <1>2, WFMin
<1>4. ASSUME NEW y \in T PROVE x <= y
  <2>1. <<y, x>> \notin R /\ <<y, x>> \in Nat \X Nat
    BY <1>2, <1>3
  <2>2. <<y, x>>[1] = y /\ <<y, x>>[2] = x
    OBVIOUS
  <2>3. ~ (y < x)
    BY <2>1, <2>2
  <2> QED BY <1>2, <2>3
<1> QED BY <1>4 DEF Min

\* The leads are the sequences of at most two of "./" and "/".
LEMMA LeadIs ==
  ASSUME NEW s
  PROVE  s \in Lead <=> s \in Seq({"./", "/"}) /\ Len(s) <= 2
<1> DEFINE D == {"./", "/"}
<1>1. s \in Lead <=> \E m \in 0..2 : s \in [1..m -> D]
  BY DEF Lead, BoundedSeq, SeqOf
<1> HIDE DEF D
<1>2. ASSUME NEW m \in 0..2, s \in [1..m -> D] PROVE s \in Seq(D) /\ Len(s) <= 2
  <2>1. m \in Nat /\ m <= 2 /\ s \in [1..m -> D]
    BY <1>2
  <2>2. s \in Seq(D)
    BY <2>1
  <2>3. Len(s) = m
    BY <2>1
  <2> QED BY <2>1, <2>2, <2>3
<1>3. ASSUME s \in Seq(D), Len(s) <= 2 PROVE Len(s) \in 0..2 /\ s \in [1..Len(s) -> D]
  <2>1. Len(s) \in Nat /\ s \in [1..Len(s) -> D]
    BY <1>3
  <2>2. Len(s) \in 0..2
    BY <1>3, <2>1
  <2> QED BY <2>1, <2>2
<1>4. s \in Lead <=> s \in Seq(D) /\ Len(s) <= 2
  BY <1>1, <1>2, <1>3
<1> QED BY <1>4 DEF D

LEMMA StripTyped ==
  ASSUME NEW s \in Lead, NEW prefix
  PROVE  Strip(s, prefix) \in Lead
<1> DEFINE T == {i \in 1..Len(s) : s[i] # prefix}
<1>1. PICK D : D = {"./", "/"}
  OBVIOUS
<1>2. s \in Seq(D) /\ Len(s) \in Nat /\ Len(s) <= 2
  BY <1>1, LeadIs
<1>3. Strip(s, prefix) = IF T = {} THEN <<>> ELSE SubSeq(s, Min(T), Len(s))
  BY DEF Strip
<1>4. T \in SUBSET (1..Len(s))
  OBVIOUS
<1> HIDE DEF T
<1>5. CASE T = {}
  <2>1. Strip(s, prefix) = <<>> /\ <<>> \in Seq(D) /\ Len(<<>>) <= 2
    BY <1>3, <1>5
  <2> QED BY <1>1, <2>1, LeadIs
<1>6. CASE T # {}
  <2>1. PICK i \in 1..Len(s) : i = Min(T)
    BY <1>2, <1>4, <1>6, LeastOf
  <2>2. PICK t : t = SubSeq(s, i, Len(s))
    OBVIOUS
  <2>3. t \in Seq(D) /\ Len(t) <= 2
    BY <1>2, <2>1, <2>2
  <2> QED BY <1>1, <1>3, <1>6, <2>1, <2>2, <2>3, LeadIs
<1> QED BY <1>5, <1>6

LEMMA NormalizeTyped ==
  ASSUME NEW n \in Name
  PROVE  /\ normalize(n) \in Name \cup {None}
         /\ normalize(n) # None =>
              normalize(n) = [lead |-> Strip(Strip(n.lead, "./"), "/"), path |-> n.path]
<1>1. PICK rest \in Lead : rest = Strip(Strip(n.lead, "./"), "/")
  BY StripTyped DEF Name
<1>2. PICK p \in Path \cup {Root, Cut} : p = n.path
  BY DEF Name
<1>3. [n EXCEPT !.lead = rest] = [lead |-> rest, path |-> p]
  BY <1>2 DEF Name
<1>4. [lead |-> rest, path |-> p] \in Name
  BY DEF Name
<1>5. normalize(n) = IF p = Root /\ rest \in {<<>>, <<"./">>} THEN None ELSE [lead |-> rest, path |-> p]
  BY <1>1, <1>2, <1>3 DEF normalize
<1> QED BY <1>1, <1>2, <1>4, <1>5

LEMMA EntryTyped ==
  ASSUME NEW type \in FileType, NEW perms \in Perms, NEW content \in Content \cup Name \cup {None}
  PROVE  Entry(type, perms, content) \in CpioEntry
BY InitramfsAssumption DEF Entry, CpioEntry

\* The items that a layer may have.
ItemsOf(source) == {it \in Item : source.kind = "dir" => it.type # "link"}

LEMMA LayersTyped ==
  ASSUME NEW ls \in Inputs
  PROVE  /\ ls \in Layers /\ Len(ls) \in Nat /\ (ls = <<>> <=> Len(ls) = 0)
         /\ \A i \in 1..Len(ls) : Tar(ls[i].source) \in Seq(ItemsOf(ls[i].source))
<1>1. ls \in Layers
  BY InitramfsAssumption
<1>2. PICK L : L = [label : STRING, source : Source]
  OBVIOUS
<1>3. ls \in Seq(L) /\ Len(ls) \in Nat
  BY <1>1, <1>2 DEF Layers
<1>4. ASSUME NEW i \in 1..Len(ls) PROVE Tar(ls[i].source) \in Seq(ItemsOf(ls[i].source))
  <2>1. PICK source \in Source : source = ls[i].source
    <3>1. ls[i] \in L
      BY <1>3
    <3>2. ls[i].source \in Source
      BY <1>2, <3>1
    <3> QED BY <3>2
  <2>2. PICK m, I : m = source.members /\ I = Item
    OBVIOUS
  <2>3. m \in Seq(Seq(I)) /\ m # <<>>
    BY <2>1, <2>2, InitramfsAssumption DEF Source
  <2>4. m[1] \in Seq(I)
    BY <2>3
  <2>5. PICK s \in Seq(I) : s = m[1]
    BY <2>4
  <2>6. source.kind = "dir" => \A j \in 1..Len(s) : s[j].type # "link"
    BY <2>1, <2>2, <2>5, InitramfsAssumption
  <2>7. PICK J : J = ItemsOf(source)
    OBVIOUS
  <2>8. \A j \in 1..Len(s) : s[j] \in J
    BY <2>2, <2>6, <2>7 DEF ItemsOf
  <2>9. s \in Seq(J)
    BY <2>8
  <2> QED BY <2>1, <2>2, <2>5, <2>7, <2>9 DEF Tar
<1> QED BY <1>1, <1>2, <1>3, <1>4

\* A map from names to values of S.
IsMap(m, S) == \E N \in SUBSET Name : m \in [N -> S]

LEMMA EmptyMap == ASSUME NEW S PROVE IsMap(<<>>, S) /\ DOMAIN <<>> = {}
<1>1. <<>> \in [{} -> S]
  OBVIOUS
<1> QED BY <1>1, Zenon DEF IsMap

LEMMA PutMap ==
  ASSUME NEW S, None \notin S, NEW m, IsMap(m, S), NEW n \in Name, NEW e \in S \cup {None}
  PROVE  /\ IsMap(Put(m, n, e), S)
         /\ e = None => Put(m, n, e) = m
         /\ e # None => /\ DOMAIN Put(m, n, e) = DOMAIN m \cup {n}
                        /\ Put(m, n, e)[n] = e
                        /\ \A x \in DOMAIN m : x # n => Put(m, n, e)[x] = m[x]
<1>1. CASE e = None
  BY <1>1 DEF Put
<1>2. CASE e # None
  <2>1. PICK N \in SUBSET Name : m \in [N -> S]
    BY DEF IsMap
  <2>2. PICK r : r = [x \in DOMAIN m \cup {n} |-> IF x = n THEN e ELSE m[x]]
    OBVIOUS
  <2>3. Put(m, n, e) = r
    BY <1>2, <2>2 DEF Put
  <2>4. r \in [N \cup {n} -> S] /\ N \cup {n} \in SUBSET Name
    BY <1>2, <2>1, <2>2
  <2>5. IsMap(r, S)
    BY <2>4 DEF IsMap
  <2>6. /\ DOMAIN r = DOMAIN m \cup {n} /\ r[n] = e
        /\ \A x \in DOMAIN m : x # n => r[x] = m[x]
    BY <2>2
  <2> QED BY <1>2, <2>3, <2>5, <2>6
<1> QED BY <1>1, <1>2

\* A map only grows.
Grown(r, m, n, e, S) ==
  /\ IsMap(r, S)
  /\ DOMAIN m \subseteq DOMAIN r /\ DOMAIN r \subseteq DOMAIN m \cup {n}
  /\ e # None => n \in DOMAIN r

LEMMA PutGrows ==
  ASSUME NEW S, None \notin S, NEW m, IsMap(m, S), NEW n \in Name, NEW e \in S \cup {None}
  PROVE  Grown(Put(m, n, e), m, n, e, S)
<1>1. PICK r : r = Put(m, n, e)
  OBVIOUS
<1>2. CASE e = None
  <2>1. r = m
    BY <1>1, <1>2 DEF Put
  <2> QED BY <1>1, <1>2, <2>1 DEF Grown
<1>3. CASE e # None
  <2>1. IsMap(r, S)
    BY <1>1, PutMap
  <2>2. DOMAIN r = DOMAIN m \cup {n}
    BY <1>1, <1>3 DEF Put
  <2> QED BY <1>1, <2>1, <2>2 DEF Grown
<1> QED BY <1>2, <1>3

LEMMA LinkName ==
  ASSUME NEW n \in Name
  PROVE  header_link_name(n) \in Name
<1>1. [n EXCEPT !.path = Cut] = [lead |-> n.lead, path |-> Cut]
  BY DEF Name
<1> QED BY <1>1 DEF header_link_name, Name

\* The entry that an item becomes.
LEMMA ItemTyped ==
  ASSUME NEW it \in Item, NEW seen, IsMap(seen, Content)
  PROVE  /\ it.type # "link" => dir_entry(it) \in CpioEntry \cup {None}
         /\ tar_entry(it, seen) \in CpioEntry \cup {None}
         /\ it.type = "reg" => tar_entry(it, seen) \in CpioEntry
<1>1. /\ it.type \in FileType \cup {"link", "socket"} /\ it.perms \in Perms
      /\ it.data \in Content /\ it.link \in Name \cup {None}
  BY DEF Item
<1>2. ASSUME NEW link PROVE hardlink_data(seen, link) \in Content
  <2>1. Empty \in Content
    BY DEF Empty, Content
  <2>2. PICK N \in SUBSET Name : seen \in [N -> Content]
    BY DEF IsMap
  <2>3. PICK C : C = Content
    OBVIOUS
  <2>4. \A x \in DOMAIN seen : seen[x] \in C
    BY <2>2, <2>3
  <2> QED BY <2>1, <2>3, <2>4 DEF hardlink_data
<1>3. it.type # "link" => dir_entry(it) \in CpioEntry \cup {None}
  BY <1>1, EntryTyped DEF dir_entry, FileType
<1>4. PICK d \in Content : d = hardlink_data(seen, header_link_name(it.link))
  BY <1>2
<1>5. tar_entry(it, seen) \in CpioEntry \cup {None}
  <2>1. it.type = "symlink" => header_link_name(it.link) \in Name
    BY <1>1, LinkName DEF Item
  <2>2. it.type = "symlink" => Entry("symlink", it.perms, header_link_name(it.link)) \in CpioEntry
    BY <1>1, <2>1, EntryTyped DEF FileType
  <2>3. Entry("reg", it.perms, d) \in CpioEntry
    BY <1>1, EntryTyped DEF FileType
  <2>4. it.type \in FileType => Entry(it.type, it.perms, it.data) \in CpioEntry
    BY <1>1, EntryTyped
  <2> QED BY <1>1, <1>4, <2>2, <2>3, <2>4 DEF tar_entry
<1>6. it.type = "reg" => tar_entry(it, seen) \in CpioEntry
  BY <1>1, EntryTyped DEF tar_entry, FileType
<1> QED BY <1>3, <1>5, <1>6

-----------------------------------------------------------------------------
(* The type invariant.                                                     *)

IsSequence(s) == \E S : s \in Seq(S)

LEMMA AppendSequence ==
  ASSUME NEW s, IsSequence(s), NEW e
  PROVE  /\ IsSequence(Append(s, e)) /\ Len(s) \in Nat /\ Len(Append(s, e)) = Len(s) + 1
         /\ \A i \in 1..Len(s) : Append(s, e)[i] = s[i]
         /\ Append(s, e)[Len(s) + 1] = e
<1>1. PICK S : s \in Seq(S)
  BY DEF IsSequence
<1>2. PICK T : T = S \cup {e}
  OBVIOUS
<1>3. s \in Seq(T) /\ e \in T
  BY <1>1, <1>2
<1>4. PICK t : t = Append(s, e)
  OBVIOUS
<1>5. t \in Seq(T) /\ Len(s) \in Nat /\ Len(t) = Len(s) + 1
  BY <1>3, <1>4
<1>6. \A i \in 1..Len(s) : t[i] = s[i]
  BY <1>3, <1>4
<1>7. t[Len(s) + 1] = e
  BY <1>3, <1>4
<1> QED BY <1>4, <1>5, <1>6, <1>7 DEF IsSequence

BuiltInv ==
  /\ layers \in Inputs
  /\ pc \in {"layer", "ingest", "done", "failed"}
  /\ IsSequence(data) /\ IsSequence(layer_hashes)
  /\ Len(layer_hashes) = Len(data)
  /\ Len(data) <= Len(layers)
  /\ pc \in {"layer", "ingest"} => Len(data) < Len(layers)
  /\ pc = "done" => Len(data) = Len(layers)

MapsInv ==
  /\ IsMap(entries, CpioEntry) /\ IsMap(file_data, Content)
  /\ DOMAIN file_data \subseteq DOMAIN entries

TodoInv == pc = "ingest" => todo \in Seq(ItemsOf(Current.source))

TypeInv == BuiltInv /\ MapsInv /\ TodoInv

LEMMA TypeInvInit == Init => TypeInv
<1> SUFFICES ASSUME Init PROVE TypeInv
  OBVIOUS
<1>1. layers \in Inputs /\ Len(layers) \in Nat /\ (layers = <<>> <=> Len(layers) = 0)
  BY LayersTyped DEF Init
<1>2. IsSequence(<<>>) /\ Len(<<>>) = 0
  <2>1. <<>> \in Seq({})
    OBVIOUS
  <2> QED BY <2>1 DEF IsSequence
<1>3. data = <<>> /\ layer_hashes = <<>> /\ entries = <<>> /\ file_data = <<>>
  BY DEF Init
<1>4. pc = IF layers = <<>> THEN "done" ELSE "layer"
  BY DEF Init
<1>5. BuiltInv
  BY <1>1, <1>2, <1>3, <1>4 DEF BuiltInv
<1>6. MapsInv
  BY <1>3, EmptyMap DEF MapsInv
<1> QED BY <1>4, <1>5, <1>6 DEF TypeInv, TodoInv

LEMMA TodoStep ==
  ASSUME NEW S, NEW t \in Seq(S), t # <<>>
  PROVE  Head(t) \in S /\ Tail(t) \in Seq(S)
OBVIOUS

LEMMA TypeInvNext == TypeInv /\ [Next]_vars => TypeInv'
<1> SUFFICES ASSUME TypeInv, [Next]_vars PROVE TypeInv'
  OBVIOUS
<1>1. /\ layers \in Inputs /\ Len(layers) \in Nat /\ Len(data) \in Nat
      /\ IsSequence(data) /\ IsSequence(layer_hashes) /\ Len(layer_hashes) = Len(data)
  BY LayersTyped, AppendSequence DEF TypeInv, BuiltInv
<1>2. CASE build_layer
  <2>1. /\ pc = "layer" /\ pc' = "ingest" /\ UNCHANGED <<layers, data, layer_hashes>>
        /\ entries' = <<>> /\ file_data' = <<>> /\ todo' = Tar(Current.source)
    BY <1>2 DEF build_layer
  <2>2. Current' = Current /\ Current = layers[Len(data) + 1] /\ Len(data) + 1 \in 1..Len(layers)
    BY <1>1, <2>1 DEF Current, TypeInv, BuiltInv
  <2>3. BuiltInv'
    BY <2>1 DEF TypeInv, BuiltInv
  <2>4. MapsInv'
    BY <2>1, EmptyMap DEF MapsInv
  <2>5. TodoInv'
    BY <1>1, <2>1, <2>2, LayersTyped DEF TodoInv
  <2> QED BY <2>3, <2>4, <2>5 DEF TypeInv
<1>3. CASE add_dir_entry \/ add_tar_entry
  <2>1. /\ pc = "ingest" /\ todo # <<>> /\ todo' = Tail(todo)
        /\ UNCHANGED <<layers, pc, data, layer_hashes>>
    BY <1>3 DEF add_dir_entry, add_tar_entry
  <2>2. PICK I : I = ItemsOf(Current.source)
    OBVIOUS
  <2>3. todo \in Seq(I)
    BY <2>1, <2>2 DEF TypeInv, TodoInv
  <2>4. Head(todo) \in I /\ Tail(todo) \in Seq(I)
    BY <2>1, <2>3, TodoStep
  <2>5. BuiltInv'
    BY <2>1 DEF TypeInv, BuiltInv
  <2>6. TodoInv'
    BY <2>1, <2>2, <2>4 DEF TodoInv, Current
  <2>7. PICK it \in Item : it = Head(todo) /\ (Current.source.kind = "dir" => it.type # "link")
    BY <2>2, <2>4 DEF ItemsOf
  <2>8. PICK n : n = normalize(it.name) /\ n \in Name \cup {None}
    BY NormalizeTyped DEF Item
  <2>9. IsMap(entries, CpioEntry) /\ IsMap(file_data, Content) /\ DOMAIN file_data \subseteq DOMAIN entries
    BY DEF TypeInv, MapsInv
  <2>10. None \notin CpioEntry /\ None \notin Name
    BY InitramfsAssumption
  <2>11. CASE n = None
    <3>1. UNCHANGED <<entries, file_data>>
      BY <1>3, <2>7, <2>8, <2>11 DEF add_dir_entry, add_tar_entry
    <3>2. MapsInv'
      BY <2>9, <3>1 DEF MapsInv
    <3> QED BY <2>5, <2>6, <3>2 DEF TypeInv
  <2>12. CASE n # None /\ add_dir_entry
    <3>1. PICK e \in CpioEntry \cup {None} : e = dir_entry(it)
      BY <2>7, <2>9, <2>12, ItemTyped DEF add_dir_entry
    <3>2. entries' = Put(entries, n, e) /\ file_data' = file_data
      BY <2>7, <2>8, <2>12, <3>1 DEF add_dir_entry
    <3>3. n \in Name
      BY <2>8, <2>12
    <3>4. Grown(Put(entries, n, e), entries, n, e, CpioEntry)
      BY <2>9, <2>10, <3>1, <3>3, PutGrows
    <3>5. MapsInv'
      BY <2>9, <3>2, <3>4 DEF MapsInv, Grown
    <3> QED BY <2>5, <2>6, <3>5 DEF TypeInv
  <2>13. CASE n # None /\ add_tar_entry
    <3>1. PICK e \in CpioEntry \cup {None} :
            e = tar_entry(it, file_data) /\ (it.type = "reg" => e \in CpioEntry)
      BY <2>9, ItemTyped
    <3>2. /\ entries' = Put(entries, n, e)
          /\ file_data' = IF it.type = "reg" THEN Put(file_data, n, it.data) ELSE file_data
      BY <2>7, <2>8, <2>13, <3>1 DEF add_tar_entry
    <3>3. n \in Name
      BY <2>8, <2>13
    <3>4. Grown(Put(entries, n, e), entries, n, e, CpioEntry)
      BY <2>9, <2>10, <3>1, <3>3, PutGrows
    <3>5. Grown(Put(file_data, n, it.data), file_data, n, it.data, Content)
      <4>1. PICK d \in Content : d = it.data
        BY DEF Item
      <4>2. None \notin Content
        BY InitramfsAssumption
      <4> QED BY <2>9, <3>3, <4>1, <4>2, PutGrows
    <3>6. MapsInv'
      <4>1. CASE it.type = "reg"
        BY <2>9, <2>10, <3>1, <3>2, <3>4, <3>5, <4>1 DEF MapsInv, Grown
      <4>2. CASE it.type # "reg"
        BY <2>9, <3>2, <3>4, <4>2 DEF MapsInv, Grown
      <4> QED BY <4>1, <4>2
    <3> QED BY <2>5, <2>6, <3>6 DEF TypeInv
  <2> QED BY <1>3, <2>11, <2>12, <2>13
<1>4. CASE build_err
  BY <1>4 DEF build_err, TypeInv, BuiltInv, MapsInv, TodoInv
<1>5. CASE finish
  <2>1. /\ pc = "ingest" /\ UNCHANGED <<layers, entries, file_data>>
        /\ data' = Append(data, Archive(entries))
        /\ layer_hashes' = Append(layer_hashes, [label |-> Current.label, sha |-> Archive(entries)])
        /\ pc' = IF Len(data') = Len(layers) THEN "done" ELSE "layer"
    BY <1>5 DEF finish
  <2>2. /\ IsSequence(data') /\ Len(data') = Len(data) + 1
        /\ IsSequence(layer_hashes') /\ Len(layer_hashes') = Len(layer_hashes) + 1
    BY <1>1, <2>1, AppendSequence
  <2>3. BuiltInv'
    BY <1>1, <2>1, <2>2 DEF TypeInv, BuiltInv
  <2>4. MapsInv'
    BY <2>1 DEF TypeInv, MapsInv
  <2> QED BY <2>1, <2>3, <2>4 DEF TypeInv, TodoInv
<1>6. CASE UNCHANGED vars
  BY <1>6 DEF vars, TypeInv, BuiltInv, MapsInv, TodoInv, Current
<1> QED BY <1>2, <1>3, <1>4, <1>5, <1>6 DEF Next

\* The archive is built of well-typed entries, hard links only ever copy what
\* has an entry, and there is one hash per archive and one archive per layer
\* when the build is done.  (build_initramfs, CpioBuilder)
THEOREM TypeCorrect == Spec => []TypeOK
<1>1. TypeInv => TypeOK
  <2> SUFFICES ASSUME TypeInv PROVE TypeOK
    OBVIOUS
  <2>1. PICK N \in SUBSET Name : entries \in [N -> CpioEntry]
    BY DEF TypeInv, MapsInv, IsMap
  <2>2. DOMAIN entries \subseteq Name /\ \A n \in DOMAIN entries : entries[n].type \in FileType
    BY <2>1 DEF CpioEntry
  <2> QED BY <2>2 DEF TypeInv, BuiltInv, MapsInv, TypeOK
<1> QED BY <1>1, TypeInvInit, TypeInvNext, PTL DEF Spec

-----------------------------------------------------------------------------
(* Induction and recursion up to a number, with sets in the place of       *)
(* predicates.                                                             *)

\* A set of natural numbers has a least element.
LEMMA NatMin ==
  ASSUME NEW T \in SUBSET Nat, T # {}
  PROVE  \E x \in T : \A y \in T : x <= y
<1> DEFINE R == {ss \in Nat \X Nat : ss[1] < ss[2]}
<1>1. IsWellFoundedOn(R, Nat)
  BY NatLessThanWellFounded DEF OpToRel
<1>2. PICK x \in T : \A y \in T : <<y, x>> \notin R
  <2> HIDE DEF R
  <2> QED BY <1>1, WFMin
<1>3. ASSUME NEW y \in T PROVE x <= y
  <2>1. <<y, x>> \notin R /\ <<y, x>> \in Nat \X Nat
    BY <1>2
  <2>2. <<y, x>>[1] = y /\ <<y, x>>[2] = x
    OBVIOUS
  <2>3. ~ (y < x)
    BY <2>1, <2>2
  <2> QED BY <2>3
<1> QED BY <1>3

\* What holds of 0 and is handed on holds up to n.
LEMMA UpTo ==
  ASSUME NEW n \in Nat, NEW S, 0 \in S, \A k \in 1..n : k - 1 \in S => k \in S
  PROVE  \A k \in 0..n : k \in S
<1> DEFINE T == {k \in 0..n : k \notin S}
<1> SUFFICES ASSUME T # {} PROVE FALSE
  OBVIOUS
<1>1. PICK k \in T : \A y \in T : k <= y
  <2>1. T \in SUBSET Nat
    OBVIOUS
  <2> HIDE DEF T
  <2> QED BY <2>1, NatMin
<1>2. k \in 0..n /\ k \notin S /\ k # 0
  OBVIOUS
<1>3. k - 1 \in 0..n /\ k - 1 \notin T
  BY <1>1, <1>2
<1> QED BY <1>2, <1>3

\* f has the values that a loop of n passes over a value of S goes through.
Steps(n, S) == [1..n -> [S -> S]]
IsLoop(f, n, S, x0, step) ==
  f \in [0..n -> S] /\ f[0] = x0 /\ \A i \in 1..n : f[i] = step[i][f[i - 1]]

\* Every loop has them.
LEMMA Loop ==
  ASSUME NEW n \in Nat, NEW S, NEW x0 \in S, NEW step \in Steps(n, S)
  PROVE  \E f : IsLoop(f, n, S, x0, step)
<1> USE DEF Steps, IsLoop
<1> DEFINE P(k) == \E f \in [0..k -> S] : f[0] = x0 /\ \A i \in 1..k : f[i] = step[i][f[i - 1]]
           Q == {k \in Nat : P(k)}
<1>1. P(0)
  <2> DEFINE g == [i \in 0..0 |-> x0]
  <2>1. g \in [0..0 -> S] /\ g[0] = x0 /\ \A i \in 1..0 : FALSE
    OBVIOUS
  <2> HIDE DEF g
  <2> QED BY <2>1
<1>2. ASSUME NEW k \in 1..n, P(k - 1) PROVE P(k)
  <2>1. PICK f \in [0..(k - 1) -> S] :
               f[0] = x0 /\ \A i \in 1..(k - 1) : f[i] = step[i][f[i - 1]]
    BY <1>2
  <2> DEFINE g == [i \in 0..k |-> IF i = k THEN step[k][f[k - 1]] ELSE f[i]]
  <2>2. step[k] \in [S -> S] /\ f[k - 1] \in S
    OBVIOUS
  <2>3. g \in [0..k -> S]
    BY <2>2
  <2>4. g[0] = x0
    BY <2>1
  <2>5. \A i \in 1..k : g[i] = step[i][g[i - 1]]
    BY <2>1
  <2> HIDE DEF g
  <2> QED BY <2>3, <2>4, <2>5
<1> SUFFICES P(n)
  OBVIOUS
<1> HIDE DEF P
<1>3. 0 \in Q /\ \A k \in 1..n : k - 1 \in Q => k \in Q
  BY <1>1, <1>2
<1>4. n \in Q
  <2> HIDE DEF Q
  <2>1. n \in 0..n
    OBVIOUS
  <2> QED BY <1>3, <2>1, UpTo
<1> QED BY <1>4

-----------------------------------------------------------------------------
(* The trees that the streams describe.                                    *)

Paths == Path \cup {Root, Cut}
Trees == UNION {[P -> CpioEntry] : P \in SUBSET Paths}

LEMMA TreesIs ==
  ASSUME NEW fs
  PROVE  fs \in Trees <=> \E P \in SUBSET Paths : fs \in [P -> CpioEntry]
<1> USE DEF Trees
<1>1. PICK C, Q : C = CpioEntry /\ Q = SUBSET Paths
  OBVIOUS
<1>2. fs \in UNION {[P -> C] : P \in Q} <=> \E P \in Q : fs \in [P -> C]
  OBVIOUS
<1> QED BY <1>1, <1>2

LEMMA PutTree ==
  ASSUME NEW fs \in Trees, NEW p \in Paths, NEW e \in CpioEntry
  PROVE  /\ Put(fs, p, e) \in Trees
         /\ DOMAIN Put(fs, p, e) = DOMAIN fs \cup {p}
         /\ Put(fs, p, e)[p] = e
         /\ \A q \in DOMAIN fs : q # p => Put(fs, p, e)[q] = fs[q]
<1>1. PICK P \in SUBSET Paths : fs \in [P -> CpioEntry]
  BY TreesIs
<1>2. PICK r : r = [m \in DOMAIN fs \cup {p} |-> IF m = p THEN e ELSE fs[m]]
  OBVIOUS
<1>3. e # None
  BY InitramfsAssumption
<1>4. Put(fs, p, e) = r
  BY <1>2, <1>3 DEF Put
<1>5. r \in [P \cup {p} -> CpioEntry] /\ P \cup {p} \in SUBSET Paths
  BY <1>1, <1>2
<1>6. r \in Trees
  BY <1>5, TreesIs
<1>7. /\ DOMAIN r = DOMAIN fs \cup {p} /\ r[p] = e
      /\ \A q \in DOMAIN fs : q # p => r[q] = fs[q]
  BY <1>2
<1> QED BY <1>4, <1>6, <1>7

\* The entry that Extract puts.
NewEntry(fs, it) ==
  IF it.type = "link" THEN fs[it.link.path]
  ELSE IF it.type = "symlink" THEN Entry("symlink", it.perms, it.link)
  ELSE Entry(it.type, it.perms, it.data)

Skips(fs, it) ==
  \/ it.name.path = Root \/ it.type = "socket"
  \/ it.type = "link" /\ it.link.path \notin DOMAIN fs

LEMMA NewEntryTyped ==
  ASSUME NEW fs \in Trees, NEW it \in Item, ~ Skips(fs, it)
  PROVE  NewEntry(fs, it) \in CpioEntry /\ it.name.path \in Paths
<1>1. /\ it.type \in FileType \cup {"link", "socket"} /\ it.perms \in Perms
      /\ it.data \in Content /\ it.link \in Name \cup {None} /\ it.name \in Name
  BY DEF Item
<1>2. it.name.path \in Paths
  BY <1>1 DEF Name, Paths
<1>3. PICK P \in SUBSET Paths : fs \in [P -> CpioEntry]
  BY TreesIs
<1>4. CASE it.type = "link"
  <2>1. it.link.path \in DOMAIN fs
    BY <1>4 DEF Skips
  <2>2. fs[it.link.path] \in CpioEntry
    BY <1>3, <2>1
  <2> QED BY <1>2, <1>4, <2>2 DEF NewEntry
<1>5. CASE it.type = "symlink"
  <2>1. it.link \in Name
    BY <1>1, <1>5 DEF Item
  <2>2. Entry("symlink", it.perms, it.link) \in CpioEntry
    BY <1>1, <2>1, EntryTyped DEF FileType
  <2> QED BY <1>2, <1>5, <2>2 DEF NewEntry
<1>6. CASE it.type \notin {"link", "symlink"}
  <2>1. it.type \in FileType
    BY <1>1, <1>6 DEF Skips
  <2>2. Entry(it.type, it.perms, it.data) \in CpioEntry
    BY <1>1, <2>1, EntryTyped
  <2> QED BY <1>2, <1>6, <2>2 DEF NewEntry
<1> QED BY <1>4, <1>5, <1>6

LEMMA ExtractIs ==
  ASSUME NEW fs, NEW it
  PROVE  Extract(fs, it) = IF Skips(fs, it) THEN fs ELSE Put(fs, it.name.path, NewEntry(fs, it))
BY DEF Extract, Skips, NewEntry

LEMMA ExtractTyped ==
  ASSUME NEW fs \in Trees, NEW it \in Item
  PROVE  Extract(fs, it) \in Trees
<1>1. CASE Skips(fs, it)
  BY <1>1, ExtractIs
<1>2. CASE ~ Skips(fs, it)
  <2>1. PICK e \in CpioEntry, p \in Paths : e = NewEntry(fs, it) /\ p = it.name.path
    BY <1>2, NewEntryTyped
  <2>2. Put(fs, p, e) \in Trees
    BY PutTree
  <2> QED BY <1>2, <2>1, <2>2, ExtractIs
<1> QED BY <1>1, <1>2

\* The recursion of Extracted has a solution.
LEMMA ExtractedIs ==
  ASSUME NEW s \in Seq(Item)
  PROVE  /\ Len(s) \in Nat
         /\ Extracted(s)[0] = <<>>
         /\ \A k \in 0..Len(s) : Extracted(s)[k] \in Trees
         /\ \A k \in 1..Len(s) : Extracted(s)[k] = Extract(Extracted(s)[k - 1], s[k])
<1>1. PICK n \in Nat : n = Len(s)
  OBVIOUS
<1>2. PICK T : T = Trees
  OBVIOUS
<1>3. \A i \in 1..n : s[i] \in Item
  BY <1>1
<1>4. \A i \in 1..n : \A fs \in T : Extract(fs, s[i]) \in T
  BY <1>2, <1>3, ExtractTyped
<1> DEFINE step == [i \in 1..n |-> [fs \in T |-> Extract(fs, s[i])]]
           Body(h) == [k \in 0..n |-> IF k = 0 THEN <<>> ELSE Extract(h[k - 1], s[k])]
           ex == CHOOSE h : h = Body(h)
<1>5. step \in Steps(n, T)
  BY <1>4 DEF Steps
<1>6. <<>> \in T
  <2>1. <<>> \in [{} -> CpioEntry] /\ {} \in SUBSET Paths
    OBVIOUS
  <2> QED BY <1>2, <2>1, TreesIs
<1>7. PICK f : IsLoop(f, n, T, <<>>, step)
  <2> HIDE DEF step
  <2> QED BY <1>5, <1>6, Loop
<1>8. \A i \in 1..n : f[i] = Extract(f[i - 1], s[i])
  <2> TAKE i \in 1..n
  <2>1. f[i] = step[i][f[i - 1]] /\ f[i - 1] \in T
    BY <1>7 DEF IsLoop
  <2> QED BY <2>1
<1>9. f \in [0..n -> T] /\ f[0] = <<>>
  BY <1>7 DEF IsLoop
<1>10. f = Body(f)
  <2>1. \A k \in 0..n : f[k] = IF k = 0 THEN <<>> ELSE Extract(f[k - 1], s[k])
    <3> TAKE k \in 0..n
    <3>1. CASE k = 0
      BY <1>9, <3>1
    <3>2. CASE k # 0
      <4>1. k \in 1..n
        BY <3>2
      <4> QED BY <1>8, <3>2, <4>1, Zenon
    <3> QED BY <3>1, <3>2
  <2> QED BY <1>9, <2>1
<1>11. ex = Body(ex)
  <2> HIDE DEF Body
  <2> QED BY <1>10
<1>12. Extracted(s) = ex
  BY <1>1 DEF Extracted
<1>13. PICK g : g = ex
  OBVIOUS
<1>14. g = Body(g)
  BY <1>11, <1>13
<1> HIDE DEF ex
<1>15. g[0] = <<>> /\ \A k \in 1..n : g[k] = Extract(g[k - 1], s[k])
  <2>1. 0 \in 0..n
    OBVIOUS
  <2>2. \A k \in 1..n : k \in 0..n /\ k # 0
    OBVIOUS
  <2>3. \A k \in 0..n : g[k] = IF k = 0 THEN <<>> ELSE Extract(g[k - 1], s[k])
    BY <1>14, Zenon
  <2> QED BY <2>1, <2>2, <2>3
<1> HIDE DEF Body
<1>16. \A k \in 0..n : g[k] \in T
  <2>1. PICK S : S = {k \in 0..n : g[k] \in T}
    OBVIOUS
  <2>2. 0 \in S
    BY <1>6, <1>15, <2>1
  <2>3. \A k \in 1..n : k - 1 \in S => k \in S
    BY <1>4, <1>15, <2>1
  <2>4. \A k \in 0..n : k \in S
    BY <2>2, <2>3, UpTo
  <2> QED BY <2>1, <2>4
<1> QED BY <1>1, <1>2, <1>12, <1>13, <1>15, <1>16

\* A stream in one piece is that piece.
LEMMA FlattenOne ==
  ASSUME NEW S, NEW m \in Seq(Seq(S)), Len(m) = 1
  PROVE  FlattenSeq(m) = m[1]
<1> DEFINE Body(h) == [i \in 1..Len(m) |-> IF i = 1 THEN m[i] ELSE h[i - 1] \o m[i]]
           fl == CHOOSE h : h = Body(h)
<1>1. FlattenSeq(m) = fl[Len(m)]
  BY DEF FlattenSeq
<1>2. PICK f : f = [i \in 1..Len(m) |-> m[1]]
  OBVIOUS
<1>3. f = Body(f)
  BY <1>2
<1>4. fl = Body(fl)
  <2> HIDE DEF Body
  <2> QED BY <1>3
<1>5. PICK g : g = fl
  OBVIOUS
<1>6. g = Body(g)
  BY <1>4, <1>5
<1> HIDE DEF fl
<1>7. g[1] = m[1]
  BY <1>6
<1> QED BY <1>1, <1>5, <1>7

LEMMA TreeIs ==
  ASSUME NEW ls \in Inputs, NEW i \in 1..Len(ls), WellFormed(ls[i].source)
  PROVE  /\ Tar(ls[i].source) \in Seq(Item)
         /\ Tree(ls[i].source) = Extracted(Tar(ls[i].source))[Len(Tar(ls[i].source))]
<1>1. PICK L : L = [label : STRING, source : Source]
  OBVIOUS
<1>2. ls[i].source \in Source
  <2>1. ls \in Seq(L) /\ Len(ls) \in Nat
    BY <1>1, LayersTyped DEF Layers
  <2>2. ls[i] \in L
    BY <2>1
  <2> QED BY <1>1, <2>2
<1>3. PICK source \in Source : source = ls[i].source
  BY <1>2
<1>4. PICK m, I : m = source.members /\ I = Item
  OBVIOUS
<1>5. m \in Seq(Seq(I)) /\ Len(m) = 1
  BY <1>3, <1>4 DEF Source, WellFormed
<1>6. FlattenSeq(m) = m[1] /\ m[1] \in Seq(I)
  BY <1>5, FlattenOne
<1>7. Tar(source) = m[1]
  BY <1>4 DEF Tar
<1>8. Tree(source) = Extracted(m[1])[Len(m[1])]
  BY <1>4, <1>6 DEF Tree
<1> QED BY <1>3, <1>4, <1>6, <1>7, <1>8

-----------------------------------------------------------------------------
(* The names of an archive.                                                *)

AsName(p) == [lead |-> <<>>, path |-> p]
AsNames(fs) == [n \in {AsName(p) : p \in DOMAIN fs} |-> fs[n.path]]

LEMMA AsNamesIs ==
  ASSUME NEW fs
  PROVE  /\ \A p : AsName(p) \in DOMAIN AsNames(fs) <=> p \in DOMAIN fs
         /\ \A p \in DOMAIN fs : AsNames(fs)[AsName(p)] = fs[p]
         /\ \A n \in DOMAIN AsNames(fs) : \E p \in DOMAIN fs : n = AsName(p)
<1>1. \A p, q : AsName(p) = AsName(q) <=> p = q
  BY DEF AsName
<1>2. \A p : AsName(p).path = p
  BY DEF AsName
<1> QED BY <1>1, <1>2 DEF AsNames

LEMMA AsNamesPut ==
  ASSUME NEW fs, NEW p, NEW e, e # None
  PROVE  Put(AsNames(fs), AsName(p), e) = AsNames(Put(fs, p, e))
<1>1. PICK r : r = [m \in DOMAIN fs \cup {p} |-> IF m = p THEN e ELSE fs[m]]
  OBVIOUS
<1>2. Put(fs, p, e) = r
  BY <1>1 DEF Put
<1>3. PICK a : a = AsNames(fs)
  OBVIOUS
<1>4. PICK n : n = AsName(p)
  OBVIOUS
<1>5. PICK b : b = [m \in DOMAIN a \cup {n} |-> IF m = n THEN e ELSE a[m]]
  OBVIOUS
<1>6. Put(a, n, e) = b
  BY <1>5 DEF Put
<1>7. \A q, r2 : AsName(q) = AsName(r2) <=> q = r2
  BY DEF AsName
<1>8. \A q : AsName(q).path = q
  BY DEF AsName
<1>9. DOMAIN a = {AsName(q) : q \in DOMAIN fs} /\ \A m \in DOMAIN a : a[m] = fs[m.path]
  BY <1>3 DEF AsNames
<1>10. DOMAIN r = DOMAIN fs \cup {p}
  BY <1>1
<1>11. {AsName(q) : q \in DOMAIN r} = DOMAIN a \cup {n}
  BY <1>4, <1>9, <1>10
<1>12. \A m \in DOMAIN a \cup {n} : b[m] = r[m.path]
  <2> TAKE m \in DOMAIN a \cup {n}
  <2>1. PICK q \in DOMAIN r : m = AsName(q)
    BY <1>11
  <2>2. m.path = q /\ (m = n <=> q = p)
    BY <1>4, <1>7, <1>8, <2>1
  <2>3. CASE m = n
    BY <1>1, <1>5, <1>10, <2>1, <2>2, <2>3
  <2>4. CASE m # n
    <3>1. b[m] = a[m] /\ m \in DOMAIN a
      BY <1>5, <2>4
    <3>2. r[q] = fs[q]
      BY <1>1, <1>10, <2>1, <2>2, <2>4
    <3> QED BY <1>9, <2>2, <3>1, <3>2
  <2> QED BY <2>3, <2>4
<1>13. AsNames(r) = [m \in {AsName(q) : q \in DOMAIN r} |-> r[m.path]]
  BY DEF AsNames
<1>14. b = [m \in DOMAIN a \cup {n} |-> r[m.path]]
  BY <1>5, <1>12
<1> QED BY <1>2, <1>3, <1>4, <1>6, <1>11, <1>13, <1>14

LEMMA AsNameTyped ==
  ASSUME NEW p \in Path \cup {Root, Cut}
  PROVE  AsName(p) \in Name /\ AsName(p) # None
<1>1. PICK D : D = {"./", "/"}
  OBVIOUS
<1>2. <<>> \in Seq(D) /\ Len(<<>>) <= 2
  OBVIOUS
<1>3. <<>> \in Lead
  BY <1>1, <1>2, LeadIs
<1>4. AsName(p) \in Name
  BY <1>3 DEF AsName, Name
<1> QED BY <1>4, InitramfsAssumption

\* What normalize makes of a plain name.
LEMMA NormalizePlain ==
  ASSUME NEW n \in Name, Plain(n)
  PROVE  normalize(n) = IF n.path = Root THEN None ELSE AsName(n.path)
<1>1. [n EXCEPT !.lead = <<>>] = [lead |-> <<>>, path |-> n.path]
  BY DEF Name
<1> QED BY <1>1 DEF normalize, Plain, AsName

LEMMA EmptyNames == AsNames(<<>>) = <<>>
<1>1. DOMAIN <<>> = {}
  OBVIOUS
<1>2. AsNames(<<>>) = [n \in {} |-> <<>>[n.path]]
  BY <1>1 DEF AsNames
<1>3. [n \in {} |-> <<>>[n.path]] = <<>>
  OBVIOUS
<1> QED BY <1>2, <1>3

-----------------------------------------------------------------------------
(* Each entry of a stream does to the archive what it does to the tree.    *)

\* The copy kept for hard links, and the tree, have the j-th file.
Tracks(s, j, fs, seen) ==
  /\ AsName(s[j].name.path) \in DOMAIN seen /\ seen[AsName(s[j].name.path)] = s[j].data
  /\ s[j].name.path \in DOMAIN fs
  /\ fs[s[j].name.path] = Entry("reg", s[j].perms, s[j].data)

Following(s, k, fs, seen) == \A j \in 1..k : FileAt(s, k, j) => Tracks(s, j, fs, seen)

GoodTarget(s, k) ==
  \E j \in 1..(k - 1) :
    /\ FileAt(s, k - 1, j)
    /\ s[j].name.path = s[k].link.path /\ s[j].perms = s[k].perms

GoodItem(s, k) ==
  /\ Plain(s[k].name)
  /\ s[k].type \in {"symlink", "link"} => s[k].link.path \notin LongPath
  /\ s[k].type = "link" => Plain(s[k].link) /\ GoodTarget(s, k)

LEMMA FileAtBefore ==
  ASSUME NEW s, NEW k \in Nat \ {0}, NEW j \in 1..k, FileAt(s, k, j)
  PROVE  \/ j = k
         \/ j \in 1..(k - 1) /\ FileAt(s, k - 1, j) /\ s[k].name.path # s[j].name.path
<1> SUFFICES ASSUME j # k
             PROVE  j \in 1..(k - 1) /\ FileAt(s, k - 1, j) /\ s[k].name.path # s[j].name.path
  OBVIOUS
<1>1. j \in 1..(k - 1) /\ k \in (j + 1)..k /\ \A m \in (j + 1)..(k - 1) : m \in (j + 1)..k
  OBVIOUS
<1> QED BY <1>1 DEF FileAt

LEMMA FollowingSkip ==
  ASSUME NEW s, NEW k \in Nat \ {0}, NEW fs, NEW seen, Following(s, k - 1, fs, seen),
         s[k].name.path = Root \/ s[k].type # "reg"
  PROVE  Following(s, k, fs, seen)
<1> SUFFICES ASSUME NEW j \in 1..k, FileAt(s, k, j) PROVE Tracks(s, j, fs, seen)
  BY DEF Following
<1>1. j # k
  BY DEF FileAt
<1>2. j \in 1..(k - 1) /\ FileAt(s, k - 1, j)
  BY <1>1, FileAtBefore
<1> QED BY <1>2 DEF Following

LEMMA FollowingPut ==
  ASSUME NEW s, NEW k \in Nat \ {0}, NEW fs, NEW seen, Following(s, k - 1, fs, seen),
         NEW e, e # None, s[k].type # "reg"
  PROVE  Following(s, k, Put(fs, s[k].name.path, e), seen)
<1>1. PICK p : p = s[k].name.path
  OBVIOUS
<1>2. PICK r : r = [m \in DOMAIN fs \cup {p} |-> IF m = p THEN e ELSE fs[m]]
  OBVIOUS
<1>3. Put(fs, p, e) = r
  BY <1>2 DEF Put
<1> SUFFICES ASSUME NEW j \in 1..k, FileAt(s, k, j) PROVE Tracks(s, j, r, seen)
  BY <1>1, <1>3 DEF Following
<1>4. j # k
  BY DEF FileAt
<1>5. j \in 1..(k - 1) /\ FileAt(s, k - 1, j) /\ p # s[j].name.path
  BY <1>1, <1>4, FileAtBefore
<1>6. Tracks(s, j, fs, seen)
  BY <1>5 DEF Following
<1>7. \A q \in DOMAIN fs : q # p => q \in DOMAIN r /\ r[q] = fs[q]
  BY <1>2
<1> QED BY <1>5, <1>6, <1>7 DEF Tracks

LEMMA FollowingReg ==
  ASSUME NEW s, NEW k \in Nat \ {0}, NEW fs, NEW seen, Following(s, k - 1, fs, seen),
         s[k].data # None, Entry("reg", s[k].perms, s[k].data) # None
  PROVE  Following(s, k, Put(fs, s[k].name.path, Entry("reg", s[k].perms, s[k].data)),
                   Put(seen, AsName(s[k].name.path), s[k].data))
<1>1. PICK p, d, e, n : /\ p = s[k].name.path /\ d = s[k].data
                        /\ e = Entry("reg", s[k].perms, s[k].data) /\ n = AsName(p)
  OBVIOUS
<1>2. PICK r : r = [m \in DOMAIN fs \cup {p} |-> IF m = p THEN e ELSE fs[m]]
  OBVIOUS
<1>3. PICK t : t = [m \in DOMAIN seen \cup {n} |-> IF m = n THEN d ELSE seen[m]]
  OBVIOUS
<1>4. Put(fs, p, e) = r /\ Put(seen, n, d) = t
  BY <1>1, <1>2, <1>3 DEF Put
<1> SUFFICES ASSUME NEW j \in 1..k, FileAt(s, k, j) PROVE Tracks(s, j, r, t)
  BY <1>1, <1>4 DEF Following
<1>5. r[p] = e /\ p \in DOMAIN r /\ \A q \in DOMAIN fs : q # p => q \in DOMAIN r /\ r[q] = fs[q]
  BY <1>2
<1>6. t[n] = d /\ n \in DOMAIN t /\ \A m \in DOMAIN seen : m # n => m \in DOMAIN t /\ t[m] = seen[m]
  BY <1>3
<1>7. CASE j = k
  BY <1>1, <1>5, <1>6, <1>7 DEF Tracks
<1>8. CASE j # k
  <2>1. j \in 1..(k - 1) /\ FileAt(s, k - 1, j) /\ p # s[j].name.path
    BY <1>1, <1>8, FileAtBefore
  <2>2. Tracks(s, j, fs, seen)
    BY <2>1 DEF Following
  <2>3. AsName(s[j].name.path) # n
    BY <1>1, <2>1 DEF AsName
  <2> QED BY <1>5, <1>6, <2>1, <2>2, <2>3 DEF Tracks
<1> QED BY <1>7, <1>8

\* add_tar, entry by entry.
TarEntries(es, seen, it) ==
  IF normalize(it.name) = None THEN es ELSE Put(es, normalize(it.name), tar_entry(it, seen))
TarSeen(seen, it) ==
  IF normalize(it.name) # None /\ it.type = "reg"
  THEN Put(seen, normalize(it.name), it.data) ELSE seen

LEMMA TarStep ==
  ASSUME NEW s, NEW k \in Nat \ {0}, s[k] \in Item, GoodItem(s, k),
         NEW fs \in Trees, NEW seen, Following(s, k - 1, fs, seen)
  PROVE  /\ TarEntries(AsNames(fs), seen, s[k]) = AsNames(Extract(fs, s[k]))
         /\ Following(s, k, Extract(fs, s[k]), TarSeen(seen, s[k]))
<1>1. PICK it \in Item : it = s[k]
  OBVIOUS
<1>2. /\ it.type \in FileType \cup {"link", "socket"} /\ it.perms \in Perms
      /\ it.data \in Content /\ it.link \in Name \cup {None} /\ it.name \in Name
  BY DEF Item
<1>3. PICK p : p = it.name.path
  OBVIOUS
<1>4. normalize(it.name) = IF p = Root THEN None ELSE AsName(p)
  BY <1>1, <1>2, <1>3, NormalizePlain DEF GoodItem
<1>5. CASE p = Root
  <2>1. Extract(fs, it) = fs /\ TarEntries(AsNames(fs), seen, it) = AsNames(fs) /\ TarSeen(seen, it) = seen
    BY <1>3, <1>4, <1>5 DEF Extract, TarEntries, TarSeen
  <2>2. Following(s, k, fs, seen)
    BY <1>1, <1>3, <1>5, FollowingSkip
  <2> QED BY <1>1, <2>1, <2>2
<1>6. CASE p # Root
  <2>0. AsName(p) # None
    BY <1>2, <1>3, AsNameTyped DEF Name
  <2>1. PICK te : te = tar_entry(it, seen)
    OBVIOUS
  <2>2. /\ TarEntries(AsNames(fs), seen, it) = Put(AsNames(fs), AsName(p), te)
        /\ it.type = "reg" => TarSeen(seen, it) = Put(seen, AsName(p), it.data)
        /\ it.type # "reg" => TarSeen(seen, it) = seen
    BY <1>4, <1>6, <2>0, <2>1 DEF TarEntries, TarSeen
  <2>3. CASE it.type = "socket"
    <3>1. te = None /\ Extract(fs, it) = fs
      BY <2>1, <2>3 DEF tar_entry, Extract
    <3>2. Put(AsNames(fs), AsName(p), te) = AsNames(fs)
      BY <3>1 DEF Put
    <3>3. Following(s, k, fs, seen)
      BY <1>1, <2>3, FollowingSkip
    <3> QED BY <1>1, <2>2, <2>3, <3>1, <3>2, <3>3
  <2>4. ASSUME it.type # "socket", ~ Skips(fs, it), te = NewEntry(fs, it),
               it.type = "reg" => te = Entry("reg", it.perms, it.data)
        PROVE  /\ TarEntries(AsNames(fs), seen, it) = AsNames(Extract(fs, it))
               /\ Following(s, k, Extract(fs, it), TarSeen(seen, it))
    <3>1. te \in CpioEntry
      BY <2>4, NewEntryTyped
    <3>2. te # None /\ it.data # None
      BY <1>2, <3>1, InitramfsAssumption
    <3>3. Extract(fs, it) = Put(fs, p, te)
      BY <1>3, <2>4, ExtractIs
    <3>4. Put(AsNames(fs), AsName(p), te) = AsNames(Put(fs, p, te))
      BY <3>2, AsNamesPut
    <3>5. it.type # "reg" => Following(s, k, Put(fs, p, te), seen)
      BY <1>1, <1>3, <3>2, FollowingPut
    <3>6. it.type = "reg" => Following(s, k, Put(fs, p, te), Put(seen, AsName(p), it.data))
      BY <1>1, <1>3, <2>4, <3>2, FollowingReg
    <3> QED BY <2>2, <3>3, <3>4, <3>5, <3>6
  <2>5. CASE it.type = "link"
    <3>1. PICK j \in 1..(k - 1) : /\ FileAt(s, k - 1, j)
                                  /\ s[j].name.path = it.link.path /\ s[j].perms = it.perms
      BY <1>1, <2>5 DEF GoodItem, GoodTarget
    <3>2. PICK q, d : q = it.link.path /\ d = s[j].data
      OBVIOUS
    <3>3. /\ AsName(q) \in DOMAIN seen /\ seen[AsName(q)] = d
          /\ q \in DOMAIN fs /\ fs[q] = Entry("reg", it.perms, d) /\ q # Root
      BY <3>1, <3>2 DEF Following, Tracks, FileAt
    <3>4. it.link \in Name /\ Plain(it.link) /\ it.link.path \notin LongPath
      BY <1>1, <1>2, <2>5 DEF Item, GoodItem
    <3>5. normalize(it.link) = AsName(q) /\ header_link_name(it.link) = it.link
      BY <3>2, <3>3, <3>4, NormalizePlain DEF header_link_name
    <3>6. AsName(q) # None
      BY <3>2, <3>4, AsNameTyped DEF Name
    <3>7. hardlink_data(seen, it.link) = d
      BY <3>3, <3>5, <3>6 DEF hardlink_data
    <3>8. te = Entry("reg", it.perms, d)
      BY <2>1, <2>5, <3>5, <3>7 DEF tar_entry
    <3>9. ~ Skips(fs, it)
      BY <1>3, <1>6, <2>5, <3>2, <3>3 DEF Skips
    <3>10. te = NewEntry(fs, it)
      BY <2>5, <3>2, <3>3, <3>8 DEF NewEntry
    <3> QED BY <1>1, <2>4, <2>5, <3>9, <3>10
  <2>6. CASE it.type = "symlink"
    <3>1. header_link_name(it.link) = it.link
      BY <1>1, <2>6 DEF GoodItem, header_link_name
    <3>2. te = NewEntry(fs, it)
      BY <2>1, <2>6, <3>1 DEF tar_entry, NewEntry
    <3>3. ~ Skips(fs, it)
      BY <1>3, <1>6, <2>6 DEF Skips
    <3> QED BY <1>1, <2>4, <2>6, <3>2, <3>3
  <2>7. CASE it.type \notin {"socket", "link", "symlink"}
    <3>1. te = Entry(it.type, it.perms, it.data) /\ te = NewEntry(fs, it)
      BY <2>1, <2>7 DEF tar_entry, NewEntry
    <3>2. ~ Skips(fs, it)
      BY <1>3, <1>6, <2>7 DEF Skips
    <3> QED BY <1>1, <2>4, <2>7, <3>1, <3>2
  <2> QED BY <2>3, <2>5, <2>6, <2>7
<1> QED BY <1>5, <1>6

\* add_dir, entry by entry.
LEMMA DirStep ==
  ASSUME NEW it \in Item, it.type # "link", Plain(it.name), NEW fs \in Trees
  PROVE  (IF normalize(it.name) = None THEN AsNames(fs)
          ELSE Put(AsNames(fs), normalize(it.name), dir_entry(it))) = AsNames(Extract(fs, it))
<1>1. PICK p : p = it.name.path
  OBVIOUS
<1>2. it.name \in Name
  BY DEF Item
<1>3. normalize(it.name) = IF p = Root THEN None ELSE AsName(p)
  BY <1>1, <1>2, NormalizePlain
<1>4. CASE p = Root
  <2>1. Extract(fs, it) = fs
    BY <1>1, <1>4 DEF Extract
  <2> QED BY <1>3, <1>4, <2>1
<1>5. CASE p # Root
  <2>1. AsName(p) # None
    BY <1>1, <1>2, AsNameTyped DEF Name
  <2>2. CASE it.type = "socket"
    <3>1. dir_entry(it) = None /\ Extract(fs, it) = fs
      BY <2>2 DEF dir_entry, Extract
    <3>2. Put(AsNames(fs), AsName(p), None) = AsNames(fs)
      BY DEF Put
    <3> QED BY <1>3, <1>5, <2>1, <3>1, <3>2
  <2>3. CASE it.type # "socket"
    <3>1. ~ Skips(fs, it)
      BY <1>1, <1>5, <2>3 DEF Skips
    <3>2. PICK e : e = dir_entry(it)
      OBVIOUS
    <3>3. e = NewEntry(fs, it)
      BY <2>3, <3>2 DEF dir_entry, NewEntry
    <3>4. e # None
      BY <3>1, <3>3, NewEntryTyped, InitramfsAssumption
    <3>5. Put(AsNames(fs), AsName(p), e) = AsNames(Put(fs, p, e))
      BY <3>4, AsNamesPut
    <3>6. Extract(fs, it) = Put(fs, p, e)
      BY <1>1, <3>1, <3>3, ExtractIs
    <3> QED BY <1>3, <1>5, <2>1, <3>2, <3>5, <3>6
  <2> QED BY <2>2, <2>3
<1> QED BY <1>4, <1>5

-----------------------------------------------------------------------------
(* The archives are functions of the trees.                                *)

\* k entries of a layer are in: `rest` is left, and the archive has the tree
\* that the k entries describe.
Ingested(source, k, rest, es, seen) ==
  /\ rest = SubSeq(Tar(source), k + 1, Len(Tar(source)))
  /\ es = AsNames(Extracted(Tar(source))[k])
  /\ source.kind # "dir" => Following(Tar(source), k, Extracted(Tar(source))[k], seen)

BuildsInv ==
  /\ \A i \in 1..Len(data) : data[i] = Archive(AsNames(Tree(layers[i].source)))
  /\ pc = "ingest" =>
       \E k \in 0..Len(Tar(Current.source)) :
         Ingested(Current.source, k, todo, entries, file_data)

LEMMA GoodItems ==
  ASSUME NEW source, WellFormed(source), NEW k \in 1..Len(Tar(source))
  PROVE  /\ Plain(Tar(source)[k].name)
         /\ source.kind # "dir" => GoodItem(Tar(source), k)
BY DEF WellFormed, Tar, GoodItem, GoodTarget

LEMMA RestStep ==
  ASSUME NEW S, NEW s \in Seq(S), NEW k \in 0..Len(s), SubSeq(s, k + 1, Len(s)) # <<>>
  PROVE  /\ k + 1 \in 1..Len(s) /\ s[k + 1] \in S
         /\ Head(SubSeq(s, k + 1, Len(s))) = s[k + 1]
         /\ Tail(SubSeq(s, k + 1, Len(s))) = SubSeq(s, k + 2, Len(s))
<1>1. PICK n \in Nat : n = Len(s)
  OBVIOUS
<1>2. PICK r : r = SubSeq(s, k + 1, n)
  OBVIOUS
<1>3. r \in Seq(S) /\ Len(r) = n - k /\ \A i \in 1..(n - k) : r[i] = s[k + i]
  BY <1>1, <1>2
<1>4. k < n
  BY <1>1, <1>2, <1>3
<1>5. k + 1 \in 1..n /\ s[k + 1] \in S
  BY <1>1, <1>4
<1>6. Head(r) = s[k + 1]
  BY <1>3, <1>4
<1>7. Tail(r) = SubSeq(s, k + 2, n)
  <2>1. PICK t, u : t = Tail(r) /\ u = SubSeq(s, k + 2, n)
    OBVIOUS
  <2>2. t \in Seq(S) /\ Len(t) = n - k - 1 /\ \A i \in 1..(n - k - 1) : t[i] = r[i + 1]
    BY <1>3, <1>4, <2>1
  <2>3. u \in Seq(S) /\ Len(u) = n - k - 1 /\ \A i \in 1..(n - k - 1) : u[i] = s[k + 1 + i]
    BY <1>1, <1>4, <2>1
  <2>4. \A i \in 1..(n - k - 1) : t[i] = u[i]
    <3> TAKE i \in 1..(n - k - 1)
    <3>1. i + 1 \in 1..(n - k) /\ k + (i + 1) = k + 1 + i
      BY <1>4
    <3> QED BY <1>3, <2>2, <2>3, <3>1
  <2>5. t = u
    BY <2>2, <2>3, <2>4
  <2> QED BY <2>1, <2>5
<1> QED BY <1>1, <1>2, <1>5, <1>6, <1>7

LEMMA RestEnd ==
  ASSUME NEW S, NEW s \in Seq(S), NEW k \in 0..Len(s), SubSeq(s, k + 1, Len(s)) = <<>>
  PROVE  k = Len(s)
<1>1. PICK n \in Nat : n = Len(s)
  OBVIOUS
<1>2. PICK r : r = SubSeq(s, k + 1, n)
  OBVIOUS
<1>3. Len(r) = n - k
  BY <1>1, <1>2
<1>4. Len(r) = 0
  BY <1>1, <1>2
<1> QED BY <1>1, <1>3, <1>4

LEMMA RestAll ==
  ASSUME NEW S, NEW s \in Seq(S)
  PROVE  SubSeq(s, 1, Len(s)) = s
OBVIOUS

\* What is needed of the layer that is being read.
LEMMA CurrentIs ==
  ASSUME \A ls \in Inputs : \A i \in 1..Len(ls) : WellFormed(ls[i].source),
         TypeInv, pc \in {"layer", "ingest"}
  PROVE  /\ WellFormed(Current.source) /\ Tar(Current.source) \in Seq(Item)
         /\ Tree(Current.source) = Extracted(Tar(Current.source))[Len(Tar(Current.source))]
         /\ Current.source.kind = "dir" =>
              \A k \in 1..Len(Tar(Current.source)) : Tar(Current.source)[k].type # "link"
<1>1. /\ layers \in Inputs /\ Len(layers) \in Nat /\ Len(data) \in Nat /\ Len(data) < Len(layers)
  BY LayersTyped, AppendSequence DEF TypeInv, BuiltInv
<1>2. PICK ls \in Inputs : ls = layers
  BY <1>1
<1>3. PICK i \in 1..Len(ls) : Current = ls[i]
  BY <1>1, <1>2 DEF Current
<1>4. WellFormed(ls[i].source)
  OBVIOUS
<1>5. /\ Tar(ls[i].source) \in Seq(Item)
      /\ Tree(ls[i].source) = Extracted(Tar(ls[i].source))[Len(Tar(ls[i].source))]
  BY <1>4, TreeIs
<1>6. ls[i].source.kind = "dir" => \A k \in 1..Len(Tar(ls[i].source)) : Tar(ls[i].source)[k].type # "link"
  BY InitramfsAssumption DEF Tar
<1> QED BY <1>3, <1>4, <1>5, <1>6

LEMMA BuildsInvNext ==
  ASSUME \A ls \in Inputs : \A i \in 1..Len(ls) : WellFormed(ls[i].source)
  PROVE  TypeInv /\ BuildsInv /\ [Next]_vars => BuildsInv'
<1> SUFFICES ASSUME TypeInv, BuildsInv, [Next]_vars PROVE BuildsInv'
  OBVIOUS
<1>1. CASE build_layer
  <2>1. /\ pc = "layer" /\ pc' = "ingest" /\ UNCHANGED <<layers, data>>
        /\ entries' = <<>> /\ file_data' = <<>> /\ todo' = Tar(Current.source)
    BY <1>1 DEF build_layer
  <2>2. Current' = Current
    BY <2>1 DEF Current
  <2>3. PICK source : source = Current.source
    OBVIOUS
  <2>4. PICK s \in Seq(Item) : s = Tar(source)
    BY <2>1, <2>3, CurrentIs
  <2>5. Len(s) \in Nat /\ Extracted(s)[0] = <<>>
    BY ExtractedIs
  <2>6. SubSeq(s, 0 + 1, Len(s)) = s
    <3>1. SubSeq(s, 1, Len(s)) = s
      BY RestAll
    <3>2. 0 + 1 = 1
      OBVIOUS
    <3> QED BY <3>1, <3>2
  <2>7. Following(s, 0, Extracted(s)[0], file_data')
    BY DEF Following
  <2>8. Ingested(source, 0, todo', entries', file_data')
    BY <2>1, <2>3, <2>4, <2>5, <2>6, <2>7, EmptyNames DEF Ingested
  <2>9. 0 \in 0..Len(s)
    BY <2>5
  <2>10. \E k \in 0..Len(Tar(Current'.source)) : Ingested(Current'.source, k, todo', entries', file_data')
    BY <2>2, <2>3, <2>4, <2>8, <2>9
  <2> QED BY <2>1, <2>10 DEF BuildsInv
<1>2. CASE add_dir_entry \/ add_tar_entry
  <2>1. /\ pc = "ingest" /\ todo # <<>> /\ todo' = Tail(todo)
        /\ UNCHANGED <<layers, pc, data>>
    BY <1>2 DEF add_dir_entry, add_tar_entry
  <2>2. Current' = Current
    BY <2>1 DEF Current
  <2>3. PICK source : source = Current.source
    OBVIOUS
  <2>4. PICK s \in Seq(Item) : s = Tar(source)
    BY <2>1, <2>3, CurrentIs
  <2>5. PICK k \in 0..Len(s) : Ingested(source, k, todo, entries, file_data)
    BY <2>1, <2>3, <2>4 DEF BuildsInv
  <2>6. Len(s) \in Nat /\ k \in Nat
    OBVIOUS
  <2>7. PICK fs \in Trees : fs = Extracted(s)[k]
    BY ExtractedIs
  <2>8. /\ todo = SubSeq(s, k + 1, Len(s)) /\ entries = AsNames(fs)
        /\ source.kind # "dir" => Following(s, k, fs, file_data)
    BY <2>4, <2>5, <2>7 DEF Ingested
  <2>9. PICK j \in 1..Len(s) : j = k + 1
    BY <2>1, <2>6, <2>8, RestStep
  <2>10. s[j] \in Item /\ Head(todo) = s[j] /\ Tail(todo) = SubSeq(s, j + 1, Len(s))
    <3>1. k + 2 = j + 1
      BY <2>6, <2>9
    <3> QED BY <2>1, <2>8, <2>9, <3>1, RestStep
  <2>11. j \in Nat \ {0} /\ j - 1 = k
    BY <2>6, <2>9
  <2>12. Extracted(s)[j] = Extract(fs, s[j])
    BY <2>7, <2>11, ExtractedIs
  <2>13. Plain(s[j].name) /\ (source.kind # "dir" => GoodItem(s, j))
    BY <2>1, <2>3, <2>4, CurrentIs, GoodItems
  <2>14. /\ entries' = AsNames(Extract(fs, s[j]))
         /\ source.kind # "dir" => Following(s, j, Extract(fs, s[j]), file_data')
    <3>1. CASE add_dir_entry
      <4>1. source.kind = "dir" /\ s[j].type # "link"
        BY <2>1, <2>3, <2>4, <3>1, CurrentIs DEF add_dir_entry
      <4>2. entries' = IF normalize(s[j].name) = None THEN entries
                       ELSE Put(entries, normalize(s[j].name), dir_entry(s[j]))
        BY <2>10, <3>1 DEF add_dir_entry
      <4> QED BY <2>8, <2>10, <2>13, <4>1, <4>2, DirStep
    <3>2. CASE add_tar_entry
      <4>1. source.kind # "dir"
        BY <2>3, <3>2 DEF add_tar_entry
      <4>2. /\ entries' = TarEntries(entries, file_data, s[j])
            /\ file_data' = TarSeen(file_data, s[j])
        BY <2>10, <3>2 DEF add_tar_entry, TarEntries, TarSeen
      <4>3. Following(s, j - 1, fs, file_data)
        BY <2>8, <2>11, <4>1
      <4>4. PICK seen : seen = file_data
        OBVIOUS
      <4>5. /\ TarEntries(AsNames(fs), seen, s[j]) = AsNames(Extract(fs, s[j]))
            /\ Following(s, j, Extract(fs, s[j]), TarSeen(seen, s[j]))
        BY <2>10, <2>11, <2>13, <4>1, <4>3, <4>4, TarStep
      <4> QED BY <2>8, <4>2, <4>4, <4>5
    <3> QED BY <1>2, <3>1, <3>2
  <2>15. Ingested(source, j, todo', entries', file_data')
    BY <2>1, <2>4, <2>10, <2>12, <2>14 DEF Ingested
  <2>16. \E i \in 0..Len(Tar(Current'.source)) : Ingested(Current'.source, i, todo', entries', file_data')
    <3>1. j \in 0..Len(s)
      BY <2>6
    <3> QED BY <2>2, <2>3, <2>4, <2>15, <3>1
  <2> QED BY <2>1, <2>16 DEF BuildsInv
<1>3. CASE build_err
  BY <1>3 DEF build_err, BuildsInv
<1>4. CASE finish
  <2>1. /\ pc = "ingest" /\ todo = <<>> /\ data' = Append(data, Archive(entries))
        /\ pc' \in {"done", "layer"} /\ layers' = layers
    BY <1>4 DEF finish
  <2>2. PICK source : source = Current.source
    OBVIOUS
  <2>3. PICK s \in Seq(Item) : s = Tar(source) /\ Tree(source) = Extracted(s)[Len(s)]
    BY <2>1, <2>2, CurrentIs
  <2>4. PICK k \in 0..Len(s) : Ingested(source, k, todo, entries, file_data)
    BY <2>1, <2>2, <2>3 DEF BuildsInv
  <2>5. SubSeq(s, k + 1, Len(s)) = <<>>
    BY <2>1, <2>3, <2>4 DEF Ingested
  <2>6. k = Len(s)
    BY <2>5, RestEnd
  <2>7. entries = AsNames(Tree(source))
    BY <2>3, <2>4, <2>6 DEF Ingested
  <2>8. PICK d, e : d = data /\ e = Archive(entries)
    OBVIOUS
  <2>9. IsSequence(d)
    BY <2>8 DEF TypeInv, BuiltInv
  <2>10. /\ Len(d) \in Nat /\ Len(Append(d, e)) = Len(d) + 1
         /\ \A i \in 1..Len(d) : Append(d, e)[i] = d[i]
         /\ Append(d, e)[Len(d) + 1] = e
    BY <2>9, AppendSequence
  <2>11. layers[Len(d) + 1].source = source
    BY <2>2, <2>8 DEF Current
  <2>12. ASSUME NEW i \in 1..Len(Append(d, e))
         PROVE  Append(d, e)[i] = Archive(AsNames(Tree(layers[i].source)))
    <3>1. CASE i = Len(d) + 1
      BY <2>7, <2>8, <2>10, <2>11, <3>1
    <3>2. CASE i # Len(d) + 1
      <4>1. i \in 1..Len(d)
        BY <2>10, <3>2
      <4> QED BY <2>8, <2>10, <4>1 DEF BuildsInv
    <3> QED BY <3>1, <3>2
  <2> QED BY <2>1, <2>8, <2>12 DEF BuildsInv
<1>5. CASE UNCHANGED vars
  BY <1>5 DEF vars, BuildsInv, Current
<1> QED BY <1>1, <1>2, <1>3, <1>4, <1>5 DEF Next

\* The archive of a layer is a function of the tree that the layer describes:
\* the order of a tar stream, its spelling of names, repeated entries and which
\* name of a file is the hard link make no difference, for any layers whose
\* hard links follow their files.  (CpioBuilder, add_dir, add_tar, normalize)
THEOREM SameTreeSameArchive ==
  ASSUME \A ls \in Inputs : \A i \in 1..Len(ls) : WellFormed(ls[i].source)
  PROVE  Spec => []Reproducible
<1>1. Init => BuildsInv
  BY DEF Init, BuildsInv
<1>2. TypeInv /\ BuildsInv => Reproducible
  <2> SUFFICES ASSUME TypeInv, BuildsInv PROVE Reproducible
    OBVIOUS
  <2>1. DOMAIN data = 1..Len(data)
    <3>1. PICK S : data \in Seq(S)
      BY DEF TypeInv, BuiltInv, IsSequence
    <3> QED BY <3>1
  <2> SUFFICES ASSUME NEW i \in DOMAIN data, NEW tree, tree = Tree(layers[i].source)
               PROVE  data[i] = Archive([n \in {[lead |-> <<>>, path |-> p] : p \in DOMAIN tree} |->
                                           tree[n.path]])
    BY DEF Reproducible
  <2>2. AsNames(tree) = [n \in {[lead |-> <<>>, path |-> p] : p \in DOMAIN tree} |-> tree[n.path]]
    BY DEF AsNames, AsName
  <2>3. data[i] = Archive(AsNames(tree))
    BY <2>1 DEF BuildsInv
  <2> QED BY <2>2, <2>3
<1> QED BY <1>1, <1>2, BuildsInvNext, TypeInvInit, TypeInvNext, PTL DEF Spec

-----------------------------------------------------------------------------
(* The order of an archive.                                                *)

\* The elements of a finite set that come before one, by a rank.
Below(N, r, n) == {m \in N : r[m] < r[n]}

\* An injective rank gives each element of a finite set a position of its own,
\* and the positions leave no gap.
LEMMA Positions ==
  ASSUME NEW N, IsFiniteSet(N), NEW r \in [N -> Nat],
         \A m, n \in N : r[m] = r[n] => m = n
  PROVE  /\ Cardinality(N) \in Nat
         /\ \A n \in N : Cardinality(Below(N, r, n)) \in 0..(Cardinality(N) - 1)
         /\ \A m, n \in N : r[m] < r[n] =>
              Cardinality(Below(N, r, m)) < Cardinality(Below(N, r, n))
         /\ \A i \in 1..Cardinality(N) : \E n \in N : Cardinality(Below(N, r, n)) = i - 1
<1>1. PICK c \in Nat : c = Cardinality(N)
  BY FS_CardinalityType
<1>2. ASSUME NEW n \in N
      PROVE  /\ IsFiniteSet(Below(N, r, n)) /\ Cardinality(Below(N, r, n)) \in 0..(c - 1)
  <2>1. PICK B : B = Below(N, r, n)
    OBVIOUS
  <2>2. B \in SUBSET (N \ {n})
    BY <2>1 DEF Below
  <2>3. IsFiniteSet(N \ {n}) /\ Cardinality(N \ {n}) = c - 1
    BY <1>1, FS_RemoveElement
  <2>4. IsFiniteSet(B) /\ Cardinality(B) <= c - 1
    BY <2>2, <2>3, FS_Subset
  <2>5. Cardinality(B) \in Nat
    BY <2>4, FS_CardinalityType
  <2> QED BY <1>1, <2>1, <2>4, <2>5
<1>3. ASSUME NEW m \in N, NEW n \in N, r[m] < r[n]
      PROVE  Cardinality(Below(N, r, m)) < Cardinality(Below(N, r, n))
  <2>1. PICK A, B : A = Below(N, r, m) /\ B = Below(N, r, n)
    OBVIOUS
  <2>2. m \notin A /\ A \cup {m} \in SUBSET B
    BY <1>3, <2>1 DEF Below
  <2>3. /\ IsFiniteSet(A) /\ IsFiniteSet(B)
        /\ Cardinality(A) \in Nat /\ Cardinality(B) \in Nat
    BY <1>2, <2>1
  <2>4. Cardinality(A \cup {m}) = Cardinality(A) + 1
    BY <2>2, <2>3, FS_AddElement
  <2>5. Cardinality(A \cup {m}) <= Cardinality(B)
    BY <2>2, <2>3, FS_Subset
  <2> QED BY <2>1, <2>3, <2>4, <2>5
<1>4. ASSUME NEW i \in 1..c PROVE \E n \in N : Cardinality(Below(N, r, n)) = i - 1
  <2>1. PICK f : f = [n \in N |-> Cardinality(Below(N, r, n))]
    OBVIOUS
  <2>2. PICK T : T = 0..(c - 1)
    OBVIOUS
  <2>3. f \in [N -> T]
    BY <1>2, <2>1, <2>2
  <2>4. ASSUME NEW m \in N, NEW n \in N, f[m] = f[n] PROVE m = n
    <3>1. r[m] \in Nat /\ r[n] \in Nat /\ f[m] \in Nat /\ f[n] \in Nat
      BY <2>2, <2>3
    <3>2. ~ (r[m] < r[n]) /\ ~ (r[n] < r[m])
      BY <1>3, <2>1, <2>4, <3>1
    <3> QED BY <3>1, <3>2
  <2>5. f \in Injection(N, T)
    BY <2>3, <2>4 DEF Injection, IsInjective
  <2>6. IsFiniteSet(T) /\ Cardinality(T) = c
    <3>1. 0 \in Int /\ c - 1 \in Int
      BY <1>1
    <3>2. IsFiniteSet(0..(c - 1)) /\ Cardinality(0..(c - 1)) = IF 0 > c - 1 THEN 0 ELSE (c - 1) - 0 + 1
      BY <3>1, FS_Interval
    <3> QED BY <1>1, <2>2, <3>2
  <2>7. f \in Surjection(N, T)
    BY <1>1, <2>5, <2>6, FS_Injection
  <2>8. i - 1 \in T
    BY <1>1, <2>2
  <2>9. PICK n \in N : f[n] = i - 1
    BY <2>7, <2>8 DEF Surjection
  <2> QED BY <2>1, <2>9
<1> QED BY <1>1, <1>2, <1>3, <1>4

\* The names without a lead.
Plains == {AsName(p) : p \in Path \cup {Cut}}

\* The names of an archive are each one's turn, in bytewise order.
LEMMA SortedIs ==
  ASSUME NEW N \in SUBSET Plains, IsFiniteSet(N)
  PROVE  /\ Cardinality(N) \in Nat /\ DOMAIN Sorted(N) = 1..Cardinality(N)
         /\ \A i \in 1..Cardinality(N) : Sorted(N)[i] \in N
         /\ \A n \in N : \E i \in 1..Cardinality(N) : Sorted(N)[i] = n
         /\ \A i, j \in 1..Cardinality(N) :
              i < j => Rank[Sorted(N)[i].path] < Rank[Sorted(N)[j].path]
<1>1. PICK r : r = [n \in N |-> Rank[n.path]]
  OBVIOUS
<1>2. ASSUME NEW n \in N
      PROVE  n.lead = <<>> /\ n.path \in Path \cup {Cut} /\ n = AsName(n.path) /\ r[n] = Rank[n.path]
  BY <1>1 DEF Plains, AsName
<1>3. /\ r \in [N -> Nat]
      /\ \A m, n \in N : r[m] = r[n] => m = n
  <2>1. Rank \in [Path \cup {Cut} -> Nat] /\ IsInjective(Rank)
    BY InitramfsAssumption
  <2>2. \A p, q \in Path \cup {Cut} : Rank[p] = Rank[q] => p = q
    BY <2>1 DEF IsInjective
  <2>3. r \in [N -> Nat]
    BY <1>1, <1>2, <2>1
  <2>4. ASSUME NEW m \in N, NEW n \in N, r[m] = r[n] PROVE m = n
    <3>1. m.path = n.path
      BY <1>2, <2>2, <2>4
    <3> QED BY <1>2, <3>1
  <2> QED BY <2>3, <2>4
<1>4. ASSUME NEW n \in N PROVE {m \in N : Before(m, n)} = Below(N, r, n)
  <2>1. ASSUME NEW m \in N PROVE Before(m, n) <=> r[m] < r[n]
    BY <1>2 DEF Before
  <2> QED BY <2>1 DEF Below
<1>5. PICK c \in Nat : c = Cardinality(N)
  BY <1>3, Positions
<1>6. PICK pos : pos = [n \in N |-> Cardinality(Below(N, r, n))]
  OBVIOUS
<1>7. /\ \A n \in N : pos[n] \in 0..(c - 1)
      /\ \A m, n \in N : r[m] < r[n] => pos[m] < pos[n]
      /\ \A i \in 1..c : \E n \in N : pos[n] = i - 1
  BY <1>3, <1>5, <1>6, Positions
<1>8. \A n \in N : Cardinality({m \in N : Before(m, n)}) = pos[n]
  BY <1>4, <1>6
<1>9. PICK s : s = Sorted(N)
  OBVIOUS
<1>10. ASSUME NEW i \in 1..c PROVE s[i] \in N /\ pos[s[i]] = i - 1
  <2>1. \E n \in N : Cardinality({m \in N : Before(m, n)}) = i - 1
    BY <1>7, <1>8
  <2>2. s[i] = CHOOSE n \in N : Cardinality({m \in N : Before(m, n)}) = i - 1
    BY <1>5, <1>9 DEF Sorted
  <2>3. s[i] \in N /\ Cardinality({m \in N : Before(m, s[i])}) = i - 1
    BY <2>1, <2>2
  <2> QED BY <1>8, <2>3
<1>11. \A m, n \in N : pos[m] = pos[n] => m = n
  <2> SUFFICES ASSUME NEW m \in N, NEW n \in N, pos[m] = pos[n] PROVE m = n
    OBVIOUS
  <2>1. r[m] \in Nat /\ r[n] \in Nat /\ pos[m] \in Nat /\ pos[n] \in Nat
    BY <1>3, <1>7
  <2>2. ~ (r[m] < r[n]) /\ ~ (r[n] < r[m])
    BY <1>7, <2>1
  <2> QED BY <1>3, <2>1, <2>2
<1>12. ASSUME NEW n \in N PROVE \E i \in 1..c : s[i] = n
  <2>1. pos[n] \in 0..(c - 1)
    BY <1>7
  <2>2. PICK i \in 1..c : i - 1 = pos[n]
    <3>1. pos[n] + 1 \in 1..c /\ (pos[n] + 1) - 1 = pos[n]
      BY <2>1
    <3> QED BY <3>1
  <2>3. s[i] \in N /\ pos[s[i]] = i - 1
    BY <1>10
  <2> QED BY <1>11, <2>2, <2>3
<1>13. ASSUME NEW i \in 1..c, NEW j \in 1..c, i < j PROVE r[s[i]] < r[s[j]]
  <2>1. s[i] \in N /\ s[j] \in N /\ pos[s[i]] = i - 1 /\ pos[s[j]] = j - 1
    BY <1>10
  <2>2. r[s[i]] \in Nat /\ r[s[j]] \in Nat
    BY <1>3, <2>1
  <2>3. r[s[i]] # r[s[j]]
    BY <1>3, <1>13, <2>1
  <2>4. ~ (r[s[j]] < r[s[i]])
    BY <1>7, <1>13, <2>1
  <2> QED BY <2>2, <2>3, <2>4
<1>14. \A i, j \in 1..c : i < j => Rank[s[i].path] < Rank[s[j].path]
  BY <1>2, <1>10, <1>13
<1>15. DOMAIN s = 1..c
  BY <1>5, <1>9 DEF Sorted
<1> QED BY <1>5, <1>9, <1>10, <1>12, <1>14, <1>15

-----------------------------------------------------------------------------
(* What the kernel makes of the archive of a tree.                         *)

LEMMA FrontIsPrefix ==
  ASSUME NEW S, NEW p \in Seq(S), p # <<>>
  PROVE  IsStrictPrefix(Front(p), p)
<1>1. PICK n \in Nat : n = Len(p) - 1 /\ Len(p) = n + 1
  OBVIOUS
<1>2. PICK f : f = Front(p)
  OBVIOUS
<1>3. f \in Seq(S) /\ Len(f) = n /\ f = SubSeq(p, 1, n)
  BY <1>1, <1>2 DEF Front
<1>4. SubSeq(f, 1, n) = f
  BY <1>3
<1>5. f # p
  BY <1>1, <1>3
<1> QED BY <1>1, <1>2, <1>3, <1>4, <1>5 DEF IsStrictPrefix, IsPrefix

\* The file system with some of a tree's entries in their places.
Over(fs, tree, D) == [p \in DOMAIN fs \cup D |-> IF p \in D THEN tree[p] ELSE fs[p]]

Named == Path \cup {Cut}

\* The entries that a tree has before a path.
Earlier(tree, p) == {q \in DOMAIN tree : Rank[q] < Rank[p]}

LEMMA RankTyped ==
  /\ \A p \in Named : Rank[p] \in Nat
  /\ \A p, q \in Named : IsStrictPrefix(p, q) => Rank[p] < Rank[q]
  /\ \A p \in Named : p \in Seq(STRING) /\ p # Root
BY InitramfsAssumption DEF Named

\* Under its hypotheses nothing is in the way of an entry when its turn comes.
LEMMA TurnIsFree ==
  ASSUME NEW F \in Trees, NEW T \in Trees, DOMAIN T \subseteq Named, Unpackable(F, T),
         NEW p \in DOMAIN T, NEW O, O = Over(F, T, Earlier(T, p))
  PROVE  /\ DOMAIN O = DOMAIN F \cup Earlier(T, p) /\ p \notin Earlier(T, p)
         /\ p \in DOMAIN F => O[p] = F[p]
         /\ T[p].type # "dir" => ~ HasChildren(O, p)
         /\ IsDir(O, Front(p))
<1>1. PICK D : D = Earlier(T, p)
  OBVIOUS
<1>2. /\ DOMAIN O = DOMAIN F \cup D
      /\ \A q \in D : O[q] = T[q]
      /\ \A q \in DOMAIN F : q \notin D => O[q] = F[q]
  BY <1>1 DEF Over
<1>3. D \subseteq DOMAIN T /\ \A q \in D : Rank[q] < Rank[p]
  BY <1>1 DEF Earlier
<1>4. p \in Named /\ Rank[p] \in Nat
  BY RankTyped
<1>5. p \notin D
  BY <1>3, <1>4
<1>6. ASSUME T[p].type # "dir" PROVE ~ HasChildren(O, p)
  <2>1. ~ HasChildren(F, p)
    BY <1>6 DEF Unpackable
  <2>2. ASSUME NEW q \in D, IsStrictPrefix(p, q) PROVE FALSE
    <3>1. q \in Named /\ Rank[q] \in Nat /\ Rank[q] < Rank[p]
      BY <1>3, RankTyped
    <3>2. Rank[p] < Rank[q]
      BY <1>4, <2>2, <3>1, RankTyped
    <3> QED BY <1>4, <3>1, <3>2
  <2> QED BY <1>2, <2>1, <2>2 DEF HasChildren
<1>7. IsDir(O, Front(p))
  <2>1. PICK f : f = Front(p)
    OBVIOUS
  <2>2. PICK G : G = OverlayTree(F, T)
    OBVIOUS
  <2>3. IsDir(G, f)
    BY <2>1, <2>2 DEF Unpackable
  <2>4. /\ DOMAIN G \subseteq DOMAIN T \cup DOMAIN F
        /\ \A q \in DOMAIN G : G[q] = IF q \in DOMAIN T THEN T[q] ELSE F[q]
    BY <2>2 DEF OverlayTree
  <2>5. CASE f = Root
    BY <2>1, <2>5 DEF IsDir
  <2>6. CASE f # Root /\ f \in DOMAIN T
    <3>1. G[f] = T[f] /\ G[f].type = "dir"
      BY <2>3, <2>4, <2>6 DEF IsDir
    <3>2. IsStrictPrefix(f, p)
      <4>1. p \in Seq(STRING) /\ p # <<>>
        BY <1>4, RankTyped DEF Root
      <4> QED BY <2>1, <4>1, FrontIsPrefix
    <3>3. f \in D
      <4>1. f \in Named
        BY <2>6
      <4>2. Rank[f] < Rank[p]
        BY <1>4, <3>2, <4>1, RankTyped
      <4> QED BY <1>1, <2>6, <4>2 DEF Earlier
    <3>4. f \in DOMAIN O /\ O[f] = T[f]
      BY <1>2, <3>3
    <3> QED BY <2>1, <3>1, <3>4 DEF IsDir
  <2>7. CASE f # Root /\ f \notin DOMAIN T
    <3>1. f \in DOMAIN F /\ G[f] = F[f] /\ G[f].type = "dir"
      BY <2>3, <2>4, <2>7 DEF IsDir
    <3>2. f \in DOMAIN O /\ O[f] = F[f]
      BY <1>2, <1>3, <2>7, <3>1
    <3> QED BY <2>1, <3>1, <3>2 DEF IsDir
  <2> QED BY <2>5, <2>6, <2>7
<1> QED BY <1>1, <1>2, <1>5, <1>6, <1>7

\* Putting an entry adds it, whether or not what was there is removed before.
LEMMA PutOver ==
  ASSUME NEW F \in Trees, NEW T \in Trees, NEW D \in SUBSET DOMAIN T,
         NEW p \in DOMAIN T, p \notin D
  PROVE  /\ Put(Over(F, T, D), p, T[p]) = Over(F, T, D \cup {p})
         /\ Put(Restrict(Over(F, T, D), DOMAIN Over(F, T, D) \ {p}), p, T[p])
              = Over(F, T, D \cup {p})
<1>1. PICK O, G : O = Over(F, T, D) /\ G = Over(F, T, D \cup {p})
  OBVIOUS
<1>2. T[p] \in CpioEntry
  <2>1. PICK P \in SUBSET Paths : T \in [P -> CpioEntry]
    BY TreesIs
  <2> QED BY <2>1
<1>3. PICK e : e = T[p] /\ e # None
  BY <1>2, InitramfsAssumption
<1>4. /\ G = [q \in DOMAIN G |-> G[q]]
      /\ DOMAIN G = DOMAIN F \cup D \cup {p} /\ G[p] = e
      /\ \A q \in DOMAIN F \cup D : q # p => G[q] = O[q]
  <2>1. G = [q \in DOMAIN F \cup (D \cup {p}) |-> IF q \in D \cup {p} THEN T[q] ELSE F[q]]
    BY <1>1 DEF Over
  <2>2. O = [q \in DOMAIN F \cup D |-> IF q \in D THEN T[q] ELSE F[q]]
    BY <1>1 DEF Over
  <2> QED BY <1>3, <2>1, <2>2
<1>5. DOMAIN O = DOMAIN F \cup D
  BY <1>1 DEF Over
<1>6. Put(O, p, e) = G
  <2>1. Put(O, p, e) = [q \in DOMAIN O \cup {p} |-> IF q = p THEN e ELSE O[q]]
    BY <1>3 DEF Put
  <2> QED BY <1>4, <1>5, <2>1
<1>7. PICK c : c = Restrict(O, DOMAIN O \ {p})
  OBVIOUS
<1>8. DOMAIN c = DOMAIN O \ {p} /\ \A q \in DOMAIN c : c[q] = O[q]
  BY <1>7 DEF Restrict
<1>9. Put(c, p, e) = G
  <2>1. Put(c, p, e) = [q \in DOMAIN c \cup {p} |-> IF q = p THEN e ELSE c[q]]
    BY <1>3 DEF Put
  <2> QED BY <1>4, <1>5, <1>8, <2>1
<1> QED BY <1>1, <1>3, <1>6, <1>7, <1>9

LEMMA UnpackStep ==
  ASSUME NEW F \in Trees, NEW T \in Trees, DOMAIN T \subseteq Named, Unpackable(F, T),
         NEW p \in DOMAIN T, NEW a, a.name.path = p, a.entry = T[p]
  PROVE  UnpackEntry(Over(F, T, Earlier(T, p)), a) = Over(F, T, Earlier(T, p) \cup {p})
<1>1. PICK D, O, G, e : /\ D = Earlier(T, p) /\ O = Over(F, T, D)
                        /\ G = Over(F, T, D \cup {p}) /\ e = T[p]
  OBVIOUS
<1>2. /\ DOMAIN O = DOMAIN F \cup D /\ p \notin D
      /\ p \in DOMAIN F => O[p] = F[p]
      /\ e.type # "dir" => ~ HasChildren(O, p)
      /\ IsDir(O, Front(p))
  BY <1>1, TurnIsFree
<1>3. PICK r : r = Restrict(O, DOMAIN O \ {p})
  OBVIOUS
<1>4. Put(O, p, e) = G /\ Put(r, p, e) = G
  <2>1. D \in SUBSET DOMAIN T
    BY <1>1 DEF Earlier
  <2> QED BY <1>1, <1>2, <1>3, <2>1, PutOver
<1>5. p \notin DOMAIN r
  BY <1>3 DEF Restrict
<1>6. PICK c : c = Cleaned(O, p, e)
  OBVIOUS
<1>7. UnpackEntry(O, a) = IF p \in DOMAIN c => c[p].type = e.type /\ e.type \in {"reg", "dir"}
                          THEN Put(c, p, e) ELSE c
  BY <1>1, <1>2, <1>6 DEF UnpackEntry
<1>8. CASE p \notin DOMAIN F
  <2>1. p \notin DOMAIN O
    BY <1>2, <1>8
  <2>2. c = O
    BY <1>6, <2>1 DEF Cleaned
  <2> QED BY <1>1, <1>4, <1>7, <2>1, <2>2
<1>9. CASE p \in DOMAIN F /\ (F[p].type # e.type \/ e.type = "symlink")
  <2>1. p \in DOMAIN O /\ O[p] = F[p]
    BY <1>2, <1>9
  <2>2. ~ (O[p].type = "dir" /\ HasChildren(O, p))
    BY <1>2, <1>9, <2>1
  <2>3. c = r
    BY <1>3, <1>6, <1>9, <2>1, <2>2 DEF Cleaned
  <2> QED BY <1>1, <1>4, <1>5, <1>7, <2>3
<1>10. CASE p \in DOMAIN F /\ F[p].type = e.type /\ e.type # "symlink"
  <2>1. p \in DOMAIN O /\ O[p] = F[p]
    BY <1>2, <1>10
  <2>2. c = O
    BY <1>6, <1>10, <2>1 DEF Cleaned
  <2>3. CASE e.type \in {"reg", "dir"}
    BY <1>1, <1>4, <1>7, <1>10, <2>1, <2>2, <2>3
  <2>4. CASE e.type \notin {"reg", "dir"}
    <3>1. e \in CpioEntry
      <4>1. PICK P \in SUBSET Paths : T \in [P -> CpioEntry]
        BY TreesIs
      <4> QED BY <1>1, <4>1
    <3>2. e.type \in {"chr", "fifo"}
      BY <1>10, <2>4, <3>1 DEF CpioEntry, FileType
    <3>3. F[p] = e
      BY <1>1, <1>10, <3>2 DEF Unpackable
    <3>4. UnpackEntry(O, a) = O
      BY <1>7, <2>1, <2>2, <2>4
    <3>5. O = [q \in DOMAIN F \cup D |-> IF q \in D THEN T[q] ELSE F[q]]
      BY <1>1 DEF Over
    <3>6. G = [q \in DOMAIN F \cup (D \cup {p}) |-> IF q \in D \cup {p} THEN T[q] ELSE F[q]]
      BY <1>1 DEF Over
    <3>7. O = G
      BY <1>1, <1>10, <3>3, <3>5, <3>6
    <3> QED BY <1>1, <3>4, <3>7
  <2> QED BY <2>3, <2>4
<1> QED BY <1>8, <1>9, <1>10

\* A sequence that has the entries of a tree, in bytewise order of their paths.
Lists(A, n, T) ==
  /\ n \in Nat /\ DOMAIN A = 1..n /\ Len(A) = n
  /\ \A i \in 1..n :
       /\ A[i].name.path \in DOMAIN T /\ A[i].entry = T[A[i].name.path]
       /\ A[i].filesize = Filesize(A[i].entry)
  /\ \A p \in DOMAIN T : \E i \in 1..n : A[i].name.path = p
  /\ \A i, j \in 1..n : i < j => Rank[A[i].name.path] < Rank[A[j].name.path]

LEMMA ArchiveLists ==
  ASSUME NEW T \in Trees, DOMAIN T \subseteq Named, IsFiniteSet(DOMAIN T)
  PROVE  \E n : Lists(Archive(AsNames(T)), n, T)
<1>1. PICK P, es, N : P = DOMAIN T /\ es = AsNames(T) /\ N = DOMAIN es
  OBVIOUS
<1>2. N = {AsName(p) : p \in P}
  BY <1>1 DEF AsNames
<1>3. N \in SUBSET Plains /\ IsFiniteSet(N)
  <2>1. PICK f : f = [p \in P |-> AsName(p)]
    OBVIOUS
  <2>2. f \in Surjection(P, N)
    BY <1>2, <2>1 DEF Surjection
  <2>3. IsFiniteSet(N)
    BY <1>1, <2>2, FS_Surjection
  <2>4. N \in SUBSET Plains
    BY <1>1, <1>2 DEF Plains, Named
  <2> QED BY <2>3, <2>4
<1>4. PICK s, n : s = Sorted(N) /\ n = Cardinality(N)
  OBVIOUS
<1>5. /\ n \in Nat /\ DOMAIN s = 1..n
      /\ \A i \in 1..n : s[i] \in N
      /\ \A m \in N : \E i \in 1..n : s[i] = m
      /\ \A i, j \in 1..n : i < j => Rank[s[i].path] < Rank[s[j].path]
  BY <1>3, <1>4, SortedIs
<1>6. PICK A : A = [i \in 1..n |-> [ino |-> i, name |-> s[i], entry |-> es[s[i]],
                                    filesize |-> Filesize(es[s[i]])]]
  OBVIOUS
<1>7. Archive(es) = A
  BY <1>1, <1>4, <1>5, <1>6 DEF Archive
<1>8. DOMAIN A = 1..n /\ Len(A) = n
  <2>1. PICK S : S = {A[i] : i \in 1..n}
    OBVIOUS
  <2>2. A \in [1..n -> S]
    BY <1>6, <2>1
  <2>3. A \in Seq(S)
    BY <1>5, <2>2
  <2>4. DOMAIN A = 1..Len(A) /\ Len(A) \in Nat
    BY <2>3
  <2> QED BY <1>5, <1>6, <2>4
<1>9. ASSUME NEW m \in N PROVE m.path \in P /\ es[m] = T[m.path]
  <2>1. PICK p \in P : m = AsName(p)
    BY <1>2
  <2>2. m.path = p
    BY <2>1 DEF AsName
  <2> QED BY <1>1, <2>1, <2>2, AsNamesIs
<1>10. ASSUME NEW i \in 1..n
       PROVE /\ A[i].name = s[i] /\ A[i].name.path \in P
             /\ A[i].entry = T[A[i].name.path] /\ A[i].filesize = Filesize(A[i].entry)
  BY <1>5, <1>6, <1>9
<1>11. ASSUME NEW p \in P PROVE \E i \in 1..n : A[i].name.path = p
  <2>1. AsName(p) \in N /\ AsName(p).path = p
    BY <1>2 DEF AsName
  <2> QED BY <1>5, <1>10, <2>1
<1>12. \A i, j \in 1..n : i < j => Rank[A[i].name.path] < Rank[A[j].name.path]
  BY <1>5, <1>10
<1>13. Lists(A, n, T)
  BY <1>1, <1>5, <1>8, <1>10, <1>11, <1>12 DEF Lists
<1> QED BY <1>1, <1>7, <1>13

\* The kernel finds every entry when the sizes fit.
LEMMA FindsAll ==
  ASSUME NEW F, NEW T, NEW A, NEW n, Lists(A, n, T), Unpackable(F, T)
  PROVE  Found(A) = A
<1>1. ASSUME NEW k \in DOMAIN A, A[k].entry.type = "reg"
      PROVE  A[k].filesize = A[k].entry.data.size
  <2>1. PICK p \in DOMAIN T : A[k].entry = T[p] /\ A[k].filesize = Filesize(T[p])
    BY DEF Lists
  <2>2. PICK z : z = T[p].data.size /\ z \in 0..(Word - 1)
    BY <1>1, <2>1 DEF Unpackable
  <2>3. z % Word = z
    <3>1. PICK w \in Nat \ {0} : w = Word
      BY InitramfsAssumption
    <3>2. z \in Nat /\ z < w
      BY <2>2, <3>1
    <3> QED BY <3>1, <3>2
  <2> QED BY <1>1, <2>1, <2>2, <2>3 DEF Filesize
<1>2. {k \in DOMAIN A : /\ A[k].entry.type = "reg"
                        /\ A[k].filesize # A[k].entry.data.size} = {}
  BY <1>1
<1> QED BY <1>2 DEF Found

\* The paths of the first entries.
FirstPaths(A, k) == {A[i].name.path : i \in 1..k}

LEMMA FirstAreEarlier ==
  ASSUME NEW T, DOMAIN T \subseteq Named, NEW A, NEW n, Lists(A, n, T), NEW k \in 1..n
  PROVE  /\ FirstPaths(A, k - 1) = Earlier(T, A[k].name.path)
         /\ FirstPaths(A, k) = FirstPaths(A, k - 1) \cup {A[k].name.path}
<1>1. PICK x : x = [i \in 1..n |-> A[i].name.path]
  OBVIOUS
<1>2. /\ n \in Nat
      /\ \A i \in 1..n : x[i] \in DOMAIN T /\ Rank[x[i]] \in Nat /\ x[i] = A[i].name.path
      /\ \A p \in DOMAIN T : \E i \in 1..n : x[i] = p
      /\ \A i, j \in 1..n : i < j => Rank[x[i]] < Rank[x[j]]
  BY <1>1, RankTyped DEF Lists
<1>3. 1..k \subseteq 1..n /\ 1..(k - 1) \subseteq 1..n /\ k - 1 \in Nat
  BY <1>2
<1>4. FirstPaths(A, k) = {x[i] : i \in 1..k} /\ FirstPaths(A, k - 1) = {x[i] : i \in 1..(k - 1)}
  BY <1>2, <1>3 DEF FirstPaths
<1>5. ASSUME NEW i \in 1..(k - 1) PROVE x[i] \in Earlier(T, x[k])
  <2>1. i \in 1..n /\ i < k
    BY <1>2, <1>3
  <2> QED BY <1>2, <2>1 DEF Earlier
<1>6. ASSUME NEW p \in Earlier(T, x[k]) PROVE \E i \in 1..(k - 1) : x[i] = p
  <2>1. p \in DOMAIN T /\ Rank[p] < Rank[x[k]]
    BY DEF Earlier
  <2>2. PICK i \in 1..n : x[i] = p
    BY <1>2, <2>1
  <2>3. Rank[x[i]] \in Nat /\ Rank[x[k]] \in Nat /\ Rank[x[i]] < Rank[x[k]]
    BY <1>2, <2>1, <2>2
  <2>4. i # k /\ ~ (k < i)
    BY <1>2, <2>3
  <2>5. i \in 1..(k - 1)
    BY <1>2, <2>4
  <2> QED BY <2>2, <2>5
<1>7. {x[i] : i \in 1..k} = {x[i] : i \in 1..(k - 1)} \cup {x[k]}
  <2>1. \A i \in 1..k : i \in 1..(k - 1) \/ i = k
    BY <1>3
  <2>2. \A i \in 1..(k - 1) : i \in 1..k
    BY <1>3
  <2>3. k \in 1..k
    BY <1>3
  <2> QED BY <2>1, <2>2, <2>3
<1>8. Earlier(T, x[k]) = {x[i] : i \in 1..(k - 1)}
  BY <1>5, <1>6
<1> QED BY <1>2, <1>4, <1>7, <1>8

\* The archive of a tree adds the tree's entries to the file system.
LEMMA UnpackArchiveIs ==
  ASSUME NEW F \in Trees, NEW T \in Trees, DOMAIN T \subseteq Named, Unpackable(F, T),
         NEW A, NEW n, Lists(A, n, T)
  PROVE  UnpackArchive(F, A) = Over(F, T, DOMAIN T)
<1>1. n \in Nat /\ Len(A) = n
  BY DEF Lists
<1> DEFINE Body(h) == [k \in 0..n |-> IF k = 0 THEN F ELSE UnpackEntry(h[k - 1], A[k])]
           un == CHOOSE h : h = Body(h)
           g == [k \in 0..n |-> Over(F, T, FirstPaths(A, k))]
<1>2. UnpackArchive(F, A) = un[n]
  BY <1>1 DEF UnpackArchive
<1>3. Over(F, T, FirstPaths(A, 0)) = F
  <2>1. 1..0 = {}
    OBVIOUS
  <2>2. FirstPaths(A, 0) = {}
    BY <2>1 DEF FirstPaths
  <2>3. PICK P \in SUBSET Paths : F \in [P -> CpioEntry]
    BY TreesIs
  <2>4. F = [q \in DOMAIN F |-> F[q]]
    BY <2>3
  <2>5. Over(F, T, {}) = [q \in DOMAIN F |-> F[q]]
    BY DEF Over
  <2> QED BY <2>2, <2>4, <2>5
<1>4. ASSUME NEW k \in 1..n
      PROVE  UnpackEntry(Over(F, T, FirstPaths(A, k - 1)), A[k]) = Over(F, T, FirstPaths(A, k))
  <2>1. PICK p \in DOMAIN T : A[k].name.path = p /\ A[k].entry = T[p]
    BY DEF Lists
  <2>2. FirstPaths(A, k - 1) = Earlier(T, p) /\ FirstPaths(A, k) = Earlier(T, p) \cup {p}
    BY <2>1, FirstAreEarlier
  <2>3. PICK a : a = A[k]
    OBVIOUS
  <2>4. UnpackEntry(Over(F, T, Earlier(T, p)), a) = Over(F, T, Earlier(T, p) \cup {p})
    BY <2>1, <2>3, UnpackStep
  <2> QED BY <2>2, <2>3, <2>4
<1>5. g = Body(g)
  <2>1. ASSUME NEW k \in 0..n
        PROVE  g[k] = IF k = 0 THEN F ELSE UnpackEntry(g[k - 1], A[k])
    <3>1. CASE k = 0
      BY <1>3, <3>1
    <3>2. CASE k # 0
      <4>1. k \in 1..n /\ k - 1 \in 0..n
        BY <1>1, <3>2
      <4>2. g[k] = Over(F, T, FirstPaths(A, k)) /\ g[k - 1] = Over(F, T, FirstPaths(A, k - 1))
        BY <4>1
      <4> HIDE DEF g
      <4> QED BY <1>4, <3>2, <4>1, <4>2
    <3> QED BY <3>1, <3>2
  <2>2. g = [k \in 0..n |-> g[k]]
    OBVIOUS
  <2> HIDE DEF g
  <2> QED BY <2>1, <2>2, Zenon
<1>6. un = Body(un)
  <2> HIDE DEF Body, g
  <2> QED BY <1>5
<1>7. PICK u : u = un
  OBVIOUS
<1>8. u = Body(u)
  BY <1>6, <1>7
<1> HIDE DEF un
<1>9. \A k \in 0..n : u[k] = IF k = 0 THEN F ELSE UnpackEntry(u[k - 1], A[k])
  BY <1>8, Zenon
<1> HIDE DEF Body, g
<1>10. PICK S : S = {k \in 0..n : u[k] = Over(F, T, FirstPaths(A, k))}
  OBVIOUS
<1>11. 0 \in S
  <2>1. 0 \in 0..n
    BY <1>1
  <2> QED BY <1>3, <1>9, <1>10, <2>1
<1>12. ASSUME NEW k \in 1..n, k - 1 \in S PROVE k \in S
  <2>1. k \in 0..n /\ k # 0
    BY <1>1
  <2>2. u[k] = UnpackEntry(u[k - 1], A[k]) /\ u[k - 1] = Over(F, T, FirstPaths(A, k - 1))
    BY <1>9, <1>10, <1>12, <2>1
  <2> QED BY <1>4, <1>10, <2>1, <2>2
<1>13. u[n] = Over(F, T, FirstPaths(A, n))
  <2>1. n \in 0..n
    BY <1>1
  <2>2. n \in S
    BY <1>1, <1>11, <1>12, <2>1, UpTo
  <2> QED BY <1>10, <2>2
<1>14. FirstPaths(A, n) = DOMAIN T
  <2>1. /\ \A i \in 1..n : A[i].name.path \in DOMAIN T
        /\ \A p \in DOMAIN T : \E i \in 1..n : A[i].name.path = p
    BY DEF Lists
  <2> QED BY <2>1 DEF FirstPaths
<1> QED BY <1>2, <1>7, <1>13, <1>14

\* Nothing is lost below a path of the tree.
LEMMA OverIsOverlay ==
  ASSUME NEW F \in Trees, NEW T \in Trees, Unpackable(F, T)
  PROVE  Over(F, T, DOMAIN T) = OverlayTree(F, T)
<1>1. PICK kept : kept = {p \in DOMAIN F :
                            \A q \in DOMAIN T : IsStrictPrefix(q, p) => T[q].type = "dir"}
  OBVIOUS
<1>2. kept = DOMAIN F
  BY <1>1 DEF Unpackable, HasChildren
<1>3. OverlayTree(F, T) = [p \in DOMAIN T \cup kept |-> IF p \in DOMAIN T THEN T[p] ELSE F[p]]
  BY <1>1 DEF OverlayTree
<1>4. DOMAIN T \cup kept = DOMAIN F \cup DOMAIN T
  BY <1>2
<1> QED BY <1>3, <1>4 DEF Over

LEMMA OverlayTyped ==
  ASSUME NEW F \in Trees, NEW T \in Trees
  PROVE  OverlayTree(F, T) \in Trees
<1>1. PICK P \in SUBSET Paths : F \in [P -> CpioEntry]
  BY TreesIs
<1>2. PICK Q \in SUBSET Paths : T \in [Q -> CpioEntry]
  BY TreesIs
<1>3. PICK kept : kept = {p \in DOMAIN F :
                            \A q \in DOMAIN T : IsStrictPrefix(q, p) => T[q].type = "dir"}
  OBVIOUS
<1>4. PICK G : G = [p \in DOMAIN T \cup kept |-> IF p \in DOMAIN T THEN T[p] ELSE F[p]]
  OBVIOUS
<1>5. OverlayTree(F, T) = G
  BY <1>3, <1>4 DEF OverlayTree
<1>6. kept \subseteq P
  BY <1>1, <1>3
<1>7. G \in [Q \cup kept -> CpioEntry] /\ Q \cup kept \in SUBSET Paths
  BY <1>1, <1>2, <1>4, <1>6
<1> QED BY <1>5, <1>7, TreesIs

\* The trees of the layers are finite, and the root is not an entry.
LEMMA TreesFinite ==
  ASSUME NEW s \in Seq(Item)
  PROVE  \A k \in 0..Len(s) :
           IsFiniteSet(DOMAIN Extracted(s)[k]) /\ DOMAIN Extracted(s)[k] \subseteq Named
<1>1. PICK n, x : n \in Nat /\ n = Len(s) /\ x = Extracted(s)
  OBVIOUS
<1>2. /\ x[0] = <<>> /\ \A k \in 0..n : x[k] \in Trees
      /\ \A k \in 1..n : x[k] = Extract(x[k - 1], s[k])
  BY <1>1, ExtractedIs
<1>3. PICK S : S = {k \in 0..n : IsFiniteSet(DOMAIN x[k]) /\ DOMAIN x[k] \subseteq Named}
  OBVIOUS
<1>4. 0 \in S
  <2>1. DOMAIN <<>> = {} /\ 0 \in 0..n
    BY <1>1
  <2> QED BY <1>2, <1>3, <2>1, FS_EmptySet
<1>5. ASSUME NEW k \in 1..n, k - 1 \in S PROVE k \in S
  <2>1. PICK fs \in Trees : fs = x[k - 1]
    <3>1. k - 1 \in 0..n
      BY <1>1
    <3> QED BY <1>2, <3>1
  <2>2. PICK it \in Item : it = s[k]
    BY <1>1
  <2>3. IsFiniteSet(DOMAIN fs) /\ DOMAIN fs \subseteq Named /\ k \in 0..n
    BY <1>1, <1>3, <1>5, <2>1
  <2>4. x[k] = IF Skips(fs, it) THEN fs ELSE Put(fs, it.name.path, NewEntry(fs, it))
    BY <1>2, <2>1, <2>2, ExtractIs
  <2>5. CASE Skips(fs, it)
    BY <1>3, <2>3, <2>4, <2>5
  <2>6. CASE ~ Skips(fs, it)
    <3>1. PICK e \in CpioEntry, p \in Paths : e = NewEntry(fs, it) /\ p = it.name.path
      BY <2>6, NewEntryTyped
    <3>2. p \in Named
      BY <2>6, <3>1 DEF Skips, Paths, Named
    <3>3. DOMAIN x[k] = DOMAIN fs \cup {p}
      <4>1. x[k] = Put(fs, p, e)
        BY <2>4, <2>6, <3>1
      <4>2. DOMAIN Put(fs, p, e) = DOMAIN fs \cup {p}
        BY PutTree
      <4> QED BY <4>1, <4>2
    <3>4. IsFiniteSet(DOMAIN fs \cup {p})
      BY <2>3, FS_AddElement
    <3> QED BY <1>3, <2>3, <3>2, <3>3, <3>4
  <2> QED BY <2>5, <2>6
<1>6. \A k \in 0..n : k \in S
  BY <1>1, <1>4, <1>5, UpTo
<1> QED BY <1>1, <1>3, <1>6

LEMMA LayerTree ==
  ASSUME NEW ls \in Inputs, NEW i \in 1..Len(ls), WellFormed(ls[i].source)
  PROVE  /\ Tree(ls[i].source) \in Trees
         /\ IsFiniteSet(DOMAIN Tree(ls[i].source)) /\ DOMAIN Tree(ls[i].source) \subseteq Named
<1>1. PICK s \in Seq(Item) : Tree(ls[i].source) = Extracted(s)[Len(s)]
  BY TreeIs
<1>2. Len(s) \in 0..Len(s)
  OBVIOUS
<1> QED BY <1>1, <1>2, ExtractedIs, TreesFinite

\* The recursion of Overlaid has a solution.
LEMMA OverlaidIs ==
  ASSUME NEW ls, NEW n \in Nat, n = Len(ls), \A i \in 1..n : Tree(ls[i].source) \in Trees
  PROVE  /\ Overlaid(ls)[0] = <<>>
         /\ \A i \in 0..n : Overlaid(ls)[i] \in Trees
         /\ \A i \in 1..n : Overlaid(ls)[i] = OverlayTree(Overlaid(ls)[i - 1], Tree(ls[i].source))
<1>1. PICK U, t : U = Trees /\ t = [i \in 1..n |-> Tree(ls[i].source)]
  OBVIOUS
<1>2. \A i \in 1..n : \A fs \in U : OverlayTree(fs, t[i]) \in U
  BY <1>1, OverlayTyped
<1> DEFINE step == [i \in 1..n |-> [fs \in U |-> OverlayTree(fs, t[i])]]
           Body(h) == [k \in 0..n |-> IF k = 0 THEN <<>> ELSE OverlayTree(h[k - 1], Tree(ls[k].source))]
           ov == CHOOSE h : h = Body(h)
<1>3. step \in Steps(n, U)
  BY <1>2 DEF Steps
<1>4. <<>> \in U
  <2>1. <<>> \in [{} -> CpioEntry] /\ {} \in SUBSET Paths
    OBVIOUS
  <2> QED BY <1>1, <2>1, TreesIs
<1>5. PICK f : IsLoop(f, n, U, <<>>, step)
  <2> HIDE DEF step
  <2> QED BY <1>3, <1>4, Loop
<1>6. f \in [0..n -> U] /\ f[0] = <<>>
  BY <1>5 DEF IsLoop
<1>7. ASSUME NEW k \in 1..n PROVE f[k] = OverlayTree(f[k - 1], Tree(ls[k].source))
  <2>1. f[k] = step[k][f[k - 1]] /\ f[k - 1] \in U
    BY <1>5 DEF IsLoop
  <2>2. step[k][f[k - 1]] = OverlayTree(f[k - 1], t[k])
    BY <2>1
  <2> QED BY <1>1, <2>1, <2>2
<1>8. f = Body(f)
  <2>1. \A k \in 0..n : f[k] = IF k = 0 THEN <<>> ELSE OverlayTree(f[k - 1], Tree(ls[k].source))
    <3> TAKE k \in 0..n
    <3>1. CASE k = 0
      BY <1>6, <3>1
    <3>2. CASE k # 0
      <4>1. k \in 1..n
        BY <3>2
      <4> QED BY <1>7, <3>2, <4>1, Zenon
    <3> QED BY <3>1, <3>2
  <2> QED BY <1>6, <2>1
<1>9. ov = Body(ov)
  <2> HIDE DEF Body
  <2> QED BY <1>8
<1>10. Overlaid(ls) = ov
  BY DEF Overlaid
<1>11. PICK g : g = ov
  OBVIOUS
<1>12. g = Body(g)
  BY <1>9, <1>11
<1> HIDE DEF ov
<1>13. \A k \in 0..n : g[k] = IF k = 0 THEN <<>> ELSE OverlayTree(g[k - 1], Tree(ls[k].source))
  BY <1>12, Zenon
<1> HIDE DEF Body, step
<1>14. g[0] = <<>> /\ \A k \in 1..n : g[k] = OverlayTree(g[k - 1], Tree(ls[k].source))
  <2>1. 0 \in 0..n
    OBVIOUS
  <2>2. \A k \in 1..n : k \in 0..n /\ k # 0
    OBVIOUS
  <2> QED BY <1>13, <2>1, <2>2
<1>15. \A k \in 0..n : g[k] \in U
  <2>1. PICK S : S = {k \in 0..n : g[k] \in U}
    OBVIOUS
  <2>2. 0 \in S
    BY <1>4, <1>14, <2>1
  <2>3. \A k \in 1..n : k - 1 \in S => k \in S
    BY <1>1, <1>2, <1>14, <2>1
  <2>4. \A k \in 0..n : k \in S
    BY <2>2, <2>3, UpTo
  <2> QED BY <2>1, <2>4
<1> QED BY <1>1, <1>10, <1>11, <1>14, <1>15

\* A layer's archive takes the kernel from one file system to the next.
LEMMA LayerUnpacks ==
  ASSUME NEW F \in Trees, NEW T \in Trees, DOMAIN T \subseteq Named, IsFiniteSet(DOMAIN T),
         Unpackable(F, T)
  PROVE  UnpackArchive(F, Found(Archive(AsNames(T)))) = OverlayTree(F, T)
<1>1. PICK A, n : A = Archive(AsNames(T)) /\ Lists(A, n, T)
  BY ArchiveLists
<1>2. Found(A) = A
  BY <1>1, FindsAll
<1>3. UnpackArchive(F, A) = Over(F, T, DOMAIN T)
  BY <1>1, UnpackArchiveIs
<1>4. Over(F, T, DOMAIN T) = OverlayTree(F, T)
  BY OverIsOverlay
<1> QED BY <1>1, <1>2, <1>3, <1>4

\* What the kernel makes of the archives of the layers.
LEMMA UnpackedIs ==
  ASSUME NEW ls \in Inputs, NEW n \in Nat, n = Len(ls),
         \A i \in 1..n : /\ WellFormed(ls[i].source)
                         /\ Unpackable(Overlaid(ls)[i - 1], Tree(ls[i].source)),
         NEW d, Len(d) = n, \A i \in 1..n : d[i] = Archive(AsNames(Tree(ls[i].source)))
  PROVE  Unpacked(d) = Overlaid(ls)[n]
<1>1. PICK o, t : o = Overlaid(ls) /\ t = [i \in 1..n |-> Tree(ls[i].source)]
  OBVIOUS
<1>2. ASSUME NEW i \in 1..n
      PROVE  t[i] \in Trees /\ IsFiniteSet(DOMAIN t[i]) /\ DOMAIN t[i] \subseteq Named
  BY <1>1, LayerTree
<1>3. /\ o[0] = <<>> /\ \A i \in 0..n : o[i] \in Trees
      /\ \A i \in 1..n : o[i] = OverlayTree(o[i - 1], t[i])
  <2>1. \A i \in 1..n : Tree(ls[i].source) \in Trees
    BY <1>1, <1>2
  <2> QED BY <1>1, <2>1, OverlaidIs
<1>4. ASSUME NEW i \in 1..n
      PROVE  UnpackArchive(o[i - 1], Found(d[i])) = o[i]
  <2>1. PICK F \in Trees, T \in Trees : F = o[i - 1] /\ T = t[i]
    <3>1. i - 1 \in 0..n
      OBVIOUS
    <3> QED BY <1>2, <1>3, <3>1
  <2>2. Unpackable(F, T) /\ d[i] = Archive(AsNames(T))
    BY <1>1, <2>1
  <2>3. DOMAIN T \subseteq Named /\ IsFiniteSet(DOMAIN T)
    BY <1>2, <2>1
  <2>4. UnpackArchive(F, Found(Archive(AsNames(T)))) = OverlayTree(F, T)
    BY <2>2, <2>3, LayerUnpacks
  <2> QED BY <1>3, <2>1, <2>2, <2>4
<1> DEFINE Body(h) == [i \in 0..n |-> IF i = 0 THEN <<>> ELSE UnpackArchive(h[i - 1], Found(d[i]))]
           un == CHOOSE h : h = Body(h)
<1>5. Unpacked(d) = un[n]
  BY DEF Unpacked
<1>6. PICK g : g = [i \in 0..n |-> o[i]]
  OBVIOUS
<1>7. g = Body(g)
  <2>1. ASSUME NEW i \in 0..n
        PROVE  g[i] = IF i = 0 THEN <<>> ELSE UnpackArchive(g[i - 1], Found(d[i]))
    <3>1. CASE i = 0
      BY <1>3, <1>6, <3>1
    <3>2. CASE i # 0
      <4>1. i \in 1..n /\ i - 1 \in 0..n
        BY <3>2
      <4>2. g[i] = o[i] /\ g[i - 1] = o[i - 1]
        BY <1>6, <4>1
      <4> QED BY <1>4, <3>2, <4>1, <4>2
    <3> QED BY <3>1, <3>2
  <2>2. g = [i \in 0..n |-> g[i]]
    BY <1>6
  <2> QED BY <2>1, <2>2, Zenon
<1>8. un = Body(un)
  <2> HIDE DEF Body
  <2> QED BY <1>7
<1>9. PICK u : u = un
  OBVIOUS
<1>10. u = Body(u)
  BY <1>8, <1>9
<1> HIDE DEF un
<1>11. \A i \in 0..n : u[i] = IF i = 0 THEN <<>> ELSE UnpackArchive(u[i - 1], Found(d[i]))
  BY <1>10, Zenon
<1> HIDE DEF Body
<1>12. PICK S : S = {i \in 0..n : u[i] = o[i]}
  OBVIOUS
<1>13. 0 \in S
  <2>1. 0 \in 0..n
    OBVIOUS
  <2> QED BY <1>3, <1>11, <1>12, <2>1
<1>14. ASSUME NEW i \in 1..n, i - 1 \in S PROVE i \in S
  <2>1. i \in 0..n /\ i # 0
    OBVIOUS
  <2>2. u[i] = UnpackArchive(u[i - 1], Found(d[i])) /\ u[i - 1] = o[i - 1]
    BY <1>11, <1>12, <1>14, <2>1
  <2> QED BY <1>4, <1>12, <2>1, <2>2
<1>15. n \in S
  <2>1. n \in 0..n
    OBVIOUS
  <2> QED BY <1>13, <1>14, <2>1, UpTo
<1> QED BY <1>1, <1>5, <1>9, <1>12, <1>15

\* The kernel ends up with exactly the files of the layers, each path as the
\* last layer that has it says, for any layers that a build keeps entry by entry
\* and that can be unpacked one over the other.  (build_initramfs, add_dir,
\* add_tar, CpioBuilder::finish)
THEOREM KernelUnpacksTheLayers ==
  ASSUME \A ls \in Inputs : \A i \in 1..Len(ls) :
           /\ WellFormed(ls[i].source)
           /\ Unpackable(Overlaid(ls)[i - 1], Tree(ls[i].source))
  PROVE  Spec => []UnpacksTheLayers
<1>1. Init => BuildsInv
  BY DEF Init, BuildsInv
<1>2. TypeInv /\ BuildsInv => UnpacksTheLayers
  <2> SUFFICES ASSUME TypeInv, BuildsInv, pc = "done"
               PROVE  Unpacked(data) = Overlaid(layers)[Len(layers)]
    BY DEF UnpacksTheLayers
  <2>1. PICK ls, d : ls \in Inputs /\ ls = layers /\ d = data
    BY DEF TypeInv, BuiltInv
  <2>2. PICK n \in Nat : n = Len(ls)
    BY <2>1, LayersTyped DEF Layers
  <2>3. Len(d) = n
    BY <2>1, <2>2 DEF TypeInv, BuiltInv
  <2>4. \A i \in 1..n : d[i] = Archive(AsNames(Tree(ls[i].source)))
    BY <2>1, <2>3 DEF BuildsInv
  <2>5. \A i \in 1..n : /\ WellFormed(ls[i].source)
                        /\ Unpackable(Overlaid(ls)[i - 1], Tree(ls[i].source))
    BY <2>1, <2>2
  <2>6. Unpacked(d) = Overlaid(ls)[n]
    BY <2>1, <2>2, <2>3, <2>4, <2>5, UnpackedIs
  <2> QED BY <2>1, <2>2, <2>6
<1>3. \A ls \in Inputs : \A i \in 1..Len(ls) : WellFormed(ls[i].source)
  OBVIOUS
<1> QED BY <1>1, <1>2, <1>3, BuildsInvNext, TypeInvInit, TypeInvNext, PTL DEF Spec
============================================================================
