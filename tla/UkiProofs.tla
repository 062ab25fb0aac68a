----------------------------- MODULE UkiProofs -----------------------------
(***************************************************************************)
(* The layout that uki::build gives an image, for every well-formed stub,  *)
(* every size of what is added, every word size and every alignment.       *)
(***************************************************************************)
EXTENDS Uki, WellFoundedInduction, TLAPS

-----------------------------------------------------------------------------
(* Numbers.                                                                *)

\* A set of natural numbers has a least element.
LEMMA NatMin ==
  ASSUME NEW T \in SUBSET Nat, T # {}
  PROVE  \E x \in T : \A y \in T : x <= y
<1> DEFINE R == {ss \in Nat \X Nat : ss[1] < ss[2]}
<1>1. IsWellFoundedOn(R, Nat)
  BY NatLessThanWellFounded DEF OpToRel
<1>2. PICK x \in T : \A y \in T : <<y, x>> \notin R
  <2> HIDE DEF R
  <2> QED BY <1>1, WFMin
<1>3. ASSUME NEW y \in T PROVE x <= y
  <2>1. <<y, x>> \notin R /\ <<y, x>> \in Nat \X Nat
    BY <1>2
  <2>2. <<y, x>>[1] = y /\ <<y, x>>[2] = x
    OBVIOUS
  <2>3. ~ (y < x)
    BY <2>1, <2>2
  <2> QED BY <2>3
<1> QED BY <1>3

\* Induction up to n, for a set in the place of a predicate.
LEMMA UpTo ==
  ASSUME NEW n \in Nat, NEW S, 0 \in S, \A k \in 1..n : k - 1 \in S => k \in S
  PROVE  n \in S
<1> DEFINE T == {k \in 0..n : k \notin S}
<1> SUFFICES ASSUME T # {} PROVE FALSE
  OBVIOUS
<1>1. PICK k \in T : \A y \in T : k <= y
  <2>1. T \in SUBSET Nat
    OBVIOUS
  <2> HIDE DEF T
  <2> QED BY <2>1, NatMin
<1>2. k \in 0..n /\ k \notin S /\ k # 0
  OBVIOUS
<1>3. k - 1 \in 0..n /\ k - 1 \notin T
  BY <1>1, <1>2
<1> QED BY <1>2, <1>3

\* Finitely many numbers have a bound.
LEMMA Bounded ==
  ASSUME NEW n \in Nat, NEW f \in [1..n -> Nat]
  PROVE  \E b \in Nat : \A i \in 1..n : f[i] <= b
<1> DEFINE P(k) == \E b \in Nat : \A i \in 1..k : f[i] <= b
           S == {k \in Nat : P(k)}
<1>1. ASSUME NEW k \in 1..n, P(k - 1) PROVE P(k)
  <2>1. PICK b \in Nat : \A i \in 1..(k - 1) : f[i] <= b
    BY <1>1
  <2>2. b + f[k] \in Nat /\ \A i \in 1..k : f[i] <= b + f[k]
    BY <2>1
  <2> QED BY <2>2
<1>2. P(0)
  OBVIOUS
<1> SUFFICES P(n)
  OBVIOUS
<1> HIDE DEF P
<1>3. 0 \in S /\ \A k \in 1..n : k - 1 \in S => k \in S
  BY <1>1, <1>2
<1>4. n \in S
  <2> HIDE DEF S
  <2> QED BY <1>3, UpTo
<1> QED BY <1>4

LEMMA MinNat ==
  ASSUME NEW T \in SUBSET Nat, T # {}
  PROVE  Min(T) \in T /\ \A y \in T : Min(T) <= y
BY NatMin DEF Min

LEMMA MaxNat ==
  ASSUME NEW T \in SUBSET Nat, T # {}, NEW b \in Nat, \A y \in T : y <= b
  PROVE  Max(T) \in T /\ \A y \in T : y <= Max(T)
<1> DEFINE U == {x \in Nat : \A y \in T : y <= x}
<1>1. PICK m \in U : \A y \in U : m <= y
  <2>1. b \in U /\ U \in SUBSET Nat
    OBVIOUS
  <2> HIDE DEF U
  <2> QED BY <2>1, NatMin
<1>2. m \in T
  <2> SUFFICES ASSUME m \notin T PROVE FALSE
    OBVIOUS
  <2>1. PICK z \in T : TRUE
    OBVIOUS
  <2>2. m \in Nat /\ z < m
    BY <2>1
  <2>3. m - 1 \in U
    BY <2>2
  <2> QED BY <1>1, <2>2, <2>3
<1>3. m \in Nat /\ \A y \in T : y <= m
  OBVIOUS
<1> HIDE DEF U
<1> QED BY <1>2, <1>3 DEF Max

LEMMA MaxOfTwo ==
  ASSUME NEW x \in Nat, NEW y \in Nat
  PROVE  /\ Max({x, y}) \in Nat /\ x <= Max({x, y}) /\ y <= Max({x, y})
         /\ \A z \in Nat : x <= z /\ y <= z => Max({x, y}) <= z
<1>1. {x, y} \in SUBSET Nat /\ {x, y} # {} /\ x + y \in Nat /\ \A z \in {x, y} : z <= x + y
  OBVIOUS
<1>2. Max({x, y}) \in {x, y} /\ \A z \in {x, y} : z <= Max({x, y})
  BY <1>1, MaxNat
<1> QED BY <1>2

LEMMA DivMod ==
  ASSUME NEW x \in Nat, NEW a \in Nat \ {0}
  PROVE  x = (x \div a) * a + (x % a) /\ x % a \in 0..(a - 1) /\ x \div a \in Nat
OBVIOUS

LEMMA SmallMod ==
  ASSUME NEW x \in Nat, NEW a \in Nat \ {0}
  PROVE  x % a \in 0..(a - 1) /\ (x < a => x % a = x)
OBVIOUS

LEMMA MultipleMod ==
  ASSUME NEW q \in Nat, NEW a \in Nat \ {0} PROVE q * a \in Nat /\ (q * a) % a = 0
OBVIOUS

LEMMA ModMultiple ==
  ASSUME NEW x \in Nat, NEW a \in Nat \ {0}, x % a = 0 PROVE \E q \in Nat : x = q * a
<1> DEFINE q == x \div a
<1>1. x = q * a + 0 /\ q \in Nat
  BY DivMod
<1> HIDE DEF q
<1>2. x = q * a
  BY <1>1
<1> QED BY <1>1, <1>2

\* align_up gives the least multiple that is not below its argument.
LEMMA AlignUp ==
  ASSUME NEW x \in Nat, NEW a \in Nat \ {0}
  PROVE  /\ align_up(x, a) \in Nat /\ x <= align_up(x, a) /\ align_up(x, a) % a = 0
         /\ \A z \in Nat : x <= z /\ z % a = 0 => align_up(x, a) <= z
<1> DEFINE y == x + a - 1
           q == y \div a
<1>1. y \in Nat
  OBVIOUS
<1>2. y = q * a + (y % a) /\ y % a \in 0..(a - 1) /\ q \in Nat
  BY <1>1, DivMod
<1>3. align_up(x, a) = q * a
  BY DEF align_up
<1>4. q * a \in Nat /\ (q * a) % a = 0
  BY <1>2, MultipleMod
<1>5. x <= q * a
  <2> HIDE DEF q
  <2> QED BY <1>2, <1>4
<1>6. ASSUME NEW z \in Nat, x <= z, z % a = 0 PROVE q * a <= z
  <2> DEFINE p == z \div a
  <2>1. z = p * a /\ p \in Nat
    BY <1>6, DivMod
  <2> HIDE DEF p, q
  <2>2. q * a <= p * a + a - 1
    BY <1>2, <1>4, <1>6, <2>1
  <2>3. (p + 1) * a = p * a + a
    BY <2>1
  <2>4. q < p + 1
    <3> SUFFICES ASSUME p + 1 <= q PROVE FALSE
      BY <1>2, <2>1
    <3>1. (p + 1) * a <= q * a
      BY <1>2, <2>1
    <3>2. p * a \in Nat
      BY <2>1
    <3> QED BY <3>1, <3>2, <2>2, <2>3, <1>4
  <2>5. q * a <= p * a
    BY <2>4, <2>1, <1>2
  <2> QED BY <2>1, <2>5
<1> HIDE DEF q
<1> QED BY <1>3, <1>4, <1>5, <1>6

\* The data of a section, padded for the file, fits between its address and
\* the next one, because the alignment in memory is a multiple of the file's.
LEMMA PaddingFits ==
  ASSUME NEW sa \in Nat \ {0}, NEW fa \in Nat \ {0}, sa % fa = 0,
         NEW v \in Nat, v % sa = 0, NEW n \in Nat
  PROVE  v + align_up(n, fa) <= align_up(v + n, sa)
<1> DEFINE y == align_up(v + n, sa)
<1>1. y \in Nat /\ v + n <= y /\ y % sa = 0
  BY AlignUp
<1> HIDE DEF y
<1>2. PICK q \in Nat : y = q * sa
  BY <1>1, ModMultiple
<1>3. PICK m \in Nat : v = m * sa
  BY ModMultiple
<1>4. PICK k \in Nat : sa = k * fa
  BY ModMultiple
<1>5. m <= q
  <2> SUFFICES ASSUME q + 1 <= m PROVE FALSE
    OBVIOUS
  <2>1. (q + 1) * sa <= m * sa /\ (q + 1) * sa = q * sa + sa
    OBVIOUS
  <2> QED BY <2>1, <1>1, <1>2, <1>3
<1>6. PICK d \in Nat : q = m + d
  <2>1. q - m \in Nat /\ q = m + (q - m)
    BY <1>5
  <2> QED BY <2>1
<1>7. d * sa = y - v
  <2>1. (m + d) * sa = m * sa + d * sa
    OBVIOUS
  <2> QED BY <2>1, <1>2, <1>3, <1>6
<1>8. (d * k) * fa = y - v /\ d * k \in Nat
  <2>1. (d * k) * fa = d * (k * fa) /\ d * k \in Nat
    OBVIOUS
  <2> QED BY <2>1, <1>4, <1>7
<1>9. (y - v) % fa = 0 /\ y - v \in Nat
  BY <1>8, MultipleMod
<1>10. n <= y - v
  BY <1>1
<1>11. align_up(n, fa) <= y - v /\ align_up(n, fa) \in Nat
  BY <1>9, <1>10, AlignUp
<1> QED BY <1>11, <1>1 DEF y

-----------------------------------------------------------------------------
(* The stub and the sections that are added.                               *)

LEMMA StubType ==
  ASSUME NEW st \in Stubs
  PROVE  /\ st.len \in Nat /\ st.sect_table \in Nat /\ st.size_of_headers \in Nat
         /\ st.section_align \in Nat \ {0} /\ st.file_align \in Nat \ {0}
         /\ st.sections \in Seq(Section) /\ Len(st.sections) \in Nat
         /\ DOMAIN st.sections = 1..Len(st.sections)
         /\ \A i \in DOMAIN st.sections : st.sections[i] \in Section
<1>1. st \in Stub
  BY UkiAssumption
<1> QED BY <1>1 DEF Stub

LEMMA SectionsType ==
  ASSUME NEW sp \in Specs
  PROVE  Sections(sp) \in Seq(Nat) /\ Len(Sections(sp)) \in Nat
<1>1. sp \in UkiSpec
  BY UkiAssumption
<1> DEFINE mid == IF sp.uname = None THEN <<>> ELSE <<sp.uname>>
<1>2. /\ sp.osrel \in Nat /\ sp.cmdline \in Nat /\ sp.linux \in Nat /\ sp.initrd \in Nat
      /\ sp.uname # None => sp.uname \in Nat
  BY <1>1 DEF UkiSpec
<1>3. <<sp.osrel, sp.cmdline>> \in Seq(Nat) /\ <<sp.linux, sp.initrd>> \in Seq(Nat)
  BY <1>2
<1>4. mid \in Seq(Nat)
  BY <1>2
<1>5. Sections(sp) = (<<sp.osrel, sp.cmdline>> \o mid) \o <<sp.linux, sp.initrd>>
  BY DEF Sections
<1> HIDE DEF mid
<1> QED BY <1>3, <1>4, <1>5

\* The end of the stub in memory.
LEMMA MaxVaEnd ==
  ASSUME NEW st \in Stubs
  PROVE  /\ max_va_end(st) \in Nat
         /\ \A i \in DOMAIN st.sections :
              st.sections[i].vaddr + Extent(st.sections[i]) <= max_va_end(st)
<1> DEFINE n == Len(st.sections)
           f == [i \in 1..n |-> st.sections[i].vaddr + Extent(st.sections[i])]
           T == {0} \cup {f[i] : i \in 1..n}
<1>1. n \in Nat /\ DOMAIN st.sections = 1..n
  BY StubType
<1>2. \A i \in 1..n : f[i] \in Nat
  <2> TAKE i \in 1..n
  <2>1. /\ st.sections[i].vaddr \in Nat /\ st.sections[i].vsize \in Nat
        /\ st.sections[i].rsize \in Nat
    BY <1>1, StubType DEF Section
  <2>2. Extent(st.sections[i]) \in Nat
    BY <2>1, MaxOfTwo DEF Extent
  <2> QED BY <2>1, <2>2
<1>3. f \in [1..n -> Nat]
  BY <1>2
<1>4. max_va_end(st) = Max(T)
  <2>1. \A i \in 1..n : f[i] = st.sections[i].vaddr
                            + Max({st.sections[i].vsize, st.sections[i].rsize})
    BY DEF Extent
  <2>2. {f[i] : i \in 1..n} = {st.sections[i].vaddr
            + Max({st.sections[i].vsize, st.sections[i].rsize}) : i \in 1..n}
    <3> HIDE DEF f, n
    <3> QED BY <2>1
  <2> QED BY <1>1, <2>2 DEF max_va_end
<1>5. \A i \in 1..n : st.sections[i].vaddr + Extent(st.sections[i]) = f[i]
  OBVIOUS
<1> HIDE DEF f, n
<1>6. PICK b \in Nat : \A i \in 1..n : f[i] <= b
  BY <1>1, <1>3, Bounded
<1>7. T \in SUBSET Nat /\ T # {} /\ \A y \in T : y <= b
  BY <1>3, <1>6
<1>8. \A i \in 1..n : f[i] \in T
  OBVIOUS
<1> HIDE DEF T
<1>9. Max(T) \in T /\ \A y \in T : y <= Max(T)
  BY <1>7, MaxNat
<1> QED BY <1>1, <1>4, <1>5, <1>7, <1>8, <1>9

\* Where the headers end.
LEMMA HeaderCeiling ==
  ASSUME NEW st \in Stubs
  PROVE  /\ header_ceiling(st) \in Nat /\ header_ceiling(st) <= st.size_of_headers
         /\ \A i \in DOMAIN st.sections :
              st.sections[i].rptr > 0 => header_ceiling(st) <= st.sections[i].rptr
<1> DEFINE T == {st.size_of_headers} \cup
      {st.sections[i].rptr : i \in {j \in DOMAIN st.sections : st.sections[j].rptr > 0}}
<1>1. T \in SUBSET Nat /\ T # {} /\ st.size_of_headers \in T
  <2>1. st.size_of_headers \in Nat /\ \A i \in DOMAIN st.sections : st.sections[i].rptr \in Nat
    BY StubType DEF Section
  <2> QED BY <2>1
<1>2. \A i \in DOMAIN st.sections : st.sections[i].rptr > 0 => st.sections[i].rptr \in T
  OBVIOUS
<1>3. header_ceiling(st) = Min(T)
  BY DEF header_ceiling
<1> HIDE DEF T
<1>4. Min(T) \in T /\ \A y \in T : Min(T) <= y
  BY <1>1, MinNat
<1> QED BY <1>1, <1>2, <1>3, <1>4

\* The room for n more headers, without the minimum.
LEMMA Fits ==
  ASSUME NEW st \in Stubs, NEW n \in Nat
  PROVE  /\ table_end(st, n) \in Nat /\ table_end(st, 0) <= table_end(st, n)
         /\ fits(st, n) <=>
              /\ table_end(st, n) <= st.size_of_headers
              /\ \A i \in DOMAIN st.sections :
                   st.sections[i].rptr > 0 => table_end(st, n) <= st.sections[i].rptr
<1> DEFINE k == Len(st.sections)
           e == table_end(st, n)
           T == {st.size_of_headers} \cup
      {st.sections[i].rptr : i \in {j \in DOMAIN st.sections : st.sections[j].rptr > 0}}
<1>1. k \in Nat /\ st.sect_table \in Nat /\ st.size_of_headers \in Nat
  BY StubType
<1>2. e \in Nat /\ table_end(st, 0) <= e
  <2>1. PICK z \in Nat : z = SECTION_HEADER_SIZE
    BY UkiAssumption
  <2> HIDE DEF k
  <2>2. (k + n) * z = k * z + n * z /\ k * z \in Nat /\ n * z \in Nat
    BY <1>1
  <2>3. e = st.sect_table + (k + n) * z
    BY <2>1 DEF table_end, k
  <2>4. table_end(st, 0) = st.sect_table + (k + 0) * z
    BY <2>1 DEF table_end, k
  <2>5. k + 0 = k
    BY <1>1
  <2> HIDE DEF e
  <2>6. table_end(st, 0) = st.sect_table + k * z
    BY <2>4, <2>5
  <2> QED BY <1>1, <2>2, <2>3, <2>6
<1>3. T \in SUBSET Nat /\ T # {}
  <2>1. st.size_of_headers \in Nat /\ \A i \in DOMAIN st.sections : st.sections[i].rptr \in Nat
    BY StubType DEF Section
  <2> QED BY <2>1
<1>4. fits(st, n) <=> e <= Min(T)
  BY DEF fits, header_ceiling
<1>5. Min(T) \in T /\ \A y \in T : Min(T) <= y
  <2> HIDE DEF T
  <2> QED BY <1>3, MinNat
<1>6. (\A y \in T : e <= y) <=>
        /\ e <= st.size_of_headers
        /\ \A i \in DOMAIN st.sections : st.sections[i].rptr > 0 => e <= st.sections[i].rptr
  <2> HIDE DEF e
  <2> QED OBVIOUS
<1> HIDE DEF T, e
<1>7. e <= Min(T) <=> \A y \in T : e <= y
  <2>1. PICK m \in Nat : m = Min(T)
    BY <1>3, <1>5
  <2>2. ASSUME e <= m, NEW y \in T PROVE e <= y
    <3>1. y \in Nat /\ m <= y
      BY <1>3, <1>5, <2>1
    <3> QED BY <1>2, <2>2, <3>1
  <2> QED BY <1>5, <2>1, <2>2
<1> QED BY <1>2, <1>4, <1>6, <1>7 DEF e

\* What is known of the sections of a stub that is a PE image.
LEMMA StubLayout ==
  ASSUME NEW st \in Stubs, st.pe
  PROVE  /\ st.size_of_headers <= st.len /\ st.section_align % st.file_align = 0
         /\ \A i \in DOMAIN st.sections : st.sections[i].rptr > 0 =>
              st.sections[i].rptr + st.sections[i].rsize <= st.len
         /\ \A i, j \in DOMAIN st.sections :
              i < j /\ st.sections[i].rptr > 0 /\ st.sections[j].rptr > 0 =>
                \/ st.sections[i].rptr + st.sections[i].rsize <= st.sections[j].rptr
                \/ st.sections[j].rptr + st.sections[j].rsize <= st.sections[i].rptr
BY UkiAssumption DEF WellFormed

-----------------------------------------------------------------------------
(* The invariants of the loop.                                             *)

TypeOK ==
  /\ stub \in Stubs /\ spec \in Specs
  /\ pc \in {"parse", "append", "done", "failed"}
  /\ todo \in Seq(Nat) /\ len \in Nat /\ vma \in Nat
  /\ headers \in Seq([vaddr : 0..(Word - 1), vsize : 0..(Word - 1),
                      rptr : 0..(Word - 1), rsize : 0..(Word - 1)])
  /\ image \in Image \cup {None} /\ ((pc = "done") <=> (image # None))

Placing == pc \in {"append", "done"}

\* What is placed and what is left are the sections that were given, the stub
\* had room for their headers, and the next section goes behind everything.
LoopInv ==
  /\ pc = "parse" => headers = <<>>
  /\ Placing =>
       /\ stub.pe /\ fits(stub, Len(Sections(spec)))
       /\ Len(headers) + Len(todo) = Len(Sections(spec))
       /\ \A i \in 1..Len(todo) : todo[i] = Sections(spec)[Len(headers) + i]
       /\ stub.len <= len
       /\ max_va_end(stub) <= vma /\ vma % stub.section_align = 0

\* As long as the file is within the limit that is checked in the end, no field
\* of a header has wrapped: the data of the new sections are one behind the
\* other, behind the stub.
FileInv ==
  Placing /\ len < Word =>
    \A i \in 1..Len(headers) :
      /\ headers[i].vsize = Sections(spec)[i]
      /\ stub.len <= headers[i].rptr
      /\ headers[i].rptr + headers[i].rsize <= len
      /\ \A j \in 1..Len(headers) :
           i < j => headers[i].rptr + headers[i].rsize <= headers[j].rptr

\* The same of the addresses, as long as these are within a word too.
MemoryInv ==
  Placing /\ len < Word /\ vma < Word =>
    \A i \in 1..Len(headers) :
      /\ headers[i].vaddr % stub.section_align = 0
      /\ max_va_end(stub) <= headers[i].vaddr
      /\ headers[i].vaddr + headers[i].vsize <= vma
      /\ headers[i].vaddr + headers[i].rsize <= vma
      /\ \A j \in 1..Len(headers) : i < j =>
           /\ headers[i].vaddr + headers[i].vsize <= headers[j].vaddr
           /\ headers[i].vaddr + headers[i].rsize <= headers[j].vaddr

\* What is returned is what was placed, within the limits.
ImageInv ==
  image # None =>
    /\ pc = "done" /\ todo = <<>> /\ len < Word
    /\ image = [sections |-> stub.sections \o headers,
                size_of_image |-> vma % Word, len |-> len]

Inv == TypeOK /\ LoopInv /\ FileInv /\ MemoryInv /\ ImageInv

-----------------------------------------------------------------------------
(* One section.                                                            *)

Header == [vaddr : 0..(Word - 1), vsize : 0..(Word - 1),
           rptr : 0..(Word - 1), rsize : 0..(Word - 1)]

LEMMA HeaderSection == Header \subseteq Section
BY UkiAssumption DEF Header, Section

\* What append_section does, in numbers that have not wrapped.
LEMMA AppendEffect ==
  ASSUME TypeOK, LoopInv, append_section,
         NEW n, n = Head(todo),
         NEW rptr, rptr = align_up(len, stub.file_align),
         NEW rsize, rsize = align_up(n, stub.file_align),
         NEW h, h = [vaddr |-> vma % Word, vsize |-> n % Word,
                     rptr |-> rptr % Word, rsize |-> rsize % Word]
  PROVE  /\ n \in Nat /\ rptr \in Nat /\ rsize \in Nat
         /\ n = Sections(spec)[Len(headers) + 1]
         /\ len <= rptr /\ n <= rsize /\ len' = rptr + rsize
         /\ h \in Header /\ headers' = Append(headers, h)
         /\ vma' \in Nat /\ vma' % stub.section_align = 0
         /\ vma + n <= vma' /\ vma + rsize <= vma'
         /\ todo' = Tail(todo) /\ todo \in Seq(Nat) /\ todo # <<>>
         /\ UNCHANGED <<stub, spec, pc, image>>
<1> USE UkiAssumption
<1>1. /\ todo \in Seq(Nat) /\ todo # <<>> /\ len \in Nat /\ vma \in Nat
      /\ stub \in Stubs /\ spec \in Specs /\ pc = "append"
  BY DEF TypeOK, append_section
<1>2. n \in Nat /\ n = todo[1] /\ 1 \in 1..Len(todo)
  BY <1>1
<1>3. /\ stub.section_align \in Nat \ {0} /\ stub.file_align \in Nat \ {0}
      /\ stub.section_align % stub.file_align = 0 /\ vma % stub.section_align = 0
      /\ n = Sections(spec)[Len(headers) + 1]
  BY <1>1, <1>2, StubType, StubLayout DEF LoopInv, Placing
<1>4. rptr \in Nat /\ rsize \in Nat /\ len <= rptr /\ n <= rsize
  BY <1>1, <1>2, <1>3, AlignUp
<1>5. /\ len' = rptr + rsize
      /\ headers' = Append(headers, h)
      /\ vma' = align_up(vma + n, stub.section_align)
      /\ todo' = Tail(todo) /\ UNCHANGED <<stub, spec, pc, image>>
  BY DEF append_section
<1>6. vma' \in Nat /\ vma + n <= vma' /\ vma' % stub.section_align = 0
  <2>1. vma + n \in Nat
    BY <1>1, <1>2
  <2> QED BY <2>1, <1>3, <1>5, AlignUp
<1>7. vma + rsize <= vma'
  BY <1>1, <1>2, <1>3, <1>5, PaddingFits
<1>8. h \in Header
  <2>1. /\ vma % Word \in 0..(Word - 1) /\ n % Word \in 0..(Word - 1)
        /\ rptr % Word \in 0..(Word - 1) /\ rsize % Word \in 0..(Word - 1)
    BY <1>1, <1>2, <1>4, SmallMod
  <2> QED BY <2>1 DEF Header
<1> QED BY <1>1, <1>2, <1>3, <1>4, <1>5, <1>6, <1>7, <1>8

LEMMA TypeStep == TypeOK /\ LoopInv /\ ImageInv /\ [Next]_vars => TypeOK'
<1> SUFFICES ASSUME TypeOK, LoopInv, ImageInv, [Next]_vars PROVE TypeOK'
  OBVIOUS
<1> USE UkiAssumption
<1>1. CASE parse
  <2>1. Sections(spec) \in Seq(Nat) /\ stub.len \in Nat
    BY SectionsType, StubType DEF TypeOK
  <2>2. vma' \in Nat
    BY <1>1, MaxVaEnd, StubType, AlignUp DEF parse, TypeOK
  <2> QED BY <1>1, <2>1, <2>2 DEF parse, TypeOK
<1>2. CASE append_section
  <2> DEFINE n == Head(todo)
             rptr == align_up(len, stub.file_align)
             rsize == align_up(n, stub.file_align)
             h == [vaddr |-> vma % Word, vsize |-> n % Word,
                   rptr |-> rptr % Word, rsize |-> rsize % Word]
  <2>1. /\ rptr \in Nat /\ rsize \in Nat /\ len' = rptr + rsize /\ vma' \in Nat
        /\ h \in Header /\ headers' = Append(headers, h)
        /\ todo' = Tail(todo) /\ todo \in Seq(Nat) /\ todo # <<>>
        /\ UNCHANGED <<stub, spec, pc, image>>
    BY <1>2, AppendEffect
  <2> HIDE DEF n, rptr, rsize, h
  <2>2. headers' \in Seq(Header)
    BY <2>1 DEF TypeOK, Header
  <2>3. todo' \in Seq(Nat) /\ len' \in Nat
    BY <2>1
  <2> QED BY <2>1, <2>2, <2>3 DEF TypeOK, Header
<1>3. CASE finish
  <2>1. stub.sections \o headers \in Seq(Section)
    <3>1. stub.sections \in Seq(Section) /\ headers \in Seq(Header)
      BY StubType DEF TypeOK, Header
    <3>2. headers \in Seq(Section)
      BY <3>1, HeaderSection
    <3> QED BY <3>1, <3>2
  <2>2. vma % Word \in Nat /\ len \in Nat
    BY SmallMod DEF TypeOK
  <2>3. image' = [sections |-> stub.sections \o headers,
                  size_of_image |-> vma % Word, len |-> len]
    BY <1>3 DEF finish
  <2>4. image' \in Image
    BY <2>1, <2>2, <2>3 DEF Image
  <2>5. image' # None
    BY <2>4
  <2> QED BY <1>3, <2>4, <2>5 DEF finish, TypeOK
<1>4. CASE build_err
  BY <1>4 DEF build_err, TypeOK
<1>5. CASE UNCHANGED vars
  BY <1>5 DEF vars, TypeOK
<1> QED BY <1>1, <1>2, <1>3, <1>4, <1>5 DEF Next

-----------------------------------------------------------------------------
(* The loop keeps its invariants.                                          *)

LEMMA ParseStep ==
  ASSUME TypeOK, LoopInv, parse
  PROVE  LoopInv' /\ FileInv' /\ MemoryInv'
<1>1. /\ stub \in Stubs /\ spec \in Specs /\ headers = <<>> /\ headers' = <<>>
      /\ stub' = stub /\ spec' = spec /\ todo' = Sections(spec) /\ len' = stub.len
      /\ vma' = align_up(max_va_end(stub), stub.section_align) /\ pc' = "append"
      /\ stub.pe /\ fits(stub, Len(Sections(spec)))
  BY DEF TypeOK, LoopInv, parse, parses
<1>2. Len(Sections(spec)) \in Nat /\ stub.len \in Nat
  BY <1>1, SectionsType, StubType
<1>3. max_va_end(stub) <= vma' /\ vma' % stub.section_align = 0
  <2>1. max_va_end(stub) \in Nat /\ stub.section_align \in Nat \ {0}
    BY <1>1, MaxVaEnd, StubType
  <2> QED BY <1>1, <2>1, AlignUp
<1>4. Len(headers') = 0
  BY <1>1
<1>5. LoopInv'
  BY <1>1, <1>2, <1>3, <1>4 DEF LoopInv
<1> QED BY <1>4, <1>5 DEF FileInv, MemoryInv

LEMMA AppendLoop ==
  ASSUME TypeOK, LoopInv, append_section PROVE LoopInv'
<1> DEFINE n == Head(todo)
           rptr == align_up(len, stub.file_align)
           rsize == align_up(n, stub.file_align)
           h == [vaddr |-> vma % Word, vsize |-> n % Word,
                 rptr |-> rptr % Word, rsize |-> rsize % Word]
<1>1. /\ n \in Nat /\ rptr \in Nat /\ rsize \in Nat /\ len <= rptr /\ len' = rptr + rsize
      /\ h \in Header /\ headers' = Append(headers, h)
      /\ vma' \in Nat /\ vma' % stub.section_align = 0 /\ vma + n <= vma'
      /\ todo' = Tail(todo) /\ todo \in Seq(Nat) /\ todo # <<>>
      /\ UNCHANGED <<stub, spec, pc, image>>
  BY AppendEffect
<1> HIDE DEF n, rptr, rsize, h
<1>2. /\ pc = "append" /\ stub \in Stubs /\ stub.len \in Nat /\ len \in Nat /\ vma \in Nat
      /\ max_va_end(stub) \in Nat /\ headers \in Seq(Header) /\ spec \in Specs
      /\ Len(Sections(spec)) \in Nat
  BY MaxVaEnd, StubType, SectionsType DEF TypeOK, append_section, Header
<1>3. /\ stub.pe /\ fits(stub, Len(Sections(spec)))
      /\ Len(headers) + Len(todo) = Len(Sections(spec))
      /\ \A i \in 1..Len(todo) : todo[i] = Sections(spec)[Len(headers) + i]
      /\ stub.len <= len /\ max_va_end(stub) <= vma
  BY <1>2 DEF LoopInv, Placing
<1>4. Len(headers') = Len(headers) + 1 /\ Len(todo') = Len(todo) - 1
  BY <1>1, <1>2
<1>5. \A i \in 1..Len(todo') : todo'[i] = todo[i + 1] /\ i + 1 \in 1..Len(todo)
  BY <1>1
<1>6. \A i \in 1..Len(todo') : todo'[i] = Sections(spec)[Len(headers') + i]
  BY <1>2, <1>3, <1>4, <1>5
<1>7. Len(headers') + Len(todo') = Len(Sections(spec))
  BY <1>1, <1>2, <1>3, <1>4
<1>8. stub.len <= len' /\ max_va_end(stub) <= vma'
  BY <1>1, <1>2, <1>3
<1> QED BY <1>1, <1>2, <1>3, <1>6, <1>7, <1>8 DEF LoopInv, Placing

LEMMA AppendFile ==
  ASSUME TypeOK, LoopInv, FileInv, append_section PROVE FileInv'
<1> DEFINE n == Head(todo)
           rptr == align_up(len, stub.file_align)
           rsize == align_up(n, stub.file_align)
           h == [vaddr |-> vma % Word, vsize |-> n % Word,
                 rptr |-> rptr % Word, rsize |-> rsize % Word]
<1>1. /\ n \in Nat /\ rptr \in Nat /\ rsize \in Nat
      /\ n = Sections(spec)[Len(headers) + 1]
      /\ len <= rptr /\ n <= rsize /\ len' = rptr + rsize
      /\ h \in Header /\ headers' = Append(headers, h)
      /\ UNCHANGED <<stub, spec, pc, image>>
  BY AppendEffect
<1>2. h.vsize = n % Word /\ h.rptr = rptr % Word /\ h.rsize = rsize % Word
  OBVIOUS
<1> HIDE DEF n, rptr, rsize, h
<1>3. /\ pc = "append" /\ stub.len \in Nat /\ len \in Nat /\ headers \in Seq(Header)
      /\ stub.len <= len /\ Word \in Nat \ {0}
  BY UkiAssumption, StubType DEF TypeOK, append_section, Header, LoopInv, Placing
<1> SUFFICES ASSUME len' < Word
             PROVE  \A i \in 1..Len(headers') :
                      /\ headers'[i].vsize = Sections(spec)[i]
                      /\ stub.len <= headers'[i].rptr
                      /\ headers'[i].rptr + headers'[i].rsize <= len'
                      /\ \A j \in 1..Len(headers') :
                           i < j => headers'[i].rptr + headers'[i].rsize <= headers'[j].rptr
  BY <1>1 DEF FileInv
<1>4. len < Word /\ h.vsize = n /\ h.rptr = rptr /\ h.rsize = rsize
  <2>1. n < Word /\ rptr < Word /\ rsize < Word /\ len < Word
    BY <1>1, <1>3
  <2> QED BY <2>1, <1>1, <1>2, <1>3, SmallMod
<1>5. \A i \in 1..Len(headers) :
        /\ headers[i].vsize = Sections(spec)[i]
        /\ stub.len <= headers[i].rptr
        /\ headers[i].rptr + headers[i].rsize <= len
        /\ \A j \in 1..Len(headers) :
             i < j => headers[i].rptr + headers[i].rsize <= headers[j].rptr
  BY <1>3, <1>4 DEF FileInv, Placing
<1>6. /\ Len(headers') = Len(headers) + 1 /\ Len(headers) \in Nat
      /\ headers'[Len(headers) + 1] = h
      /\ \A i \in 1..Len(headers) : headers'[i] = headers[i]
                                  /\ headers[i].rptr \in Nat /\ headers[i].rsize \in Nat
  <2>1. /\ Len(headers') = Len(headers) + 1 /\ Len(headers) \in Nat
        /\ headers'[Len(headers) + 1] = h
        /\ \A i \in 1..Len(headers) : headers'[i] = headers[i] /\ headers[i] \in Header
    BY <1>1, <1>3
  <2> QED BY <2>1, HeaderSection DEF Section
<1>7. ASSUME NEW i \in 1..Len(headers)
      PROVE  /\ headers'[i].vsize = Sections(spec)[i]
             /\ stub.len <= headers'[i].rptr
             /\ headers'[i].rptr + headers'[i].rsize <= len'
             /\ headers'[i].rptr + headers'[i].rsize <= rptr
  BY <1>1, <1>3, <1>5, <1>6
<1>8. stub.len <= rptr /\ rptr + rsize <= len'
  BY <1>1, <1>3
<1> QED BY <1>1, <1>4, <1>5, <1>6, <1>7, <1>8

LEMMA AppendMemory ==
  ASSUME TypeOK, LoopInv, MemoryInv, append_section PROVE MemoryInv'
<1> DEFINE n == Head(todo)
           rptr == align_up(len, stub.file_align)
           rsize == align_up(n, stub.file_align)
           h == [vaddr |-> vma % Word, vsize |-> n % Word,
                 rptr |-> rptr % Word, rsize |-> rsize % Word]
<1>1. /\ n \in Nat /\ rptr \in Nat /\ rsize \in Nat
      /\ len <= rptr /\ n <= rsize /\ len' = rptr + rsize
      /\ h \in Header /\ headers' = Append(headers, h)
      /\ vma' \in Nat /\ vma + n <= vma' /\ vma + rsize <= vma'
      /\ UNCHANGED <<stub, spec, pc, image>>
  BY AppendEffect
<1>2. h.vaddr = vma % Word /\ h.vsize = n % Word /\ h.rsize = rsize % Word
  OBVIOUS
<1> HIDE DEF n, rptr, rsize, h
<1>3. /\ pc = "append" /\ len \in Nat /\ vma \in Nat /\ headers \in Seq(Header)
      /\ max_va_end(stub) \in Nat /\ max_va_end(stub) <= vma
      /\ vma % stub.section_align = 0 /\ Word \in Nat \ {0}
  BY UkiAssumption, MaxVaEnd DEF TypeOK, append_section, Header, LoopInv, Placing
<1> SUFFICES ASSUME len' < Word, vma' < Word
             PROVE  \A i \in 1..Len(headers') :
                      /\ headers'[i].vaddr % stub.section_align = 0
                      /\ max_va_end(stub) <= headers'[i].vaddr
                      /\ headers'[i].vaddr + headers'[i].vsize <= vma'
                      /\ headers'[i].vaddr + headers'[i].rsize <= vma'
                      /\ \A j \in 1..Len(headers') : i < j =>
                           /\ headers'[i].vaddr + headers'[i].vsize <= headers'[j].vaddr
                           /\ headers'[i].vaddr + headers'[i].rsize <= headers'[j].vaddr
  BY <1>1 DEF MemoryInv
<1>4. len < Word /\ vma < Word /\ h.vaddr = vma /\ h.vsize = n /\ h.rsize = rsize
  <2>1. n < Word /\ rsize < Word /\ len < Word /\ vma < Word
    BY <1>1, <1>3
  <2> QED BY <2>1, <1>1, <1>2, <1>3, SmallMod
<1>5. \A i \in 1..Len(headers) :
        /\ headers[i].vaddr % stub.section_align = 0
        /\ max_va_end(stub) <= headers[i].vaddr
        /\ headers[i].vaddr + headers[i].vsize <= vma
        /\ headers[i].vaddr + headers[i].rsize <= vma
        /\ \A j \in 1..Len(headers) : i < j =>
             /\ headers[i].vaddr + headers[i].vsize <= headers[j].vaddr
             /\ headers[i].vaddr + headers[i].rsize <= headers[j].vaddr
  BY <1>3, <1>4 DEF MemoryInv, Placing
<1>6. /\ Len(headers') = Len(headers) + 1 /\ Len(headers) \in Nat
      /\ headers'[Len(headers) + 1] = h
      /\ \A i \in 1..Len(headers) :
           /\ headers'[i] = headers[i] /\ headers[i].vaddr \in Nat
           /\ headers[i].vsize \in Nat /\ headers[i].rsize \in Nat
  <2>1. /\ Len(headers') = Len(headers) + 1 /\ Len(headers) \in Nat
        /\ headers'[Len(headers) + 1] = h
        /\ \A i \in 1..Len(headers) : headers'[i] = headers[i] /\ headers[i] \in Header
    BY <1>1, <1>3
  <2> QED BY <2>1, HeaderSection DEF Section
<1>7. ASSUME NEW i \in 1..Len(headers)
      PROVE  /\ headers'[i].vaddr % stub.section_align = 0
             /\ max_va_end(stub) <= headers'[i].vaddr
             /\ headers'[i].vaddr + headers'[i].vsize <= vma
             /\ headers'[i].vaddr + headers'[i].rsize <= vma
             /\ headers'[i].vaddr + headers'[i].vsize <= vma'
             /\ headers'[i].vaddr + headers'[i].rsize <= vma'
  BY <1>1, <1>3, <1>5, <1>6
<1> QED BY <1>1, <1>3, <1>4, <1>5, <1>6, <1>7

LEMMA InvStep == Inv /\ [Next]_vars => Inv'
<1> SUFFICES ASSUME Inv, [Next]_vars PROVE Inv'
  OBVIOUS
<1>1. TypeOK'
  BY TypeStep DEF Inv
<1>2. CASE parse
  <2>1. ImageInv'
    BY <1>2 DEF parse, Inv, ImageInv, TypeOK
  <2> QED BY <1>1, <1>2, <2>1, ParseStep DEF Inv
<1>3. CASE append_section
  <2>1. ImageInv'
    BY <1>3 DEF append_section, Inv, ImageInv, TypeOK
  <2> QED BY <1>1, <1>3, <2>1, AppendLoop, AppendFile, AppendMemory DEF Inv
<1>4. CASE finish
  <2>1. ImageInv'
    BY <1>4 DEF finish, within_limits, ImageInv
  <2> QED BY <1>1, <1>4, <2>1 DEF finish, Inv, LoopInv, FileInv, MemoryInv, Placing
<1>5. CASE build_err
  BY <1>1, <1>5 DEF build_err, Inv, LoopInv, FileInv, MemoryInv, ImageInv, Placing, TypeOK
<1>6. CASE UNCHANGED vars
  <2>1. LoopInv' /\ ImageInv'
    BY <1>6 DEF vars, Inv, LoopInv, ImageInv, Placing
  <2>2. FileInv'
    BY <1>6 DEF vars, Inv, FileInv, Placing
  <2>3. MemoryInv'
    BY <1>6 DEF vars, Inv, MemoryInv, Placing
  <2> QED BY <1>1, <2>1, <2>2, <2>3 DEF Inv
<1> QED BY <1>2, <1>3, <1>4, <1>5, <1>6 DEF Next

LEMMA InitInv == Init => Inv
<1> SUFFICES ASSUME Init PROVE Inv
  OBVIOUS
<1>1. TypeOK
  BY UkiAssumption DEF Init, TypeOK
<1> QED BY <1>1 DEF Init, Inv, LoopInv, FileInv, MemoryInv, ImageInv, Placing

LEMMA InvHolds == Spec => []Inv
BY InitInv, InvStep, PTL DEF Spec

-----------------------------------------------------------------------------
(* The finished image.                                                     *)

\* The sections of a finished image: the stub's, then the new ones.
LEMMA FinishedSections ==
  ASSUME Inv, image # None,
         NEW S, S = image.sections, NEW n, n = Len(stub.sections)
  PROVE  /\ stub \in Stubs /\ spec \in Specs /\ stub.pe
         /\ n \in Nat /\ DOMAIN stub.sections = 1..n
         /\ DOMAIN S = 1..Len(S) /\ Len(S) = n + Len(headers)
         /\ Len(headers) = Len(Sections(spec)) /\ Len(headers) \in Nat
         /\ \A i \in 1..n : S[i] = stub.sections[i] /\ S[i] \in Section
         /\ \A i \in 1..Len(headers) : S[n + i] = headers[i] /\ headers[i] \in Section
         /\ len \in Nat /\ len < Word /\ image.len = len /\ vma \in Nat
         /\ image.size_of_image = vma % Word
         /\ Placing
<1>1. /\ pc = "done" /\ todo = <<>> /\ len < Word
      /\ image = [sections |-> stub.sections \o headers,
                  size_of_image |-> vma % Word, len |-> len]
  BY DEF Inv, ImageInv
<1>2. /\ stub \in Stubs /\ spec \in Specs /\ len \in Nat /\ vma \in Nat
      /\ headers \in Seq(Header)
  BY DEF Inv, TypeOK, Header
<1>3. S = stub.sections \o headers /\ image.len = len /\ image.size_of_image = vma % Word
  BY <1>1
<1>4. /\ stub.sections \in Seq(Section) /\ DOMAIN stub.sections = 1..n /\ n \in Nat
      /\ headers \in Seq(Section)
  BY <1>2, StubType, HeaderSection
<1>5. /\ DOMAIN S = 1..Len(S) /\ Len(S) = n + Len(headers) /\ Len(headers) \in Nat
      /\ \A i \in 1..n : S[i] = stub.sections[i] /\ stub.sections[i] \in Section
      /\ \A i \in 1..Len(headers) : S[n + i] = headers[i] /\ headers[i] \in Section
  BY <1>3, <1>4
<1>6. stub.pe /\ Len(headers) + Len(todo) = Len(Sections(spec))
  BY <1>1 DEF Inv, LoopInv, Placing
<1>7. Len(headers) = Len(Sections(spec))
  BY <1>1, <1>5, <1>6
<1> QED BY <1>1, <1>2, <1>3, <1>4, <1>5, <1>6, <1>7 DEF Placing

LEMMA FileLayoutHolds == Inv => FileLayout
<1> SUFFICES ASSUME Inv, image # None PROVE FileLayout
  BY DEF FileLayout
<1> DEFINE S == image.sections
           n == Len(stub.sections)
           m == Len(headers)
<1>1. /\ stub \in Stubs /\ spec \in Specs /\ stub.pe /\ n \in Nat /\ DOMAIN stub.sections = 1..n
      /\ DOMAIN S = 1..Len(S) /\ Len(S) = n + m /\ m = Len(Sections(spec)) /\ m \in Nat
      /\ \A i \in 1..n : S[i] = stub.sections[i] /\ S[i] \in Section
      /\ \A i \in 1..m : S[n + i] = headers[i] /\ headers[i] \in Section
      /\ len \in Nat /\ len < Word /\ image.len = len /\ Placing
  BY FinishedSections
<1>2. \A i \in 1..m :
        /\ headers[i].vsize = Sections(spec)[i]
        /\ stub.len <= headers[i].rptr
        /\ headers[i].rptr + headers[i].rsize <= len
        /\ \A j \in 1..m : i < j => headers[i].rptr + headers[i].rsize <= headers[j].rptr
  BY <1>1 DEF Inv, FileInv
<1>3. /\ stub.len <= len /\ stub.len \in Nat
      /\ table_end(stub, m) <= header_ceiling(stub)
  BY <1>1, StubType DEF Inv, LoopInv, fits
<1>4. table_end(stub, m) \in Nat
  <2>1. stub.sect_table \in Nat /\ SECTION_HEADER_SIZE \in Nat /\ n + m \in Nat
    BY <1>1, StubType, UkiAssumption
  <2>2. (n + m) * SECTION_HEADER_SIZE \in Nat
    <3> HIDE DEF n, m
    <3> QED BY <2>1
  <2>3. table_end(stub, m) = stub.sect_table + (n + m) * SECTION_HEADER_SIZE
    BY DEF table_end
  <2> QED BY <2>1, <2>2, <2>3
<1>5. /\ header_ceiling(stub) \in Nat /\ header_ceiling(stub) <= stub.len
      /\ \A i \in 1..n : S[i].rptr > 0 => header_ceiling(stub) <= S[i].rptr
      /\ \A i \in 1..n : S[i].rptr > 0 => S[i].rptr + S[i].rsize <= stub.len
      /\ \A i, j \in 1..n : i < j /\ S[i].rptr > 0 /\ S[j].rptr > 0 =>
           S[i].rptr + S[i].rsize <= S[j].rptr \/ S[j].rptr + S[j].rsize <= S[i].rptr
  <2>1. /\ header_ceiling(stub) \in Nat /\ header_ceiling(stub) <= stub.size_of_headers
        /\ stub.size_of_headers <= stub.len /\ stub.size_of_headers \in Nat
    BY <1>1, StubType, StubLayout, HeaderCeiling
  <2>2. header_ceiling(stub) <= stub.len
    BY <1>3, <2>1
  <2>3. \A i \in 1..n : S[i].rptr > 0 => header_ceiling(stub) <= S[i].rptr
    BY <1>1, HeaderCeiling
  <2>4. \A i \in 1..n : S[i].rptr > 0 => S[i].rptr + S[i].rsize <= stub.len
    BY <1>1, StubLayout
  <2>5. \A i, j \in 1..n : i < j /\ S[i].rptr > 0 /\ S[j].rptr > 0 =>
           S[i].rptr + S[i].rsize <= S[j].rptr \/ S[j].rptr + S[j].rsize <= S[i].rptr
    <3>1. \A i \in 1..n : S[i] = stub.sections[i]
      BY <1>1
    <3> HIDE DEF S, n
    <3> QED BY <1>1, <3>1, StubLayout
  <2> QED BY <2>1, <2>2, <2>3, <2>4, <2>5
<1> HIDE DEF S, n, m
<1>6. \A i \in 1..Len(S) :
        /\ S[i] \in Section
        /\ i \in 1..n \/ (i > n /\ i - n \in 1..m /\ S[i] = headers[i - n])
  <2> SUFFICES ASSUME NEW i \in 1..Len(S)
               PROVE  /\ S[i] \in Section
                      /\ i \in 1..n \/ (i > n /\ i - n \in 1..m /\ S[i] = headers[i - n])
    OBVIOUS
  <2>1. CASE i \in 1..n
    BY <1>1, <2>1
  <2>2. CASE i \notin 1..n
    <3>1. i > n /\ i - n \in 1..m /\ n + (i - n) = i
      BY <1>1, <2>2
    <3>2. S[i] = headers[i - n] /\ headers[i - n] \in Section
      BY <1>1, <3>1
    <3> QED BY <3>1, <3>2
  <2> QED BY <2>1, <2>2
<1>7. \A i \in 1..Len(S) : S[i].rptr \in Nat /\ S[i].rsize \in Nat
  <2>1. \A i \in 1..Len(S) : S[i] \in Section
    BY <1>6
  <2> QED BY <2>1 DEF Section
<1>8. ASSUME NEW i \in 1..Len(S), S[i].rptr > 0
      PROVE  table_end(stub, m) <= S[i].rptr /\ S[i].rptr + S[i].rsize <= len
  <2>1. S[i].rptr \in Nat /\ S[i].rsize \in Nat
    BY <1>7
  <2>2. CASE i \in 1..n
    <3>1. header_ceiling(stub) <= S[i].rptr /\ S[i].rptr + S[i].rsize <= stub.len
      BY <1>5, <1>8, <2>2
    <3> QED BY <1>1, <1>3, <1>4, <1>5, <2>1, <3>1
  <2>3. CASE i \notin 1..n
    <3>1. i - n \in 1..m /\ S[i] = headers[i - n]
      BY <1>6, <2>3
    <3>2. stub.len <= S[i].rptr /\ S[i].rptr + S[i].rsize <= len
      BY <1>2, <3>1
    <3> QED BY <1>3, <1>4, <1>5, <2>1, <3>2
  <2> QED BY <2>2, <2>3
<1>9. ASSUME NEW i \in 1..Len(S), NEW j \in 1..Len(S), i < j, S[i].rptr > 0, S[j].rptr > 0
      PROVE  S[i].rptr + S[i].rsize <= S[j].rptr \/ S[j].rptr + S[j].rsize <= S[i].rptr
  <2>1. CASE j \in 1..n
    BY <1>1, <1>5, <1>9, <2>1
  <2>2. CASE i \in 1..n /\ j \notin 1..n
    <3>1. S[i].rptr + S[i].rsize <= stub.len
      BY <1>5, <1>9, <2>2
    <3>2. stub.len <= S[j].rptr
      BY <1>2, <1>6, <2>2
    <3>3. S[i].rptr \in Nat /\ S[i].rsize \in Nat /\ S[j].rptr \in Nat
      BY <1>7
    <3> QED BY <1>3, <3>1, <3>2, <3>3
  <2>3. CASE i \notin 1..n /\ j \notin 1..n
    <3>1. /\ i - n \in 1..m /\ S[i] = headers[i - n]
          /\ j - n \in 1..m /\ S[j] = headers[j - n] /\ i - n < j - n
      BY <1>1, <1>6, <1>9, <2>3
    <3> QED BY <1>2, <3>1
  <2> QED BY <1>1, <1>9, <2>1, <2>2, <2>3
<1>10. [i \in 1..Len(Sections(spec)) |-> S[n + i].vsize] = Sections(spec)
  <2>1. Sections(spec) \in Seq(Nat)
    BY <1>1, SectionsType
  <2>2. \A i \in 1..m : S[n + i].vsize = Sections(spec)[i]
    BY <1>1, <1>2
  <2>3. PICK q \in Seq(Nat) : q = Sections(spec)
    BY <2>1
  <2>4. q = [i \in 1..Len(q) |-> q[i]]
    OBVIOUS
  <2>5. Len(q) = m
    BY <1>1, <2>3
  <2>6. \A i \in 1..Len(q) : S[n + i].vsize = q[i]
    BY <2>2, <2>3, <2>5
  <2>7. [i \in 1..Len(q) |-> S[n + i].vsize] = [i \in 1..Len(q) |-> q[i]]
    BY <2>6
  <2> QED BY <2>3, <2>4, <2>7
<1>11. Len(S) - n = m
  BY <1>1
<1> QED BY <1>1, <1>8, <1>9, <1>10, <1>11 DEF FileLayout, S, n

LEMMA MemoryLayoutHolds == Inv /\ vma < Word => MemoryLayout
<1> SUFFICES ASSUME Inv, vma < Word, image # None PROVE MemoryLayout
  BY DEF MemoryLayout
<1> DEFINE S == image.sections
           n == Len(stub.sections)
           m == Len(headers)
<1>1. /\ stub \in Stubs /\ n \in Nat /\ DOMAIN stub.sections = 1..n
      /\ DOMAIN S = 1..Len(S) /\ Len(S) = n + m /\ m \in Nat
      /\ \A i \in 1..n : S[i] = stub.sections[i] /\ S[i] \in Section
      /\ \A i \in 1..m : S[n + i] = headers[i] /\ headers[i] \in Section
      /\ len < Word /\ vma \in Nat /\ image.size_of_image = vma % Word /\ Placing
  BY FinishedSections
<1>2. \A i \in 1..m :
        /\ headers[i].vaddr % stub.section_align = 0
        /\ max_va_end(stub) <= headers[i].vaddr
        /\ headers[i].vaddr + headers[i].vsize <= vma
        /\ headers[i].vaddr + headers[i].rsize <= vma
        /\ \A j \in 1..m : i < j =>
             /\ headers[i].vaddr + headers[i].vsize <= headers[j].vaddr
             /\ headers[i].vaddr + headers[i].rsize <= headers[j].vaddr
  BY <1>1 DEF Inv, MemoryInv
<1>3. /\ max_va_end(stub) \in Nat
      /\ \A i \in 1..n : S[i].vaddr + Extent(S[i]) <= max_va_end(stub)
  BY <1>1, MaxVaEnd
<1>4. image.size_of_image = vma
  BY <1>1, SmallMod, UkiAssumption
<1> HIDE DEF S, n, m
<1>5. ASSUME NEW j \in 1..Len(S), j > n
      PROVE  j - n \in 1..m /\ S[j] = headers[j - n] /\ S[j] \in Section
  <2>1. j - n \in 1..m /\ n + (j - n) = j
    BY <1>1, <1>5
  <2> QED BY <1>1, <2>1
<1>6. ASSUME NEW s \in Section, NEW z \in Nat, s.vaddr + s.vsize <= z, s.vaddr + s.rsize <= z
      PROVE  s.vaddr + Extent(s) <= z
  <2>1. s.vaddr \in Nat /\ s.vsize \in Nat /\ s.rsize \in Nat
    BY DEF Section
  <2>2. s.vsize <= z - s.vaddr /\ s.rsize <= z - s.vaddr /\ z - s.vaddr \in Nat
    BY <1>6, <2>1
  <2>3. Extent(s) <= z - s.vaddr /\ Extent(s) \in Nat
    BY <2>1, <2>2, MaxOfTwo DEF Extent
  <2> QED BY <2>1, <2>3
<1>7. ASSUME NEW i \in 1..Len(S), NEW j \in 1..Len(S), i < j, j > n
      PROVE  S[i].vaddr + Extent(S[i]) <= S[j].vaddr
  <2>1. j - n \in 1..m /\ S[j] = headers[j - n] /\ S[j].vaddr \in Nat
    BY <1>5, <1>7 DEF Section
  <2>2. CASE i \in 1..n
    <3>1. /\ S[i].vaddr + Extent(S[i]) <= max_va_end(stub) /\ max_va_end(stub) <= S[j].vaddr
          /\ S[i].vaddr \in Nat /\ S[i].vsize \in Nat /\ S[i].rsize \in Nat
      BY <1>1, <1>2, <1>3, <2>1, <2>2 DEF Section
    <3>2. Extent(S[i]) \in Nat
      BY <3>1, MaxOfTwo DEF Extent
    <3> QED BY <1>3, <2>1, <3>1, <3>2
  <2>3. CASE i \notin 1..n
    <3>1. i > n
      BY <1>1, <2>3
    <3>2. i - n \in 1..m /\ S[i] = headers[i - n] /\ S[i] \in Section
      BY <1>5, <3>1
    <3>3. i - n < j - n
      BY <1>1, <1>7
    <3>4. S[i].vaddr + S[i].vsize <= S[j].vaddr /\ S[i].vaddr + S[i].rsize <= S[j].vaddr
      BY <1>2, <2>1, <3>2, <3>3
    <3> QED BY <1>6, <2>1, <3>2, <3>4
  <2> QED BY <2>2, <2>3
<1>8. ASSUME NEW j \in 1..Len(S), j > n
      PROVE  S[j].vaddr % stub.section_align = 0 /\ S[j].vaddr + Extent(S[j]) <= vma
  <2>1. j - n \in 1..m /\ S[j] = headers[j - n] /\ S[j] \in Section
    BY <1>5, <1>8
  <2>2. /\ S[j].vaddr % stub.section_align = 0
        /\ S[j].vaddr + S[j].vsize <= vma /\ S[j].vaddr + S[j].rsize <= vma
    BY <1>2, <2>1
  <2> QED BY <1>1, <1>6, <2>1, <2>2
<1> QED BY <1>1, <1>4, <1>7, <1>8 DEF MemoryLayout, S, n

-----------------------------------------------------------------------------
(* The length of the file.                                                 *)

Pad(n) == align_up(n, stub.file_align)

\* The i-th section, padded, if it is one of the first k.
Share(k, i) == IF i <= k THEN Pad(Sections(spec)[i]) ELSE 0

Shares(k) == Share(k, 1) + Share(k, 2) + Share(k, 3) + Share(k, 4) + Share(k, 5)

\* What has been placed is the stub and the sections so far, each padded.
SizeInv ==
  Placing => /\ Pad(len) = Pad(stub.len) + Shares(Len(headers))
             /\ Len(headers) > 0 => len = Pad(len)

\* A call that has ended did so according to what it was given.
OutcomeInv ==
  /\ pc = "done" => Fitting(stub, spec)
  /\ pc = "failed" => ~ Fitting(stub, spec)

\* Two sequences, one behind the other.
LEMMA ConcatAt ==
  ASSUME NEW p \in Seq(Nat), NEW q \in Seq(Nat), NEW r, r = p \o q
  PROVE  /\ Len(r) = Len(p) + Len(q)
         /\ \A i \in 1..Len(p) : r[i] = p[i]
         /\ \A i \in 1..Len(q) : r[Len(p) + i] = q[i]
OBVIOUS

\* The sections that are added, one by one.
LEMMA SectionsAre ==
  ASSUME NEW sp \in Specs, NEW s, s = Sections(sp)
  PROVE  /\ sp.uname = None => Len(s) = 4 /\ s[1] = sp.osrel /\ s[2] = sp.cmdline
                               /\ s[3] = sp.linux /\ s[4] = sp.initrd
         /\ sp.uname # None => Len(s) = 5 /\ s[1] = sp.osrel /\ s[2] = sp.cmdline
                               /\ s[3] = sp.uname /\ s[4] = sp.linux /\ s[5] = sp.initrd
<1>1. sp \in UkiSpec
  BY UkiAssumption
<1>a. /\ sp.osrel \in Nat /\ sp.cmdline \in Nat /\ sp.linux \in Nat /\ sp.initrd \in Nat
      /\ sp.uname # None => sp.uname \in Nat
  BY <1>1 DEF UkiSpec
<1>b. <<sp.osrel, sp.cmdline>> \in Seq(Nat) /\ <<sp.linux, sp.initrd>> \in Seq(Nat)
  BY <1>a
<1>2. PICK u \in Seq(Nat) : u = <<sp.osrel, sp.cmdline>>
  BY <1>b
<1>3. PICK w \in Seq(Nat) : w = <<sp.linux, sp.initrd>>
  BY <1>b
<1>4. /\ Len(u) = 2 /\ u[1] = sp.osrel /\ u[2] = sp.cmdline
      /\ Len(w) = 2 /\ w[1] = sp.linux /\ w[2] = sp.initrd
  BY <1>2, <1>3
<1>5. CASE sp.uname = None
  <2>1. s = (u \o <<>>) \o w
    BY <1>2, <1>3, <1>5 DEF Sections
  <2>2. u \o <<>> = u
    OBVIOUS
  <2>3. s = u \o w
    BY <2>1, <2>2
  <2>4. /\ Len(s) = Len(u) + Len(w)
        /\ \A i \in 1..Len(u) : s[i] = u[i]
        /\ \A i \in 1..Len(w) : s[Len(u) + i] = w[i]
    BY <2>3, ConcatAt
  <2>5. Len(s) = 4 /\ s[1] = u[1] /\ s[2] = u[2]
    BY <1>4, <2>4
  <2>6. s[2 + 1] = w[1] /\ s[2 + 2] = w[2]
    BY <1>4, <2>4
  <2> QED BY <1>4, <1>5, <2>5, <2>6
<1>6. CASE sp.uname # None
  <2>a. <<sp.uname>> \in Seq(Nat)
    BY <1>a, <1>6
  <2>1. PICK m \in Seq(Nat) : m = <<sp.uname>>
    BY <2>a
  <2>2. Len(m) = 1 /\ m[1] = sp.uname
    BY <2>1
  <2>3. s = (u \o m) \o w
    BY <1>2, <1>3, <1>6, <2>1 DEF Sections
  <2>b. u \o m \in Seq(Nat)
    OBVIOUS
  <2>4. PICK v \in Seq(Nat) : v = u \o m
    BY <2>b
  <2>5. Len(v) = 3 /\ v[1] = sp.osrel /\ v[2] = sp.cmdline /\ v[3] = sp.uname
    <3>1. /\ Len(v) = Len(u) + Len(m)
          /\ \A i \in 1..Len(u) : v[i] = u[i]
          /\ \A i \in 1..Len(m) : v[Len(u) + i] = m[i]
      BY <2>4, ConcatAt
    <3>2. Len(v) = 3 /\ v[1] = u[1] /\ v[2] = u[2]
      BY <1>4, <2>2, <3>1
    <3>3. v[2 + 1] = m[1]
      BY <1>4, <2>2, <3>1
    <3> QED BY <1>4, <2>2, <3>2, <3>3
  <2>6. s = v \o w
    BY <2>3, <2>4
  <2>7. /\ Len(s) = Len(v) + Len(w)
        /\ \A i \in 1..Len(v) : s[i] = v[i]
        /\ \A i \in 1..Len(w) : s[Len(v) + i] = w[i]
    BY <2>6, ConcatAt
  <2>8. Len(s) = 5 /\ s[1] = v[1] /\ s[2] = v[2] /\ s[3] = v[3]
    BY <1>4, <2>5, <2>7
  <2>9. s[3 + 1] = w[1] /\ s[3 + 2] = w[2]
    BY <1>4, <2>5, <2>7
  <2> QED BY <1>4, <1>6, <2>5, <2>8, <2>9
<1> QED BY <1>5, <1>6

\* Multiples stay multiples, and are their own padding.
LEMMA AlignedSum ==
  ASSUME NEW a \in Nat \ {0}, NEW x \in Nat, NEW y \in Nat
  PROVE  align_up(align_up(x, a) + align_up(y, a), a) = align_up(x, a) + align_up(y, a)
<1>1. PICK u \in Nat : u = align_up(x, a) /\ u % a = 0
  BY AlignUp
<1>2. PICK v \in Nat : v = align_up(y, a) /\ v % a = 0
  BY AlignUp
<1>3. (u + v) % a = 0
  <2>1. PICK p \in Nat : u = p * a
    BY <1>1, ModMultiple
  <2>2. PICK q \in Nat : v = q * a
    BY <1>2, ModMultiple
  <2>3. u + v = (p + q) * a /\ p + q \in Nat
    BY <2>1, <2>2
  <2> QED BY <2>3, MultipleMod
<1>4. align_up(u + v, a) \in Nat /\ u + v <= align_up(u + v, a) /\ align_up(u + v, a) <= u + v
  BY <1>3, AlignUp
<1> QED BY <1>1, <1>2, <1>4

LEMMA SizeStep == TypeOK /\ LoopInv /\ SizeInv /\ [Next]_vars => SizeInv'
<1> SUFFICES ASSUME TypeOK, LoopInv, SizeInv, [Next]_vars PROVE SizeInv'
  OBVIOUS
<1>1. CASE parse
  <2>1. /\ len' = stub.len /\ UNCHANGED <<stub, spec>> /\ Len(headers') = 0
        /\ Pad(stub.len) \in Nat
    BY <1>1, StubType, AlignUp DEF parse, LoopInv, TypeOK, Pad
  <2>2. Shares(Len(headers))' = 0
    BY <2>1 DEF Shares, Share
  <2> QED BY <2>1, <2>2 DEF SizeInv, Pad
<1>2. CASE append_section
  <2> DEFINE n == Head(todo)
             rptr == align_up(len, stub.file_align)
             rsize == align_up(n, stub.file_align)
             h == [vaddr |-> vma % Word, vsize |-> n % Word,
                   rptr |-> rptr % Word, rsize |-> rsize % Word]
             k == Len(headers)
  <2>1. /\ n \in Nat /\ rptr \in Nat /\ rsize \in Nat /\ len' = rptr + rsize
        /\ n = Sections(spec)[k + 1]
        /\ h \in Header /\ headers' = Append(headers, h) /\ todo \in Seq(Nat) /\ todo # <<>>
        /\ UNCHANGED <<stub, spec, pc, image>>
    BY <1>2, AppendEffect
  <2>2. /\ headers \in Seq(Header) /\ spec \in Specs /\ stub \in Stubs /\ len \in Nat
        /\ k + Len(todo) = Len(Sections(spec)) /\ Placing
        /\ Pad(len) = Pad(stub.len) + Shares(k)
        /\ stub.file_align \in Nat \ {0} /\ stub.len \in Nat
    BY <1>2, StubType DEF TypeOK, Header, LoopInv, Placing, append_section, SizeInv
  <2>3. k \in 0..4
    <3>1. Len(Sections(spec)) \in {4, 5}
      BY <2>2, SectionsAre
    <3>2. Len(todo) \in Nat /\ Len(todo) > 0 /\ k \in Nat
      BY <2>1, <2>2
    <3>3. PICK p \in Nat, q \in Nat : p = k /\ q = Len(todo) /\ q > 0
      BY <3>2
    <3>4. p + q \in {4, 5}
      BY <2>2, <3>1, <3>3
    <3>5. p \in 0..4
      BY <3>3, <3>4
    <3> QED BY <3>3, <3>5
  <2>4. rptr = Pad(stub.len) + Shares(k) /\ rsize = Pad(Sections(spec)[k + 1])
    BY <2>1, <2>2 DEF Pad
  <2>5. Pad(len') = len'
    BY <2>1, <2>2, AlignedSum DEF Pad
  <2> HIDE DEF n, rptr, rsize, h
  <2>6. Len(headers') = k + 1
    BY <2>1, <2>2
  <2> HIDE DEF k
  <2>7. ASSUME NEW i \in 1..5, i <= k PROVE Pad(Sections(spec)[i]) \in Nat
    <3>1. Sections(spec)[i] \in Nat
      BY <2>2, <2>3, <2>7, SectionsType
    <3> QED BY <2>2, <3>1, AlignUp DEF Pad
  <2>8. Shares(k + 1) = Shares(k) + rsize
    <3>1. \A i \in 1..5 : Share(k, i) \in Nat
      BY <2>3, <2>7 DEF Share
    <3>2. \A i \in 1..5 : i # k + 1 => Share(k + 1, i) = Share(k, i)
      BY <2>3 DEF Share
    <3>3. Share(k, k + 1) = 0 /\ Share(k + 1, k + 1) = rsize
      BY <2>3, <2>4 DEF Share
    <3>5. PICK p1 \in Nat, p2 \in Nat, p3 \in Nat, p4 \in Nat, p5 \in Nat, r \in Nat :
            /\ p1 = Share(k, 1) /\ p2 = Share(k, 2) /\ p3 = Share(k, 3)
            /\ p4 = Share(k, 4) /\ p5 = Share(k, 5) /\ r = rsize
      BY <2>1, <3>1
    <3>6. /\ k # 0 => Share(k + 1, 1) = p1
          /\ k # 1 => Share(k + 1, 2) = p2
          /\ k # 2 => Share(k + 1, 3) = p3
          /\ k # 3 => Share(k + 1, 4) = p4
          /\ k # 4 => Share(k + 1, 5) = p5
      BY <2>3, <3>2, <3>5
    <3>7. /\ k = 0 => p1 = 0 /\ Share(k + 1, 1) = r
          /\ k = 1 => p2 = 0 /\ Share(k + 1, 2) = r
          /\ k = 2 => p3 = 0 /\ Share(k + 1, 3) = r
          /\ k = 3 => p4 = 0 /\ Share(k + 1, 4) = r
          /\ k = 4 => p5 = 0 /\ Share(k + 1, 5) = r
      BY <3>3, <3>5
    <3>8. Shares(k) = p1 + p2 + p3 + p4 + p5
      BY <3>5 DEF Shares
    <3>9. Share(k + 1, 1) + Share(k + 1, 2) + Share(k + 1, 3) + Share(k + 1, 4) + Share(k + 1, 5)
            = p1 + p2 + p3 + p4 + p5 + r
      BY <2>3, <3>6, <3>7
    <3> QED BY <3>5, <3>8, <3>9 DEF Shares
  <2>9. Pad(stub.len) \in Nat /\ Shares(k) \in Nat
    <3>1. \A i \in 1..5 : Share(k, i) \in Nat
      BY <2>3, <2>7 DEF Share
    <3>2. /\ Share(k, 1) \in Nat /\ Share(k, 2) \in Nat /\ Share(k, 3) \in Nat
          /\ Share(k, 4) \in Nat /\ Share(k, 5) \in Nat
      BY <3>1
    <3>3. Shares(k) \in Nat
      BY <3>2 DEF Shares
    <3> QED BY <2>2, <3>3, AlignUp DEF Pad
  <2>10. len' = Pad(stub.len) + Shares(k + 1)
    BY <2>1, <2>4, <2>8, <2>9
  <2>11. Pad(len)' = Pad(len') /\ Pad(stub.len)' = Pad(stub.len)
         /\ Shares(Len(headers))' = Shares(k + 1)
    BY <2>1, <2>6 DEF Pad, Shares, Share
  <2> QED BY <2>5, <2>10, <2>11 DEF SizeInv
<1>3. CASE finish
  BY <1>3 DEF finish, SizeInv, Placing, Pad, Shares, Share
<1>4. CASE build_err
  BY <1>4 DEF build_err, SizeInv, Placing
<1>5. CASE UNCHANGED vars
  BY <1>5 DEF vars, SizeInv, Placing, Pad, Shares, Share
<1> QED BY <1>1, <1>2, <1>3, <1>4, <1>5 DEF Next

\* When everything has been placed, the file has the length that was to be
\* expected, and whether it fits is what the limits say.
LEMMA PlacedSize ==
  ASSUME TypeOK, LoopInv, SizeInv, pc = "append", todo = <<>>
  PROVE  Fitting(stub, spec) <=> within_limits
<1>1. /\ stub \in Stubs /\ spec \in Specs /\ len \in Nat /\ Len(headers) = Len(Sections(spec))
      /\ stub.pe /\ fits(stub, Len(Sections(spec)))
      /\ Pad(len) = Pad(stub.len) + Shares(Len(headers))
      /\ Len(headers) > 0 => len = Pad(len)
  <2>1. headers \in Seq(Header) /\ Len(todo) = 0
    BY DEF TypeOK, Header
  <2>2. Len(headers) + Len(todo) = Len(Sections(spec)) /\ Len(headers) \in Nat
    BY <2>1 DEF LoopInv, Placing
  <2> QED BY <2>1, <2>2 DEF TypeOK, LoopInv, SizeInv, Placing
<1>2. len = FileSize(stub, spec)
  <2> DEFINE s == Sections(spec)
  <2>1. /\ spec.uname = None => Len(s) = 4 /\ s[1] = spec.osrel /\ s[2] = spec.cmdline
                               /\ s[3] = spec.linux /\ s[4] = spec.initrd
        /\ spec.uname # None => Len(s) = 5 /\ s[1] = spec.osrel /\ s[2] = spec.cmdline
                               /\ s[3] = spec.uname /\ s[4] = spec.linux /\ s[5] = spec.initrd
    BY <1>1, SectionsAre
  <2>2. len = Pad(stub.len) + Shares(Len(s))
    BY <1>1, <2>1
  <2>3. /\ spec \in UkiSpec /\ stub.file_align \in Nat \ {0} /\ stub.len \in Nat
    BY <1>1, StubType, UkiAssumption
  <2>4. /\ Pad(stub.len) \in Nat /\ Pad(spec.osrel) \in Nat /\ Pad(spec.cmdline) \in Nat
        /\ Pad(spec.linux) \in Nat /\ Pad(spec.initrd) \in Nat
        /\ spec.uname # None => Pad(spec.uname) \in Nat
    BY <2>3, AlignUp DEF Pad, UkiSpec
  <2>5. FileSize(stub, spec) = Pad(stub.len) + Pad(spec.osrel) + Pad(spec.cmdline)
          + (IF spec.uname = None THEN 0 ELSE Pad(spec.uname)) + Pad(spec.linux) + Pad(spec.initrd)
    BY DEF FileSize, Pad
  <2> HIDE DEF s
  <2>6. CASE spec.uname = None
    <3>1. Shares(4) = Pad(spec.osrel) + Pad(spec.cmdline) + Pad(spec.linux) + Pad(spec.initrd) + 0
      BY <2>1, <2>6 DEF Shares, Share, s
    <3>2. len = Pad(stub.len) + Shares(4)
      BY <2>1, <2>2, <2>6
    <3>3. FileSize(stub, spec) = Pad(stub.len) + Pad(spec.osrel) + Pad(spec.cmdline) + 0
                                 + Pad(spec.linux) + Pad(spec.initrd)
      BY <2>5, <2>6
    <3> QED BY <2>4, <3>1, <3>2, <3>3
  <2>7. CASE spec.uname # None
    <3>1. Shares(5) = Pad(spec.osrel) + Pad(spec.cmdline) + Pad(spec.uname) + Pad(spec.linux)
                      + Pad(spec.initrd)
      BY <2>1, <2>7 DEF Shares, Share, s
    <3>2. len = Pad(stub.len) + Shares(5)
      BY <2>1, <2>2, <2>7
    <3>3. FileSize(stub, spec) = Pad(stub.len) + Pad(spec.osrel) + Pad(spec.cmdline)
                                 + Pad(spec.uname) + Pad(spec.linux) + Pad(spec.initrd)
      BY <2>5, <2>7
    <3>4. Pad(spec.uname) \in Nat
      BY <2>4, <2>7
    <3> QED BY <2>4, <3>1, <3>2, <3>3, <3>4
  <2> QED BY <2>6, <2>7
<1>3. Len(Sections(spec)) \in Nat
  BY <1>1, SectionsType
<1> QED BY <1>1, <1>2, <1>3, Fits DEF Fitting, within_limits

LEMMA OutcomeStep ==
  TypeOK /\ LoopInv /\ SizeInv /\ OutcomeInv /\ [Next]_vars => OutcomeInv'
<1> SUFFICES ASSUME TypeOK, LoopInv, SizeInv, OutcomeInv, [Next]_vars PROVE OutcomeInv'
  OBVIOUS
<1>1. CASE parse
  BY <1>1 DEF parse, OutcomeInv
<1>2. CASE append_section
  BY <1>2 DEF append_section, OutcomeInv
<1>3. CASE finish
  BY <1>3, PlacedSize DEF finish, OutcomeInv
<1>4. CASE build_err
  <2>1. CASE pc = "append"
    BY <1>4, <2>1, PlacedSize DEF build_err, OutcomeInv
  <2>2. CASE pc = "parse" /\ ~ (parses(stub) /\ fits(stub, Len(Sections(spec))))
    <3> SUFFICES ASSUME Fitting(stub, spec) PROVE FALSE
      BY <1>4 DEF build_err, OutcomeInv
    <3>1. stub \in Stubs /\ Len(Sections(spec)) \in Nat
      BY SectionsType DEF TypeOK
    <3>2. stub.pe /\ fits(stub, Len(Sections(spec)))
      BY <3>1, Fits DEF Fitting
    <3>3. /\ table_end(stub, 0) <= table_end(stub, Len(Sections(spec)))
          /\ table_end(stub, Len(Sections(spec))) <= stub.size_of_headers
          /\ stub.size_of_headers <= stub.len /\ stub.size_of_headers \in Nat /\ stub.len \in Nat
          /\ table_end(stub, Len(Sections(spec))) \in Nat /\ table_end(stub, 0) \in Nat
      BY <3>1, <3>2, Fits, StubLayout, StubType DEF Fitting
    <3>4. parses(stub)
      BY <3>2, <3>3 DEF parses
    <3> QED BY <2>2, <3>2, <3>4
  <2> QED BY <1>4, <2>1, <2>2 DEF build_err
<1>5. CASE UNCHANGED vars
  BY <1>5 DEF vars, OutcomeInv
<1> QED BY <1>1, <1>2, <1>3, <1>4, <1>5 DEF Next

LEMMA OutcomeHolds == Spec => [](SizeInv /\ OutcomeInv)
<1>1. Init => SizeInv /\ OutcomeInv
  BY DEF Init, SizeInv, OutcomeInv, Placing
<1>2. Inv /\ SizeInv /\ OutcomeInv /\ [Next]_vars => (SizeInv /\ OutcomeInv)'
  BY SizeStep, OutcomeStep DEF Inv
<1> QED BY <1>1, <1>2, InvHolds, PTL DEF Spec

-----------------------------------------------------------------------------
(* The theorems.                                                           *)

\* An image that uki::build returns has its section table before all data, the
\* data of its sections apart and in the file, and the sizes it was given: the
\* check of the length in the end is enough to keep every offset from wrapping.
THEOREM FileIsLaidOut == Spec => []FileLayout
BY InvHolds, FileLayoutHolds, PTL

\* uki::build returns an image exactly if the stub has room for the headers and
\* the padded file stays below 2^32.
THEOREM BuildsExactlyWhatFits == Spec => []BuildsWhatFits
<1>1. OutcomeInv => BuildsWhatFits
  BY DEF OutcomeInv, BuildsWhatFits
<1> QED BY OutcomeHolds, <1>1, PTL

\* If what is placed ends below 2^32 in memory, which uki::build does not check,
\* then the sections of the image it returns ascend in memory without overlap.
THEOREM MemoryIsLaidOut == Spec => [](vma < Word => MemoryLayout)
<1>1. Inv => (vma < Word => MemoryLayout)
  BY MemoryLayoutHolds
<1> QED BY InvHolds, <1>1, PTL
=============================================================================
