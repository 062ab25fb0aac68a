-------------------------------- MODULE Uki --------------------------------
(***************************************************************************)
(* mkuki's uki::build: sections are appended to a systemd-boot stub, their *)
(* headers in the padding behind the stub's section table, their data at   *)
(* the end of the file, their addresses behind the stub's last section.    *)
(*                                                                         *)
(* Offsets, sizes and addresses are numbers; what the bytes are does not   *)
(* matter here.  A header field is a 32-bit word, the arithmetic is done   *)
(* in 64 bits.                                                             *)
(***************************************************************************)
EXTENDS Naturals, Sequences, FiniteSetsExt

CONSTANTS
  None,
  Word,                 \* 2^32, scaled
  MaxSections,          \* u16::MAX, scaled
  SECTION_HEADER_SIZE,
  Stubs,                \* the stubs that are given
  Specs                 \* the sizes of what is added

\* A section header, of the stub or added.
Section == [vaddr : Nat, vsize : Nat, rptr : Nat, rsize : Nat]

\* A stub as PeView::parse and the loop over its section table read it.  pe:
\* it has the magic numbers of a PE32+ image.
Stub == [pe : BOOLEAN, len : Nat, sect_table : Nat, sections : Seq(Section),
         section_align : Nat \ {0}, file_align : Nat \ {0}, size_of_headers : Nat]

UkiSpec == [osrel : Nat, cmdline : Nat, uname : Nat \cup {None},
            linux : Nat, initrd : Nat]

\* A linker's output: the headers are in the file, sections apart from each
\* other there and in memory, in multiples of the alignments, of which one
\* divides the other.  Where the first data are is left open.
WellFormed(stub) ==
  LET S == {stub.sections[i] : i \in DOMAIN stub.sections}
      apart(x, m, y, n) == x + m <= y \/ y + n <= x
  IN  /\ stub.size_of_headers <= stub.len
      /\ stub.section_align % stub.file_align = 0
      /\ \A s \in S : /\ s.vaddr % stub.section_align = 0
                      /\ s.rptr > 0 => s.rptr + s.rsize <= stub.len
      /\ \A i, j \in DOMAIN stub.sections : i < j =>
           LET s == stub.sections[i]  t == stub.sections[j]
           IN  /\ apart(s.vaddr, Max({s.vsize, s.rsize}), t.vaddr, Max({t.vsize, t.rsize}))
               /\ s.rptr > 0 /\ t.rptr > 0 => apart(s.rptr, s.rsize, t.rptr, t.rsize)

\* What is returned, as far as it is of interest here.
Image == [sections : Seq(Section), size_of_image : Nat, len : Nat]

ASSUME UkiAssumption ==
  /\ Word \in Nat \ {0} /\ MaxSections \in Nat /\ SECTION_HEADER_SIZE \in Nat \ {0}
  /\ None \notin Nat /\ None \notin Image
  /\ \A st \in Stubs : st \in Stub /\ (st.pe => WellFormed(st))
  /\ Specs \subseteq UkiSpec

VARIABLES
  stub, spec,   \* the arguments
  pc,           \* "parse", "append", "done" or "failed"
  todo,         \* sizes of the sections still to be appended
  len,          \* out.len()
  vma,          \* where the next section goes in memory
  headers,      \* the new section headers
  image         \* what is returned

vars == <<stub, spec, pc, todo, len, vma, headers, image>>

-----------------------------------------------------------------------------

\* The mask ! (a - 1) of the code does the same when a is a power of two, which
\* its debug builds assert.
align_up(x, a) == ((x + a - 1) \div a) * a

\* assemble: the sections in their fixed order.
Sections(sp) ==
  <<sp.osrel, sp.cmdline>> \o (IF sp.uname = None THEN <<>> ELSE <<sp.uname>>)
  \o <<sp.linux, sp.initrd>>

\* A plausible bug: a section with more data in the file than in memory is
\* taken for smaller than it is.
max_va_end_vsize(st) ==
  Max({0} \cup {st.sections[i].vaddr + st.sections[i].vsize : i \in DOMAIN st.sections})

max_va_end(st) ==
  Max({0} \cup {st.sections[i].vaddr + Max({st.sections[i].vsize, st.sections[i].rsize}) :
                  i \in DOMAIN st.sections})

\* A plausible bug: the image is trusted on where its headers end.
header_ceiling_claimed(st) == st.size_of_headers

\* The first byte behind the headers: what the image says, or the first
\* section that has data.
header_ceiling(st) ==
  Min({st.size_of_headers} \cup
      {st.sections[i].rptr : i \in {j \in DOMAIN st.sections : st.sections[j].rptr > 0}})

table_end(st, n) == st.sect_table + (Len(st.sections) + n) * SECTION_HEADER_SIZE

parses(st) == st.pe /\ table_end(st, 0) <= st.len

fits(st, n) == table_end(st, n) <= header_ceiling(st)

-----------------------------------------------------------------------------

Init ==
  /\ stub \in Stubs /\ spec \in Specs
  /\ pc = "parse"
  /\ todo = <<>> /\ len = 0 /\ vma = 0 /\ headers = <<>> /\ image = None

\* PeView::parse, the walk over the stub's sections and the room check.
parse ==
  /\ pc = "parse"
  /\ parses(stub) /\ fits(stub, Len(Sections(spec)))
  /\ todo' = Sections(spec)
  /\ len' = stub.len
  /\ vma' = align_up(max_va_end(stub), stub.section_align)
  /\ pc' = "append"
  /\ UNCHANGED <<stub, spec, headers, image>>

\* One section: its data padded to the file alignment, its header, and the
\* address of the next one.
append_section ==
  /\ pc = "append" /\ todo # <<>>
  /\ LET n     == Head(todo)
         rptr  == align_up(len, stub.file_align)
         rsize == align_up(n, stub.file_align)
     IN  /\ len' = rptr + rsize
         /\ headers' = Append(headers,
              [vaddr |-> vma % Word, vsize |-> n % Word,
               rptr |-> rptr % Word, rsize |-> rsize % Word])
         /\ vma' = align_up(vma + n, stub.section_align)
  /\ todo' = Tail(todo)
  /\ UNCHANGED <<stub, spec, pc, image>>

\* A plausible bug: the length is compared with 4 GiB, not with what a word
\* can hold.
within_limits_off_by_one ==
  /\ Len(stub.sections) + Len(headers) <= MaxSections
  /\ len <= Word

\* The limits that are looked at when everything has been placed.
within_limits ==
  /\ Len(stub.sections) + Len(headers) <= MaxSections
  /\ len < Word

\* The headers are put behind the stub's, the section count and SizeOfImage
\* are updated.
finish ==
  /\ pc = "append" /\ todo = <<>> /\ within_limits
  /\ image' = [sections |-> stub.sections \o headers,
               size_of_image |-> vma % Word, len |-> len]
  /\ pc' = "done"
  /\ UNCHANGED <<stub, spec, todo, len, vma, headers>>

\* ensure! and bail!
build_err ==
  /\ \/ pc = "parse" /\ ~ (parses(stub) /\ fits(stub, Len(Sections(spec))))
     \/ pc = "append" /\ todo = <<>> /\ ~ within_limits
  /\ pc' = "failed"
  /\ UNCHANGED <<stub, spec, todo, len, vma, headers, image>>

Next == parse \/ append_section \/ finish \/ build_err

Spec == Init /\ [][Next]_vars

-----------------------------------------------------------------------------
(* Properties.                                                             *)

Extent(s) == Max({s.vsize, s.rsize})

\* "Order is preserved and determines the ascending VMA layout"
\* (crates/mkuki/src/uki.rs:19): in the finished image no section overlaps
\* another in memory, an added one is behind all before it, at a multiple of
\* the alignment, and the image's size covers it.  (build)
MemoryLayout ==
  image # None =>
    LET S == image.sections  n == Len(stub.sections)
    IN  /\ \A i, j \in DOMAIN S : i < j /\ j > n => S[i].vaddr + Extent(S[i]) <= S[j].vaddr
        /\ \A j \in DOMAIN S : j > n =>
             /\ S[j].vaddr % stub.section_align = 0
             /\ S[j].vaddr + Extent(S[j]) <= image.size_of_image

\* "fail loudly rather than silently corrupting the image"
\* (crates/mkuki/src/uki.rs:113): in the finished file the section table ends
\* before the first section data, the data of no two sections overlap, and
\* each of them is in the file, with the size it was given.  (build)
FileLayout ==
  image # None =>
    LET S == image.sections
        D == {i \in DOMAIN S : S[i].rptr > 0}
    IN  /\ \A i \in D : /\ table_end(stub, Len(S) - Len(stub.sections)) <= S[i].rptr
                        /\ S[i].rptr + S[i].rsize <= image.len
        /\ \A i, j \in D : i < j => \/ S[i].rptr + S[i].rsize <= S[j].rptr
                                    \/ S[j].rptr + S[j].rsize <= S[i].rptr
        /\ [i \in 1..Len(Sections(spec)) |-> S[Len(stub.sections) + i].vsize] = Sections(spec)

\* The length of the image: the stub and each section, padded.
FileSize(st, sp) ==
  LET pad(n) == align_up(n, st.file_align)
  IN  pad(st.len) + pad(sp.osrel) + pad(sp.cmdline)
      + (IF sp.uname = None THEN 0 ELSE pad(sp.uname)) + pad(sp.linux) + pad(sp.initrd)

\* There is room for the headers before whatever comes first, and no field of
\* the file has to hold more than it can.
Fitting(st, sp) ==
  LET n == Len(Sections(sp))
  IN  /\ st.pe
      /\ table_end(st, n) <= st.size_of_headers
      /\ \A i \in DOMAIN st.sections :
           st.sections[i].rptr > 0 => table_end(st, n) <= st.sections[i].rptr
      /\ Len(st.sections) + n <= MaxSections
      /\ FileSize(st, sp) < Word

\* "systemd stubs leave room; if a future stub does not, fail loudly"
\* (crates/mkuki/src/uki.rs:112), "resulting UKI exceeds 4 GiB" (:184): an image
\* is built of exactly the inputs that fit, although the checks look at the
\* table before and at the file after everything was placed.  (build)
BuildsWhatFits == pc \in {"done", "failed"} => ((pc = "done") <=> Fitting(stub, spec))
=============================================================================
