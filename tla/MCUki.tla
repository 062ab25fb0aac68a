------------------------------- MODULE MCUki -------------------------------
(***************************************************************************)
(* Small stubs and sections for TLC: offsets are scaled down, a section    *)
(* header takes 2 bytes and a word counts to 128.                          *)
(***************************************************************************)
EXTENDS Uki

Sect(vaddr, vsize, rptr, rsize) ==
  [vaddr |-> vaddr, vsize |-> vsize, rptr |-> rptr, rsize |-> rsize]

\* A section with more memory than data, one with more data than memory, one
\* without data, and two out of order.  The headers end before the first data
\* or claim to end behind it.  A file may be longer than its sections, up to
\* where the added ones reach the limit or not.
Tables ==
  { <<Sect(16, 5, 16, 4)>>, <<Sect(16, 3, 20, 8)>>,
    <<Sect(16, 3, 16, 4), Sect(32, 9, 0, 0)>>,
    <<Sect(32, 2, 16, 4), Sect(16, 6, 24, 8)>> }

MCStubs ==
  { [pe |-> pe, len |-> l, sect_table |-> t, sections |-> s,
     section_align |-> sa, file_align |-> fa, size_of_headers |-> h] :
    pe \in BOOLEAN, l \in {32, 33, 112}, t \in {2, 4, 6, 30}, s \in Tables,
    sa \in {4, 8}, fa \in {2, 4}, h \in {14, 18} }

MCSpecs ==
  [osrel : {3}, cmdline : {0, 4}, uname : {None, 1}, linux : {5, 8}, initrd : {0, 7, 128}]

\* An initrd that fits the file, but not the addresses that are left.
LargeStubs == { [pe |-> TRUE, len |-> 32, sect_table |-> 2, sections |-> <<Sect(40, 9, 16, 4)>>,
                 section_align |-> 8, file_align |-> 2, size_of_headers |-> 16] }
LargeSpecs == [osrel : {3}, cmdline : {4}, uname : {None}, linux : {5}, initrd : {64}]
=============================================================================
