----------------------------- MODULE MCInitramfs -----------------------------
(***************************************************************************)
(* Small layers for TLC.                                                   *)
(***************************************************************************)
EXTENDS InitramfsProperties

MCPaths == <<<<"bin">>, <<"bin-x">>, <<"bin", "a">>, <<"bin", "b">>, <<"lib">>,
             <<"lib", "c">>>>
MCPath == ToSet(MCPaths)
MCCut == <<"li">>

\* "bin-x" sorts between "bin" and what is below it.
MCRank == [p \in MCPath \cup {MCCut} |->
             IF p = MCCut THEN 7 ELSE CHOOSE i \in 1..6 : MCPaths[i] = p]

bin == <<"bin">>
binx == <<"bin-x">>
a == <<"bin", "a">>
b == <<"bin", "b">>
lib == <<"lib">>
c == <<"lib", "c">>

At(lead, p) == [lead |-> lead, path |-> p]
Mk(p, type, perms, content, link) ==
  [name |-> At(<<>>, p), type |-> type, perms |-> perms, data |-> content, link |-> link]

Dir(p) == Mk(p, "dir", "rwx", Empty, None)
Reg(p, id, size) == Mk(p, "reg", "rw-", [id |-> id, size |-> size], None)
Sym(p, q) == Mk(p, "symlink", "rwx", Empty, At(<<>>, q))
Hard(p, q) == Mk(p, "link", "rw-", Empty, At(<<>>, q))
Fifo(p) == Mk(p, "fifo", "rw-", Empty, None)
Chr(p) == Mk(p, "chr", "rw-", [id |-> "1:3", size |-> 0], None)
Sock(p) == Mk(p, "socket", "rw-", Empty, None)

\* The stream with every name, link targets included, spelled with a lead.
Spell(stream, lead) ==
  [i \in DOMAIN stream |->
     [stream[i] EXCEPT !.name.lead = lead,
        !.link = IF stream[i].type = "link" THEN [@ EXCEPT !.lead = lead] ELSE @]]

\* The orders of a stream in which a hard link follows its target.
Orders(items) ==
  {s \in SetToSeqs(items) : \A i, j \in DOMAIN s :
     s[i].type = "link" /\ s[j].name = s[i].link => j < i}

Layer(label, kind, stream) ==
  [label |-> label, source |-> [kind |-> kind, members |-> <<stream>>]]

CleanLeads == {<<>>, <<"./">>, <<"/">>, <<"./", "./">>, <<"./", "/">>}

\* One file under two names, either of which may come first; the root; a name
\* that sorts between a directory and its contents; a symlink and a fifo.
Streams ==
  {Spell(s, l) : s \in Orders({Dir(bin), Reg(a, "x", 3), Hard(b, a), Sym(lib, bin), Dir(Root)})
                  \cup Orders({Dir(bin), Reg(b, "x", 3), Hard(a, b), Fifo(binx)}),
                 l \in CleanLeads}

Replaced ==
  { <<Dir(bin), Reg(a, "x", 1), Hard(b, a), Reg(a, "y", 2)>>,
    <<Dir(bin), Reg(a, "x", 1), Reg(a, "y", 2), Hard(b, a)>>,
    <<Reg(lib, "x", 1), Dir(lib), Reg(c, "y", 0)>> }

Single ==
  {<<Layer("rootfs", "tar", s)>> : s \in Streams \cup Replaced}
  \cup {<<[label |-> "rootfs", source |-> [kind |-> "gz", members |-> <<s>>]]>> : s \in Replaced}
  \cup {<<Layer("rootfs", "dir", <<Dir(bin), Reg(a, "x", 3), Reg(b, "x", 3), Sym(lib, c)>>)>>,
        <<Layer("rootfs", "dir", <<Dir(bin), Sock(binx), Chr(a)>>)>>,
        <<Layer("rootfs", "dir", <<>>)>>, <<Layer("rootfs", "tar", <<Dir(Root)>>)>>}

Bases == { <<Dir(bin), Reg(a, "x", 1), Dir(lib)>>, <<Sym(lib, bin), Dir(bin), Fifo(a)>>,
           <<Reg(lib, "x", 1), Reg(bin, "x", 1)>> }
Overlays == { <<Dir(bin), Reg(a, "y", 2), Sym(lib, bin)>>, <<Dir(bin), Dir(lib), Reg(c, "y", 2)>>,
              <<Dir(bin), Reg(b, "y", 2), Sym(a, b)>>, <<Reg(lib, "y", 2)>> }

Layered ==
  {<<Layer("platform", "tar", s), Layer("userland", "tar", t)>> : s \in Bases, t \in Overlays}
  \cup {<<Layer("platform", "dir", s), Layer("userland", "dir", <<>>)>> : s \in Bases}

MCInputs == Single \cup Layered

ASSUME MCInputsAreWellFormed ==
  \A ls \in MCInputs : \A i \in DOMAIN ls :
    /\ WellFormed(ls[i].source)
    /\ Unpackable(Overlaid(ls)[i - 1], Tree(ls[i].source))

\* A hard link to a file with a long path.
LongPaths == {c}
LongInputs == {<<Layer("rootfs", "tar", <<Dir(lib), Reg(c, "x", 1), Dir(bin), Hard(a, c)>>)>>}

\* A symlink with two names.
LinkedSymlinks == {<<Layer("rootfs", "tar", <<Dir(bin), Sym(lib, bin), Hard(a, lib)>>)>>}

\* A tar compressed in two gzip members.
MultiMember ==
  {<<[label |-> "rootfs",
      source |-> [kind |-> "gz", members |-> <<<<Dir(bin), Reg(a, "x", 1)>>, <<Reg(b, "y", 1)>>>>]]>>}

\* A file of exactly 2^32 bytes.
BigFiles == {<<Layer("rootfs", "dir", <<Dir(bin), Reg(a, "x", Word), Reg(b, "y", 1)>>)>>}

\* A symlink in the place of a directory that has contents.
OverDirectory ==
  {<<Layer("platform", "dir", <<Dir(bin), Dir(lib), Reg(c, "x", 1)>>),
     Layer("userland", "dir", <<Dir(bin), Reg(a, "y", 1), Sym(lib, bin)>>)>>}

\* A file without an entry for its directory.
Orphans == {<<Layer("rootfs", "tar", <<Reg(a, "x", 1), Dir(lib)>>)>>}

\* A device in the place of another one.
OtherDevice ==
  {<<Layer("platform", "tar", <<Chr(lib)>>),
     Layer("userland", "tar", <<[Chr(lib) EXCEPT !.data.id = "1:5"]>>)>>}
=============================================================================
