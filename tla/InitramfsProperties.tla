------------------------ MODULE InitramfsProperties ------------------------
(***************************************************************************)
(* What the kernel unpacks from the archives of build_initramfs, and what  *)
(* it should be.                                                           *)
(***************************************************************************)
EXTENDS Initramfs

-----------------------------------------------------------------------------
(* The kernel's unpacker, from how the archives rely on it.                *)

\* The entries it can find: a body longer than its size field is cut, and the
\* rest of it is no header.
Found(archive) ==
  LET cut == {k \in DOMAIN archive : /\ archive[k].entry.type = "reg"
                                     /\ archive[k].filesize # archive[k].entry.data.size}
  IN  IF cut = {} THEN archive
      ELSE Append(SubSeq(archive, 1, Min(cut) - 1),
             [archive[Min(cut)] EXCEPT !.entry.data.size = archive[Min(cut)].filesize])

IsDir(fs, p) == p = Root \/ (p \in DOMAIN fs /\ fs[p].type = "dir")
HasChildren(fs, p) == \E q \in DOMAIN fs : IsStrictPrefix(p, q)

\* What stands in the way of an entry is removed when it is of another type
\* or a symlink is to be made, but a directory only when it is empty.
Cleaned(fs, p, e) ==
  IF /\ p \in DOMAIN fs
     /\ fs[p].type # e.type \/ e.type = "symlink"
     /\ ~ (fs[p].type = "dir" /\ HasChildren(fs, p))
  THEN Restrict(fs, DOMAIN fs \ {p}) ELSE fs

\* An entry without a parent directory, or whose place is still taken, is
\* skipped; an existing file or directory is overwritten.
UnpackEntry(fs, a) ==
  LET p == a.name.path
      c == Cleaned(fs, p, a.entry)
  IN  IF /\ IsDir(fs, Front(p))
         /\ p \in DOMAIN c => c[p].type = a.entry.type /\ a.entry.type \in {"reg", "dir"}
      THEN Put(c, p, a.entry) ELSE c

UnpackArchive(fs, archive) ==
  LET u[k \in 0..Len(archive)] ==
        IF k = 0 THEN fs ELSE UnpackEntry(u[k - 1], archive[k])
  IN  u[Len(archive)]

Unpacked(archives) ==
  LET u[i \in 0..Len(archives)] ==
        IF i = 0 THEN <<>> ELSE UnpackArchive(u[i - 1], Found(archives[i]))
  IN  u[Len(archives)]

-----------------------------------------------------------------------------
(* The file systems that the layers describe.                              *)

\* Extracting a stream: the last entry of a path stays, and a hard link is
\* the file that its target is.
Extract(fs, it) ==
  IF \/ it.name.path = Root \/ it.type = "socket"
     \/ it.type = "link" /\ it.link.path \notin DOMAIN fs
  THEN fs
  ELSE Put(fs, it.name.path,
           IF it.type = "link" THEN fs[it.link.path]
           ELSE IF it.type = "symlink" THEN Entry("symlink", it.perms, it.link)
           ELSE Entry(it.type, it.perms, it.data))

\* The file systems after each entry of a stream.
Extracted(stream) ==
  LET fs[k \in 0..Len(stream)] ==
        IF k = 0 THEN <<>> ELSE Extract(fs[k - 1], stream[k])
  IN  fs

Tree(source) ==
  LET stream == FlattenSeq(source.members)
  IN  Extracted(stream)[Len(stream)]

\* The layers of which a build keeps every entry: one gzip member, names of
\* which normalize removes the whole lead, link targets that fit the header, and
\* hard links that follow the regular file they name and agree with it on the
\* permissions.
Plain(n) == Strip(Strip(n.lead, "./"), "/") = <<>>

\* What is at the path of the j-th entry after k entries is its regular file.
FileAt(stream, k, j) ==
  /\ stream[j].type = "reg" /\ stream[j].name.path # Root
  /\ \A m \in (j + 1)..k : stream[m].name.path # stream[j].name.path

WellFormed(source) ==
  /\ Len(source.members) = 1
  /\ LET s == source.members[1]
     IN  \A k \in 1..Len(s) :
           /\ Plain(s[k].name)
           /\ source.kind # "dir" /\ s[k].type \in {"symlink", "link"} =>
                s[k].link.path \notin LongPath
           /\ s[k].type = "link" =>
                /\ Plain(s[k].link)
                /\ \E j \in 1..(k - 1) :
                     /\ FileAt(s, k - 1, j)
                     /\ s[j].name.path = s[k].link.path /\ s[j].perms = s[k].perms

\* A later layer replaces the paths it has; a file or link it has in the place
\* of a directory replaces all that was below.
OverlayTree(fs, tree) ==
  LET kept == {p \in DOMAIN fs :
                 \A q \in DOMAIN tree : IsStrictPrefix(q, p) => tree[q].type = "dir"}
  IN  [p \in DOMAIN tree \cup kept |-> IF p \in DOMAIN tree THEN tree[p] ELSE fs[p]]

\* The file systems after each layer.
Overlaid(ls) ==
  LET o[i \in 0..Len(ls)] ==
        IF i = 0 THEN <<>> ELSE OverlayTree(o[i - 1], Tree(ls[i].source))
  IN  o

\* The trees that the kernel can unpack over a file system: files that fit
\* the size field of the archive, nothing but directories in the place of
\* directories with contents, the same device or fifo where there was one of
\* that type, and a directory for every entry to be in.
Unpackable(fs, tree) ==
  \A p \in DOMAIN tree :
    /\ tree[p].type = "reg" => tree[p].data.size \in 0..(Word - 1)
    /\ tree[p].type # "dir" => ~ HasChildren(fs, p)
    /\ p \in DOMAIN fs /\ fs[p].type = tree[p].type /\ tree[p].type \in {"chr", "fifo"} =>
         fs[p] = tree[p]
    /\ IsDir(OverlayTree(fs, tree), Front(p))

-----------------------------------------------------------------------------
(* Properties.                                                             *)

\* "the same rootfs always yields byte-identical output": the archive of a
\* layer is a function of the tree alone, of neither the order of a tar stream
\* or its spelling of names, nor which of two hard-linked names came first,
\* nor whether the layer came as a directory.  (CpioBuilder, normalize)
Reproducible ==
  \A i \in DOMAIN data :
    LET tree == Tree(layers[i].source)
    IN  data[i] = Archive([n \in {[lead |-> <<>>, path |-> p] : p \in DOMAIN tree} |->
                             tree[n.path]])

\* "packs your container rootfs verbatim" (crates/mkuki/README.md:60) and
\* "later layers overlay earlier ones at unpack time" (crates/mkuki/src/lib.rs:63):
\* the kernel ends up with exactly the files of the layers, the last layer
\* that has a path deciding what is there.  (build_initramfs, add_tar, add_dir)
UnpacksTheLayers ==
  pc = "done" =>
    Unpacked(data) = Overlaid(layers)[Len(layers)]
=============================================================================
