----------------------------- MODULE Initramfs -----------------------------
(***************************************************************************)
(* mkuki's build_initramfs: each layer, a directory tree or a tar stream,  *)
(* becomes a cpio archive of its own, and the archives are concatenated.   *)
(*                                                                         *)
(* A path is the sequence of its components.  Contents, permissions and    *)
(* device numbers are opaque; a content has a size because the archive     *)
(* stores sizes in a 32-bit word.  Gzip is lossless and deterministic (the *)
(* header is zeroed), so an archive stands for its compressed bytes and    *)
(* for its hash.                                                           *)
(***************************************************************************)
EXTENDS Naturals, SequencesExt, Functions

CONSTANTS
  None,
  Path,        \* the paths that occur
  Rank,        \* their positions in bytewise order
  LongPath,    \* the paths that do not fit the 100-byte fields of a tar header
  Cut,         \* what the link field of a tar header keeps of a long path
  Word,        \* 2^32, scaled
  Perms,       \* permission bits
  Inputs       \* the layer lists that are built

Root == <<>>
Empty == [id |-> None, size |-> 0]

\* A path as it is spelled in a stream: a run of "./" and "/", then the path.
Lead == BoundedSeq({"./", "/"}, 2)
Name == [lead : Lead, path : Path \cup {Root, Cut}]

FileType == {"reg", "dir", "symlink", "chr", "fifo"}

Content == [id : STRING \cup {None}, size : Nat]

\* One entry of a tar stream or of a directory walk.  A hard link ("link") has
\* no content; `link` is the target of hard links and symlinks.  (One without
\* a target ends the build: build_err.)
Item == {it \in [name : Name, type : FileType \cup {"link", "socket"},
                 perms : Perms, data : Content, link : Name \cup {None}] :
           it.type \in {"symlink", "link"} => it.link # None}

\* One entry of an archive: its data are a content, or the target of a symlink.
CpioEntry == [type : FileType, perms : Perms, data : Content \cup Name \cup {None}]

\* A layer: a directory, a tar, or a gzipped tar with the members of its gzip
\* stream, which are cut between tar entries here.
Source == [kind : {"dir", "tar", "gz"}, members : Seq(Seq(Item))]

Layers == Seq([label : STRING, source : Source])

ASSUME InitramfsAssumption ==
  /\ Word \in Nat \ {0}
  /\ "rwxrwxrwx" \in Perms
  /\ None \notin Name /\ None \notin Content /\ None \notin CpioEntry
  /\ Path \cup {Cut} \subseteq Seq(STRING) \ {Root} /\ Cut \notin Path
  /\ LongPath \subseteq Path
  /\ Rank \in [Path \cup {Cut} -> Nat] /\ IsInjective(Rank)
  /\ \A p, q \in Path \cup {Cut} : IsStrictPrefix(p, q) => Rank[p] < Rank[q]
  /\ Inputs \subseteq Layers
  /\ \A layers \in Inputs : \A i \in 1..Len(layers) :
       LET source == layers[i].source
       IN  /\ source.members # <<>>
           /\ source.kind # "gz" => Len(source.members) = 1
           /\ source.kind = "dir" =>
                \A j \in 1..Len(source.members[1]) : source.members[1][j].type # "link"

VARIABLES
  layers,      \* the argument: labelled sources
  pc,          \* "layer", "ingest", "done" or "failed"
  todo,        \* what is left of the current layer
  entries,     \* CpioBuilder::entries, by archive name
  file_data,   \* contents of the regular files seen, for hard links
  data,        \* the archives built so far: the .initrd section
  layer_hashes \* label and hash of each

vars == <<layers, pc, todo, entries, file_data, data, layer_hashes>>

-----------------------------------------------------------------------------
(* Names.                                                                  *)

Strip(s, prefix) ==
  LET rest == {i \in 1..Len(s) : s[i] # prefix}
  IN  IF rest = {} THEN <<>> ELSE SubSeq(s, Min(rest), Len(s))

\* A plausible bug: an archive made with "./" keeps it in every name.
normalize_slash(n) ==
  IF n.path = Root THEN None ELSE [n EXCEPT !.lead = Strip(@, "/")]

\* Every leading "./", then every leading "/", is removed; the root has no
\* entry.  (A "./" that follows a "/" stays.  A path has no empty or "."
\* components further on, which would stay too, and is text, which
\* to_string_lossy leaves alone.)
normalize(n) ==
  LET rest == Strip(Strip(n.lead, "./"), "/")
  IN  IF n.path = Root /\ rest \in {<<>>, <<"./">>} THEN None
      ELSE [n EXCEPT !.lead = rest]

\* Header::link_name: the header's own field, without the extension records
\* that carry a longer name.
header_link_name(n) == IF n.path \in LongPath THEN [n EXCEPT !.path = Cut] ELSE n

-----------------------------------------------------------------------------
(* Entries.                                                                *)

Entry(type, perms, content) ==
  [type |-> type, perms |-> IF type = "symlink" THEN "rwxrwxrwx" ELSE perms,
   data |-> content]

\* add_dir: what symlink_metadata says, or None for a socket.
dir_entry(it) ==
  IF it.type = "socket" THEN None
  ELSE IF it.type = "symlink" THEN Entry("symlink", it.perms, it.link)
  ELSE Entry(it.type, it.perms, it.data)

\* file_data.get(&tgt).cloned().unwrap_or_default()
hardlink_data(seen, link) ==
  LET tgt == IF normalize(link) = None THEN link ELSE normalize(link)
  IN  IF tgt \in DOMAIN seen THEN seen[tgt] ELSE Empty

\* add_tar: a hard link becomes a copy of a regular file seen before.
tar_entry(it, seen) ==
  IF it.type = "socket" THEN None
  ELSE IF it.type = "symlink"
  THEN Entry("symlink", it.perms, header_link_name(it.link))
  ELSE IF it.type = "link"
  THEN Entry("reg", it.perms, hardlink_data(seen, header_link_name(it.link)))
  ELSE Entry(it.type, it.perms, it.data)

\* A plausible bug: longer names first, as when a tree is removed.
Before_deepest(m, n) == Rank[m.path] > Rank[n.path]

\* Bytewise order of archive names: a remaining "./" sorts first.
Before(m, n) ==
  IF m.lead = n.lead THEN Rank[m.path] < Rank[n.path] ELSE m.lead # <<>>

Filesize(e) == IF e.type = "reg" THEN e.data.size % Word ELSE 0

\* The order in which a BTreeMap has its keys: the i-th has i - 1 before it.
Sorted(names) ==
  [i \in 1..Cardinality(names) |->
     CHOOSE n \in names : Cardinality({m \in names : Before(m, n)}) = i - 1]

\* The sorted entries with sequential inodes; sizes are cut to 32 bits.
Archive(es) ==
  LET names == Sorted(DOMAIN es)
  IN  [i \in DOMAIN names |-> [ino |-> i, name |-> names[i],
         entry |-> es[names[i]], filesize |-> Filesize(es[names[i]])]]

-----------------------------------------------------------------------------
(* build_initramfs.                                                        *)

TypeOK ==
  /\ layers \in Inputs
  /\ pc \in {"layer", "ingest", "done", "failed"}
  /\ DOMAIN entries \subseteq Name
  /\ \A n \in DOMAIN entries : entries[n].type \in FileType
  /\ DOMAIN file_data \subseteq DOMAIN entries
  /\ Len(layer_hashes) = Len(data)
  /\ Len(data) <= Len(layers)
  /\ pc = "done" => Len(data) = Len(layers)

Init ==
  /\ layers \in Inputs
  /\ pc = IF layers = <<>> THEN "done" ELSE "layer"
  /\ todo = <<>> /\ data = <<>> /\ layer_hashes = <<>>
  /\ entries = <<>> /\ file_data = <<>>

Current == layers[Len(data) + 1]

\* A gzipped tar is read through a decoder of one gzip member.
Tar(source) == source.members[1]

\* A plausible bug: the contents seen in one layer stay for the next.
build_layer_leaks ==
  /\ pc = "layer"
  /\ todo' = Tar(Current.source)
  /\ entries' = <<>>
  /\ pc' = "ingest"
  /\ UNCHANGED <<layers, file_data, data, layer_hashes>>

\* The next layer, with a builder of its own.
build_layer ==
  /\ pc = "layer"
  /\ todo' = Tar(Current.source)
  /\ entries' = <<>> /\ file_data' = <<>>
  /\ pc' = "ingest"
  /\ UNCHANGED <<layers, data, layer_hashes>>

\* BTreeMap::insert, of what there is to insert.
Put(es, n, e) ==
  IF e = None THEN es
  ELSE [m \in DOMAIN es \cup {n} |-> IF m = n THEN e ELSE es[m]]

add_dir_entry ==
  /\ pc = "ingest" /\ todo # <<>> /\ Current.source.kind = "dir"
  /\ LET n == normalize(Head(todo).name)
     IN  entries' = IF n = None THEN entries
                    ELSE Put(entries, n, dir_entry(Head(todo)))
  /\ todo' = Tail(todo)
  /\ UNCHANGED <<layers, pc, file_data, data, layer_hashes>>

add_tar_entry ==
  /\ pc = "ingest" /\ todo # <<>> /\ Current.source.kind # "dir"
  /\ LET it == Head(todo)
         n  == normalize(it.name)
     IN  /\ entries' = IF n = None THEN entries
                       ELSE Put(entries, n, tar_entry(it, file_data))
         /\ file_data' = IF n # None /\ it.type = "reg"
                         THEN Put(file_data, n, it.data) ELSE file_data
  /\ todo' = Tail(todo)
  /\ UNCHANGED <<layers, pc, data, layer_hashes>>

\* A file that cannot be read, a stream that is damaged, a layer without
\* entries.
build_err ==
  /\ pc = "ingest"
  /\ todo # <<>> \/ entries = <<>>
  /\ pc' = "failed"
  /\ UNCHANGED <<layers, todo, entries, file_data, data, layer_hashes>>

finish ==
  /\ pc = "ingest" /\ todo = <<>> /\ entries # <<>>
  /\ data' = Append(data, Archive(entries))
  /\ layer_hashes' = Append(layer_hashes,
                       [label |-> Current.label, sha |-> Archive(entries)])
  /\ pc' = IF Len(data') = Len(layers) THEN "done" ELSE "layer"
  /\ UNCHANGED <<layers, todo, entries, file_data>>

Next == build_layer \/ add_dir_entry \/ add_tar_entry \/ build_err \/ finish

Spec == Init /\ [][Next]_vars
=============================================================================
