------------------------------- MODULE Deploy -------------------------------
(***************************************************************************)
(* lockboot-deploy: `create` copies, signs or hashes the UKI and the       *)
(* stage2 of one architecture into the output directory and merges their   *)
(* entries into user-data.json; `modify` edits the mirror lists of         *)
(* user-data.json.                                                         *)
(*                                                                         *)
(* The directory is what the operator syncs to every mirror and            *)
(* user-data.json what instances are started with, so each file is written *)
(* by an action of its own: the tool may be killed, or run out of space,   *)
(* between and within two writes, and be started again.                    *)
(***************************************************************************)
EXTENDS Metadata, Signing, SequencesExt

CONSTANTS
  Malformed,   \* an --args that is no JSON array of strings
  Torn,        \* a file cut short by a crash while it was written
  Arch,        \* architectures
  Base,        \* the mirror base URLs, without a trailing slash
  Creates,     \* the argument lists `create` is called with
  Modifies     \* the argument lists `modify` is called with

\* --sign-args requires --key and --args, --manifest requires --key and
\* --base-url is required; clap refuses anything else.
CreateArgs ==
  {a \in [arch : Arch, uki : Bytes, stage2 : Bytes, key : Keys \cup {None},
          base_url : Seq(Base), args : Seq(Arg) \cup {None, Malformed},
          sign_args : BOOLEAN, manifest : BOOLEAN] :
     /\ a.base_url # <<>>
     /\ a.sign_args => a.key # None /\ a.args # None
     /\ a.manifest => a.key # None}

ModifyArgs == [add_base_url : Seq(Base), remove_base_url : Seq(Base)]

Stage == {"_stage1", "_stage2"}

\* A file of an architecture's directory; sig: it is the `.sig` next to it.
File == [name : {"linux.efi", "stage2", "args.json",
                 "linux.efi.manifest.json", "stage2.manifest.json"},
         sig : BOOLEAN]

VARIABLES
  dir,        \* the architectures' directories
  doc,        \* user-data.json
  job,        \* the `create` that is running, with the writes it has left
  released,   \* per architecture the last `create`, once it is complete
  published   \* the entries user-data.json has held, and the `create` they are of

vars == <<dir, doc, job, released, published>>

-----------------------------------------------------------------------------
(* URLs.                                                                   *)

\* format!("{b}{path}")
Compose(b, path) ==
  [scheme |-> b.scheme, graphic |-> b.graphic, template |-> FALSE,
   host |-> b.host, path |-> b.path \o path]

\* The URLs that `create` and `modify` put together, and what paths are made of.
PathPart == Arch \cup {f.name : f \in File} \cup UNION {ToSet(b.path) : b \in Base}
DeployUrl == [scheme : {"http", "https", "other"}, graphic : BOOLEAN, template : {FALSE},
              host : {b.host : b \in Base}, path : Seq(PathPart)]

\* What a file of the directory, a signature and user-data.json may be.
Blob == Bytes \cup [args : Seq(Arg)] \cup [payload : Payload]
Signature == [key : Keys, over : Domain \X [len : Nat, hexdigits : BOOLEAN,
                                            case : {"lower", "upper"}, of : Blob]]
EmittedPayload == [url : Seq(DeployUrl), sha256 : Hex \cup {Absent},
                   ed25519 : PubKey \cup {Absent}, sig_url : {Absent},
                   args : Seq(Arg) \cup {Absent}, args_url : Seq(DeployUrl) \cup {Absent},
                   args_sig_url : {Absent}]
EmittedPointer == [url : Seq(DeployUrl), ed25519 : PubKey, sig_url : {Absent}, sha256 : {Absent}]
EmittedEntry == [payload : EmittedPayload \cup {Absent}, manifest : EmittedPointer \cup {Absent},
                 resolved_manifests : {Absent}]
Document == [Stage -> [Arch -> EmittedEntry \cup {Absent}]]

ASSUME DeployAssumption ==
  /\ \A b \in Base : /\ b.scheme \in {"http", "https", "other"}
                     /\ b.graphic \in BOOLEAN
                     /\ b.path \in Seq(PathPart)
  /\ \A b \in Base, arch \in Arch, f \in File : Compose(b, <<arch, f.name>>) \in Url
  /\ Creates \subseteq CreateArgs
  /\ Modifies \subseteq ModifyArgs
  /\ Torn # Absent
  /\ \A x \in {Absent, Torn} : x \notin Blob /\ x \notin Signature /\ x \notin Document
  /\ Absent \notin EmittedPointer

compose_urls(bases, arch, filename) ==
  [i \in 1..Len(bases) |-> Compose(bases[i], <<arch, filename>>)]

\* u.starts_with("{b}/")
Under(u, b) ==
  u.scheme = b.scheme /\ u.host = b.host /\ IsStrictPrefix(b.path, u.path)

\* A plausible bug: only the file name is kept of the path.
rewrite_urls_filename(list, m) ==
  LET cand(b) == Compose(b, <<list[1].path[Len(list[1].path)]>>)
  IN  IF list = <<>> THEN <<>>
      ELSE list \o [i \in 1..Len(m.add_base_url) |-> cand(m.add_base_url[i])]

\* The URLs that stay, then one per added base, with the path that the first
\* URL of the list had before anything was removed.
rewrite_urls(list, m) ==
  LET removed(u) == \E i \in 1..Len(m.remove_base_url) : Under(u, m.remove_base_url[i])
      retain[i \in 0..Len(list)] ==
        IF i = 0 THEN <<>>
        ELSE IF removed(list[i]) THEN retain[i - 1] ELSE Append(retain[i - 1], list[i])
      push[i \in 0..Len(m.add_base_url)] ==
        IF i = 0 THEN retain[Len(list)]
        ELSE LET cand == Compose(m.add_base_url[i], list[1].path)
             IN  IF Contains(push[i - 1], cand) THEN push[i - 1] ELSE Append(push[i - 1], cand)
  IN  IF list = <<>> THEN <<>> ELSE push[Len(m.add_base_url)]

-----------------------------------------------------------------------------
(* What `create` emits.                                                    *)

pubkey_b64(key) == [base64 |-> TRUE, len |-> 32, key |-> key]

\* A plausible bug: the payload inside a manifest is signed, not pinned.
payload_key_always(a) == a.key

\* Inside a manifest the payload is pinned by its hash.
payload_key(a) == IF a.manifest THEN None ELSE a.key

build_payload(a, filename, bytes) ==
  LET key == payload_key(a)
  IN  [url          |-> compose_urls(a.base_url, a.arch, filename),
       sha256       |-> IF key = None THEN sha256(bytes) ELSE Absent,
       ed25519      |-> IF key = None THEN Absent ELSE pubkey_b64(key),
       sig_url      |-> Absent,
       args         |-> Absent,
       args_url     |-> Absent,
       args_sig_url |-> Absent]

uki_payload(a) == build_payload(a, "linux.efi", a.uki)

\* A plausible bug: --args is put into the document although it is signed.
stage2_payload_inline(a) ==
  [build_payload(a, "stage2", a.stage2) EXCEPT
     !.args = IF a.args = None THEN Absent ELSE a.args]

\* Arguments are part of the payload's entry, or served as a signed blob.
stage2_payload(a) ==
  [build_payload(a, "stage2", a.stage2) EXCEPT
     !.args = IF a.args = None \/ a.sign_args THEN Absent ELSE a.args,
     !.args_url = IF a.sign_args
                  THEN compose_urls(a.base_url, a.arch, "args.json")
                  ELSE Absent]

Write(name, content) == [file |-> [name |-> name, sig |-> FALSE], content |-> content]
WriteSig(name, signature) == [file |-> [name |-> name, sig |-> TRUE], content |-> signature]

\* A file, and its signature when it is signed.
Signed(name, content, key, domain) ==
  IF key = None
  THEN << Write(name, content) >>
  ELSE << Write(name, content), WriteSig(name, sign(key, domain, content)) >>

\* The manifest that wraps a payload: a user-data fragment of one entry.
Fragment(payload) == [payload |-> payload]

\* format!("{filename}.manifest.json")
ManifestName(filename) ==
  IF filename = "stage2" THEN "stage2.manifest.json"
                         ELSE "linux.efi.manifest.json"

\* A plausible bug: the pointer also pins the manifest it was made with.
ArchEntry_pinned(a, filename, payload) ==
  [payload |-> Absent,
   manifest |-> [url |-> compose_urls(a.base_url, a.arch, ManifestName(filename)),
                 ed25519 |-> pubkey_b64(a.key), sig_url |-> Absent,
                 sha256 |-> sha256(Fragment(payload))],
   resolved_manifests |-> Absent]

\* The operator's entry for one hop: the payload, or a pointer to its manifest.
ArchEntry(a, filename, payload) ==
  IF a.manifest
  THEN [payload |-> Absent,
        manifest |-> [url |-> compose_urls(a.base_url, a.arch, ManifestName(filename)),
                      ed25519 |-> pubkey_b64(a.key),
                      sig_url |-> Absent, sha256 |-> Absent],
        resolved_manifests |-> Absent]
  ELSE [payload |-> payload, manifest |-> Absent,
        resolved_manifests |-> Absent]

Entries(a) ==
  [s \in Stage |-> IF s = "_stage1" THEN ArchEntry(a, "linux.efi", uki_payload(a))
                                    ELSE ArchEntry(a, "stage2", stage2_payload(a))]

\* The files in the order they are written.  A malformed --args ends `create`
\* when the two payloads have been written.
Writes(a) ==
  Signed("linux.efi", a.uki, payload_key(a), "stage1.uki")
  \o Signed("stage2", a.stage2, payload_key(a), "stage2.payload")
  \o (IF a.sign_args /\ a.args # Malformed
      THEN Signed("args.json", [args |-> a.args], a.key, "stage2.args")
      ELSE <<>>)
  \o (IF a.manifest /\ a.args # Malformed
      THEN Signed("linux.efi.manifest.json", Fragment(uki_payload(a)),
                  a.key, "stage1.manifest")
           \o Signed("stage2.manifest.json", Fragment(stage2_payload(a)),
                     a.key, "stage2.manifest")
      ELSE <<>>)

-----------------------------------------------------------------------------
(* Admission of what is emitted.                                           *)

ProfileOf(stage) == IF stage = "_stage1" THEN "Stage0" ELSE "Stage1"

\* ArchConfig::validate
EntryValid(e, profile) ==
  IF IsManifest(e) THEN validate(Fields(e.manifest), profile)
                   ELSE admission(Fields(e.payload), profile)

\* The check of `validate` on a document.
check_stage(d) ==
  \A s \in Stage, arch \in Arch :
    d[s][arch] # Absent =>
      ArchConfigParses(d[s][arch]) /\ EntryValid(d[s][arch], ProfileOf(s))

-----------------------------------------------------------------------------
(* create.                                                                 *)

TypeOK ==
  /\ dir \in [Arch -> [File -> {Absent, Torn} \cup UNION {
       {w.content : w \in ToSet(Writes(a))} : a \in Creates}]]
  /\ doc \in Document \cup {Absent, Torn}
  /\ job = None \/ job.a \in Creates
  /\ \A arch \in Arch : released[arch] \in Creates \cup {None}
  /\ \A p \in published : p.a \in Creates

Init ==
  /\ dir = [arch \in Arch |-> [f \in File |-> Absent]]
  /\ doc = Absent
  /\ job = None
  /\ released = [arch \in Arch |-> None]
  /\ published = {}

Refused(a) ==
  \/ \E i \in 1..Len(a.base_url) : a.base_url[i].scheme # "http"
  \/ a.sign_args /\ a.manifest

\* `create` starts unless it refuses its arguments; it has written nothing.
create(a) ==
  /\ job = None
  /\ ~ Refused(a)
  /\ job' = [a |-> a, todo |-> Writes(a)]
  /\ released' = [released EXCEPT ![a.arch] = None]
  /\ UNCHANGED <<dir, doc, published>>

\* A plausible bug: a file that is there is not written again.
write_file_keeps ==
  /\ job # None /\ job.todo # <<>>
  /\ LET w == Head(job.todo)
     IN  dir' = [dir EXCEPT ![job.a.arch][w.file] = IF @ = Absent THEN w.content ELSE @]
  /\ job' = [job EXCEPT !.todo = Tail(@)]
  /\ UNCHANGED <<doc, released, published>>

write_file ==
  /\ job # None /\ job.todo # <<>>
  /\ LET w == Head(job.todo)
     IN  dir' = [dir EXCEPT ![job.a.arch][w.file] = w.content]
  /\ job' = [job EXCEPT !.todo = Tail(@)]
  /\ UNCHANGED <<doc, released, published>>

\* A plausible bug: the entries are merged without having been validated.
EmitsValid_unchecked(a) == a.args # Malformed

\* A plausible bug: --args is emitted without having been parsed.
EmitsValid_unparsed(a) ==
  \A s \in Stage : EntryValid(Entries(a)[s], ProfileOf(s))

\* The entries pass the check that each hop will put them to.
EmitsValid(a) ==
  /\ a.args # Malformed
  /\ \A s \in Stage : EntryValid(Entries(a)[s], ProfileOf(s))

\* A plausible bug: the document is built anew.
set_arch_alone(d, a) ==
  [s \in Stage |-> [arch \in Arch |->
     IF arch = a.arch THEN Entries(a)[s] ELSE Absent]]

\* The document with the entries of one architecture replaced.
set_arch(d, a) ==
  [s \in Stage |-> [arch \in Arch |->
     IF arch = a.arch THEN Entries(a)[s]
     ELSE IF d = Absent THEN Absent ELSE d[s][arch]]]

\* The entries of document d, with the `create` each of them is of.  After one
\* that died, what `modify` makes of the architecture's old entry is not among
\* them.
Emitted(d, complete) ==
  {[a |-> complete[x[1]], arch |-> x[1], stage |-> x[2],
    entry |-> d[x[2]][x[1]]] :
     x \in {y \in Arch \X Stage : complete[y[1]] # None}}

merge_user_data ==
  /\ job # None /\ job.todo = <<>>
  /\ EmitsValid(job.a)
  /\ doc # Torn
  /\ doc' = set_arch(doc, job.a)
  /\ released' = [released EXCEPT ![job.a.arch] = job.a]
  /\ published' = published \cup Emitted(doc', released')
  /\ job' = None
  /\ UNCHANGED dir

\* `create` ends with an error: bad --args, an entry that does not validate,
\* or a user-data.json that does not parse.
bail ==
  /\ job # None /\ job.todo = <<>>
  /\ ~ EmitsValid(job.a) \/ doc = Torn
  /\ job' = None
  /\ UNCHANGED <<dir, doc, released, published>>

\* `create` is killed, or a write fails: the file it was writing is as it was,
\* cut short, or complete.
create_dies ==
  /\ job # None
  /\ job' = None
  /\ \/ UNCHANGED <<dir, doc>>
     \/ /\ job.todo # <<>>
        /\ dir' = [dir EXCEPT ![job.a.arch][Head(job.todo).file] = Torn]
        /\ UNCHANGED doc
     \/ /\ job.todo = <<>> /\ EmitsValid(job.a) /\ doc # Torn
        /\ doc' = Torn
        /\ UNCHANGED dir
  /\ UNCHANGED <<released, published>>

-----------------------------------------------------------------------------
(* modify.                                                                 *)

RewriteFields(r, m) ==
  IF ~ Given(r) THEN r
  ELSE [f \in DOMAIN r |->
          IF f \in {"url", "sig_url", "args_url", "args_sig_url"} /\ Given(r[f])
          THEN rewrite_urls(r[f], m) ELSE r[f]]

RewriteEntry(e, m) ==
  IF ~ Given(e) THEN e
  ELSE [e EXCEPT !.payload = RewriteFields(@, m),
                 !.manifest = RewriteFields(@, m)]

\* The document is rewritten in place, and not validated.
modify(m) ==
  /\ job = None
  /\ doc \notin {Absent, Torn}
  /\ UNCHANGED <<dir, job, released>>
  /\ \/ /\ doc' = [s \in Stage |-> [arch \in Arch |-> RewriteEntry(doc[s][arch], m)]]
        /\ published' = published \cup Emitted(doc', released)
     \/ doc' = Torn /\ UNCHANGED published

\* The operator removes a user-data.json that nothing can read any more.
discard ==
  /\ job = None
  /\ doc = Torn
  /\ doc' = Absent
  /\ released' = [arch \in Arch |-> None]
  /\ UNCHANGED <<dir, job, published>>

Next ==
  \/ \E a \in Creates : create(a)
  \/ write_file \/ merge_user_data \/ bail \/ create_dies
  \/ \E m \in Modifies : modify(m)
  \/ discard

Spec == Init /\ [][Next]_vars
=============================================================================
