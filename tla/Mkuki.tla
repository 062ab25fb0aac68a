------------------------------- MODULE Mkuki -------------------------------
(***************************************************************************)
(* The mkuki command on the build host: it resolves its layers (from files *)
(* or from a container engine), assembles the image, writes it and, given  *)
(* a key, writes its signature next to it.  It runs again and again on the *)
(* same output, next to keygen and sign of Keys.                           *)
(*                                                                         *)
(* A layer's content stands for its archive (module Initramfs), an image   *)
(* for the record of its sections (module Uki).                            *)
(***************************************************************************)
EXTENDS Keys, Naturals, Sequences

CONSTANTS
  Content,     \* what is at each path or container image; Absent: unreadable
  Hollow,      \* the content of a layer without entries
  Label,       \* layer_label: the file name of each path up to the first "."
  Cut(_),      \* the first 8 of a hash's 64 digits
  Cids,        \* the containers the engine can hold (a bound)
  Calls,       \* the arguments mkuki is called with
  Faults       \* "kill", "create", "cid", "export", "spawn", "rm": what may go wrong

\* --layer, --rootfs and --from-docker exclude each other (clap).
Args == [rootfs : {"layers", "docker", "rootfs", "none"}, paths : Seq(DOMAIN Content),
         kernel : DOMAIN Content, stub : DOMAIN Content,
         os_release : DOMAIN Content \cup {None}, id : STRING, cmdline : STRING,
         uname : STRING \cup {None}, sign_key : BOOLEAN]

\* A running call: where it is, its container, and how the export ended.
Job == [a : Calls, at : {"create", "build", "sign"}]
       \cup [a : Calls, at : {"export"}, cid : Cids]
       \cup [a : Calls, at : {"rm"}, cid : Cids, ok : BOOLEAN]

ASSUME MkukiAssumption ==
  /\ Calls \subseteq Args
  /\ None \notin Job
  /\ \A a \in Calls : a.rootfs \in {"docker", "rootfs"} => Len(a.paths) = 1
  /\ Label \in [DOMAIN Content -> STRING]

VARIABLES
  job,         \* the running call
  containers,  \* containers the engine has
  abandoned,   \* of these, the ones that the engine did not remove, or whose
               \* call was killed
  untried,     \* and those whose call returned without asking it to
  signed       \* the seed that the last call signed with, if it ended well

engine == <<containers, abandoned, untried>>
vars == <<keyVars, out, sig, job, engine, signed>>

-----------------------------------------------------------------------------
(* What is built.                                                          *)

\* A lone layer is called "rootfs" whatever its path.
resolve_layers(a) ==
  [i \in DOMAIN a.paths |->
     [label |-> IF a.rootfs = "layers" THEN Label[a.paths[i]] ELSE "rootfs",
      source |-> Content[a.paths[i]]]]

layer_hashes(a) ==
  LET l == resolve_layers(a)
  IN  [i \in DOMAIN l |-> [label |-> l[i].label, sha |-> sha256(l[i].source)]]

\* A plausible bug: the labels alone stand for several layers.
generate_os_release_labels(a) ==
  [id |-> a.id,
   build_id |-> <<Cut(sha256(Content[a.kernel])), Cut(sha256(a.cmdline)),
     [i \in DOMAIN a.paths |-> layer_hashes(a)[i].label]>>]

\* BUILD_ID: kernel, command line, and the initrd or each of the layers, by
\* the start of their hashes.  A label has no "." and what is cut has a fixed
\* length, so the parts can be told from the string.
generate_os_release(a) ==
  LET h == layer_hashes(a)
  IN  [id |-> a.id,
       build_id |-> <<Cut(sha256(Content[a.kernel])), Cut(sha256(a.cmdline)),
         [i \in DOMAIN h |-> [label |-> IF Len(h) = 1 THEN "initrd" ELSE h[i].label,
                              sha |-> Cut(h[i].sha)]]>>]

Image(a) ==
  [stub |-> Content[a.stub], linux |-> Content[a.kernel],
   initrd |-> [i \in DOMAIN a.paths |-> Content[a.paths[i]]],
   osrel |-> IF a.os_release = None THEN generate_os_release(a) ELSE [file |-> Content[a.os_release]],
   cmdline |-> a.cmdline, uname |-> a.uname]

\* Everything that is read is there, and no layer is empty.
Buildable(a) ==
  /\ a.rootfs # "none"
  /\ \A p \in {a.kernel, a.stub} \cup {a.paths[i] : i \in DOMAIN a.paths} : Content[p] # Absent
  /\ a.os_release # None => Content[a.os_release] # Absent
  /\ \A i \in DOMAIN a.paths : Content[a.paths[i]] # Hollow

-----------------------------------------------------------------------------
(* One call.                                                               *)

MkukiTypeOK ==
  /\ KeysTypeOK
  /\ job \in Job \cup {None}
  /\ out \in {Absent, Torn} \cup {Image(a) : a \in Calls}
  /\ sig \in {Absent, Torn} \/ sig.key \in Seeds \cup {OldSeed}
  /\ containers \subseteq Cids /\ abandoned \cup untried \subseteq containers
  /\ signed \in Seeds \cup {None, OldSeed}

Init ==
  /\ KeysInit
  /\ out = Absent /\ sig = Absent
  /\ job = None /\ containers = {} /\ abandoned = {} /\ untried = {}
  /\ signed = None

mkuki(a) ==
  /\ job = None
  /\ job' = [a |-> a, at |-> IF a.rootfs = "docker" THEN "create" ELSE "build"]
  /\ signed' = None
  /\ UNCHANGED <<keyVars, out, sig, engine>>

Fails == job' = None /\ UNCHANGED <<keyVars, out, sig, engine, signed>>

\* `engine create`, and reading the id it prints: if that is no text, the
\* container is there and the call returns.
docker_create ==
  /\ job # None /\ job.at = "create"
  /\ IF Content[job.a.paths[1]] = Absent THEN Fails
     ELSE \/ "create" \in Faults /\ Fails
          \/ \E cid \in Cids \ containers :
               /\ containers' = containers \cup {cid}
               /\ \/ /\ job' = [a |-> job.a, at |-> "export", cid |-> cid]
                     /\ UNCHANGED untried
                  \/ /\ "cid" \in Faults
                     /\ job' = None
                     /\ untried' = untried \cup {cid}
               /\ UNCHANGED <<keyVars, out, sig, abandoned, signed>>

\* A plausible bug: a failed export returns before the container is removed.
docker_export_early ==
  /\ job # None /\ job.at = "export"
  /\ \/ /\ job' = [a |-> job.a, at |-> "rm", cid |-> job.cid, ok |-> TRUE]
        /\ UNCHANGED <<keyVars, out, sig, engine, signed>>
     \/ "export" \in Faults /\ Fails

\* `engine export`: ends with a status, or cannot be started at all, which
\* returns at once.
docker_export ==
  /\ job # None /\ job.at = "export"
  /\ \/ /\ \E ok \in {TRUE} \cup (IF "export" \in Faults THEN {FALSE} ELSE {}) :
             job' = [a |-> job.a, at |-> "rm", cid |-> job.cid, ok |-> ok]
        /\ UNCHANGED <<keyVars, out, sig, engine, signed>>
     \/ /\ "spawn" \in Faults
        /\ job' = None
        /\ untried' = untried \cup {job.cid}
        /\ UNCHANGED <<keyVars, out, sig, containers, abandoned, signed>>

\* `engine rm -f`, whose result is ignored, then the export's own.
docker_rm ==
  /\ job # None /\ job.at = "rm"
  /\ \/ containers' = containers \ {job.cid} /\ UNCHANGED abandoned
     \/ "rm" \in Faults /\ abandoned' = abandoned \cup {job.cid} /\ UNCHANGED containers
  /\ job' = IF job.ok THEN [a |-> job.a, at |-> "build"] ELSE None
  /\ UNCHANGED <<keyVars, out, sig, untried, signed>>

\* build_initramfs, the reads, assemble, and the image is written.
assemble ==
  /\ job # None /\ job.at = "build"
  /\ Buildable(job.a)
  /\ out' = Image(job.a)
  /\ job' = IF job.a.sign_key THEN [job EXCEPT !.at = "sign"] ELSE None
  /\ UNCHANGED <<keyVars, sig, engine, signed>>

build_err == job # None /\ job.at = "build" /\ ~ Buildable(job.a) /\ Fails

\* A plausible bug: the extension is replaced, and linux.sig is written.
sign_image_extension ==
  /\ job # None /\ job.at = "sign"
  /\ seed_from_pkcs8_pem(key) # None
  /\ signed' = seed_from_pkcs8_pem(key)
  /\ job' = None
  /\ UNCHANGED <<keyVars, out, sig, engine>>

\* The image in memory is signed with the key as it is now.
sign_image ==
  /\ job # None /\ job.at = "sign"
  /\ seed_from_pkcs8_pem(key) # None
  /\ sig' = sign(seed_from_pkcs8_pem(key), "stage1.uki", Image(job.a))
  /\ signed' = seed_from_pkcs8_pem(key)
  /\ job' = None
  /\ UNCHANGED <<keyVars, out, engine>>

sign_err == job # None /\ job.at = "sign" /\ seed_from_pkcs8_pem(key) = None /\ Fails

\* mkuki is killed or a write fails: the file at hand is as it was or cut.
mkuki_dies ==
  /\ job # None /\ "kill" \in Faults
  /\ job' = None
  /\ \/ UNCHANGED <<out, sig>>
     \/ job.at = "build" /\ Buildable(job.a) /\ out' = Torn /\ UNCHANGED sig
     \/ job.at = "sign" /\ seed_from_pkcs8_pem(key) # None /\ sig' = Torn /\ UNCHANGED out
  /\ abandoned' = IF job.at \in {"export", "rm"} THEN abandoned \cup {job.cid} ELSE abandoned
  /\ UNCHANGED <<keyVars, containers, untried, signed>>

\* keygen and sign run when they are called; `sign` replaces the signature.
OtherTools ==
  /\ KeysNext
  /\ signed' = IF sig' = sig THEN signed ELSE None
  /\ UNCHANGED <<job, engine>>

Next ==
  \/ \E a \in Calls : mkuki(a)
  \/ docker_create \/ docker_export \/ docker_rm
  \/ assemble \/ build_err \/ sign_image \/ sign_err \/ mkuki_dies
  \/ OtherTools

Spec == Init /\ [][Next]_vars

-----------------------------------------------------------------------------
(* Properties.                                                             *)

\* A call with --sign-key that ended well left an image and a signature that
\* stage0 admits under the key it was signed with, whatever calls before it
\* left behind and whatever keygen does meanwhile; and under the public key
\* file, if keygen finished and the key is still the one that signed.
\* (main, sign, keygen)
ReleaseIsAdmitted ==
  signed # None =>
    /\ verify(pubkey_b64_from_seed(signed), "stage1.uki", out, sig)
    /\ paired /\ seed_from_pkcs8_pem(key) = signed => verify(pub, "stage1.uki", out, sig)

Alike(x, y) == Cut(sha256(x)) = Cut(sha256(y))

Generated(image) == image \notin {Absent, Torn} /\ "build_id" \in DOMAIN image.osrel

\* "a rebuild from identical inputs is traceable" (crates/mkuki/src/lib.rs:219):
\* an image that replaces one with the same generated BUILD_ID has as many
\* layers, and its kernel, command line and each layer, in their order, can
\* differ from the old ones only where the 8 digits kept of their hashes do not;
\* and a rebuild from the same kernel, command line and lone layer gets the same
\* BUILD_ID however the layer was given ("byte-identical to the pre-layering
\* format", :231).  (generate_os_release, resolve_layers)
BuildIdTraces ==
  [][Generated(out) /\ Generated(out') =>
       LET i == out  j == out'
       IN  /\ i.osrel.build_id = j.osrel.build_id =>
                /\ Alike(i.linux, j.linux) /\ Alike(i.cmdline, j.cmdline)
                /\ DOMAIN i.initrd = DOMAIN j.initrd
                /\ \A n \in DOMAIN i.initrd : Alike(i.initrd[n], j.initrd[n])
           /\ i.linux = j.linux /\ i.cmdline = j.cmdline /\ i.initrd = j.initrd
              /\ Len(i.initrd) = 1 => i.osrel.build_id = j.osrel.build_id]_vars

\* "Best-effort cleanup regardless of export result"
\* (crates/mkuki/src/lib.rs:206): once the engine has run the export, its
\* container stays only if the engine fails to remove it or mkuki is killed.
\* The calls that never get that far leave theirs: the id is no text (:199) or
\* the export cannot be started (:204).  (docker_export)
ExportCleansUp == job = None => containers = abandoned \cup untried
=============================================================================
