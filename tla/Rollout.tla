------------------------------ MODULE Rollout ------------------------------
(***************************************************************************)
(* A release on its way: lockboot-deploy writes its output directory, the  *)
(* operator copies the directory to every mirror file by file, and an      *)
(* instance that was started with some user-data.json boots from those     *)
(* mirrors meanwhile, one request at a time.                               *)
(*                                                                         *)
(* The releases are signed manifests.  The instance is stage1 reduced to   *)
(* what such an entry makes it do; module Stage1 has all of it.            *)
(***************************************************************************)
EXTENDS DeployProperties

CONSTANTS
  MaxCreates,  \* calls of `create` (a bound)
  MaxDeaths    \* how many of them may die (a bound)

ASSUME RolloutAssumption ==
  MaxCreates \in Nat /\ MaxDeaths \in Nat /\ \A a \in Creates : a.manifest /\ ~ a.sign_args

VARIABLES
  mirror,   \* what each base serves: its copy of the directory
  creates,  \* how many times `create` has started
  deaths,   \* and died
  boot,     \* the instance's boot
  ran       \* what its last boot that came so far has run

deployVars == <<dir, doc, job, released, published>>
rolloutVars == <<deployVars, mirror, creates, deaths, boot, ran>>

\* The files that the second hop reads.
Stage2File == {f \in File : f.name = "stage2.manifest.json" \/ (f.name = "stage2" /\ ~ f.sig)}

MirrorBase == {b \in Base : b.scheme = "http"}

\* GET u, or u with ".sig" appended, as the mirror is now.
Get(u, sig) ==
  LET n == Len(u.path)
      b == CHOOSE b \in MirrorBase : Compose(b, <<u.path[n - 1], u.path[n]>>) = u
  IN  mirror[b][u.path[n - 1]][[name |-> u.path[n], sig |-> sig]]

Off == [at |-> "off", p |-> None, todo |-> <<>>, blob |-> None, still |-> TRUE]

RolloutInit ==
  /\ Init
  /\ mirror = [b \in MirrorBase |-> [arch \in Arch |-> [f \in Stage2File |-> Absent]]]
  /\ creates = 0 /\ deaths = 0
  /\ boot = Off
  /\ ran = None

-----------------------------------------------------------------------------
(* The operator.                                                           *)

Operator ==
  /\ \/ (\E a \in Creates : create(a)) /\ creates < MaxCreates
        /\ creates' = creates + 1 /\ UNCHANGED deaths
     \/ create_dies /\ deaths < MaxDeaths /\ deaths' = deaths + 1 /\ UNCHANGED creates
     \/ (write_file \/ merge_user_data \/ bail \/ discard) /\ UNCHANGED <<creates, deaths>>
  /\ UNCHANGED <<mirror, boot, ran>>

\* "sync the directory to each mirror" (README.md:115), at any time: between two
\* files of a running `create`, and of the file that one that died has cut.
sync(b, arch, f) ==
  /\ mirror[b][arch][f] # dir[arch][f]
  /\ mirror' = [mirror EXCEPT ![b][arch][f] = dir[arch][f]]
  /\ boot' = [boot EXCEPT !.still = FALSE]
  /\ UNCHANGED <<deployVars, creates, deaths, ran>>

Sync == \E b \in MirrorBase, arch \in Arch, f \in Stage2File : sync(b, arch, f)

-----------------------------------------------------------------------------
(* The instance.                                                           *)

\* It is started, or started again, with a document that was current once.
start ==
  /\ boot.at \in {"off", "running"}
  /\ \E p \in published :
       /\ p.stage = "_stage2"
       /\ boot' = [at |-> "manifest", p |-> [arch |-> p.arch, entry |-> p.entry, key |-> p.a.key],
                   todo |-> p.entry.manifest.url, blob |-> None, still |-> TRUE]
  /\ UNCHANGED <<deployVars, mirror, creates, deaths, ran>>

ThePointer == boot.p.entry.manifest
ThePayload == Fields(boot.blob.payload)

\* try_fetch_manifest: the bytes, under the pin if the pointer has one.
fetch_manifest ==
  /\ boot.at = "manifest" /\ boot.todo # <<>>
  /\ LET b == Get(Head(boot.todo), FALSE)
     IN  boot' = IF /\ Readable(b)
                    /\ Given(ThePointer.sha256) =>
                         eq_ignore_ascii_case(ThePointer.sha256, sha256(b))
                 THEN [boot EXCEPT !.at = "manifest.sig", !.blob = b]
                 ELSE [boot EXCEPT !.todo = Tail(@)]
  /\ UNCHANGED <<deployVars, mirror, creates, deaths, ran>>

\* Its signature, from the same mirror and later.
verify_manifest ==
  /\ boot.at = "manifest.sig"
  /\ boot' = IF verify(ThePointer.ed25519, "stage2.manifest", boot.blob,
                       Get(Head(boot.todo), TRUE))
             THEN [boot EXCEPT !.at = "payload", !.todo = ThePayload.url]
             ELSE [boot EXCEPT !.at = "manifest", !.blob = None, !.todo = Tail(@)]
  /\ UNCHANGED <<deployVars, mirror, creates, deaths, ran>>

\* A plausible bug: the hash of the payload is logged and not compared.
admit_from_any ==
  /\ boot.at = "payload" /\ boot.todo # <<>>
  /\ Readable(Get(Head(boot.todo), FALSE))
  /\ ran' = [code |-> Get(Head(boot.todo), FALSE),
             args |-> IF ThePayload.args = None THEN <<>> ELSE ThePayload.args]
  /\ boot' = [boot EXCEPT !.at = "running", !.todo = <<>>, !.blob = None,
                                     !.still = FALSE]
  /\ UNCHANGED <<deployVars, mirror, creates, deaths>>

\* admit_payload: the payload that the manifest pins, from any of its mirrors,
\* is run with the manifest's arguments.
admit_from ==
  /\ boot.at = "payload" /\ boot.todo # <<>>
  /\ LET b == Get(Head(boot.todo), FALSE)
     IN  IF Readable(b) /\ eq_ignore_ascii_case(ThePayload.sha256, sha256(b))
         THEN /\ boot' = [boot EXCEPT !.at = "running", !.todo = <<>>, !.blob = None,
                                     !.still = FALSE]
              /\ ran' = [code |-> b,
                         args |-> IF ThePayload.args = None THEN <<>> ELSE ThePayload.args]
         ELSE boot' = [boot EXCEPT !.todo = Tail(@)] /\ UNCHANGED ran
  /\ UNCHANGED <<deployVars, mirror, creates, deaths>>

\* No candidate is left: the error ends in poweroff().
poweroff ==
  /\ boot.at \in {"manifest", "payload"} /\ boot.todo = <<>>
  /\ boot' = [boot EXCEPT !.at = "off", !.blob = None]
  /\ UNCHANGED <<deployVars, mirror, creates, deaths, ran>>

Instance == start \/ fetch_manifest \/ verify_manifest \/ admit_from \/ poweroff

RolloutNext ==
  \/ Operator
  \/ Sync
  \/ Instance

\* The operator goes on copying while a mirror differs, and an instance that stopped or ran is
\* started again ("push it, reboot").
RolloutSpec ==
  /\ RolloutInit /\ [][RolloutNext]_rolloutVars
  /\ WF_rolloutVars(Sync)
  /\ WF_rolloutVars(Instance)

-----------------------------------------------------------------------------
(* Properties.                                                             *)

\* Whatever mixture of releases the mirrors hold, and however they change
\* between the requests of a boot, what an instance runs is the payload of one
\* release with the arguments of that release, and of the key it was started
\* with.  (resolve_payload, fetch_manifest, admit_payload)
RunsOneRelease ==
  boot.at = "running" =>
    \E a \in Creates : /\ a.arch = boot.p.arch /\ a.key = boot.p.key
                       /\ ran = Promised(a, "_stage2")

\* "re-sign it, push it, reboot", as README.md:42 has it for signed payloads,
\* for manifests: if a release stays the last one, then from some moment on
\* every boot that comes to run something runs it, whichever document
\* the instance was started with, and boots do come that far again and again,
\* half-copied mirrors and failed boots before notwithstanding.
\* (create, resolve_payload, fetch_manifest, admit_payload)
Converges ==
  \A a \in Creates : <>[](released[a.arch] = a) =>
    /\ []<>(boot.at = "running")
    /\ <>[](boot.at = "running" /\ boot.p.key = a.key => ran = Promised(a, "_stage2"))

\* The mirror behind u has a manifest that verifies and the payload it pins.
Complete(u, p) ==
  LET m == Get(u, FALSE)
  IN  /\ Readable(m) /\ verify(p.entry.manifest.ed25519, "stage2.manifest", m, Get(u, TRUE))
      /\ \E w \in ToSet(m.payload.url) :
           /\ w.host = u.host
           /\ Readable(Get(w, FALSE))
           /\ eq_ignore_ascii_case(m.payload.sha256, sha256(Get(w, FALSE)))

\* "any mirror that yields verifying bytes is accepted; a dead or wrong mirror
\* is simply skipped" (README.md:72): a boot during which no mirror changed
\* does not stop while a mirror of its list has a manifest and its payload.
\* resolve_payload goes on with the first manifest that verifies; when its
\* payload is gone, the mirrors behind are not tried.
StaleMirrorIsSkipped ==
  boot.at = "off" /\ boot.still /\ boot.p # None =>
    \A u \in ToSet(boot.p.entry.manifest.url) : ~ Complete(u, boot.p)
=============================================================================
