-------------------------- MODULE Stage1Properties --------------------------
(***************************************************************************)
(* What stage1 is expected to guarantee, whatever the mirrors, the         *)
(* metadata services, the TPM and the kernel answer.                       *)
(***************************************************************************)
EXTENDS Stage1

-----------------------------------------------------------------------------
(* Measurement and execution.                                              *)

\* The image that runs is the whole admitted payload, sealed, and when there
\* is a TPM (root) PCR 14 holds exactly its hash and the saved quote was taken
\* over it before PCR 14 changed.  Without root nothing was measured.
\* (stage2, extend_pcrs, generate_pre_execution_attestation, make_memfd)
RunsWhatWasMeasured ==
  pc = "running" =>
    /\ exe.of = binary /\ exe.n = Size /\ exe.sealed
    /\ pcr14 = IF launch.root THEN <<sha256(exe.of)>> ELSE <<>>
    /\ quote = IF launch.root
               THEN [nonce |-> sha256(exe.of), pcr14 |-> <<>>] ELSE None

\* PCR 14 changes at most once per boot, only after the quote is on file, and
\* to the hash the quote is bound to: no error path or retry measures twice or
\* measures something the quote does not name.
\* (generate_pre_execution_attestation before extend_pcrs)
MeasuredOnceAfterQuote ==
  [][pcr14' # pcr14 => /\ pcr14 = <<>>
                       /\ quote # None
                       /\ pcr14' = <<quote.nonce>>]_vars

\* The payload finds its document on fd 0: all of it, from the first byte on,
\* however write(2) split it, and it is the document of this resolution.
\* (execute_binary: second memfd, lseek, dup2)
PayloadReadsItsDocument ==
  pc = "running" =>
    /\ fd0 = "cfg"
    /\ cfg.of = StdinFor(doc, raw_json, history)
    /\ cfg.n = Size /\ cfg.pos = 0

-----------------------------------------------------------------------------
(* Authority.                                                              *)

\* What was admitted is what the document in force asks for: the pinned
\* bytes, or bytes signed as a stage2 payload by the key it names; with
\* arguments signed as stage2 arguments by the same key when the document
\* says where they are, never the inline ones instead.
\* (admit_from, fetch_signed_args, the args choice of resolve_payload)
AdmittedUnderAuthority ==
  binary # None =>
    LET p == ThePayload
    IN  /\ IF p.sha256 # None
           THEN eq_ignore_ascii_case(p.sha256, sha256(binary))
           ELSE sign(p.ed25519.key, "stage2.payload", binary) \in Issued
        /\ IF p.args_url # None
           THEN \E b \in Bytes :
                  /\ sign(p.ed25519.key, "stage2.args", b) \in Issued
                  /\ args = AsArgs(b)
           ELSE args = Argv(p, None)

\* The documents of a resolution: the received one and the manifests whose
\* digests were recorded.
Layer(i) == IF i = 0 THEN raw_json ELSE AsDoc(history[i].sha256.of)

\* The recorded history is a chain of trust: every hop was fetched from a
\* URL, satisfied the pin and was signed as a stage2 manifest by the key of
\* the pointer in the document just before it, and of nothing earlier: a
\* fresh pointer inherits no key, pin or URL from the one it replaces.
\* (the loop of resolve_payload, e.remove("manifest"), try_fetch_manifest)
ChainOfTrust ==
  \A i \in 1..Len(history) :
    LET m == Fields(Layer(i - 1).entry.manifest)
        b == history[i].sha256.of
    IN  /\ Given(Layer(i - 1).entry)
        /\ ManifestParses(Layer(i - 1).entry.manifest)
        /\ history[i].ed25519 = m.ed25519 /\ history[i].sig_url = m.sig_url
        /\ \E j \in 1..Len(m.url) : history[i].url = <<m.url[j]>>
        /\ m.sha256 # None => eq_ignore_ascii_case(m.sha256, sha256(b))
        /\ sign(m.ed25519.key, "stage2.manifest", b) \in Issued

\* The layers that say something about field f of the payload, after the last
\* one that set the payload to null.
Writers(f) ==
  {i \in 0..Len(history) :
     /\ Given(Layer(i).entry) /\ Given(Layer(i).entry.payload)
     /\ Layer(i).entry.payload[f] # Absent
     /\ \A j \in i..Len(history) :
          Given(Layer(j).entry) => Layer(j).entry.payload # None}

\* Each field of the admitted payload is the last one written along the chain:
\* what a later manifest says wins, and a null takes a field away.
\* (deep_merge)
LastManifestWins ==
  binary # None =>
    \A f \in DOMAIN ThePayload :
      doc.entry.payload[f] =
        IF Writers(f) = {} THEN Absent
        ELSE LET i == CHOOSE i \in Writers(f) : \A j \in Writers(f) : j <= i
             IN  Layer(i).entry.payload[f]

\* No manifest is resolved twice from the same URL, so the loop of
\* resolve_payload makes at most one round per URL and manifest.
NoHopTwice ==
  \A i, j \in 1..Len(history) :
    history[i].url = history[j].url /\ history[i].sha256 = history[j].sha256
      => i = j

\* The provenance a payload reads on stdin is the one stage1 established: no
\* manifest of the chain put its own there.  (set_resolved_manifests)
ProvenanceOfChain ==
  pc = "running" /\ history # <<>> =>
    cfg.of.entry.resolved_manifests = history

-----------------------------------------------------------------------------
(* Resiliency.                                                             *)

\* Every location of the list that answers at all answers with `bytes`, and
\* one of them always does.
Reliable(locations, bytes) ==
  /\ \A i \in 1..Len(locations) : Serves(locations[i]) \subseteq {Fail, bytes}
  /\ \E i \in 1..Len(locations) : Serves(locations[i]) = {bytes}

SigLocations(given, sig_url, hash) ==
  IF sig_url # None THEN substitute(sig_url, hash) ELSE DotSig(given)

ReliableArgs(p, hash) ==
  \E a \in Bytes :
    LET locations == substitute(p.args_url, hash)
    IN  /\ Reliable(locations, a)
        /\ AsArgs(a) # Malformed
        /\ Reliable(SigLocations(locations, p.args_sig_url, hash),
                    sign(p.ed25519.key, "stage2.args", a))

\* Mirror u of payload p always serves bytes that p admits.
ReliablePayload(p, u) ==
  \E b \in Bytes :
    /\ Serves(At(u)) = {b}
    /\ \/ /\ p.sha256 # None
          /\ eq_ignore_ascii_case(p.sha256, sha256(b))
       \/ /\ p.sha256 = None
          /\ Reliable(SigLocations(<<At(u)>>, p.sig_url, sha256(b)),
                      sign(p.ed25519.key, "stage2.payload", b))
          /\ p.args_url # None => ReliableArgs(p, sha256(b))

\* Mirror u of manifest m always serves a manifest that m admits.
ReliableManifest(m, u) ==
  \E b \in Bytes :
    /\ Serves(At(u)) = {b}
    /\ m.sha256 # None => eq_ignore_ascii_case(m.sha256, sha256(b))
    /\ Reliable(SigLocations(<<At(u)>>, m.sig_url, sha256(b)),
                sign(m.ed25519.key, "stage2.manifest", b))

\* One reliable mirror of a `url` list is enough: while it has not been tried
\* the loop has candidates left, whatever the mirrors before it did.
\* (admit_payload, fetch_manifest)
ReliableMirrorIsReached ==
  /\ pc = "payload" =>
       \A i \in 1..Len(ThePayload.url) :
         ReliablePayload(ThePayload, ThePayload.url[i]) =>
           \E j \in 1..Len(mirrors) : mirrors[j] = ThePayload.url[i]
  /\ pc = "manifest" =>
       \A i \in 1..Len(TheManifest.url) :
         ReliableManifest(TheManifest, TheManifest.url[i]) =>
           \E j \in 1..Len(mirrors) : mirrors[j] = TheManifest.url[i]

\* A provider that always answers with a document its decoder accepts.
ReliableProvider(e) ==
  /\ Fail \notin Provider[e]
  /\ \A a \in Provider[e] : parse_json_to_config(Decoded(e, a)) = {TRUE}
  /\ e = "ec2" => Fail \notin Provider["ec2 token"]

\* On a machine with a working metadata service stage1 does not give up
\* before it has a document, whatever the other clouds' endpoints answer.
\* (fetch_cloud_metadata)
DocumentIsFound ==
  (\E e \in {"ec2", "gcp", "azure"} : ReliableProvider(e)) =>
    (raw_json = None /\ pc \in {"poweroff", "off", "exit 1"} =>
       launch.stdin # None \/ launch.attest)

-----------------------------------------------------------------------------
(* Progress.                                                               *)

Settled == pc \in {"running", "exited", "off", "exit 1"}

\* stage1 never hangs: it reaches the payload, or stops.
Settles == <>Settled

\* The boot succeeds.
Boots == <>(pc = "running")

-----------------------------------------------------------------------------
(* What the documentation says and the code does not do: each of these is  *)
(* violated, by the run that README.md names.                              *)

\* "a dead or wrong mirror is simply skipped", said of every URL field
\* (README.md:72): if a payload mirror always serves the signed bytes and one
\* location of sig_url always serves their signature, that mirror is enough.
\* download_first stops at the first location that responds, and a wrong
\* signature from it refuses the payload mirror.
WrongSignatureMirrorIsSkipped ==
  pc = "payload" /\ ThePayload.sig_url # None /\ ThePayload.args_url = None =>
    \A i \in 1..Len(ThePayload.url) :
      (\E b \in Bytes :
         /\ Serves(At(ThePayload.url[i])) = {b}
         /\ \E j \in 1..Len(ThePayload.sig_url) :
              Serves(substitute(ThePayload.sig_url, sha256(b))[j])
                = {sign(ThePayload.ed25519.key, "stage2.payload", b)})
      => \E j \in 1..Len(mirrors) : mirrors[j] = ThePayload.url[i]

\* "tries each provider in sequence and uses the first successful response"
\* (crates/stage1/README.md:132): a document that did not come from stdin is
\* the body of a successful response.  The status is not looked at, and an
\* error body that is a JSON object parses as a user-data document.
DocumentIsFromSuccessfulResponse ==
  raw_json # None /\ launch.stdin = None =>
    \E e \in {"ec2", "gcp", "azure"} : \E a \in Provider[e] \ {Fail} :
      a.ok /\ Decoded(e, a) = raw_json

\* "Provenance of the manifest chain resolved to reach the payload (empty for
\* a direct `payload` entry)" (crates/metadata/src/lib.rs:96): what the
\* payload reads in resolved_manifests is what stage1 resolved.  A direct
\* entry's document goes through as received, with whatever it says there.
ProvenanceIsVerifierWritten ==
  pc = "running" =>
    \/ cfg.of.entry.resolved_manifests = history
    \/ cfg.of.entry.resolved_manifests = Absent /\ history = <<>>

-----------------------------------------------------------------------------
(* stage1 implements TrustedBoot.                                          *)

Phase ==
  CASE pc \in {"main_inner", "attest"} \cup Endpoints -> "waiting"
    [] pc \in {"resolve", "manifest", "follow", "payload"} \cup Lists -> "resolving"
    [] pc \in {"quote", "extend"} -> "admitted"
    [] pc \in {"exe", "exe write", "exe seal", "cfg", "cfg write", "lseek",
               "dup2", "execveat"} -> IF launch.root THEN "measured"
                                                     ELSE "admitted"
    [] pc = "running" -> "running"
    [] pc \in {"poweroff", "exited", "off", "exit 1"} -> "stopped"

Abstract == INSTANCE TrustedBoot
  WITH phase <- Phase, privileged <- launch.root, authority <- doc,
       chain <- history, code <- binary, argv <- args, config <- stdin,
       measured <- pcr14

\* Every step of stage1 is a step that TrustedBoot allows, or changes nothing
\* TrustedBoot speaks of.
ImplementsTrustedBoot == Abstract!ASpec
=============================================================================
