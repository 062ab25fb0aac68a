------------------------------- MODULE Stage1 -------------------------------
(***************************************************************************)
(* stage1, the loader that runs as PID 1 of the UKI: it obtains a          *)
(* user-data document, resolves it through signed manifests to a payload,  *)
(* admits the payload (sha256 pin or ed25519 signature), attests, measures *)
(* the payload into PCR 14, and executes it from a sealed memfd.  Every    *)
(* error ends in poweroff().                                               *)
(*                                                                         *)
(* stage1 is one sequential process.  What makes it hard is everything it  *)
(* talks to: mirrors that are dead, stale, wrong or change between two     *)
(* requests, metadata services that answer for another cloud, a TPM and a  *)
(* kernel that may refuse a call.  Those are modelled by sets of possible  *)
(* answers, one of which is chosen afresh at every request.                *)
(***************************************************************************)
EXTENDS Resolution

CONSTANTS
  Fail,        \* a request that brings no usable bytes: no connection, an
               \* HTTP error status, a broken transfer
  Nul,         \* an argument with an interior NUL
  Issued,      \* the signatures that key holders have made
  Serves(_),   \* location -> the answers a GET on it may bring
  AsDoc(_),    \* bytes -> the document serde_json reads from them
  AsArgs(_),   \* bytes -> the JSON string array serde_json reads from them
  Provider,    \* metadata endpoint -> the answers it may give
  Launches,    \* how stage1 may be started
  Faults,      \* the local calls that may fail
  Size         \* length of a memfd's content, in the units write(2) accepts

\* The endpoints of fetch_cloud_metadata.
Endpoints == {"ec2 token", "ec2", "gcp", "azure"}

\* The local calls that can fail.
Calls == {"stdin", "tpm", "attest file", "memfd_create", "write", "seal",
          "lseek", "dup2", "execveat"}

\* An answer of a metadata service; `ok` is the HTTP status class, `base64`
\* whether the body is an encoding of `body` rather than its text.
Answer == [ok : BOOLEAN, base64 : BOOLEAN, body : UserData \cup {Malformed}]

\* root: uid 0; pid1: process 1; attest: started with --attest; stdin: the
\* document piped in, None when fd 0 is no pipe or file or is empty; mfd_exec:
\* the kernel knows MFD_EXEC (and makes other memfds non-executable).
Launch == [root : BOOLEAN, pid1 : BOOLEAN, attest : BOOLEAN,
           stdin : UserData \cup {None, Malformed}, mfd_exec : BOOLEAN]

ASSUME Stage1Assumption ==
  /\ Malformed \notin UserData \cup Seq(Arg) \cup {Absent, None}
  /\ Scalar \notin UserData \cup {Malformed, Absent, None}
  /\ \A k \in Keys, d \in Domain, b \in Bytes : sign(k, d, b) # Fail
  /\ Fail \notin Bytes /\ None \notin Bytes \cup Seq(Arg)
  /\ None \notin [nonce : Hex, pcr14 : Seq(Hex)]
  /\ Nul \in Arg
  /\ Issued \subseteq Bytes
  /\ \A l \in Location : Serves(l) \subseteq Bytes \cup {Fail}
  /\ \A b \in Bytes : /\ AsDoc(b) \in UserData \cup {Malformed, Scalar}
                      /\ AsArgs(b) \in Seq(Arg) \cup {Malformed}
  /\ DOMAIN Provider = Endpoints
  /\ \A e \in Endpoints : Provider[e] \subseteq Answer \cup {Fail}
  /\ Launches \subseteq Launch
  /\ Faults \subseteq Calls
  /\ Size \in Nat

\* Nobody forges a signature: those that can be downloaded were issued.
ASSUME Unforgeable ==
  \A k \in Keys, d \in Domain, b \in Bytes :
    sign(k, d, b) \in Bytes => sign(k, d, b) \in Issued

VARIABLES
  launch,        \* how the process was started
  pc,            \* where main_inner is
  raw_json,      \* the document as received
  doc,           \* the document merged so far
  history,       \* the manifests resolved so far
  mirrors,       \* candidates of the payload or manifest `url` list left
  urls,          \* locations download_first has left
  blob,          \* the candidate payload or manifest being checked
  args_bytes,    \* the candidate signed arguments being checked
  binary,        \* the admitted payload
  args,          \* its argv
  stdin,         \* the document it will read from fd 0
  quote,         \* /tmp/stage1.attest: nonce and PCR 14 at the quote
  pcr14,         \* what has been extended into PCR 14, in order
  exe,           \* the memfd that holds the payload
  cfg,           \* the memfd that holds the document
  fd0            \* what fd 0 refers to: "inherited" or "cfg"

source == <<launch, raw_json>>
resolution == <<doc, history>>
download == <<mirrors, urls, blob, args_bytes>>
admitted == <<binary, args, stdin>>
tpm == <<quote, pcr14>>
memfds == <<exe, cfg, fd0>>
vars == <<launch, pc, raw_json, doc, history, mirrors, urls, blob, args_bytes,
          binary, args, stdin, quote, pcr14, exe, cfg, fd0>>

\* A memfd: what is being written to it, how much of that is in it, the file
\* offset, and its seals and mode.
Memfd(S) == [of : S, n : 0..Size, pos : 0..Size, sealed : BOOLEAN,
             exec : BOOLEAN]

PC == {"main_inner", "attest", "ec2 token", "ec2", "gcp", "azure", "resolve",
       "manifest", "manifest.sig", "follow", "payload", "payload.sig", "args",
       "args.sig", "quote", "extend", "exe", "exe write", "exe seal", "cfg",
       "cfg write", "lseek", "dup2", "execveat", "poweroff",
       "running", "exited", "off", "exit 1"}

TypeOK ==
  /\ launch \in Launches
  /\ pc \in PC
  /\ raw_json \in UserData \cup {None}
  /\ doc \in UserData \cup {None}
  /\ history \in Seq(ManifestRef)
  /\ mirrors \in Seq(Url)
  /\ urls \in Seq(Location)
  /\ blob \in Bytes \cup {None}
  /\ args_bytes \in Bytes \cup {None}
  /\ binary \in Bytes \cup {None}
  /\ args \in Seq(Arg)
  /\ stdin \in UserData \cup {None}
  /\ quote \in [nonce : Hex, pcr14 : Seq(Hex)] \cup {None}
  /\ pcr14 \in Seq(Hex)
  /\ exe \in Memfd(Bytes) \cup {None}
  /\ cfg \in Memfd(UserData) \cup {None}
  /\ fd0 \in {"inherited", "cfg"}

Init ==
  /\ launch \in Launches
  /\ pc = "main_inner"
  /\ raw_json = None /\ doc = None /\ history = <<>>
  /\ mirrors = <<>> /\ urls = <<>> /\ blob = None /\ args_bytes = None
  /\ binary = None /\ args = <<>> /\ stdin = None
  /\ quote = None /\ pcr14 = <<>>
  /\ exe = None /\ cfg = None /\ fd0 = "inherited"

-----------------------------------------------------------------------------
(* main_inner: where the document comes from.                              *)

\* Hand the parsed document to stage2() and resolve_payload().
Received(d) ==
  /\ raw_json' = d /\ doc' = d
  /\ pc' = "resolve"
  /\ UNCHANGED <<launch, history, download, admitted, tpm, memfds>>

\* The early returns of main_inner: an error converges on poweroff().
Err ==
  /\ pc' = "poweroff"
  /\ UNCHANGED <<source, resolution, download, admitted, tpm, memfds>>

Goto(l) ==
  /\ pc' = l
  /\ UNCHANGED <<source, resolution, download, admitted, tpm, memfds>>

\* The outcomes parse_json_to_config may have on a body.
parse_json_to_config(body) ==
  IF body = Malformed THEN {FALSE} ELSE UserDataParses(body)

\* A piped document wins over everything; with nothing piped, --attest or the
\* metadata services.
stdin_config ==
  /\ pc = "main_inner"
  /\ \/ /\ launch.stdin = None
        /\ Goto(IF launch.attest THEN "attest" ELSE "ec2 token")
     \/ /\ launch.stdin # None
        /\ \/ TRUE \in parse_json_to_config(launch.stdin)
              /\ Received(launch.stdin)
           \/ (FALSE \in parse_json_to_config(launch.stdin)
               \/ "stdin" \in Faults) /\ Err

\* stage1 --attest: print an attestation and return.
attest_diagnostic ==
  /\ pc = "attest"
  /\ Goto("exited") \/ ("tpm" \in Faults /\ Err)

\* A plausible bug: the chain of or_else ends with GCP.
OrElse_no_azure(endpoint) ==
  IF endpoint \in {"ec2 token", "ec2"} THEN "gcp" ELSE "poweroff"

\* The endpoint that fetch_cloud_metadata turns to when one fails.
OrElse(endpoint) ==
  CASE endpoint \in {"ec2 token", "ec2"} -> "gcp"
    [] endpoint = "gcp"                  -> "azure"
    [] endpoint = "azure"                -> "poweroff"

\* The PUT for an IMDSv2 token: any answer at all is taken for the token.  If it
\* is no header value, the GET that carries it fails, as any GET may.
try_fetch_ec2_token ==
  /\ pc = "ec2 token"
  /\ \E a \in Provider["ec2 token"] :
       Goto(IF a = Fail THEN OrElse("ec2 token") ELSE "ec2")

\* What a provider's body decodes to: EC2 and GCP send the document's text,
\* Azure its base64.  None of the three looks at the HTTP status.
Decoded(endpoint, a) ==
  IF a.base64 = (endpoint = "azure") THEN a.body ELSE Malformed

try_fetch(endpoint) ==
  /\ pc = endpoint
  /\ \E a \in Provider[endpoint] :
       IF a = Fail
       THEN Goto(OrElse(endpoint))
       ELSE LET body == Decoded(endpoint, a)
            IN  \E parsed \in parse_json_to_config(body) :
                  IF parsed THEN Received(body) ELSE Goto(OrElse(endpoint))

try_fetch_ec2 == try_fetch("ec2")
try_fetch_gcp == try_fetch("gcp")
try_fetch_azure == try_fetch("azure")

-----------------------------------------------------------------------------
(* Downloads.                                                              *)

\* The loops whose body runs one download_first.
Lists == {"manifest.sig", "payload.sig", "args", "args.sig"}

\* The outer loop (fetch_manifest, admit_payload) that a location belongs to.
Loop(l) == IF l \in {"manifest", "manifest.sig"} THEN "manifest" ELSE "payload"

\* A plausible bug: the candidate's error is returned instead of kept.
NextMirror_gives_up ==
  /\ pc' = Loop(pc)
  /\ mirrors' = <<>>
  /\ urls' = <<>> /\ blob' = None /\ args_bytes' = None
  /\ UNCHANGED <<source, resolution, admitted, tpm, memfds>>

\* A plausible bug: the refused candidate is tried again.
NextMirror_retries ==
  /\ pc' = Loop(pc)
  /\ urls' = <<>> /\ blob' = None /\ args_bytes' = None
  /\ UNCHANGED <<source, resolution, mirrors, admitted, tpm, memfds>>

\* The candidate is refused: on to the next URL of the outer loop.
NextMirror ==
  /\ pc' = Loop(pc)
  /\ mirrors' = Tail(mirrors)
  /\ urls' = <<>> /\ blob' = None /\ args_bytes' = None
  /\ UNCHANGED <<source, resolution, admitted, tpm, memfds>>

\* download_first: this URL does not respond.
download_first_next ==
  /\ pc \in Lists
  /\ urls # <<>>
  /\ Fail \in Serves(Head(urls))
  /\ urls' = Tail(urls)
  /\ UNCHANGED <<source, pc, resolution, mirrors, blob, args_bytes, admitted,
                 tpm, memfds>>

\* download_first: no URL responded.
download_first_err ==
  /\ pc \in Lists
  /\ urls = <<>>
  /\ NextMirror

\* fetch_manifest and admit_payload: the next candidate does not respond.
candidate_unavailable ==
  /\ pc \in {"manifest", "payload"}
  /\ mirrors # <<>>
  /\ Fail \in Serves(At(Head(mirrors)))
  /\ NextMirror

\* fetch_manifest and admit_payload: every candidate was refused.
candidates_err ==
  /\ pc \in {"manifest", "payload"}
  /\ mirrors = <<>>
  /\ Err

-----------------------------------------------------------------------------
(* resolve_payload: the manifest loop.                                     *)

ThePayload == Fields(doc.entry.payload)
TheManifest == Fields(doc.entry.manifest)

\* Evaluate the arch entry: the candidates of a payload, those of a manifest,
\* or an error.
resolve_payload ==
  /\ pc = "resolve"
  /\ LET ok == ArchConfigParses(doc.entry)
         manifest == ok /\ IsManifest(doc.entry)
                        /\ validate(TheManifest, "Stage1")
         payload == ok /\ ~ IsManifest(doc.entry)
                       /\ admission(ThePayload, "Stage1")
     IN  \/ ~ manifest /\ ~ payload /\ Err
         \/ /\ manifest \/ payload
            /\ pc' = IF manifest THEN "manifest" ELSE "payload"
            /\ mirrors' = IF manifest THEN TheManifest.url ELSE ThePayload.url
            /\ UNCHANGED <<source, resolution, urls, blob, args_bytes,
                           admitted, tpm, memfds>>

\* The candidate has been downloaded and its signature is fetched next.
FetchSignature(b, sig_url, l) ==
  /\ blob' = b
  /\ urls' = IF sig_url # None THEN substitute(sig_url, sha256(b))
                               ELSE DotSig(<<At(Head(mirrors))>>)
  /\ pc' = l
  /\ UNCHANGED <<source, resolution, mirrors, args_bytes, admitted, tpm, memfds>>

\* A plausible bug: the manifest's own pin is forgotten.
PinHolds_ignored(m, b) == TRUE

PinHolds(m, b) ==
  m.sha256 # None => eq_ignore_ascii_case(m.sha256, sha256(b))

\* One candidate for the manifest: its bytes, and its own pin if there is one.
try_fetch_manifest ==
  /\ pc = "manifest"
  /\ mirrors # <<>>
  /\ \E b \in Serves(At(Head(mirrors))) \ {Fail} :
       IF PinHolds(TheManifest, b)
       THEN FetchSignature(b, TheManifest.sig_url, "manifest.sig")
       ELSE NextMirror

\* The signature that responded first decides about the candidate.
verify_manifest ==
  /\ pc = "manifest.sig"
  /\ urls # <<>>
  /\ \E s \in Serves(Head(urls)) \ {Fail} :
       IF verify(TheManifest.ed25519, "stage2.manifest", blob, s)
       THEN Goto("follow") ELSE NextMirror

\* A manifest is verified: refuse a repeated (url, hash), record the hop,
\* consume the pointer and merge the manifest over the document.
follow_manifest ==
  /\ pc = "follow"
  /\ IF IsCycle(history, Head(mirrors), blob) \/ AsDoc(blob) = Malformed
     THEN Err
     ELSE /\ history' = Append(history, Hop(TheManifest, Head(mirrors), blob))
          /\ doc' = deep_merge(RemovePointer(doc), AsDoc(blob))
          /\ pc' = "resolve"
          /\ mirrors' = <<>> /\ urls' = <<>> /\ blob' = None
          /\ UNCHANGED <<source, args_bytes, admitted, tpm, memfds>>

-----------------------------------------------------------------------------
(* admit_payload.                                                          *)

\* A plausible bug: PCR 14 is extended without a quote before it.
stage2_unquoted == IF launch.root THEN "extend" ELSE "exe"

\* stage2 attests and measures only when it is root.
stage2 == IF launch.root THEN "quote" ELSE "exe"

\* resolve_payload returns the payload, its argv and its stdin.
Admit(b, signed_args) ==
  /\ binary' = b
  /\ args' = Argv(ThePayload, signed_args)
  /\ stdin' = StdinFor(doc, raw_json, history)
  /\ pc' = stage2
  /\ mirrors' = <<>> /\ urls' = <<>> /\ blob' = None /\ args_bytes' = None
  /\ UNCHANGED <<source, resolution, tpm, memfds>>

\* One candidate for the payload: a sha256 pin decides at once.
admit_from ==
  /\ pc = "payload"
  /\ mirrors # <<>>
  /\ \E b \in Serves(At(Head(mirrors))) \ {Fail} :
       IF ThePayload.sha256 # None
       THEN IF eq_ignore_ascii_case(ThePayload.sha256, sha256(b))
            THEN Admit(b, None) ELSE NextMirror
       ELSE FetchSignature(b, ThePayload.sig_url, "payload.sig")

\* The payload's signature; signed arguments are fetched next if declared.
verify_payload ==
  /\ pc = "payload.sig"
  /\ urls # <<>>
  /\ \E s \in Serves(Head(urls)) \ {Fail} :
       IF ~ verify(ThePayload.ed25519, "stage2.payload", blob, s)
       THEN NextMirror
       ELSE IF ThePayload.args_url = None
       THEN Admit(blob, None)
       ELSE /\ pc' = "args"
            /\ urls' = substitute(ThePayload.args_url, sha256(blob))
            /\ UNCHANGED <<source, resolution, mirrors, blob, args_bytes,
                           admitted, tpm, memfds>>

\* fetch_signed_args: the arguments themselves ...
fetch_signed_args ==
  /\ pc = "args"
  /\ urls # <<>>
  /\ \E b \in Serves(Head(urls)) \ {Fail} :
       /\ args_bytes' = b
       /\ urls' = IF ThePayload.args_sig_url # None
                  THEN substitute(ThePayload.args_sig_url, sha256(blob))
                  ELSE DotSig(substitute(ThePayload.args_url, sha256(blob)))
       /\ pc' = "args.sig"
       /\ UNCHANGED <<source, resolution, mirrors, blob, admitted, tpm, memfds>>

\* ... and their signature, under the payload's key.
verify_signed_args ==
  /\ pc = "args.sig"
  /\ urls # <<>>
  /\ \E s \in Serves(Head(urls)) \ {Fail} :
       IF verify(ThePayload.ed25519, "stage2.args", args_bytes, s)
          /\ AsArgs(args_bytes) # Malformed
       THEN Admit(blob, AsArgs(args_bytes)) ELSE NextMirror

-----------------------------------------------------------------------------
(* stage2: measure, then execute.                                          *)

\* The quote is taken while PCR 14 does not hold the payload yet; its nonce
\* is the payload's hash.
generate_pre_execution_attestation ==
  /\ pc = "quote"
  /\ \/ "tpm" \in Faults /\ Err
     \/ "attest file" \in Faults /\ Err
     \/ /\ quote' = [nonce |-> sha256(binary), pcr14 |-> pcr14]
        /\ pc' = "extend"
        /\ UNCHANGED <<source, resolution, download, admitted, pcr14, memfds>>

\* A failed extend may still have reached the TPM.
extend_pcrs ==
  /\ pc = "extend"
  /\ \/ "tpm" \in Faults /\ Err
     \/ /\ pcr14' = Append(pcr14, sha256(binary))
        /\ pc' = "exe" \/ ("tpm" \in Faults /\ pc' = "poweroff")
        /\ UNCHANGED <<source, resolution, download, admitted, quote, memfds>>

\* A plausible bug: MFD_EXEC is never asked for.
memfd_create_plain(content, exec) ==
  [of |-> content, n |-> 0, pos |-> 0, sealed |-> FALSE,
   exec |-> ~ launch.mfd_exec]

\* memfd_create; `exec` asks for MFD_EXEC and drops it on a kernel that does
\* not know the flag, where every memfd is executable.
memfd_create(content, exec) ==
  [of |-> content, n |-> 0, pos |-> 0, sealed |-> FALSE,
   exec |-> exec \/ ~ launch.mfd_exec]

make_memfd_exe ==
  /\ pc = "exe"
  /\ \/ "memfd_create" \in Faults /\ Err
     \/ /\ exe' = memfd_create(binary, TRUE)
        /\ pc' = "exe write"
        /\ UNCHANGED <<source, resolution, download, admitted, tpm, cfg, fd0>>

\* write(2) takes any non-empty part of what is left.
Written(fd) == {[fd EXCEPT !.n = k, !.pos = k] : k \in (fd.n + 1)..Size}

\* A plausible bug: one call of write(2) is taken to write everything.
AllWritten_once(fd) == fd.n > 0

AllWritten(fd) == fd.n = Size

write_exe ==
  /\ pc = "exe write"
  /\ IF AllWritten(exe)
     THEN Goto("exe seal")
     ELSE \/ "write" \in Faults /\ Err
          \/ /\ exe' \in Written(exe)
             /\ UNCHANGED <<source, pc, resolution, download, admitted, tpm,
                            cfg, fd0>>

seal_exe ==
  /\ pc = "exe seal"
  /\ \/ "seal" \in Faults /\ Err
     \/ /\ exe' = [exe EXCEPT !.sealed = TRUE]
        /\ pc' = "cfg"
        /\ UNCHANGED <<source, resolution, download, admitted, tpm, cfg, fd0>>

make_memfd_cfg ==
  /\ pc = "cfg"
  /\ \/ "memfd_create" \in Faults /\ Err
     \/ /\ cfg' = memfd_create(stdin, FALSE)
        /\ pc' = "cfg write"
        /\ UNCHANGED <<source, resolution, download, admitted, tpm, exe, fd0>>

write_cfg ==
  /\ pc = "cfg write"
  /\ IF AllWritten(cfg)
     THEN Goto("lseek")
     ELSE \/ "write" \in Faults /\ Err
          \/ /\ cfg' \in Written(cfg)
             /\ UNCHANGED <<source, pc, resolution, download, admitted, tpm,
                            exe, fd0>>

\* A plausible bug: the offset stays behind what was written.
rewind_cfg_skipped == pc = "lseek" /\ Goto("dup2")

rewind_cfg ==
  /\ pc = "lseek"
  /\ \/ "lseek" \in Faults /\ Err
     \/ /\ cfg' = [cfg EXCEPT !.pos = 0]
        /\ pc' = "dup2"
        /\ UNCHANGED <<source, resolution, download, admitted, tpm, exe, fd0>>

wire_stdin ==
  /\ pc = "dup2"
  /\ \/ "dup2" \in Faults /\ Err
     \/ /\ fd0' = "cfg"
        /\ pc' = "execveat"
        /\ UNCHANGED <<source, resolution, download, admitted, tpm, exe, cfg>>

\* argv is built first: an argument with an interior NUL is an error.  Then
\* execveat, which returns only on failure; it refuses a file that is not
\* executable.
execute_binary ==
  /\ pc = "execveat"
  /\ LET nul == \E i \in 1..Len(args) : args[i] = Nul
     IN  \/ (nul \/ ~ exe.exec \/ "execveat" \in Faults) /\ Err
         \/ ~ nul /\ exe.exec /\ Goto("running")

\* PID 1 syncs, waits for the console to drain and powers the machine off;
\* any other process exits with status 1.
poweroff ==
  /\ pc = "poweroff"
  /\ Goto(IF launch.pid1 THEN "off" ELSE "exit 1")

-----------------------------------------------------------------------------
fetch_cloud_metadata ==
  try_fetch_ec2_token \/ try_fetch_ec2 \/ try_fetch_gcp \/ try_fetch_azure

fetch_manifest == try_fetch_manifest \/ verify_manifest \/ follow_manifest

admit_payload ==
  admit_from \/ verify_payload \/ fetch_signed_args \/ verify_signed_args

make_memfds ==
  \/ make_memfd_exe \/ write_exe \/ seal_exe
  \/ make_memfd_cfg \/ write_cfg \/ rewind_cfg \/ wire_stdin

Next ==
  \/ stdin_config \/ attest_diagnostic \/ fetch_cloud_metadata
  \/ download_first_next \/ download_first_err
  \/ candidate_unavailable \/ candidates_err
  \/ resolve_payload \/ fetch_manifest \/ admit_payload
  \/ generate_pre_execution_attestation \/ extend_pcrs
  \/ make_memfds \/ execute_binary \/ poweroff

Spec == Init /\ [][Next]_vars

\* Every step ends by itself: the HTTP client times a request out, and no
\* other call of stage1 waits for anybody.
FairSpec == Spec /\ WF_vars(Next)
=============================================================================
