------------------------- MODULE Stage1SafetyProofs -------------------------
(***************************************************************************)
(* Proofs that what stage1 runs was measured, once and after the quote,    *)
(* and that the payload reads its own document; that nothing is admitted   *)
(* without authority, that authority passes only from a document to a      *)
(* manifest its key signed, and that no manifest is followed twice.        *)
(***************************************************************************)
EXTENDS Stage1Proofs

\* Where stage1 has not admitted a payload yet.
Early == {"main_inner", "attest"} \cup Endpoints \cup {"resolve"}
         \cup AtManifest \cup AtPayload

-----------------------------------------------------------------------------
(* Measurement and execution.                                              *)

\* What the TPM and the quote hold, by where stage1 is.
Measured ==
  /\ pc \in Early => quote = None /\ pcr14 = <<>>
  /\ pc = "quote" => launch.root /\ quote = None /\ pcr14 = <<>>
  /\ pc = "extend" => /\ launch.root
                      /\ quote = [nonce |-> sha256(binary), pcr14 |-> <<>>]
                      /\ pcr14 = <<>>
  /\ pc \in Executing =>
       /\ pcr14 = IF launch.root THEN <<sha256(binary)>> ELSE <<>>
       /\ quote = IF launch.root
                  THEN [nonce |-> sha256(binary), pcr14 |-> <<>>] ELSE None

AfterSeal == {"cfg", "cfg write", "lseek", "dup2", "execveat", "running"}

\* How far the image of the payload is.
ImageStaged ==
  /\ pc \in {"exe write", "exe seal"} \cup AfterSeal => exe.of = binary
  /\ pc \in {"exe seal"} \cup AfterSeal => exe.n = Size
  /\ pc \in AfterSeal => exe.sealed

\* How far its document is.
DocumentStaged ==
  /\ pc \in Measuring \cup Executing => stdin = StdinFor(doc, raw_json, history)
  /\ pc \in {"cfg write", "lseek", "dup2", "execveat", "running"} => cfg.of = stdin
  /\ pc \in {"lseek", "dup2", "execveat", "running"} => cfg.n = Size
  /\ pc \in {"dup2", "execveat", "running"} => cfg.pos = 0
  /\ pc \in {"execveat", "running"} => fd0 = "cfg"

MeasureInv == Measured /\ ImageStaged /\ DocumentStaged

\* What a step that is not yet past admission may do: it leaves the TPM alone,
\* and only Admit leaves the early part of the program towards execution.
EarlyFrame ==
  /\ UNCHANGED <<launch, quote, pcr14>>
  /\ \/ pc' \in Early \cup {"poweroff", "exited"}
     \/ /\ pc' = stage2
        /\ stdin' = StdinFor(doc, raw_json, history)
        /\ UNCHANGED <<raw_json, doc, history>>

\* Every step of the early part stays within that frame.
LEMMA EarlySteps ==
  ASSUME TypeInv, pc \in Early, Next
  PROVE  EarlyFrame
<1> USE DEF EarlyFrame
<1>1. CASE \E l \in Early \cup {"poweroff", "exited"} : Goto(l)
  BY <1>1 DEF Goto, source, tpm
<1>2. CASE Err
  BY <1>2 DEF Err, source, tpm
<1>3. CASE NextMirror
  BY <1>3 DEF NextMirror, Loop, Early, AtManifest, AtPayload, source, tpm
<1>4. CASE \E d : Received(d)
  BY <1>4 DEF Received, Early, tpm
<1>5. CASE \E b, v : Admit(b, v)
  BY <1>5 DEF Admit, source, resolution, tpm
<1>6. CASE \E b, s : \E l \in Early : FetchSignature(b, s, l)
  BY <1>6 DEF FetchSignature, source, tpm
<1>7. ASSUME NEW e \in Endpoints
      PROVE  OrElse(e) \in Early \cup {"poweroff"}
  BY DEF OrElse, Endpoints, Early
<1>8. CASE stdin_config
  BY <1>1, <1>2, <1>4, <1>8 DEF stdin_config, Early, Endpoints
<1>9. CASE attest_diagnostic
  BY <1>1, <1>2, <1>9 DEF attest_diagnostic
<1>10. CASE fetch_cloud_metadata
  <2>1. CASE try_fetch_ec2_token
    BY <1>1, <1>7, <2>1 DEF try_fetch_ec2_token, Early, Endpoints
  <2>2. ASSUME NEW e \in Endpoints, try_fetch(e)
        PROVE  EarlyFrame
    BY <1>1, <1>4, <1>7, <2>2 DEF try_fetch
  <2> QED
    BY <1>10, <2>1, <2>2 DEF fetch_cloud_metadata, try_fetch_ec2,
       try_fetch_gcp, try_fetch_azure, Endpoints
<1>11. CASE download_first_next
  BY <1>11 DEF download_first_next, source, tpm
<1>12. CASE download_first_err \/ candidate_unavailable \/ candidates_err
  BY <1>2, <1>3, <1>12 DEF download_first_err, candidate_unavailable,
     candidates_err
<1>13. CASE resolve_payload
  <2>1. CASE Err
    BY <1>2, <2>1
  <2>2. CASE ~ Err
    BY <1>13, <2>2 DEF resolve_payload, Early, AtManifest, AtPayload, source, tpm
  <2> QED
    BY <2>1, <2>2
<1>14. CASE fetch_manifest
  <2>1. CASE try_fetch_manifest
    BY <1>3, <1>6, <2>1 DEF try_fetch_manifest, Early, AtManifest
  <2>2. CASE verify_manifest
    BY <1>1, <1>3, <2>2 DEF verify_manifest, Early, AtManifest
  <2>3. CASE follow_manifest
    BY <1>2, <2>3 DEF follow_manifest, Early, source, tpm
  <2> QED
    BY <1>14, <2>1, <2>2, <2>3 DEF fetch_manifest
<1>15. CASE admit_payload
  <2>1. CASE admit_from
    BY <1>3, <1>5, <1>6, <2>1 DEF admit_from, Early, AtPayload
  <2>2. CASE verify_payload
    BY <1>3, <1>5, <2>2 DEF verify_payload, Early, AtPayload, source, tpm
  <2>3. CASE fetch_signed_args
    BY <2>3 DEF fetch_signed_args, Early, AtPayload, source, tpm
  <2>4. CASE verify_signed_args
    BY <1>3, <1>5, <2>4 DEF verify_signed_args
  <2> QED
    BY <1>15, <2>1, <2>2, <2>3, <2>4 DEF admit_payload
<1>16. pc \notin Measuring \cup Executing \cup {"poweroff"}
  BY DEF Early, Endpoints, AtManifest, AtPayload, Measuring, Executing
<1>17. ~ (generate_pre_execution_attestation \/ extend_pcrs \/ make_memfds
          \/ execute_binary \/ poweroff)
  BY <1>16 DEF generate_pre_execution_attestation, extend_pcrs, make_memfds,
     make_memfd_exe, write_exe, seal_exe, make_memfd_cfg, write_cfg,
     rewind_cfg, wire_stdin, execute_binary, poweroff, Measuring, Executing
<1> QED
  BY <1>8, <1>9, <1>10, <1>11, <1>12, <1>13, <1>14, <1>15, <1>17 DEF Next

\* Nothing is measured or staged when stage1 starts.
LEMMA MeasureInit == Init => MeasureInv
BY DEF Init, MeasureInv, Measured, ImageStaged, DocumentStaged, Early,
       Measuring, Executing, AfterSeal, Endpoints, AtManifest, AtPayload

\* The claims are about a run that has not stopped: a stop leaves none.
LEMMA MeasureStopped ==
  ASSUME pc' \in {"poweroff", "exited", "off", "exit 1"}
  PROVE  MeasureInv'
BY DEF MeasureInv, Measured, ImageStaged, DocumentStaged, Early, Endpoints,
       AtManifest, AtPayload, Measuring, Executing, AfterSeal

\* A step of the early part, admission included.
LEMMA MeasureEarlyStep ==
  ASSUME TypeInv, MeasureInv, pc \in Early, Next
  PROVE  MeasureInv'
<1>1. EarlyFrame
  BY EarlySteps
<1>2. quote = None /\ pcr14 = <<>>
  BY DEF MeasureInv, Measured
<1>3. quote' = None /\ pcr14' = <<>> /\ launch' = launch
  BY <1>1, <1>2 DEF EarlyFrame
<1>4. CASE pc' \in {"poweroff", "exited"}
  BY <1>4, MeasureStopped
<1>5. CASE pc' \in Early
  <2>1. Measured'
    BY <1>3, <1>5 DEF Measured, Early, Endpoints, AtManifest, AtPayload, Executing
  <2>2. ImageStaged' /\ DocumentStaged'
    BY <1>5 DEF ImageStaged, DocumentStaged, Early, Endpoints, AtManifest,
       AtPayload, Measuring, Executing, AfterSeal
  <2> QED
    BY <2>1, <2>2 DEF MeasureInv
<1>6. CASE /\ pc' = stage2
           /\ stdin' = StdinFor(doc, raw_json, history)
           /\ UNCHANGED <<raw_json, doc, history>>
  <2>1. pc' = IF launch.root THEN "quote" ELSE "exe"
    BY <1>6 DEF stage2
  <2>2. Measured'
    BY <1>3, <2>1 DEF Measured, Early, Endpoints, AtManifest, AtPayload,
       Executing
  <2>3. ImageStaged'
    BY <2>1 DEF ImageStaged, AfterSeal
  <2>4. DocumentStaged'
    BY <1>6, <2>1 DEF DocumentStaged
  <2> QED
    BY <2>2, <2>3, <2>4 DEF MeasureInv
<1> QED
  BY <1>1, <1>4, <1>5, <1>6 DEF EarlyFrame

\* A step of stage2() and execute_binary().
LEMMA MeasureExecuteStep ==
  ASSUME TypeInv, MeasureInv, pc \in Measuring \cup Executing, Next
  PROVE  MeasureInv'
<1> USE DEF Measuring, Executing, AfterSeal
<1>e. pc \notin Early
  BY DEF Early, Endpoints, AtManifest, AtPayload
<1>0. CASE Err
  BY <1>0, MeasureStopped DEF Err
<1>1. CASE generate_pre_execution_attestation /\ ~ Err
  <2>1. /\ pc = "quote" /\ pc' = "extend"
        /\ quote' = [nonce |-> sha256(binary), pcr14 |-> pcr14]
        /\ UNCHANGED <<launch, raw_json, doc, history, binary, stdin, pcr14>>
    BY <1>1 DEF generate_pre_execution_attestation, source, resolution, admitted
  <2> QED
    BY <2>1 DEF MeasureInv, Measured, ImageStaged, DocumentStaged, Early,
       Endpoints, AtManifest, AtPayload
<1>2. CASE extend_pcrs /\ ~ Err
  <2>1. /\ pc = "extend" /\ pc' \in {"exe", "poweroff"}
        /\ pcr14' = Append(pcr14, sha256(binary))
        /\ UNCHANGED <<launch, raw_json, doc, history, binary, stdin, quote>>
    BY <1>2 DEF extend_pcrs, source, resolution, admitted
  <2>2. CASE pc' = "exe"
    <3>1. launch.root /\ pcr14 = <<>>
          /\ quote = [nonce |-> sha256(binary), pcr14 |-> <<>>]
      BY <2>1 DEF MeasureInv, Measured
    <3>2. pcr14' = <<sha256(binary)>>
      BY <2>1, <3>1
    <3>3. Measured'
      BY <2>1, <2>2, <3>1, <3>2 DEF Measured, Early, Endpoints, AtManifest,
         AtPayload
    <3>4. ImageStaged' /\ DocumentStaged'
      BY <2>1, <2>2 DEF MeasureInv, ImageStaged, DocumentStaged
    <3> QED
      BY <3>3, <3>4 DEF MeasureInv
  <2> QED
    BY <2>1, <2>2, MeasureStopped
<1>f. ASSUME pc \in Executing, pc' \in Executing,
             UNCHANGED <<source, resolution, admitted, tpm>>,
             ImageStaged',
             pc' \in {"cfg write", "lseek", "dup2", "execveat", "running"}
               => cfg'.of = stdin,
             pc' \in {"lseek", "dup2", "execveat", "running"} => cfg'.n = Size,
             pc' \in {"dup2", "execveat", "running"} => cfg'.pos = 0,
             pc' \in {"execveat", "running"} => fd0' = "cfg"
      PROVE  MeasureInv'
  <2>1. Measured'
    BY <1>f DEF MeasureInv, Measured, source, admitted, tpm, Early, Endpoints,
       AtManifest, AtPayload
  <2>2. DocumentStaged'
    BY <1>f DEF MeasureInv, DocumentStaged, source, resolution, admitted
  <2> QED
    BY <1>f, <2>1, <2>2 DEF MeasureInv
<1>3. CASE make_memfd_exe /\ ~ Err
  <2>1. /\ pc = "exe" /\ pc' = "exe write" /\ exe' = memfd_create(binary, TRUE)
        /\ UNCHANGED <<source, resolution, admitted, tpm>>
    BY <1>3 DEF make_memfd_exe
  <2>2. ImageStaged'
    BY <2>1 DEF ImageStaged, memfd_create, admitted
  <2> QED
    BY <1>f, <2>1, <2>2
<1>4. CASE write_exe /\ ~ Err
  <2>1. /\ pc = "exe write" /\ exe.of = binary
        /\ UNCHANGED <<source, resolution, admitted, tpm>>
    BY <1>4 DEF write_exe, Goto, MeasureInv, ImageStaged
  <2>2. CASE exe.n = Size /\ Goto("exe seal")
    <3>1. pc' = "exe seal" /\ exe' = exe
      BY <2>2 DEF Goto, memfds
    <3>2. ImageStaged'
      BY <2>1, <2>2, <3>1 DEF ImageStaged, admitted
    <3> QED
      BY <1>f, <2>1, <3>1, <3>2
  <2>3. CASE exe' \in Written(exe) /\ pc' = pc
    <3>1. exe \in Memfd(Bytes)
      BY <2>1 DEF TypeInv, HasPayload
    <3>2. exe'.of = exe.of
      BY <2>3, <3>1 DEF Written, Memfd
    <3>3. ImageStaged'
      BY <2>1, <2>3, <3>2 DEF ImageStaged, admitted
    <3> QED
      BY <1>f, <2>1, <2>3, <3>3
  <2> QED
    BY <1>4, <2>2, <2>3 DEF write_exe, AllWritten
<1>5. CASE seal_exe /\ ~ Err
  <2>1. /\ pc = "exe seal" /\ pc' = "cfg" /\ exe' = [exe EXCEPT !.sealed = TRUE]
        /\ exe.of = binary /\ exe.n = Size /\ exe \in Memfd(Bytes)
        /\ UNCHANGED <<source, resolution, admitted, tpm>>
    BY <1>5 DEF seal_exe, MeasureInv, ImageStaged, TypeInv, HasPayload
  <2>2. ImageStaged'
    BY <2>1 DEF ImageStaged, Memfd, admitted
  <2> QED
    BY <1>f, <2>1, <2>2
<1>i. ASSUME pc \in AfterSeal, pc' \in AfterSeal, exe' = exe, UNCHANGED admitted
      PROVE  ImageStaged'
  BY <1>i DEF MeasureInv, ImageStaged, admitted
<1>6. CASE make_memfd_cfg /\ ~ Err
  <2>1. /\ pc = "cfg" /\ pc' = "cfg write" /\ cfg' = memfd_create(stdin, FALSE)
        /\ exe' = exe /\ UNCHANGED <<source, resolution, admitted, tpm>>
    BY <1>6 DEF make_memfd_cfg
  <2> QED
    BY <1>f, <1>i, <2>1 DEF memfd_create
<1>7. CASE write_cfg /\ ~ Err
  <2>1. /\ pc = "cfg write" /\ cfg.of = stdin /\ exe' = exe
        /\ UNCHANGED <<source, resolution, admitted, tpm>>
    BY <1>7 DEF write_cfg, Goto, MeasureInv, DocumentStaged, memfds
  <2>2. CASE cfg.n = Size /\ Goto("lseek")
    BY <1>f, <1>i, <2>1, <2>2 DEF Goto, memfds
  <2>3. CASE cfg' \in Written(cfg) /\ pc' = pc
    <3>1. cfg \in Memfd(UserData)
      BY <2>1 DEF TypeInv, HasPayload
    <3>2. cfg'.of = cfg.of
      BY <2>3, <3>1 DEF Written, Memfd
    <3> QED
      BY <1>f, <1>i, <2>1, <2>3, <3>2
  <2> QED
    BY <1>7, <2>2, <2>3 DEF write_cfg, AllWritten
<1>8. CASE rewind_cfg /\ ~ Err
  <2>1. /\ pc = "lseek" /\ pc' = "dup2" /\ cfg' = [cfg EXCEPT !.pos = 0]
        /\ cfg.of = stdin /\ cfg.n = Size /\ cfg \in Memfd(UserData)
        /\ exe' = exe /\ UNCHANGED <<source, resolution, admitted, tpm>>
    BY <1>8 DEF rewind_cfg, MeasureInv, DocumentStaged, TypeInv, HasPayload
  <2>2. cfg'.of = stdin /\ cfg'.n = Size /\ cfg'.pos = 0
    BY <2>1 DEF Memfd
  <2> QED
    BY <1>f, <1>i, <2>1, <2>2
<1>9. CASE wire_stdin /\ ~ Err
  <2>1. /\ pc = "dup2" /\ pc' = "execveat" /\ fd0' = "cfg" /\ cfg' = cfg
        /\ cfg.of = stdin /\ cfg.n = Size /\ cfg.pos = 0
        /\ exe' = exe /\ UNCHANGED <<source, resolution, admitted, tpm>>
    BY <1>9 DEF wire_stdin, MeasureInv, DocumentStaged
  <2> QED
    BY <1>f, <1>i, <2>1
<1>10. CASE execute_binary /\ ~ Err
  <2>1. /\ pc = "execveat" /\ pc' = "running" /\ fd0 = "cfg"
        /\ fd0' = fd0 /\ cfg' = cfg
        /\ cfg.of = stdin /\ cfg.n = Size /\ cfg.pos = 0
        /\ exe' = exe /\ UNCHANGED <<source, resolution, admitted, tpm>>
    BY <1>10 DEF execute_binary, Goto, memfds, MeasureInv, DocumentStaged
  <2> QED
    BY <1>f, <1>i, <2>1
<1>11. ~ (stdin_config \/ attest_diagnostic \/ fetch_cloud_metadata
          \/ download_first_next \/ download_first_err
          \/ candidate_unavailable \/ candidates_err
          \/ resolve_payload \/ fetch_manifest \/ admit_payload \/ poweroff)
  BY DEF stdin_config, attest_diagnostic, fetch_cloud_metadata,
     try_fetch_ec2_token, try_fetch_ec2, try_fetch_gcp, try_fetch_azure,
     try_fetch, download_first_next, download_first_err, Lists,
     candidate_unavailable, candidates_err, resolve_payload, fetch_manifest,
     try_fetch_manifest, verify_manifest, follow_manifest, admit_payload,
     admit_from, verify_payload, fetch_signed_args, verify_signed_args, poweroff
<1> QED
  BY <1>0, <1>1, <1>2, <1>3, <1>4, <1>5, <1>6, <1>7, <1>8, <1>9, <1>10, <1>11
     DEF Next, make_memfds

\* Nothing but poweroff() follows an error, and nothing follows a stop.
LEMMA MeasureStoppedStep ==
  ASSUME TypeInv, pc \notin Early \cup Measuring \cup Executing, Next
  PROVE  pc' \in {"off", "exit 1"} /\ UNCHANGED tpm
<1>1. pc \in {"poweroff", "exited", "off", "exit 1"}
  BY DEF TypeInv, TypeOK, PC, Early, Endpoints, AtManifest, AtPayload,
     Measuring, Executing
<1>2. poweroff
  BY <1>1 DEF Next, stdin_config, attest_diagnostic, fetch_cloud_metadata,
     try_fetch_ec2_token, try_fetch_ec2, try_fetch_gcp, try_fetch_azure,
     try_fetch, download_first_next, download_first_err, Lists,
     candidate_unavailable, candidates_err, resolve_payload, fetch_manifest,
     try_fetch_manifest, verify_manifest, follow_manifest, admit_payload,
     admit_from, verify_payload, fetch_signed_args, verify_signed_args,
     generate_pre_execution_attestation, extend_pcrs, make_memfds,
     make_memfd_exe, write_exe, seal_exe, make_memfd_cfg, write_cfg,
     rewind_cfg, wire_stdin, execute_binary
<1> QED
  BY <1>2 DEF poweroff, Goto

\* Every step of stage1 keeps the measurement invariant.
LEMMA MeasureStep == TypeInv /\ MeasureInv /\ [Next]_vars => MeasureInv'
<1>1. ASSUME MeasureInv, UNCHANGED vars
      PROVE  MeasureInv'
  BY <1>1 DEF MeasureInv, Measured, ImageStaged, DocumentStaged, vars
<1> QED
  BY <1>1, MeasureEarlyStep, MeasureExecuteStep, MeasureStoppedStep,
     MeasureStopped

\* What runs is the whole admitted payload, sealed; with root PCR 14 holds
\* exactly its hash, and the quote was taken over it before.
THEOREM Measurement == Spec => []RunsWhatWasMeasured
<1>1. MeasureInv => RunsWhatWasMeasured
  BY DEF MeasureInv, Measured, ImageStaged, RunsWhatWasMeasured, Executing,
     AfterSeal
<1> QED
  BY TypeInit, TypeStep, MeasureInit, MeasureStep, <1>1, PTL DEF Spec

\* The payload reads from fd 0, from its first byte on, the whole document
\* that this resolution ended with.
THEOREM StdinDocument == Spec => []PayloadReadsItsDocument
<1>1. MeasureInv => PayloadReadsItsDocument
  BY DEF MeasureInv, DocumentStaged, PayloadReadsItsDocument, Executing
<1> QED
  BY TypeInit, TypeStep, MeasureInit, MeasureStep, <1>1, PTL DEF Spec

\* PCR 14 is extended at most once, after the quote and with its nonce.
THEOREM MeasuredOnce == Spec => MeasuredOnceAfterQuote
<1> DEFINE A == pcr14' # pcr14 => /\ pcr14 = <<>>
                                  /\ quote # None
                                  /\ pcr14' = <<quote.nonce>>
<1>1. ASSUME TypeInv, MeasureInv, Next, pcr14' # pcr14
      PROVE  A
  <2>1. pc \notin Early
    BY <1>1, EarlySteps DEF EarlyFrame
  <2>2. pc \in Measuring \cup Executing
    BY <1>1, <2>1, MeasureStoppedStep DEF tpm
  <2>3. extend_pcrs /\ pcr14' = Append(pcr14, sha256(binary))
    BY <1>1, <2>2 DEF Next, stdin_config, attest_diagnostic,
       fetch_cloud_metadata, try_fetch_ec2_token, try_fetch_ec2,
       try_fetch_gcp, try_fetch_azure, try_fetch, download_first_next,
       download_first_err, Lists, candidate_unavailable, candidates_err,
       resolve_payload, fetch_manifest, try_fetch_manifest, verify_manifest,
       follow_manifest, admit_payload, admit_from, verify_payload,
       fetch_signed_args, verify_signed_args,
       generate_pre_execution_attestation, extend_pcrs, make_memfds,
       make_memfd_exe, write_exe, seal_exe, make_memfd_cfg, write_cfg,
       rewind_cfg, wire_stdin, execute_binary, poweroff, Goto, Err, tpm,
       Measuring, Executing
  <2>4. /\ pcr14 = <<>>
        /\ quote = [nonce |-> sha256(binary), pcr14 |-> <<>>]
    BY <1>1, <2>3 DEF extend_pcrs, MeasureInv, Measured
  <2>5. quote # None
    <3>1. sha256(binary) \in Hex
      BY <1>1, <2>2, DigestType DEF TypeInv, HasPayload
    <3>2. quote \in [nonce : Hex, pcr14 : Seq(Hex)]
      BY <2>4, <3>1
    <3> QED
      BY <3>2, Stage1Assumption
  <2> QED
    BY <2>3, <2>4, <2>5
<1>2. TypeInv /\ MeasureInv /\ [Next]_vars => [A]_vars
  BY <1>1 DEF vars
<1> QED
  BY TypeInit, TypeStep, MeasureInit, MeasureStep, <1>2, PTL
     DEF Spec, MeasuredOnceAfterQuote

-----------------------------------------------------------------------------
(* Authority and the chain of manifests.                                   *)

\* A signature that verifies under a key was issued by its holder.
LEMMA VerifyIssued ==
  ASSUME NEW k \in PubKey, NEW d \in Domain, NEW b \in Bytes, NEW s \in Bytes,
         verify(k, d, b, s)
  PROVE  sign(k.key, d, b) \in Issued
BY Unforgeable DEF verify, PubKey

-----------------------------------------------------------------------------
(* Admission.                                                              *)

\* What admit_payload has established, by where it is.
Admissible ==
  /\ pc \in Early => binary = None
  /\ pc \in AtPayload => admission(ThePayload, "Stage1")
  /\ pc \in {"payload.sig", "args", "args.sig"} => ThePayload.sha256 = None
  /\ pc \in {"args", "args.sig"} =>
       sign(ThePayload.ed25519.key, "stage2.payload", blob) \in Issued

AuthInv == Admissible /\ AdmittedUnderAuthority

\* Nothing has been admitted when stage1 starts.
LEMMA AuthInit == Init => AuthInv
BY DEF Init, AuthInv, Admissible, AdmittedUnderAuthority, Early, AtPayload

\* The key of a payload without a pin.
LEMMA PayloadKey ==
  ASSUME TypeInv, AuthInv, pc \in AtPayload, ThePayload.sha256 = None
  PROVE  ThePayload.ed25519 \in PubKey
BY EntryTypes DEF AuthInv, Admissible, admission

\* Outside admit_payload nothing but the absence of a payload is claimed.
LEMMA AuthElsewhere ==
  ASSUME binary' = None, pc' \notin AtPayload
  PROVE  AuthInv'
BY DEF AuthInv, Admissible, AdmittedUnderAuthority, AtPayload

\* A refused candidate leaves nothing behind.
LEMMA AuthNextMirror ==
  ASSUME AuthInv, pc \in {"manifest", "manifest.sig"} \cup AtPayload, NextMirror
  PROVE  AuthInv'
<1>1. binary' = None
  BY DEF AuthInv, Admissible, Early, AtManifest, NextMirror, admitted
<1>2. CASE pc \in AtPayload
  <2>1. pc' = "payload" /\ ThePayload' = ThePayload
    BY <1>2 DEF NextMirror, Loop, AtPayload, resolution, ThePayload
  <2> QED
    BY <1>1, <1>2, <2>1 DEF AuthInv, Admissible, AdmittedUnderAuthority
<1>3. CASE pc \notin AtPayload
  BY <1>1, <1>3, AuthElsewhere DEF NextMirror, Loop, AtPayload
<1> QED
  BY <1>2, <1>3

\* The steps of admit_payload.
LEMMA AuthPayloadStep ==
  ASSUME TypeInv, AuthInv, admit_payload
  PROVE  AuthInv'
<1> USE DEF AtPayload
<1>1. CASE NextMirror
  BY <1>1, AuthNextMirror DEF admit_payload, admit_from, verify_payload,
     fetch_signed_args, verify_signed_args
<1>2. pc \in AtPayload /\ binary = None
  BY DEF admit_payload, admit_from, verify_payload, fetch_signed_args,
     verify_signed_args, AuthInv, Admissible, Early
<1>a. ASSUME NEW b, NEW v, Admit(b, v)
      PROVE  /\ binary' = b /\ args' = Argv(ThePayload, v)
             /\ pc' \notin Early /\ pc' \notin AtPayload
             /\ ThePayload' = ThePayload
  BY <1>a DEF Admit, stage2, Early, Endpoints, AtManifest, resolution, ThePayload
<1>3. CASE admit_from /\ ~ NextMirror
  <2>1. PICK b \in Serves(At(Head(mirrors))) \ {Fail} :
          \/ /\ ThePayload.sha256 # None
             /\ eq_ignore_ascii_case(ThePayload.sha256, sha256(b))
             /\ Admit(b, None)
          \/ /\ ThePayload.sha256 = None
             /\ FetchSignature(b, ThePayload.sig_url, "payload.sig")
    BY <1>3 DEF admit_from
  <2>2. CASE Admit(b, None) /\ ThePayload.sha256 # None
             /\ eq_ignore_ascii_case(ThePayload.sha256, sha256(b))
    <3>1. ThePayload.args_url = None
      BY <1>2, <2>2 DEF AuthInv, Admissible, admission
    <3>2. Admissible'
      BY <1>a, <2>2 DEF Admissible
    <3>3. AdmittedUnderAuthority'
      BY <1>a, <2>2, <3>1 DEF AdmittedUnderAuthority
    <3> QED
      BY <3>2, <3>3 DEF AuthInv
  <2>3. CASE /\ ThePayload.sha256 = None
             /\ FetchSignature(b, ThePayload.sig_url, "payload.sig")
    <3>1. pc' = "payload.sig" /\ binary' = None /\ ThePayload' = ThePayload
      BY <1>2, <2>3 DEF FetchSignature, admitted, resolution, ThePayload
    <3> QED
      BY <1>2, <2>3, <3>1 DEF AuthInv, Admissible, AdmittedUnderAuthority
  <2> QED
    BY <2>1, <2>2, <2>3
<1>4. CASE verify_payload /\ ~ NextMirror
  <2>1. /\ pc = "payload.sig" /\ urls # <<>> /\ blob \in Bytes
        /\ ThePayload.sha256 = None
    BY <1>4 DEF verify_payload, TypeInv, HasCandidate, AuthInv, Admissible
  <2>2. PICK s \in Serves(Head(urls)) \ {Fail} :
          /\ verify(ThePayload.ed25519, "stage2.payload", blob, s)
          /\ \/ /\ ThePayload.args_url = None
                /\ Admit(blob, None)
             \/ /\ pc' = "args"
                /\ UNCHANGED <<resolution, blob, admitted>>
    BY <1>4 DEF verify_payload
  <2>3. s \in Bytes
    BY <2>1, HeadLocations, ServedBytes
  <2>4. sign(ThePayload.ed25519.key, "stage2.payload", blob) \in Issued
    BY <1>2, <2>1, <2>2, <2>3, PayloadKey, VerifyIssued DEF Domain
  <2>5. CASE ThePayload.args_url = None /\ Admit(blob, None)
    <3>1. Admissible'
      BY <1>a, <2>5 DEF Admissible
    <3>2. AdmittedUnderAuthority'
      BY <1>a, <2>1, <2>4, <2>5 DEF AdmittedUnderAuthority
    <3> QED
      BY <3>1, <3>2 DEF AuthInv
  <2>6. CASE pc' = "args" /\ UNCHANGED <<resolution, blob, admitted>>
    <3>1. ThePayload' = ThePayload /\ binary' = None
      BY <1>2, <2>6 DEF resolution, admitted, ThePayload
    <3> QED
      BY <1>2, <2>1, <2>4, <2>6, <3>1
         DEF AuthInv, Admissible, AdmittedUnderAuthority
  <2> QED
    BY <2>2, <2>5, <2>6
<1>5. CASE fetch_signed_args
  <2>1. /\ pc = "args" /\ pc' = "args.sig"
        /\ UNCHANGED <<resolution, blob, admitted>>
    BY <1>5 DEF fetch_signed_args
  <2>2. ThePayload' = ThePayload /\ binary' = None
    BY <1>2, <2>1 DEF resolution, admitted, ThePayload
  <2> QED
    BY <1>2, <2>1, <2>2 DEF AuthInv, Admissible, AdmittedUnderAuthority
<1>6. CASE verify_signed_args /\ ~ NextMirror
  <2>1. /\ pc = "args.sig" /\ urls # <<>>
        /\ blob \in Bytes /\ args_bytes \in Bytes
        /\ ThePayload.sha256 = None /\ ThePayload.args_url # None
        /\ sign(ThePayload.ed25519.key, "stage2.payload", blob) \in Issued
    BY <1>6 DEF verify_signed_args, TypeInv, HasCandidate, HasEntry, AuthInv,
       Admissible
  <2>2. PICK s \in Serves(Head(urls)) \ {Fail} :
          /\ verify(ThePayload.ed25519, "stage2.args", args_bytes, s)
          /\ AsArgs(args_bytes) # Malformed
          /\ Admit(blob, AsArgs(args_bytes))
    BY <1>6 DEF verify_signed_args
  <2>3. s \in Bytes
    BY <2>1, HeadLocations, ServedBytes
  <2>4. sign(ThePayload.ed25519.key, "stage2.args", args_bytes) \in Issued
    BY <1>2, <2>1, <2>2, <2>3, PayloadKey, VerifyIssued DEF Domain
  <2>5. AsArgs(args_bytes) # None
    BY <2>1, <2>2, Stage1Assumption
  <2>6. args' = AsArgs(args_bytes)
    BY <1>a, <2>2, <2>5 DEF Argv
  <2>7. Admissible'
    BY <1>a, <2>2 DEF Admissible
  <2>8. AdmittedUnderAuthority'
    BY <1>a, <2>1, <2>2, <2>4, <2>6 DEF AdmittedUnderAuthority
  <2> QED
    BY <2>7, <2>8 DEF AuthInv
<1> QED
  BY <1>1, <1>3, <1>4, <1>5, <1>6 DEF admit_payload

\* The other steps before admission.
LEMMA AuthEarlyStep ==
  ASSUME TypeInv, AuthInv, pc \in Early, Next, ~ admit_payload
  PROVE  AuthInv'
<1>0. binary = None
  BY DEF AuthInv, Admissible
<1>1. CASE \E l : l \notin AtPayload /\ Goto(l)
  BY <1>0, <1>1, AuthElsewhere DEF Goto, admitted
<1>2. CASE Err
  BY <1>0, <1>2, AuthElsewhere DEF Err, admitted, AtPayload
<1>3. CASE \E d : Received(d)
  BY <1>0, <1>3, AuthElsewhere DEF Received, admitted, AtPayload
<1>4. CASE stdin_config
  BY <1>1, <1>2, <1>3, <1>4 DEF stdin_config, AtPayload
<1>5. CASE attest_diagnostic
  BY <1>1, <1>2, <1>5 DEF attest_diagnostic, AtPayload
<1>6. CASE fetch_cloud_metadata
  <2>1. \A e \in Endpoints : OrElse(e) \notin AtPayload
    BY DEF OrElse, Endpoints, AtPayload
  <2>2. CASE try_fetch_ec2_token
    BY <1>1, <2>1, <2>2 DEF try_fetch_ec2_token, Endpoints, AtPayload
  <2>3. ASSUME NEW e \in Endpoints, try_fetch(e)
        PROVE  AuthInv'
    BY <1>1, <1>3, <2>1, <2>3 DEF try_fetch
  <2> QED
    BY <1>6, <2>2, <2>3 DEF fetch_cloud_metadata, try_fetch_ec2,
       try_fetch_gcp, try_fetch_azure, Endpoints
<1>7. CASE download_first_next
  BY <1>0, <1>7 DEF download_first_next, resolution, admitted, AuthInv,
     Admissible, AdmittedUnderAuthority, ThePayload
<1>8. CASE download_first_err \/ candidate_unavailable \/ candidates_err
  BY <1>2, <1>8, AuthNextMirror DEF download_first_err, candidate_unavailable,
     candidates_err, Lists, AtPayload
<1>9. CASE resolve_payload /\ ~ Err
  <2> DEFINE manifest == /\ ArchConfigParses(doc.entry) /\ IsManifest(doc.entry)
                         /\ validate(TheManifest, "Stage1")
             payload == /\ ArchConfigParses(doc.entry) /\ ~ IsManifest(doc.entry)
                        /\ admission(ThePayload, "Stage1")
  <2>1. /\ manifest \/ payload
        /\ pc' = IF manifest THEN "manifest" ELSE "payload"
        /\ UNCHANGED <<resolution, admitted>>
    BY <1>9 DEF resolve_payload
  <2>2. binary' = None /\ ThePayload' = ThePayload
    BY <1>0, <2>1 DEF admitted, resolution, ThePayload
  <2>3. CASE manifest
    BY <2>1, <2>2, <2>3, AuthElsewhere DEF AtPayload
  <2>4. CASE ~ manifest
    <3>1. pc' = "payload" /\ admission(ThePayload, "Stage1")'
      BY <2>1, <2>2, <2>4
    <3> QED
      BY <2>2, <3>1 DEF AuthInv, Admissible, AdmittedUnderAuthority
  <2> QED
    BY <2>3, <2>4
<1>10. CASE fetch_manifest
  <2>1. CASE try_fetch_manifest
    <3>1. CASE NextMirror
      BY <2>1, <3>1, AuthNextMirror DEF try_fetch_manifest
    <3>2. CASE ~ NextMirror
      BY <1>0, <2>1, <3>2, AuthElsewhere DEF try_fetch_manifest,
         FetchSignature, admitted, AtPayload
    <3> QED
      BY <3>1, <3>2
  <2>2. CASE verify_manifest
    BY <1>1, <2>2, AuthNextMirror DEF verify_manifest, AtPayload
  <2>3. CASE follow_manifest
    BY <1>0, <1>2, <2>3, AuthElsewhere DEF follow_manifest, admitted, AtPayload
  <2> QED
    BY <1>10, <2>1, <2>2, <2>3 DEF fetch_manifest
<1>11. pc \notin Measuring \cup Executing \cup {"poweroff"}
  BY DEF Early, Endpoints, AtManifest, AtPayload, Measuring, Executing
<1>12. ~ (generate_pre_execution_attestation \/ extend_pcrs \/ make_memfds
          \/ execute_binary \/ poweroff)
  BY <1>11 DEF generate_pre_execution_attestation, extend_pcrs, make_memfds,
     make_memfd_exe, write_exe, seal_exe, make_memfd_cfg, write_cfg,
     rewind_cfg, wire_stdin, execute_binary, poweroff, Measuring, Executing
<1> QED
  BY <1>2, <1>4, <1>5, <1>6, <1>7, <1>8, <1>9, <1>10, <1>12 DEF Next

\* After admission neither the document in force, nor what it admitted, nor
\* the record of the hops changes.
LEMMA LateFrame ==
  ASSUME TypeInv, pc \notin Early, Next
  PROVE  /\ pc' \notin Early
         /\ UNCHANGED <<raw_json, doc, history, binary, args>>
<1>1. pc \in Measuring \cup Executing \cup {"poweroff", "exited", "off", "exit 1"}
  BY DEF TypeInv, TypeOK, PC, Early, Endpoints, AtManifest, AtPayload,
     Measuring, Executing
<1>2. \/ generate_pre_execution_attestation \/ extend_pcrs \/ make_memfds
      \/ execute_binary \/ poweroff
  BY <1>1 DEF Next, stdin_config, attest_diagnostic, fetch_cloud_metadata,
     try_fetch_ec2_token, try_fetch_ec2, try_fetch_gcp, try_fetch_azure,
     try_fetch, download_first_next, download_first_err, Lists,
     candidate_unavailable, candidates_err, resolve_payload, fetch_manifest,
     try_fetch_manifest, verify_manifest, follow_manifest, admit_payload,
     admit_from, verify_payload, fetch_signed_args, verify_signed_args,
     Measuring, Executing
<1> QED
  BY <1>2 DEF generate_pre_execution_attestation, extend_pcrs, make_memfds,
     make_memfd_exe, write_exe, seal_exe, make_memfd_cfg, write_cfg,
     rewind_cfg, wire_stdin, execute_binary, poweroff, Goto, Err, source,
     resolution, admitted, Early, Endpoints, AtManifest, AtPayload

\* Every step of stage1 keeps the admission invariant.
LEMMA AuthStep == TypeInv /\ AuthInv /\ [Next]_vars => AuthInv'
<1>1. ASSUME AuthInv, UNCHANGED vars
      PROVE  AuthInv'
  BY <1>1 DEF AuthInv, Admissible, AdmittedUnderAuthority, ThePayload, vars
<1>2. ASSUME TypeInv, AuthInv, Next, pc \notin Early
      PROVE  AuthInv'
  <2>1. pc' \notin Early /\ UNCHANGED <<doc, binary, args>>
    BY <1>2, LateFrame
  <2>2. Admissible'
    BY <2>1 DEF Admissible, Early, AtPayload
  <2>3. AdmittedUnderAuthority'
    BY <1>2, <2>1 DEF AuthInv, AdmittedUnderAuthority, ThePayload
  <2> QED
    BY <2>2, <2>3 DEF AuthInv
<1> QED
  BY <1>1, <1>2, AuthEarlyStep, AuthPayloadStep

\* The payload that stage1 admitted, and so the one that it measures and
\* runs, is what the document in force pins or what its key signed as a
\* payload, with the arguments the same document asks for.
THEOREM Authority == Spec => []AdmittedUnderAuthority
<1>1. AuthInv => AdmittedUnderAuthority
  BY DEF AuthInv
<1> QED
  BY TypeInit, TypeStep, AuthInit, AuthStep, <1>1, PTL DEF Spec

-----------------------------------------------------------------------------
(* The chain of manifests.                                                 *)

\* What fetch_manifest has established about the candidate in hand.
CandidateSpeaks ==
  /\ pc \in AtManifest =>
       \A i \in 1..Len(mirrors) :
         \E j \in 1..Len(TheManifest.url) : mirrors[i] = TheManifest.url[j]
  /\ pc \in {"manifest.sig", "follow"} => PinHolds(TheManifest, blob)
  /\ pc = "follow" =>
       sign(TheManifest.ed25519.key, "stage2.manifest", blob) \in Issued

\* The pointer in force, if there is one, stands in the last layer merged: the
\* one before it was removed, so nothing of it is left.
PointerIsLast ==
  pc \in {"resolve"} \cup AtManifest =>
    (Given(doc.entry) /\ doc.entry.manifest # Absent =>
       /\ Given(Layer(Len(history)).entry)
       /\ Layer(Len(history)).entry.manifest = doc.entry.manifest)

ChainInv ==
  /\ pc \in {"main_inner", "attest"} \cup Endpoints => history = <<>>
  /\ CandidateSpeaks
  /\ PointerIsLast
  /\ ChainOfTrust
  /\ NoHopTwice

\* No manifest has been resolved when stage1 starts.
LEMMA ChainInit == Init => ChainInv
BY DEF Init, ChainInv, CandidateSpeaks, PointerIsLast, ChainOfTrust,
       NoHopTwice, AtManifest

\* A step that resolves no manifest keeps the record of the chain.
LEMMA ChainFrame ==
  ASSUME ChainInv, UNCHANGED <<raw_json, history>>
  PROVE  ChainOfTrust' /\ NoHopTwice'
BY DEF ChainInv, ChainOfTrust, NoHopTwice, Layer

\* The step that resolves one.
LEMMA ChainFollow ==
  ASSUME TypeInv, ChainInv, follow_manifest, ~ Err
  PROVE  ChainInv'
<1>1. /\ pc = "follow" /\ pc' = "resolve"
      /\ ~ IsCycle(history, Head(mirrors), blob)
      /\ AsDoc(blob) # Malformed
      /\ history' = Append(history, Hop(TheManifest, Head(mirrors), blob))
      /\ doc' = deep_merge(RemovePointer(doc), AsDoc(blob))
      /\ raw_json' = raw_json
  BY DEF follow_manifest, source
<1>2. /\ blob \in Bytes /\ mirrors # <<>> /\ doc \in UserData
      /\ Given(doc.entry) /\ ManifestParses(doc.entry.manifest)
      /\ history \in Seq(ManifestRef) /\ mirrors \in Seq(Url)
  BY <1>1 DEF TypeInv, TypeOK, HasEntry, HasCandidate, AtManifest
<1> DEFINE n == Len(history)
           hop == Hop(TheManifest, Head(mirrors), blob)
<1>3. /\ n \in Nat /\ Len(history') = n + 1
      /\ history'[n + 1] = hop
      /\ \A i \in 1..n : history'[i] = history[i]
  BY <1>1, <1>2
<1>4. /\ hop.url = <<Head(mirrors)>> /\ hop.sha256 = sha256(blob)
      /\ hop.ed25519 = TheManifest.ed25519 /\ hop.sig_url = TheManifest.sig_url
      /\ hop.sha256.of = blob
  BY DEF Hop, sha256
<1> HIDE DEF hop, n
<1>5. \A i \in 0..n : Layer(i)' = Layer(i)
  BY <1>1, <1>3 DEF Layer
<1>6. Layer(Len(history))' = AsDoc(blob)
  BY <1>3, <1>4 DEF Layer
<1>7. NoHopTwice'
  <2>1. \A i \in 1..n :
          ~ (history[i].url = hop.url /\ history[i].sha256 = hop.sha256)
    BY <1>1, <1>4 DEF IsCycle, n
  <2>2. ASSUME NEW i \in 1..(n + 1), NEW j \in 1..(n + 1),
               history'[i].url = history'[j].url,
               history'[i].sha256 = history'[j].sha256
        PROVE  i = j
    <3>1. CASE i \in 1..n /\ j \in 1..n
      BY <1>3, <2>2, <3>1 DEF ChainInv, NoHopTwice, n
    <3>2. CASE i = n + 1 /\ j \in 1..n
      BY <1>3, <2>1, <2>2, <3>2
    <3>3. CASE i \in 1..n /\ j = n + 1
      BY <1>3, <2>1, <2>2, <3>3
    <3> QED
      BY <1>3, <3>1, <3>2, <3>3
  <2> QED
    BY <1>3, <2>2 DEF NoHopTwice
<1>8. ChainOfTrust'
  <2>1. /\ Given(Layer(n).entry)
        /\ Layer(n).entry.manifest = doc.entry.manifest
    BY <1>1, <1>2 DEF ChainInv, PointerIsLast, AtManifest, ManifestParses,
       Given, n
  <2>2. \E j \in 1..Len(TheManifest.url) : Head(mirrors) = TheManifest.url[j]
    <3>1. Len(mirrors) \in Nat /\ Len(mirrors) >= 1 /\ Head(mirrors) = mirrors[1]
      BY <1>2
    <3> QED
      BY <1>1, <3>1 DEF ChainInv, CandidateSpeaks, AtManifest
  <2>3. /\ TheManifest.sha256 # None =>
             eq_ignore_ascii_case(TheManifest.sha256, sha256(blob))
        /\ sign(TheManifest.ed25519.key, "stage2.manifest", blob) \in Issued
    BY <1>1 DEF ChainInv, CandidateSpeaks, PinHolds
  <2>4. ASSUME NEW i \in 1..(n + 1)
        PROVE  LET m == Fields(Layer(i - 1)'.entry.manifest)
                   b == history'[i].sha256.of
               IN  /\ Given(Layer(i - 1)'.entry)
                   /\ ManifestParses(Layer(i - 1)'.entry.manifest)
                   /\ history'[i].ed25519 = m.ed25519
                   /\ history'[i].sig_url = m.sig_url
                   /\ \E j \in 1..Len(m.url) : history'[i].url = <<m.url[j]>>
                   /\ m.sha256 # None => eq_ignore_ascii_case(m.sha256, sha256(b))
                   /\ sign(m.ed25519.key, "stage2.manifest", b) \in Issued
    <3>1. CASE i \in 1..n
      <4>1. i - 1 \in 0..n
        BY <1>3, <3>1
      <4>2. Layer(i - 1)' = Layer(i - 1) /\ history'[i] = history[i]
        BY <1>3, <1>5, <3>1, <4>1
      <4> QED
        BY <3>1, <4>2 DEF ChainInv, ChainOfTrust, n
    <3>2. CASE i = n + 1
      <4>1. i - 1 = n /\ Layer(i - 1)' = Layer(n) /\ history'[i] = hop
        BY <1>3, <1>5, <3>2
      <4>2. Fields(Layer(i - 1)'.entry.manifest) = TheManifest
        BY <2>1, <4>1 DEF TheManifest
      <4> QED
        BY <1>2, <1>4, <2>1, <2>2, <2>3, <4>1, <4>2
    <3> QED
      BY <1>3, <3>1, <3>2
  <2> QED
    BY <1>3, <2>4 DEF ChainOfTrust
<1>9. PointerIsLast'
  <2>1. CASE AsDoc(blob) = Scalar
    BY <1>1, <2>1 DEF PointerIsLast, deep_merge, Given
  <2>2. CASE AsDoc(blob) # Scalar
    <3>1. doc'.entry = MergeEntry(RemovePointer(doc).entry, AsDoc(blob).entry)
      BY <1>1, <2>2 DEF deep_merge
    <3>2. RemovePointer(doc).entry.manifest = Absent
      <4>1. doc.entry \in Entry
        BY <1>2 DEF UserData, Maybe, Given
      <4>2. RemovePointer(doc).entry = [doc.entry EXCEPT !.manifest = Absent]
        BY <1>2 DEF RemovePointer, UserData
      <4> QED
        BY <4>1, <4>2 DEF Entry
    <3>3. CASE Given(AsDoc(blob).entry)
      <4>1. doc'.entry.manifest = AsDoc(blob).entry.manifest
        BY <3>1, <3>2, <3>3 DEF MergeEntry, MergeLeaves, Overlay, Given
      <4> QED
        BY <1>3, <1>6, <3>3, <4>1 DEF PointerIsLast
    <3>4. CASE ~ Given(AsDoc(blob).entry)
      <4>1. doc'.entry \in {RemovePointer(doc).entry, None}
        BY <3>1, <3>4 DEF MergeEntry, Overlay, Given
      <4> QED
        BY <1>1, <3>2, <4>1 DEF PointerIsLast, Given
    <3> QED
      BY <3>3, <3>4
  <2> QED
    BY <2>1, <2>2
<1>10. CandidateSpeaks'
  BY <1>1 DEF CandidateSpeaks, AtManifest
<1> QED
  BY <1>1, <1>7, <1>8, <1>9, <1>10 DEF ChainInv, Endpoints

\* The steps that keep document, chain and record as they are.
LEMMA ChainOtherStep ==
  ASSUME TypeInv, ChainInv, UNCHANGED <<raw_json, doc, history>>,
         pc' \notin {"main_inner", "attest"} \cup Endpoints \/ history = <<>>,
         pc' \in {"resolve"} => pc = "resolve",
         pc' \in AtManifest => pc \in {"resolve"} \cup AtManifest,
         CandidateSpeaks'
  PROVE  ChainInv'
<1>1. PointerIsLast'
  BY DEF ChainInv, PointerIsLast, Layer, AtManifest
<1> QED
  BY <1>1, ChainFrame DEF ChainInv

\* The steps of fetch_manifest.
LEMMA ChainManifestStep ==
  ASSUME TypeInv, ChainInv, fetch_manifest, ~ Err
  PROVE  ChainInv'
<1> USE DEF AtManifest
<1>n. ASSUME pc \in AtManifest, pc' \in AtManifest,
             UNCHANGED <<raw_json, doc, history>>, CandidateSpeaks'
      PROVE  ChainInv'
  BY <1>n, ChainOtherStep DEF Endpoints
<1>1. CASE follow_manifest
  BY <1>1, ChainFollow
<1>2. CASE NextMirror /\ ~ follow_manifest
  <2>1. /\ pc \in {"manifest", "manifest.sig"} /\ mirrors # <<>>
        /\ mirrors \in Seq(Url)
    BY <1>2 DEF fetch_manifest, try_fetch_manifest, verify_manifest, TypeInv,
       TypeOK, HasCandidate
  <2>2. /\ pc' = "manifest" /\ mirrors' = Tail(mirrors)
        /\ UNCHANGED <<raw_json, doc, history>>
    BY <1>2, <2>1 DEF NextMirror, Loop, source, resolution
  <2>3. TheManifest' = TheManifest
    BY <2>2 DEF TheManifest
  <2>4. \A i \in 1..Len(Tail(mirrors)) :
          i + 1 \in 1..Len(mirrors) /\ Tail(mirrors)[i] = mirrors[i + 1]
    BY <2>1
  <2>5. CandidateSpeaks'
    BY <2>1, <2>2, <2>3, <2>4 DEF ChainInv, CandidateSpeaks
  <2> QED
    BY <1>n, <2>1, <2>2, <2>5
<1>3. CASE try_fetch_manifest /\ ~ NextMirror
  <2>1. PICK b \in Serves(At(Head(mirrors))) \ {Fail} :
          PinHolds(TheManifest, b)
          /\ FetchSignature(b, TheManifest.sig_url, "manifest.sig")
    BY <1>3 DEF try_fetch_manifest
  <2>2. /\ pc = "manifest" /\ pc' = "manifest.sig" /\ blob' = b
        /\ UNCHANGED <<raw_json, doc, history, mirrors>>
    BY <1>3, <2>1 DEF try_fetch_manifest, FetchSignature, source, resolution
  <2>3. TheManifest' = TheManifest
    BY <2>2 DEF TheManifest
  <2>4. PinHolds(TheManifest, blob)'
    BY <2>1, <2>2, <2>3 DEF PinHolds
  <2>5. CandidateSpeaks'
    BY <2>2, <2>3, <2>4 DEF ChainInv, CandidateSpeaks
  <2> QED
    BY <1>n, <2>2, <2>5
<1>4. CASE verify_manifest /\ ~ NextMirror
  <2>1. PICK s \in Serves(Head(urls)) \ {Fail} :
          /\ verify(TheManifest.ed25519, "stage2.manifest", blob, s)
          /\ Goto("follow")
    BY <1>4 DEF verify_manifest
  <2>2. /\ pc = "manifest.sig" /\ pc' = "follow" /\ urls # <<>>
        /\ UNCHANGED <<raw_json, doc, history, mirrors, blob>>
    BY <1>4, <2>1 DEF verify_manifest, Goto, source, resolution, download
  <2>3. TheManifest' = TheManifest
    BY <2>2 DEF TheManifest
  <2>4. s \in Bytes /\ blob \in Bytes /\ TheManifest.ed25519 \in PubKey
    BY <2>2, HeadLocations, ServedBytes, EntryTypes DEF TypeInv, HasCandidate
  <2>5. sign(TheManifest.ed25519.key, "stage2.manifest", blob) \in Issued
    BY <2>1, <2>4, VerifyIssued DEF Domain
  <2>6. CandidateSpeaks'
    BY <2>2, <2>3, <2>5 DEF ChainInv, CandidateSpeaks, PinHolds
  <2> QED
    BY <1>n, <2>2, <2>6
<1> QED
  BY <1>1, <1>2, <1>3, <1>4 DEF fetch_manifest

\* The other steps before admission.
LEMMA ChainEarlyStep ==
  ASSUME TypeInv, ChainInv, pc \in Early, Next, ~ fetch_manifest
  PROVE  ChainInv'
<1>1. ASSUME pc' \notin {"resolve"} \cup AtManifest,
             pc' \notin {"main_inner", "attest"} \cup Endpoints \/ history = <<>>,
             UNCHANGED <<raw_json, doc, history>>
      PROVE  ChainInv'
  <2>1. CandidateSpeaks'
    BY <1>1 DEF CandidateSpeaks, AtManifest
  <2> QED
    BY <1>1, <2>1, ChainOtherStep
<1>2. CASE Err
  BY <1>1, <1>2 DEF Err, source, resolution, AtManifest, Endpoints
<1>3. CASE /\ pc \in {"main_inner", "attest"} \cup Endpoints
           /\ \E l \in {"attest", "exited", "poweroff"} \cup Endpoints : Goto(l)
  <2>1. history = <<>>
    BY <1>3 DEF ChainInv
  <2> QED
    BY <1>1, <1>3, <2>1 DEF Goto, source, resolution, AtManifest, Endpoints
<1>4. CASE pc \in {"main_inner", "attest"} \cup Endpoints /\ \E d : Received(d)
  <2>1. /\ pc' = "resolve" /\ doc' = raw_json' /\ history = <<>>
        /\ history' = <<>>
    BY <1>4 DEF ChainInv, Received
  <2>2. PointerIsLast'
    BY <2>1 DEF PointerIsLast, Layer
  <2>3. CandidateSpeaks' /\ ChainOfTrust' /\ NoHopTwice'
    BY <2>1 DEF CandidateSpeaks, ChainOfTrust, NoHopTwice, AtManifest
  <2> QED
    BY <2>1, <2>2, <2>3 DEF ChainInv, Endpoints
<1>5. CASE stdin_config
  BY <1>2, <1>3, <1>4, <1>5 DEF stdin_config, Endpoints
<1>6. CASE attest_diagnostic
  BY <1>2, <1>3, <1>6 DEF attest_diagnostic
<1>7. CASE fetch_cloud_metadata
  <2>1. \A e \in Endpoints : OrElse(e) \in {"poweroff"} \cup Endpoints
    BY DEF OrElse, Endpoints
  <2>2. CASE try_fetch_ec2_token
    BY <1>3, <2>1, <2>2 DEF try_fetch_ec2_token, Endpoints
  <2>3. ASSUME NEW e \in Endpoints, try_fetch(e)
        PROVE  ChainInv'
    BY <1>3, <1>4, <2>1, <2>3 DEF try_fetch
  <2> QED
    BY <1>7, <2>2, <2>3 DEF fetch_cloud_metadata, try_fetch_ec2,
       try_fetch_gcp, try_fetch_azure, Endpoints
<1>8. CASE download_first_next
  <2>1. /\ pc' = pc /\ pc \in Lists
        /\ UNCHANGED <<raw_json, doc, history, mirrors, blob>>
    BY <1>8 DEF download_first_next, source, resolution
  <2>2. CandidateSpeaks'
    BY <2>1 DEF ChainInv, CandidateSpeaks, TheManifest, PinHolds
  <2> QED
    BY <2>1, <2>2, ChainOtherStep DEF Lists, Endpoints
<1>9. CASE NextMirror /\ pc \in {"manifest", "manifest.sig"} \cup AtPayload
           /\ mirrors # <<>>
  <2>1. /\ pc' = Loop(pc) /\ mirrors' = Tail(mirrors) /\ mirrors \in Seq(Url)
        /\ UNCHANGED <<raw_json, doc, history>>
    BY <1>9 DEF NextMirror, source, resolution, TypeInv, TypeOK
  <2>2. CASE pc \in AtPayload
    <3>1. pc' = "payload"
      BY <2>1, <2>2 DEF Loop, AtPayload
    <3> QED
      BY <1>1, <2>1, <3>1 DEF AtManifest, Endpoints
  <2>3. CASE pc \in {"manifest", "manifest.sig"}
    <3>1. pc' = "manifest" /\ TheManifest' = TheManifest
      BY <2>1, <2>3 DEF Loop, TheManifest
    <3>2. \A i \in 1..Len(Tail(mirrors)) :
            i + 1 \in 1..Len(mirrors) /\ Tail(mirrors)[i] = mirrors[i + 1]
      BY <1>9, <2>1
    <3>3. CandidateSpeaks'
      BY <2>1, <2>3, <3>1, <3>2 DEF ChainInv, CandidateSpeaks, AtManifest
    <3> QED
      BY <2>1, <2>3, <3>1, <3>3, ChainOtherStep DEF AtManifest, Endpoints
  <2> QED
    BY <1>9, <2>2, <2>3
<1>10. CASE download_first_err \/ candidate_unavailable \/ candidates_err
  BY <1>2, <1>9, <1>10 DEF download_first_err, candidate_unavailable,
     candidates_err, Lists, AtPayload, TypeInv, HasCandidate
<1>11. CASE resolve_payload /\ ~ Err
  <2>1. /\ pc = "resolve" /\ UNCHANGED <<raw_json, doc, history>>
        /\ \/ pc' = "manifest" /\ mirrors' = TheManifest.url
           \/ pc' = "payload"
    BY <1>11 DEF resolve_payload, source, resolution
  <2>2. CandidateSpeaks'
    BY <2>1 DEF CandidateSpeaks, TheManifest, AtManifest
  <2> QED
    BY <2>1, <2>2, ChainOtherStep DEF AtManifest, Endpoints
<1>12. CASE admit_payload
  <2>1. pc \in AtPayload
    BY <1>12 DEF admit_payload, admit_from, verify_payload, fetch_signed_args,
       verify_signed_args, AtPayload
  <2>2. CASE NextMirror
    BY <1>9, <1>12, <2>1, <2>2 DEF admit_payload, admit_from, verify_payload,
       fetch_signed_args, verify_signed_args, TypeInv, HasCandidate
  <2>3. CASE ~ NextMirror
    <3>1. /\ pc' \in AtPayload \cup {"quote", "exe"}
          /\ UNCHANGED <<raw_json, doc, history>>
      BY <1>12, <2>3 DEF admit_payload, admit_from, verify_payload,
         fetch_signed_args, verify_signed_args, AtPayload, Admit, stage2,
         FetchSignature, source, resolution
    <3> QED
      BY <1>1, <3>1 DEF AtManifest, AtPayload, Endpoints
  <2> QED
    BY <2>2, <2>3
<1>13. pc \notin Measuring \cup Executing \cup {"poweroff"}
  BY DEF Early, Endpoints, AtManifest, AtPayload, Measuring, Executing
<1>14. ~ (generate_pre_execution_attestation \/ extend_pcrs \/ make_memfds
          \/ execute_binary \/ poweroff)
  BY <1>13 DEF generate_pre_execution_attestation, extend_pcrs, make_memfds,
     make_memfd_exe, write_exe, seal_exe, make_memfd_cfg, write_cfg,
     rewind_cfg, wire_stdin, execute_binary, poweroff, Measuring, Executing
<1> QED
  BY <1>2, <1>5, <1>6, <1>7, <1>8, <1>10, <1>11, <1>12, <1>14 DEF Next

\* Every step of stage1 keeps the invariant of the chain.
LEMMA ChainStep == TypeInv /\ ChainInv /\ [Next]_vars => ChainInv'
<1>1. ASSUME ChainInv, UNCHANGED vars
      PROVE  ChainInv'
  <2>1. CandidateSpeaks'
    BY <1>1 DEF ChainInv, CandidateSpeaks, TheManifest, PinHolds, vars
  <2>2. PointerIsLast'
    BY <1>1 DEF ChainInv, PointerIsLast, Layer, vars
  <2> QED
    BY <1>1, <2>1, <2>2, ChainFrame DEF ChainInv, vars
<1>2. ASSUME TypeInv, ChainInv, Next, Err, pc \in Early
      PROVE  ChainInv'
  <2>1. pc' = "poweroff" /\ UNCHANGED <<raw_json, doc, history>>
    BY <1>2 DEF Err, source, resolution
  <2>2. CandidateSpeaks' /\ PointerIsLast'
    BY <2>1 DEF CandidateSpeaks, PointerIsLast, AtManifest
  <2> QED
    BY <1>2, <2>1, <2>2, ChainFrame DEF ChainInv, Endpoints
<1>3. ASSUME TypeInv, ChainInv, Next, pc \notin Early
      PROVE  ChainInv'
  <2>1. pc' \notin Early /\ UNCHANGED <<raw_json, history>>
    BY <1>3, LateFrame
  <2>2. CandidateSpeaks' /\ PointerIsLast'
    BY <2>1 DEF CandidateSpeaks, PointerIsLast, AtManifest, Early
  <2> QED
    BY <1>3, <2>1, <2>2, ChainFrame DEF ChainInv, Early
<1> QED
  BY <1>1, <1>2, <1>3, ChainEarlyStep, ChainManifestStep

\* Every hop of a resolution was signed, and pinned where there is a pin, by
\* the pointer of the document just before it and of no earlier one, however
\* long the chain is and whatever the mirrors serve.
THEOREM TrustPassesAlongTheChain == Spec => []ChainOfTrust
<1>1. ChainInv => ChainOfTrust
  BY DEF ChainInv
<1> QED
  BY TypeInit, TypeStep, ChainInit, ChainStep, <1>1, PTL DEF Spec

\* The manifest loop makes at most one round per URL and manifest.
THEOREM HopsDiffer == Spec => []NoHopTwice
<1>1. ChainInv => NoHopTwice
  BY DEF ChainInv
<1> QED
  BY TypeInit, TypeStep, ChainInit, ChainStep, <1>1, PTL DEF Spec
=============================================================================
