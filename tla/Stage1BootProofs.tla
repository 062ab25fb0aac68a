-------------------------- MODULE Stage1BootProofs --------------------------
(***************************************************************************)
(* Proofs about a boot as a whole: the document in force is what its       *)
(* layers say, the payload reads the provenance of this resolution, stage1 *)
(* implements TrustedBoot, and one reliable source is enough.              *)
(***************************************************************************)
EXTENDS Stage1SafetyProofs

\* Where stage1 has no document yet.
Waiting == {"main_inner", "attest"} \cup Endpoints

\* What the properties of this module speak of.
boot == <<launch, raw_json, doc, history, binary, args, stdin, pcr14>>

\* The steps before admission, by what they do to it: they receive a document,
\* follow a manifest, admit a payload, or change nothing but the place.
EarlyEffect ==
  \/ /\ UNCHANGED boot
     /\ \/ pc' \in {"poweroff", "exited"}
        \/ pc \in Waiting /\ pc' \in Waiting
        \/ pc \in AtManifest /\ pc' \in AtManifest
        \/ pc \in AtPayload /\ pc' \in AtPayload
        \/ /\ pc = "resolve" /\ pc' = "manifest"
           /\ ArchConfigParses(doc.entry) /\ IsManifest(doc.entry)
        \/ /\ pc = "resolve" /\ pc' = "payload"
           /\ ArchConfigParses(doc.entry) /\ ~ IsManifest(doc.entry)
  \/ pc \in Waiting /\ \E d \in UserData : Received(d)
  \/ follow_manifest /\ ~ Err
  \/ pc \in AtPayload /\ \E b \in Bytes : \E v : Admit(b, v)

\* Every step before admission has one of these effects.
LEMMA EarlyEffects ==
  ASSUME TypeInv, pc \in Early, Next
  PROVE  EarlyEffect
<1> USE DEF EarlyEffect
<1>1. CASE Err \/ \E l \in {"poweroff", "exited"} : Goto(l)
  BY <1>1 DEF Err, Goto, boot, source, resolution, admitted, tpm
<1>2. CASE pc \in Waiting /\ \E l \in Waiting : Goto(l)
  BY <1>2 DEF Goto, boot, source, resolution, admitted, tpm
<1>3. CASE NextMirror /\ pc \in {"manifest", "manifest.sig"} \cup AtPayload
  <2>1. UNCHANGED boot /\ pc' = Loop(pc)
    BY <1>3 DEF NextMirror, boot, source, resolution, admitted, tpm
  <2> QED
    BY <1>3, <2>1 DEF Loop, AtManifest, AtPayload
<1>4. CASE pc = "manifest" /\ \E b, s : FetchSignature(b, s, "manifest.sig")
  BY <1>4 DEF FetchSignature, AtManifest, boot, source, resolution, admitted, tpm
<1>5. CASE pc = "payload" /\ \E b, s : FetchSignature(b, s, "payload.sig")
  BY <1>5 DEF FetchSignature, AtPayload, boot, source, resolution, admitted, tpm
<1>6. ASSUME NEW e \in Endpoints
      PROVE  OrElse(e) \in Waiting \cup {"poweroff"}
  BY DEF OrElse, Endpoints, Waiting
<1>7. CASE stdin_config
  <2>1. launch.stdin \in UserData \cup {None, Malformed}
    BY Stage1Assumption DEF TypeInv, TypeOK, Launch
  <2>2. CASE Goto(IF launch.attest THEN "attest" ELSE "ec2 token")
    BY <1>2, <1>7, <2>2 DEF stdin_config, Waiting, Endpoints
  <2>3. CASE /\ launch.stdin # None
             /\ TRUE \in parse_json_to_config(launch.stdin)
             /\ Received(launch.stdin)
    BY <1>7, <2>1, <2>3, ParsedBody DEF stdin_config, Waiting
  <2> QED
    BY <1>1, <1>7, <2>2, <2>3 DEF stdin_config
<1>8. CASE attest_diagnostic
  BY <1>1, <1>8 DEF attest_diagnostic
<1>9. CASE try_fetch_ec2_token
  BY <1>1, <1>2, <1>6, <1>9 DEF try_fetch_ec2_token, Waiting, Endpoints
<1>10. ASSUME NEW e \in {"ec2", "gcp", "azure"}, try_fetch(e)
       PROVE  EarlyEffect
  <2>1. PICK a \in Provider[e] :
          IF a = Fail
          THEN Goto(OrElse(e))
          ELSE \E parsed \in parse_json_to_config(Decoded(e, a)) :
                 IF parsed THEN Received(Decoded(e, a)) ELSE Goto(OrElse(e))
    BY <1>10 DEF try_fetch
  <2>2. pc \in Waiting /\ e \in Endpoints
    BY <1>10 DEF try_fetch, Waiting, Endpoints
  <2>3. CASE Goto(OrElse(e))
    BY <1>1, <1>2, <1>6, <2>2, <2>3
  <2>4. CASE a # Fail /\ ~ Goto(OrElse(e))
    <3>1. TRUE \in parse_json_to_config(Decoded(e, a)) /\ Received(Decoded(e, a))
      <4>1. PICK parsed \in parse_json_to_config(Decoded(e, a)) :
              IF parsed THEN Received(Decoded(e, a)) ELSE Goto(OrElse(e))
        BY <2>1, <2>4
      <4>2. parse_json_to_config(Decoded(e, a)) \subseteq BOOLEAN
        BY DEF parse_json_to_config, UserDataParses, PayloadParses,
               ManifestParses, Given
      <4> QED
        BY <2>4, <4>1, <4>2
    <3>2. a \in Answer
      BY <2>2, <2>4, Stage1Assumption
    <3>3. Decoded(e, a) \in UserData \cup {Malformed}
      BY <3>2 DEF Decoded, Answer
    <3> QED
      BY <2>2, <3>1, <3>3, ParsedBody
  <2> QED
    BY <2>1, <2>3, <2>4
<1>11. CASE download_first_next
  BY <1>11 DEF download_first_next, Lists, AtManifest, AtPayload, boot, source,
     resolution, admitted, tpm
<1>12. CASE download_first_err \/ candidate_unavailable \/ candidates_err
  BY <1>1, <1>3, <1>12 DEF download_first_err, candidate_unavailable,
     candidates_err, Lists, AtPayload
<1>13. CASE resolve_payload
  <2>1. CASE Err
    BY <1>1, <2>1
  <2>2. CASE ~ Err
    BY <1>13, <2>2 DEF resolve_payload, boot, source, resolution, admitted, tpm
  <2> QED
    BY <2>1, <2>2
<1>14. CASE try_fetch_manifest
  BY <1>3, <1>4, <1>14 DEF try_fetch_manifest
<1>15. CASE verify_manifest
  <2>1. CASE Goto("follow")
    BY <1>15, <2>1 DEF verify_manifest, Goto, AtManifest, boot, source,
       resolution, admitted, tpm
  <2> QED
    BY <1>3, <1>15, <2>1 DEF verify_manifest
<1>16. CASE follow_manifest
  BY <1>1, <1>16
<1>17. CASE admit_from
  <2>1. mirrors # <<>> => At(Head(mirrors)) \in Location
    BY HeadLocations
  <2> QED
    BY <1>3, <1>5, <1>17, <2>1, ServedBytes DEF admit_from, AtPayload
<1>18. CASE verify_payload
  <2>1. pc = "payload.sig" /\ blob \in Bytes
    BY <1>18 DEF verify_payload, TypeInv, HasCandidate
  <2>2. CASE pc' = "args" /\ UNCHANGED <<source, resolution, admitted, tpm>>
    BY <2>1, <2>2 DEF AtPayload, boot, source, resolution, admitted, tpm
  <2> QED
    BY <1>3, <1>18, <2>1, <2>2 DEF verify_payload, AtPayload
<1>19. CASE fetch_signed_args
  BY <1>19 DEF fetch_signed_args, AtPayload, boot, source, resolution,
     admitted, tpm
<1>20. CASE verify_signed_args
  <2>1. pc = "args.sig" /\ blob \in Bytes
    BY <1>20 DEF verify_signed_args, TypeInv, HasCandidate
  <2> QED
    BY <1>3, <1>20, <2>1 DEF verify_signed_args, AtPayload
<1>21. pc \notin Measuring \cup Executing \cup {"poweroff"}
  BY DEF Early, Endpoints, AtManifest, AtPayload, Measuring, Executing
<1>22. ~ (generate_pre_execution_attestation \/ extend_pcrs \/ make_memfds
          \/ execute_binary \/ poweroff)
  BY <1>21 DEF generate_pre_execution_attestation, extend_pcrs, make_memfds,
     make_memfd_exe, write_exe, seal_exe, make_memfd_cfg, write_cfg,
     rewind_cfg, wire_stdin, execute_binary, poweroff, Measuring, Executing
<1> QED
  BY <1>7, <1>8, <1>9, <1>10, <1>11, <1>12, <1>13, <1>14, <1>15, <1>16, <1>17,
     <1>18, <1>19, <1>20, <1>22
     DEF Next, fetch_cloud_metadata, try_fetch_ec2, try_fetch_gcp,
         try_fetch_azure, fetch_manifest, admit_payload

-----------------------------------------------------------------------------
(* The document in force.                                                  *)

\* It is the received one until a manifest is followed, its entry is of the
\* variant being worked on, and an admitted payload came from it.
InForce ==
  /\ history = <<>> => doc = raw_json
  /\ pc \in AtManifest => ArchConfigParses(doc.entry) /\ IsManifest(doc.entry)
  /\ pc \in AtPayload => ArchConfigParses(doc.entry) /\ ~ IsManifest(doc.entry)
  /\ binary # None => /\ doc \in UserData
                      /\ Given(doc.entry) /\ Given(doc.entry.payload)

\* Layers 0 to n, the ones merged so far, that write field f.
LEMMA WritersFrame ==
  ASSUME UNCHANGED <<raw_json, history>>
  PROVE  \A f : Writers(f)' = Writers(f)
BY DEF Writers, Layer

\* Field f of the payload in force is the one the last writer wrote.
IsLast(f) ==
  IF Writers(f) = {} THEN doc.entry.payload[f] = Absent
  ELSE \E i \in Writers(f) :
         /\ \A j \in Writers(f) : j <= i
         /\ doc.entry.payload[f] = Layer(i).entry.payload[f]

PayloadFieldNames == {"url", "sha256", "ed25519", "sig_url", "args",
                      "args_url", "args_sig_url"}

\* The payload of the document is the merge of its layers; when it has none,
\* no layer is left that wrote any of it.
Merged ==
  doc \in UserData /\ Given(doc.entry) =>
    IF Given(doc.entry.payload)
    THEN \A f \in PayloadFieldNames : IsLast(f)
    ELSE \A f \in PayloadFieldNames : Writers(f) = {}

DocInv == InForce /\ Merged

\* There is no document when stage1 starts.
LEMMA DocInit == Init => DocInv
<1>1. ASSUME Init
      PROVE  doc \notin UserData
  BY <1>1, NoObject DEF Init
<1> QED
  BY <1>1 DEF Init, DocInv, InForce, Merged, AtManifest, AtPayload

\* The documents of the layers.
LEMMA LayerType ==
  ASSUME NEW b \in Bytes, AsDoc(b) # Malformed, AsDoc(b) # Scalar
  PROVE  AsDoc(b) \in UserData
BY Stage1Assumption

\* A step that neither receives a document nor follows a manifest.
LEMMA MergedFrame ==
  ASSUME Merged, UNCHANGED <<raw_json, doc, history>>
  PROVE  Merged'
<1>1. \A f : Writers(f)' = Writers(f)
  BY WritersFrame
<1>2. \A i : Layer(i)' = Layer(i)
  BY DEF Layer
<1> QED
  BY <1>1, <1>2 DEF Merged, IsLast

\* The received document is the one layer.
LEMMA MergedReceived ==
  ASSUME NEW d \in UserData, Received(d), history = <<>>
  PROVE  Merged'
<1>1. doc' = d /\ raw_json' = d /\ history' = <<>>
  BY DEF Received
<1>2. Layer(0)' = d
  BY <1>1 DEF Layer
<1>3. ASSUME NEW f
      PROVE  Writers(f)' =
               {i \in {0} : /\ Given(d.entry) /\ Given(d.entry.payload)
                            /\ d.entry.payload[f] # Absent}
  <2>1. Len(history') = 0
    BY <1>1
  <2>2. \A i \in 0..Len(history') : i = 0 /\ i..Len(history') = {0}
    BY <2>1
  <2> QED
    BY <1>2, <2>1, <2>2 DEF Writers, Given
<1>4. ASSUME NEW f, Given(d.entry), Given(d.entry.payload)
      PROVE  IsLast(f)'
  <2>1. CASE d.entry.payload[f] = Absent
    BY <1>1, <1>3, <2>1 DEF IsLast
  <2>2. CASE d.entry.payload[f] # Absent
    <3>1. Writers(f)' = {0}
      BY <1>3, <1>4, <2>2
    <3> QED
      BY <1>1, <1>2, <3>1 DEF IsLast
  <2> QED
    BY <2>1, <2>2
<1> QED
  BY <1>1, <1>3, <1>4 DEF Merged

\* A followed manifest is one more layer over the same ones.
LEMMA FollowLayers ==
  ASSUME TypeInv, follow_manifest, ~ Err
  PROVE  /\ pc = "follow" /\ pc' = "resolve"
         /\ blob \in Bytes /\ AsDoc(blob) # Malformed
         /\ doc \in UserData /\ doc.entry \in Entry
         /\ Len(history) \in Nat /\ Len(history') = Len(history) + 1
         /\ \A i \in 0..Len(history) : Layer(i)' = Layer(i)
         /\ Layer(Len(history))' = AsDoc(blob)
         /\ doc' = deep_merge(RemovePointer(doc), AsDoc(blob))
         /\ UNCHANGED <<launch, raw_json, binary, args, stdin, pcr14>>
<1>1. /\ pc = "follow" /\ pc' = "resolve"
      /\ AsDoc(blob) # Malformed
      /\ history' = Append(history, Hop(TheManifest, Head(mirrors), blob))
      /\ doc' = deep_merge(RemovePointer(doc), AsDoc(blob))
      /\ UNCHANGED <<launch, raw_json, binary, args, stdin, pcr14>>
  BY DEF follow_manifest, source, admitted, tpm
<1>2. /\ blob \in Bytes /\ doc \in UserData /\ doc.entry \in Entry
      /\ history \in Seq(ManifestRef)
  BY <1>1, EntryTypes DEF TypeInv, TypeOK, HasEntry, HasCandidate, AtManifest
<1> DEFINE n == Len(history)
           hop == Hop(TheManifest, Head(mirrors), blob)
<1>3. hop.sha256.of = blob
  BY DEF Hop, sha256
<1> HIDE DEF hop
<1>4. /\ n \in Nat /\ Len(history') = n + 1 /\ history'[n + 1] = hop
      /\ \A i \in 1..n : history'[i] = history[i]
  BY <1>1, <1>2 DEF hop
<1> HIDE DEF n
<1>5. \A i \in 0..n : Layer(i)' = Layer(i)
  BY <1>1, <1>4 DEF Layer
<1>6. Layer(Len(history))' = AsDoc(blob)
  BY <1>3, <1>4 DEF Layer
<1> QED
  BY <1>1, <1>2, <1>4, <1>5, <1>6 DEF n

\* What the new layer does to the writers of a field.
LEMMA FollowWriters ==
  ASSUME TypeInv, follow_manifest, ~ Err, NEW f,
         NEW e, e = AsDoc(blob).entry, NEW n, n = Len(history)
  PROVE  /\ \/ ~ Given(e)
            \/ e.payload = Absent
            \/ Given(e.payload) /\ e.payload[f] = Absent
            => Writers(f)' = Writers(f)
         /\ Given(e) /\ e.payload = None => Writers(f)' = {}
         /\ Given(e) /\ Given(e.payload) /\ e.payload[f] # Absent =>
              Writers(f)' = Writers(f) \cup {n + 1}
<1>1. /\ n \in Nat /\ Len(history') = n + 1
      /\ \A i \in 0..n : Layer(i)' = Layer(i)
      /\ Layer(n + 1)'.entry = e
  BY FollowLayers
<1>2. ASSUME NEW i \in 0..n
      PROVE  i \in Writers(f)' <=>
               i \in Writers(f) /\ (Given(e) => e.payload # None)
  <2>1. i..(n + 1) = (i..n) \cup {n + 1} /\ i \in 0..(n + 1)
    BY <1>1
  <2>2. \A j \in i..n : Layer(j)' = Layer(j)
    BY <1>1
  <2>3. i \in Writers(f)' <=>
          /\ Given(Layer(i).entry) /\ Given(Layer(i).entry.payload)
          /\ Layer(i).entry.payload[f] # Absent
          /\ \A j \in (i..n) \cup {n + 1} :
               Given(Layer(j)'.entry) => Layer(j)'.entry.payload # None
    BY <1>1, <2>1 DEF Writers
  <2>4. i \in Writers(f) <=>
          /\ Given(Layer(i).entry) /\ Given(Layer(i).entry.payload)
          /\ Layer(i).entry.payload[f] # Absent
          /\ \A j \in i..n : Given(Layer(j).entry) => Layer(j).entry.payload # None
    BY DEF Writers
  <2> QED
    BY <1>1, <2>2, <2>3, <2>4
<1>3. n + 1 \in Writers(f)' <=>
        Given(e) /\ Given(e.payload) /\ e.payload[f] # Absent
  <2>1. (n + 1)..(n + 1) = {n + 1} /\ n + 1 \in 0..(n + 1)
    BY <1>1
  <2> QED
    BY <1>1, <2>1 DEF Writers, Given
<1>4. /\ Writers(f) \subseteq 0..n /\ Writers(f)' \subseteq (0..n) \cup {n + 1}
      /\ n + 1 \notin 0..n
  BY <1>1 DEF Writers
<1>5. /\ Given(e.payload) => e.payload # None
      /\ e.payload \in {Absent, None} => ~ Given(e.payload)
  BY DEF Given
<1> QED
  BY <1>2, <1>3, <1>4, <1>5, MetadataAssumption

\* What the new layer does to the payload in force.
LEMMA FollowPayload ==
  ASSUME TypeInv, follow_manifest, ~ Err, NEW e, e = AsDoc(blob).entry
  PROVE  /\ AsDoc(blob) = Scalar => ~ Given(doc'.entry)
         /\ AsDoc(blob) # Scalar =>
              /\ e \in Maybe(Entry)
              /\ e = None => ~ Given(doc'.entry)
              /\ e = Absent => doc'.entry.payload = doc.entry.payload
              /\ Given(e) => doc'.entry.payload
                               = MergeLeaves(doc.entry.payload, e.payload)
<1>1. /\ blob \in Bytes /\ AsDoc(blob) # Malformed
      /\ doc \in UserData /\ doc.entry \in Entry
      /\ doc' = deep_merge(RemovePointer(doc), AsDoc(blob))
  BY FollowLayers
<1>2. CASE AsDoc(blob) = Scalar
  BY <1>1, <1>2 DEF deep_merge, Given
<1>3. CASE AsDoc(blob) # Scalar
  <2>1. doc'.entry = MergeEntry(RemovePointer(doc).entry, e)
    BY <1>1, <1>3 DEF deep_merge
  <2>2. /\ Given(RemovePointer(doc).entry)
        /\ RemovePointer(doc).entry.payload = doc.entry.payload
    <3>1. RemovePointer(doc).entry = [doc.entry EXCEPT !.manifest = Absent]
      BY <1>1 DEF RemovePointer, UserData
    <3>2. RemovePointer(doc).entry.payload = doc.entry.payload
      BY <1>1, <3>1 DEF Entry
    <3>3. Given(RemovePointer(doc).entry)
      <4>1. RemovePointer(doc).entry \in Entry
        BY <1>1, <3>1 DEF Entry, Maybe
      <4> QED
        BY <4>1, NoObject DEF Given
    <3> QED
      BY <3>2, <3>3
  <2>3. AsDoc(blob) \in UserData
    BY <1>1, <1>3, LayerType
  <2>4. e \in Maybe(Entry)
    BY <2>3 DEF UserData
  <2> QED
    BY <1>3, <2>1, <2>2, <2>4, MetadataAssumption DEF MergeEntry, Overlay, Given
<1> QED
  BY <1>2, <1>3

\* Merging a manifest over the document keeps the payload the merge of its
\* layers.
LEMMA MergedFollow ==
  ASSUME TypeInv, Merged, follow_manifest, ~ Err
  PROVE  Merged'
<1>1. PICK e : e = AsDoc(blob).entry
  OBVIOUS
<1>2. PICK n : n = Len(history)
  OBVIOUS
<1>3. SUFFICES ASSUME Given(doc'.entry)
               PROVE  IF Given(doc'.entry.payload)
                      THEN \A f \in PayloadFieldNames : IsLast(f)'
                      ELSE \A f \in PayloadFieldNames : Writers(f)' = {}
  BY DEF Merged
<1> DEFINE b == doc.entry.payload
           o == e.payload
<1>4. /\ n \in Nat /\ doc \in UserData /\ Given(doc.entry)
      /\ b \in Maybe(Payload)
      /\ \A i \in 0..n : Layer(i)' = Layer(i)
      /\ Layer(n + 1)'.entry = e
  BY <1>1, <1>2, FollowLayers, NoObject DEF Entry, Given
<1>5. /\ Given(b) => \A f \in PayloadFieldNames : IsLast(f)
      /\ ~ Given(b) => \A f \in PayloadFieldNames : Writers(f) = {}
  BY <1>4 DEF Merged
<1>6. \A f \in PayloadFieldNames : Writers(f) \subseteq 0..n
  BY <1>2 DEF Writers
<1>7. /\ e \in Entry \cup {Absent}
      /\ e = Absent => doc'.entry.payload = b
      /\ Given(e) => doc'.entry.payload = MergeLeaves(b, o)
  BY <1>1, <1>3, FollowPayload DEF Maybe
<1>8. ASSUME doc'.entry.payload = b,
             \A f \in PayloadFieldNames : Writers(f)' = Writers(f)
      PROVE  IF Given(doc'.entry.payload)
             THEN \A f \in PayloadFieldNames : IsLast(f)'
             ELSE \A f \in PayloadFieldNames : Writers(f)' = {}
  BY <1>4, <1>5, <1>6, <1>8 DEF IsLast
<1>9. CASE e = Absent
  BY <1>1, <1>2, <1>7, <1>8, <1>9, FollowWriters DEF Given
<1>10. CASE Given(e)
  <2>1. o \in Maybe(Payload)
    BY <1>7, <1>10 DEF Entry, Given
  <2>2. CASE o = Absent
    BY <1>1, <1>2, <1>7, <1>8, <1>10, <2>2, FollowWriters
       DEF MergeLeaves, Overlay, Given
  <2>3. CASE o = None
    <3>1. doc'.entry.payload = None
      BY <1>7, <1>10, <2>3, MetadataAssumption DEF MergeLeaves, Overlay, Given
    <3> QED
      BY <1>1, <1>2, <1>10, <2>3, <3>1, FollowWriters DEF Given
  <2>4. CASE Given(o)
    <3>1. o \in Payload /\ DOMAIN o = PayloadFieldNames
      BY <2>1, <2>4 DEF Given, Maybe, Payload, PayloadFieldNames
    <3>2. ASSUME NEW f \in PayloadFieldNames
          PROVE  doc'.entry.payload[f] =
                   IF o[f] = Absent THEN IF Given(b) THEN b[f] ELSE Absent
                   ELSE o[f]
      <4>1. CASE Given(b)
        <5>1. DOMAIN b = PayloadFieldNames
          BY <1>4, <4>1 DEF Given, Maybe, Payload, PayloadFieldNames
        <5> QED
          BY <1>7, <1>10, <2>4, <4>1, <5>1 DEF MergeLeaves, Overlay
      <4>2. CASE ~ Given(b)
        BY <1>7, <1>10, <2>4, <4>2 DEF MergeLeaves, Overlay, Given
      <4> QED
        BY <4>1, <4>2
    <3>3. Given(doc'.entry.payload)
      <4>1. CASE Given(b)
        <5>1. b \in Payload
          BY <1>4, <4>1 DEF Given, Maybe
        <5>2. doc'.entry.payload = [f \in DOMAIN b |-> Overlay(b[f], o[f])]
          BY <1>7, <1>10, <2>4, <4>1 DEF MergeLeaves
        <5>3. doc'.entry.payload \in Payload
          BY <3>1, <5>1, <5>2 DEF Payload, Overlay
        <5> QED
          BY <5>3, NoObject DEF Given
      <4>2. CASE ~ Given(b)
        BY <1>7, <1>10, <2>4, <4>2 DEF MergeLeaves, Overlay, Given
      <4> QED
        BY <4>1, <4>2
    <3>4. ASSUME NEW f \in PayloadFieldNames, o[f] # Absent
          PROVE  IsLast(f)'
      <4>1. Writers(f)' = Writers(f) \cup {n + 1}
        BY <1>1, <1>2, <1>10, <2>4, <3>4, FollowWriters
      <4>2. \A j \in Writers(f)' : j <= n + 1
        BY <1>4, <1>6, <4>1
      <4> QED
        BY <1>4, <3>2, <3>4, <4>1, <4>2 DEF IsLast
    <3>5. ASSUME NEW f \in PayloadFieldNames, o[f] = Absent
          PROVE  IsLast(f)'
      <4>1. Writers(f)' = Writers(f)
        BY <1>1, <1>2, <1>10, <2>4, <3>5, FollowWriters
      <4> QED
        BY <1>4, <1>5, <1>6, <3>2, <3>5, <4>1 DEF IsLast
    <3> QED
      BY <3>3, <3>4, <3>5
  <2> QED
    BY <2>1, <2>2, <2>3, <2>4 DEF Maybe, Given
<1> QED
  BY <1>7, <1>9, <1>10, NoObject DEF Given

\* Every step of stage1 keeps the invariant of the document.
LEMMA DocStep ==
  TypeInv /\ AuthInv /\ ChainInv /\ DocInv /\ [Next]_vars => DocInv'
<1> SUFFICES ASSUME TypeInv, AuthInv, ChainInv, DocInv, [Next]_vars
             PROVE  DocInv'
  OBVIOUS
<1> USE DEF DocInv
<1>1. CASE UNCHANGED vars
  BY <1>1, MergedFrame DEF vars, InForce
<1>2. CASE Next /\ pc \notin Early
  <2>1. /\ pc' \notin Early
        /\ UNCHANGED <<raw_json, doc, history, binary>>
    BY <1>2, LateFrame
  <2>2. pc' \notin AtManifest \cup AtPayload
    BY <2>1 DEF Early
  <2> QED
    BY <2>1, <2>2, MergedFrame DEF InForce
<1>3. CASE Next /\ pc \in Early
  <2>0. binary = None
    BY <1>3 DEF AuthInv, Admissible
  <2>1. CASE UNCHANGED boot /\ ~ (follow_manifest /\ ~ Err)
    <3>1. UNCHANGED <<raw_json, doc, history, binary>>
      BY <2>1 DEF boot
    <3>2. InForce'
      <4>1. CASE pc' \in {"poweroff", "exited"} \cup Waiting
        BY <2>0, <3>1, <4>1 DEF InForce, AtManifest, AtPayload, Waiting, Endpoints
      <4>2. CASE pc' \in {"resolve"} \cup Measuring \cup Executing
        BY <2>0, <3>1, <4>2 DEF InForce, AtManifest, AtPayload, Measuring, Executing
      <4>3. ASSUME NEW d, Received(d)
            PROVE  pc' = "resolve"
        BY <4>3 DEF Received
      <4>4. ASSUME NEW b, NEW v, Admit(b, v)
            PROVE  pc' \in Measuring \cup Executing
        BY <4>4 DEF Admit, stage2, Measuring, Executing
      <4>5. CASE pc' \in AtManifest /\ pc \in AtManifest
        BY <2>0, <3>1, <4>5 DEF InForce, AtManifest, AtPayload
      <4>6. CASE pc' \in AtPayload /\ pc \in AtPayload
        BY <2>0, <3>1, <4>6 DEF InForce, AtManifest, AtPayload
      <4>7. CASE /\ pc' = "manifest"
                 /\ ArchConfigParses(doc.entry) /\ IsManifest(doc.entry)
        BY <2>0, <3>1, <4>7 DEF InForce, AtManifest, AtPayload
      <4>8. CASE /\ pc' = "payload"
                 /\ ArchConfigParses(doc.entry) /\ ~ IsManifest(doc.entry)
        BY <2>0, <3>1, <4>8 DEF InForce, AtManifest, AtPayload
      <4> QED
        BY <1>3, <2>1, <4>1, <4>2, <4>3, <4>4, <4>5, <4>6, <4>7, <4>8,
           EarlyEffects DEF EarlyEffect
    <3> QED
      BY <3>1, <3>2, MergedFrame
  <2>2. CASE pc \in Waiting /\ \E d \in UserData : Received(d)
    <3>1. history = <<>>
      BY <2>2 DEF ChainInv, Waiting
    <3>2. /\ pc' = "resolve" /\ doc' = raw_json' /\ binary' = None
      BY <2>0, <2>2 DEF Received, admitted
    <3> QED
      BY <2>2, <3>1, <3>2, MergedReceived DEF InForce, AtManifest, AtPayload
  <2>3. CASE follow_manifest /\ ~ Err
    <3>1. /\ pc' = "resolve" /\ history' # <<>> /\ binary' = None
      <4>1. pc' = "resolve" /\ binary' = None
        BY <2>0, <2>3, FollowLayers
      <4>2. Len(history') # 0
        BY <2>3, FollowLayers
      <4> QED
        BY <4>1, <4>2
    <3> QED
      BY <2>3, <3>1, MergedFollow DEF InForce, AtManifest, AtPayload
  <2>4. CASE pc \in AtPayload /\ \E b \in Bytes : \E v : Admit(b, v)
    <3>1. /\ pc' \notin AtManifest \cup AtPayload
          /\ UNCHANGED <<raw_json, doc, history>>
      BY <2>4 DEF Admit, stage2, source, resolution, AtManifest, AtPayload
    <3>2. doc \in UserData /\ Given(doc.entry) /\ Given(doc.entry.payload)
      BY <2>4 DEF InForce, ArchConfigParses, PayloadParses, TypeInv, HasEntry
    <3> QED
      BY <3>1, <3>2, MergedFrame DEF InForce
  <2> QED
    BY <1>3, <2>1, <2>2, <2>3, <2>4, EarlyEffects DEF EarlyEffect
<1> QED
  BY <1>1, <1>2, <1>3

\* Everything the theorems of this module rest on.
BootInv == TypeInv /\ MeasureInv /\ AuthInv /\ ChainInv /\ DocInv

\* It holds throughout.
LEMMA BootInvariant == Spec => []BootInv
<1>1. Init => BootInv
  BY TypeInit, MeasureInit, AuthInit, ChainInit, DocInit DEF BootInv
<1>2. BootInv /\ [Next]_vars => BootInv'
  BY TypeStep, MeasureStep, AuthStep, ChainStep, DocStep DEF BootInv
<1> QED
  BY <1>1, <1>2, PTL DEF Spec

\* Whatever manifests a resolution goes through, and however many, each field
\* of the admitted payload is the last one written along the chain: a later
\* manifest wins, a null takes a field away, and an admission mode or a URL of
\* an earlier layer stays in force only where no later one speaks.
THEOREM LaterLayersWin == Spec => []LastManifestWins
<1>1. ASSUME BootInv
      PROVE  LastManifestWins
  <2> SUFFICES ASSUME binary # None, NEW f \in DOMAIN ThePayload
               PROVE  doc.entry.payload[f] =
                        IF Writers(f) = {} THEN Absent
                        ELSE LET i == CHOOSE i \in Writers(f) :
                                        \A j \in Writers(f) : j <= i
                             IN  Layer(i).entry.payload[f]
    BY DEF LastManifestWins
  <2>1. doc \in UserData /\ Given(doc.entry) /\ Given(doc.entry.payload)
    BY <1>1 DEF BootInv, DocInv, InForce
  <2>2. f \in PayloadFieldNames
    <3>1. doc.entry \in Entry
      BY <2>1 DEF UserData, Maybe, Given
    <3>2. doc.entry.payload \in Payload
      BY <2>1, <3>1 DEF Entry, Maybe, Given
    <3> QED
      BY <3>2 DEF ThePayload, Fields, Payload, PayloadFieldNames
  <2>3. IsLast(f)
    BY <1>1, <2>1, <2>2 DEF BootInv, DocInv, Merged
  <2>4. Writers(f) \subseteq Nat
    BY DEF Writers
  <2>5. ASSUME NEW i \in Writers(f), NEW k \in Writers(f),
               \A j \in Writers(f) : j <= i, \A j \in Writers(f) : j <= k
        PROVE  i = k
    <3>1. i <= k /\ k <= i /\ i \in Nat /\ k \in Nat
      BY <2>4, <2>5
    <3> QED
      BY <3>1
  <2> QED
    BY <2>3, <2>5 DEF IsLast
<1> QED
  BY <1>1, BootInvariant, PTL

\* A payload reached through manifests reads in resolved_manifests exactly the
\* chain stage1 verified, whatever a manifest of the chain wrote there.
THEOREM Provenance == Spec => []ProvenanceOfChain
<1>1. ASSUME BootInv
      PROVE  ProvenanceOfChain
  <2> SUFFICES ASSUME pc = "running", history # <<>>
               PROVE  cfg.of.entry.resolved_manifests = history
    BY DEF ProvenanceOfChain
  <2>1. cfg.of = StdinFor(doc, raw_json, history) /\ binary # None
    BY <1>1, Stage1Assumption DEF BootInv, MeasureInv, DocumentStaged, TypeInv,
       HasPayload, Executing
  <2>2. doc \in UserData /\ Given(doc.entry)
    BY <1>1, <2>1 DEF BootInv, DocInv, InForce
  <2>3. doc.entry \in Entry
    BY <2>2 DEF UserData, Maybe, Given
  <2>4. cfg.of.entry = [doc.entry EXCEPT !.resolved_manifests = history]
    BY <2>1, <2>2 DEF StdinFor, set_resolved_manifests, UserData
  <2> QED
    BY <2>3, <2>4 DEF Entry
<1> QED
  BY <1>1, BootInvariant, PTL

-----------------------------------------------------------------------------
(* stage1 implements TrustedBoot.                                          *)

\* Where stage1 has stopped.
Stopped == {"poweroff", "exited", "off", "exit 1"}

\* The phase of TrustedBoot, by where stage1 is.
PhaseTable ==
  /\ pc \in Waiting => Phase = "waiting"
  /\ pc \in {"resolve"} \cup AtManifest \cup AtPayload => Phase = "resolving"
  /\ pc \in Measuring => Phase = "admitted"
  /\ pc \in Executing \ {"running"} =>
       Phase = IF launch.root THEN "measured" ELSE "admitted"
  /\ pc = "running" => Phase = "running"
  /\ pc \in Stopped => Phase = "stopped"

\* Before and after a step.
LEMMA PhaseOf == PhaseTable /\ PhaseTable'
<1> USE DEF PhaseTable, Phase, Waiting, Endpoints, Lists, AtManifest, AtPayload,
            Measuring, Executing, Stopped
<1>1. PhaseTable
  OBVIOUS
<1>2. PhaseTable'
  OBVIOUS
<1> QED
  BY <1>1, <1>2

\* stage1 starts where TrustedBoot does.
LEMMA RefineInit == Init => Abstract!AInit
<1> SUFFICES ASSUME Init
             PROVE  Abstract!AInit
  OBVIOUS
<1>1. Phase = "waiting"
  BY PhaseOf DEF Init, PhaseTable, Waiting
<1>2. launch.root \in BOOLEAN
  BY Stage1Assumption DEF Init, Launch
<1> QED
  BY <1>1, <1>2 DEF Abstract!AInit, Init

\* A step that leaves the boot as it is and stays in its phase, or stops.
LEMMA RefineStay ==
  ASSUME UNCHANGED <<launch, doc, history, binary, args, stdin, pcr14>>,
         \/ Phase' = Phase
         \/ Phase' = "stopped" /\ Phase \notin {"running", "stopped"}
  PROVE  [Abstract!ANext]_(Abstract!avars)
<1>1. CASE Phase' = Phase
  BY <1>1 DEF Abstract!avars
<1>2. CASE Phase' = "stopped" /\ Phase \notin {"running", "stopped"}
  BY <1>2 DEF Abstract!ANext, Abstract!Stop
<1> QED
  BY <1>1, <1>2

\* The functions of the resolution are the same at both levels.
LEMMA SameFunctions ==
  /\ Abstract!UserData = UserData
  /\ \A b : Abstract!sha256(b) = sha256(b)
  /\ \A k, d, b : Abstract!sign(k, d, b) = sign(k, d, b)
  /\ \A r : Abstract!Fields(r) = Fields(r)
  /\ \A m, u, b : Abstract!Hop(m, u, b) = Hop(m, u, b)
  /\ \A d : Abstract!RemovePointer(d) = RemovePointer(d)
  /\ \A d, r, h : Abstract!StdinFor(d, r, h) = StdinFor(d, r, h)
  /\ \A p, v : Abstract!Argv(p, v) = Argv(p, v)
<1>1. Abstract!UserData = UserData
  BY DEF Abstract!UserData, Abstract!Entry, Abstract!Payload, Abstract!ManifestRef,
     Abstract!Maybe, Abstract!UrlList, Abstract!Hex, Abstract!PubKey,
     UserData, Entry, Payload, ManifestRef, Maybe, UrlList, Hex, PubKey
<1>2. \A b : Abstract!sha256(b) = sha256(b)
  BY DEF Abstract!sha256, sha256
<1>3. \A k, d, b : Abstract!sign(k, d, b) = sign(k, d, b)
  BY <1>2 DEF Abstract!sign, Abstract!preimage, sign, preimage
<1>4. \A r : Abstract!Fields(r) = Fields(r)
  BY DEF Abstract!Fields, Fields
<1>5. \A m, u, b : Abstract!Hop(m, u, b) = Hop(m, u, b)
  BY <1>2 DEF Abstract!Hop, Hop
<1>6. \A d : Abstract!RemovePointer(d) = RemovePointer(d)
  BY DEF Abstract!RemovePointer, RemovePointer
<1>7. \A d, r, h : Abstract!StdinFor(d, r, h) = StdinFor(d, r, h)
  BY DEF Abstract!StdinFor, StdinFor, Abstract!set_resolved_manifests,
     set_resolved_manifests
<1>8. \A p, v : Abstract!Argv(p, v) = Argv(p, v)
  BY DEF Abstract!Argv, Argv
<1> QED
  BY <1>1, <1>2, <1>3, <1>4, <1>5, <1>6, <1>7, <1>8

\* So is the merge.
LEMMA SameMerge ==
  \A b, o : Abstract!deep_merge(b, o) = deep_merge(b, o)
<1>1. \A x : Abstract!Given(x) <=> Given(x)
  BY DEF Abstract!Given, Given
<1>2. \A b, o : Abstract!Overlay(b, o) = Overlay(b, o)
  BY DEF Abstract!Overlay, Overlay
<1>3. \A b, o : Abstract!MergeLeaves(b, o) = MergeLeaves(b, o)
  BY <1>1, <1>2 DEF Abstract!MergeLeaves, MergeLeaves
<1>4. \A b, o : Abstract!MergeEntry(b, o) = MergeEntry(b, o)
  BY <1>1, <1>2, <1>3 DEF Abstract!MergeEntry, MergeEntry
<1> QED
  BY <1>2, <1>4 DEF Abstract!deep_merge, deep_merge

\* And the rules.
LEMMA SameRules ==
  /\ \A g, h : Abstract!eq_ignore_ascii_case(g, h) <=> eq_ignore_ascii_case(g, h)
  /\ \A e : Abstract!ArchConfigParses(e) <=> ArchConfigParses(e)
  /\ \A e : Abstract!IsManifest(e) <=> IsManifest(e)
  /\ \A p : Abstract!admission(p, "Stage1") <=> admission(p, "Stage1")
  /\ \A h, u, b : Abstract!IsCycle(h, u, b) <=> IsCycle(h, u, b)
<1>1. \A g, h : Abstract!eq_ignore_ascii_case(g, h) <=> eq_ignore_ascii_case(g, h)
  BY DEF Abstract!eq_ignore_ascii_case, eq_ignore_ascii_case
<1>2. \A e : Abstract!IsManifest(e) <=> IsManifest(e)
  BY DEF Abstract!IsManifest, IsManifest
<1>3. \A e : Abstract!ArchConfigParses(e) <=> ArchConfigParses(e)
  BY <1>2 DEF Abstract!ArchConfigParses, Abstract!ManifestParses,
     Abstract!PayloadParses, Abstract!Given, ArchConfigParses, ManifestParses,
     PayloadParses, Given
<1>4. \A l : Abstract!ok_list(l, TRUE) <=> ok_list(l, TRUE)
  BY DEF Abstract!ok_list, Abstract!ok_url, ok_list, ok_url
<1>5. /\ \A h : Abstract!ok_sha256(h) <=> ok_sha256(h)
      /\ \A k : Abstract!ok_pubkey(k) <=> ok_pubkey(k)
  BY DEF Abstract!ok_sha256, ok_sha256, Abstract!ok_pubkey, ok_pubkey
<1>6. ASSUME NEW p
      PROVE  Abstract!admission(p, "Stage1") <=> admission(p, "Stage1")
  BY <1>4, <1>5 DEF Abstract!admission, admission
<1>7. \A h, u, b : Abstract!IsCycle(h, u, b) <=> IsCycle(h, u, b)
  BY SameFunctions DEF Abstract!IsCycle, IsCycle
<1> QED
  BY <1>1, <1>2, <1>3, <1>6, <1>7

\* Receiving a document.
LEMMA RefineReceived ==
  ASSUME pc \in Waiting, NEW d \in UserData, Received(d)
  PROVE  Abstract!Receive
<1>1. Phase = "waiting" /\ Phase' = "resolving"
  BY PhaseOf DEF PhaseTable, Received
<1> QED
  BY <1>1, SameFunctions DEF Abstract!Receive, Received, admitted, tpm

\* Following a manifest.
LEMMA RefineFollow ==
  ASSUME BootInv, follow_manifest, ~ Err
  PROVE  Abstract!Delegate
<1>1. /\ pc = "follow" /\ pc' = "resolve"
      /\ ~ IsCycle(history, Head(mirrors), blob) /\ AsDoc(blob) # Malformed
      /\ history' = Append(history, Hop(TheManifest, Head(mirrors), blob))
      /\ doc' = deep_merge(RemovePointer(doc), AsDoc(blob))
      /\ UNCHANGED <<launch, binary, args, stdin, pcr14>>
  BY DEF follow_manifest, source, admitted, tpm
<1>2. Phase = "resolving" /\ Phase' = "resolving"
  BY <1>1, PhaseOf DEF PhaseTable, AtManifest
<1>3. blob \in Bytes /\ mirrors # <<>> /\ mirrors \in Seq(Url)
  BY <1>1 DEF BootInv, TypeInv, TypeOK, HasCandidate
<1>4. Head(mirrors) \in Url /\ Len(mirrors) >= 1 /\ Head(mirrors) = mirrors[1]
  BY <1>3
<1>5. Abstract!Speaks(TheManifest, Head(mirrors), blob)
  <2>1. \E j \in 1..Len(TheManifest.url) : TheManifest.url[j] = Head(mirrors)
    BY <1>1, <1>3, <1>4 DEF BootInv, ChainInv, CandidateSpeaks, AtManifest
  <2>2. PinHolds(TheManifest, blob)
        /\ sign(TheManifest.ed25519.key, "stage2.manifest", blob) \in Issued
    BY <1>1 DEF BootInv, ChainInv, CandidateSpeaks
  <2> QED
    BY <2>1, <2>2, SameFunctions, SameRules DEF Abstract!Speaks, PinHolds
<1>6. ArchConfigParses(doc.entry) /\ IsManifest(doc.entry)
  BY <1>1 DEF BootInv, DocInv, InForce, AtManifest
<1> QED
  BY <1>1, <1>2, <1>3, <1>4, <1>5, <1>6, SameFunctions, SameMerge, SameRules
     DEF Abstract!Delegate, TheManifest

\* Admitting a payload.
LEMMA RefineAdmit ==
  ASSUME BootInv, BootInv', pc \in AtPayload, NEW b \in Bytes, NEW v, Admit(b, v)
  PROVE  Abstract!AdmitCode
<1>1. /\ binary' = b /\ pc' = stage2 /\ stdin' = StdinFor(doc, raw_json, history)
      /\ UNCHANGED <<launch, raw_json, doc, history, pcr14>>
  BY DEF Admit, source, resolution, tpm
<1>2. Phase = "resolving" /\ Phase' = "admitted"
  BY <1>1, PhaseOf DEF PhaseTable, stage2, Measuring, Executing
<1>3. /\ ArchConfigParses(doc.entry) /\ ~ IsManifest(doc.entry)
      /\ admission(ThePayload, "Stage1")
  BY DEF BootInv, DocInv, InForce, AuthInv, Admissible
<1>4. ThePayload' = ThePayload
  BY <1>1 DEF ThePayload
<1>5. AdmittedUnderAuthority' /\ binary' # None /\ args' \in Seq(Arg)
  BY <1>1, Stage1Assumption DEF BootInv, AuthInv, TypeInv, TypeOK
<1>6. /\ Abstract!Entitles(ThePayload, binary')
      /\ Abstract!EntitledArgv(ThePayload, args')
  BY <1>4, <1>5, SameFunctions, SameRules
     DEF AdmittedUnderAuthority, Abstract!Entitles, Abstract!EntitledArgv
<1>7. stdin' = StdinFor(doc, doc, history)
  BY <1>1 DEF BootInv, DocInv, InForce, StdinFor
<1> QED
  BY <1>1, <1>2, <1>3, <1>5, <1>6, <1>7, SameFunctions, SameRules
     DEF Abstract!AdmitCode, ThePayload

\* Measuring it.
LEMMA RefineMeasure ==
  ASSUME BootInv, extend_pcrs, ~ Err
  PROVE  Abstract!Measure
<1>1. /\ pc = "extend" /\ pc' \in {"exe", "poweroff"}
      /\ pcr14' = Append(pcr14, sha256(binary))
      /\ UNCHANGED <<launch, doc, history, binary, args, stdin>>
  BY DEF extend_pcrs, source, resolution, admitted
<1>2. launch.root /\ pcr14 = <<>>
  BY <1>1 DEF BootInv, MeasureInv, Measured
<1>3. Phase = "admitted" /\ Phase' \in {"measured", "stopped"}
  BY <1>1, <1>2, PhaseOf DEF PhaseTable, Measuring, Executing, Stopped
<1>4. pcr14' = <<sha256(binary)>>
  BY <1>1, <1>2
<1> QED
  BY <1>1, <1>2, <1>3, <1>4, SameFunctions DEF Abstract!Measure

\* The steps before admission.
LEMMA RefineEarly ==
  ASSUME BootInv, BootInv', pc \in Early, Next
  PROVE  [Abstract!ANext]_(Abstract!avars)
<1>1. CASE UNCHANGED boot /\ (pc' \in Stopped \/ Phase' = Phase)
  <2>1. Phase \in {"waiting", "resolving"}
    BY PhaseOf DEF PhaseTable, Early, Waiting
  <2>2. pc' \in Stopped => Phase' = "stopped"
    BY PhaseOf DEF PhaseTable
  <2> QED
    BY <1>1, <2>1, <2>2, RefineStay DEF boot
<1>2. CASE pc \in Waiting /\ \E d \in UserData : Received(d)
  BY <1>2, RefineReceived DEF Abstract!ANext
<1>3. CASE follow_manifest /\ ~ Err
  BY <1>3, RefineFollow DEF Abstract!ANext
<1>4. CASE pc \in AtPayload /\ \E b \in Bytes : \E v : Admit(b, v)
  BY <1>4, RefineAdmit DEF Abstract!ANext
<1>5. ASSUME \/ pc \in Waiting /\ pc' \in Waiting
             \/ /\ pc \in {"resolve"} \cup AtManifest \cup AtPayload
                /\ pc' \in {"resolve"} \cup AtManifest \cup AtPayload
      PROVE  Phase' = Phase
  BY <1>5, PhaseOf DEF PhaseTable
<1>6. {"poweroff", "exited"} \subseteq Stopped
  BY DEF Stopped
<1>7. "manifest" \in AtManifest /\ "payload" \in AtPayload
  BY DEF AtManifest, AtPayload
<1> QED
  BY <1>1, <1>2, <1>3, <1>4, <1>5, <1>6, <1>7, EarlyEffects
     DEF BootInv, EarlyEffect

\* The actions that are left after admission.
LEMMA LateSteps ==
  ASSUME TypeInv, pc \notin Early, Next
  PROVE  \/ generate_pre_execution_attestation \/ extend_pcrs \/ make_memfds
         \/ execute_binary \/ poweroff
<1>1. pc \in Measuring \cup Executing \cup Stopped
  BY DEF TypeInv, TypeOK, PC, Early, Endpoints, AtManifest, AtPayload,
     Measuring, Executing, Stopped
<1> QED
  BY <1>1 DEF Next, stdin_config, attest_diagnostic, fetch_cloud_metadata,
     try_fetch_ec2_token, try_fetch_ec2, try_fetch_gcp, try_fetch_azure,
     try_fetch, download_first_next, download_first_err, Lists,
     candidate_unavailable, candidates_err, resolve_payload, fetch_manifest,
     try_fetch_manifest, verify_manifest, follow_manifest, admit_payload,
     admit_from, verify_payload, fetch_signed_args, verify_signed_args,
     Measuring, Executing, Stopped

\* The steps after it.
LEMMA RefineLate ==
  ASSUME BootInv, pc \notin Early, Next
  PROVE  [Abstract!ANext]_(Abstract!avars)
<1>1. pc \in Measuring \cup Executing \cup Stopped
  BY DEF BootInv, TypeInv, TypeOK, PC, Early, Endpoints, AtManifest, AtPayload,
     Measuring, Executing, Stopped
<1>2. \/ generate_pre_execution_attestation \/ extend_pcrs \/ make_memfds
      \/ execute_binary \/ poweroff
  BY LateSteps DEF BootInv
<1>3. CASE extend_pcrs /\ ~ Err
  BY <1>3, RefineMeasure DEF Abstract!ANext
<1>4. CASE Goto("running") /\ pc = "execveat"
  <2>1. /\ pc' = "running"
        /\ UNCHANGED <<launch, doc, history, binary, args, stdin, pcr14>>
    BY <1>4 DEF Goto, source, resolution, admitted, tpm
  <2>2. /\ Phase = IF launch.root THEN "measured" ELSE "admitted"
        /\ Phase' = "running"
    BY <1>4, <2>1, PhaseOf DEF PhaseTable, Executing
  <2> QED
    BY <2>1, <2>2 DEF Abstract!ANext, Abstract!Run
<1>5. CASE /\ ~ (extend_pcrs /\ ~ Err) /\ ~ Goto("running")
  <2>1. /\ UNCHANGED <<launch, doc, history, binary, args, stdin, pcr14>>
        /\ \/ pc \in Measuring /\ pc' \in Measuring
           \/ /\ pc \in Executing \ {"running"}
              /\ pc' \in Executing \ {"running"}
           \/ pc' \in Stopped /\ pc # "running"
    <3>1. CASE Err
      <4>1. pc # "running"
        BY <1>2 DEF generate_pre_execution_attestation, extend_pcrs,
           make_memfds, make_memfd_exe, write_exe, seal_exe, make_memfd_cfg,
           write_cfg, rewind_cfg, wire_stdin, execute_binary, poweroff
      <4> QED
        BY <3>1, <4>1 DEF Err, source, resolution, admitted, tpm, Stopped
    <3>2. CASE generate_pre_execution_attestation /\ ~ Err
      BY <3>2 DEF generate_pre_execution_attestation, source, resolution,
         admitted, Measuring
    <3>3. CASE make_memfds /\ ~ Err
      BY <3>3 DEF make_memfds, make_memfd_exe, write_exe, seal_exe,
         make_memfd_cfg, write_cfg, rewind_cfg, wire_stdin, Goto, source,
         resolution, admitted, tpm, Executing
    <3>4. CASE poweroff
      BY <3>4 DEF poweroff, Goto, source, resolution, admitted, tpm, Stopped
    <3> QED
      BY <1>2, <1>5, <3>1, <3>2, <3>3, <3>4 DEF execute_binary
  <2>2. CASE \/ pc \in Measuring /\ pc' \in Measuring
             \/ /\ pc \in Executing \ {"running"}
                /\ pc' \in Executing \ {"running"}
    BY <2>1, <2>2, PhaseOf, RefineStay DEF PhaseTable
  <2>3. CASE pc' \in Stopped /\ pc # "running"
    <3>1. Phase' = "stopped" /\ Phase # "running"
      BY <1>1, <2>3, PhaseOf DEF PhaseTable
    <3> QED
      BY <2>1, <3>1, RefineStay
  <2> QED
    BY <2>1, <2>2, <2>3
<1> QED
  BY <1>2, <1>3, <1>4, <1>5 DEF generate_pre_execution_attestation,
     extend_pcrs, make_memfds, make_memfd_exe, write_exe, seal_exe,
     make_memfd_cfg, write_cfg, rewind_cfg, wire_stdin, execute_binary,
     poweroff, Goto, Err

\* Every behaviour of stage1 is one of TrustedBoot: whatever mirrors, metadata
\* services, TPM and kernel answer, authority passes only to manifests that the
\* document in force speaks for, only code it entitles is admitted, with its
\* arguments and its document, root measures it once before it runs, and
\* nothing else ever runs.
THEOREM Refinement == Spec => ImplementsTrustedBoot
<1>1. BootInv /\ BootInv' /\ [Next]_vars => [Abstract!ANext]_(Abstract!avars)
  <2>1. ASSUME UNCHANGED vars
        PROVE  UNCHANGED Abstract!avars
    BY <2>1 DEF vars, Abstract!avars, Phase
  <2> QED
    BY <2>1, RefineEarly, RefineLate
<1> QED
  BY <1>1, RefineInit, BootInvariant, PTL
     DEF Spec, ImplementsTrustedBoot, Abstract!ASpec

-----------------------------------------------------------------------------
(* One reliable metadata service is enough.                                *)

\* After admission the source of the document does not change.
LEMMA LateSource ==
  ASSUME TypeInv, pc \notin Early, Next
  PROVE  UNCHANGED source
<1>1. \/ generate_pre_execution_attestation \/ extend_pcrs \/ make_memfds
      \/ execute_binary \/ poweroff
  BY LateSteps
<1> QED
  BY <1>1 DEF generate_pre_execution_attestation, extend_pcrs, make_memfds,
     make_memfd_exe, write_exe, seal_exe, make_memfd_cfg, write_cfg,
     rewind_cfg, wire_stdin, execute_binary, poweroff, Goto, Err

\* While there is no document, every service that has been passed over is one
\* that is not reliable.
PassedOver ==
  raw_json = None /\ launch.stdin = None /\ ~ launch.attest =>
    /\ pc \in {"main_inner", "poweroff", "off", "exit 1"} \cup Endpoints
    /\ pc \in {"gcp", "azure", "poweroff", "off", "exit 1"} =>
         ~ ReliableProvider("ec2")
    /\ pc \in {"azure", "poweroff", "off", "exit 1"} => ~ ReliableProvider("gcp")
    /\ pc \in {"poweroff", "off", "exit 1"} => ~ ReliableProvider("azure")

\* A service that is given up on is not reliable.
LEMMA GivenUp ==
  ASSUME NEW e \in {"ec2", "gcp", "azure"}, try_fetch(e), raw_json' = None
  PROVE  /\ pc = e /\ Goto(OrElse(e))
         /\ ~ ReliableProvider(e)
<1>1. PICK a \in Provider[e] :
        IF a = Fail
        THEN Goto(OrElse(e))
        ELSE \E parsed \in parse_json_to_config(Decoded(e, a)) :
               IF parsed THEN Received(Decoded(e, a)) ELSE Goto(OrElse(e))
  BY DEF try_fetch
<1>2. pc = e
  BY DEF try_fetch
<1>3. CASE a = Fail
  BY <1>1, <1>2, <1>3 DEF ReliableProvider
<1>4. CASE a # Fail
  <2>1. PICK parsed \in parse_json_to_config(Decoded(e, a)) :
          IF parsed THEN Received(Decoded(e, a)) ELSE Goto(OrElse(e))
    BY <1>1, <1>4
  <2>2. parse_json_to_config(Decoded(e, a)) \subseteq BOOLEAN
    BY DEF parse_json_to_config, UserDataParses, PayloadParses, ManifestParses,
       Given
  <2>3. CASE parsed
    <3>1. TRUE \in parse_json_to_config(Decoded(e, a)) /\ Received(Decoded(e, a))
      BY <2>1, <2>2, <2>3
    <3>2. Decoded(e, a) \in UserData \cup {Malformed}
      <4>1. a \in Answer
        BY <1>4, Stage1Assumption DEF Endpoints
      <4> QED
        BY <4>1 DEF Decoded, Answer
    <3>3. raw_json' \in UserData
      BY <3>1, <3>2, ParsedBody DEF Received
    <3> QED
      BY <3>3, NoObject
  <2>4. CASE ~ parsed
    <3>1. FALSE \in parse_json_to_config(Decoded(e, a))
      BY <2>1, <2>2, <2>4
    <3> QED
      BY <1>2, <2>1, <2>4, <3>1 DEF ReliableProvider
  <2> QED
    BY <2>3, <2>4
<1> QED
  BY <1>3, <1>4

\* Every step of stage1 keeps it.
LEMMA PassedOverStep == TypeInv /\ PassedOver /\ [Next]_vars => PassedOver'
<1> SUFFICES ASSUME TypeInv, PassedOver, [Next]_vars,
                    (raw_json = None /\ launch.stdin = None /\ ~ launch.attest)'
             PROVE  PassedOver'
  BY DEF PassedOver
<1>1. CASE UNCHANGED vars
  BY <1>1 DEF PassedOver, vars
<1>2. CASE Next /\ raw_json = None /\ UNCHANGED launch
  <2>0. pc \in {"main_inner", "poweroff", "off", "exit 1"} \cup Endpoints
    BY <1>2 DEF PassedOver
  <2>1. \/ stdin_config \/ fetch_cloud_metadata \/ poweroff
    BY <1>2, <2>0 DEF Next, attest_diagnostic, download_first_next,
       download_first_err, Lists, candidate_unavailable, candidates_err,
       resolve_payload, fetch_manifest, try_fetch_manifest, verify_manifest,
       follow_manifest, admit_payload, admit_from, verify_payload,
       fetch_signed_args, verify_signed_args,
       generate_pre_execution_attestation, extend_pcrs, make_memfds,
       make_memfd_exe, write_exe, seal_exe, make_memfd_cfg, write_cfg,
       rewind_cfg, wire_stdin, execute_binary, Endpoints
  <2>2. CASE stdin_config
    BY <1>2, <2>2 DEF stdin_config, Goto, PassedOver, Endpoints
  <2>3. CASE try_fetch_ec2_token
    <3>1. PICK a \in Provider["ec2 token"] :
            Goto(IF a = Fail THEN OrElse("ec2 token") ELSE "ec2")
      BY <2>3 DEF try_fetch_ec2_token
    <3>2. CASE a = Fail
      BY <3>1, <3>2 DEF OrElse, Goto, PassedOver, ReliableProvider, Endpoints
    <3>3. CASE a # Fail
      BY <3>1, <3>3 DEF Goto, PassedOver, Endpoints
    <3> QED
      BY <3>2, <3>3
  <2>4. ASSUME NEW e \in {"ec2", "gcp", "azure"}, try_fetch(e)
        PROVE  PassedOver'
    <3>1. pc = e /\ pc' = OrElse(e) /\ ~ ReliableProvider(e)
      BY <2>4, GivenUp DEF Goto
    <3> QED
      BY <1>2, <3>1 DEF OrElse, PassedOver, Endpoints
  <2>5. CASE poweroff
    BY <1>2, <2>5 DEF poweroff, Goto, PassedOver, Endpoints
  <2> QED
    BY <2>1, <2>2, <2>3, <2>4, <2>5 DEF fetch_cloud_metadata, try_fetch_ec2,
       try_fetch_gcp, try_fetch_azure
<1>3. ASSUME Next
      PROVE  UNCHANGED launch /\ (raw_json' = raw_json \/ raw_json' # None)
  <2>1. CASE pc \in Early
    <3>1. UNCHANGED launch
      BY <1>3, <2>1, EarlySteps DEF EarlyFrame
    <3>2. CASE \E d \in UserData : Received(d)
      BY <3>1, <3>2, NoObject DEF Received
    <3>3. CASE ~ (\E d \in UserData : Received(d))
      BY <1>3, <2>1, <3>1, <3>3, EarlyEffects, FollowLayers
         DEF EarlyEffect, boot, Admit, source
    <3> QED
      BY <3>2, <3>3
  <2>2. CASE pc \notin Early
    BY <1>3, <2>2, LateSource DEF source
  <2> QED
    BY <2>1, <2>2
<1> QED
  BY <1>1, <1>2, <1>3

\* On a machine where one of the three metadata services always answers with a
\* document, stage1 never gives up without one, whatever the endpoints of the
\* other clouds answer in the meantime.
THEOREM ReliableServiceIsEnough == Spec => []DocumentIsFound
<1>1. Init => PassedOver
  BY DEF Init, PassedOver, Endpoints
<1>2. PassedOver => DocumentIsFound
  BY DEF PassedOver, DocumentIsFound
<1> QED
  BY <1>1, <1>2, TypeInit, TypeStep, PassedOverStep, PTL DEF Spec

-----------------------------------------------------------------------------
(* One reliable mirror is enough.                                          *)

\* A location that answers with a failure is not the reliable one of a list,
\* and one that answers with bytes answers with the right ones.
LEMMA ReliableList ==
  ASSUME NEW l \in Seq(Location), NEW b \in Bytes, Reliable(l, b)
  PROVE  /\ l # <<>>
         /\ Fail \in Serves(Head(l)) => Reliable(Tail(l), b)
         /\ \A s \in Serves(Head(l)) \ {Fail} : s = b
<1>1. l # <<>>
  BY DEF Reliable
<1>2. Len(l) \in Nat /\ Len(l) >= 1 /\ Head(l) = l[1]
  BY <1>1
<1>3. /\ Tail(l) \in Seq(Location) /\ Len(Tail(l)) = Len(l) - 1
      /\ \A i \in 1..Len(Tail(l)) : Tail(l)[i] = l[i + 1] /\ i + 1 \in 1..Len(l)
  BY <1>1
<1>4. \A s \in Serves(Head(l)) \ {Fail} : s = b
  <2>1. 1 \in 1..Len(l)
    BY <1>2
  <2>2. Serves(l[1]) \subseteq {Fail, b}
    BY <2>1 DEF Reliable
  <2> QED
    BY <1>2, <2>2
<1>5. ASSUME Fail \in Serves(Head(l))
      PROVE  Reliable(Tail(l), b)
  <2>1. PICK i \in 1..Len(l) : Serves(l[i]) = {b}
    BY DEF Reliable
  <2>2. i # 1
    BY <1>2, <1>5, <2>1, Stage1Assumption
  <2>3. i - 1 \in 1..Len(Tail(l)) /\ Tail(l)[i - 1] = l[i]
    BY <1>2, <1>3, <2>2
  <2> QED
    BY <1>3, <2>1, <2>3 DEF Reliable
<1> QED
  BY <1>1, <1>4, <1>5

\* Dropping a candidate that is not the one leaves the others.
LEMMA PendingTail ==
  ASSUME NEW l \in Seq(Url), NEW u, \E j \in 1..Len(l) : l[j] = u,
         u # Head(l)
  PROVE  \E j \in 1..Len(Tail(l)) : Tail(l)[j] = u
<1>1. PICK j \in 1..Len(l) : l[j] = u
  OBVIOUS
<1>2. l # <<>> /\ j # 1
  BY <1>1
<1>3. j - 1 \in 1..Len(Tail(l)) /\ Tail(l)[j - 1] = l[j]
  BY <1>1, <1>2
<1> QED
  BY <1>1, <1>3

\* The reliable mirrors of the `url` list being worked on are still candidates.
Pending ==
  /\ pc \in AtPayload =>
       \A i \in 1..Len(ThePayload.url) :
         ReliablePayload(ThePayload, ThePayload.url[i]) =>
           \E j \in 1..Len(mirrors) : mirrors[j] = ThePayload.url[i]
  /\ pc \in {"manifest", "manifest.sig"} =>
       \A i \in 1..Len(TheManifest.url) :
         ReliableManifest(TheManifest, TheManifest.url[i]) =>
           \E j \in 1..Len(mirrors) : mirrors[j] = TheManifest.url[i]

\* The arguments that the reliable list of locations l serves will be accepted.
ArgsAhead(p, hash, l) ==
  \E a \in Bytes :
    /\ Reliable(l, a)
    /\ AsArgs(a) # Malformed
    /\ Reliable(SigLocations(substitute(p.args_url, hash), p.args_sig_url, hash),
                sign(p.ed25519.key, "stage2.args", a))

\* If the candidate in hand comes from a reliable mirror, what is left to fetch
\* for it will be found.
InHand ==
  /\ pc = "payload.sig" /\ ReliablePayload(ThePayload, Head(mirrors)) =>
       /\ Reliable(urls, sign(ThePayload.ed25519.key, "stage2.payload", blob))
       /\ ThePayload.args_url # None => ReliableArgs(ThePayload, sha256(blob))
  /\ pc = "args" /\ ReliablePayload(ThePayload, Head(mirrors)) =>
       ArgsAhead(ThePayload, sha256(blob), urls)
  /\ pc = "args.sig" /\ ReliablePayload(ThePayload, Head(mirrors)) =>
       /\ AsArgs(args_bytes) # Malformed
       /\ Reliable(urls, sign(ThePayload.ed25519.key, "stage2.args", args_bytes))
  /\ pc = "manifest.sig" /\ ReliableManifest(TheManifest, Head(mirrors)) =>
       Reliable(urls, sign(TheManifest.ed25519.key, "stage2.manifest", blob))

\* The key of the manifest pointer has passed validate.
KeyOk == pc \in {"manifest", "manifest.sig"} => ok_pubkey(TheManifest.ed25519)

MirrorInv == Pending /\ InHand /\ KeyOk

\* The candidate that is refused is not from a reliable mirror.
LEMMA RefusedPayload ==
  ASSUME TypeInv, MirrorInv, pc \in AtPayload, mirrors # <<>>, NextMirror,
         ~ ReliablePayload(ThePayload, Head(mirrors))
  PROVE  MirrorInv'
<1>1. /\ pc' = "payload" /\ mirrors' = Tail(mirrors) /\ doc' = doc
      /\ mirrors \in Seq(Url)
  BY DEF NextMirror, Loop, AtPayload, resolution, TypeInv, TypeOK
<1>2. ThePayload' = ThePayload
  BY <1>1 DEF ThePayload
<1>3. ASSUME NEW i \in 1..Len(ThePayload.url),
             ReliablePayload(ThePayload, ThePayload.url[i])
      PROVE  \E j \in 1..Len(Tail(mirrors)) : Tail(mirrors)[j] = ThePayload.url[i]
  <2>1. \E j \in 1..Len(mirrors) : mirrors[j] = ThePayload.url[i]
    BY <1>3 DEF MirrorInv, Pending
  <2>2. ThePayload.url[i] # Head(mirrors)
    BY <1>3
  <2> QED
    BY <1>1, <2>1, <2>2, PendingTail
<1> QED
  BY <1>1, <1>2, <1>3 DEF MirrorInv, Pending, InHand, KeyOk, AtPayload

\* Nor is the manifest that is refused.
LEMMA RefusedManifest ==
  ASSUME TypeInv, MirrorInv, pc \in {"manifest", "manifest.sig"},
         mirrors # <<>>, NextMirror,
         ~ ReliableManifest(TheManifest, Head(mirrors))
  PROVE  MirrorInv'
<1>1. /\ pc' = "manifest" /\ mirrors' = Tail(mirrors) /\ doc' = doc
      /\ mirrors \in Seq(Url)
  BY DEF NextMirror, Loop, resolution, TypeInv, TypeOK
<1>2. TheManifest' = TheManifest
  BY <1>1 DEF TheManifest
<1>3. ASSUME NEW i \in 1..Len(TheManifest.url),
             ReliableManifest(TheManifest, TheManifest.url[i])
      PROVE  \E j \in 1..Len(Tail(mirrors)) : Tail(mirrors)[j] = TheManifest.url[i]
  <2>1. \E j \in 1..Len(mirrors) : mirrors[j] = TheManifest.url[i]
    BY <1>3 DEF MirrorInv, Pending
  <2>2. TheManifest.url[i] # Head(mirrors)
    BY <1>3
  <2> QED
    BY <1>1, <2>1, <2>2, PendingTail
<1> QED
  BY <1>1, <1>2, <1>3 DEF MirrorInv, Pending, InHand, KeyOk, AtPayload

\* A reliable list serves a signature only if it is one, and that one verifies.
LEMMA SignatureAhead ==
  ASSUME NEW l \in Seq(Location), NEW k \in PubKey, ok_pubkey(k),
         NEW d \in Domain, NEW b \in Bytes, Reliable(l, sign(k.key, d, b))
  PROVE  /\ l # <<>>
         /\ Fail \in Serves(Head(l)) => Reliable(Tail(l), sign(k.key, d, b))
         /\ \A s \in Serves(Head(l)) \ {Fail} : verify(k, d, b, s)
<1>1. PICK i \in 1..Len(l) : Serves(l[i]) = {sign(k.key, d, b)}
  BY DEF Reliable
<1>2. l[i] \in Location /\ k.key \in Keys
  BY DEF PubKey
<1>3. sign(k.key, d, b) \in Bytes
  BY <1>1, <1>2, Stage1Assumption
<1>4. verify(k, d, b, sign(k.key, d, b))
  BY DEF ok_pubkey, verify
<1> QED
  BY <1>3, <1>4, ReliableList

\* The key of a payload without a pin is well formed.
LEMMA PayloadKeyOk ==
  ASSUME TypeInv, AuthInv, pc \in AtPayload, ThePayload.sha256 = None
  PROVE  ThePayload.ed25519 \in PubKey /\ ok_pubkey(ThePayload.ed25519)
BY EntryTypes DEF AuthInv, Admissible, admission

\* Away from the two loops nothing is claimed.
LEMMA MirrorElsewhere ==
  ASSUME pc' \notin {"manifest", "manifest.sig"} \cup AtPayload
  PROVE  MirrorInv'
BY DEF MirrorInv, Pending, InHand, KeyOk, AtPayload

\* A location of a list does not respond.
LEMMA MirrorListNext ==
  ASSUME TypeInv, AuthInv, MirrorInv, download_first_next
  PROVE  MirrorInv'
<1>1. /\ pc \in Lists /\ urls # <<>> /\ Fail \in Serves(Head(urls))
      /\ urls' = Tail(urls) /\ urls \in Seq(Location)
      /\ UNCHANGED <<pc, doc, mirrors, blob, args_bytes>>
  BY DEF download_first_next, resolution, TypeInv, TypeOK
<1>2. ThePayload' = ThePayload /\ TheManifest' = TheManifest
  BY <1>1 DEF ThePayload, TheManifest
<1>3. Pending' /\ KeyOk'
  BY <1>1, <1>2 DEF MirrorInv, Pending, KeyOk
<1>4. pc \in {"payload.sig", "args", "args.sig", "manifest.sig"} => blob \in Bytes
  BY DEF TypeInv, HasCandidate
<1>5. ASSUME pc \in {"payload.sig", "args", "args.sig"}
      PROVE  ThePayload.ed25519 \in PubKey /\ ok_pubkey(ThePayload.ed25519)
  BY <1>5, PayloadKeyOk DEF AuthInv, Admissible, AtPayload
<1>6. CASE pc = "payload.sig"
  <2>1. ASSUME ReliablePayload(ThePayload, Head(mirrors))
        PROVE  Reliable(Tail(urls),
                        sign(ThePayload.ed25519.key, "stage2.payload", blob))
    BY <1>1, <1>4, <1>5, <1>6, <2>1, SignatureAhead DEF MirrorInv, InHand, Domain
  <2> QED
    BY <1>1, <1>2, <1>3, <1>6, <2>1 DEF MirrorInv, InHand
<1>7. CASE pc = "args"
  <2>1. ASSUME ReliablePayload(ThePayload, Head(mirrors))
        PROVE  ArgsAhead(ThePayload, sha256(blob), Tail(urls))
    BY <1>1, <1>7, <2>1, ReliableList DEF MirrorInv, InHand, ArgsAhead
  <2> QED
    BY <1>1, <1>2, <1>3, <1>7, <2>1 DEF MirrorInv, InHand
<1>8. CASE pc = "args.sig"
  <2>1. ASSUME ReliablePayload(ThePayload, Head(mirrors))
        PROVE  Reliable(Tail(urls),
                        sign(ThePayload.ed25519.key, "stage2.args", args_bytes))
    <3>1. args_bytes \in Bytes
      BY <1>8 DEF TypeInv, HasCandidate
    <3> QED
      BY <1>1, <1>5, <1>8, <2>1, <3>1, SignatureAhead DEF MirrorInv, InHand, Domain
  <2> QED
    BY <1>1, <1>2, <1>3, <1>8, <2>1 DEF MirrorInv, InHand
<1>9. CASE pc = "manifest.sig"
  <2>1. ASSUME ReliableManifest(TheManifest, Head(mirrors))
        PROVE  Reliable(Tail(urls),
                        sign(TheManifest.ed25519.key, "stage2.manifest", blob))
    <3>1. TheManifest.ed25519 \in PubKey /\ ok_pubkey(TheManifest.ed25519)
      BY <1>9, EntryTypes DEF AtManifest, MirrorInv, KeyOk
    <3> QED
      BY <1>1, <1>4, <1>9, <2>1, <3>1, SignatureAhead DEF MirrorInv, InHand, Domain
  <2> QED
    BY <1>1, <1>2, <1>3, <1>9, <2>1 DEF MirrorInv, InHand
<1> QED
  BY <1>1, <1>6, <1>7, <1>8, <1>9 DEF Lists

\* No location of a list responded: the candidate was not from a reliable mirror.
LEMMA MirrorListEnd ==
  ASSUME TypeInv, AuthInv, MirrorInv, download_first_err
  PROVE  MirrorInv'
<1>1. pc \in Lists /\ urls = <<>> /\ NextMirror /\ mirrors # <<>>
  BY DEF download_first_err, Lists, TypeInv, HasCandidate
<1>2. \A b : ~ Reliable(urls, b)
  BY <1>1 DEF Reliable
<1>3. CASE pc = "manifest.sig"
  BY <1>1, <1>2, <1>3, RefusedManifest DEF MirrorInv, InHand
<1>4. CASE pc # "manifest.sig"
  <2>1. ~ ReliablePayload(ThePayload, Head(mirrors))
    BY <1>1, <1>2, <1>4 DEF MirrorInv, InHand, ArgsAhead, Lists
  <2> QED
    BY <1>1, <1>4, <2>1, RefusedPayload DEF Lists, AtPayload
<1> QED
  BY <1>3, <1>4

\* A mirror that does not respond is not reliable.
LEMMA MirrorUnavailable ==
  ASSUME TypeInv, MirrorInv, candidate_unavailable
  PROVE  MirrorInv'
<1>1. /\ pc \in {"manifest", "payload"} /\ mirrors # <<>> /\ NextMirror
      /\ Fail \in Serves(At(Head(mirrors)))
  BY DEF candidate_unavailable
<1>2. \A b \in Bytes : Serves(At(Head(mirrors))) # {b}
  BY <1>1, Stage1Assumption
<1>3. CASE pc = "manifest"
  BY <1>1, <1>2, <1>3, RefusedManifest DEF ReliableManifest
<1>4. CASE pc = "payload"
  BY <1>1, <1>2, <1>4, RefusedPayload DEF ReliablePayload, AtPayload
<1> QED
  BY <1>1, <1>3, <1>4

\* A round begins with every mirror of its list.
LEMMA MirrorResolve ==
  ASSUME TypeInv, resolve_payload, ~ Err
  PROVE  MirrorInv'
<1> DEFINE manifest == /\ ArchConfigParses(doc.entry) /\ IsManifest(doc.entry)
                       /\ validate(TheManifest, "Stage1")
<1>1. /\ pc' = IF manifest THEN "manifest" ELSE "payload"
      /\ mirrors' = IF manifest THEN TheManifest.url ELSE ThePayload.url
      /\ doc' = doc
  BY DEF resolve_payload, resolution
<1>2. ThePayload' = ThePayload /\ TheManifest' = TheManifest
  BY <1>1 DEF ThePayload, TheManifest
<1>3. manifest => ok_pubkey(TheManifest.ed25519)
  BY DEF validate
<1> HIDE DEF manifest
<1> QED
  BY <1>1, <1>2, <1>3 DEF MirrorInv, Pending, InHand, KeyOk, AtPayload

\* The manifest loop.
LEMMA MirrorManifestStep ==
  ASSUME TypeInv, MirrorInv, try_fetch_manifest \/ verify_manifest
  PROVE  MirrorInv'
<1>1. CASE try_fetch_manifest
  <2>1. PICK b \in Serves(At(Head(mirrors))) \ {Fail} :
          IF PinHolds(TheManifest, b)
          THEN FetchSignature(b, TheManifest.sig_url, "manifest.sig")
          ELSE NextMirror
    BY <1>1 DEF try_fetch_manifest
  <2>2. pc = "manifest" /\ mirrors # <<>>
    BY <1>1 DEF try_fetch_manifest
  <2>3. ASSUME ReliableManifest(TheManifest, Head(mirrors))
        PROVE  /\ PinHolds(TheManifest, b)
               /\ Reliable(SigLocations(<<At(Head(mirrors))>>,
                                        TheManifest.sig_url, sha256(b)),
                           sign(TheManifest.ed25519.key, "stage2.manifest", b))
    BY <2>1, <2>3 DEF ReliableManifest, PinHolds
  <2>4. CASE PinHolds(TheManifest, b)
    <3>1. /\ pc' = "manifest.sig" /\ doc' = doc /\ mirrors' = mirrors /\ blob' = b
          /\ urls' = SigLocations(<<At(Head(mirrors))>>, TheManifest.sig_url,
                                  sha256(b))
      BY <2>1, <2>4 DEF FetchSignature, resolution, SigLocations
    <3>2. TheManifest' = TheManifest
      BY <3>1 DEF TheManifest
    <3> QED
      BY <2>2, <2>3, <3>1, <3>2 DEF MirrorInv, Pending, InHand, KeyOk, AtPayload
  <2>5. CASE ~ PinHolds(TheManifest, b)
    BY <2>1, <2>2, <2>3, <2>5, RefusedManifest
  <2> QED
    BY <2>4, <2>5
<1>2. CASE verify_manifest
  <2>1. PICK s \in Serves(Head(urls)) \ {Fail} :
          IF verify(TheManifest.ed25519, "stage2.manifest", blob, s)
          THEN Goto("follow") ELSE NextMirror
    BY <1>2 DEF verify_manifest
  <2>2. pc = "manifest.sig" /\ blob \in Bytes /\ mirrors # <<>>
        /\ urls \in Seq(Location)
    BY <1>2 DEF verify_manifest, TypeInv, TypeOK, HasCandidate
  <2>3. TheManifest.ed25519 \in PubKey /\ ok_pubkey(TheManifest.ed25519)
    BY <2>2, EntryTypes DEF AtManifest, MirrorInv, KeyOk
  <2>4. CASE verify(TheManifest.ed25519, "stage2.manifest", blob, s)
    BY <2>1, <2>4, MirrorElsewhere DEF Goto, AtPayload
  <2>5. CASE ~ verify(TheManifest.ed25519, "stage2.manifest", blob, s)
    <3>1. ~ ReliableManifest(TheManifest, Head(mirrors))
      BY <2>1, <2>2, <2>3, <2>5, SignatureAhead DEF MirrorInv, InHand, Domain
    <3> QED
      BY <2>1, <2>2, <2>5, <3>1, RefusedManifest
  <2> QED
    BY <2>4, <2>5
<1> QED
  BY <1>1, <1>2

\* The payload loop: a candidate and its signature.
LEMMA MirrorPayloadStep ==
  ASSUME TypeInv, AuthInv, MirrorInv, admit_from \/ verify_payload
  PROVE  MirrorInv'
<1>0. ASSUME NEW b, NEW v, Admit(b, v)
      PROVE  MirrorInv'
  BY <1>0, MirrorElsewhere DEF Admit, stage2, AtPayload
<1>1. CASE admit_from
  <2>1. PICK b \in Serves(At(Head(mirrors))) \ {Fail} :
          IF ThePayload.sha256 # None
          THEN IF eq_ignore_ascii_case(ThePayload.sha256, sha256(b))
               THEN Admit(b, None) ELSE NextMirror
          ELSE FetchSignature(b, ThePayload.sig_url, "payload.sig")
    BY <1>1 DEF admit_from
  <2>2. pc = "payload" /\ mirrors # <<>>
    BY <1>1 DEF admit_from
  <2>3. ASSUME ReliablePayload(ThePayload, Head(mirrors))
        PROVE  IF ThePayload.sha256 # None
               THEN eq_ignore_ascii_case(ThePayload.sha256, sha256(b))
               ELSE /\ Reliable(SigLocations(<<At(Head(mirrors))>>,
                                             ThePayload.sig_url, sha256(b)),
                                sign(ThePayload.ed25519.key, "stage2.payload", b))
                    /\ ThePayload.args_url # None =>
                         ReliableArgs(ThePayload, sha256(b))
    BY <2>1, <2>3 DEF ReliablePayload
  <2>4. CASE ThePayload.sha256 # None
    BY <1>0, <2>1, <2>2, <2>3, <2>4, RefusedPayload DEF AtPayload
  <2>5. CASE ThePayload.sha256 = None
    <3>1. /\ pc' = "payload.sig" /\ doc' = doc /\ mirrors' = mirrors /\ blob' = b
          /\ urls' = SigLocations(<<At(Head(mirrors))>>, ThePayload.sig_url,
                                  sha256(b))
      BY <2>1, <2>5 DEF FetchSignature, resolution, SigLocations
    <3>2. ThePayload' = ThePayload
      BY <3>1 DEF ThePayload
    <3>3. Pending' /\ KeyOk'
      BY <2>2, <3>1, <3>2 DEF MirrorInv, Pending, KeyOk, AtPayload
    <3>4. InHand'
      BY <2>3, <2>5, <3>1, <3>2 DEF InHand
    <3> QED
      BY <3>3, <3>4 DEF MirrorInv
  <2> QED
    BY <2>4, <2>5
<1>2. CASE verify_payload
  <2>1. PICK s \in Serves(Head(urls)) \ {Fail} :
          IF ~ verify(ThePayload.ed25519, "stage2.payload", blob, s)
          THEN NextMirror
          ELSE IF ThePayload.args_url = None
          THEN Admit(blob, None)
          ELSE /\ pc' = "args"
               /\ urls' = substitute(ThePayload.args_url, sha256(blob))
               /\ UNCHANGED <<resolution, mirrors, blob>>
    BY <1>2 DEF verify_payload
  <2>2. pc = "payload.sig" /\ blob \in Bytes /\ mirrors # <<>>
        /\ urls \in Seq(Location)
    BY <1>2 DEF verify_payload, TypeInv, TypeOK, HasCandidate
  <2>3. ThePayload.ed25519 \in PubKey /\ ok_pubkey(ThePayload.ed25519)
    BY <2>2, PayloadKeyOk DEF AuthInv, Admissible, AtPayload
  <2>4. CASE ~ verify(ThePayload.ed25519, "stage2.payload", blob, s)
    <3>1. ~ ReliablePayload(ThePayload, Head(mirrors))
      BY <2>1, <2>2, <2>3, <2>4, SignatureAhead DEF MirrorInv, InHand, Domain
    <3> QED
      BY <2>1, <2>2, <2>4, <3>1, RefusedPayload DEF AtPayload
  <2>5. CASE Admit(blob, None)
    BY <1>0, <2>5
  <2>6. CASE /\ ThePayload.args_url # None /\ pc' = "args"
             /\ urls' = substitute(ThePayload.args_url, sha256(blob))
             /\ UNCHANGED <<resolution, mirrors, blob>>
    <3>1. ThePayload' = ThePayload
      BY <2>6 DEF resolution, ThePayload
    <3>2. Pending' /\ KeyOk'
      BY <2>2, <2>6, <3>1 DEF MirrorInv, Pending, KeyOk, AtPayload
    <3>3. ASSUME ReliablePayload(ThePayload, Head(mirrors))
          PROVE  ArgsAhead(ThePayload, sha256(blob), urls')
      BY <2>2, <2>6, <3>3 DEF MirrorInv, InHand, ReliableArgs, ArgsAhead
    <3>4. InHand'
      BY <2>6, <3>1, <3>3 DEF InHand
    <3> QED
      BY <3>2, <3>4 DEF MirrorInv
  <2> QED
    BY <2>1, <2>4, <2>5, <2>6
<1> QED
  BY <1>1, <1>2

\* The payload loop: signed arguments.
LEMMA MirrorArgsStep ==
  ASSUME TypeInv, AuthInv, MirrorInv, fetch_signed_args \/ verify_signed_args
  PROVE  MirrorInv'
<1>1. CASE fetch_signed_args
  <2>1. PICK b \in Serves(Head(urls)) \ {Fail} :
          /\ args_bytes' = b
          /\ urls' = IF ThePayload.args_sig_url # None
                     THEN substitute(ThePayload.args_sig_url, sha256(blob))
                     ELSE DotSig(substitute(ThePayload.args_url, sha256(blob)))
    BY <1>1 DEF fetch_signed_args
  <2>2. /\ pc = "args" /\ pc' = "args.sig" /\ urls \in Seq(Location)
        /\ UNCHANGED <<doc, mirrors, blob>>
    BY <1>1 DEF fetch_signed_args, resolution, TypeInv, TypeOK
  <2>3. ThePayload' = ThePayload
    BY <2>2 DEF ThePayload
  <2>4. ASSUME ReliablePayload(ThePayload, Head(mirrors))
        PROVE  /\ AsArgs(b) # Malformed
               /\ Reliable(urls', sign(ThePayload.ed25519.key, "stage2.args", b))
    <3>1. PICK a \in Bytes :
            /\ Reliable(urls, a)
            /\ AsArgs(a) # Malformed
            /\ Reliable(SigLocations(substitute(ThePayload.args_url, sha256(blob)),
                                     ThePayload.args_sig_url, sha256(blob)),
                        sign(ThePayload.ed25519.key, "stage2.args", a))
      BY <2>2, <2>4 DEF MirrorInv, InHand, ArgsAhead
    <3>2. b = a
      BY <2>1, <2>2, <3>1, ReliableList
    <3> QED
      BY <2>1, <3>1, <3>2 DEF SigLocations
  <2>5. Pending' /\ KeyOk'
    BY <2>2, <2>3 DEF MirrorInv, Pending, KeyOk, AtPayload
  <2>6. InHand'
    BY <2>1, <2>2, <2>3, <2>4 DEF InHand
  <2> QED
    BY <2>5, <2>6 DEF MirrorInv
<1>2. CASE verify_signed_args
  <2>1. PICK s \in Serves(Head(urls)) \ {Fail} :
          IF verify(ThePayload.ed25519, "stage2.args", args_bytes, s)
             /\ AsArgs(args_bytes) # Malformed
          THEN Admit(blob, AsArgs(args_bytes)) ELSE NextMirror
    BY <1>2 DEF verify_signed_args
  <2>2. /\ pc = "args.sig" /\ args_bytes \in Bytes /\ mirrors # <<>>
        /\ urls \in Seq(Location)
    BY <1>2 DEF verify_signed_args, TypeInv, TypeOK, HasCandidate
  <2>3. ThePayload.ed25519 \in PubKey /\ ok_pubkey(ThePayload.ed25519)
    BY <2>2, PayloadKeyOk DEF AuthInv, Admissible, AtPayload
  <2>4. CASE Admit(blob, AsArgs(args_bytes))
    BY <2>4, MirrorElsewhere DEF Admit, stage2, AtPayload
  <2>5. CASE ~ Admit(blob, AsArgs(args_bytes))
    <3>1. ~ ReliablePayload(ThePayload, Head(mirrors))
      BY <2>1, <2>2, <2>3, <2>5, SignatureAhead DEF MirrorInv, InHand, Domain
    <3> QED
      BY <2>1, <2>2, <2>5, <3>1, RefusedPayload DEF AtPayload
  <2> QED
    BY <2>4, <2>5
<1> QED
  BY <1>1, <1>2

\* Every step of stage1 keeps the invariant of the mirrors.
LEMMA MirrorStep == TypeInv /\ AuthInv /\ MirrorInv /\ [Next]_vars => MirrorInv'
<1> SUFFICES ASSUME TypeInv, AuthInv, MirrorInv, [Next]_vars
             PROVE  MirrorInv'
  OBVIOUS
<1>1. CASE UNCHANGED vars
  <2>1. ThePayload' = ThePayload /\ TheManifest' = TheManifest
    BY <1>1 DEF vars, ThePayload, TheManifest
  <2> QED
    BY <1>1, <2>1 DEF vars, MirrorInv, Pending, InHand, KeyOk
<1>2. CASE Next /\ pc \notin Early
  BY <1>2, LateFrame, MirrorElsewhere DEF Early, AtManifest
<1>3. CASE Err
  BY <1>3, MirrorElsewhere DEF Err, AtPayload
<1>4. CASE Next /\ pc \in Waiting
  <2>1. pc \in Early /\ pc \notin AtManifest \cup AtPayload \cup {"resolve"}
    BY <1>4 DEF Early, Waiting, Endpoints, AtManifest, AtPayload
  <2>2. pc' \in {"poweroff", "exited", "resolve"} \cup Waiting
    BY <1>4, <2>1, EarlyEffects
       DEF EarlyEffect, Received, follow_manifest, AtManifest
  <2> QED
    BY <2>2, MirrorElsewhere DEF Waiting, Endpoints, AtPayload
<1>5. CASE Next /\ pc \in {"resolve"} \cup AtManifest \cup AtPayload /\ ~ Err
  <2>1. \/ download_first_next \/ download_first_err
        \/ candidate_unavailable
        \/ resolve_payload \/ fetch_manifest \/ admit_payload
    BY <1>5 DEF Next, stdin_config, attest_diagnostic, fetch_cloud_metadata,
       try_fetch_ec2_token, try_fetch_ec2, try_fetch_gcp, try_fetch_azure,
       try_fetch, candidates_err, generate_pre_execution_attestation,
       extend_pcrs, make_memfds, make_memfd_exe, write_exe, seal_exe,
       make_memfd_cfg, write_cfg, rewind_cfg, wire_stdin, execute_binary,
       poweroff, AtManifest, AtPayload
  <2>2. CASE follow_manifest
    BY <1>5, <2>2, MirrorElsewhere, FollowLayers DEF AtPayload
  <2> QED
    BY <1>5, <2>1, <2>2, MirrorListNext, MirrorListEnd, MirrorUnavailable,
       MirrorResolve, MirrorManifestStep, MirrorPayloadStep, MirrorArgsStep
       DEF fetch_manifest, admit_payload
<1> QED
  BY <1>1, <1>2, <1>3, <1>4, <1>5 DEF Early, Waiting

\* A mirror that always serves bytes which the document admits, with reliable
\* locations for their signature and arguments, is not passed over: as long as
\* the loop is between candidates it is still one of them, whatever dead,
\* stale or wrong mirrors stand before it in the list.
THEOREM ReliableMirrorIsEnough == Spec => []ReliableMirrorIsReached
<1>1. Init => MirrorInv
  BY DEF Init, MirrorInv, Pending, InHand, KeyOk, AtPayload
<1>2. MirrorInv => ReliableMirrorIsReached
  BY DEF MirrorInv, Pending, ReliableMirrorIsReached, AtPayload
<1> QED
  BY <1>1, <1>2, TypeInit, TypeStep, AuthInit, AuthStep, MirrorStep, PTL DEF Spec
=============================================================================
