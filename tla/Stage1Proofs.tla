---------------------------- MODULE Stage1Proofs ----------------------------
(***************************************************************************)
(* Proofs about stage1, for every set of documents, keys, mirrors and      *)
(* faults that satisfies the assumptions of Metadata and Stage1.           *)
(***************************************************************************)
EXTENDS Stage1Properties, TLAPS

-----------------------------------------------------------------------------
(* What the operators return.                                              *)

\* A parsed manifest pointer has its required fields, and None for every
\* optional one that is missing.  (ManifestRef's Deserialize)
LEMMA ManifestFields ==
  ASSUME NEW m \in Maybe(ManifestRef), ManifestParses(m)
  PROVE  /\ m \in ManifestRef
         /\ Fields(m).url = m.url /\ Fields(m).url \in Seq(Url)
         /\ Fields(m).ed25519 = m.ed25519 /\ Fields(m).ed25519 \in PubKey
         /\ Fields(m).sig_url \in Seq(Url) \cup {None}
         /\ Fields(m).sha256 \in Hex \cup {None}
<1>1. m \in ManifestRef
  BY DEF Maybe, ManifestParses, Given
<1>2. Fields(m).url = m.url /\ Fields(m).ed25519 = m.ed25519
  BY <1>1 DEF Fields, ManifestRef, ManifestParses, Given
<1>3. m.url \in Seq(Url) /\ m.ed25519 \in PubKey
  BY <1>1 DEF ManifestRef, ManifestParses, Given, Maybe, UrlList
<1>4. /\ Fields(m).sig_url = IF m.sig_url = Absent THEN None ELSE m.sig_url
      /\ Fields(m).sha256 = IF m.sha256 = Absent THEN None ELSE m.sha256
  BY <1>1 DEF Fields, ManifestRef
<1>5. m.sig_url \in Maybe(Seq(Url)) /\ m.sha256 \in Maybe(Hex)
  BY <1>1 DEF ManifestRef, UrlList
<1> QED
  BY <1>1, <1>2, <1>3, <1>4, <1>5 DEF Maybe

\* The same for a payload.  (Payload's Deserialize)
LEMMA PayloadFields ==
  ASSUME NEW p \in Maybe(Payload), PayloadParses(p)
  PROVE  /\ p \in Payload
         /\ Fields(p).url = p.url /\ Fields(p).url \in Seq(Url)
         /\ Fields(p).sha256 \in Hex \cup {None}
         /\ Fields(p).ed25519 \in PubKey \cup {None}
         /\ Fields(p).sig_url \in Seq(Url) \cup {None}
         /\ Fields(p).args \in Seq(Arg) \cup {None}
         /\ Fields(p).args_url \in Seq(Url) \cup {None}
         /\ Fields(p).args_sig_url \in Seq(Url) \cup {None}
<1>1. p \in Payload
  BY DEF Maybe, PayloadParses, Given
<1>2. Fields(p).url = p.url /\ p.url \in Seq(Url)
  BY <1>1 DEF Fields, Payload, PayloadParses, Given, Maybe, UrlList
<1>3. \A f \in DOMAIN p : Fields(p)[f] = IF p[f] = Absent THEN None ELSE p[f]
  BY DEF Fields
<1>4. DOMAIN p = {"url", "sha256", "ed25519", "sig_url", "args", "args_url",
                  "args_sig_url"}
  BY <1>1 DEF Payload
<1>5. /\ p.sha256 \in Maybe(Hex) /\ p.ed25519 \in Maybe(PubKey)
      /\ p.sig_url \in Maybe(Seq(Url)) /\ p.args \in Maybe(Seq(Arg))
      /\ p.args_url \in Maybe(Seq(Url)) /\ p.args_sig_url \in Maybe(Seq(Url))
  BY <1>1 DEF Payload, UrlList
<1> QED
  BY <1>1, <1>2, <1>3, <1>4, <1>5 DEF Maybe

\* The digest of downloaded bytes.
LEMMA DigestType ==
  ASSUME NEW b \in Bytes
  PROVE  sha256(b) \in Hex /\ sha256(b) \in Digest /\ sha256(b).of = b
BY DEF sha256, Hex, Digest

\* ".sig" appended to locations.
LEMMA DotSigType ==
  ASSUME NEW s \in Seq(Location)
  PROVE  DotSig(s) \in Seq(Location)
<1>1. \A l \in Location : [l EXCEPT !.sig = TRUE] \in Location
  BY DEF Location
<1> QED
  BY <1>1 DEF DotSig

\* The locations that substitute and DotSig produce.
LEMMA Locations ==
  ASSUME NEW list \in Seq(Url), NEW b \in Bytes
  PROVE  /\ substitute(list, sha256(b)) \in Seq(Location)
         /\ DotSig(substitute(list, sha256(b))) \in Seq(Location)
<1>1. \A u \in Url : At(u) \in Location
  BY DEF At, Location
<1>2. sha256(b) \in Digest
  BY DigestType
<1>3. \A i \in 1..Len(list) : list[i] \in Url
  OBVIOUS
<1>4. \A i \in 1..Len(list) :
        [At(list[i]) EXCEPT !.digest = IF list[i].template THEN sha256(b) ELSE None]
          \in Location
  BY <1>1, <1>2, <1>3 DEF At, Location
<1>5. substitute(list, sha256(b)) \in Seq(Location)
  BY <1>4 DEF substitute
<1> QED
  BY <1>5, DotSigType

\* A candidate URL, and the default place of its signature.
LEMMA OneLocation ==
  ASSUME NEW u \in Url
  PROVE  At(u) \in Location /\ DotSig(<<At(u)>>) \in Seq(Location)
<1>1. At(u) \in Location
  BY DEF At, Location
<1>2. <<At(u)>> \in Seq(Location)
  BY <1>1
<1> QED
  BY <1>1, <1>2, DotSigType

\* A merged document is a document.
LEMMA MergeType ==
  ASSUME NEW d \in UserData, Given(d.entry),
         NEW o \in UserData \cup {Scalar}
  PROVE  deep_merge(RemovePointer(d), o) \in UserData
<1> DEFINE r == RemovePointer(d)
<1>1. r \in UserData
  BY DEF RemovePointer, UserData, Maybe, Given, Entry
<1>2. CASE o = Scalar
  BY <1>2 DEF deep_merge, UserData, Maybe
<1>3. CASE o # Scalar
  <2>1. o \in UserData
    BY <1>3
  <2>2. \A S : \A b, q \in Maybe(S) : Overlay(b, q) \in Maybe(S)
    BY DEF Overlay
  <2>3. \A b, q \in Maybe(Payload) : MergeLeaves(b, q) \in Maybe(Payload)
    <3> SUFFICES ASSUME NEW b \in Maybe(Payload), NEW q \in Maybe(Payload)
                 PROVE  MergeLeaves(b, q) \in Maybe(Payload)
      OBVIOUS
    <3>1. CASE Given(b) /\ Given(q)
      <4>1. b \in Payload /\ q \in Payload
        BY <3>1 DEF Given, Maybe
      <4>2. [f \in DOMAIN b |-> Overlay(b[f], q[f])] \in Payload
        BY <4>1, <2>2 DEF Payload
      <4> QED
        BY <3>1, <4>2 DEF MergeLeaves, Maybe
    <3> QED
      BY <3>1, <2>2 DEF MergeLeaves
  <2>4. \A b, q \in Maybe(ManifestRef) : MergeLeaves(b, q) \in Maybe(ManifestRef)
    <3> SUFFICES ASSUME NEW b \in Maybe(ManifestRef), NEW q \in Maybe(ManifestRef)
                 PROVE  MergeLeaves(b, q) \in Maybe(ManifestRef)
      OBVIOUS
    <3>1. CASE Given(b) /\ Given(q)
      <4>1. b \in ManifestRef /\ q \in ManifestRef
        BY <3>1 DEF Given, Maybe
      <4>2. [f \in DOMAIN b |-> Overlay(b[f], q[f])] \in ManifestRef
        BY <4>1, <2>2 DEF ManifestRef
      <4> QED
        BY <3>1, <4>2 DEF MergeLeaves, Maybe
    <3> QED
      BY <3>1, <2>2 DEF MergeLeaves
  <2>5. \A b, q \in Maybe(Entry) : MergeEntry(b, q) \in Maybe(Entry)
    <3> SUFFICES ASSUME NEW b \in Maybe(Entry), NEW q \in Maybe(Entry)
                 PROVE  MergeEntry(b, q) \in Maybe(Entry)
      OBVIOUS
    <3>1. CASE Given(b) /\ Given(q)
      <4>1. b \in Entry /\ q \in Entry
        BY <3>1 DEF Given, Maybe
      <4>2. MergeEntry(b, q) \in Entry
        BY <3>1, <4>1, <2>2, <2>3, <2>4 DEF MergeEntry, Entry
      <4> QED
        BY <4>2 DEF Maybe
    <3> QED
      BY <3>1, <2>2 DEF MergeEntry
  <2> QED
    BY <1>1, <1>3, <2>1, <2>2, <2>5 DEF deep_merge, UserData
<1> QED
  BY <1>2, <1>3

-----------------------------------------------------------------------------
(* Types.  TypeOK is not inductive: that a step finds what it needs depends *)
(* on where stage1 is.                                                      *)

AtManifest == {"manifest", "manifest.sig", "follow"}
AtPayload == {"payload", "payload.sig", "args", "args.sig"}
Measuring == {"quote", "extend"}
Executing == {"exe", "exe write", "exe seal", "cfg", "cfg write", "lseek",
              "dup2", "execveat", "running"}

\* The document is there, its entry is of the variant being worked on.
HasEntry ==
  /\ pc \in {"resolve"} \cup AtManifest \cup AtPayload =>
       raw_json \in UserData /\ doc \in UserData
  /\ pc \in AtManifest =>
       Given(doc.entry) /\ ManifestParses(doc.entry.manifest)
  /\ pc \in AtPayload =>
       Given(doc.entry) /\ PayloadParses(doc.entry.payload)
  /\ pc \in {"args", "args.sig"} => ThePayload.args_url # None

\* A candidate is in hand while its signature or arguments are fetched.
HasCandidate ==
  /\ pc \in {"manifest.sig", "follow", "payload.sig", "args", "args.sig"} =>
       blob \in Bytes /\ mirrors # <<>>
  /\ pc = "args.sig" => args_bytes \in Bytes

\* Admission has left a payload, and each memfd exists once it is made.
HasPayload ==
  /\ pc \in Measuring \cup Executing => binary \in Bytes /\ stdin \in UserData
  /\ pc \in {"exe write", "exe seal"} => exe \in Memfd(Bytes)
  /\ pc \in {"cfg write", "lseek"} => cfg \in Memfd(UserData)

TypeInv == TypeOK /\ HasEntry /\ HasCandidate /\ HasPayload

\* The fields of the entry being worked on.
LEMMA EntryTypes ==
  ASSUME TypeInv
  PROVE  /\ pc \in AtManifest =>
              /\ doc.entry \in Entry
              /\ TheManifest.url \in Seq(Url)
              /\ TheManifest.ed25519 \in PubKey
              /\ TheManifest.sig_url \in Seq(Url) \cup {None}
              /\ TheManifest.sha256 \in Hex \cup {None}
         /\ pc \in AtPayload =>
              /\ doc.entry \in Entry
              /\ ThePayload.url \in Seq(Url)
              /\ ThePayload.sha256 \in Hex \cup {None}
              /\ ThePayload.ed25519 \in PubKey \cup {None}
              /\ ThePayload.sig_url \in Seq(Url) \cup {None}
              /\ ThePayload.args \in Seq(Arg) \cup {None}
              /\ ThePayload.args_url \in Seq(Url) \cup {None}
              /\ ThePayload.args_sig_url \in Seq(Url) \cup {None}
<1>1. ASSUME pc \in AtManifest
      PROVE  doc.entry \in Entry /\ doc.entry.manifest \in Maybe(ManifestRef)
  BY <1>1 DEF TypeInv, HasEntry, UserData, Entry, Maybe, Given
<1>2. ASSUME pc \in AtPayload
      PROVE  doc.entry \in Entry /\ doc.entry.payload \in Maybe(Payload)
  BY <1>2 DEF TypeInv, HasEntry, UserData, Entry, Maybe, Given
<1> QED
  BY <1>1, <1>2, ManifestFields, PayloadFields
     DEF TypeInv, HasEntry, TheManifest, ThePayload

\* Bytes that a request brings are bytes.
LEMMA ServedBytes ==
  ASSUME NEW l \in Location, NEW b \in Serves(l) \ {Fail}
  PROVE  b \in Bytes
BY Stage1Assumption

\* The locations the next request may go to.
LEMMA HeadLocations ==
  ASSUME TypeInv
  PROVE  /\ mirrors # <<>> => Head(mirrors) \in Url /\ At(Head(mirrors)) \in Location
         /\ urls # <<>> => Head(urls) \in Location
<1>1. mirrors # <<>> => Head(mirrors) \in Url
  BY DEF TypeInv, TypeOK
<1>2. urls # <<>> => Head(urls) \in Location
  BY DEF TypeInv, TypeOK
<1> QED
  BY <1>1, <1>2, OneLocation

\* The types hold when stage1 starts.
LEMMA TypeInit == Init => TypeInv
BY DEF Init, TypeInv, TypeOK, PC, HasEntry, HasCandidate, HasPayload,
       AtManifest, AtPayload, Measuring, Executing

\* A step that only moves pc to where nothing is required keeps the types.
LEMMA GotoType ==
  ASSUME TypeInv, NEW l \in PC, Goto(l),
         l \notin {"resolve"} \cup AtManifest \cup AtPayload
                  \cup Measuring \cup Executing
  PROVE  TypeInv'
BY DEF TypeInv, TypeOK, Goto, source, resolution, download, admitted, tpm,
       memfds, HasEntry, HasCandidate, HasPayload, AtManifest, AtPayload,
       Measuring, Executing

\* An early return of main_inner keeps the types.
LEMMA ErrType ==
  ASSUME TypeInv, Err
  PROVE  TypeInv'
<1>1. Goto("poweroff")
  BY DEF Err, Goto
<1> QED
  BY <1>1, GotoType DEF PC, AtManifest, AtPayload, Measuring, Executing

\* A document arrives.
LEMMA ReceivedType ==
  ASSUME TypeInv, NEW d \in UserData, Received(d)
  PROVE  TypeInv'
BY DEF TypeInv, TypeOK, PC, Received, download, admitted, tpm, memfds,
       HasEntry, HasCandidate, HasPayload, AtManifest, AtPayload, Measuring,
       Executing

\* A candidate is refused.
LEMMA NextMirrorType ==
  ASSUME TypeInv, NextMirror, mirrors # <<>>,
         pc \in {"manifest", "manifest.sig"} \cup AtPayload
  PROVE  TypeInv'
<1>1. Tail(mirrors) \in Seq(Url)
  BY DEF TypeInv, TypeOK
<1>2. \/ pc \in AtManifest /\ pc' = "manifest"
      \/ pc \in AtPayload /\ pc' = "payload"
  BY DEF NextMirror, Loop, AtManifest, AtPayload
<1>3. TypeOK'
  <2>1. pc' \in PC
    BY <1>2 DEF PC
  <2> QED
    BY <1>1, <2>1 DEF TypeInv, TypeOK, NextMirror, source, resolution,
       admitted, tpm, memfds
<1>4. HasEntry'
  BY <1>2 DEF TypeInv, HasEntry, NextMirror, source, resolution, AtManifest,
       AtPayload
<1>5. HasCandidate' /\ HasPayload'
  BY <1>2 DEF HasCandidate, HasPayload, Measuring, Executing
<1> QED
  BY <1>3, <1>4, <1>5 DEF TypeInv

\* The document that stage1 writes to stdin is a document.
LEMMA StdinType ==
  ASSUME NEW d \in UserData, NEW raw \in UserData, Given(d.entry),
         NEW h \in Seq(ManifestRef)
  PROVE  StdinFor(d, raw, h) \in UserData
BY DEF StdinFor, set_resolved_manifests, UserData, Maybe, Given, Entry

\* A payload is admitted.
LEMMA AdmitType ==
  ASSUME TypeInv, pc \in AtPayload, NEW b \in Bytes,
         NEW signed_args \in Seq(Arg) \cup {None}, Admit(b, signed_args)
  PROVE  TypeInv'
<1>1. Argv(ThePayload, signed_args) \in Seq(Arg)
  BY EntryTypes DEF Argv
<1>2. StdinFor(doc, raw_json, history) \in UserData
  BY StdinType DEF TypeInv, TypeOK, HasEntry
<1>3. pc' \in {"quote", "exe"}
  BY DEF Admit, stage2
<1>4. TypeOK'
  <2>1. pc' \in PC
    BY <1>3 DEF PC
  <2> QED
    BY <1>1, <1>2, <2>1 DEF TypeInv, TypeOK, Admit, source, resolution, tpm,
       memfds
<1>5. HasEntry' /\ HasCandidate'
  BY <1>3 DEF HasEntry, HasCandidate, AtManifest, AtPayload
<1>6. HasPayload'
  BY <1>2, <1>3 DEF HasPayload, Admit
<1> QED
  BY <1>4, <1>5, <1>6 DEF TypeInv

\* A candidate is downloaded and its signature looked for.
LEMMA FetchSignatureType ==
  ASSUME TypeInv, mirrors # <<>>, NEW b \in Bytes,
         NEW sig_url \in Seq(Url) \cup {None},
         NEW l, FetchSignature(b, sig_url, l),
         \/ pc = "manifest" /\ l = "manifest.sig"
         \/ pc = "payload" /\ l = "payload.sig"
  PROVE  TypeInv'
<1>1. Head(mirrors) \in Url
  BY DEF TypeInv, TypeOK
<1>2. urls' \in Seq(Location)
  BY <1>1, Locations, OneLocation DEF FetchSignature
<1> QED
  BY <1>2 DEF TypeInv, TypeOK, PC, FetchSignature, source, resolution,
       admitted, tpm, memfds, HasEntry, HasCandidate, HasPayload, AtManifest,
       AtPayload, Measuring, Executing

\* What the metadata services and stdin hand over.
LEMMA ParsedBody ==
  ASSUME NEW body \in UserData \cup {Malformed}, TRUE \in parse_json_to_config(body)
  PROVE  body \in UserData
BY DEF parse_json_to_config

\* Obtaining a document, from stdin or a metadata service, keeps the types.
LEMMA ConfigTypeStep ==
  ASSUME TypeInv, stdin_config \/ attest_diagnostic \/ fetch_cloud_metadata
  PROVE  TypeInv'
<1> DEFINE Stages == {"attest", "ec2 token", "ec2", "gcp", "azure", "poweroff",
                      "exited"}
<1>1. \A l \in Stages : Goto(l) => TypeInv'
  BY GotoType DEF PC, AtManifest, AtPayload, Measuring, Executing
<1>2. CASE stdin_config
  <2>1. launch.stdin \in UserData \cup {None, Malformed}
    BY Stage1Assumption DEF TypeInv, TypeOK, Launch
  <2>2. CASE Goto(IF launch.attest THEN "attest" ELSE "ec2 token")
    BY <2>2, <1>1
  <2>3. CASE /\ launch.stdin # None
             /\ TRUE \in parse_json_to_config(launch.stdin)
             /\ Received(launch.stdin)
    BY <2>1, <2>3, ParsedBody, ReceivedType
  <2> QED
    BY <1>2, <2>2, <2>3, ErrType DEF stdin_config
<1>3. CASE attest_diagnostic
  BY <1>1, <1>3, ErrType DEF attest_diagnostic
<1>4. CASE try_fetch_ec2_token
  <2>1. PICK a \in Provider["ec2 token"] :
          Goto(IF a = Fail THEN OrElse("ec2 token") ELSE "ec2")
    BY <1>4 DEF try_fetch_ec2_token
  <2>2. OrElse("ec2 token") = "gcp"
    BY DEF OrElse
  <2> QED
    BY <1>1, <2>1, <2>2
<1>5. ASSUME NEW e \in {"ec2", "gcp", "azure"}, try_fetch(e)
      PROVE  TypeInv'
  <2>1. OrElse(e) \in Stages
    BY DEF OrElse
  <2>2. PICK a \in Provider[e] :
          IF a = Fail
          THEN Goto(OrElse(e))
          ELSE \E parsed \in parse_json_to_config(Decoded(e, a)) :
                 IF parsed THEN Received(Decoded(e, a)) ELSE Goto(OrElse(e))
    BY <1>5 DEF try_fetch
  <2>3. CASE Goto(OrElse(e))
    BY <1>1, <2>1, <2>3
  <2>4. CASE a # Fail /\ ~ Goto(OrElse(e))
    <3>1. TRUE \in parse_json_to_config(Decoded(e, a)) /\ Received(Decoded(e, a))
      <4>1. PICK parsed \in parse_json_to_config(Decoded(e, a)) :
              IF parsed THEN Received(Decoded(e, a)) ELSE Goto(OrElse(e))
        BY <2>2, <2>4
      <4>2. parse_json_to_config(Decoded(e, a)) \subseteq BOOLEAN
        BY DEF parse_json_to_config, UserDataParses, PayloadParses,
               ManifestParses, Given
      <4> QED
        BY <2>4, <4>1, <4>2
    <3>2. a \in Answer
      BY <2>4, Stage1Assumption DEF Endpoints
    <3>3. Decoded(e, a) \in UserData \cup {Malformed}
      BY <3>2 DEF Decoded, Answer
    <3> QED
      BY <3>1, <3>3, ParsedBody, ReceivedType
  <2> QED
    BY <2>2, <2>3, <2>4
<1> QED
  BY <1>2, <1>3, <1>4, <1>5
     DEF fetch_cloud_metadata, try_fetch_ec2, try_fetch_gcp, try_fetch_azure

\* A download that fails keeps the types: a candidate is still in hand, or the
\* outer loop has moved past it.
LEMMA DownloadTypeStep ==
  ASSUME TypeInv, \/ download_first_next \/ download_first_err
                  \/ candidate_unavailable \/ candidates_err
  PROVE  TypeInv'
<1>1. CASE download_first_next
  <2>1. Tail(urls) \in Seq(Location)
    BY <1>1 DEF TypeInv, TypeOK, download_first_next
  <2>2. TypeOK'
    BY <1>1, <2>1 DEF TypeInv, TypeOK, download_first_next, source,
       resolution, admitted, tpm, memfds
  <2>3. HasEntry' /\ HasCandidate' /\ HasPayload'
    BY <1>1 DEF TypeInv, HasEntry, HasCandidate, HasPayload, ThePayload,
       download_first_next, source, resolution, admitted, tpm, memfds
  <2> QED
    BY <2>2, <2>3 DEF TypeInv
<1>2. CASE download_first_err
  BY <1>2, NextMirrorType
     DEF download_first_err, Lists, AtPayload, TypeInv, HasCandidate
<1>3. CASE candidate_unavailable
  BY <1>3, NextMirrorType DEF candidate_unavailable, AtPayload
<1> QED
  BY <1>1, <1>2, <1>3, ErrType DEF candidates_err

\* Evaluating the arch entry keeps the types: the loop that is entered finds
\* an entry of its own variant.
LEMMA ResolveTypeStep ==
  ASSUME TypeInv, resolve_payload
  PROVE  TypeInv'
<1>1. pc = "resolve" /\ doc \in UserData /\ raw_json \in UserData
  BY DEF resolve_payload, TypeInv, HasEntry
<1> DEFINE manifest == /\ ArchConfigParses(doc.entry) /\ IsManifest(doc.entry)
                       /\ validate(TheManifest, "Stage1")
           payload == /\ ArchConfigParses(doc.entry) /\ ~ IsManifest(doc.entry)
                      /\ admission(ThePayload, "Stage1")
<1>2. \/ Err
      \/ /\ manifest \/ payload
         /\ pc' = IF manifest THEN "manifest" ELSE "payload"
         /\ mirrors' = IF manifest THEN TheManifest.url ELSE ThePayload.url
         /\ UNCHANGED <<source, resolution, urls, blob, args_bytes, admitted,
                        tpm, memfds>>
  BY DEF resolve_payload
<1>3. ASSUME manifest, pc' = "manifest", mirrors' = TheManifest.url,
             UNCHANGED <<source, resolution, urls, blob, args_bytes, admitted,
                         tpm, memfds>>
      PROVE  TypeInv'
  <2>1. Given(doc.entry) /\ ManifestParses(doc.entry.manifest)
    BY <1>3 DEF ArchConfigParses
  <2>2. doc.entry.manifest \in Maybe(ManifestRef)
    BY <1>1, <2>1 DEF UserData, Entry, Maybe, Given
  <2>3. TheManifest.url \in Seq(Url)
    BY <2>1, <2>2, ManifestFields DEF TheManifest
  <2>4. TypeOK'
    <3>1. pc' \in PC
      BY <1>3 DEF PC
    <3> QED
      BY <1>3, <2>3, <3>1 DEF TypeInv, TypeOK, source, resolution, admitted,
         tpm, memfds
  <2>5. HasEntry' /\ HasCandidate' /\ HasPayload'
    BY <1>1, <1>3, <2>1 DEF HasEntry, HasCandidate, HasPayload, source,
       resolution, AtManifest, AtPayload, Measuring, Executing
  <2> QED
    BY <2>4, <2>5 DEF TypeInv
<1>4. ASSUME payload, pc' = "payload", mirrors' = ThePayload.url,
             UNCHANGED <<source, resolution, urls, blob, args_bytes, admitted,
                         tpm, memfds>>
      PROVE  TypeInv'
  <2>1. Given(doc.entry) /\ PayloadParses(doc.entry.payload)
    BY <1>4 DEF ArchConfigParses
  <2>2. doc.entry.payload \in Maybe(Payload)
    BY <1>1, <2>1 DEF UserData, Entry, Maybe, Given
  <2>3. ThePayload.url \in Seq(Url)
    BY <2>1, <2>2, PayloadFields DEF ThePayload
  <2>4. TypeOK'
    <3>1. pc' \in PC
      BY <1>4 DEF PC
    <3> QED
      BY <1>4, <2>3, <3>1 DEF TypeInv, TypeOK, source, resolution, admitted,
         tpm, memfds
  <2>5. HasEntry' /\ HasCandidate' /\ HasPayload'
    BY <1>1, <1>4, <2>1 DEF HasEntry, HasCandidate, HasPayload, source,
       resolution, AtManifest, AtPayload, Measuring, Executing
  <2> QED
    BY <2>4, <2>5 DEF TypeInv
<1> QED
  BY <1>2, <1>3, <1>4, ErrType

\* Fetching, verifying and merging a manifest keeps the types; the merged
\* document is again a document.
LEMMA ManifestTypeStep ==
  ASSUME TypeInv, fetch_manifest
  PROVE  TypeInv'
<1>1. CASE try_fetch_manifest
  <2>1. pc = "manifest" /\ mirrors # <<>>
    BY <1>1 DEF try_fetch_manifest
  <2>2. At(Head(mirrors)) \in Location
    BY <2>1, HeadLocations
  <2>3. PICK b \in Serves(At(Head(mirrors))) \ {Fail} :
          IF PinHolds(TheManifest, b)
          THEN FetchSignature(b, TheManifest.sig_url, "manifest.sig")
          ELSE NextMirror
    BY <1>1 DEF try_fetch_manifest
  <2>4. b \in Bytes
    BY <2>2, ServedBytes
  <2>5. TheManifest.sig_url \in Seq(Url) \cup {None}
    BY <2>1, EntryTypes DEF AtManifest
  <2> QED
    BY <2>1, <2>3, <2>4, <2>5, FetchSignatureType, NextMirrorType
<1>2. CASE verify_manifest
  <2>1. CASE NextMirror
    BY <1>2, <2>1, NextMirrorType DEF verify_manifest, TypeInv, HasCandidate
  <2>2. CASE Goto("follow")
    <3>1. pc = "manifest.sig" /\ pc' = "follow"
      BY <1>2, <2>2 DEF verify_manifest, Goto
    <3>2. TypeOK'
      BY <2>2 DEF TypeInv, TypeOK, PC, Goto, source, resolution, download,
         admitted, tpm, memfds
    <3>3. HasEntry' /\ HasCandidate' /\ HasPayload'
      BY <2>2, <3>1 DEF TypeInv, HasEntry, HasCandidate, HasPayload, Goto,
         source, resolution, download, AtManifest, AtPayload, Measuring,
         Executing
    <3> QED
      BY <3>2, <3>3 DEF TypeInv
  <2> QED
    BY <1>2, <2>1, <2>2 DEF verify_manifest
<1>3. CASE follow_manifest
  <2>1. CASE Err
    BY <2>1, ErrType
  <2>2. CASE /\ AsDoc(blob) # Malformed
             /\ history' = Append(history, Hop(TheManifest, Head(mirrors), blob))
             /\ doc' = deep_merge(RemovePointer(doc), AsDoc(blob))
             /\ pc' = "resolve"
             /\ mirrors' = <<>> /\ urls' = <<>> /\ blob' = None
             /\ UNCHANGED <<source, args_bytes, admitted, tpm, memfds>>
    <3>1. /\ pc = "follow" /\ blob \in Bytes /\ mirrors # <<>>
          /\ doc \in UserData /\ raw_json \in UserData /\ Given(doc.entry)
      BY <1>3 DEF follow_manifest, TypeInv, HasEntry, HasCandidate, AtManifest
    <3>2. doc' \in UserData
      BY <2>2, <3>1, MergeType, Stage1Assumption
    <3>3. Hop(TheManifest, Head(mirrors), blob) \in ManifestRef
      <4>1. Head(mirrors) \in Url
        BY <3>1, HeadLocations
      <4>2. sha256(blob) \in Hex
        BY <3>1, DigestType
      <4>3. /\ TheManifest.ed25519 \in PubKey
            /\ TheManifest.sig_url \in Seq(Url) \cup {None}
        BY <3>1, EntryTypes DEF AtManifest
      <4>4. <<Head(mirrors)>> \in Seq(Url)
        BY <4>1
      <4> QED
        BY <4>2, <4>3, <4>4 DEF Hop, ManifestRef, Maybe, UrlList
    <3>4. history' \in Seq(ManifestRef)
      BY <2>2, <3>3 DEF TypeInv, TypeOK
    <3>5. TypeOK'
      <4>1. pc' \in PC
        BY <2>2 DEF PC
      <4> QED
        BY <2>2, <3>2, <3>4, <4>1 DEF TypeInv, TypeOK, source, admitted, tpm,
           memfds
    <3>6. HasEntry' /\ HasCandidate' /\ HasPayload'
      BY <2>2, <3>1, <3>2 DEF HasEntry, HasCandidate, HasPayload, source,
         AtManifest, AtPayload, Measuring, Executing
    <3> QED
      BY <3>5, <3>6 DEF TypeInv
  <2> QED
    BY <1>3, <2>1, <2>2 DEF follow_manifest
<1> QED
  BY <1>1, <1>2, <1>3 DEF fetch_manifest

\* Admitting a payload, with or without signed arguments, keeps the types.
LEMMA PayloadTypeStep ==
  ASSUME TypeInv, admit_payload
  PROVE  TypeInv'
<1> USE DEF AtPayload
<1>1. CASE admit_from
  <2>1. pc = "payload" /\ mirrors # <<>>
    BY <1>1 DEF admit_from
  <2>2. PICK b \in Serves(At(Head(mirrors))) \ {Fail} :
          IF ThePayload.sha256 # None
          THEN IF eq_ignore_ascii_case(ThePayload.sha256, sha256(b))
               THEN Admit(b, None) ELSE NextMirror
          ELSE FetchSignature(b, ThePayload.sig_url, "payload.sig")
    BY <1>1 DEF admit_from
  <2>3. b \in Bytes
    BY <2>1, HeadLocations, ServedBytes
  <2>4. ThePayload.sig_url \in Seq(Url) \cup {None}
    BY <2>1, EntryTypes
  <2>5. CASE Admit(b, None)
    BY <2>1, <2>3, <2>5, AdmitType
  <2>6. CASE NextMirror
    BY <2>1, <2>6, NextMirrorType
  <2>7. CASE FetchSignature(b, ThePayload.sig_url, "payload.sig")
    BY <2>1, <2>3, <2>4, <2>7, FetchSignatureType
  <2> QED
    BY <2>2, <2>5, <2>6, <2>7
<1>2. CASE verify_payload
  <2>1. pc = "payload.sig" /\ blob \in Bytes /\ mirrors # <<>>
    BY <1>2 DEF verify_payload, TypeInv, HasCandidate
  <2>2. CASE NextMirror
    BY <2>1, <2>2, NextMirrorType
  <2>3. CASE Admit(blob, None)
    BY <2>1, <2>3, AdmitType
  <2>4. CASE /\ ThePayload.args_url # None
             /\ pc' = "args"
             /\ urls' = substitute(ThePayload.args_url, sha256(blob))
             /\ UNCHANGED <<source, resolution, mirrors, blob, args_bytes,
                            admitted, tpm, memfds>>
    <3>1. urls' \in Seq(Location)
      BY <2>1, <2>4, EntryTypes, Locations
    <3>2. TypeOK'
      <4>1. pc' \in PC
        BY <2>4 DEF PC
      <4> QED
        BY <2>4, <3>1, <4>1 DEF TypeInv, TypeOK, source, resolution, admitted,
           tpm, memfds
    <3>3. HasEntry'
      BY <2>1, <2>4 DEF TypeInv, HasEntry, ThePayload, source, resolution,
         AtManifest
    <3>4. HasCandidate' /\ HasPayload'
      BY <2>1, <2>4 DEF HasCandidate, HasPayload, Measuring, Executing
    <3> QED
      BY <3>2, <3>3, <3>4 DEF TypeInv
  <2> QED
    BY <1>2, <2>2, <2>3, <2>4 DEF verify_payload
<1>3. CASE fetch_signed_args
  <2>1. /\ pc = "args" /\ blob \in Bytes /\ mirrors # <<>> /\ urls # <<>>
        /\ ThePayload.args_url # None
    BY <1>3 DEF fetch_signed_args, TypeInv, HasCandidate, HasEntry
  <2>2. PICK b \in Serves(Head(urls)) \ {Fail} :
          /\ args_bytes' = b
          /\ urls' = IF ThePayload.args_sig_url # None
                     THEN substitute(ThePayload.args_sig_url, sha256(blob))
                     ELSE DotSig(substitute(ThePayload.args_url, sha256(blob)))
          /\ pc' = "args.sig"
          /\ UNCHANGED <<source, resolution, mirrors, blob, admitted, tpm, memfds>>
    BY <1>3 DEF fetch_signed_args
  <2>3. b \in Bytes
    BY <2>1, HeadLocations, ServedBytes
  <2>4. urls' \in Seq(Location)
    BY <2>1, <2>2, EntryTypes, Locations
  <2>5. TypeOK'
    <3>1. pc' \in PC
      BY <2>2 DEF PC
    <3> QED
      BY <2>2, <2>3, <2>4, <3>1 DEF TypeInv, TypeOK, source, resolution,
         admitted, tpm, memfds
  <2>6. HasEntry'
    BY <2>1, <2>2 DEF TypeInv, HasEntry, ThePayload, source, resolution,
       AtManifest
  <2>7. HasCandidate' /\ HasPayload'
    BY <2>1, <2>2, <2>3 DEF HasCandidate, HasPayload, Measuring, Executing
  <2> QED
    BY <2>5, <2>6, <2>7 DEF TypeInv
<1>4. CASE verify_signed_args
  <2>1. /\ pc = "args.sig" /\ blob \in Bytes /\ mirrors # <<>>
        /\ args_bytes \in Bytes
    BY <1>4 DEF verify_signed_args, TypeInv, HasCandidate
  <2>2. \/ NextMirror
        \/ AsArgs(args_bytes) # Malformed /\ Admit(blob, AsArgs(args_bytes))
    BY <1>4 DEF verify_signed_args
  <2>3. AsArgs(args_bytes) \in Seq(Arg) \cup {Malformed}
    BY <2>1, Stage1Assumption
  <2> QED
    BY <2>1, <2>2, <2>3, AdmitType, NextMirrorType
<1> QED
  BY <1>1, <1>2, <1>3, <1>4 DEF admit_payload

\* What make_memfd does to a memfd.
LEMMA MemfdType ==
  ASSUME NEW S
  PROVE  /\ \A c \in S : \A x \in BOOLEAN : memfd_create(c, x) \in Memfd(S)
         /\ \A fd \in Memfd(S) :
              /\ Written(fd) \subseteq Memfd(S)
              /\ [fd EXCEPT !.sealed = TRUE] \in Memfd(S)
              /\ [fd EXCEPT !.pos = 0] \in Memfd(S)
<1> USE Stage1Assumption DEF Memfd
<1>1. ASSUME NEW c \in S, NEW x \in BOOLEAN
      PROVE  memfd_create(c, x) \in Memfd(S)
  BY DEF memfd_create
<1>2. ASSUME NEW fd \in Memfd(S)
      PROVE  Written(fd) \subseteq Memfd(S)
  <2>1. fd.n \in Nat /\ Size \in Nat
    OBVIOUS
  <2>2. ASSUME NEW k \in (fd.n + 1)..Size
        PROVE  [fd EXCEPT !.n = k, !.pos = k] \in Memfd(S)
    <3>1. k \in 0..Size
      BY <2>1
    <3> QED
      BY <3>1
  <2>3. ASSUME NEW x \in Written(fd)
        PROVE  x \in Memfd(S)
    <3>1. PICK k \in (fd.n + 1)..Size : x = [fd EXCEPT !.n = k, !.pos = k]
      BY DEF Written
    <3>2. [fd EXCEPT !.n = k, !.pos = k] \in Memfd(S)
      BY <2>2
    <3> HIDE DEF Memfd
    <3> QED
      BY <3>1, <3>2
  <2> HIDE DEF Memfd
  <2> QED
    BY <2>3
<1>3. ASSUME NEW fd \in Memfd(S)
      PROVE  [fd EXCEPT !.sealed = TRUE] \in Memfd(S)
  OBVIOUS
<1>4. ASSUME NEW fd \in Memfd(S)
      PROVE  [fd EXCEPT !.pos = 0] \in Memfd(S)
  <2>1. 0 \in 0..Size
    OBVIOUS
  <2> QED
    BY <2>1
<1> QED
  BY <1>1, <1>2, <1>3, <1>4

\* From here on resolution is over: nothing it used is touched or needed.
LEMMA ExecuteFrame ==
  ASSUME TypeInv, UNCHANGED <<source, resolution, download, admitted>>,
         pc \in Measuring \cup Executing, pc' \in Measuring \cup Executing,
         quote' \in [nonce : Hex, pcr14 : Seq(Hex)] \cup {None},
         pcr14' \in Seq(Hex),
         exe' \in Memfd(Bytes) \cup {None},
         cfg' \in Memfd(UserData) \cup {None},
         fd0' \in {"inherited", "cfg"},
         pc' \in {"exe write", "exe seal"} => exe' \in Memfd(Bytes),
         pc' \in {"cfg write", "lseek"} => cfg' \in Memfd(UserData)
  PROVE  TypeInv'
<1>1. pc' \in PC
  BY DEF PC, Measuring, Executing
<1>2. TypeOK'
  BY <1>1 DEF TypeInv, TypeOK, source, resolution, download, admitted
<1>3. HasEntry' /\ HasCandidate'
  BY DEF HasEntry, HasCandidate, AtManifest, AtPayload, Measuring, Executing
<1>4. HasPayload'
  BY DEF TypeInv, HasPayload, admitted
<1> QED
  BY <1>2, <1>3, <1>4 DEF TypeInv

\* Measuring and executing the payload, and powering off, keep the types.
LEMMA ExecuteTypeStep ==
  ASSUME TypeInv, \/ generate_pre_execution_attestation \/ extend_pcrs
                  \/ make_memfds \/ execute_binary \/ poweroff
  PROVE  TypeInv'
<1>0. CASE Err
  BY <1>0, ErrType
<1>t. /\ quote \in [nonce : Hex, pcr14 : Seq(Hex)] \cup {None}
      /\ pcr14 \in Seq(Hex)
      /\ exe \in Memfd(Bytes) \cup {None}
      /\ cfg \in Memfd(UserData) \cup {None}
      /\ fd0 \in {"inherited", "cfg"}
  BY DEF TypeInv, TypeOK
<1>b. pc \in Measuring \cup Executing =>
        binary \in Bytes /\ stdin \in UserData /\ sha256(binary) \in Hex
  BY DigestType DEF TypeInv, HasPayload
<1> USE DEF Measuring, Executing
<1>1. CASE generate_pre_execution_attestation /\ ~ Err
  <2>1. /\ quote' = [nonce |-> sha256(binary), pcr14 |-> pcr14]
        /\ pc = "quote" /\ pc' = "extend"
        /\ UNCHANGED <<source, resolution, download, admitted, pcr14, exe, cfg, fd0>>
    BY <1>1 DEF generate_pre_execution_attestation, memfds
  <2>2. quote' \in [nonce : Hex, pcr14 : Seq(Hex)]
    BY <1>t, <1>b, <2>1
  <2> QED
    BY <1>t, <2>1, <2>2, ExecuteFrame
<1>2. CASE extend_pcrs /\ ~ Err
  <2>1. /\ pcr14' = Append(pcr14, sha256(binary))
        /\ pc = "extend" /\ pc' \in {"exe", "poweroff"}
        /\ UNCHANGED <<source, resolution, download, admitted, quote, exe, cfg, fd0>>
    BY <1>2 DEF extend_pcrs, memfds
  <2>2. pcr14' \in Seq(Hex)
    BY <1>t, <1>b, <2>1
  <2>3. CASE pc' = "exe"
    BY <1>t, <2>1, <2>2, <2>3, ExecuteFrame
  <2>4. CASE pc' = "poweroff"
    <3>1. TypeOK'
      BY <2>1, <2>2, <2>4 DEF TypeInv, TypeOK, PC, source, resolution,
         download, admitted
    <3>2. HasEntry' /\ HasCandidate' /\ HasPayload'
      BY <2>4 DEF HasEntry, HasCandidate, HasPayload, AtManifest, AtPayload
    <3> QED
      BY <3>1, <3>2 DEF TypeInv
  <2> QED
    BY <2>1, <2>3, <2>4
<1>3. CASE make_memfd_exe /\ ~ Err
  <2>1. /\ exe' = memfd_create(binary, TRUE) /\ pc = "exe" /\ pc' = "exe write"
        /\ UNCHANGED <<source, resolution, download, admitted, quote, pcr14, cfg, fd0>>
    BY <1>3 DEF make_memfd_exe, tpm
  <2>2. exe' \in Memfd(Bytes)
    BY <1>b, <2>1, MemfdType
  <2> QED
    BY <1>t, <2>1, <2>2, ExecuteFrame
<1>4. CASE write_exe /\ ~ Err
  <2>1. /\ (exe' = exe /\ pc' = "exe seal") \/ (exe' \in Written(exe) /\ pc' = pc)
        /\ pc = "exe write"
        /\ UNCHANGED <<source, resolution, download, admitted, quote, pcr14, cfg, fd0>>
    BY <1>4 DEF write_exe, Goto, tpm, memfds
  <2>2. exe \in Memfd(Bytes)
    BY <2>1 DEF TypeInv, HasPayload
  <2>3. exe' \in Memfd(Bytes)
    BY <2>1, <2>2, MemfdType
  <2> QED
    BY <1>t, <2>1, <2>3, ExecuteFrame
<1>5. CASE seal_exe /\ ~ Err
  <2>1. /\ exe' = [exe EXCEPT !.sealed = TRUE] /\ pc = "exe seal" /\ pc' = "cfg"
        /\ UNCHANGED <<source, resolution, download, admitted, quote, pcr14, cfg, fd0>>
    BY <1>5 DEF seal_exe, tpm
  <2>2. exe' \in Memfd(Bytes)
    BY <2>1, MemfdType DEF TypeInv, HasPayload
  <2> QED
    BY <1>t, <2>1, <2>2, ExecuteFrame
<1>6. CASE make_memfd_cfg /\ ~ Err
  <2>1. /\ cfg' = memfd_create(stdin, FALSE) /\ pc = "cfg" /\ pc' = "cfg write"
        /\ UNCHANGED <<source, resolution, download, admitted, quote, pcr14, exe, fd0>>
    BY <1>6 DEF make_memfd_cfg, tpm
  <2>2. cfg' \in Memfd(UserData)
    BY <1>b, <2>1, MemfdType
  <2> QED
    BY <1>t, <2>1, <2>2, ExecuteFrame
<1>7. CASE write_cfg /\ ~ Err
  <2>1. /\ (cfg' = cfg /\ pc' = "lseek") \/ (cfg' \in Written(cfg) /\ pc' = pc)
        /\ pc = "cfg write"
        /\ UNCHANGED <<source, resolution, download, admitted, quote, pcr14, exe, fd0>>
    BY <1>7 DEF write_cfg, Goto, tpm, memfds
  <2>2. cfg \in Memfd(UserData)
    BY <2>1 DEF TypeInv, HasPayload
  <2>3. cfg' \in Memfd(UserData)
    BY <2>1, <2>2, MemfdType
  <2> QED
    BY <1>t, <2>1, <2>3, ExecuteFrame
<1>8. CASE rewind_cfg /\ ~ Err
  <2>1. /\ cfg' = [cfg EXCEPT !.pos = 0] /\ pc = "lseek" /\ pc' = "dup2"
        /\ UNCHANGED <<source, resolution, download, admitted, quote, pcr14, exe, fd0>>
    BY <1>8 DEF rewind_cfg, tpm
  <2>2. cfg' \in Memfd(UserData)
    BY <2>1, MemfdType DEF TypeInv, HasPayload
  <2> QED
    BY <1>t, <2>1, <2>2, ExecuteFrame
<1>9. CASE wire_stdin /\ ~ Err
  BY <1>9, <1>t, ExecuteFrame DEF wire_stdin, tpm
<1>10. CASE execute_binary /\ ~ Err
  BY <1>10, <1>t, ExecuteFrame DEF execute_binary, Goto, tpm, memfds
<1>11. CASE poweroff
  BY <1>11, GotoType DEF poweroff, PC, AtManifest, AtPayload
<1> QED
  BY <1>0, <1>1, <1>2, <1>3, <1>4, <1>5, <1>6, <1>7, <1>8, <1>9, <1>10, <1>11
     DEF make_memfds

\* Every step of stage1 keeps the types.
LEMMA TypeStep == TypeInv /\ [Next]_vars => TypeInv'
<1>1. ASSUME TypeInv, UNCHANGED vars
      PROVE  TypeInv'
  <2>1. TypeOK'
    BY <1>1 DEF TypeInv, TypeOK, vars
  <2>2. HasEntry'
    BY <1>1 DEF TypeInv, vars, HasEntry, ThePayload, TheManifest
  <2>3. HasCandidate'
    BY <1>1 DEF TypeInv, vars, HasCandidate
  <2>4. HasPayload'
    BY <1>1 DEF TypeInv, vars, HasPayload
  <2> QED
    BY <2>1, <2>2, <2>3, <2>4 DEF TypeInv
<1> QED
  BY <1>1, ConfigTypeStep, DownloadTypeStep, ResolveTypeStep,
     ManifestTypeStep, PayloadTypeStep, ExecuteTypeStep DEF Next

\* stage1 is type correct: whatever the mirrors and metadata services send,
\* every variable stays within its type, and each step of resolution,
\* admission and execution finds the document, candidate, payload or memfd it
\* works on.
THEOREM TypeCorrect == Spec => []TypeOK
<1>1. TypeInv => TypeOK
  BY DEF TypeInv
<1> QED
  BY TypeInit, TypeStep, <1>1, PTL DEF Spec
=============================================================================
