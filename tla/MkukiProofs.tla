---------------------------- MODULE MkukiProofs ----------------------------
(***************************************************************************)
(* The properties of module Mkuki for every set of calls, contents, seeds  *)
(* and faults, and any number of containers: a call that ended well left   *)
(* an image and a signature that stage0 admits, a BUILD_ID tells inputs    *)
(* apart as far as the hashes it keeps, and no container stays behind      *)
(* whose export ran, unless mkuki was killed or the engine refused.        *)
(***************************************************************************)
EXTENDS Mkuki, TLAPS

-----------------------------------------------------------------------------
(* The container of the running call.                                      *)

HasContainer == job # None /\ job.at \in {"export", "rm"}

\* The engine has the container of the running call, if it has one by now, and
\* those that were left behind, and never counts the one among the other.
EngineInv ==
  /\ HasContainer => /\ job.cid \notin abandoned \cup untried
                     /\ containers = abandoned \cup untried \cup {job.cid}
  /\ ~ HasContainer => containers = abandoned \cup untried

\* Where the key files are while keygen runs, and after it ended well.
PairInv ==
  /\ keygen_job # None /\ keygen_job.todo = "pub" =>
       key = pem_from_seed(keygen_job.seed) /\ ~ paired
  /\ keygen_job # None => ~ paired
  /\ paired => \E s \in Seeds : key = pem_from_seed(s) /\ pub = pubkey_b64_from_seed(s)

\* What the files hold while a call signs, and after one that signed.
SignInv ==
  /\ job # None => signed = None
  /\ job # None /\ job.at = "sign" => out = Image(job.a)
  /\ signed # None => sig = sign(signed, "stage1.uki", out)

Inv == MkukiTypeOK /\ EngineInv /\ PairInv /\ SignInv

-----------------------------------------------------------------------------

LEMMA SeedType ==
  ASSUME MkukiTypeOK, seed_from_pkcs8_pem(key) # None
  PROVE  seed_from_pkcs8_pem(key) \in Seeds \cup {OldSeed}
BY DEF MkukiTypeOK, KeysTypeOK, KeyFile, seed_from_pkcs8_pem

LEMMA JobRecord ==
  ASSUME MkukiTypeOK, job # None
  PROVE  /\ job \in Job /\ job.a \in Calls
         /\ job.at \in {"create", "build", "sign"} => job \in [a : Calls, at : {"create", "build", "sign"}]
         /\ job.at = "export" => job \in [a : Calls, at : {"export"}, cid : Cids]
         /\ job.at = "rm" => job \in [a : Calls, at : {"rm"}, cid : Cids, ok : BOOLEAN]
BY DEF MkukiTypeOK, Job

\* The last call that ended well signed the image that is there, and keygen
\* pairs the files it wrote.
LEMMA InvImplies == Inv => ReleaseIsAdmitted /\ ExportCleansUp
<1> SUFFICES ASSUME Inv PROVE ReleaseIsAdmitted /\ ExportCleansUp
  OBVIOUS
<1>1. ReleaseIsAdmitted
  <2> SUFFICES ASSUME signed # None
               PROVE  /\ verify(pubkey_b64_from_seed(signed), "stage1.uki", out, sig)
                      /\ paired /\ seed_from_pkcs8_pem(key) = signed =>
                           verify(pub, "stage1.uki", out, sig)
    BY DEF ReleaseIsAdmitted
  <2>1. sig = sign(signed, "stage1.uki", out)
    BY DEF Inv, SignInv
  <2>2. verify(pubkey_b64_from_seed(signed), "stage1.uki", out, sig)
    BY <2>1 DEF verify, pubkey_b64_from_seed
  <2>3. ASSUME paired, seed_from_pkcs8_pem(key) = signed
        PROVE  pub = pubkey_b64_from_seed(signed)
    BY <2>3 DEF Inv, PairInv, seed_from_pkcs8_pem, pem_from_seed
  <2> QED BY <2>2, <2>3
<1>2. ExportCleansUp
  BY DEF Inv, EngineInv, HasContainer, ExportCleansUp
<1> QED BY <1>1, <1>2

LEMMA InitInv == Init => Inv
<1> SUFFICES ASSUME Init PROVE Inv
  OBVIOUS
<1>1. MkukiTypeOK
  <2>1. key \in KeyFile \cup {Absent}
    BY DEF Init, KeysInit, KeyFile, pem_from_seed
  <2>2. paired \in BOOLEAN
    BY Zenon DEF Init, KeysInit
  <2> QED BY <2>1, <2>2 DEF Init, KeysInit, MkukiTypeOK, KeysTypeOK
<1>2. EngineInv /\ PairInv /\ SignInv
  BY DEF Init, KeysInit, EngineInv, HasContainer, PairInv, SignInv
<1> QED BY <1>1, <1>2 DEF Inv

-----------------------------------------------------------------------------
(* One step.                                                               *)

\* What `engine export` does to the job and the engine.
LEMMA ExportEffect ==
  ASSUME docker_export
  PROVE  /\ job # None /\ job.at = "export"
         /\ UNCHANGED <<keyVars, out, sig, containers, abandoned, signed>>
         /\ \/ /\ \E ok \in BOOLEAN :
                    job' = [a |-> job.a, at |-> "rm", cid |-> job.cid, ok |-> ok]
               /\ UNCHANGED untried
            \/ job' = None /\ untried' = untried \cup {job.cid}
<1>1. job # None /\ job.at = "export"
  BY DEF docker_export
<1>2. CASE /\ \E ok \in {TRUE} \cup (IF "export" \in Faults THEN {FALSE} ELSE {}) :
                job' = [a |-> job.a, at |-> "rm", cid |-> job.cid, ok |-> ok]
           /\ UNCHANGED <<keyVars, out, sig, engine, signed>>
  <2>1. {TRUE} \cup (IF "export" \in Faults THEN {FALSE} ELSE {}) \subseteq BOOLEAN
    BY Zenon
  <2>2. \E ok \in BOOLEAN : job' = [a |-> job.a, at |-> "rm", cid |-> job.cid, ok |-> ok]
    BY <1>2, <2>1, Zenon
  <2> QED BY <1>1, <1>2, <2>2 DEF engine
<1>3. CASE /\ job' = None /\ untried' = untried \cup {job.cid}
           /\ UNCHANGED <<keyVars, out, sig, containers, abandoned, signed>>
  BY <1>1, <1>3
<1> QED BY <1>2, <1>3, Zenon DEF docker_export

LEMMA TypeStep == MkukiTypeOK /\ EngineInv /\ [Next]_vars => MkukiTypeOK'
<1> SUFFICES ASSUME MkukiTypeOK, EngineInv, [Next]_vars PROVE MkukiTypeOK'
  OBVIOUS
<1> USE MkukiAssumption
<1>1. ASSUME NEW a \in Calls, mkuki(a) PROVE MkukiTypeOK'
  BY <1>1 DEF mkuki, MkukiTypeOK, KeysTypeOK, keyVars, engine, Job
<1>2. CASE docker_create
  BY <1>2, JobRecord DEF docker_create, Fails, MkukiTypeOK, KeysTypeOK, keyVars, engine, Job
<1>3. CASE docker_export
  BY <1>3, JobRecord, ExportEffect DEF MkukiTypeOK, KeysTypeOK, keyVars, Job, EngineInv, HasContainer
<1>4. CASE docker_rm
  BY <1>4, JobRecord DEF docker_rm, MkukiTypeOK, KeysTypeOK, keyVars, engine, Job, EngineInv, HasContainer
<1>5. CASE assemble
  BY <1>5, JobRecord DEF assemble, MkukiTypeOK, KeysTypeOK, keyVars, engine, Job
<1>6. CASE build_err \/ sign_err
  BY <1>6 DEF build_err, sign_err, Fails, MkukiTypeOK, KeysTypeOK, keyVars, engine
<1>7. CASE sign_image
  BY <1>7, SeedType DEF sign_image, sign, MkukiTypeOK, KeysTypeOK, keyVars, engine
<1>8. CASE mkuki_dies
  BY <1>8 DEF mkuki_dies, MkukiTypeOK, KeysTypeOK, keyVars, engine, EngineInv, HasContainer
<1>9. CASE OtherTools
  <2> USE DEF OtherTools, MkukiTypeOK, KeysTypeOK, engine
  <2>1. CASE keygen
    <3>1. paired' \in BOOLEAN
      BY <2>1, Zenon DEF keygen
    <3> QED BY <1>9, <2>1, <3>1 DEF keygen
  <2>2. CASE write_private
    BY <1>9, <2>2 DEF write_private, pem_from_seed, KeyFile
  <2>3. CASE write_pub
    BY <1>9, <2>3 DEF write_pub
  <2>4. CASE keygen_dies
    BY <1>9, <2>4 DEF keygen_dies, pem_from_seed, KeyFile
  <2>5. CASE sign_file
    BY <1>9, <2>5, SeedType DEF sign_file, sign
  <2> QED BY <1>9, <2>1, <2>2, <2>3, <2>4, <2>5 DEF KeysNext
<1>10. CASE UNCHANGED vars
  BY <1>10 DEF vars, keyVars, engine, MkukiTypeOK, KeysTypeOK
<1> QED BY <1>1, <1>2, <1>3, <1>4, <1>5, <1>6, <1>7, <1>8, <1>9, <1>10 DEF Next

LEMMA EngineStep == MkukiTypeOK /\ EngineInv /\ [Next]_vars => EngineInv'
<1> SUFFICES ASSUME MkukiTypeOK, EngineInv, [Next]_vars PROVE EngineInv'
  OBVIOUS
<1> USE MkukiAssumption DEF EngineInv, HasContainer
<1>1. ASSUME NEW a \in Calls, mkuki(a) PROVE EngineInv'
  BY <1>1 DEF mkuki, engine
<1>2. CASE docker_create
  <2>1. CASE Fails
    BY <1>2, <2>1 DEF docker_create, Fails, engine
  <2>2. CASE ~ Fails
    <3> PICK cid \in Cids \ containers :
               /\ containers' = containers \cup {cid}
               /\ \/ job' = [a |-> job.a, at |-> "export", cid |-> cid] /\ UNCHANGED untried
                  \/ job' = None /\ untried' = untried \cup {cid}
               /\ UNCHANGED abandoned
      BY <1>2, <2>2 DEF docker_create
    <3>2. CASE job' = None /\ untried' = untried \cup {cid}
      BY <3>2, <1>2 DEF docker_create
    <3>3. CASE job' = [a |-> job.a, at |-> "export", cid |-> cid] /\ UNCHANGED untried
      <4>1. job' # None /\ job'.at = "export" /\ job'.cid = cid
        BY <3>3, <1>2, JobRecord DEF docker_create, Job
      <4>2. ~ HasContainer
        BY <1>2 DEF docker_create
      <4> QED BY <3>3, <4>1, <4>2
    <3> QED BY <3>2, <3>3
  <2> QED BY <2>1, <2>2
<1>3. CASE docker_export
  <2>1. job' # None => job' \in Job
    BY <1>3, ExportEffect, JobRecord DEF Job
  <2> QED BY <1>3, <2>1, ExportEffect, JobRecord DEF Job
<1>4. CASE docker_rm
  BY <1>4, JobRecord DEF docker_rm
<1>5. CASE assemble
  BY <1>5, JobRecord DEF assemble, engine
<1>6. CASE build_err \/ sign_err
  BY <1>6 DEF build_err, sign_err, Fails, engine
<1>7. CASE sign_image
  BY <1>7 DEF sign_image, engine
<1>8. CASE mkuki_dies
  BY <1>8 DEF mkuki_dies
<1>9. CASE OtherTools
  BY <1>9 DEF OtherTools, engine
<1>10. CASE UNCHANGED vars
  BY <1>10 DEF vars, engine
<1> QED BY <1>1, <1>2, <1>3, <1>4, <1>5, <1>6, <1>7, <1>8, <1>9, <1>10 DEF Next

\* mkuki itself leaves the key files alone.
LEMMA KeysAlone ==
  ASSUME [Next]_vars, ~ OtherTools PROVE UNCHANGED keyVars
BY DEF Next, vars, mkuki, docker_create, Fails, docker_export, docker_rm, assemble,
       build_err, sign_image, sign_err, mkuki_dies

LEMMA PairStep == MkukiTypeOK /\ PairInv /\ [Next]_vars => PairInv'
<1> SUFFICES ASSUME MkukiTypeOK, PairInv, [Next]_vars PROVE PairInv'
  OBVIOUS
<1>1. CASE ~ OtherTools
  BY <1>1, KeysAlone DEF keyVars, PairInv
<1>2. CASE OtherTools
  <2> USE DEF PairInv, MkukiTypeOK, KeysTypeOK
  <2>1. CASE keygen
    BY <2>1 DEF keygen
  <2>2. CASE write_private
    BY <2>2 DEF write_private
  <2>3. CASE write_pub
    BY <2>3 DEF write_pub
  <2>4. CASE keygen_dies
    BY <2>4 DEF keygen_dies
  <2>5. CASE sign_file
    BY <2>5 DEF sign_file
  <2> QED BY <1>2, <2>1, <2>2, <2>3, <2>4, <2>5 DEF OtherTools, KeysNext
<1> QED BY <1>1, <1>2

LEMMA SignStep == MkukiTypeOK /\ SignInv /\ [Next]_vars => SignInv'
<1> SUFFICES ASSUME MkukiTypeOK, SignInv, [Next]_vars PROVE SignInv'
  OBVIOUS
<1> USE DEF SignInv
<1>1. ASSUME NEW a \in Calls, mkuki(a) PROVE SignInv'
  BY <1>1 DEF mkuki
<1>2. CASE docker_create
  BY <1>2 DEF docker_create, Fails
<1>3. CASE docker_export
  BY <1>3, ExportEffect
<1>4. CASE docker_rm
  BY <1>4 DEF docker_rm
<1>5. CASE assemble
  <2>1. job.a \in Calls /\ (job' # None => job'.a = job.a)
    BY <1>5, JobRecord DEF assemble
  <2> QED BY <1>5, <2>1 DEF assemble
<1>6. CASE build_err \/ sign_err
  BY <1>6 DEF build_err, sign_err, Fails
<1>7. CASE sign_image
  BY <1>7 DEF sign_image
<1>8. CASE mkuki_dies
  BY <1>8 DEF mkuki_dies
<1>9. CASE OtherTools
  BY <1>9 DEF OtherTools, KeysNext, keygen, write_private, write_pub, keygen_dies, sign_file
<1>10. CASE UNCHANGED vars
  BY <1>10 DEF vars
<1> QED BY <1>1, <1>2, <1>3, <1>4, <1>5, <1>6, <1>7, <1>8, <1>9, <1>10 DEF Next

-----------------------------------------------------------------------------
(* BUILD_ID.                                                               *)

\* A function on 1..n is a sequence.
LEMMA FunctionIsSeq ==
  ASSUME NEW n \in Nat, NEW f, f = [i \in 1..n |-> f[i]]
  PROVE  f \in Seq({f[i] : i \in 1..n}) /\ Len(f) = n
<1>1. f \in [1..n -> {f[i] : i \in 1..n}]
  OBVIOUS
<1>2. f \in Seq({f[i] : i \in 1..n})
  BY <1>1
<1> QED BY <1>1, <1>2

\* The hashes of a call's layers, in their order.
LEMMA HashesOfLayers ==
  ASSUME NEW a \in Calls
  PROVE  /\ Len(a.paths) \in Nat /\ DOMAIN a.paths = 1..Len(a.paths)
         /\ layer_hashes(a) \in Seq({layer_hashes(a)[i] : i \in 1..Len(a.paths)})
         /\ Len(layer_hashes(a)) = Len(a.paths)
         /\ \A i \in 1..Len(a.paths) :
              /\ layer_hashes(a)[i] = [label |-> layer_hashes(a)[i].label,
                                       sha |-> sha256(Content[a.paths[i]])]
              /\ layer_hashes(a)[i].sha = sha256(Content[a.paths[i]])
<1>1. a.paths \in Seq(DOMAIN Content)
  BY MkukiAssumption DEF Args
<1>2. DOMAIN a.paths = 1..Len(a.paths) /\ Len(a.paths) \in Nat
  BY <1>1
<1> DEFINE h == layer_hashes(a)
<1>3. h = [i \in 1..Len(a.paths) |->
         [label |-> IF a.rootfs = "layers" THEN Label[a.paths[i]] ELSE "rootfs",
          sha |-> sha256(Content[a.paths[i]])]]
  BY <1>2 DEF layer_hashes, resolve_layers
<1>4. \A i \in 1..Len(a.paths) :
        /\ h[i] = [label |-> h[i].label, sha |-> sha256(Content[a.paths[i]])]
        /\ h[i].sha = sha256(Content[a.paths[i]])
  BY <1>3
<1>5. h = [i \in 1..Len(a.paths) |-> h[i]]
  BY <1>3
<1> HIDE DEF h
<1>6. h \in Seq({h[i] : i \in 1..Len(a.paths)}) /\ Len(h) = Len(a.paths)
  BY <1>2, <1>5, FunctionIsSeq
<1> QED BY <1>2, <1>4, <1>6 DEF h

\* BUILD_ID, part by part.
LEMMA BuildId ==
  ASSUME NEW a \in Calls
  PROVE  LET id == generate_os_release(a).build_id
         IN  /\ id[1] = Cut(sha256(Content[a.kernel])) /\ id[2] = Cut(sha256(a.cmdline))
             /\ id = <<id[1], id[2], id[3]>>
             /\ id[3] = [i \in 1..Len(a.paths) |->
                  [label |-> IF Len(a.paths) = 1 THEN "initrd" ELSE layer_hashes(a)[i].label,
                   sha |-> Cut(sha256(Content[a.paths[i]]))]]
<1> DEFINE h == layer_hashes(a)
           n == Len(a.paths)
           layers == [i \in DOMAIN h |-> [label |-> IF Len(h) = 1 THEN "initrd" ELSE h[i].label,
                                         sha |-> Cut(h[i].sha)]]
<1>1. /\ n \in Nat /\ h \in Seq({h[i] : i \in 1..n}) /\ Len(h) = n
      /\ \A i \in 1..n : h[i].sha = sha256(Content[a.paths[i]])
  BY HashesOfLayers
<1>2. generate_os_release(a).build_id
        = <<Cut(sha256(Content[a.kernel])), Cut(sha256(a.cmdline)), layers>>
  BY DEF generate_os_release
<1> HIDE DEF h, n
<1>3. DOMAIN h = 1..n
  BY <1>1
<1>4. layers = [i \in 1..n |-> [label |-> IF n = 1 THEN "initrd" ELSE h[i].label,
                               sha |-> Cut(sha256(Content[a.paths[i]]))]]
  BY <1>1, <1>3
<1> HIDE DEF layers
<1> QED BY <1>2, <1>4 DEF h, n

\* Two calls with the same BUILD_ID have inputs that are alike.
LEMMA BuildIdTells ==
  ASSUME NEW a \in Calls, NEW b \in Calls,
         generate_os_release(a).build_id = generate_os_release(b).build_id
  PROVE  /\ Alike(Content[a.kernel], Content[b.kernel]) /\ Alike(a.cmdline, b.cmdline)
         /\ DOMAIN a.paths = DOMAIN b.paths
         /\ \A i \in DOMAIN a.paths : Alike(Content[a.paths[i]], Content[b.paths[i]])
<1> DEFINE part(c) == [i \in 1..Len(c.paths) |->
             [label |-> IF Len(c.paths) = 1 THEN "initrd" ELSE layer_hashes(c)[i].label,
              sha |-> Cut(sha256(Content[c.paths[i]]))]]
<1>1. Alike(Content[a.kernel], Content[b.kernel]) /\ Alike(a.cmdline, b.cmdline)
  BY BuildId DEF Alike
<1>2. part(a) = part(b)
  BY BuildId
<1>3. /\ Len(a.paths) \in Nat /\ DOMAIN a.paths = 1..Len(a.paths)
      /\ Len(b.paths) \in Nat /\ DOMAIN b.paths = 1..Len(b.paths)
  BY HashesOfLayers
<1>4. DOMAIN a.paths = DOMAIN b.paths
  BY <1>2, <1>3
<1>5. ASSUME NEW i \in DOMAIN a.paths PROVE Alike(Content[a.paths[i]], Content[b.paths[i]])
  <2>1. /\ part(a)[i].sha = Cut(sha256(Content[a.paths[i]]))
        /\ part(b)[i].sha = Cut(sha256(Content[b.paths[i]]))
    BY <1>3, <1>4
  <2> QED BY <1>2, <2>1 DEF Alike
<1> QED BY <1>1, <1>4, <1>5

\* A lone layer goes under one label, however it was given.
LEMMA LoneLayer ==
  ASSUME NEW a \in Calls, NEW b \in Calls,
         Content[a.kernel] = Content[b.kernel], a.cmdline = b.cmdline,
         Image(a).initrd = Image(b).initrd, Len(Image(a).initrd) = 1
  PROVE  generate_os_release(a).build_id = generate_os_release(b).build_id
<1>1. /\ Len(a.paths) \in Nat /\ DOMAIN a.paths = 1..Len(a.paths)
      /\ Len(b.paths) \in Nat /\ DOMAIN b.paths = 1..Len(b.paths)
  BY HashesOfLayers
<1>2. /\ Image(a).initrd = [i \in 1..Len(a.paths) |-> Content[a.paths[i]]]
      /\ Image(b).initrd = [i \in 1..Len(b.paths) |-> Content[b.paths[i]]]
  BY <1>1 DEF Image
<1>3. Len(a.paths) = 1 /\ Len(b.paths) = 1
  <2>1. ASSUME NEW c \in Calls PROVE Len(Image(c).initrd) = Len(c.paths)
    <3>1. Len(c.paths) \in Nat /\ DOMAIN c.paths = 1..Len(c.paths)
      BY HashesOfLayers
    <3>2. Image(c).initrd = [i \in 1..Len(c.paths) |-> Content[c.paths[i]]]
      BY <3>1 DEF Image
    <3>3. PICK f : f = Image(c).initrd
      OBVIOUS
    <3>4. f = [i \in 1..Len(c.paths) |-> f[i]]
      BY <3>2, <3>3
    <3>5. Len(f) = Len(c.paths)
      BY <3>1, <3>4, FunctionIsSeq
    <3> QED BY <3>3, <3>5
  <2> QED BY <2>1
<1>4. Content[a.paths[1]] = Content[b.paths[1]]
  <2>1. 1 \in 1..Len(a.paths) /\ 1 \in 1..Len(b.paths)
    BY <1>3
  <2>2. Image(a).initrd[1] = Content[a.paths[1]]
    BY <1>2, <2>1, Zenon
  <2>3. Image(b).initrd[1] = Content[b.paths[1]]
    BY <1>2, <2>1, Zenon
  <2> QED BY <2>2, <2>3
<1>5. ASSUME NEW c \in Calls, Len(c.paths) = 1
      PROVE  generate_os_release(c).build_id
               = <<Cut(sha256(Content[c.kernel])), Cut(sha256(c.cmdline)),
                   [i \in 1..1 |-> [label |-> "initrd", sha |-> Cut(sha256(Content[c.paths[1]]))]]>>
  <2> DEFINE id == generate_os_release(c).build_id
             layers == [i \in 1..1 |-> [label |-> "initrd", sha |-> Cut(sha256(Content[c.paths[1]]))]]
  <2>1. /\ id[1] = Cut(sha256(Content[c.kernel])) /\ id[2] = Cut(sha256(c.cmdline))
        /\ id = <<id[1], id[2], id[3]>>
        /\ id[3] = [i \in 1..Len(c.paths) |->
             [label |-> IF Len(c.paths) = 1 THEN "initrd" ELSE layer_hashes(c)[i].label,
              sha |-> Cut(sha256(Content[c.paths[i]]))]]
    BY BuildId
  <2> HIDE DEF id
  <2>2. id[3] = layers
    BY <1>5, <2>1
  <2> HIDE DEF layers
  <2> QED BY <2>1, <2>2 DEF id, layers
<1> QED BY <1>3, <1>4, <1>5

\* An image with a generated os-release shows what the call was given.
LEMMA OutImage ==
  ASSUME NEW image \in {Absent, Torn} \cup {Image(a) : a \in Calls}, Generated(image)
  PROVE  \E a \in Calls :
           /\ image.linux = Content[a.kernel] /\ image.cmdline = a.cmdline
           /\ image.initrd = Image(a).initrd
           /\ image.initrd = [i \in DOMAIN a.paths |-> Content[a.paths[i]]]
           /\ image.osrel.build_id = generate_os_release(a).build_id
<1> PICK a \in Calls : image = Image(a)
  BY DEF Generated
<1>1. a.os_release = None
  <2> SUFFICES ASSUME a.os_release # None PROVE FALSE
    OBVIOUS
  <2>1. image.osrel = [file |-> Content[a.os_release]]
    BY DEF Image
  <2> QED BY <2>1 DEF Generated
<1>2. image.osrel = generate_os_release(a)
  BY <1>1 DEF Image
<1> QED BY <1>2 DEF Image

-----------------------------------------------------------------------------
(* The theorems.                                                           *)

LEMMA InvHolds == Spec => []Inv
<1>1. Inv /\ [Next]_vars => Inv'
  BY TypeStep, EngineStep, PairStep, SignStep DEF Inv
<1> QED BY InitInv, <1>1, PTL DEF Spec

\* The state of the build host has its type, a job the fields of its step.
THEOREM TypeCorrect == Spec => []MkukiTypeOK
<1>1. Inv => MkukiTypeOK
  BY DEF Inv
<1> QED BY InvHolds, <1>1, PTL

\* A signed call of mkuki that ended well left what stage0 admits, whatever
\* mkuki, keygen and sign did before, are doing, or were killed doing.
THEOREM SignedReleaseIsAdmitted == Spec => []ReleaseIsAdmitted
BY InvHolds, InvImplies, PTL

\* Between calls the engine has no container but those that mkuki could not
\* remove.
THEOREM NoContainerIsForgotten == Spec => []ExportCleansUp
BY InvHolds, InvImplies, PTL

\* An image that replaces one with the same generated BUILD_ID differs from it
\* only where the hashes that are kept do not, and a lone layer is described
\* alike however it was given.
THEOREM BuildIdIsTraceable == Spec => BuildIdTraces
<1> DEFINE same(i, j) ==
             /\ i.osrel.build_id = j.osrel.build_id =>
                  /\ Alike(i.linux, j.linux) /\ Alike(i.cmdline, j.cmdline)
                  /\ DOMAIN i.initrd = DOMAIN j.initrd
                  /\ \A n \in DOMAIN i.initrd : Alike(i.initrd[n], j.initrd[n])
             /\ i.linux = j.linux /\ i.cmdline = j.cmdline /\ i.initrd = j.initrd
                /\ Len(i.initrd) = 1 => i.osrel.build_id = j.osrel.build_id
<1>1. ASSUME MkukiTypeOK, MkukiTypeOK', Generated(out), Generated(out')
      PROVE  same(out, out')
  <2> PICK a \in Calls :
        /\ out.linux = Content[a.kernel] /\ out.cmdline = a.cmdline
        /\ out.initrd = Image(a).initrd
        /\ out.initrd = [i \in DOMAIN a.paths |-> Content[a.paths[i]]]
        /\ out.osrel.build_id = generate_os_release(a).build_id
    BY <1>1, OutImage DEF MkukiTypeOK
  <2> PICK b \in Calls :
        /\ out'.linux = Content[b.kernel] /\ out'.cmdline = b.cmdline
        /\ out'.initrd = Image(b).initrd
        /\ out'.initrd = [i \in DOMAIN b.paths |-> Content[b.paths[i]]]
        /\ out'.osrel.build_id = generate_os_release(b).build_id
    BY <1>1, OutImage DEF MkukiTypeOK
  <2>1. ASSUME out.osrel.build_id = out'.osrel.build_id
        PROVE  /\ Alike(out.linux, out'.linux) /\ Alike(out.cmdline, out'.cmdline)
               /\ DOMAIN out.initrd = DOMAIN out'.initrd
               /\ \A n \in DOMAIN out.initrd : Alike(out.initrd[n], out'.initrd[n])
    <3>1. /\ Alike(Content[a.kernel], Content[b.kernel]) /\ Alike(a.cmdline, b.cmdline)
          /\ DOMAIN a.paths = DOMAIN b.paths
          /\ \A i \in DOMAIN a.paths : Alike(Content[a.paths[i]], Content[b.paths[i]])
      BY <2>1, BuildIdTells
    <3>2. DOMAIN out.initrd = DOMAIN a.paths /\ DOMAIN out'.initrd = DOMAIN b.paths
      OBVIOUS
    <3>3. ASSUME NEW n \in DOMAIN a.paths PROVE Alike(out.initrd[n], out'.initrd[n])
      <4>1. out.initrd[n] = Content[a.paths[n]] /\ out'.initrd[n] = Content[b.paths[n]]
        BY <3>1
      <4> QED BY <3>1, <4>1
    <3> QED BY <3>1, <3>2, <3>3
  <2>2. ASSUME out.linux = out'.linux, out.cmdline = out'.cmdline, out.initrd = out'.initrd,
               Len(out.initrd) = 1
        PROVE  out.osrel.build_id = out'.osrel.build_id
    BY <2>2, LoneLayer
  <2> QED BY <2>1, <2>2
<1>2. Inv /\ Inv' => (Generated(out) /\ Generated(out') => same(out, out'))
  BY <1>1 DEF Inv
<1> HIDE DEF same
<1>3. Inv /\ Inv' /\ [Next]_vars => [Generated(out) /\ Generated(out') => same(out, out')]_vars
  BY <1>2
<1>4. Spec => [][Generated(out) /\ Generated(out') => same(out, out')]_vars
  BY InvHolds, <1>3, PTL DEF Spec
<1> QED BY <1>4 DEF BuildIdTraces, same
=============================================================================
