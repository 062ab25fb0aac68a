------------------------------ MODULE MCStage1 ------------------------------
(***************************************************************************)
(* Small instances of stage1 for TLC.                                      *)
(***************************************************************************)
EXTENDS Stage1Properties

CONSTANTS b1, b2, a1, m1, m2, m3, m4, m5, m6, m7   \* byte strings that are no signatures

-----------------------------------------------------------------------------
(* Building blocks.                                                        *)

MkUrl(name, scheme, template) ==
  [scheme |-> scheme, graphic |-> TRUE, template |-> template, name |-> name]

uA == MkUrl("a/stage2", "https", FALSE)
uB == MkUrl("b/stage2", "http", FALSE)
uBad == MkUrl("ftp", "other", FALSE)
uSigA == MkUrl("a/sigs/{sha256}", "https", TRUE)
uSigB == MkUrl("b/sigs", "http", FALSE)
uArgs == MkUrl("a/args", "https", FALSE)
uManA == MkUrl("a/manifest", "https", FALSE)
uManB == MkUrl("b/manifest", "http", FALSE)

MCUrl == {uA, uB, uBad, uSigA, uSigB, uArgs, uManA, uManB}
MCKeys == {"k1", "k2"}
MCArg == {"x", "y", Nul}
MCApp == {"mine", "theirs"}

Key(k) == [base64 |-> TRUE, len |-> 32, key |-> k]
ShortKey == [base64 |-> TRUE, len |-> 31, key |-> "k1"]
Upper(b) == [sha256(b) EXCEPT !.case = "upper"]
ShortHex(b) == [sha256(b) EXCEPT !.len = 63]

NoPayload ==
  [url |-> Absent, sha256 |-> Absent, ed25519 |-> Absent, sig_url |-> Absent,
   args |-> Absent, args_url |-> Absent, args_sig_url |-> Absent]
NoManifest ==
  [url |-> Absent, ed25519 |-> Absent, sig_url |-> Absent, sha256 |-> Absent]
NoEntry ==
  [payload |-> Absent, manifest |-> Absent, resolved_manifests |-> Absent]

Pinned(list, h) == [NoPayload EXCEPT !.url = list, !.sha256 = h]
KeyPinned(list, k) == [NoPayload EXCEPT !.url = list, !.ed25519 = Key(k)]
Pointer(list, k) == [NoManifest EXCEPT !.url = list, !.ed25519 = Key(k)]

Doc(e) == [entry |-> e, app |-> Absent]
PayloadDoc(p) == Doc([NoEntry EXCEPT !.payload = p])
ManifestDoc(m) == Doc([NoEntry EXCEPT !.manifest = m])

Stdin(docs) ==
  [root : BOOLEAN, pid1 : {FALSE}, attest : {FALSE}, stdin : docs,
   mfd_exec : BOOLEAN]

NoProvider == [e \in Endpoints |-> {Fail}]

-----------------------------------------------------------------------------
(* Direct payloads.                                                        *)

DirectIssued == {sign("k1", "stage2.payload", b1), sign("k1", "stage2.args", a1),
                 sign("k1", "stage1.uki", b2), sign("k2", "stage2.payload", b2)}
DirectArgs(b) == IF b = a1 THEN <<"y">> ELSE Malformed

DirectDocs ==
  LET Signed == KeyPinned(<<uA, uB>>, "k1")
  IN  { PayloadDoc(p) : p \in {
          Pinned(<<uA, uB>>, sha256(b1)),
          [Pinned(<<uA>>, Upper(b2)) EXCEPT !.args = <<"x">>],
          [Pinned(<<uA>>, sha256(b1)) EXCEPT !.args = <<"x", Nul>>],
          Signed,
          [Signed EXCEPT !.sig_url = <<uSigA, uSigB>>, !.args = <<"x">>],
          [Signed EXCEPT !.args = <<"x">>, !.args_url = <<uArgs>>],
          [Signed EXCEPT !.url = <<uA>>, !.args_url = <<uArgs, uSigA>>,
                         !.args_sig_url = <<uSigB>>],
          \* refused by admission
          [Signed EXCEPT !.sha256 = sha256(b1)],
          [Signed EXCEPT !.args_sig_url = <<uSigB>>],
          [Pinned(<<uA>>, sha256(b1)) EXCEPT !.args_url = <<uArgs>>],
          [Signed EXCEPT !.ed25519 = ShortKey],
          Pinned(<<uA>>, ShortHex(b1)),
          Pinned(<<>>, sha256(b1)),
          Pinned(<<uA, uBad>>, sha256(b1)),
          \* refused by the parser
          [Signed EXCEPT !.url = None] } }
      \cup { Doc(Absent), Doc(None), Doc(NoEntry) }

DirectLaunches ==
  Stdin(DirectDocs \cup {Malformed})
  \cup {[root |-> TRUE, pid1 |-> TRUE, attest |-> FALSE, mfd_exec |-> TRUE,
         stdin |-> d] : d \in DirectDocs}

-----------------------------------------------------------------------------
(* Chains of manifests.  k1 is the key of the received documents; it       *)
(* delegates to k2 and k2 back to k1.                                      *)

ChainIssued ==
  { sign("k1", "stage2.manifest", m) : m \in {m1, m2, m5, m6, m7} }
  \cup { sign("k2", "stage2.manifest", m) : m \in {m3, m4} }
  \cup { sign("k2", "stage1.manifest", m1), sign("k2", "stage2.payload", b2) }

Forged == <<[Pointer(<<uManA>>, "k2") EXCEPT !.sha256 = sha256(b2)]>>

ChainDoc(b) ==
  CASE b = m1 -> [entry |-> [NoEntry EXCEPT
                    !.payload = [Pinned(<<uA>>, sha256(b1)) EXCEPT !.args = <<"y">>],
                    !.resolved_manifests = Forged],
                  app |-> "theirs"]
    [] b = m2 -> ManifestDoc(Pointer(<<uManB>>, "k2"))
    [] b = m3 -> ManifestDoc([Pointer(<<uManA, uManB>>, "k1") EXCEPT !.sig_url = <<uSigA>>])
    [] b = m4 -> PayloadDoc([KeyPinned(<<uA>>, "k2") EXCEPT !.sha256 = None])
    [] b = m5 -> Scalar
    [] b = m7 -> [entry |-> Absent, app |-> "theirs"]
    [] OTHER -> Malformed

ChainDocs ==
  LET ptr == Pointer(<<uManA, uManB>>, "k1")
  IN  { ManifestDoc(ptr),
        ManifestDoc([ptr EXCEPT !.sha256 = Upper(m2), !.sig_url = <<uSigA, uSigB>>]),
        \* both variants: the manifest is resolved, the payload merged into
        [entry |-> [NoEntry EXCEPT !.manifest = ptr,
                      !.payload = [Pinned(<<uA>>, sha256(b2)) EXCEPT !.args = <<"x">>]],
         app |-> "mine"],
        \* refused by validate
        ManifestDoc([ptr EXCEPT !.url = <<uBad>>]),
        ManifestDoc([ptr EXCEPT !.ed25519 = ShortKey]),
        ManifestDoc([ptr EXCEPT !.sha256 = ShortHex(m1)]),
        \* refused by the parser, or not, as the variants are ordered
        Doc([NoEntry EXCEPT !.manifest = [ptr EXCEPT !.url = None],
                            !.payload = Pinned(<<uA>>, sha256(b2))]) }

ChainLaunches ==
  {[root |-> TRUE, pid1 |-> TRUE, attest |-> FALSE, mfd_exec |-> TRUE,
    stdin |-> d] : d \in ChainDocs}

-----------------------------------------------------------------------------
(* Metadata services: the machine is on Azure, the other two endpoints may *)
(* answer anything that is not a document.                                 *)

Response(ok, base64, body) == [ok |-> ok, base64 |-> base64, body |-> body]
PinnedDoc == PayloadDoc(Pinned(<<uA>>, sha256(b1)))

OnAzure ==
  [e \in Endpoints |->
     CASE e = "ec2 token" -> {Fail, Response(FALSE, FALSE, Malformed)}
       [] e = "azure" -> {Response(TRUE, TRUE, PinnedDoc)}
       [] OTHER -> {Fail, Response(FALSE, FALSE, Malformed),
                    Response(TRUE, TRUE, PinnedDoc),
                    Response(TRUE, FALSE, Doc([NoEntry EXCEPT !.payload = NoPayload]))}]

CloudLaunches ==
  [root : BOOLEAN, pid1 : BOOLEAN, attest : BOOLEAN, stdin : {None, Malformed},
   mfd_exec : {TRUE}]

\* EC2 answers a request for absent user-data with an error status whose body
\* is a JSON object; the machine is on Azure.
ErrorBody ==
  [OnAzure EXCEPT !["ec2"] = {Response(FALSE, FALSE, Doc(Absent))}]

-----------------------------------------------------------------------------
(* All of these, with mirrors that answer anything at any time.            *)

BootIssued == DirectIssued \cup ChainIssued
BootBytes == {b1, b2, a1, m1, m2, m3, m4, m5, m6, m7} \cup BootIssued
BootServes(l) == BootBytes \cup {Fail}
BootLaunches == DirectLaunches \cup ChainLaunches \cup CloudLaunches

-----------------------------------------------------------------------------
(* Mirrors: of every `url` list the first mirror answers anything and the  *)
(* last is reliable; of every other list the first is dead or right.       *)

MirrorIssued ==
  { sign("k1", "stage2.payload", b1), sign("k1", "stage2.args", a1),
    sign("k1", "stage2.manifest", m1) }
MirrorBytes == {b1, b2, a1, m1} \cup MirrorIssued
MirrorDoc(b) ==
  IF b = m1
  THEN PayloadDoc([KeyPinned(<<uB, uA>>, "k1") EXCEPT !.sig_url = <<uSigA, uSigB>>])
  ELSE Malformed

MirrorServes(l) ==
  LET right == CASE l.url \in {uA, uSigA, uSigB} -> b1
                 [] l.url = uArgs -> a1
                 [] OTHER -> m1
      signature == CASE right = b1 -> sign("k1", "stage2.payload", b1)
                     [] right = a1 -> sign("k1", "stage2.args", a1)
                     [] OTHER -> sign("k1", "stage2.manifest", m1)
  IN  CASE l.url \in {uB, uManA} -> MirrorBytes \cup {Fail}
        [] l.url = uSigA -> {Fail, signature}
        [] l.sig \/ l.url = uSigB -> {signature}
        [] OTHER -> {right}

MirrorDocs ==
  LET Signed == KeyPinned(<<uB, uA>>, "k1")
  IN  { PayloadDoc(Pinned(<<uB, uA>>, Upper(b1))),
        PayloadDoc(Signed),
        PayloadDoc([Signed EXCEPT !.sig_url = <<uSigA, uSigB>>]),
        PayloadDoc([Signed EXCEPT !.args_url = <<uArgs>>]),
        ManifestDoc(Pointer(<<uManA, uManB>>, "k1")) }

MirrorLaunches == Stdin(MirrorDocs)

-----------------------------------------------------------------------------
(* Two more environments, for statements that the code does not meet.      *)

\* A signature location that responds with something else comes first.
WrongSigServes(l) ==
  IF l.url = uSigA THEN {b2} ELSE MirrorServes(l)

\* A direct payload whose document claims a manifest chain.
ForgedLaunches ==
  Stdin({ [entry |-> [NoEntry EXCEPT !.payload = Pinned(<<uA>>, sha256(b1)),
                                     !.resolved_manifests = Forged],
           app |-> "mine"] })
=============================================================================
