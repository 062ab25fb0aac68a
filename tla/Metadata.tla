------------------------------ MODULE Metadata ------------------------------
(***************************************************************************)
(* The metadata crate: the user-data document that stage0 and stage1 read  *)
(* and that the deploy tool writes, and the admission rules on it.         *)
(*                                                                         *)
(* A document is a tree of records.  A key that is not there has the value *)
(* Absent, a JSON null the value None; serde reads both as Option::None.   *)
(* Strings are records of what the rules can tell about them.              *)
(***************************************************************************)
EXTENDS Naturals, Sequences

CONSTANTS
  Absent,   \* no such key in the JSON object
  None,     \* a JSON null; Option::None once parsed
  Keys,     \* ed25519 public keys, decoded
  Url,      \* the URLs documents mention
  Bytes,    \* byte strings a server may hand out
  Arg,      \* command-line arguments
  App       \* what a document says outside _stage2.<arch>

ASSUME MetadataAssumption ==
  /\ Absent # None
  /\ \A u \in Url : /\ u.scheme \in {"http", "https", "other"}
                    /\ u.graphic \in BOOLEAN    \* all of it is printable ASCII
                    /\ u.template \in BOOLEAN   \* holds a {sha256} placeholder

-----------------------------------------------------------------------------
(* The shape of documents. *)

Maybe(S) == S \cup {Absent, None}

\* A bare string deserialises to a list of one.
UrlList == Seq(Url)

Hex == [len : Nat, hexdigits : BOOLEAN, case : {"lower", "upper"}, of : Bytes]

PubKey == [base64 : BOOLEAN, len : Nat, key : Keys]

Payload == [url          : Maybe(UrlList),
            sha256       : Maybe(Hex),
            ed25519      : Maybe(PubKey),
            sig_url      : Maybe(UrlList),
            args         : Maybe(Seq(Arg)),
            args_url     : Maybe(UrlList),
            args_sig_url : Maybe(UrlList)]

ManifestRef == [url     : Maybe(UrlList),
                ed25519 : Maybe(PubKey),
                sig_url : Maybe(UrlList),
                sha256  : Maybe(Hex)]

Entry == [payload            : Maybe(Payload),
          manifest           : Maybe(ManifestRef),
          resolved_manifests : Maybe(Seq(ManifestRef))]

\* `entry` is what _stage2.<arch> holds, `app` everything else.
UserData == [entry : Maybe(Entry), app : Maybe(App)]

\* A missing key and a null are told from every object.
ASSUME NoObject ==
  \A x \in {Absent, None} :
    /\ x \notin Payload /\ x \notin ManifestRef /\ x \notin Entry /\ x \notin UserData
    /\ x \notin UrlList /\ x \notin Hex /\ x \notin PubKey /\ x \notin Seq(Arg)

-----------------------------------------------------------------------------
(* Deserialisation: an absent or null optional field is None, an absent or *)
(* null required one is an error; resolved_manifests may be absent but not *)
(* null.                                                                   *)

Given(x) == x \notin {Absent, None}

Fields(r) == [f \in DOMAIN r |-> IF r[f] = Absent THEN None ELSE r[f]]

PayloadParses(p) == Given(p) /\ Given(p.url)

ManifestParses(m) == Given(m) /\ Given(m.url) /\ Given(m.ed25519)

\* from_value walks a sorted map, so "manifest" is the variant it takes when
\* an entry has both keys.
IsManifest(e) == e.manifest # Absent

\* (What the list resolved_manifests holds is not looked at, so that more is
\* accepted here than serde does.)
ArchConfigParses(e) ==
  /\ Given(e)
  /\ e.resolved_manifests # None
  /\ IF IsManifest(e) THEN ManifestParses(e.manifest)
                      ELSE PayloadParses(e.payload)

\* from_slice walks the text, so with both keys it takes the one written
\* first; the order is not kept here and either may be it.  An entry that is
\* absent or null is an Option::None, an entry with neither key an error.
UserDataParses(d) ==
  LET e == d.entry
  IN  IF ~ Given(e) THEN {TRUE}
      ELSE IF e.resolved_manifests = None THEN {FALSE}
      ELSE IF e.payload = Absent THEN {ManifestParses(e.manifest)}
      ELSE IF e.manifest = Absent THEN {PayloadParses(e.payload)}
      ELSE {PayloadParses(e.payload), ManifestParses(e.manifest)}

-----------------------------------------------------------------------------
(* Admission rules. *)

\* Stage0 admits the UKI over plain http, Stage1 has TLS.
Profile == {"Stage0", "Stage1"}

ok_url(s, allow_https) ==
  /\ s.scheme = "http" \/ (allow_https /\ s.scheme = "https")
  /\ s.graphic

ok_list(l, allow_https) ==
  l # <<>> /\ \A i \in 1..Len(l) : ok_url(l[i], allow_https)

ok_sha256(h) == h.len = 64 /\ h.hexdigits

ok_pubkey(k) == k.base64 /\ k.len = 32

\* Payload::admission returns Ok: the mode is then the one field of sha256 /
\* ed25519 that is given.
admission(p, profile) ==
  LET allow_https == profile = "Stage1"
  IN  /\ ok_list(p.url, allow_https)
      /\ \A f \in {"sig_url", "args_url", "args_sig_url"} :
            p[f] # None => ok_list(p[f], allow_https)
      /\ p.args_sig_url # None => p.args_url # None
      /\ \/ /\ p.sha256 # None
            /\ p.ed25519 = None
            /\ p.args_url = None
            /\ ok_sha256(p.sha256)
         \/ /\ p.sha256 = None
            /\ p.ed25519 # None
            /\ ok_pubkey(p.ed25519)

\* ManifestRef::validate returns Ok.
validate(m, profile) ==
  LET allow_https == profile = "Stage1"
  IN  /\ ok_list(m.url, allow_https)
      /\ m.sig_url # None => ok_list(m.sig_url, allow_https)
      /\ m.sha256 # None => ok_sha256(m.sha256)
      /\ ok_pubkey(m.ed25519)
=============================================================================
