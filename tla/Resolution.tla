----------------------------- MODULE Resolution -----------------------------
(***************************************************************************)
(* The functions of stage1 that resolve_payload is built from: where a     *)
(* document's signatures and arguments are found, how a signed manifest is *)
(* merged over a document, and what a hop leaves behind.                   *)
(***************************************************************************)
EXTENDS Metadata, Signing

CONSTANTS
  Malformed,   \* bytes that are not JSON, or not of the type asked for
  Scalar       \* JSON bytes that are not an object

-----------------------------------------------------------------------------
(* Locations.                                                              *)

\* The digests of everything that may be downloaded.
Digest == {sha256(b) : b \in Bytes}

\* A location that is requested: a URL of the document as it stands, or with
\* {sha256} replaced by a digest, or with ".sig" appended.
Location == [url : Url, digest : Digest \cup {None}, sig : BOOLEAN]

\* A URL of the document, requested as it stands.
At(u) == [url |-> u, digest |-> None, sig |-> FALSE]

substitute(list, hash) ==
  [i \in 1..Len(list) |->
     [At(list[i]) EXCEPT !.digest = IF list[i].template THEN hash ELSE None]]

\* format!("{url}.sig")
DotSig(locations) ==
  [i \in 1..Len(locations) |-> [locations[i] EXCEPT !.sig = TRUE]]

-----------------------------------------------------------------------------
(* deep_merge on the levels of a document: an object merges key by key,    *)
(* anything else is replaced by the overlay.                               *)

\* A plausible bug: keys that are already there are kept.
Overlay_base_wins(b, o) == IF b = Absent THEN o ELSE b

Overlay(b, o) == IF o = Absent THEN b ELSE o

MergeLeaves(b, o) ==
  IF Given(b) /\ Given(o)
  THEN [f \in DOMAIN b |-> Overlay(b[f], o[f])]
  ELSE Overlay(b, o)

MergeEntry(b, o) ==
  IF Given(b) /\ Given(o)
  THEN [payload |-> MergeLeaves(b.payload, o.payload),
        manifest |-> MergeLeaves(b.manifest, o.manifest),
        resolved_manifests |->
          Overlay(b.resolved_manifests, o.resolved_manifests)]
  ELSE Overlay(b, o)

\* A scalar overlay replaces the whole document.
deep_merge(b, o) ==
  IF o = Scalar
  THEN [entry |-> Absent, app |-> Absent]
  ELSE [entry |-> MergeEntry(b.entry, o.entry), app |-> Overlay(b.app, o.app)]

\* A plausible bug: the pointer stays and the next one is merged into it.
RemovePointer_kept(d) == d

\* e.remove("manifest")
RemovePointer(d) == [d EXCEPT !.entry.manifest = Absent]

\* The record of a hop: the URL that served it and the digest it had.
Hop(m, murl, b) ==
  [url |-> <<murl>>, ed25519 |-> m.ed25519, sig_url |-> m.sig_url,
   sha256 |-> sha256(b)]

\* A plausible bug: only the previous hop is looked at.
IsCycle_last_hop(history, murl, b) ==
  /\ history # <<>>
  /\ history[Len(history)].sha256 = sha256(b)
  /\ history[Len(history)].url = <<murl>>

\* The same bytes were already resolved from the same URL.
IsCycle(history, murl, b) ==
  \E i \in 1..Len(history) :
    history[i].sha256 = sha256(b) /\ history[i].url = <<murl>>

\* A plausible bug: the key is only filled in when it is missing.
set_resolved_manifests_if_absent(d, history) ==
  IF d.entry.resolved_manifests = Absent
  THEN [d EXCEPT !.entry.resolved_manifests = history] ELSE d

\* Stamp the verifier's own history over the arch entry.
set_resolved_manifests(d, history) ==
  [d EXCEPT !.entry.resolved_manifests = history]

\* The document for stdin: as received unless a manifest was merged into it.
StdinFor(d, raw, history) ==
  IF history = <<>> THEN raw ELSE set_resolved_manifests(d, history)

\* A plausible bug: no default when there are no arguments at all.
Argv_no_default(p, signed_args) ==
  IF signed_args # None THEN signed_args ELSE p.args

\* signed_args.or(p.args).unwrap_or_default()
Argv(p, signed_args) ==
  IF signed_args # None THEN signed_args
  ELSE IF p.args # None THEN p.args ELSE <<>>
=============================================================================
