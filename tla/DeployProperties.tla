-------------------------- MODULE DeployProperties --------------------------
(***************************************************************************)
(* What an instance gets from the mirrors that the output directory of     *)
(* lockboot-deploy is synced to, with the user-data.json it was started    *)
(* with: the current one, or any that was current once.                    *)
(***************************************************************************)
EXTENDS Deploy

-----------------------------------------------------------------------------
(* The mirrors.                                                            *)

Readable(content) == content \notin {Absent, Torn}

\* What a mirror has at URL u, or at u with ".sig" appended: every base has a
\* copy of the directory.
Content(u, sig) ==
  LET n == Len(u.path)
  IN  IF \E b \in Base : \E arch \in Arch, f \in File :
           u = Compose(b, <<arch, f.name>>)
      THEN dir[u.path[n - 1]][[name |-> u.path[n], sig |-> sig]]
      ELSE Absent

SignedAt(u, pubkey, domain) ==
  /\ Readable(Content(u, FALSE))
  /\ verify(pubkey, domain, Content(u, FALSE), Content(u, TRUE))

-----------------------------------------------------------------------------
(* The instance, in the terms of what it runs.                             *)

PayloadDomain(stage) == IF stage = "_stage1" THEN "stage1.uki" ELSE "stage2.payload"
ManifestDomain(stage) == IF stage = "_stage1" THEN "stage1.manifest" ELSE "stage2.manifest"

\* The argument lists that an instance may take for payload p.
Argvs(p) ==
  IF p.args_url # None
  THEN {Content(u, FALSE).args :
          u \in {u \in ToSet(p.args_url) : SignedAt(u, p.ed25519, "stage2.args")}}
  ELSE {IF p.args = None THEN <<>> ELSE p.args}

\* What it may run from URL u of payload p.
RunsFrom(p, stage, u) ==
  IF \/ /\ p.sha256 # None
        /\ Readable(Content(u, FALSE))
        /\ eq_ignore_ascii_case(p.sha256, sha256(Content(u, FALSE)))
     \/ p.sha256 = None /\ SignedAt(u, p.ed25519, PayloadDomain(stage))
  THEN {[code |-> Content(u, FALSE), args |-> v] : v \in Argvs(p)}
  ELSE {}

Mirrors(e) == ToSet(IF IsManifest(e) THEN e.manifest.url ELSE e.payload.url)

\* What it may run under entry e when it turns to mirror u of the entry.
OutcomesAt(e, stage, u) ==
  IF ~ IsManifest(e)
  THEN RunsFrom(Fields(e.payload), stage, u)
  ELSE IF /\ SignedAt(u, e.manifest.ed25519, ManifestDomain(stage))
          /\ Given(e.manifest.sha256) =>
               eq_ignore_ascii_case(e.manifest.sha256, sha256(Content(u, FALSE)))
  THEN LET p == Fields(Content(u, FALSE).payload)
       IN  UNION {RunsFrom(p, stage, w) : w \in ToSet(p.url)}
  ELSE {}

\* What `create` was asked to deploy.
Promised(a, stage) ==
  IF stage = "_stage1"
  THEN [code |-> a.uki, args |-> <<>>]
  ELSE [code |-> a.stage2, args |-> IF a.args = None THEN <<>> ELSE a.args]

-----------------------------------------------------------------------------
(* Properties.                                                             *)

\* Once `create` has finished, every mirror in the entries of its architecture
\* gives exactly the payloads and arguments it was asked to deploy, whatever
\* was created for other architectures, left behind by earlier or broken runs,
\* or done to the mirror lists since.  (create, merge_user_data, rewrite_urls)
ReleaseIsServed ==
  doc \notin {Absent, Torn} =>
    \A arch \in Arch : released[arch] # None =>
      \A s \in Stage :
        /\ doc[s][arch] # Absent
        /\ \A u \in Mirrors(doc[s][arch]) :
             OutcomesAt(doc[s][arch], s, u) = {Promised(released[arch], s)}

\* Release b is a successor of a for instances that hold a's entry: same key
\* and same way of admission.
Succeeds(b, a) ==
  /\ b.key = a.key /\ a.key # None
  /\ b.manifest = a.manifest
  /\ b.sign_args = a.sign_args

\* "The binary rolls forward with no reconfiguration: re-sign it, push it,
\* reboot": an instance that still has an older user-data.json runs the new
\* release, with the new arguments where they are bound by a signature.
\* (build_payload, wrap_manifest)
RollsForward ==
  \A p \in published :
    LET b == released[p.arch]
    IN  b # None /\ Succeeds(b, p.a) =>
          \A u \in Mirrors(p.entry) :
            IF b.manifest \/ b.sign_args
            THEN OutcomesAt(p.entry, p.stage, u) = {Promised(b, p.stage)}
            ELSE {o.code : o \in OutcomesAt(p.entry, p.stage, u)}
                   = {Promised(b, p.stage).code}

\* A manifest binds the payload and its arguments: at no moment, between the
\* writes of a `create` or after one that died, does an instance with a
\* manifest entry run the payload of one release with the arguments of
\* another.  (payload_key: the payload inside a manifest is pinned)
NoMixture ==
  \A p \in published : p.a.manifest =>
    \A u \in Mirrors(p.entry) : \A o \in OutcomesAt(p.entry, p.stage, u) :
      \E a \in Creates : /\ a.arch = p.arch /\ a.key = p.a.key
                         /\ o = Promised(a, p.stage)

\* "what it emits is exactly what stage0/stage1 accept" (README.md:115): a
\* user-data.json that can be read at all passes the admission rules.  It
\* holds of `create`; `modify` writes what it computed without validating it,
\* an empty mirror list or an https mirror for the UKI included.
EmittedIsAccepted == doc \notin {Absent, Torn} => check_stage(doc)

\* "URLs are composed as `<base>/<arch>/<file>`" (crates/deploy/src/main.rs:87):
\* every mirror in an entry is a base, the architecture and a file of the
\* directory.  `modify` appends the whole path of the first URL to an added
\* base, the path of the first URL's own base included.
MirrorsFollowTheLayout ==
  doc \notin {Absent, Torn} =>
    \A s \in Stage, arch \in Arch : doc[s][arch] # Absent =>
      \A u \in Mirrors(doc[s][arch]) : \E b \in Base, f \in File :
        u = Compose(b, <<arch, f.name>>)
=============================================================================
