---------------------------- MODULE TrustedBoot ----------------------------
(***************************************************************************)
(* What stage1 promises, without saying how it gets there: authority over  *)
(* the boot passes from the received document through signed manifests,    *)
(* code is admitted only under that authority, is measured before it runs  *)
(* when there is a TPM to measure into, and nothing else ever runs.        *)
(* Mirrors, retries, signature files, memfds and the metadata services do  *)
(* not appear.                                                             *)
(***************************************************************************)
EXTENDS Resolution

CONSTANTS Issued, AsDoc(_), AsArgs(_)

VARIABLES
  phase,        \* how far the boot is
  privileged,   \* runs as root, so the TPM is used
  authority,    \* the document in force
  chain,        \* the manifests that led to it
  code, argv, config,   \* what was admitted
  measured      \* what was extended into PCR 14

avars == <<phase, privileged, authority, chain, code, argv, config, measured>>

AInit ==
  /\ phase = "waiting"
  /\ privileged \in BOOLEAN
  /\ authority = None /\ chain = <<>>
  /\ code = None /\ argv = <<>> /\ config = None
  /\ measured = <<>>

Receive ==
  /\ phase = "waiting"
  /\ phase' = "resolving"
  /\ authority' \in UserData
  /\ UNCHANGED <<privileged, chain, code, argv, config, measured>>

\* Manifest b, found at murl, may speak for the pointer m.
Speaks(m, murl, b) ==
  /\ \E i \in 1..Len(m.url) : m.url[i] = murl
  /\ m.sha256 # None => eq_ignore_ascii_case(m.sha256, sha256(b))
  /\ sign(m.ed25519.key, "stage2.manifest", b) \in Issued

\* Authority passes to a manifest signed by the key that the document in
\* force points to, and to no manifest twice.
Delegate ==
  /\ phase = "resolving"
  /\ ArchConfigParses(authority.entry) /\ IsManifest(authority.entry)
  /\ LET m == Fields(authority.entry.manifest)
     IN  \E b \in Bytes, murl \in Url :
           /\ Speaks(m, murl, b)
           /\ ~ IsCycle(chain, murl, b)
           /\ AsDoc(b) # Malformed
           /\ chain' = Append(chain, Hop(m, murl, b))
           /\ authority' = deep_merge(RemovePointer(authority), AsDoc(b))
  /\ UNCHANGED <<phase, privileged, code, argv, config, measured>>

\* The document in force lets b run.
Entitles(p, b) ==
  IF p.sha256 # None
  THEN eq_ignore_ascii_case(p.sha256, sha256(b))
  ELSE sign(p.ed25519.key, "stage2.payload", b) \in Issued

\* The arguments the document in force asks for: those signed for the same
\* key if it says where they are, otherwise its own.
EntitledArgv(p, v) ==
  IF p.args_url # None
  THEN \E b \in Bytes : /\ sign(p.ed25519.key, "stage2.args", b) \in Issued
                        /\ v = AsArgs(b)
  ELSE v = Argv(p, None)

AdmitCode ==
  /\ phase = "resolving"
  /\ ArchConfigParses(authority.entry) /\ ~ IsManifest(authority.entry)
  /\ LET p == Fields(authority.entry.payload)
     IN  /\ admission(p, "Stage1")
         /\ code' \in {b \in Bytes : Entitles(p, b)}
         /\ argv' \in Seq(Arg) /\ EntitledArgv(p, argv')
  /\ config' = StdinFor(authority, authority, chain)
  /\ phase' = "admitted"
  /\ UNCHANGED <<privileged, authority, chain, measured>>

\* Measured once, before it runs; a TPM that reports an error afterwards
\* stops the boot.
Measure ==
  /\ phase = "admitted"
  /\ privileged
  /\ measured = <<>>
  /\ measured' = <<sha256(code)>>
  /\ phase' \in {"measured", "stopped"}
  /\ UNCHANGED <<privileged, authority, chain, code, argv, config>>

Run ==
  /\ phase = IF privileged THEN "measured" ELSE "admitted"
  /\ phase' = "running"
  /\ UNCHANGED <<privileged, authority, chain, code, argv, config, measured>>

\* Any doubt stops the boot.
Stop ==
  /\ phase \notin {"running", "stopped"}
  /\ phase' = "stopped"
  /\ UNCHANGED <<privileged, authority, chain, code, argv, config, measured>>

ANext == Receive \/ Delegate \/ AdmitCode \/ Measure \/ Run \/ Stop

ASpec == AInit /\ [][ANext]_avars
=============================================================================
