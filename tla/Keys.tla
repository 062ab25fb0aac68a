-------------------------------- MODULE Keys --------------------------------
(***************************************************************************)
(* The release key and what is signed with it on the build host:           *)
(* `lockboot-deploy keygen` and `sign`, and how a PKCS#8 file is read.     *)
(*                                                                         *)
(* A seed stands for its key pair.  A key file is written in place, so it  *)
(* may be left cut anywhere: before or inside the base64 body, or behind   *)
(* it (only the END line is missing).                                      *)
(***************************************************************************)
EXTENDS Signing

CONSTANTS
  None,
  Absent,      \* there is no such file
  Torn,        \* a file cut short by a crash while it was written
  Seeds,       \* seeds that /dev/urandom may give
  OldSeed,     \* the seed of a key made before, with another tool
  Tags         \* the --domain strings `sign` is given

VARIABLES
  key,         \* the private key file: seed, and how much of it is there
  pub,         \* the public key file
  keygen_job,  \* a running keygen: its seed, --pub, and what it writes next
  paired,      \* the last keygen wrote both files and ended well
  out, sig     \* linux.efi and linux.efi.sig

keyVars == <<key, pub, keygen_job, paired>>

KeyFile == [seed : Seeds \cup {OldSeed}, part : {"none", "cut", "body", "all"}]

pubkey_b64_from_seed(seed) == [base64 |-> TRUE, len |-> 32, key |-> seed]

pem_from_seed(seed) == [seed |-> seed, part |-> "all"]

\* A plausible bug: the seed is taken from as many bytes as there are, another
\* seed when some are missing.
seed_from_pkcs8_pem_padded(f) ==
  IF f = Absent \/ f.part = "none" THEN None
  ELSE IF f.part = "cut" THEN Torn ELSE f.seed

\* The 32 bytes behind the marker, or an error when they are not all there.
seed_from_pkcs8_pem(f) ==
  IF f # Absent /\ f.part \in {"body", "all"} THEN f.seed ELSE None

-----------------------------------------------------------------------------

KeysTypeOK ==
  /\ key \in KeyFile \cup {Absent}
  /\ pub \in {Absent, Torn} \cup {pubkey_b64_from_seed(s) : s \in Seeds \cup {OldSeed}}
  /\ keygen_job = None \/ (keygen_job.seed \in Seeds /\ keygen_job.todo \in {"key", "pub"})
  /\ paired \in BOOLEAN

\* Nothing yet, or a key pair that another tool made.
KeysInit ==
  /\ \/ key = Absent /\ pub = Absent
     \/ /\ key = pem_from_seed(OldSeed)
        /\ pub = pubkey_b64_from_seed(OldSeed)
  /\ keygen_job = None
  /\ paired = FALSE

\* keygen starts: random_seed.
keygen ==
  /\ keygen_job = None
  /\ \E seed \in Seeds, pub_out \in BOOLEAN :
       keygen_job' = [seed |-> seed, pub_out |-> pub_out, todo |-> "key"]
  /\ paired' = FALSE
  /\ UNCHANGED <<key, pub, out, sig>>

\* The file is truncated and written in one step; keygen_dies has it cut.
write_private ==
  /\ keygen_job # None /\ keygen_job.todo = "key"
  /\ key' = pem_from_seed(keygen_job.seed)
  /\ keygen_job' = IF keygen_job.pub_out THEN [keygen_job EXCEPT !.todo = "pub"] ELSE None
  /\ UNCHANGED <<pub, paired, out, sig>>

write_pub ==
  /\ keygen_job # None /\ keygen_job.todo = "pub"
  /\ pub' = pubkey_b64_from_seed(keygen_job.seed)
  /\ keygen_job' = None
  /\ paired' = TRUE
  /\ UNCHANGED <<key, out, sig>>

\* keygen is killed or a write fails; the file at hand is as it was or cut.
keygen_dies ==
  /\ keygen_job # None
  /\ keygen_job' = None
  /\ \/ UNCHANGED <<key, pub>>
     \/ /\ keygen_job.todo = "key"
        /\ \E part \in {"none", "cut", "body"} :
             key' = [pem_from_seed(keygen_job.seed) EXCEPT !.part = part]
        /\ UNCHANGED pub
     \/ keygen_job.todo = "pub" /\ pub' = Torn /\ UNCHANGED key
  /\ UNCHANGED <<paired, out, sig>>

\* sign --domain --key --in linux.efi --out linux.efi.sig, with the file as it
\* is; the signature may be left cut.  Anything unreadable ends it before.
sign_file ==
  /\ \E tag \in Tags :
       /\ tag \in Domain /\ out # Absent /\ seed_from_pkcs8_pem(key) # None
       /\ sig' \in {sign(seed_from_pkcs8_pem(key), tag, out), Torn}
  /\ UNCHANGED <<key, pub, keygen_job, paired, out>>

KeysNext == keygen \/ write_private \/ write_pub \/ keygen_dies \/ sign_file
=============================================================================
