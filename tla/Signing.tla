------------------------------ MODULE Signing ------------------------------
(***************************************************************************)
(* The ed25519-sign crate: domain-separated detached signatures.           *)
(*                                                                         *)
(* A signature covers sha256(domain tag) || sha256(message), so it is good *)
(* for one (hop, kind) only.  Hashing and ed25519 themselves are external: *)
(* a digest is the term that names its preimage (no collisions), and a     *)
(* signature is the term that names its key and what it covers.  Which     *)
(* signatures exist at all is a matter of the key holders; the modules     *)
(* that use this one say so with a set of issued signatures.               *)
(***************************************************************************)

\* ed25519_sign::Domain, written in the short form the CLI takes.
Domain == {"stage1.uki", "stage1.args", "stage1.manifest",
           "stage2.payload", "stage2.args", "stage2.manifest"}

\* hex::encode(sha256(bytes)): 64 lower-case hexadecimal characters.
sha256(bytes) ==
  [len |-> 64, hexdigits |-> TRUE, case |-> "lower", of |-> bytes]

\* A pin may be written in either case; the hash it is compared with is
\* lower case (str::eq_ignore_ascii_case, to_lowercase on both sides).
eq_ignore_ascii_case(h1, h2) == h1.len = h2.len /\ h1.of = h2.of

\* sha256(tag) || sha256(message); two domains never share a tag.
preimage(domain, message) == <<domain, sha256(message)>>

sign(key, domain, message) ==
  [key |-> key, over |-> preimage(domain, message)]

\* A plausible bug: the domain tag is left out of the preimage.
verify_any_domain(pubkey, domain, message, signature) ==
  /\ pubkey.base64
  /\ pubkey.len = 32
  /\ \E d \in Domain : signature = sign(pubkey.key, d, message)

\* The public key is the base64 string of a metadata field: a string that
\* does not decode to 32 bytes verifies nothing.
verify(pubkey, domain, message, signature) ==
  /\ pubkey.base64
  /\ pubkey.len = 32
  /\ signature = sign(pubkey.key, domain, message)
=============================================================================
