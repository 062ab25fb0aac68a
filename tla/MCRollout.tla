------------------------------ MODULE MCRollout ------------------------------
(***************************************************************************)
(* Two releases, two mirrors and one instance for TLC.                     *)
(***************************************************************************)
EXTENDS Rollout

CONSTANTS u1, s1, s2   \* a UKI and two stage2 payloads

MkBase(host) == [scheme |-> "http", graphic |-> TRUE, host |-> host, path |-> <<>>]
cdn1 == MkBase("cdn1")
cdn2 == MkBase("cdn2")
MCBase == {cdn1, cdn2}
MCKeys == {"k1"}
MCArg == {"x", "y"}
MCBytes == {u1, s1, s2}
MCUrl == {Compose(b, <<arch, f.name>>) : b \in Base, arch \in Arch, f \in File}

Release(stage2, args) ==
  [arch |-> "x86_64", uki |-> u1, stage2 |-> stage2, key |-> "k1",
   base_url |-> <<cdn1, cdn2>>, args |-> args, sign_args |-> FALSE, manifest |-> TRUE]

MCCreates == { Release(s1, <<"x">>), Release(s2, <<"y">>) }
NoModifies == {}
=============================================================================
