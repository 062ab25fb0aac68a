------------------------------ MODULE MCDeploy ------------------------------
(***************************************************************************)
(* Small instances of lockboot-deploy for TLC.                             *)
(***************************************************************************)
EXTENDS DeployProperties

CONSTANTS u1, s1, s2   \* a UKI and two stage2 payloads

MkBase(scheme, graphic, host, path) ==
  [scheme |-> scheme, graphic |-> graphic, host |-> host, path |-> path]

cdn1 == MkBase("http", TRUE, "cdn1", <<>>)
cdn2 == MkBase("http", TRUE, "cdn2", <<>>)
odd  == MkBase("http", FALSE, "c dn", <<>>)

MCKeys == {"k1", "k2"}
MCArg == {"x", "y"}
MCBytes == {u1, s1, s2}
AllBases == {cdn1, cdn2, odd}
MCUrl == {Compose(b, <<arch, f.name>>) : b \in Base, arch \in Arch, f \in File}

Call(arch, stage2, key, bases, args, sign_args, manifest) ==
  [arch |-> arch, uki |-> u1, stage2 |-> stage2, key |-> key, base_url |-> bases,
   args |-> args, sign_args |-> sign_args, manifest |-> manifest]

\* Two releases under signed manifests, the second on fewer mirrors.
ManifestCreates ==
  { Call("x86_64", s1, "k1", <<cdn1, cdn2>>, <<"x">>, FALSE, TRUE),
    Call("x86_64", s2, "k1", <<cdn1>>, <<"y">>, FALSE, TRUE) }

\* Two signed releases with signed arguments, a pinned one for another
\* architecture, and calls that fail: refused at once, with arguments that do
\* not parse, with a base that the admission rules reject.
KeyCreates ==
  { Call("x86_64", s1, "k1", <<cdn1, cdn2>>, <<"x">>, TRUE, FALSE),
    Call("x86_64", s2, "k1", <<cdn1>>, <<"y">>, TRUE, FALSE),
    Call("aarch64", s2, None, <<cdn1>>, None, FALSE, FALSE),
    Call("x86_64", s1, "k1", <<cdn1>>, <<"x">>, TRUE, TRUE),
    Call("aarch64", s2, None, <<cdn1>>, Malformed, FALSE, FALSE),
    Call("x86_64", s1, None, <<odd>>, None, FALSE, FALSE) }

Edit(add, remove) == [add_base_url |-> add, remove_base_url |-> remove]
NoModifies == {}
MirrorModifies == { Edit(<<cdn2>>, <<>>), Edit(<<>>, <<cdn1>>) }

\* A mirror is added next to one whose base has a path.
deep == MkBase("http", TRUE, "cdn1", <<"releases">>)
DeepBases == {deep, cdn2}
DeepCreates == { Call("x86_64", s1, None, <<deep>>, None, FALSE, FALSE) }
AddModifies == { Edit(<<cdn2>>, <<>>) }
=============================================================================
