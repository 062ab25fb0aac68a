------------------------------ MODULE MCMkuki ------------------------------
(***************************************************************************)
(* A small build host for TLC.                                             *)
(***************************************************************************)
EXTENDS Mkuki

\* "app.v1.tar", "app.v2.tar" and "app.v3.tar" get the same label.
MCContent ==
  [platform |-> "modules", app_v1 |-> "app1", app_v2 |-> "app2", app_v3 |-> "app3",
   empty |-> Hollow, lost |-> Absent, vmlinuz |-> "linux", vmlinuz_new |-> "linux2",
   stub |-> "stub", osrel |-> "ID=mine"]
MCLabel ==
  [platform |-> "platform", app_v1 |-> "app", app_v2 |-> "app", app_v3 |-> "app",
   empty |-> "empty", lost |-> "lost", vmlinuz |-> "vmlinuz", vmlinuz_new |-> "vmlinuz",
   stub |-> "stub", osrel |-> "osrel"]

\* The hashes of two of the contents start alike.
MCCut(hash) == IF hash = sha256("app3") THEN sha256("app1") ELSE hash

Call(rootfs, paths, os_release, sign_key) ==
  [rootfs |-> rootfs, paths |-> paths, kernel |-> "vmlinuz", stub |-> "stub", id |-> "stage1",
   os_release |-> os_release, cmdline |-> "ro", uname |-> None, sign_key |-> sign_key]

\* Two signed releases and unsigned builds on one output: of a layer whose hash
\* starts like another's, of another kernel, of another command line, of a lone
\* layer given as such.  And calls that fail: a container image, a file or the
\* layers are missing, a layer is empty.
MCCalls ==
  { [Call("docker", <<"app_v1">>, None, TRUE) EXCEPT !.uname = "6.1"],
    Call("layers", <<"platform", "app_v2">>, None, TRUE),
    Call("layers", <<"platform", "app_v1">>, None, FALSE),
    Call("layers", <<"platform", "app_v3">>, None, FALSE),
    [Call("rootfs", <<"app_v1">>, None, FALSE) EXCEPT !.kernel = "vmlinuz_new"],
    [Call("layers", <<"app_v1">>, None, FALSE) EXCEPT !.id = "mine"],
    [Call("layers", <<"app_v1">>, None, FALSE) EXCEPT !.cmdline = "rw"],
    Call("docker", <<"lost">>, None, FALSE), Call("rootfs", <<"empty">>, None, FALSE),
    Call("rootfs", <<"app_v1">>, "lost", FALSE), Call("none", <<>>, None, FALSE) }
=============================================================================
