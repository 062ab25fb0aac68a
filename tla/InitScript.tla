----------------------------- MODULE InitScript -----------------------------
(***************************************************************************)
(* /init of the UKI (tools/build-uki/init): process 1 mounts the kernel's  *)
(* file systems, loads the modules, sets the one-way latches and the       *)
(* hardening sysctls, brings the network up and becomes stage1.            *)
(*                                                                         *)
(* Modules and sysctls that the script treats alike are one step here.     *)
(* Under `set -e` a command that fails ends the shell, and with process 1  *)
(* the kernel panics; `die` powers the machine off.                        *)
(***************************************************************************)
EXTENDS Naturals, Sequences

\* on_error: what the script does when the call fails ("exit": set -e).
\* absent_ok: `sysctl -f`, which skips a file that is not there.
Step(op, name, on_error, absent_ok) ==
  [op |-> op, name |-> name, on_error |-> on_error, absent_ok |-> absent_ok]

mount(name) == Step("mount", name, "exit", FALSE)
mod(name) == Step("mod", name, "die", FALSE)
mod_opt(name) == Step("mod", name, "go on", FALSE)      \* mod -q, mod -w
sysctl(name) == Step("sysctl", name, "die", FALSE)
sysctl_f(name) == Step("sysctl", name, "die", TRUE)

Mounts == <<mount("proc"), mount("sysfs"), mount("devtmpfs"), mount("tmpfs")>>
Modules == <<mod("rng-core"), mod_opt("intel-rng"), mod_opt("amd-rng"), mod("virtio"),
             mod_opt("gve"), mod_opt("ena"),
             mod("vsock"), mod("storage stack"), mod("nvme")>>
Latches == <<sysctl("modules_disabled"), sysctl("kexec_load_disabled"),
             sysctl("unprivileged_bpf_disabled")>>
\* fq_codel, which "baseline" makes the default, is taken to be built in: a
\* module could not be loaded for it any more.
Hardening == <<sysctl("lockdown"), sysctl_f("nmi"), sysctl("baseline")>>
Network == <<Step("link", "lo", "exit", FALSE), Step("find", "eth", "die", FALSE),
             Step("link", "eth", "exit", FALSE), Step("udhcpc", "eth", "go on", FALSE),
             Step("inet", "eth", "die", FALSE), Step("exec", "stage1", "exit", FALSE)>>

\* A plausible bug: the kernel is locked before the drivers are there.
Script_latches_first == Mounts \o Latches \o Modules \o Hardening \o Network

Script == Mounts \o Modules \o Latches \o Hardening \o Network

VARIABLES
  at,      \* "script", "stage1", "off" or "panic"
  line,    \* the step of the script that is next
  done,    \* the steps that had their effect
  faulty   \* something outside the script failed

vars == <<at, line, done, faulty>>

Names(op) == {s.name : s \in {t \in done : t.op = op}}

Init == at = "script" /\ line = 1 /\ done = {} /\ faulty = FALSE

-----------------------------------------------------------------------------

\* Whether the call can succeed at all after what was done before.
Possible(s) ==
  /\ s.op \in {"mod", "sysctl", "link", "udhcpc"} => 
       {"proc", "sysfs", "devtmpfs"} \subseteq Names("mount")
  /\ s.op = "mod" => "modules_disabled" \notin Names("sysctl")
  /\ s.op = "find" => "virtio" \in Names("mod")
  /\ s.op = "inet" => "eth" \in Names("udhcpc")

Succeeds(s) ==
  /\ Possible(s)
  /\ done' = done \cup {s}
  /\ at' = IF s.op = "exec" THEN "stage1" ELSE "script"
  /\ UNCHANGED faulty

\* A plausible bug: the status of the DHCP pipeline is believed; it is that of
\* its last command.
OnError_pipeline(s) ==
  IF s.op = "inet" THEN "script"
  ELSE IF s.on_error = "die" THEN "off" ELSE IF s.on_error = "exit" THEN "panic" ELSE "script"

\* `die`, `set -e`, or the next step.
OnError(s) ==
  IF s.on_error = "die" THEN "off" ELSE IF s.on_error = "exit" THEN "panic" ELSE "script"

\* The call fails of itself, or because it cannot succeed.
Fails(s) ==
  /\ at' = OnError(s)
  /\ faulty' = (faulty \/ Possible(s))
  /\ UNCHANGED done

\* A kernel without this sysctl.
Skips(s) == s.absent_ok /\ UNCHANGED <<at, done, faulty>>

Next ==
  /\ at = "script"
  /\ Succeeds(Script[line]) \/ Fails(Script[line]) \/ Skips(Script[line])
  /\ line' = line + 1

Spec == Init /\ [][Next]_vars

-----------------------------------------------------------------------------
(* Properties.                                                             *)

\* "Lock down kernel before handing off to stage1/stage2": when stage1 starts,
\* every latch and every sysctl that is not optional is set, the modules that the
\* payload can never load any more are there, and the interface has an
\* address, whichever commands failed.  (mod, sysctl, die, the DHCP check)
HandOff ==
  at = "stage1" =>
    /\ {"modules_disabled", "kexec_load_disabled", "unprivileged_bpf_disabled",
        "lockdown", "baseline"} \subseteq Names("sysctl")
    /\ {"rng-core", "virtio", "vsock", "storage stack", "nvme"} \subseteq Names("mod")
    /\ "eth" \in Names("udhcpc")

\* The script stops only because something outside it failed, never because
\* of what it did itself: a module is not asked for after the latch, and so
\* on.  (the order of the script)
StopsOnlyOnFault == at \in {"off", "panic"} => faulty

\* "Oops! FUBAR! Shutdown! ... Failed to run stage1" (tools/build-uki/init:189-191):
\* when everything up to the `exec` of stage1 went well, the machine is powered
\* off if that fails.  A shell whose `exec` fails exits at once, so process 1
\* ends, the kernel panics and the lines behind are never reached.
FailedExecPowersOff == at = "panic" => "eth" \notin Names("inet")
=============================================================================
