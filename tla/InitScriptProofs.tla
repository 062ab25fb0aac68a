-------------------------- MODULE InitScriptProofs --------------------------
(***************************************************************************)
(* Proofs about /init: what every path of the script has done when stage1  *)
(* starts, and that the script never stops of its own doing.               *)
(***************************************************************************)
EXTENDS InitScript, TLAPS

-----------------------------------------------------------------------------
(* The steps of the script.                                                *)

Has(S, s, n) == s \in Seq(S) /\ Len(s) = n

\* r has the m elements of s, then the n of t.
Joins(S, r, s, m, t, n) ==
  Has(S, r, m + n) /\ (\A i \in 1..m : r[i] = s[i]) /\ (\A i \in 1..n : r[m + i] = t[i])

LEMMA ConcatIs ==
  ASSUME NEW S, NEW m \in Nat, NEW n \in Nat, NEW s, NEW t, Has(S, s, m), Has(S, t, n)
  PROVE  Joins(S, s \o t, s, m, t, n)
BY DEF Has, Joins

Parts(S) == /\ Has(S, Mounts, 4) /\ Has(S, Modules, 9) /\ Has(S, Latches, 3)
            /\ Has(S, Hardening, 3) /\ Has(S, Network, 6)

LEMMA PartsTyped == \E S : Parts(S)
<1>1. \A a, b, c, S : {a, b, c} \subseteq S => Has(S, <<a, b, c>>, 3)
  BY DEF Has
<1>2. \A a, b, c, d, S : {a, b, c, d} \subseteq S => Has(S, <<a, b, c, d>>, 4)
  BY DEF Has
<1>3. \A a, b, c, d, e, f, S : {a, b, c, d, e, f} \subseteq S => Has(S, <<a, b, c, d, e, f>>, 6)
  BY DEF Has
<1>4. \A a, b, c, d, e, f, g, h, i, S :
        {a, b, c, d, e, f, g, h, i} \subseteq S => Has(S, <<a, b, c, d, e, f, g, h, i>>, 9)
  BY DEF Has
<1>5. PICK S : S = {Mounts[i] : i \in 1..4} \cup {Modules[i] : i \in 1..9}
                   \cup {Latches[i] : i \in 1..3} \cup {Hardening[i] : i \in 1..3}
                   \cup {Network[i] : i \in 1..6}
  OBVIOUS
<1>6. Has(S, Mounts, 4)
  <2>1. PICK a, b, c, d : Mounts = <<a, b, c, d>>
    BY DEF Mounts
  <2> QED BY <1>2, <1>5, <2>1
<1>7. Has(S, Modules, 9)
  <2>1. PICK a, b, c, d, e, f, g, h, i : Modules = <<a, b, c, d, e, f, g, h, i>>
    BY DEF Modules
  <2> QED BY <1>4, <1>5, <2>1
<1>8. Has(S, Latches, 3)
  <2>1. PICK a, b, c : Latches = <<a, b, c>>
    BY DEF Latches
  <2> QED BY <1>1, <1>5, <2>1
<1>9. Has(S, Hardening, 3)
  <2>1. PICK a, b, c : Hardening = <<a, b, c>>
    BY DEF Hardening
  <2> QED BY <1>1, <1>5, <2>1
<1>10. Has(S, Network, 6)
  <2>1. PICK a, b, c, d, e, f : Network = <<a, b, c, d, e, f>>
    BY DEF Network
  <2> QED BY <1>3, <1>5, <2>1
<1> QED BY <1>6, <1>7, <1>8, <1>9, <1>10 DEF Parts

\* Where the parts of the script are.
LEMMA ScriptIs ==
  /\ \A i \in 1..4 : Script[i] = Mounts[i]
  /\ \A i \in 1..9 : Script[4 + i] = Modules[i]
  /\ \A i \in 1..3 : Script[13 + i] = Latches[i]
  /\ \A i \in 1..3 : Script[16 + i] = Hardening[i]
  /\ \A i \in 1..6 : Script[19 + i] = Network[i]
<1>1. PICK S, a, b, c, d, e : /\ a = Mounts /\ b = Modules /\ c = Latches /\ d = Hardening
                              /\ e = Network
                              /\ Has(S, a, 4) /\ Has(S, b, 9) /\ Has(S, c, 3)
                              /\ Has(S, d, 3) /\ Has(S, e, 6)
  BY PartsTyped DEF Parts
<1>2. PICK x : x = a \o b
  OBVIOUS
<1>3. /\ Has(S, x, 13) /\ \A i \in 1..4 : x[i] = a[i]
      /\ \A i \in 1..9 : x[4 + i] = b[i]
  <2>1. 4 \in Nat /\ 9 \in Nat /\ 4 + 9 = 13
    OBVIOUS
  <2>2. Joins(S, a \o b, a, 4, b, 9)
    BY <1>1, <2>1, ConcatIs, Zenon
  <2> QED BY <1>2, <2>1, <2>2 DEF Joins
<1>4. PICK y : y = x \o c
  OBVIOUS
<1>5. /\ Has(S, y, 16) /\ \A i \in 1..13 : y[i] = x[i]
      /\ \A i \in 1..3 : y[13 + i] = c[i]
  <2>1. 13 \in Nat /\ 3 \in Nat /\ 13 + 3 = 16
    OBVIOUS
  <2>2. Joins(S, x \o c, x, 13, c, 3)
    BY <1>1, <1>3, <2>1, ConcatIs, Zenon
  <2> QED BY <1>4, <2>1, <2>2 DEF Joins
<1>6. PICK z : z = y \o d
  OBVIOUS
<1>7. /\ Has(S, z, 19) /\ \A i \in 1..16 : z[i] = y[i]
      /\ \A i \in 1..3 : z[16 + i] = d[i]
  <2>1. 16 \in Nat /\ 3 \in Nat /\ 16 + 3 = 19
    OBVIOUS
  <2>2. Joins(S, y \o d, y, 16, d, 3)
    BY <1>1, <1>5, <2>1, ConcatIs, Zenon
  <2> QED BY <1>6, <2>1, <2>2 DEF Joins
<1>8. PICK w : w = z \o e
  OBVIOUS
<1>9. /\ Has(S, w, 25) /\ \A i \in 1..19 : w[i] = z[i]
      /\ \A i \in 1..6 : w[19 + i] = e[i]
  <2>1. 19 \in Nat /\ 6 \in Nat /\ 19 + 6 = 25
    OBVIOUS
  <2>2. Joins(S, z \o e, z, 19, e, 6)
    BY <1>1, <1>7, <2>1, ConcatIs, Zenon
  <2> QED BY <1>8, <2>1, <2>2 DEF Joins
<1>10. Script = w
  <2>1. Script = (((a \o b) \o c) \o d) \o e
    BY <1>1 DEF Script
  <2> QED BY <1>2, <1>4, <1>6, <1>8, <2>1
<1> QED BY <1>1, <1>3, <1>5, <1>7, <1>9, <1>10

\* The steps that the script goes on only after.
Required(s) == s.on_error \in {"die", "exit"} /\ ~ s.absent_ok
Must(s, op, name) == s.op = op /\ s.name = name /\ Required(s)

\* What the steps are, part by part.
LEMMA MountsAre ==
  /\ Must(Script[1], "mount", "proc") /\ Must(Script[2], "mount", "sysfs")
  /\ Must(Script[3], "mount", "devtmpfs") /\ Must(Script[4], "mount", "tmpfs")
<1>1. ASSUME NEW j \in 1..4 PROVE Script[j] = Mounts[j - 0]
  <2>1. j - 0 \in 1..4 /\ 0 + (j - 0) = j
    OBVIOUS
  <2> QED BY <2>1, ScriptIs
<1>2. /\ Script[1] = Mounts[1] /\ Script[2] = Mounts[2] /\ Script[3] = Mounts[3]
      /\ Script[4] = Mounts[4]
  BY <1>1
<1>3. /\ Must(Mounts[1], "mount", "proc") /\ Must(Mounts[2], "mount", "sysfs")
      /\ Must(Mounts[3], "mount", "devtmpfs") /\ Must(Mounts[4], "mount", "tmpfs")
  BY DEF Mounts, Must, Required, Step, mount
<1> QED BY <1>2, <1>3

LEMMA ModulesAre ==
  /\ Must(Script[5], "mod", "rng-core") /\ Script[6].op = "mod" /\ Script[7].op = "mod"
  /\ Must(Script[8], "mod", "virtio") /\ Script[9].op = "mod" /\ Script[10].op = "mod"
  /\ Must(Script[11], "mod", "vsock") /\ Must(Script[12], "mod", "storage stack")
  /\ Must(Script[13], "mod", "nvme")
<1>1. ASSUME NEW j \in 5..13 PROVE Script[j] = Modules[j - 4]
  <2>1. j - 4 \in 1..9 /\ 4 + (j - 4) = j
    OBVIOUS
  <2> QED BY <2>1, ScriptIs
<1>2. /\ Script[5] = Modules[1] /\ Script[6] = Modules[2] /\ Script[7] = Modules[3]
      /\ Script[8] = Modules[4] /\ Script[9] = Modules[5] /\ Script[10] = Modules[6]
      /\ Script[11] = Modules[7] /\ Script[12] = Modules[8] /\ Script[13] = Modules[9]
  BY <1>1
<1>3. /\ Must(Modules[1], "mod", "rng-core") /\ Modules[2].op = "mod"
      /\ Modules[3].op = "mod" /\ Must(Modules[4], "mod", "virtio") /\ Modules[5].op = "mod"
      /\ Modules[6].op = "mod" /\ Must(Modules[7], "mod", "vsock")
      /\ Must(Modules[8], "mod", "storage stack") /\ Must(Modules[9], "mod", "nvme")
  BY DEF Modules, Must, Required, Step, mod, mod_opt
<1> QED BY <1>2, <1>3

LEMMA LatchesAre ==
  /\ Must(Script[14], "sysctl", "modules_disabled")
  /\ Must(Script[15], "sysctl", "kexec_load_disabled")
  /\ Must(Script[16], "sysctl", "unprivileged_bpf_disabled")
<1>1. ASSUME NEW j \in 14..16 PROVE Script[j] = Latches[j - 13]
  <2>1. j - 13 \in 1..3 /\ 13 + (j - 13) = j
    OBVIOUS
  <2> QED BY <2>1, ScriptIs
<1>2. /\ Script[14] = Latches[1] /\ Script[15] = Latches[2] /\ Script[16] = Latches[3]
  BY <1>1
<1>3. /\ Must(Latches[1], "sysctl", "modules_disabled")
      /\ Must(Latches[2], "sysctl", "kexec_load_disabled")
      /\ Must(Latches[3], "sysctl", "unprivileged_bpf_disabled")
  BY DEF Latches, Must, Required, Step, sysctl
<1> QED BY <1>2, <1>3

LEMMA HardeningIs ==
  /\ Must(Script[17], "sysctl", "lockdown") /\ Script[18].op = "sysctl"
  /\ Must(Script[19], "sysctl", "baseline")
<1>1. ASSUME NEW j \in 17..19 PROVE Script[j] = Hardening[j - 16]
  <2>1. j - 16 \in 1..3 /\ 16 + (j - 16) = j
    OBVIOUS
  <2> QED BY <2>1, ScriptIs
<1>2. /\ Script[17] = Hardening[1] /\ Script[18] = Hardening[2] /\ Script[19] = Hardening[3]
  BY <1>1
<1>3. /\ Must(Hardening[1], "sysctl", "lockdown") /\ Hardening[2].op = "sysctl"
      /\ Must(Hardening[3], "sysctl", "baseline")
  BY DEF Hardening, Must, Required, Step, sysctl, sysctl_f
<1> QED BY <1>2, <1>3

LEMMA NetworkIs ==
  /\ Script[20].op = "link" /\ Script[21].op = "find" /\ Script[22].op = "link"
  /\ Script[23].op = "udhcpc" /\ Must(Script[24], "inet", "eth")
  /\ Must(Script[25], "exec", "stage1") /\ Script[23].name = "eth"
  /\ ~ Script[23].absent_ok
<1>1. ASSUME NEW j \in 20..25 PROVE Script[j] = Network[j - 19]
  <2>1. j - 19 \in 1..6 /\ 19 + (j - 19) = j
    OBVIOUS
  <2> QED BY <2>1, ScriptIs
<1>2. /\ Script[20] = Network[1] /\ Script[21] = Network[2] /\ Script[22] = Network[3]
      /\ Script[23] = Network[4] /\ Script[24] = Network[5] /\ Script[25] = Network[6]
  BY <1>1
<1>3. /\ Network[1].op = "link" /\ Network[2].op = "find" /\ Network[3].op = "link"
      /\ Network[4].op = "udhcpc" /\ Must(Network[5], "inet", "eth")
      /\ Must(Network[6], "exec", "stage1") /\ Network[4].name = "eth"
      /\ ~ Network[4].absent_ok
  BY DEF Network, Must, Required, Step
<1> QED BY <1>2, <1>3

\* The order of the script by the kind of step.
LEMMA OpsAre ==
  ASSUME NEW i \in 1..25
  PROVE  /\ i <= 4 => Script[i].op = "mount"
         /\ 5 <= i /\ i <= 13 => Script[i].op = "mod"
         /\ 14 <= i /\ i <= 19 => Script[i].op = "sysctl"
         /\ i \in {20, 22} => Script[i].op = "link"
         /\ i = 21 => Script[i].op = "find"
         /\ i = 23 => Script[i].op = "udhcpc"
         /\ i = 24 => Script[i].op = "inet"
         /\ i = 25 => Script[i].op = "exec"
<1>1. CASE i <= 4
  <2>1. i \in {1, 2, 3, 4}
    BY <1>1
  <2>2. /\ Script[1].op = "mount" /\ Script[2].op = "mount" /\ Script[3].op = "mount"
        /\ Script[4].op = "mount"
    BY MountsAre DEF Must, Required
  <2> QED BY <2>1, <2>2
<1>2. CASE 5 <= i /\ i <= 13
  <2>1. i \in {5, 6, 7, 8, 9, 10, 11, 12, 13}
    BY <1>2
  <2>2. /\ Script[5].op = "mod" /\ Script[6].op = "mod" /\ Script[7].op = "mod"
        /\ Script[8].op = "mod" /\ Script[9].op = "mod" /\ Script[10].op = "mod"
        /\ Script[11].op = "mod" /\ Script[12].op = "mod" /\ Script[13].op = "mod"
    BY ModulesAre DEF Must, Required
  <2> QED BY <2>1, <2>2
<1>3. CASE 14 <= i /\ i <= 19
  <2>1. i \in {14, 15, 16, 17, 18, 19}
    BY <1>3
  <2>2. /\ Script[14].op = "sysctl" /\ Script[15].op = "sysctl" /\ Script[16].op = "sysctl"
        /\ Script[17].op = "sysctl" /\ Script[18].op = "sysctl" /\ Script[19].op = "sysctl"
    BY LatchesAre, HardeningIs DEF Must
  <2> QED BY <2>1, <2>2
<1>4. CASE i >= 20
  <2>1. i \in {20, 21, 22, 23, 24, 25}
    BY <1>4
  <2> QED BY <2>1, NetworkIs DEF Must
<1> QED BY <1>1, <1>2, <1>3, <1>4

-----------------------------------------------------------------------------
(* The invariant.                                                          *)

ScriptInv ==
  /\ line \in 1..26 /\ at \in {"script", "stage1", "off", "panic"}
  /\ at = "script" => line <= 25
  /\ at = "stage1" => line = 26
  /\ faulty \in BOOLEAN

\* What was done is of the script so far; what must not fail was done; and
\* without a fault everything was.
DoneInv ==
  /\ \A s \in done : \E i \in 1..(line - 1) : s = Script[i]
  /\ at \in {"script", "stage1"} =>
       \A i \in 1..(line - 1) : Required(Script[i]) => Script[i] \in done
  /\ ~ faulty =>
       /\ at \in {"script", "stage1"}
       /\ \A i \in 1..(line - 1) : ~ Script[i].absent_ok => Script[i] \in done

\* The address was there when it was asked for.
AddressInv == Script[24] \in done => "eth" \in Names("udhcpc")

\* Without a fault the next step can succeed.
LEMMA NextIsPossible ==
  ASSUME ScriptInv, DoneInv, at = "script", ~ faulty
  PROVE  Possible(Script[line])
<1>1. PICK l \in 1..25 : l = line
  BY DEF ScriptInv
<1>2. PICK d : d = done
  OBVIOUS
<1>3. /\ \A s \in d : \E i \in 1..(l - 1) : s = Script[i]
      /\ \A i \in 1..(l - 1) : ~ Script[i].absent_ok => Script[i] \in d
  BY <1>1, <1>2 DEF DoneInv
<1>4. ASSUME l > 4 PROVE {"proc", "sysfs", "devtmpfs"} \subseteq Names("mount")
  <2>1. 1 \in 1..(l - 1) /\ 2 \in 1..(l - 1) /\ 3 \in 1..(l - 1)
    BY <1>4
  <2>2. Script[1] \in d /\ Script[2] \in d /\ Script[3] \in d
    BY <1>3, <2>1, MountsAre DEF Must, Required
  <2> QED BY <1>2, <2>2, MountsAre DEF Names, Must
<1>5. ASSUME l <= 13 PROVE "modules_disabled" \notin Names("sysctl")
  <2>1. ASSUME NEW s \in d PROVE s.op # "sysctl"
    <3>1. PICK i \in 1..(l - 1) : s = Script[i]
      BY <1>3
    <3>2. i \in 1..25 /\ (i <= 4 \/ (5 <= i /\ i <= 13))
      BY <1>5
    <3> QED BY <3>1, <3>2, OpsAre
  <2> QED BY <1>2, <2>1 DEF Names
<1>6. ASSUME l = 21 PROVE "virtio" \in Names("mod")
  <2>1. 8 \in 1..(l - 1)
    BY <1>6
  <2>2. Script[8] \in d
    BY <1>3, <2>1, ModulesAre DEF Must, Required
  <2> QED BY <1>2, <2>2, ModulesAre DEF Names, Must
<1>7. ASSUME l = 24 PROVE "eth" \in Names("udhcpc")
  <2>1. 23 \in 1..(l - 1)
    BY <1>7
  <2>2. Script[23] \in d
    BY <1>3, <2>1, NetworkIs
  <2> QED BY <1>2, <2>2, NetworkIs DEF Names
<1>8. PICK o : o = Script[l].op
  OBVIOUS
<1>9. /\ l <= 4 => o = "mount"
      /\ 5 <= l /\ l <= 13 => o = "mod"
      /\ 14 <= l /\ l <= 19 => o = "sysctl"
      /\ l \in {20, 22} => o = "link"
      /\ l = 21 => o = "find"
      /\ l = 23 => o = "udhcpc"
      /\ l = 24 => o = "inet"
      /\ l = 25 => o = "exec"
  BY <1>8, OpsAre
<1>10. /\ o \in {"mod", "sysctl", "link", "udhcpc"} => l > 4
       /\ o = "mod" => l <= 13
       /\ o = "find" => l = 21
       /\ o = "inet" => l = 24
  BY <1>9
<1> QED BY <1>1, <1>4, <1>5, <1>6, <1>7, <1>8, <1>10 DEF Possible

\* The last step is the one that ends the script.
LEMMA ExecIsLast ==
  ASSUME NEW i \in 1..25
  PROVE  Script[i].op = "exec" <=> i = 25
<1>1. i \in 1..19 \/ i \in {20, 21, 22, 23, 24, 25}
  OBVIOUS
<1> QED BY <1>1, OpsAre

\* One step, by where it leaves the script.
LEMMA ScriptStep ==
  ASSUME ScriptInv, DoneInv, Next
  PROVE  ScriptInv'
<1>1. PICK l \in 1..25 : l = line /\ line' = l + 1 /\ at = "script"
  BY DEF ScriptInv, Next
<1>2. PICK s : s = Script[l]
  OBVIOUS
<1>3. s.op = "exec" <=> l = 25
  BY <1>2, ExecIsLast
<1>4. l = 25 => Required(s)
  BY <1>2, NetworkIs DEF Must
<1>5. Succeeds(s) \/ Fails(s) \/ Skips(s)
  BY <1>1, <1>2 DEF Next
<1>6. faulty' \in BOOLEAN
  BY <1>5, Zenon DEF ScriptInv, Succeeds, Fails, Skips
<1>7. /\ at' \in {"script", "stage1", "off", "panic"}
      /\ at' = "script" => l # 25
      /\ at' = "stage1" => l = 25
  BY <1>1, <1>3, <1>4, <1>5 DEF Succeeds, Fails, Skips, OnError, Required
<1> QED BY <1>1, <1>6, <1>7 DEF ScriptInv

LEMMA DoneStep ==
  ASSUME ScriptInv, DoneInv, Next
  PROVE  DoneInv'
<1>1. PICK l \in 1..25 : l = line /\ line' = l + 1 /\ at = "script"
  BY DEF ScriptInv, Next
<1>2. PICK s : s = Script[l]
  OBVIOUS
<1>3. \A i \in 1..((l + 1) - 1) : i \in 1..(l - 1) \/ i = l
  OBVIOUS
<1>4. l \in 1..((l + 1) - 1) /\ \A i \in 1..(l - 1) : i \in 1..((l + 1) - 1)
  OBVIOUS
<1>5. /\ \A x \in done : \E i \in 1..(l - 1) : x = Script[i]
      /\ \A i \in 1..(l - 1) : Required(Script[i]) => Script[i] \in done
      /\ ~ faulty => \A i \in 1..(l - 1) : ~ Script[i].absent_ok => Script[i] \in done
  BY <1>1 DEF DoneInv
<1>6. CASE Succeeds(s)
  <2>1. /\ done' = done \cup {s} /\ at' \in {"script", "stage1"} /\ faulty' = faulty
    BY <1>6 DEF Succeeds
  <2>2. \A x \in done' : \E i \in 1..((l + 1) - 1) : x = Script[i]
    BY <1>2, <1>4, <1>5, <2>1
  <2>3. \A i \in 1..((l + 1) - 1) : Required(Script[i]) => Script[i] \in done'
    BY <1>2, <1>3, <1>5, <2>1
  <2>4. ~ faulty' => \A i \in 1..((l + 1) - 1) : ~ Script[i].absent_ok => Script[i] \in done'
    BY <1>2, <1>3, <1>5, <2>1
  <2> QED BY <1>1, <2>1, <2>2, <2>3, <2>4 DEF DoneInv
<1>7. CASE Fails(s)
  <2>1. done' = done /\ at' = OnError(s) /\ (faulty' <=> faulty \/ Possible(s))
    BY <1>7, Zenon DEF Fails
  <2>2. \A x \in done' : \E i \in 1..((l + 1) - 1) : x = Script[i]
    BY <1>4, <1>5, <2>1
  <2>3. at' \in {"script", "stage1"} => ~ Required(s)
    BY <2>1 DEF OnError, Required
  <2>4. ASSUME at' \in {"script", "stage1"}, NEW i \in 1..((l + 1) - 1), Required(Script[i])
        PROVE  Script[i] \in done'
    BY <1>2, <1>3, <1>5, <2>1, <2>3, <2>4
  <2>5. faulty'
    <3>1. CASE faulty
      BY <2>1, <3>1
    <3>2. CASE ~ faulty
      BY <1>1, <1>2, <2>1, <3>2, NextIsPossible
    <3> QED BY <3>1, <3>2
  <2> QED BY <1>1, <2>2, <2>4, <2>5 DEF DoneInv
<1>8. CASE Skips(s)
  <2>1. done' = done /\ at' = at /\ faulty' = faulty /\ s.absent_ok
    BY <1>8 DEF Skips
  <2>2. \A x \in done' : \E i \in 1..((l + 1) - 1) : x = Script[i]
    BY <1>4, <1>5, <2>1
  <2>3. \A i \in 1..((l + 1) - 1) : Required(Script[i]) => Script[i] \in done'
    BY <1>2, <1>3, <1>5, <2>1 DEF Required
  <2>4. ~ faulty' => \A i \in 1..((l + 1) - 1) : ~ Script[i].absent_ok => Script[i] \in done'
    BY <1>2, <1>3, <1>5, <2>1
  <2> QED BY <1>1, <2>1, <2>2, <2>3, <2>4 DEF DoneInv
<1> QED BY <1>1, <1>2, <1>6, <1>7, <1>8 DEF Next

LEMMA AddressStep ==
  ASSUME ScriptInv, AddressInv, Next
  PROVE  AddressInv'
<1>1. PICK s : s = Script[line]
  OBVIOUS
<1>2. CASE Succeeds(s)
  <2>1. done' = done \cup {s} /\ Possible(s)
    BY <1>2 DEF Succeeds
  <2>2. "eth" \in Names("udhcpc") => "eth" \in Names("udhcpc")'
    BY <2>1 DEF Names
  <2>3. CASE Script[24] \in done
    BY <2>2, <2>3 DEF AddressInv
  <2>4. CASE s = Script[24]
    <3>1. s.op = "inet"
      BY <2>4, NetworkIs DEF Must
    <3> QED BY <2>1, <2>2, <3>1 DEF Possible, AddressInv
  <2> QED BY <2>1, <2>3, <2>4 DEF AddressInv
<1>3. CASE Fails(s) \/ Skips(s)
  <2>1. done' = done
    BY <1>3 DEF Fails, Skips
  <2> QED BY <2>1 DEF AddressInv, Names
<1> QED BY <1>1, <1>2, <1>3 DEF Next

-----------------------------------------------------------------------------
(* The theorems.                                                           *)

ScriptInvs == ScriptInv /\ DoneInv /\ AddressInv

LEMMA Invariance == Spec => []ScriptInvs
<1>1. Init => ScriptInvs
  <2> SUFFICES ASSUME Init PROVE ScriptInvs
    OBVIOUS
  <2>1. at = "script" /\ line = 1 /\ done = {} /\ ~ faulty /\ faulty \in BOOLEAN
    BY DEF Init
  <2>2. ScriptInv
    BY <2>1 DEF ScriptInv
  <2>3. DoneInv /\ AddressInv
    BY <2>1 DEF DoneInv, AddressInv
  <2> QED BY <2>2, <2>3 DEF ScriptInvs
<1>2. ScriptInvs /\ [Next]_vars => ScriptInvs'
  <2>1. ScriptInvs /\ Next => ScriptInvs'
    BY ScriptStep, DoneStep, AddressStep DEF ScriptInvs
  <2>2. ScriptInvs /\ UNCHANGED vars => ScriptInvs'
    <3> SUFFICES ASSUME ScriptInvs, UNCHANGED vars PROVE ScriptInvs'
      OBVIOUS
    <3>1. at' = at /\ line' = line /\ done' = done /\ faulty' = faulty
      BY DEF vars
    <3> QED BY <3>1 DEF ScriptInvs, ScriptInv, DoneInv, AddressInv, Names
  <2> QED BY <2>1, <2>2
<1> QED BY <1>1, <1>2, PTL DEF Spec

\* When stage1 starts, the kernel is locked down, the drivers are there and
\* the interface has an address, whichever commands of the script failed: a
\* step that is needed cannot fail and be passed, and the address is checked
\* apart from the DHCP client's status.  (mod, sysctl, die, the DHCP check)
THEOREM HandsOffReady == Spec => []HandOff
<1>1. ScriptInvs => HandOff
  <2> SUFFICES ASSUME ScriptInvs, at = "stage1" PROVE HandOff
    BY DEF HandOff
  <2>1. PICK d : d = done
    OBVIOUS
  <2>2. \A i \in 1..25 : Required(Script[i]) => Script[i] \in d
    <3>1. line = 26
      BY DEF ScriptInvs, ScriptInv
    <3>2. 1..(line - 1) = 1..25
      BY <3>1
    <3> QED BY <2>1, <3>2 DEF ScriptInvs, DoneInv
  <2>3. ASSUME NEW i \in 1..25, NEW op, NEW name, Must(Script[i], op, name)
        PROVE  name \in Names(op)
    BY <2>1, <2>2, <2>3 DEF Must, Names
  <2>4. {"modules_disabled", "kexec_load_disabled", "unprivileged_bpf_disabled",
         "lockdown", "baseline"} \subseteq Names("sysctl")
    <3>1. 14 \in 1..25 /\ 15 \in 1..25 /\ 16 \in 1..25 /\ 17 \in 1..25 /\ 19 \in 1..25
      OBVIOUS
    <3>2. /\ "modules_disabled" \in Names("sysctl") /\ "kexec_load_disabled" \in Names("sysctl")
          /\ "unprivileged_bpf_disabled" \in Names("sysctl")
      BY <2>3, <3>1, LatchesAre, Zenon
    <3>3. "lockdown" \in Names("sysctl") /\ "baseline" \in Names("sysctl")
      BY <2>3, <3>1, HardeningIs, Zenon
    <3> QED BY <3>2, <3>3
  <2>5. {"rng-core", "virtio", "vsock", "storage stack", "nvme"} \subseteq Names("mod")
    <3>1. 5 \in 1..25 /\ 8 \in 1..25 /\ 11 \in 1..25 /\ 12 \in 1..25 /\ 13 \in 1..25
      OBVIOUS
    <3>2. "rng-core" \in Names("mod") /\ "virtio" \in Names("mod")
      BY <2>3, <3>1, ModulesAre, Zenon
    <3>3. "vsock" \in Names("mod") /\ "storage stack" \in Names("mod") /\ "nvme" \in Names("mod")
      BY <2>3, <3>1, ModulesAre, Zenon
    <3> QED BY <3>2, <3>3
  <2>6. "eth" \in Names("udhcpc")
    <3>1. Script[24] \in done
      BY <2>1, <2>2, NetworkIs DEF Must
    <3> QED BY <3>1 DEF ScriptInvs, AddressInv
  <2> QED BY <2>4, <2>5, <2>6 DEF HandOff
<1> QED BY <1>1, Invariance, PTL

\* The script never stops by its own doing: while nothing outside it fails,
\* each step finds what it needs and nothing it has closed.  (the order of the
\* script)
THEOREM StopsOnFaultOnly == Spec => []StopsOnlyOnFault
<1>1. ScriptInvs => StopsOnlyOnFault
  BY DEF ScriptInvs, DoneInv, StopsOnlyOnFault
<1> QED BY <1>1, Invariance, PTL
=============================================================================
