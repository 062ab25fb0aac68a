# Verification of stage1 (lockboot)

TLA+ modules, TLC configurations and TLAPS proofs for the boot loader of this
repository, for the tools that build and deploy what it boots, and for the way
a release takes from the build host to a machine. Paths such as
`crates/stage1/src/main.rs` are relative to the root of the repository; the
exact lines behind every definition are listed under `map` in `PROJECT.json`.

    tlc -workers 2 -config MCBoot.cfg MCStage1       # one run
    tlapm Stage1SafetyProofs.tla                     # one module of proofs

## 1. The system

A machine boots a Unified Kernel Image whose initramfs runs `stage1` as PID 1.
stage1 obtains a JSON *user-data document*, resolves it through zero or more
signed manifests to a *payload* entry, downloads and admits the payload, takes
a TPM quote, extends PCR 14 with the payload's hash and executes the payload
from a sealed memfd with the document on its stdin. Any error powers the
machine off. `lockboot-deploy` runs on the operator's side: it fills the
directory that is synced to the mirrors and writes the user-data document.
`mkuki` builds the Unified Kernel Image itself, from a stub, a kernel and one or
more root file systems, and signs it.

| Component | State it keeps | Operations | Talks to |
|---|---|---|---|
| **stage1** (`crates/stage1`) | the document, the manifest history, mirror and signature lists being walked, the candidate and admitted bytes, PCR 14 and the quote, two memfds, fd 0 | read stdin or a metadata service; resolve; download; verify; merge; admit; quote; extend; write and seal memfds; exec; poweroff | EC2, GCP and Azure metadata services, mirrors over HTTP(S), the TPM, the kernel, the payload (stdin, argv) |
| **metadata** (`crates/metadata`) | none: the document types | deserialise, `admission`, `validate` | used by stage1 and deploy |
| **metadata schema** (`crates/metadata/schema`) | a JSON schema | none | read by editors only |
| **ed25519-sign** (`crates/ed25519-sign`) | none | domain-separated sign and verify, key encodings, a CLI | used by stage1 and deploy |
| **deploy** (`crates/deploy`) | the output directory and `user-data.json` | keygen, sign, create, modify, validate | the mirrors (the directory is synced), instances (the document) |
| **mkuki** (`crates/mkuki`) | the image and its signature; while it runs, the archive being built and a container | resolve layers, build a cpio archive of each, lay out the PE sections, write, sign | the container engine, the key file, the kernel (which unpacks the archives) |
| **init, udhcpc** (`tools/build-uki`) | mounts, loaded modules, kernel latches | mount, load modules, DHCP, lock down, exec stage1 | the kernel, stage1 |
| **example-stage2** | none | print stdin, power off | stage1 |
| **build and publish scripts** | files | download, verify, build, upload | external tools |

What is hard in it, and would be hard to test:

* stage1 is a single sequential process, but each of its requests meets a
  mirror that may be dead, stale, half-updated, wrong or malicious, and the
  payload, its signature, its arguments and *their* signature are four separate
  requests that can be answered from different releases.
* The document changes under the loop that evaluates it: each verified manifest
  is merged over it, so a pin, key or URL list can survive from an earlier
  document or be overwritten by a later one. Manifests can point back.
* Quote, extend, write, seal, rewind and exec form a sequence in which each step
  may fail, `write` may be short and a failed extend may have happened.
* The three metadata services share link-local addresses that answer on the
  wrong cloud as well.
* `create` writes up to six files and then the document; it can be killed in
  between, be repeated, or run for another architecture, while instances keep
  the documents they were started with and the mirrors are copied to file by
  file.
* mkuki reads streams in somebody else's format: a tar may be in any order, spell
  its names in several ways, store a file under two names, or come in several
  gzip members; what it writes has 32-bit fields and is read by a kernel that
  creates no parent directories. It calls a container engine three times, and
  writes the image before its signature, while the key may be replaced.
* `/init` runs under `set -e` as process 1; every command may fail, and the
  kernel latches it sets cannot be undone.

`PROJECT.json` lists these as 38 `hazards`, each at its line with the properties
that cover it. Six that the code does not guard against have a note instead, and
three a note on the part that no property covers.

What makes the parts correct:

* *stage1*: only bytes that the document in force pins, or that its key signed
  for that very purpose, ever run; what runs is what was measured, once, after
  the quote; the payload reads the document and provenance that stage1 itself
  established; authority passes only along signed pointers; the manifest loop
  ends; one good mirror is enough; stage1 always settles.
* *metadata*: exactly one admission mode; no argument location without a key.
* *ed25519-sign*: a signature for one hop and kind is good for nothing else.
* *deploy*: what a finished `create` emitted is accepted and served; old
  documents roll forward; payload and arguments of two releases never mix, also
  while mirrors are being updated; the last release reaches every instance.
* *mkuki*: the archive depends on the tree alone, and the kernel unpacks exactly
  the layers; no two sections overlap in memory or in the file; a call that ends
  well leaves an image and a signature that stage0 admits; no container is left.
* *init*: stage1 starts only on a locked-down kernel with its drivers and an
  address.

## 2. Modules

| Module | Models | Role |
|---|---|---|
| `Signing` | `ed25519-sign` | operators: digest, preimage, sign, verify |
| `Metadata` | `metadata` | the shape of documents, serde's reading of them, admission rules |
| `Resolution` | pure functions of stage1 | locations, `deep_merge`, cycle test, history, stdin and argv |
| `Stage1` | `stage1` | the state machine |
| `Stage1Properties` | | invariants, action and liveness properties, refinement mapping |
| `TrustedBoot` | | abstract specification: what stage1 promises |
| `MCStage1` | | the instances of the stage1 runs |
| `Stage1Proofs` | | type correctness |
| `Stage1SafetyProofs` | | measurement and execution, admission and the chain of manifests |
| `Stage1BootProofs` | | merging, provenance, the refinement of `TrustedBoot`, reliable sources |
| `Deploy` | `deploy create` and `modify` | the state machine over the output directory |
| `DeployProperties` | | what an instance gets from the mirrors |
| `MCDeploy` | | the instances of the deploy runs |
| `Rollout`, `MCRollout` | `deploy create`, the mirrors and a booting stage1 | composition: `Deploy` next to mirrors that are copied to and an instance |
| `DeployProofs` | | `Deploy`, then `Rollout` |
| `Keys` | `deploy keygen` and `sign`, key files of `ed25519-sign` | state and actions of the key and signature files |
| `Mkuki`, `MCMkuki` | mkuki's `main` and the container engine | composition: mkuki next to `Keys` |
| `Initramfs` | `cpio.rs`, `build_initramfs` | the archive, entry by entry |
| `InitramfsProperties`, `MCInitramfs` | | the kernel's unpacker (external), the intended file system |
| `Uki`, `MCUki` | `uki.rs` | the section layout |
| `MkukiProofs`, `UkiProofs`, `InitramfsProofs` | | the three parts of mkuki |
| `InitScript`, `InitScriptProofs` | `tools/build-uki/init` | the script, command by command |

`Stage1` extends `Resolution`, which composes `Metadata` and `Signing`;
`Deploy` uses the same `Metadata` and `Signing`, so the rules by which deploy
checks its output are the ones by which stage1 admits it. `Rollout` extends
`DeployProperties`, so the directory that is copied is the one `Deploy` writes.
`Mkuki` extends `Keys`, and takes an archive and an image for what `Initramfs`
and `Uki` say they are.

### How the models abstract data

* **Bytes** are model values. A digest is the term that names its preimage
  (`sha256(b).of = b`), with the length and case a pin may be written in: no
  collisions. A signature is the term that names its key, domain and message.
  Which signatures exist is the constant `Issued`; `Unforgeable` says that the
  bytes a mirror can serve contain no others.
* **A document** is a record with the arch entry and one `app` field for all
  other top-level keys. A field is a value, `None` (JSON null) or `Absent`, since
  `deep_merge` and serde treat these differently. An entry with both a payload and a
  manifest key parses, in `from_slice`, as the variant written first. The order is
  not kept, so `UserDataParses` returns the set of outcomes. In `from_value` the
  map is sorted and the manifest wins.
* **A URL** has a scheme, whether it is printable and whether it holds
  `{sha256}`; a *location* is a URL with the substituted digest and an optional
  `.sig`.
* **Mirrors, metadata services, TPM, kernel** are sets of answers:
  `Serves(location)` and `Provider[endpoint]` are chosen from afresh at each
  request, so two requests for one URL may disagree. `Faults` is the set of
  local calls that may fail.

### Stage1: state and actions

`pc` is the point `main_inner` has reached. One action is one observable
operation: a request, a TPM command or a system call, with the computation that
follows it up to the next one.

| Variables | Code |
|---|---|
| `launch` | uid, pid, `--attest`, what is on fd 0, whether the kernel knows `MFD_EXEC` |
| `raw_json`, `doc`, `history` | the received document, the merged one, `Vec<ManifestRef>` |
| `mirrors` | rest of the outer loop over `url` in `fetch_manifest` / `admit_payload` |
| `urls` | rest of the inner loop of `download_first` |
| `blob`, `args_bytes` | the downloaded candidate and its signed arguments |
| `binary`, `args`, `stdin` | what `resolve_payload` returned |
| `quote`, `pcr14` | `/tmp/stage1.attest` and PCR 14 |
| `exe`, `cfg`, `fd0` | the two memfds and fd 0 |

| Actions | Code |
|---|---|
| `stdin_config`, `attest_diagnostic`, `try_fetch_*` | `main_inner`, `fetch_cloud_metadata` |
| `resolve_payload` | one evaluation of the arch entry |
| `try_fetch_manifest`, `verify_manifest`, `follow_manifest` | `fetch_manifest`, and the merge and cycle check of the loop |
| `download_first_next`, `download_first_err`, `candidate_unavailable`, `candidates_err` | the failing branches of the two kinds of mirror loop |
| `admit_from`, `verify_payload`, `fetch_signed_args`, `verify_signed_args` | `admit_payload`, `admit_from`, `fetch_signed_args` |
| `generate_pre_execution_attestation`, `extend_pcrs` | `stage2` |
| `make_memfd_exe` ... `wire_stdin`, `execute_binary` | `make_memfd`, `execute_binary` |
| `poweroff` | `poweroff` |

### Deploy: state and actions

`dir` is the output directory, `doc` the `user-data.json`, `job` the running
`create` with the writes it has left. `released` and `published` record history
for the properties: the last finished `create` of each architecture, and the
entries the document has held (but not what `modify` makes of an architecture's
old entry after a `create` for it has died). `create(a)` starts, each `write_file` writes one file,
`merge_user_data` ends it, `bail` is its error returns, `create_dies` a kill or
failed write with the file as it was, torn or complete. `modify(m)` rewrites the
mirror lists in place. `discard` is the operator removing a `user-data.json`
that no longer parses.

### Rollout: state and actions

`mirror[b]` is the copy that base `b` serves; `sync(b, arch, f)` copies one file
as it is at that moment, between two files of a running `create` or after one
that died has cut it short. `boot` is an instance started with any entry in
`published`: `start`,
`fetch_manifest`, `verify_manifest`, `admit_from` and `poweroff` are the steps of
stage1 for a manifest entry (`resolve_payload` with one hop), each with one
request, answered from the mirror as it is then. `ran` is what was executed
last. The operator's actions are `Deploy`'s own, except `modify`.

### Keys and Mkuki: state and actions

`key` and `pub` are the two key files; a PEM file may be cut before its body,
in it, or behind it, which `seed_from_pkcs8_pem` tells apart. `keygen` draws a
seed, `write_private` and `write_pub` write one file each in one step,
`keygen_dies` stops it at either with the file as it was or cut; `sign_file` is `sign` on the image. `out` and `sig` are `linux.efi` and
`linux.efi.sig`.

`job` is a running call of mkuki: `docker_create`, `docker_export`, `docker_rm`,
`assemble` (everything up to the written image), `sign_image`, the error
returns `build_err` and `sign_err`, and `mkuki_dies`. Three variables record
history for the properties: `signed` is the key of a call that ended well,
`abandoned` holds the containers that the engine failed to remove or whose call was
killed, `untried` those whose call returned without asking for their removal: the
id that `create` printed is no text, or the export cannot be started. The steps of
keygen and sign interleave with those of mkuki. A BUILD_ID is the term of what it
is computed from, of each hash `Cut`: the first 8 of its digits, in which two hashes
may agree (in the run, those of two layers do).

### Initramfs: state and actions

`entries` is `CpioBuilder::entries`, `file_data` the contents seen for hard
links, `data` the archives. `build_layer` starts a layer, `add_dir_entry` and
`add_tar_entry` take one entry of a walk or stream each, `finish` writes the
sorted archive, `build_err` is every error return. A path is a sequence of
components and a name in a stream is a path behind a run of `./` and `/`. The
100-byte fields of a tar header are the set `LongPath`; a size is cut at
`Word`. `Unpacked` is the kernel's side, external to the repository, as far as
the archives rely on it: no parent directories, what replaces what.

### Uki: state and actions

`parse` is the reading of the stub with the checks on its headers,
`append_section` one turn of the loop over the sections, `finish` the limits and
the fields of the finished image, `build_err` every `ensure!`. Arithmetic is on
naturals, a header field is taken modulo `Word`. `align_up` divides where the code
masks, which is the same for the powers of two that alignments are. `WellFormed`
says what is assumed of a stub: the output of a linker, whose headers may claim
more room than there is before the first data.

### InitScript: state and actions

`Script` is the sequence of commands with what happens when one fails: `die`
powers off, `set -e` ends process 1 and the kernel panics, `-q` and `-w` go on.
The step at `line` succeeds if what precedes it allows, fails, or is skipped.
Modules and sysctls that the script treats alike are one step.

## 3. Runs

Deadlock checking is off for the stage1 runs: a process that has executed its
payload or stopped has no next step (`Settles` says it gets there). So it is for
one build of an archive or image, and for `/init`. It is on for the deploy and
mkuki runs; in `rollout` the bound on calls of `create` can be used up with
nothing published.

| Run | Instance | Shows |
|---|---|---|
| `boot` | 18 direct documents of every admission mode, good and refused; pointers from k1 to k2 and back to k1, manifests that forge provenance, null a field, are scalars or carry no entry; a machine on Azure where EC2 and GCP answer errors, rubbish or a body in the wrong encoding; every mirror may answer any byte string or fail at each request; all local calls may fail; short writes | `TypeOK`, `RunsWhatWasMeasured`, `MeasuredOnceAfterQuote`, `PayloadReadsItsDocument`, `AdmittedUnderAuthority`, `ChainOfTrust`, `LastManifestWins`, `NoHopTwice`, `ProvenanceOfChain`, `DocumentIsFound`, `Settles`, and that stage1 implements `TrustedBoot` |
| `mirrors` | the first mirror of every list answers anything, the last is reliable | `ReliableMirrorIsReached`, and that the boot succeeds (`Boots`) |
| `deploy_manifest` | two releases under manifests, killed and repeated anywhere, mirrors added and removed | `ReleaseIsServed`, `RollsForward`, `NoMixture` |
| `deploy_keys` | two signed releases with signed arguments, a pinned one for a second architecture, and calls that are refused or fail late, one of them after it has overwritten files | `TypeOK`, `ReleaseIsServed`, `RollsForward`, `EmittedIsAccepted` |
| `rollout` | two releases under manifests, two mirrors, a `create` that may die at any file, one instance | `RunsOneRelease`, `Converges` |
| `mkuki` | two signed releases and five unsigned builds on one output, which differ in a layer, a layer whose hash starts like another's, the kernel, the command line or the ID; calls that fail; keygen at any time, over an old key or none; kills everywhere; an engine that may fail | `MkukiTypeOK`, `ReleaseIsAdmitted`, `ExportCleansUp`, `BuildIdTraces` |
| `initramfs` | one layer in every order and spelling, hard links with either name first, replaced entries; two layers of the kinds that the kernel can overlay; empty layers | `TypeOK`, `Reproducible`, `UnpacksTheLayers` |
| `uki` | 768 stubs (sections with more data than memory, none, out of order; room for all, some or no headers, by what the headers claim and by where the first data are; four pairs of alignments; files that end at a multiple, one byte behind it, or near the limit) and 24 sets of section sizes, empty and 2^32 included | `MemoryLayout`, `FileLayout`, `BuildsWhatFits` |
| `init_script` | every command may fail | `HandOff`, `StopsOnlyOnFault` |

Every property of these runs has a mutant of the code's model (the operators
commented "A plausible bug") that violates it.

Three runs state what a document or comment says and find that the code does
otherwise:

| Run | Statement | What the code does |
|---|---|---|
| `error_body` | the first *successful* metadata response is used | the HTTP status is not looked at; an error body that is a JSON object becomes the document |
| `rollout_stale` | a dead or wrong mirror is simply skipped | the first manifest that verifies is final; when its payload is gone, later mirrors with a complete release are not tried |
| `long_link` | the root file system is packed verbatim | a hard link to a path of more than 100 bytes becomes an empty file |

Further disagreements of this kind, with the change to a configuration that
makes TLC show them:

| Statement | What the code does | Change |
|---|---|---|
| wrong mirrors of *any* URL field are skipped | `download_first` stops at the first location that responds; a wrong signature refuses the payload mirror | `MCMirrors`: `Serves <- WrongSigServes`, `WrongSignatureMirrorIsSkipped` |
| `resolved_manifests` is empty for a direct payload entry | the received bytes are passed on with whatever they claim | `MCBoot`: `Launches <- ForgedLaunches`, `ProvenanceIsVerifierWritten` |
| what deploy emits is what stage0/stage1 accept | `modify` does not validate: removing the last mirror leaves an empty list | `MCDeployKeys`: `Modifies <- MirrorModifies` |
| URLs are `<base>/<arch>/<file>` | `modify` appends the whole path of the first URL, its base's path included | `MCDeployKeys`: `Base <- DeepBases`, `Creates <- DeepCreates`, `Modifies <- AddModifies`, `MirrorsFollowTheLayout` |
| a hard link copies the data of its target | a symlink stored under two names becomes a symlink and an empty file | `MCLongLink`: `Inputs <- LinkedSymlinks` |
| a gzipped tar is transparently gunzipped | only the first gzip member is read | `MCLongLink`: `Inputs <- MultiMember` |
| the root file system is packed verbatim | a size of 2^32 bytes or more is cut to 32 bits | `MCLongLink`: `Inputs <- BigFiles` |
| later layers overlay earlier ones at unpack time | not where a file or symlink takes the place of a directory with contents | `MCLongLink`: `Inputs <- OverDirectory` |
| (the same) | nor where a device or fifo takes the place of another of its type | `MCLongLink`: `Inputs <- OtherDevice` |
| the root file system is packed verbatim | a file whose directory has no entry of its own is not unpacked | `MCLongLink`: `Inputs <- Orphans` |
| sections ascend in memory | addresses past 2^32 wrap: only the file's length is checked | `MCUki`: `Stubs <- LargeStubs`, `Specs <- LargeSpecs` |
| when stage1 cannot be run the machine is shut down | a shell whose `exec` fails exits first, and the kernel panics | `MCInitScript`: `FailedExecPowersOff` |
| the container is removed regardless of the export's result | not when the export cannot be started, or the id is no text | `MCMkuki`: `ExportCleansUp` with `untried` left out |
| the private key file has mode 0600 | only a file that `write_private` creates; an existing one keeps its mode | (modes are not modelled) |

`UnpacksTheLayers` and `MemoryLayout` hold in their passing runs because those
leave out these inputs: long link targets, hard links to anything but a regular
file seen before with the same permissions, names that keep a lead, several
gzip members, files of 2^32 bytes, a file over a directory with contents, one device
over another, entries without a directory; and an image whose addresses, but not
file offsets, pass 2^32. For the archives `WellFormed` and `Unpackable` of
`InitramfsProperties` state this, and the theorem of section 4 shows that, of the
inputs the model has, nothing else needs to be left out. The model's names are
sequences of components in text: `to_string_lossy` may change or merge names that
are not UTF-8, and a `//` or `/./` inside a name stays (section 5).

### Bounds, and why they are enough

* *Two mirrors per list*: the loops only distinguish "this one", "a later one"
  and "none left". *Two keys*: the right and a wrong one; the chain returns to
  the first, which is where a cycle check confined to the previous hop fails.
* *`Size = 2`* in `boot`: a write that accepts everything and one that
  accepts a part are both possible. The proofs hold for every size.
* *Seven manifests*, of which some cannot follow others, give chains as long as the
  cycle check allows, with each kind of merge (replace, null, forged key,
  scalar, empty). `deep_merge` is written for the levels a document has, not as
  a recursion.
* *Two releases* and *two architectures* in deploy: the properties relate one
  release to one other, and one architecture to the rest. A number of calls is
  not bounded: the directory and document have finitely many states.
* *Two calls of `create`* and one death in `Rollout` (`MaxCreates`, `MaxDeaths`):
  a mixture needs two releases, a half-copied or torn release one death. Two
  mirrors let a stale one come before a current one. The entries are manifests
  without signed arguments, the form the README recommends against mixing.
* *Six paths* in `Initramfs`: two directories, their contents, and a name
  (`bin-x`) that sorts between a directory and what is below it.
* *`Word = 128`*, headers of 2 bytes and alignments of 2, 4 and 8 in `Uki`: each
  quantity can be below, at and above its limit; a stub of 112 bytes with small
  sections ends exactly at the limit of the file.
* *Two new seeds and an old one* in `mkuki`: the key before, the key that
  signs and the one that replaces it meanwhile.

### Fairness

`FairSpec` is `WF_vars(Next)`: while stage1 can take a step, it takes one. It is
a single thread whose steps are its own code, system calls and TPM commands, or a
request made through the blocking HTTP client, which has a default timeout.
Nothing forces a *particular* outcome: `Boots` is only checked where
`MirrorServes` says that the last mirror always answers correctly. Reading the
document from a pipe waits for its writer; the model takes the writer to close it.

`RolloutSpec` assumes of the operator that copying goes on while a mirror differs
from the directory (`WF` of `Sync`), and of the instance that it takes its steps
and is started again once it has stopped or run ("push it, reboot": `WF` of
`Instance`). `create` itself has no fairness: `Converges` speaks of a release that
stays the last one finished, with or without one before it that died.

## 4. Proofs

All theorems hold for every value of the constants that satisfies the named
assumptions. TLC evaluates each assumption in every run of the module.

* `MetadataAssumption`, `NoObject`: `Absent` and `None` differ from each other and
  from every JSON object; URLs have the fields used;
* `Stage1Assumption`: the markers (`Fail`, `Malformed`, ...) are not data, the
  environment answers with bytes, the parsers return documents or a marker;
* `Unforgeable`: a signature that can be downloaded was issued;
* `DeployAssumption`: the calls have the arguments that clap lets through, base
  URLs are URLs, and a missing or torn file is no content;
* `RolloutAssumption`: the releases are manifests without signed arguments (the
  numbers of calls and deaths are any naturals);
* `MkukiAssumption`: the calls have arguments that clap lets through, and no call
  is not one;
* `UkiAssumption`: stubs that parse are `WellFormed`, the output of a linker;
* `InitramfsAssumption`: a directory has no hard-link entries, a layer is one
  stream unless it is gzipped, paths are sequences of components and totally
  ordered, a directory before what is below it. (`InitScript` has no constants.)

| Module | Theorem | States |
|---|---|---|
| `Stage1Proofs` | `TypeCorrect` | `Spec => []TypeOK` |
| `Stage1SafetyProofs` | `Measurement` | `Spec => []RunsWhatWasMeasured` |
| | `MeasuredOnce` | `Spec => MeasuredOnceAfterQuote` (an action property) |
| | `StdinDocument` | `Spec => []PayloadReadsItsDocument` |
| | `Authority` | `Spec => []AdmittedUnderAuthority` |
| | `TrustPassesAlongTheChain` | `Spec => []ChainOfTrust` |
| | `HopsDiffer` | `Spec => []NoHopTwice` |
| `Stage1BootProofs` | `LaterLayersWin` | `Spec => []LastManifestWins` |
| | `Provenance` | `Spec => []ProvenanceOfChain` |
| | `Refinement` | `Spec => ImplementsTrustedBoot` |
| | `ReliableServiceIsEnough` | `Spec => []DocumentIsFound` |
| | `ReliableMirrorIsEnough` | `Spec => []ReliableMirrorIsReached` |
| `DeployProofs` | `TypeCorrect` | `Spec => []TypeOK` |
| | `ManifestsBind` | `Spec => []NoMixture` |
| | `ServesTheRelease` | `Spec => []ReleaseIsServed`, if `Modifies = {} \/ Flat` |
| | `OldDocumentsRollForward` | `Spec => []RollsForward`, if `Modifies = {} \/ Flat` |
| | `AcceptsWhatIsEmitted` | `Spec => []EmittedIsAccepted`, if `Modifies = {}` |
| | `BootsOneRelease` | `RolloutSpec => []RunsOneRelease` |
| `MkukiProofs` | `TypeCorrect` | `Spec => []MkukiTypeOK` |
| | `SignedReleaseIsAdmitted` | `Spec => []ReleaseIsAdmitted` |
| | `NoContainerIsForgotten` | `Spec => []ExportCleansUp` |
| | `BuildIdIsTraceable` | `Spec => BuildIdTraces` (an action property), for every `Cut` |
| `UkiProofs` | `FileIsLaidOut` | `Spec => []FileLayout` |
| | `MemoryIsLaidOut` | `Spec => [](vma < Word => MemoryLayout)` |
| | `BuildsExactlyWhatFits` | `Spec => []BuildsWhatFits` |
| `InitramfsProofs` | `TypeCorrect` | `Spec => []TypeOK` |
| | `SameTreeSameArchive` | `Spec => []Reproducible`, if all layers are `WellFormed` |
| | `KernelUnpacksTheLayers` | `Spec => []UnpacksTheLayers`, if each layer is `WellFormed` and `Unpackable` over the ones before |
| `InitScriptProofs` | `HandsOffReady` | `Spec => []HandOff` |
| | `StopsOnFaultOnly` | `Spec => []StopsOnlyOnFault` |

Six theorems have a hypothesis beyond the assumptions. Each marks the place where
the code makes no promise, and section 3 lists what happens there:

* `Flat`: no base URL has a path of its own. `modify` appends the whole path of
  the first URL to an added base, so with deep bases it adds mirrors that serve
  nothing. Without `modify`, base URLs may have any path.
* `Modifies = {}` for `EmittedIsAccepted`: `modify` does not validate.
* `vma < Word`: `uki::build` checks the length of the file but not the
  addresses.
* `WellFormed` layers: one gzip member, names whose whole lead `normalize` removes,
  link targets that fit the tar header, and hard links that follow the regular
  file they name. `MCInitramfs` assumes it of its inputs, so TLC checks that
  they satisfy it.
* `Unpackable` layers: files that fit the 32-bit size field, no file or link in the
  place of a directory with contents, the same device or fifo where there was one,
  and a directory for every entry to be in, of the layer or of one before. TLC
  checks it of the inputs too, each layer over the overlay of the earlier ones.

### The inductive invariants

None of the properties is inductive. For stage1, five strengthenings carry them.

* **`TypeInv`** (`Stage1Proofs`). A step is well-typed only because of where
  stage1 is: `HasEntry` (in the manifest loop the entry is a parsed manifest
  pointer, in the payload loop a parsed payload), `HasCandidate` (a blob is in
  hand and its mirror is still at the head of the list while signatures are
  fetched), `HasPayload` (admission left bytes and a document, and each memfd
  exists from its creation on). The lemmas before it say what each operator
  returns; `MergeType`, that merging keeps documents documents, is the largest.
* **`MeasureInv`** (`Stage1SafetyProofs`): by where stage1 is, what PCR 14, the
  quote, the two memfds and fd 0 hold. The frame lemma `EarlySteps` shows that
  no step before admission touches the TPM and that the only way out is
  admission or a stop. One step per action follows.
* **`AuthInv`** (`Stage1SafetyProofs`): nothing is admitted before admission;
  in the payload loop the entry passes `admission`; past the payload's
  signature there is no pin, and while arguments are fetched the blob's
  signature has been seen to be issued. `admission` is needed because it alone
  ensures that a payload without a pin has a key, and that a pinned payload has
  no `args_url`.
* **`ChainInv`** (`Stage1SafetyProofs`): the candidate comes from the pointer's
  list, meets its pin and, once verified, its signature was issued; and
  `PointerIsLast`: the pointer in force is the one of the *last* merged
  document. The latter holds because `e.remove("manifest")` precedes the merge:
  without it the proof of `ChainFollow` fails, as the mutant
  `RemovePointer_kept` fails in TLC.
* **`DocInv`** (`Stage1BootProofs`): the document in force is a parsed one, and
  each field of its payload is the last one written along the layers merged so
  far. With the four above it is `BootInv`, from which
  the refinement follows action by action: the only steps that are not stutters
  of `TrustedBoot` are taking a document, following a manifest, admission,
  extending PCR 14, execution and a stop.

Two more belong to single properties. `PassedOver` says that an endpoint that has
been passed over is not one that always answers with a document.
`MirrorInv` of `Stage1BootProofs` says that a reliable mirror is still in the rest
of the list, or its candidate is in hand with reliable locations for what is left
to fetch.

For the tools:

* **`PointInv`** (`DeployProofs`): each file of the directory is what some release
  of that architecture writes there, or torn; what is on disk together with the
  writes that a running `create` has left is its release, and a finished release
  is complete (`DirInv`); each manifest entry, of the document now or ever
  published, points to the manifest of its architecture with the key of its release.
  It survives any `modify`, because `rewrite_urls` only ever composes a base with the
  path of the first URL; its two loops have a lemma each.
* **`ServedInv`** adds that *every* entry is, field by field, that of its release on
  some set of bases, so that each URL in it is one the directory is served at. This
  is what `modify` breaks when bases have paths.
* **`RolloutInv`**: `ServedInv`, every file of every mirror is what some release
  wrote, and the boot's manifest, once verified, is the fragment of *one* release
  of the key. The last conjunct needs no relation between mirrors or files, which
  is the point of a manifest.
* **`EmittedInv`**: every entry of the document is, field by field, what a `create`
  that passed its own checks emits.
* **`Inv`** of `MkukiProofs`: the engine has the container of the running call, the
  `abandoned` and the `untried` ones, no others; key and public key are those of one
  seed whenever keygen is not in between; while a call signs, the image on disk is
  its own. `BuildIdTraces` needs only that an image on disk is that of a call, and
  what `generate_os_release` keeps of two calls.
* **`Inv`** of `UkiProofs`: the headers placed so far are apart and end at or before
  `len` and `vma`, *provided that these are below `Word`*. The proviso is what
  makes it inductive: a field that has wrapped is only noticed at the end, and
  `len` never decreases. `SizeInv` and `OutcomeInv` carry `BuildsWhatFits`: what
  has been placed, padded, is the stub and the sections so far, each padded, so the
  length that is looked at in the end is `FileSize` of the arguments.
* **`TypeInv` and `BuildsInv`** of `InitramfsProofs`: after `k` entries of a stream
  the archive is the tree that these `k` entries describe, under the normalized
  names, and `file_data` has the content of every path whose last entry was a
  regular file. `TarStep` and `DirStep` are the two sides of one entry.
  `UnpacksTheLayers` needs no further invariant of the build but an argument about
  the unpacker, in four parts. `Positions` and `SortedIs`: the positions by rank of a
  finite set leave no gap, so the archive has every name once, in bytewise order.
  `TurnIsFree`: when an entry's turn comes, exactly the entries of smaller rank are
  in place, its directory among them and nothing below it. `UnpackStep`: the entry is
  then put whatever was there before (removed, overwritten or equal).
  `UnpackArchiveIs` and `UnpackedIs`: the two loops, over entries and layers.
* **`ScriptInvs`** of `InitScriptProofs`: what was done is of the script so far; if
  it goes on, every step that must not fail was done; without a fault every step
  was, optional sysctls apart; and the address was there when it was asked for. The
  third part gives `NextIsPossible`, the reason why the script cannot stop itself.

### Recursion

The provers have no induction schema. Where a proof needs one, it uses a set in
the place of the predicate: `UpTo` (what 0 has and each number hands on, all
numbers up to n have) and `Loop` (a loop of n passes over values of a set has a
run), both from the fact that a set of naturals has a least element. So
`rewrite_urls`, the extraction of a stream, the unpacking of archives and the
overlay of layers are recursive functions, not folds, and `Sorted` gives the i-th
name as the one with i - 1 names before it, since the prover knows nothing of
`SortSeq`.

### Only model-checked

* `Settles`, `Boots` and `Converges`: liveness under fairness is beyond the prover.
* `MemoryLayout` where addresses wrap: false there (section 3).

Every invariant that a run checks is stated by a theorem, under the hypotheses
above.

## 5. Not modelled

* Encodings: HTTP, TLS, JSON text, DER, base64, TPM wire formats, the bytes of
  tar, cpio, gzip and PE. Hash functions and ed25519 are symbolic; gzip is
  lossless and deterministic.
* Log output and error texts.
* Names in archives that are not UTF-8 (`to_string_lossy` may change them, or make
  two of them one) or have empty or `.` components inside (they stay).
* Values inside `resolved_manifests`: a list is taken for one whatever it holds,
  more than serde accepts. An IMDSv2 token that is no header value: the GET that
  would carry it fails, which in the model it may do in any case, but a service
  that issues such tokens is not one that `DocumentIsFound` speaks of.
* In `/init`: a module that `net.core.default_qdisc` might ask for after the latch
  (fq_codel is taken to be built in), and a `die` whose own message or `poweroff`
  fails.
* `udhcpc.script` beyond "the interface gets an address": it configures routes
  and DNS through external commands, with no state of its own.
* The JSON schema: a data file that no code in the repository reads.
* example-stage2 (prints its stdin and powers off), the build and publish
  scripts and the test harness: I/O around external tools.
* In `Rollout`: stage0's hop, entries other than manifests, chains of several
  manifests and `modify`, each of which has a model of its own (`Stage1`,
  `Deploy`).
* stage0, which is not in this repository; it appears as the `Stage0` profile of
  the admission rules, and in `DeployProperties` as an instance that turns to
  `_stage1` by the same rules.
* Freshness: a validly signed old manifest is accepted by design. What that
  means for a boot is the run `rollout_stale`; what it does not prevent is
  `Converges`.

## 6. Plan

Done: 1 `Signing`, `Metadata`, `Resolution`; 2 `Stage1` with its properties and
runs; 3 `TrustedBoot` and the refinement run; 4 `Deploy`; 5 `Initramfs`, `Uki`,
`Keys`, `Mkuki`; 6 `Rollout`; 7 `InitScript`; 8 the proofs of section 4: every
invariant that a run checks, the action property and the refinement.

Left to TLC: the liveness properties.

The recursive `deep_merge` over arbitrary JSON trees stays as it is in
`Resolution`, written for the levels a document has: deeper levels belong to
application fields that no property tells apart.
