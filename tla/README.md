# Formal models of lanzaboote

TLA+ models of the Secure Boot stub, the build-time section embedder, the
two composed (an image built by the embedder, booted by the stub), the
signing server's policy and the prototype loader in this repository. TLC checks them on small
instances and TLAPS proves the main safety results for every instance.

## The system

lanzaboote boots Linux under UEFI Secure Boot through a small signed stub.

* **Build time.** `lanzatool` (`src/rust/lanzatool/src/pe.rs`) writes the
  os-release, the kernel command line and the ESP-relative kernel and initrd
  paths into new PE sections of the stub with `objcopy`. `stub_offset`
  places those sections after the stub's last section. `wrap_initrd` wraps
  an initrd the same way, as one `.initrd` section.
* **Signing time.** The signing server asks a policy
  (`src/rust/tool/server/src/policy.rs`) whether a request is trusted. A
  request is trusted when its three store paths exist and, if an allow-list
  is configured, every command-line item is on it.
* **Boot time.** The stub (`src/rust/stub/src/main.rs`) runs these steps:
  1. It reads its own sections (`EmbeddedConfiguration::new`).
  2. It reads the kernel and initrd from the ESP and hashes both.
  3. It measures itself into the TPM and exports EFI variables.
  4. It packs up to three companion initrds (credentials, global
     credentials, system extensions), each measured into PCR 12.
  5. It boots the kernel:
     * If both hashes match, it loads the kernel itself
       (`boot_linux_unchecked`).
     * Otherwise it asks the firmware's `LoadImage`
       (`boot_linux_uefi`). With Secure Boot on, the firmware refuses the
       unsigned kernel.

     Either way, a virtual initrd device (`InitrdLoader`) is installed
     around the kernel's run and uninstalled when it returns.

The stub calls helper modules (`linux_loader`, `measure`, `cpio`, `initrd`,
`efivars`) whose code is not under `src/`. The models treat each of them as
a call whose outcome is chosen nondeterministically: success or each of its
errors.

### Inventory

| Part | State | Operations | Hard behaviour |
|---|---|---|---|
| Stub pipeline (main.rs) | config, buffers, hash booleans, PCR log, companion list, initrd device, kernel hand-off, status | extract, read, verify, measure, export, pack ×3, route, load, open/set options, install, start, uninstall | panics vs `?` returns on every call; Secure Boot fallback; install/uninstall across failures; measurement order |
| Section planner (pe.rs) | temp files, base offset, section plan | write cmdline / paths, stub_offset, file sizes, objcopy | u32 and u64 overflow, zero-size sections, malformed stub, section/file order |
| Policy (policy.rs) | store, request, allow-list, loop index | path checks, loop over items, returns | early returns, empty lists |
| Prototype loader (lanzaboote/src/main.rs) | file position, read buffer | init, logo, open, read loop, load, start | unwrap everywhere; short firmware reads |

## Modules

| Module | Models | Notes |
|---|---|---|
| `StubBoot` | `main`, `boot_linux_unchecked`, `boot_linux_uefi`, `EmbeddedConfiguration::new` | one action per step, `pc` per program point |
| `MCStubBoot` | TLC instance: 2 paths, 2 blobs, 2 command lines (one over 4 GiB), digest `<<"sha256", b>>` | |
| `BootDecision` | the boot decision of spec 4.7: one hand-over, allowed by the embedded hashes or by Secure Boot being off | what the stub promises; `StubBoot` implements it |
| `StubBootProofs` | TLAPS: type correctness, Secure Boot integrity, measurement, device scope, refinement of `BootDecision` | |
| `PolicyParams` | the request (`StubParameters`), allow-lists, the decision of spec 4.8 | shared constants and `ASSUME` |
| `PolicyDecision` | abstract policy: one step sets `decision` | what the policy promises |
| `Policy` | `trusted_store_path`, `trusted_stub_parameters` | refines `PolicyDecision` |
| `MCPolicy` | 2 store paths, 2 items, command lines up to 3 items | |
| `PolicyProofs` | TLAPS: decision correctness and refinement (safety) | |
| `SectionPlanner` | `lanzaboote_image`, `stub_offset`, `image_base`, `write_to_tmp`, `esp_relative_path_string`, `wrap_in_pe` | contents abstracted to byte sizes |
| `SectionPlannerProofs` | TLAPS: the plan's sections hold their files and, in a debug build, do not overlap | |
| `MCSectionPlanner` | u32 scaled to 8 bits, u64 to 16; stub tables with none, one and two sections (the last overflowing); image bases 512, 65480 and 65500; both modes | |
| `BuildAndBoot` | `SectionPlanner` then `StubBoot` on the image it built | composition by `INSTANCE` |
| `MCBuildAndBoot` | one stub table, one size per file, the `MCStubBoot` values | |
| `PrototypeLoader` | `main` and `read_all` of the prototype loader | |
| `MCPrototypeLoader` | files of up to 4 bytes over 2 byte values, chunks of 2 | a TLC instance for exploring; no recorded run |
| `PrototypeLoaderProofs` | TLAPS: the loader starts exactly `linux.efi` | |

### StubBoot: how state and actions match the code

* **Environment.** `image` stands for the stub's own sections. A field is
  `Absent` when `extract_string`/`extract_hash` would fail. `esp` maps each
  path to a blob or `NoFile`. `secureBoot` and `tpmPresent` are chosen in
  `Init`. `Digest` is an injective stand-in for SHA-256 (`DigestAssumption`).
* **Program variables.** Each local of `main` (`config`, `kernel_data`,
  `initrd_data`, `is_kernel_hash_correct`, `is_initrd_hash_correct`,
  `initrds`) is a variable.
* **Firmware-side state.**
  * `pcrLog` is the sequence of TPM extensions.
  * `installed`, `installs` and `uninstalls` track the initrd device.
  * `kernel` records what the kernel was given: image, initrd bytes,
    command line and route.
* **Outcome variables.** `status` is what `main` returns; `abortedAt` is
  where it panicked.
* **Error handling.** Every `expect`/`unwrap` is `Panic(step)`. Every `?`
  is `Return(status)` with the status the error carries. Each firmware call
  is `\E ok \in BOOLEAN`.
* **Actions.**
  * `ExtractConfig` 184-199, with `ConfigOf` 100-112. The `uefi_services::init` and
    `booted_image_file` unwraps are its `servicesOk` panic.
  * `ReadFiles` 201-236.
  * `VerifyHashes` 238-258.
  * `MeasureImage` 260-265. It extends the PCR only with a TPM, but its
    unwrap and expect panic on any error, TPM or not.
  * `ExportVariables` 267-268.
  * `CompanionFileSystem` 270-271.
  * `PackCompanion`, once per kind, 272-306.
  * `ExportPcrVariables`, with the route test `Route`, 309-312.
  * `LoadUnchecked` 125-126 and `LoadUefi` 150-156.
  * `OpenLoadedImage` 158-169. This includes the `u32::try_from` unwrap.
  * `InstallInitrd` 128/171.
  * `StartKernel` 130/173-176. The kernel may return a status or keep
    running.
  * `UninstallInitrd` 132-133/178-179.

### Policy

* `RejectUntrustedPath` is the `||` of the three `trusted_store_path` calls.
* `AcceptWithoutAllowList` is the `None` case falling through to `true`.
* `EnterCmdlineLoop`, `AcceptItem`, `RejectItem` and `AcceptCmdline` model
  the `for` loop with its early `return false`. `i` is the index of the next
  item.
* The refinement mapping is `decision <- IF pc = "done" THEN result ELSE
  NoValue`.

### SectionPlanner

`mode` chooses `lanzaboote_image` ("stub") or `wrap_initrd` ("initrd").
`wrap_initrd` runs `stub_offset` and then plans its one `.initrd` section
(`AfterStubOffset`). The steps of `lanzaboote_image` follow it in order:

* Three temporary writes. Each can fail with `?`. A kernel or initrd path
  outside the ESP panics in `strip_prefix(...).expect`, and one that is
  not UTF-8 in `into_string().expect`; `NotUnderEsp` stands for both.
* `stub_offset`. Reading or parsing can fail. A missing optional header
  panics, and so does a missing section. The u32 sum of pe.rs:127 and the
  u64 addition of `image_base` at 129 (`StubOffs`) can overflow: each
  panics in a debug build and wraps in a release build; `build` is chosen
  in `Init`. u64 is modelled as `U64 == U32 * U32`, twice the scaled u32
  width.
* The `file_size` reads, each followed by its u64 addition (pe.rs:26-28).
  `failed` is the first read that fails; a debug build panics at an
  overflowing addition before it (`Overflows`), a release build wraps.
* The `objcopy` run.

Contents are sizes:

* `JoinSize` is the size of `kernel_cmdline.join(" ")`: the number of
  bytes of all items (the cardinality of the set of pairs item, byte),
  plus one separator between each two items.
* `EspPathSize` is the size of `"\" + relative path with "/" replaced by
  "\"`.

`Layout` is the plan of pe.rs:30-35 over `Offsets`, the chain of pe.rs:25-28:
`.osrel` starts at the base, and each later section starts at the previous
offset plus the previous file's size, modulo 2^64. The sections are in the order `.osrel`, `.cmdline`, `.initrdp`,
`.kernelp`. A plan entry is `Section(name, size, offset)`, the `s()`
of the code with the file abstracted to its size.

### BuildAndBoot

`BuildAndBoot` instantiates both modules, `SectionPlanner` with
`pc <- bpc` and `StubBoot` with `pc <- spc`, and shares nothing else.

* `Build` steps run the planner until it stops.
* `Boot` steps run the stub once `lanzaboote_image` succeeded.

The stub's `image` is the built image. Each field is present exactly when
the plan has a section of that name (`ImagesWith(PlannedNames)`).
`Init` picks the stub's initial state, image included, with the
planner's, since TLC cannot assign variables through a primed instance
`Init`. The tool that installs the image on the ESP is not under `src/`;
spec 2 describes it.

### PrototypeLoader

* `ServicesInit` models `uefi_services::init`, and `PrintLogo` models the
  console calls of `print_logo`. Each is unwrapped.
* `OpenFile` models the volume and `linux.efi` opens.
* `ReadChunk` is one iteration of `read_all`. A read returns between 1
  and `ChunkSize` bytes, or 0 at the end of the file (`ReadSizes`), or
  fails.
* `LoadImage` and `StartImage` model the firmware calls.

## Runs

Passing runs (`CHECK_DEADLOCK FALSE` in all three, because each program
really stops: the stub returns, panics or hands over to the kernel, and
the other two return):

* **boot_pipeline** (`MCStubBoot.cfg`, about 75 000 states).
  * `TypeOK`.
  * `SecureBootIntegrity`: a kernel with control was given hash-verified
    bytes and took the unchecked route, or Secure Boot is off and it took
    the firmware route.
  * `MeasuredBeforeControl`: when the kernel gets control, the PCR log is
    exactly the image measurement followed by one PCR-12 measurement per
    packed companion, in packing order, and is empty without a TPM.
  * `InitrdDeviceScoped`: the device is installed while the kernel runs, at
    most once, and every return after the install has attempted the
    uninstall.
  * `ImplementsBootDecision`: `BootDecision!Spec` with the stub's `image`,
    `secureBoot` and `kernel`. The kernel gets control at most once and
    keeps what it was given. It gets the embedded command line. Either
    its bytes hash to the values embedded in the image and it took the
    unchecked route, or Secure Boot is off and it took the firmware
    route. Unlike `SecureBootIntegrity`, this speaks of the image rather
    than the configuration decoded from it. Its mutant decodes
    `kernel_hash` from `.initrdh`, which `SecureBootIntegrity` does not
    notice.
* **policy_decision** (`MCPolicy.cfg`, about 6 000 states).
  * `DecisionCorrect`: the returned bool is the spec's decision.
* **section_plan** (`MCSectionPlanner.cfg`, about 66 000 states).
  * `SectionsHoldTheirFiles`: on success the plan names the four sections
    in order (or the one `.initrd` section for `wrap_initrd`), each sized
    by the file holding its value.
  * `NewSectionsDisjoint`: in a debug build, on success no two new
    sections overlap. A section of size 0 occupies no bytes and may share
    its start with the next; that the spec wants distinct offsets is the
    separate `OffsetsStrictlyIncreasing`. The property holds because the
    overflow checks of the u64 sums panic; its mutant drops them
    (`FileSizesUnchecked`). In a release build the sums wrap for an image
    base near 2^64 and the sections do overlap (image base 65480 in
    `MCSectionPlanner`); that run is not recorded, see the hazard at
    pe.rs:26.

Each of these properties has a mutant in `PROJECT.json`: an operator that
changes one mapped definition the way a plausible bug would, and that TLC
finds violating the property.

Violation runs. Each checks one statement from the spec against the code,
and TLC finds a counterexample:

| Run | Property | What the counterexample shows |
|---|---|---|
| companions_delivered | `CompanionsDelivered` | packed companions never reach the kernel (main.rs:310) |
| best_effort_measurement | `BestEffortNeverAborts` | a failed measurement panics (main.rs:264, 268) |
| kernel_status_returned | `KernelStatusReturned` | a failed uninstall hides the kernel's status (main.rs:132, 178) |
| installed_before_load | `InstalledBeforeKernelLoad` | the kernel is loaded before the device is installed (main.rs:126, 150) |
| empty_allow_list | `EmptyAllowListRejects` | an empty allow-list accepts an empty command line (policy.rs:34) |
| offsets_strictly_increasing | `OffsetsStrictlyIncreasing` | an empty file gives two sections one offset (pe.rs:26-28) |
| sections_above_stub | `SectionsAboveStub` | the u32 wrap in release builds places sections over the stub (pe.rs:127) |
| malformed_stub_error | `MalformedStubIsError` | a malformed stub panics instead of returning an error (pe.rs:128, 135) |
| built_image_extracts | `BuiltImageExtracts` | an image built by `lanzaboote_image` has no `.kernelh`/`.initrdh`, so the stub panics in `EmbeddedConfiguration::new` (pe.rs:30, stub main.rs:104, 107) |

### Bounds

* **Stub.**
  * Two paths and two blobs make both hash outcomes reachable for kernel
    and initrd, including swapped files.
  * Two command lines include one too large for the `u32` length.
  * Every firmware call succeeds or fails.
  * All three companion kinds can be present or absent, or their packing
    can fail.

  Larger sets only rename these cases.
* **Policy.**
  * Command lines go up to 3 items, which covers a rejection at the first,
    a middle and the last position.
  * Every subset of two items is tried as an allow-list, including the
    empty one.
* **Planner.**
  * u32 is scaled to 8 bits and u64 to 16, because TLC's integers are
    32-bit signed.
  * Image base 512 is a usual one. 65480 puts the stub's end just below
    2^16, so that the offset sums overflow. 65500 makes the image-base
    addition itself overflow.
  * The tables cover no section, a normal section, and a last section
    ending past 2^8.
  * Both os-release sizes include 0.
  * Two different path lengths, so that a swap of the path files is
    visible.
  * Initrd sizes 0 and 7 for `wrap_initrd`.
* **Composition.** One value per planner input, so that the build
  succeeds in a few steps. The stub's sets are those of `MCStubBoot`.
* **Prototype loader.** No bound: `KernelIsFile` is proved for every
  file length and chunk size. `MCPrototypeLoader` (files up to 4 bytes,
  chunks of 2) remains for exploring the model with TLC.

### Fairness

No specification has a fairness condition and no run checks liveness. Every
component is a single-threaded program whose loops are bounded (the
policy's loop over the command line, the three companion kinds, the
prototype loader's reads up to the file length), so "it ends" holds by the
shape of the code and would say nothing about it.

## Proofs (TLAPS)

`StubBootProofs`:

* **`TypeCorrect`** proves `Spec => []TypeOK`. `TypeOK` alone is not
  inductive, so the proof goes through the strengthening `TypeInv`, which
  records that:
  * the config exists after extraction;
  * the buffers are blobs after reading;
  * `kindIdx` is 1 before packing and at most 3 while packing;
  * `kstatus` is set before uninstall.

  The structure has three parts: `InitTypeInv`; `NextTypeInv`, with one
  step per action; then a PTL step.
* **`SecureBootIntegrityHolds`** proves `Spec => []SecureBootIntegrity`
  through `IntegrityInv`. It adds to `TypeInv`:
  * the hash booleans equal the comparison of the buffers' digests with
    the config from verification on;
  * the kernel record holds exactly the buffers and the route of `Route`;
  * `load_unchecked` is reached only when `Route` is "unchecked";
  * from a successful `LoadImage` on, the firmware route means Secure Boot
    is off.

  The last conjunct is where the firmware's refusal (`SECURITY_VIOLATION`)
  enters the argument.
* **`MeasuredBeforeControlHolds`** proves `Spec => []MeasuredBeforeControl`
  through `MeasureInv`. It adds to `TypeInv`:
  * before `measure_image`, the log and the companion list are empty;
  * from `measure_image` on, the log is `ExpectedLog`;
  * before the boot routine, no kernel was started;
  * once a kernel was started, the log is `ExpectedLog`. This conjunct
    carries the property past `uninstall` into `returned`.

  The packing step rests on the lemma `CompanionAppended`. Packing one more
  companion appends one PCR-12 entry to `ImageThenCompanions`.
* **`InitrdDeviceScopedHolds`** proves `Spec => []InitrdDeviceScoped`
  through `DeviceInv`, which records the device counters at every program
  point:
  * no device before the install and on every panic;
  * one install and no uninstall from `start` to `uninstall`;
  * installed while the kernel runs;
  * as many uninstalls as installs on return.

* **`ImplementsBootDecisionHolds`** proves `Spec => ImplementsBootDecision`:
  * the initial states map to `BootDecision`'s;
  * `StartKernel` maps to `Start` (lemma `StartKernelIsStart`);
  * every other step leaves `image`, `secureBoot` and `kernel` alone.

  It rests on `IntegrityInv` and on `ConfigFromImage`: from extraction
  on, the configuration's hashes and command line are the image's.

`PolicyProofs`:

* **`DecisionCorrectHolds`** proves `Spec => []DecisionCorrect` through
  `PInv`. Inside the loop, `PInv` records that:
  * the store paths were found;
  * an allow-list exists;
  * every item before `i` is on it.
* **`ImplementsDecisionSafety`** proves `Spec => PolicyDecision!SafetySpec`:
  * the initial states map to initial states;
  * every step maps to the abstract `Decide` (the step that returns) or
    to a stutter.

`SectionPlannerProofs`:

* **`SectionsHoldTheirFilesHolds`** and **`NewSectionsDisjointHolds`**
  prove `Spec => []SectionsHoldTheirFiles` and
  `Spec => []NewSectionsDisjoint` through `PlanInv`, for every image base
  up to the u64 limit. It records, per program point:
  * the sizes of the temporary files written so far;
  * that `lanzaboote_image`'s steps run only in mode "stub";
  * that the offset is a number from `stub_offset` on;
  * that from `objcopy` on, and after success, the plan is
    `Layout(StubSizes)` (or the one `.initrd` section);
  * `DebugFits`: in a debug build the plan was handed over only if the
    end of the third section, summed without a wrap (`PlanEnd`), is below
    2^64. This is what the overflow checks contribute, and the one
    conjunct the disjointness needs beyond the plan's shape.

  `FileSizes` reorders the files (`tmp[3]` before `tmp[2]`), so the
  invariant must pin what each temporary file holds, not only its count.
  The lemmas under it:
  * `JoinSizeNat`: the joined command line is a number of bytes. The
    bytes form a finite union of finite blocks (`FS_Surjection`,
    `FS_UNION`, `FS_Product`).
  * `StubOffsetNat`: the offset `stub_offset` computes is a number.
  * `AppendToOne` and `AppendToTwo`: a write appends its size.
  * `LayoutFacts`: `Layout` names and sizes the four sections.
  * `ChecksBoundEnd`: if none of the three additions overflows, the
    unwrapped end is below 2^64 (the `FileSizes` step).
  * `LayoutDisjoint`: below 2^64 no offset wraps (`AddNoWrap`), so the
    sections lie end to end (`SectionsEndToEnd`).

`PrototypeLoaderProofs`:

* **`KernelIsFileHolds`** proves `Spec => []KernelIsFile` for every file,
  chunk size and sequence of read counts, through `LoaderInv`:
  `read_all`'s loop invariant (the buffer is the file's prefix up to the
  firmware's position), the loop left only at the end of the file, and no
  kernel before `StartImage`. The read step rests on `PrefixExtended`,
  which appends the next chunk to the prefix (`ConcatAdjacentSubSeq`).

Assumptions used:

* `DigestAssumption`, `PathsAssumption` and `BlobsAssumption` in
  `StubBoot`.
* `PolicyConstantsAssumption` in `PolicyParams`.
* In `SectionPlanner`:
  * `SectionPlannerAssumption`, with the stub tables as sequences of u32
    pairs;
  * `U32Positive`, stated because the provers do not evaluate `^`;
  * `ImageBasesU64`: an image base is a u64 value;
  * `NoValueDistinct`: no outcome is the placeholder `NoValue`.
* `LoaderConstants` (natural file length and chunk size), a hypothesis of
  `KernelIsFileHolds`.

Only model-checked, and why:

* **The release-build wrap of the offsets.** The disjointness theorem is
  for debug builds; the wrap that breaks it in release builds was found by
  TLC.
* **Properties about the stub's section table.** `OffsetsStrictlyIncreasing`,
  `SectionsAboveStub` and `MalformedStubIsError` are violated by the code,
  so there is nothing to prove. `BuiltImageExtracts` is violated as well.
  `BuildAndBoot` composes two modules by `INSTANCE`, and it has no theorem.
* **Fold-free definitions.** `JoinSize` counts bytes with `Cardinality`
  rather than `FoldLeft`, because what a fold computes can only be
  established by induction, which the provers cannot instantiate.

## Not modelled

* **The stub's helper modules** (`InitrdLoader`'s protocol handlers,
  `measure_image`'s section walk, `pack_cpio`'s archive format,
  `export_*_variables`): their code is not under `src/`. Their effect on the
  stub is modelled as outcomes.
* **`path_to_string`'s `expect`** (pe.rs:140-150). The model assumes every
  path given to `objcopy` is valid UTF-8.
* **The clean-up of temporary files** (pe.rs:95-101). `write_to_tmp`
  keeps its files, and `lanzaboote_image` returns only the image path.
  Cleaning them is up to a caller that is not under `src/`.

## Plan for later work

1. Split `InstallInitrd`, `StartKernel` and `UninstallInitrd` per boot
   routine, so that each maps to the lines of one routine.
2. Model the store changing between `trusted_store_path` and signing, once
   the server code that signs is in the repository.
