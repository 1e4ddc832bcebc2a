------------------------------ MODULE StubBoot ------------------------------
(***************************************************************************)
(* The boot-time pipeline of the lanzaboote stub (src/rust/stub/src/       *)
(* main.rs): extract the configuration embedded in the stub's own PE       *)
(* image, read kernel and initrd from the ESP, compare their SHA-256 with  *)
(* the embedded hashes, measure, pack the companion initrds, then boot the *)
(* kernel either directly (both hashes correct) or through the firmware's  *)
(* LoadImage (fallback), with the virtual initrd device installed around   *)
(* the kernel start.                                                       *)
(*                                                                         *)
(* The stub is one sequential UEFI program: each action is one statement   *)
(* (or a short run of statements) of main() and of the two boot routines,  *)
(* chosen by pc.  What the firmware and the disk do is an input: the       *)
(* loaded image's sections, the ESP's files, Secure Boot, the TPM, and the *)
(* outcome of every firmware call that can fail.                           *)
(***************************************************************************)
EXTENDS Naturals, Sequences

CONSTANTS
    Paths,          \* ESP-relative file names that may appear in .kernelp/.initrdp
    Blobs,          \* possible file contents (kernel or initrd bytes)
    Cmdlines,       \* possible .cmdline contents
    HugeCmdlines,   \* those whose UTF-16 size does not fit in a u32
    Digest(_),      \* SHA-256 of a blob
    Absent,         \* a section that is missing or does not decode
    NoFile,         \* an ESP path that cannot be opened as a regular file
    NoValue         \* "not yet computed"

ASSUME PathsAssumption == Paths # {} /\ Absent \notin Paths
ASSUME BlobsAssumption == Blobs # {} /\ NoFile \notin Blobs /\ NoValue \notin Blobs
ASSUME CmdlineAssumption == HugeCmdlines \subseteq Cmdlines
\* SHA-256 is taken to be collision-free on the blobs of a model.
ASSUME DigestAssumption ==
    \A a, b \in Blobs : Digest(a) = Digest(b) => a = b

Digests == {Digest(b) : b \in Blobs}

(* The three companion initrds, in the order main() packs them             *)
(* (main.rs:272-306), and the PCRs the stub extends.                       *)
Kinds == <<"Credentials", "GlobalCredentials", "SystemExtension">>
PcrKernelImage == 11
PcrKernelParameters == 12
Measurement == [pcr : {PcrKernelImage, PcrKernelParameters},
                what : {"image"} \cup {Kinds[i] : i \in 1..3}]

(* Statuses main() can return.                                             *)
KernelStatuses == {"SUCCESS", "LOAD_ERROR"}
Statuses == KernelStatuses \cup
            {"SECURITY_VIOLATION", "UNSUPPORTED", "OUT_OF_RESOURCES",
             "NOT_FOUND"}

(* Program points of main() and of boot_linux_unchecked/boot_linux_uefi;  *)
(* the stub ends panicked, returned, or with the kernel in control.        *)
Labels == {"extract", "read", "verify", "measure", "export", "companion_fs",
           "pack", "export_pcr", "load_unchecked", "load_uefi",
           "open_loaded_image", "install", "start", "uninstall"}
Terminal == {"panicked", "returned", "kernel_running"}

(* The loaded image's configuration sections, as bytes decode to them.     *)
Image == [kernelp : Paths \cup {Absent}, kernelh : Digests \cup {Absent},
          initrdp : Paths \cup {Absent}, initrdh : Digests \cup {Absent},
          cmdline : Cmdlines \cup {Absent}]

EmbeddedConfiguration ==
    [kernel_filename : Paths, kernel_hash : Digests,
     initrd_filename : Paths, initrd_hash : Digests, cmdline : Cmdlines]

VARIABLES
    pc,
    image,        \* the stub's own PE sections (booted_image_file)
    esp,          \* ESP contents: path -> blob, or NoFile
    secureBoot,   \* whether the firmware's LoadImage enforces signatures
    tpmPresent,   \* whether a TPM is available to measure into
    config,       \* the EmbeddedConfiguration, or NoValue
    kernel_data, initrd_data,
    is_kernel_hash_correct, is_initrd_hash_correct,
    pcrLog,       \* the PCR extends done so far, in order
    initrds,      \* companion initrds packed so far (main.rs:270)
    kindIdx,      \* which of the three pack_cpio calls is next
    installed,    \* the initrd media device is installed
    installs,     \* successful InitrdLoader::new calls
    uninstalls,   \* InitrdLoader::uninstall calls
    kernel,       \* what got control: NoValue or a record
    kstatus,      \* status the kernel returned with, or NoValue
    status,       \* status main() returned, or NoValue
    abortedAt     \* the step whose unwrap/expect panicked, or NoValue

env == <<image, esp, secureBoot, tpmPresent>>
loaded == <<config, kernel_data, initrd_data, is_kernel_hash_correct,
            is_initrd_hash_correct>>
measured == <<pcrLog, initrds, kindIdx>>
booted == <<installed, installs, uninstalls, kernel, kstatus>>
vars == <<pc, env, loaded, measured, booted, status, abortedAt>>

-----------------------------------------------------------------------------
(* How a step ends: on to the next statement, a panic through              *)
(* unwrap/expect (the stub stops there), or an early return from main()    *)
(* through `?`.                                                            *)
Goto(l) == pc' = l /\ UNCHANGED <<status, abortedAt>>
Panic(step) == pc' = "panicked" /\ abortedAt' = step /\ UNCHANGED status
Return(s) == pc' = "returned" /\ status' = s /\ UNCHANGED abortedAt

(* Mutant of Route: `||` instead of `&&` in main.rs:312.                  *)
RouteEither == IF is_kernel_hash_correct \/ is_initrd_hash_correct
                 THEN "unchecked" ELSE "uefi"

(* The boot routine main() calls (main.rs:312).                            *)
Route == IF is_kernel_hash_correct /\ is_initrd_hash_correct
           THEN "unchecked" ELSE "uefi"

Init ==
    /\ pc = "extract"
    /\ image \in Image
    /\ esp \in [Paths -> Blobs \cup {NoFile}]
    /\ secureBoot \in BOOLEAN
    /\ tpmPresent \in BOOLEAN
    /\ config = NoValue
    /\ kernel_data = NoValue
    /\ initrd_data = NoValue
    /\ is_kernel_hash_correct = FALSE
    /\ is_initrd_hash_correct = FALSE
    /\ pcrLog = <<>>
    /\ initrds = <<>>
    /\ kindIdx = 1
    /\ installed = FALSE
    /\ installs = 0
    /\ uninstalls = 0
    /\ kernel = NoValue
    /\ kstatus = NoValue
    /\ status = NoValue
    /\ abortedAt = NoValue

(* Mutant of ExtractConfig: kernel_hash is read from the .initrdh section. *)
ExtractConfigReadsInitrdh ==
    /\ pc = "extract"
    /\ \E servicesOk \in BOOLEAN :
         IF servicesOk /\ \A f \in DOMAIN image : image[f] # Absent
           THEN /\ config' = [kernel_filename |-> image.kernelp,
                              kernel_hash |-> image.initrdh,
                              initrd_filename |-> image.initrdp,
                              initrd_hash |-> image.initrdh,
                              cmdline |-> image.cmdline]
                /\ Goto("read")
           ELSE Panic("extract") /\ UNCHANGED config
    /\ UNCHANGED <<env, kernel_data, initrd_data, is_kernel_hash_correct,
                   is_initrd_hash_correct, measured, booted>>

(* EmbeddedConfiguration::new: each field from its own section.            *)
ConfigOf(img) == [kernel_filename |-> img.kernelp, kernel_hash |-> img.kernelh,
                  initrd_filename |-> img.initrdp, initrd_hash |-> img.initrdh,
                  cmdline |-> img.cmdline]

(* main() from its start: uefi_services::init(...).unwrap() and           *)
(* booted_image_file(...).unwrap() may fail (servicesOk), then             *)
(* EmbeddedConfiguration::new over the booted image: every one of the five *)
(* sections must be there and decode, or .expect panics.                   *)
ExtractConfig ==
    /\ pc = "extract"
    /\ \E servicesOk \in BOOLEAN :
         IF servicesOk /\ \A f \in DOMAIN image : image[f] # Absent
           THEN /\ config' = ConfigOf(image)
                /\ Goto("read")
           ELSE Panic("extract") /\ UNCHANGED config
    /\ UNCHANGED <<env, kernel_data, initrd_data, is_kernel_hash_correct,
                   is_initrd_hash_correct, measured, booted>>

(* get_image_file_system, open_volume, then for the kernel and the initrd  *)
(* open(...).into_regular_file() and read_all, every call .expect-ed.  An  *)
(* open fails when the path is missing or not a regular file; the volume   *)
(* and a read may fail on any file.                                        *)
ReadFiles ==
    /\ pc = "read"
    /\ \E volumeOk, kernelReadOk, initrdReadOk \in BOOLEAN :
         IF /\ volumeOk
            /\ esp[config.kernel_filename] # NoFile /\ kernelReadOk
            /\ esp[config.initrd_filename] # NoFile /\ initrdReadOk
           THEN /\ kernel_data' = esp[config.kernel_filename]
                /\ initrd_data' = esp[config.initrd_filename]
                /\ Goto("verify")
           ELSE Panic("read") /\ UNCHANGED <<kernel_data, initrd_data>>
    /\ UNCHANGED <<env, config, is_kernel_hash_correct, is_initrd_hash_correct,
                   measured, booted>>

(* Sha256::digest of each buffer compared with the embedded hash; a        *)
(* mismatch is only logged.  tpm_available and get_loader_features only    *)
(* log.                                                                    *)
VerifyHashes ==
    /\ pc = "verify"
    /\ is_kernel_hash_correct' = (Digest(kernel_data) = config.kernel_hash)
    /\ is_initrd_hash_correct' = (Digest(initrd_data) = config.initrd_hash)
    /\ Goto("measure")
    /\ UNCHANGED <<env, config, kernel_data, initrd_data, measured, booted>>

(* measure_image(booted_image_file(...).unwrap()).expect: with a TPM the   *)
(* unified sections are extended into the kernel-image PCR, without one   *)
(* nothing is measured; the unwrap and the expect panic on any Err, TPM or *)
(* not.                                                                    *)
MeasureImage ==
    /\ pc = "measure"
    /\ \E ok \in BOOLEAN :
         IF ok THEN /\ pcrLog' = IF tpmPresent
                                  THEN Append(pcrLog, [pcr |-> PcrKernelImage,
                                                       what |-> "image"])
                                  ELSE pcrLog
                    /\ Goto("export")
               ELSE Panic("measure") /\ UNCHANGED pcrLog
    /\ UNCHANGED <<env, loaded, initrds, kindIdx, booted>>

(* export_efi_variables(...).expect: a failing SetVariable panics.         *)
ExportVariables ==
    /\ pc = "export"
    /\ \E ok \in BOOLEAN : IF ok THEN Goto("companion_fs") ELSE Panic("export")
    /\ UNCHANGED <<env, loaded, measured, booted>>

(* `if let Ok(fs) = get_image_file_system(handle)`: without it no          *)
(* companion is packed.                                                    *)
CompanionFileSystem ==
    /\ pc = "companion_fs"
    /\ \E ok \in BOOLEAN : Goto(IF ok THEN "pack" ELSE "export_pcr")
    /\ UNCHANGED <<env, loaded, measured, booted>>

(* One of the three pack_cpio calls.  Ok(Some(cpio)) has been measured     *)
(* into the kernel-parameters PCR (when there is a TPM) and is pushed;     *)
(* Ok(None) (no directory, no matching file) and Err are both dropped.     *)
PackOutcomes == {"some", "none", "err"}

(* Mutant of PackCompanion: measures before looking at the outcome.       *)
PackCompanionMeasuresAll ==
    /\ pc = "pack"
    /\ \E outcome \in PackOutcomes :
         /\ initrds' = IF outcome = "some" THEN Append(initrds, Kinds[kindIdx])
                                          ELSE initrds
         /\ pcrLog' = IF tpmPresent
                        THEN Append(pcrLog, [pcr |-> PcrKernelParameters,
                                             what |-> Kinds[kindIdx]])
                        ELSE pcrLog
    /\ kindIdx' = kindIdx + 1
    /\ Goto(IF kindIdx = Len(Kinds) THEN "export_pcr" ELSE "pack")
    /\ UNCHANGED <<env, loaded, booted>>

PackCompanion ==
    /\ pc = "pack"
    /\ \E outcome \in PackOutcomes :
         IF outcome = "some"
           THEN /\ initrds' = Append(initrds, Kinds[kindIdx])
                /\ pcrLog' = IF tpmPresent
                               THEN Append(pcrLog, [pcr |-> PcrKernelParameters,
                                                    what |-> Kinds[kindIdx]])
                               ELSE pcrLog
           ELSE UNCHANGED <<initrds, pcrLog>>
    /\ kindIdx' = kindIdx + 1
    /\ Goto(IF kindIdx = Len(Kinds) THEN "export_pcr" ELSE "pack")
    /\ UNCHANGED <<env, loaded, booted>>

(* export_pcr_efi_variables takes `initrds` by value and its result is     *)
(* ignored; then main() picks the boot routine on both hash checks.        *)
ExportPcrVariables ==
    /\ pc = "export_pcr"
    /\ Goto(IF Route = "unchecked" THEN "load_unchecked" ELSE "load_uefi")
    /\ UNCHANGED <<env, loaded, measured, booted>>

(* boot_linux_unchecked: Image::load(...).expect with the stub's own PE    *)
(* loader, which checks no signature.                                      *)
LoadUnchecked ==
    /\ pc = "load_unchecked"
    /\ \E ok \in BOOLEAN :
         IF ok THEN Goto("install") ELSE Panic("load_unchecked")
    /\ UNCHANGED <<env, loaded, measured, booted>>

(* boot_linux_uefi: load_image(FromBuffer)?.  Lanzaboote does not sign the *)
(* kernel, so with Secure Boot the firmware refuses it; without, the load  *)
(* may still fail on a bad image.                                          *)
LoadUefi ==
    /\ pc = "load_uefi"
    /\ IF secureBoot
         THEN Return("SECURITY_VIOLATION")
         ELSE \E ok \in BOOLEAN :
                IF ok THEN Goto("open_loaded_image") ELSE Return("LOAD_ERROR")
    /\ UNCHANGED <<env, loaded, measured, booted>>

(* open_protocol_exclusive::<LoadedImage>(kernel_handle)? then             *)
(* set_load_options with u32::try_from(cmdline.num_bytes()).unwrap().      *)
OpenLoadedImage ==
    /\ pc = "open_loaded_image"
    /\ \E ok \in BOOLEAN :
         CASE ~ok -> Return("UNSUPPORTED")
           [] config.cmdline \in HugeCmdlines -> Panic("set_load_options")
           [] OTHER -> Goto("install")
    /\ UNCHANGED <<env, loaded, measured, booted>>

(* InitrdLoader::new(boot_services, handle, initrd_data)?, the same in     *)
(* both routines: installs the initrd media device serving initrd_data.    *)
InstallInitrd ==
    /\ pc = "install"
    /\ \E ok \in BOOLEAN :
         IF ok THEN /\ installed' = TRUE
                    /\ installs' = installs + 1
                    /\ Goto("start")
               ELSE Return("OUT_OF_RESOURCES") /\ UNCHANGED <<installed, installs>>
    /\ UNCHANGED <<env, loaded, measured, uninstalls, kernel, kstatus>>

(* Mutant of StartKernel: the start result is stored before branching.    *)
StartKernelRecordsRuns ==
    /\ pc = "start"
    /\ kernel' = [image |-> kernel_data, initrd |-> <<initrd_data>>,
                  cmdline |-> config.cmdline, route |-> Route]
    /\ \E outcome \in KernelStatuses \cup {"runs"} :
         /\ kstatus' = outcome
         /\ Goto(IF outcome = "runs" THEN "kernel_running" ELSE "uninstall")
    /\ UNCHANGED <<env, loaded, measured, installed, installs, uninstalls>>

(* Mutant of StartKernel: an error status is returned with `?` before the  *)
(* uninstall.                                                              *)
StartKernelReturnsEarly ==
    /\ pc = "start"
    /\ kernel' = [image |-> kernel_data, initrd |-> <<initrd_data>>,
                  cmdline |-> config.cmdline, route |-> Route]
    /\ \E outcome \in KernelStatuses \cup {"runs"} :
         CASE outcome = "runs" -> Goto("kernel_running") /\ UNCHANGED kstatus
           [] outcome = "SUCCESS" -> Goto("uninstall") /\ kstatus' = outcome
           [] OTHER -> Return(outcome) /\ kstatus' = outcome
    /\ UNCHANGED <<env, loaded, measured, installed, installs, uninstalls>>

(* kernel.start(...) or start_image(kernel_handle): the kernel gets        *)
(* kernel_data, the embedded command line and the initrd the device        *)
(* serves.  It keeps control, or returns a status.                         *)
StartKernel ==
    /\ pc = "start"
    /\ kernel' = [image |-> kernel_data, initrd |-> <<initrd_data>>,
                  cmdline |-> config.cmdline, route |-> Route]
    /\ \E outcome \in KernelStatuses \cup {"runs"} :
         IF outcome = "runs"
           THEN Goto("kernel_running") /\ UNCHANGED kstatus
           ELSE Goto("uninstall") /\ kstatus' = outcome
    /\ UNCHANGED <<env, loaded, measured, installed, installs, uninstalls>>

(* initrd_loader.uninstall(boot_services)?; status.into(): a failing       *)
(* uninstall is returned in place of the kernel's status.                  *)
UninstallInitrd ==
    /\ pc = "uninstall"
    /\ uninstalls' = uninstalls + 1
    /\ \E ok \in BOOLEAN :
         IF ok THEN installed' = FALSE /\ Return(kstatus)
               ELSE UNCHANGED installed /\ Return("NOT_FOUND")
    /\ UNCHANGED <<env, loaded, measured, installs, kernel, kstatus>>

Next ==
    \/ ExtractConfig \/ ReadFiles \/ VerifyHashes \/ MeasureImage
    \/ ExportVariables \/ CompanionFileSystem \/ PackCompanion
    \/ ExportPcrVariables \/ LoadUnchecked \/ LoadUefi \/ OpenLoadedImage
    \/ InstallInitrd \/ StartKernel \/ UninstallInitrd

(* What the stub promises (spec 4.7), as a module: its image, Secure Boot *)
(* setting and kernel are the stub's own.                                   *)
BD == INSTANCE BootDecision

Spec == Init /\ [][Next]_vars

-----------------------------------------------------------------------------
(* What the kernel was handed when it got control.                         *)
KernelRecord == [image : Blobs, initrd : Seq(Blobs \cup {Kinds[i] : i \in 1..3}),
                 cmdline : Cmdlines,
                 route : {"unchecked", "uefi"}]

TypeOK ==
    /\ pc \in Labels \cup Terminal
    /\ image \in Image
    /\ esp \in [Paths -> Blobs \cup {NoFile}]
    /\ secureBoot \in BOOLEAN /\ tpmPresent \in BOOLEAN
    /\ config \in EmbeddedConfiguration \cup {NoValue}
    /\ kernel_data \in Blobs \cup {NoValue}
    /\ initrd_data \in Blobs \cup {NoValue}
    /\ is_kernel_hash_correct \in BOOLEAN
    /\ is_initrd_hash_correct \in BOOLEAN
    /\ pcrLog \in Seq(Measurement)
    /\ initrds \in Seq({Kinds[i] : i \in 1..3})
    /\ kindIdx \in 1..4
    /\ installed \in BOOLEAN
    /\ installs \in Nat /\ uninstalls \in Nat
    /\ kernel \in KernelRecord \cup {NoValue}
    /\ kstatus \in KernelStatuses \cup {NoValue}
    /\ status \in Statuses \cup {NoValue}
    /\ abortedAt \in Labels \cup {"set_load_options", NoValue}

(* Under Secure Boot, a kernel gets control only if both the kernel bytes  *)
(* and the initrd bytes it is handed hash to the values embedded in the    *)
(* signed stub; a kernel or initrd that fails the check can only run       *)
(* through the firmware's LoadImage with Secure Boot off.  This is the     *)
(* decision of main.rs:312 together with the firmware's refusal in         *)
(* boot_linux_uefi.                                                        *)
Verified(k) ==
    /\ Digest(k.image) = config.kernel_hash
    /\ \A i \in 1..Len(k.initrd) : Digest(k.initrd[i]) = config.initrd_hash

SecureBootIntegrity ==
    kernel # NoValue =>
        \/ Verified(kernel) /\ kernel.route = "unchecked"
        \/ ~secureBoot /\ kernel.route = "uefi"

(* When the kernel gets control with a TPM present, the PCR log holds      *)
(* exactly one measurement of the stub's unified sections followed by one  *)
(* kernel-parameters measurement per companion initrd that was packed, in  *)
(* packing order; without a TPM nothing was extended.  (measure_image and  *)
(* the three pack_cpio calls of main.rs:260-306.)                          *)
ExpectedLog ==
    IF tpmPresent
      THEN <<[pcr |-> PcrKernelImage, what |-> "image"]>> \o
           [i \in 1..Len(initrds) |-> [pcr |-> PcrKernelParameters,
                                       what |-> initrds[i]]]
      ELSE <<>>

MeasuredBeforeControl ==
    kernel # NoValue => pcrLog = ExpectedLog

(* The initrd device is scoped to the boot attempt: a running kernel finds *)
(* it installed, it is installed at most once, and whenever main() returns *)
(* every successful install was followed by exactly one uninstall call     *)
(* (boot_linux_unchecked and boot_linux_uefi, main.rs:128-133, 171-179).   *)
InitrdDeviceScoped ==
    /\ pc = "kernel_running" => installed
    /\ installs <= 1
    /\ pc = "returned" => uninstalls = installs

(* Spec 4.6: the kernel's initrd is the real initrd followed by every      *)
(* companion initrd that was packed, in packing order.                     *)
CompanionsDelivered ==
    kernel # NoValue => kernel.initrd = <<initrd_data>> \o initrds

(* Spec 4.4 and 7: measurement and variable-export failures are            *)
(* best-effort, logged and never fatal to the boot.                        *)
BestEffortNeverAborts ==
    abortedAt \notin {"measure", "export"}

(* Spec 4.6: a failing uninstall is logged but not escalated, so main()    *)
(* returns the status the kernel returned with.                            *)
KernelStatusReturned ==
    (pc = "returned" /\ kstatus # NoValue) => status = kstatus

(* Spec 3: the virtual initrd device is installed before the kernel image  *)
(* is loaded, so no state holds a loaded kernel image without it.          *)
InstalledBeforeKernelLoad ==
    pc \in {"open_loaded_image", "install", "start"} => installed

(* The stub implements BootDecision: it hands control at most once, never *)
(* changes what it handed over, and hands over the embedded command line  *)
(* with bytes that hash to the values embedded in the image (not merely   *)
(* in the configuration decoded from it), or goes through the firmware    *)
(* with Secure Boot off (EmbeddedConfiguration::new, main.rs:101-112,     *)
(* 238-239, 312-316).                                                      *)
ImplementsBootDecision == BD!Spec
=============================================================================
