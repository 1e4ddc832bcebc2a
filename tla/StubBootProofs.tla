--------------------------- MODULE StubBootProofs ---------------------------
(***************************************************************************)
(* Proofs about the stub's boot pipeline (StubBoot), for every value of    *)
(* the constants that meets the module's assumptions.                      *)
(***************************************************************************)
EXTENDS StubBoot, SequenceTheorems, TLAPS

(* Where the program is relative to the steps that establish data.         *)
PostVerify == {"measure", "export", "companion_fs", "pack", "export_pcr",
               "load_unchecked", "load_uefi", "open_loaded_image", "install",
               "start", "uninstall", "kernel_running"}
PostRead == {"verify"} \cup PostVerify
PostExtract == {"read"} \cup PostRead
PrePack == {"extract", "read", "verify", "measure", "export", "companion_fs"}

(* TypeOK is not inductive on its own: a step reads config, the buffers,   *)
(* kindIdx and kstatus at program points where they must already be set.   *)
TypeInv ==
    /\ TypeOK
    /\ pc \in PostExtract => config \in EmbeddedConfiguration
    /\ pc \in PostRead => kernel_data \in Blobs /\ initrd_data \in Blobs
    /\ pc \in PrePack => kindIdx = 1
    /\ pc = "pack" => kindIdx \in 1..3
    /\ pc = "uninstall" => kstatus \in KernelStatuses

KindSet == {Kinds[i] : i \in 1..3}

LEMMA KindsFacts == /\ Len(Kinds) = 3
                    /\ \A i \in 1..3 : Kinds[i] \in KindSet
BY DEF Kinds, KindSet

LEMMA DigestType == \A b \in Blobs : Digest(b) \in Digests
BY DEF Digests

LEMMA InitTypeInv == Init => TypeInv
<1> SUFFICES ASSUME Init PROVE TypeInv
  OBVIOUS
<1> USE DEF Init
<1>1. pc \in Labels \cup Terminal
  BY DEF Labels
<1>2. pcrLog \in Seq(Measurement) /\ initrds \in Seq({Kinds[i] : i \in 1..3})
  OBVIOUS
<1>3. abortedAt \in Labels \cup {"set_load_options", NoValue}
  OBVIOUS
<1>4. /\ config \in EmbeddedConfiguration \cup {NoValue}
      /\ kernel_data \in Blobs \cup {NoValue}
      /\ initrd_data \in Blobs \cup {NoValue}
      /\ kernel \in KernelRecord \cup {NoValue}
      /\ kstatus \in KernelStatuses \cup {NoValue}
      /\ status \in Statuses \cup {NoValue}
  OBVIOUS
<1>5. kindIdx \in 1..4 /\ installs \in Nat /\ uninstalls \in Nat
  OBVIOUS
<1>6. /\ image \in Image /\ esp \in [Paths -> Blobs \cup {NoFile}]
      /\ secureBoot \in BOOLEAN /\ tpmPresent \in BOOLEAN
      /\ is_kernel_hash_correct \in BOOLEAN /\ is_initrd_hash_correct \in BOOLEAN
      /\ installed \in BOOLEAN
  BY Zenon
<1>7. TypeOK
  BY <1>1, <1>2, <1>3, <1>4, <1>5, <1>6, Zenon DEF TypeOK
<1>8. /\ pc \in PrePack /\ pc \notin PostExtract /\ pc \notin PostRead
      /\ pc # "pack" /\ pc # "uninstall" /\ kindIdx = 1
  BY DEF PrePack, PostExtract, PostRead, PostVerify
<1>9. QED
  BY <1>7, <1>8, Zenon DEF TypeInv

LEMMA NextTypeInv == TypeInv /\ [Next]_vars => TypeInv'
<1> USE DEF TypeInv, TypeOK, PostExtract, PostRead, PostVerify, PrePack,
            Labels, Terminal, Goto, Panic, Return, env, loaded, measured,
            booted
<1>1. ASSUME TypeInv, ExtractConfig PROVE TypeInv'
  BY <1>1 DEF ExtractConfig, ConfigOf, Image, EmbeddedConfiguration
<1>2. ASSUME TypeInv, ReadFiles PROVE TypeInv'
  BY <1>2, BlobsAssumption DEF ReadFiles, EmbeddedConfiguration
<1>3. ASSUME TypeInv, VerifyHashes PROVE TypeInv'
  BY <1>3 DEF VerifyHashes
<1>4. ASSUME TypeInv, MeasureImage PROVE TypeInv'
  <2>1. [pcr |-> PcrKernelImage, what |-> "image"] \in Measurement
    BY DEF Measurement
  <2>2. CASE tpmPresent
    <3> PICK ok \in BOOLEAN :
          IF ok THEN /\ pcrLog' = Append(pcrLog, [pcr |-> PcrKernelImage,
                                                 what |-> "image"])
                     /\ Goto("export")
                ELSE Panic("measure") /\ UNCHANGED pcrLog
      BY <1>4, <2>2 DEF MeasureImage
    <3>1. CASE ok
      <4>1. pcrLog' \in Seq(Measurement)
        <5>1. pcrLog \in Seq(Measurement)
          BY <1>4
        <5> HIDE DEF TypeInv, TypeOK
        <5>2. Append(pcrLog, [pcr |-> PcrKernelImage, what |-> "image"])
                \in Seq(Measurement)
          BY <2>1, <5>1, AppendProperties
        <5>3. QED
          BY <3>1, <5>2
      <4>2. QED
        BY <1>4, <3>1, <4>1 DEF MeasureImage
    <3>2. CASE ~ok
      BY <1>4, <3>2 DEF MeasureImage
    <3>3. QED
      BY <3>1, <3>2
  <2>3. CASE ~tpmPresent
    BY <1>4, <2>3 DEF MeasureImage
  <2>4. QED
    BY <2>2, <2>3
<1>5. ASSUME TypeInv, ExportVariables PROVE TypeInv'
  BY <1>5 DEF ExportVariables
<1>6. ASSUME TypeInv, CompanionFileSystem PROVE TypeInv'
  BY <1>6 DEF CompanionFileSystem
<1>7. ASSUME TypeInv, PackCompanion PROVE TypeInv'
  <2>1. kindIdx \in 1..3 /\ Kinds[kindIdx] \in KindSet
    BY <1>7, KindsFacts DEF PackCompanion
  <2>2. [pcr |-> PcrKernelParameters, what |-> Kinds[kindIdx]] \in Measurement
    BY <2>1 DEF Measurement, KindSet
  <2>3. /\ Append(initrds, Kinds[kindIdx]) \in Seq(KindSet)
        /\ Append(pcrLog, [pcr |-> PcrKernelParameters,
                           what |-> Kinds[kindIdx]]) \in Seq(Measurement)
    BY <1>7, <2>1, <2>2, AppendProperties DEF KindSet
  <2>4. /\ kindIdx' \in 1..4
        /\ pc' = "pack" => kindIdx' \in 1..3
        /\ pc' \in {"pack", "export_pcr"}
    BY <1>7, <2>1, KindsFacts DEF PackCompanion
  <2>5. pcrLog' \in Seq(Measurement) /\ initrds' \in Seq(KindSet)
    <3> PICK outcome \in PackOutcomes :
          IF outcome = "some"
            THEN /\ initrds' = Append(initrds, Kinds[kindIdx])
                 /\ pcrLog' = IF tpmPresent
                                THEN Append(pcrLog, [pcr |-> PcrKernelParameters,
                                                     what |-> Kinds[kindIdx]])
                                ELSE pcrLog
            ELSE UNCHANGED <<initrds, pcrLog>>
      BY <1>7 DEF PackCompanion
    <3>1. CASE outcome = "some" /\ tpmPresent
      BY <2>3, <3>1
    <3>2. CASE outcome = "some" /\ ~tpmPresent
      BY <1>7, <2>3, <3>2
    <3>3. CASE outcome # "some"
      BY <1>7, <3>3 DEF KindSet
    <3>4. QED
      BY <3>1, <3>2, <3>3
  <2>6. QED
    BY <1>7, <2>4, <2>5 DEF PackCompanion, KindSet
<1>8. ASSUME TypeInv, ExportPcrVariables PROVE TypeInv'
  BY <1>8 DEF ExportPcrVariables
<1>9. ASSUME TypeInv, LoadUnchecked PROVE TypeInv'
  BY <1>9 DEF LoadUnchecked
<1>10. ASSUME TypeInv, LoadUefi PROVE TypeInv'
  <2>1. CASE secureBoot
    BY <1>10, <2>1 DEF LoadUefi, Statuses
  <2>2. CASE ~secureBoot
    <3> PICK ok \in BOOLEAN :
          IF ok THEN Goto("open_loaded_image") ELSE Return("LOAD_ERROR")
      BY <1>10, <2>2 DEF LoadUefi
    <3>1. CASE ok
      BY <1>10, <3>1 DEF LoadUefi
    <3>2. CASE ~ok
      BY <1>10, <3>2 DEF LoadUefi, Statuses, KernelStatuses
    <3>3. QED
      BY <3>1, <3>2
  <2>3. QED
    BY <2>1, <2>2
<1>11. ASSUME TypeInv, OpenLoadedImage PROVE TypeInv'
  BY <1>11 DEF OpenLoadedImage, Statuses
<1>12. ASSUME TypeInv, InstallInitrd PROVE TypeInv'
  <2> PICK ok \in BOOLEAN :
        IF ok THEN /\ installed' = TRUE
                   /\ installs' = installs + 1
                   /\ Goto("start")
              ELSE Return("OUT_OF_RESOURCES") /\ UNCHANGED <<installed, installs>>
    BY <1>12 DEF InstallInitrd
  <2>1. CASE ok
    BY <1>12, <2>1 DEF InstallInitrd
  <2>2. CASE ~ok
    BY <1>12, <2>2 DEF InstallInitrd, Statuses
  <2>3. QED
    BY <2>1, <2>2
<1>13. ASSUME TypeInv, StartKernel PROVE TypeInv'
  BY <1>13, KindsFacts DEF StartKernel, KernelRecord, EmbeddedConfiguration,
                          KindSet, Route
<1>14. ASSUME TypeInv, UninstallInitrd PROVE TypeInv'
  <2>1. kstatus \in KernelStatuses /\ uninstalls' \in Nat
    BY <1>14 DEF UninstallInitrd
  <2> PICK ok \in BOOLEAN :
        IF ok THEN installed' = FALSE /\ Return(kstatus)
              ELSE UNCHANGED installed /\ Return("NOT_FOUND")
    BY <1>14 DEF UninstallInitrd
  <2>2. CASE ok
    <3>1. /\ pc' = "returned" /\ status' \in Statuses
          /\ installed' \in BOOLEAN
      BY <1>14, <2>1, <2>2 DEF UninstallInitrd, Statuses
    <3>2. UNCHANGED <<env, loaded, measured, installs, kernel, kstatus,
                      abortedAt>>
      BY <1>14 DEF UninstallInitrd
    <3>3. QED
      BY <1>14, <2>1, <3>1, <3>2
  <2>3. CASE ~ok
    BY <1>14, <2>1, <2>3 DEF UninstallInitrd, Statuses
  <2>4. QED
    BY <2>2, <2>3
<1>15. ASSUME TypeInv, UNCHANGED vars PROVE TypeInv'
  BY <1>15 DEF vars
<1>16. QED
  BY <1>1, <1>2, <1>3, <1>4, <1>5, <1>6, <1>7, <1>8, <1>9, <1>10, <1>11,
     <1>12, <1>13, <1>14, <1>15 DEF Next

(* Every variable of the stub keeps its type in every reachable state.     *)
THEOREM TypeCorrect == Spec => []TypeOK
<1>1. Spec => []TypeInv
  BY InitTypeInv, NextTypeInv, PTL DEF Spec
<1>2. QED
  BY <1>1, PTL DEF TypeInv
-----------------------------------------------------------------------------
(* SecureBootIntegrity is not inductive: it speaks of the kernel record    *)
(* only.  The strengthening ties the record to the buffers it was built    *)
(* from, the two booleans to the hashes of those buffers, and the firmware *)
(* route to Secure Boot being off from the moment LoadImage succeeded.     *)
AfterLoadImage == {"open_loaded_image", "install", "start", "uninstall",
                   "kernel_running"}

HashesComputed ==
    (pc \in PostVerify \/ kernel # NoValue) =>
        /\ is_kernel_hash_correct = (Digest(kernel_data) = config.kernel_hash)
        /\ is_initrd_hash_correct = (Digest(initrd_data) = config.initrd_hash)

KernelFromBuffers ==
    kernel # NoValue =>
        /\ kernel.image = kernel_data
        /\ kernel.initrd = <<initrd_data>>
        /\ kernel.route = Route

KernelStarted ==
    kernel # NoValue => pc \in {"uninstall", "kernel_running", "returned"}

UncheckedRouteChosen ==
    pc = "load_unchecked" => Route = "unchecked"

FirmwareRouteUnenforced ==
    ((pc \in AfterLoadImage \/ kernel # NoValue) /\ Route = "uefi")
        => ~secureBoot

IntegrityInv ==
    /\ TypeInv
    /\ HashesComputed
    /\ KernelFromBuffers
    /\ KernelStarted
    /\ UncheckedRouteChosen
    /\ FirmwareRouteUnenforced

LEMMA InitIntegrityInv == Init => IntegrityInv
BY InitTypeInv DEF Init, IntegrityInv, HashesComputed, KernelFromBuffers, KernelStarted,
                   UncheckedRouteChosen, FirmwareRouteUnenforced, PostVerify,
                   AfterLoadImage

LEMMA NextIntegrityInv == IntegrityInv /\ [Next]_vars => IntegrityInv'
<1> USE DEF HashesComputed, KernelFromBuffers, KernelStarted, UncheckedRouteChosen,
            FirmwareRouteUnenforced, PostVerify, AfterLoadImage, Goto,
            Panic, Return, env, loaded, measured, booted, Route
(* Steps that only move pc and change none of the data the invariant      *)
(* speaks of.                                                              *)
<1>0. ASSUME IntegrityInv,
             UNCHANGED <<env, loaded>>,
             kernel = NoValue, kernel' = NoValue,
             pc' \in PostVerify => pc \in PostVerify,
             pc' \in AfterLoadImage => pc \in AfterLoadImage,
             pc' # "load_unchecked"
      PROVE  (HashesComputed /\ KernelFromBuffers /\ KernelStarted
              /\ UncheckedRouteChosen
              /\ FirmwareRouteUnenforced)'
  BY <1>0 DEF IntegrityInv
<1>1. ASSUME IntegrityInv, TypeInv', ExtractConfig PROVE IntegrityInv'
  BY <1>1 DEF ExtractConfig, ConfigOf, IntegrityInv
<1>2. ASSUME IntegrityInv, TypeInv', ReadFiles PROVE IntegrityInv'
  BY <1>2 DEF ReadFiles, IntegrityInv
<1>3. ASSUME IntegrityInv, TypeInv', VerifyHashes PROVE IntegrityInv'
  BY <1>3 DEF VerifyHashes, IntegrityInv
<1>4. ASSUME IntegrityInv, TypeInv', MeasureImage PROVE IntegrityInv'
  BY <1>4, <1>0 DEF MeasureImage, IntegrityInv
<1>5. ASSUME IntegrityInv, TypeInv', ExportVariables PROVE IntegrityInv'
  BY <1>5, <1>0 DEF ExportVariables, IntegrityInv
<1>6. ASSUME IntegrityInv, TypeInv', CompanionFileSystem PROVE IntegrityInv'
  BY <1>6, <1>0 DEF CompanionFileSystem, IntegrityInv
<1>7. ASSUME IntegrityInv, TypeInv', PackCompanion PROVE IntegrityInv'
  BY <1>7, <1>0 DEF PackCompanion, IntegrityInv
<1>8. ASSUME IntegrityInv, TypeInv', ExportPcrVariables PROVE IntegrityInv'
  BY <1>8 DEF ExportPcrVariables, IntegrityInv
<1>9. ASSUME IntegrityInv, TypeInv', LoadUnchecked PROVE IntegrityInv'
  BY <1>9 DEF LoadUnchecked, IntegrityInv
<1>10. ASSUME IntegrityInv, TypeInv', LoadUefi PROVE IntegrityInv'
  BY <1>10 DEF LoadUefi, IntegrityInv
<1>11. ASSUME IntegrityInv, TypeInv', OpenLoadedImage PROVE IntegrityInv'
  BY <1>11 DEF OpenLoadedImage, IntegrityInv
<1>12. ASSUME IntegrityInv, TypeInv', InstallInitrd PROVE IntegrityInv'
  BY <1>12 DEF InstallInitrd, IntegrityInv
<1>13. ASSUME IntegrityInv, TypeInv', StartKernel PROVE IntegrityInv'
  BY <1>13 DEF StartKernel, IntegrityInv
<1>14. ASSUME IntegrityInv, TypeInv', UninstallInitrd PROVE IntegrityInv'
  BY <1>14 DEF UninstallInitrd, IntegrityInv
<1>15. ASSUME IntegrityInv, UNCHANGED vars PROVE IntegrityInv'
  BY <1>15 DEF vars, IntegrityInv, TypeInv, TypeOK
<1>16. QED
  <2> SUFFICES ASSUME IntegrityInv, [Next]_vars PROVE IntegrityInv'
    OBVIOUS
  <2>1. TypeInv'
    BY NextTypeInv DEF IntegrityInv
  <2>2. QED
    BY <2>1, <1>1, <1>2, <1>3, <1>4, <1>5, <1>6, <1>7, <1>8, <1>9, <1>10,
       <1>11, <1>12, <1>13, <1>14, <1>15 DEF Next

(* Under Secure Boot a kernel gets control only with kernel and initrd     *)
(* bytes that hash to the embedded values (main.rs:312 and the firmware's  *)
(* refusal of the unsigned kernel in boot_linux_uefi).                     *)
THEOREM SecureBootIntegrityHolds == Spec => []SecureBootIntegrity
<1>1. IntegrityInv => SecureBootIntegrity
  <2> SUFFICES ASSUME IntegrityInv, kernel # NoValue
               PROVE  \/ Verified(kernel) /\ kernel.route = "unchecked"
                      \/ ~secureBoot /\ kernel.route = "uefi"
    BY DEF SecureBootIntegrity
  <2>1. CASE is_kernel_hash_correct /\ is_initrd_hash_correct
    <3>1. /\ Digest(kernel.image) = config.kernel_hash
          /\ Digest(initrd_data) = config.initrd_hash
          /\ kernel.initrd = <<initrd_data>>
          /\ kernel.route = "unchecked"
      BY <2>1 DEF IntegrityInv, HashesComputed, KernelFromBuffers, Route
    <3>2. \A i \in 1..Len(kernel.initrd) : Digest(kernel.initrd[i]) = config.initrd_hash
      BY <3>1
    <3>3. QED
      BY <3>1, <3>2 DEF Verified
  <2>2. CASE ~(is_kernel_hash_correct /\ is_initrd_hash_correct)
    BY <2>2 DEF IntegrityInv, KernelFromBuffers, FirmwareRouteUnenforced,
                Route
  <2>3. QED
    BY <2>1, <2>2
<1>2. Spec => []IntegrityInv
  BY InitIntegrityInv, NextIntegrityInv, PTL DEF Spec
<1>3. QED
  BY <1>1, <1>2, PTL
-----------------------------------------------------------------------------
(* Measurement.  Before measure_image nothing is extended or packed; from  *)
(* there on the log is exactly what ExpectedLog says of the companions     *)
(* packed so far; the kernel is only handed control after packing.         *)
PreMeasure == {"extract", "read", "verify", "measure"}
PostMeasure == {"export", "companion_fs", "pack", "export_pcr",
                "load_unchecked", "load_uefi", "open_loaded_image", "install",
                "start", "uninstall", "kernel_running"}

MeasureInv ==
    /\ TypeInv
    /\ pc \in PreMeasure => pcrLog = <<>> /\ initrds = <<>>
    /\ pc \in PostMeasure => pcrLog = ExpectedLog
    /\ pc \in PrePack \cup {"pack", "export_pcr"} => kernel = NoValue
    /\ kernel # NoValue => pcrLog = ExpectedLog

(* The initrd device.  Until InitrdLoader::new succeeds no device exists   *)
(* and none was removed; from then until the uninstall it exists once.     *)
PreInstall == PrePack \cup {"pack", "export_pcr", "load_unchecked",
                            "load_uefi", "open_loaded_image", "install"}

DeviceInv ==
    /\ TypeInv
    /\ pc \in PreInstall \cup {"panicked"} =>
           installs = 0 /\ uninstalls = 0 /\ ~installed
    /\ pc \in {"start", "kernel_running", "uninstall"} =>
           installs = 1 /\ uninstalls = 0
    /\ pc \in {"start", "kernel_running"} => installed
    /\ pc = "returned" => uninstalls = installs /\ installs \in {0, 1}

(* The log ExpectedLog asks for, as a function of the packed companions.  *)
ImageThenCompanions(s) ==
    <<[pcr |-> PcrKernelImage, what |-> "image"]>> \o
    [i \in 1..Len(s) |-> [pcr |-> PcrKernelParameters, what |-> s[i]]]

LEMMA ExpectedLogIs ==
    ExpectedLog = IF tpmPresent THEN ImageThenCompanions(initrds) ELSE <<>>
BY DEF ExpectedLog, ImageThenCompanions

LEMMA ImageOnly ==
    ImageThenCompanions(<<>>) = <<[pcr |-> PcrKernelImage, what |-> "image"]>>
BY DEF ImageThenCompanions

(* Packing one more companion appends one kernel-parameters measurement.  *)
LEMMA CompanionAppended ==
    ASSUME NEW s \in Seq(KindSet), NEW k \in KindSet
    PROVE  ImageThenCompanions(Append(s, k)) =
           Append(ImageThenCompanions(s), [pcr |-> PcrKernelParameters, what |-> k])
BY DEF ImageThenCompanions

LEMMA InitMeasureInv == Init => MeasureInv
BY InitTypeInv DEF Init, MeasureInv, PreMeasure, PostMeasure, PrePack

LEMMA NextMeasureInv == MeasureInv /\ [Next]_vars => MeasureInv'
<1> USE DEF PreMeasure, PostMeasure, PrePack, Goto, Panic, Return,
            env, loaded, measured, booted
(* Steps that leave the log, the companions, the TPM and the kernel alone. *)
<1>0. ASSUME MeasureInv, TypeInv',
             UNCHANGED <<pcrLog, initrds, tpmPresent, kernel>>,
             pc' \in PreMeasure => pc \in PreMeasure,
             pc' \in PostMeasure => pc \in PostMeasure,
             pc' \in PrePack \cup {"pack", "export_pcr"} =>
                 pc \in PrePack \cup {"pack", "export_pcr"}
      PROVE  MeasureInv'
  BY <1>0 DEF MeasureInv, ExpectedLog
<1>1. ASSUME MeasureInv, TypeInv', ExtractConfig PROVE MeasureInv'
  BY <1>1, <1>0 DEF ExtractConfig
<1>2. ASSUME MeasureInv, TypeInv', ReadFiles PROVE MeasureInv'
  BY <1>2, <1>0 DEF ReadFiles
<1>3. ASSUME MeasureInv, TypeInv', VerifyHashes PROVE MeasureInv'
  BY <1>3, <1>0 DEF VerifyHashes
<1>4. ASSUME MeasureInv, TypeInv', MeasureImage PROVE MeasureInv'
  <2>1. pcrLog = <<>> /\ initrds = <<>> /\ kernel = NoValue
    BY <1>4 DEF MeasureImage, MeasureInv
  <2>2. ExpectedLog' = IF tpmPresent
                         THEN <<[pcr |-> PcrKernelImage, what |-> "image"]>>
                         ELSE <<>>
    <3>1. ExpectedLog' = IF tpmPresent' THEN ImageThenCompanions(initrds') ELSE <<>>
      BY DEF ExpectedLog, ImageThenCompanions
    <3>2. QED
      BY <1>4, <2>1, <3>1, ImageOnly DEF MeasureImage
  <2>3. QED
    BY <1>4, <2>1, <2>2 DEF MeasureImage, MeasureInv
<1>5. ASSUME MeasureInv, TypeInv', ExportVariables PROVE MeasureInv'
  BY <1>5, <1>0 DEF ExportVariables
<1>6. ASSUME MeasureInv, TypeInv', CompanionFileSystem PROVE MeasureInv'
  BY <1>6, <1>0 DEF CompanionFileSystem
<1>7. ASSUME MeasureInv, TypeInv', PackCompanion PROVE MeasureInv'
  <2>1. /\ pcrLog = ExpectedLog /\ kernel = NoValue /\ kernel' = NoValue
        /\ initrds \in Seq(KindSet) /\ Kinds[kindIdx] \in KindSet
        /\ pc' \in {"pack", "export_pcr"}
    BY <1>7, KindsFacts DEF PackCompanion, MeasureInv, TypeInv, TypeOK, KindSet
  <2>2. pcrLog' = ExpectedLog'
    <3>0. ExpectedLog' = IF tpmPresent' THEN ImageThenCompanions(initrds') ELSE <<>>
      BY DEF ExpectedLog, ImageThenCompanions
    <3>1. CASE initrds' = Append(initrds, Kinds[kindIdx])
      BY <1>7, <2>1, <3>0, <3>1, ExpectedLogIs, CompanionAppended DEF PackCompanion
    <3>2. CASE initrds' = initrds
      BY <1>7, <2>1, <3>0, <3>2, ExpectedLogIs DEF PackCompanion
    <3>3. QED
      BY <1>7, <3>1, <3>2 DEF PackCompanion
  <2>3. QED
    BY <1>7, <2>1, <2>2 DEF MeasureInv
<1>8. ASSUME MeasureInv, TypeInv', ExportPcrVariables PROVE MeasureInv'
  BY <1>8, <1>0 DEF ExportPcrVariables
<1>9. ASSUME MeasureInv, TypeInv', LoadUnchecked PROVE MeasureInv'
  BY <1>9, <1>0 DEF LoadUnchecked
<1>10. ASSUME MeasureInv, TypeInv', LoadUefi PROVE MeasureInv'
  BY <1>10, <1>0 DEF LoadUefi
<1>11. ASSUME MeasureInv, TypeInv', OpenLoadedImage PROVE MeasureInv'
  BY <1>11, <1>0 DEF OpenLoadedImage
<1>12. ASSUME MeasureInv, TypeInv', InstallInitrd PROVE MeasureInv'
  BY <1>12, <1>0 DEF InstallInitrd
<1>13. ASSUME MeasureInv, TypeInv', StartKernel PROVE MeasureInv'
  BY <1>13 DEF StartKernel, MeasureInv, ExpectedLog
<1>14. ASSUME MeasureInv, TypeInv', UninstallInitrd PROVE MeasureInv'
  BY <1>14 DEF UninstallInitrd, MeasureInv, ExpectedLog
<1>15. ASSUME MeasureInv, TypeInv', UNCHANGED vars PROVE MeasureInv'
  BY <1>15 DEF vars, MeasureInv, ExpectedLog
<1>16. QED
  <2> SUFFICES ASSUME MeasureInv, [Next]_vars PROVE MeasureInv'
    OBVIOUS
  <2>1. TypeInv'
    BY NextTypeInv DEF MeasureInv
  <2>2. QED
    BY <2>1, <1>1, <1>2, <1>3, <1>4, <1>5, <1>6, <1>7, <1>8, <1>9, <1>10,
       <1>11, <1>12, <1>13, <1>14, <1>15 DEF Next

(* When the kernel gets control the PCR log holds the image measurement    *)
(* and one measurement per packed companion, in order (measure_image and   *)
(* pack_cpio in main.rs:260-306 run before either boot routine).           *)
THEOREM MeasuredBeforeControlHolds == Spec => []MeasuredBeforeControl
<1>1. MeasureInv => MeasuredBeforeControl
  BY DEF MeasureInv, MeasuredBeforeControl
<1>2. Spec => []MeasureInv
  BY InitMeasureInv, NextMeasureInv, PTL DEF Spec
<1>3. QED
  BY <1>1, <1>2, PTL


LEMMA InitDeviceInv == Init => DeviceInv
BY InitTypeInv DEF Init, DeviceInv, PreInstall, PrePack

LEMMA NextDeviceInv == DeviceInv /\ [Next]_vars => DeviceInv'
<1> USE DEF PreInstall, PrePack, Goto, Panic, Return, env, loaded, measured,
            booted
(* Steps before InitrdLoader::new: they move pc within PreInstall, or end  *)
(* main() there, and leave the device alone.                               *)
<1>0. ASSUME DeviceInv, TypeInv', pc \in PreInstall,
             UNCHANGED <<installed, installs, uninstalls>>,
             pc' \in PreInstall \cup {"panicked", "returned"}
      PROVE  DeviceInv'
  BY <1>0 DEF DeviceInv
<1>1. ASSUME DeviceInv, TypeInv', ExtractConfig PROVE DeviceInv'
  BY <1>1, <1>0 DEF ExtractConfig
<1>2. ASSUME DeviceInv, TypeInv', ReadFiles PROVE DeviceInv'
  BY <1>2, <1>0 DEF ReadFiles
<1>3. ASSUME DeviceInv, TypeInv', VerifyHashes PROVE DeviceInv'
  BY <1>3, <1>0 DEF VerifyHashes
<1>4. ASSUME DeviceInv, TypeInv', MeasureImage PROVE DeviceInv'
  BY <1>4, <1>0 DEF MeasureImage
<1>5. ASSUME DeviceInv, TypeInv', ExportVariables PROVE DeviceInv'
  BY <1>5, <1>0 DEF ExportVariables
<1>6. ASSUME DeviceInv, TypeInv', CompanionFileSystem PROVE DeviceInv'
  BY <1>6, <1>0 DEF CompanionFileSystem
<1>7. ASSUME DeviceInv, TypeInv', PackCompanion PROVE DeviceInv'
  BY <1>7, <1>0 DEF PackCompanion
<1>8. ASSUME DeviceInv, TypeInv', ExportPcrVariables PROVE DeviceInv'
  BY <1>8, <1>0 DEF ExportPcrVariables
<1>9. ASSUME DeviceInv, TypeInv', LoadUnchecked PROVE DeviceInv'
  BY <1>9, <1>0 DEF LoadUnchecked
<1>10. ASSUME DeviceInv, TypeInv', LoadUefi PROVE DeviceInv'
  BY <1>10, <1>0 DEF LoadUefi
<1>11. ASSUME DeviceInv, TypeInv', OpenLoadedImage PROVE DeviceInv'
  BY <1>11, <1>0 DEF OpenLoadedImage
<1>12. ASSUME DeviceInv, TypeInv', InstallInitrd PROVE DeviceInv'
  BY <1>12 DEF InstallInitrd, DeviceInv
<1>13. ASSUME DeviceInv, TypeInv', StartKernel PROVE DeviceInv'
  BY <1>13 DEF StartKernel, DeviceInv
<1>14. ASSUME DeviceInv, TypeInv', UninstallInitrd PROVE DeviceInv'
  BY <1>14 DEF UninstallInitrd, DeviceInv
<1>15. ASSUME DeviceInv, TypeInv', UNCHANGED vars PROVE DeviceInv'
  BY <1>15 DEF vars, DeviceInv
<1>16. QED
  <2> SUFFICES ASSUME DeviceInv, [Next]_vars PROVE DeviceInv'
    OBVIOUS
  <2>1. TypeInv'
    BY NextTypeInv DEF DeviceInv
  <2>2. QED
    BY <2>1, <1>1, <1>2, <1>3, <1>4, <1>5, <1>6, <1>7, <1>8, <1>9, <1>10,
       <1>11, <1>12, <1>13, <1>14, <1>15 DEF Next

(* A running kernel finds the initrd device installed, it is installed at  *)
(* most once, and when main() returns every install had its uninstall      *)
(* call (InitrdLoader::new and uninstall in main.rs:128-133, 171-179).     *)
THEOREM InitrdDeviceScopedHolds == Spec => []InitrdDeviceScoped
<1>1. DeviceInv => InitrdDeviceScoped
  BY DEF DeviceInv, InitrdDeviceScoped, TypeInv, TypeOK, PreInstall, PrePack,
         Labels, Terminal
<1>2. Spec => []DeviceInv
  BY InitDeviceInv, NextDeviceInv, PTL DEF Spec
<1>3. QED
  BY <1>1, <1>2, PTL

-----------------------------------------------------------------------------
(* Refinement of BootDecision.  The abstract promise speaks of the hashes  *)
(* and command line embedded in the image; the stub compares with the      *)
(* configuration it decoded, so the proof needs that the configuration is *)
(* the image's from extraction on.                                         *)
ConfigFromImage ==
    pc \in PostExtract =>
        /\ config.kernel_hash = image.kernelh
        /\ config.initrd_hash = image.initrdh
        /\ config.cmdline = image.cmdline

LEMMA InitConfigFromImage == Init => ConfigFromImage
BY DEF Init, ConfigFromImage, PostExtract, PostRead, PostVerify

LEMMA NextConfigFromImage ==
    TypeInv /\ ConfigFromImage /\ [Next]_vars => ConfigFromImage'
<1> SUFFICES ASSUME TypeInv, ConfigFromImage, [Next]_vars PROVE ConfigFromImage'
  OBVIOUS
<1>1. CASE ExtractConfig
  BY <1>1 DEF ExtractConfig, ConfigOf, ConfigFromImage, Goto, Panic, PostExtract, PostRead,
             PostVerify, env
<1>2. CASE ~ExtractConfig
  <2>1. UNCHANGED <<image, config>>
    BY <1>2 DEF Next, vars, env, loaded, ReadFiles, VerifyHashes, MeasureImage,
               ExportVariables, CompanionFileSystem, PackCompanion,
               ExportPcrVariables, LoadUnchecked, LoadUefi, OpenLoadedImage,
               InstallInitrd, StartKernel, UninstallInitrd
  <2>2. pc' \in PostExtract => pc \in PostExtract
    BY <1>2 DEF Next, vars, ReadFiles, VerifyHashes, MeasureImage,
               ExportVariables, CompanionFileSystem, PackCompanion,
               ExportPcrVariables, LoadUnchecked, LoadUefi, OpenLoadedImage,
               InstallInitrd, StartKernel, UninstallInitrd, Goto, Panic, Return,
               PostExtract, PostRead, PostVerify
  <2>3. QED
    BY <2>1, <2>2 DEF ConfigFromImage
<1>3. QED
  BY <1>1, <1>2

(* The stub's StartKernel is BootDecision's Start: the record handed over *)
(* carries the embedded command line, and its route is allowed by the     *)
(* hashes embedded in the image or by Secure Boot being off.              *)
LEMMA StartKernelIsStart ==
    ASSUME IntegrityInv, ConfigFromImage, StartKernel
    PROVE  /\ kernel = NoValue
           /\ BD!MayStart(kernel')
           /\ UNCHANGED <<image, secureBoot>>
<1>1. /\ pc = "start"
      /\ kernel' = [image |-> kernel_data, initrd |-> <<initrd_data>>,
                    cmdline |-> config.cmdline, route |-> Route]
      /\ UNCHANGED <<image, secureBoot>>
  BY DEF StartKernel, env
<1>2. kernel = NoValue
  BY <1>1 DEF IntegrityInv, KernelStarted
<1>3. /\ config.kernel_hash = image.kernelh
      /\ config.initrd_hash = image.initrdh
      /\ config.cmdline = image.cmdline
  BY <1>1 DEF ConfigFromImage, PostExtract, PostRead, PostVerify
<1>4. CASE Route = "unchecked"
  <2>1. /\ Digest(kernel_data) = config.kernel_hash
        /\ Digest(initrd_data) = config.initrd_hash
    BY <1>1, <1>4 DEF IntegrityInv, HashesComputed, PostVerify, Route
  <2>2. BD!EmbeddedVerified(kernel')
    BY <1>1, <1>3, <2>1 DEF BD!EmbeddedVerified
  <2>3. QED
    BY <1>1, <1>2, <1>3, <1>4, <2>2 DEF BD!MayStart
<1>5. CASE Route # "unchecked"
  <2>1. Route = "uefi" /\ ~secureBoot
    BY <1>1, <1>5 DEF IntegrityInv, FirmwareRouteUnenforced, AfterLoadImage, Route
  <2>2. QED
    BY <1>1, <1>2, <1>3, <2>1 DEF BD!MayStart
<1>6. QED
  BY <1>4, <1>5

(* The stub implements BootDecision: from the first state on, every step  *)
(* either hands control to a kernel the embedded configuration and the    *)
(* Secure Boot setting allow, or changes neither the image, the Secure    *)
(* Boot setting nor what has control (main.rs:101-112, 238-239, 312-316). *)
THEOREM ImplementsBootDecisionHolds == Spec => ImplementsBootDecision
<1>1. Init => BD!Init
  BY DEF Init, BD!Init
<1>2. IntegrityInv /\ ConfigFromImage /\ [Next]_vars => [BD!Start]_BD!dvars
  <2> SUFFICES ASSUME IntegrityInv, ConfigFromImage, [Next]_vars
               PROVE  [BD!Start]_BD!dvars
    OBVIOUS
  <2>1. CASE StartKernel /\ kernel' # NoValue
    BY <2>1, StartKernelIsStart DEF BD!Start
  <2>4. CASE StartKernel /\ kernel' = NoValue
    <3>1. kernel = NoValue /\ UNCHANGED <<image, secureBoot>>
      BY <2>4 DEF StartKernel, env, IntegrityInv, KernelStarted
    <3>2. QED
      BY <2>4, <3>1 DEF BD!dvars
  <2>2. CASE ~StartKernel
    <3>1. UNCHANGED <<image, secureBoot, kernel>>
      BY <2>2 DEF Next, vars, env, booted, ExtractConfig, ReadFiles,
                 VerifyHashes, MeasureImage, ExportVariables, CompanionFileSystem,
                 PackCompanion, ExportPcrVariables, LoadUnchecked, LoadUefi,
                 OpenLoadedImage, InstallInitrd, UninstallInitrd
    <3>2. QED
      BY <3>1 DEF BD!dvars
  <2>3. QED
    BY <2>1, <2>2, <2>4
<1>3. Spec => [](IntegrityInv /\ ConfigFromImage)
  <2>1. Init => IntegrityInv /\ ConfigFromImage
    BY InitIntegrityInv, InitConfigFromImage
  <2>2. IntegrityInv /\ ConfigFromImage /\ [Next]_vars
          => (IntegrityInv /\ ConfigFromImage)'
    BY NextIntegrityInv, NextConfigFromImage DEF IntegrityInv
  <2>3. QED
    BY <2>1, <2>2, PTL DEF Spec
<1>4. QED
  BY <1>1, <1>2, <1>3, PTL DEF Spec, ImplementsBootDecision, BD!Spec
=============================================================================
