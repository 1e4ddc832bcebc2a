--------------------------- MODULE SectionPlanner ---------------------------
(***************************************************************************)
(* lanzaboote_image and wrap_initrd (lanzatool/src/pe.rs), the embedder   *)
(* of the build tool.  lanzaboote_image writes the command line and the    *)
(* two ESP-relative paths to temporary                                     *)
(* files, computes the virtual address of every new section from the stub *)
(* binary's section table and image base (stub_offset), and hands the plan *)
(* to objcopy (wrap_in_pe); wrap_initrd plans one .initrd section at the  *)
(* stub's offset.  Contents are abstracted to their byte sizes,            *)
(* the only thing the offsets depend on.  The u32 sum                      *)
(* virtual_size + virtual_address and the u64 sums of the offsets are kept *)
(* at their widths, scaled to Width and 2 * Width bits; an overflow panics *)
(* in a debug build and wraps in a release build.                          *)
(***************************************************************************)
EXTENDS Naturals, Sequences, FiniteSets

CONSTANTS
    Width,             \* bits of the u32 section fields, scaled down
    ImageBases,        \* values of optional_header.windows_fields.image_base
    SectionTables,     \* stub section tables: sequences of [va, vs]
    OsReleaseSizes,    \* byte sizes of the os-release file
    TokenLens,         \* byte lengths of kernel command-line items
    MaxTokens,         \* longest command line
    RelPathLens,       \* byte lengths of a path relative to the ESP
    InitrdSizes,       \* byte sizes of an initrd wrapped by wrap_initrd
    NotUnderEsp,       \* a kernel or initrd path outside the ESP
    NoHeader,          \* a PE without optional header
    NoValue

ASSUME SectionPlannerAssumption ==
    /\ Width \in Nat \ {0}
    /\ ImageBases \subseteq Nat
    /\ SectionTables \subseteq Seq([va : Nat, vs : Nat])
    /\ OsReleaseSizes \cup TokenLens \cup RelPathLens \cup InitrdSizes \subseteq Nat
    /\ MaxTokens \in Nat

U32 == 2^Width

\* u64, twice as wide as u32.
U64 == U32 * U32

\* The u32 range is not empty; stated because the provers do not evaluate ^.
ASSUME U32Positive == U32 \in Nat \ {0}

\* image_base is a u64 field of the PE optional header.
ASSUME ImageBasesU64 == ImageBases \subseteq 0..(U64 - 1)

\* Before the run ends there is no outcome, which is none of the three.
ASSUME NoValueDistinct == NoValue \notin {"ok", "err", "panic"}

Names == <<".osrel", ".cmdline", ".initrdp", ".kernelp">>

VARIABLES
    mode,       \* "stub" (lanzaboote_image) or "initrd" (wrap_initrd)
    initrd,     \* size of the initrd file wrap_initrd embeds
    stub,       \* [image_base, sections] of the stub binary
    os_release, \* size of the os-release file
    cmdline,    \* kernel_cmdline: sequence of item lengths
    kernel_rel, \* kernel path relative to the ESP, or NotUnderEsp
    initrd_rel, \* initrd path relative to the ESP, or NotUnderEsp
    build,      \* "debug" (overflow checks) or "release" (wrapping)
    pc,
    tmp,        \* sizes of the temporary files written, in order
    base,       \* os_release_offs, once computed
    plan,       \* the sections handed to objcopy
    outcome     \* NoValue, "ok", "err" (a ? return) or "panic"

vars == <<mode, initrd, stub, os_release, cmdline, kernel_rel, initrd_rel, build,
          pc, tmp, base, plan, outcome>>

\* kernel_cmdline.join(" "): every byte j of every item i, and one
\* separator between each two items.
JoinSize(s) ==
    IF s = <<>> THEN 0
    ELSE Cardinality(UNION {{i} \X (1..s[i]) : i \in 1..Len(s)}) + Len(s) - 1

\* esp_relative_path_string: "\" followed by the relative path, with each
\* "/" replaced by the one byte "\".
EspPathSize(rel) == 1 + rel

Stop(o) == pc' = "done" /\ outcome' = o /\ UNCHANGED <<base, plan>>

Init ==
    /\ mode \in {"stub", "initrd"}
    /\ initrd \in InitrdSizes
    /\ stub \in [image_base : ImageBases \cup {NoHeader},
                 sections : SectionTables]
    /\ os_release \in OsReleaseSizes
    /\ cmdline \in UNION {[1..n -> TokenLens] : n \in 0..MaxTokens}
    /\ kernel_rel \in RelPathLens \cup {NotUnderEsp}
    /\ initrd_rel \in RelPathLens \cup {NotUnderEsp}
    /\ build \in {"debug", "release"}
    /\ pc = IF mode = "stub" THEN "write_cmdline" ELSE "stub_offset"
    /\ tmp = <<>>
    /\ base = NoValue
    /\ plan = <<>>
    /\ outcome = NoValue

inputs == <<mode, initrd, stub, os_release, cmdline, kernel_rel, initrd_rel, build>>

\* write_to_tmp(kernel_cmdline.join(" "))?
WriteCmdline ==
    /\ pc = "write_cmdline"
    /\ \E ok \in BOOLEAN :
         IF ok THEN pc' = "write_kernel_path" /\ tmp' = <<JoinSize(cmdline)>>
                    /\ UNCHANGED <<base, plan, outcome>>
               ELSE Stop("err") /\ UNCHANGED tmp
    /\ UNCHANGED inputs

\* write_to_tmp(esp_relative_path_string(esp, path))?: strip_prefix(esp)
\* .expect panics for a path outside the ESP, and into_string().expect for
\* one that is not UTF-8; NotUnderEsp stands for either.
WritePath(rel, here, there) ==
    /\ pc = here
    /\ IF rel = NotUnderEsp
         THEN Stop("panic") /\ UNCHANGED tmp
         ELSE \E ok \in BOOLEAN :
                IF ok THEN pc' = there /\ tmp' = Append(tmp, EspPathSize(rel))
                           /\ UNCHANGED <<base, plan, outcome>>
                      ELSE Stop("err") /\ UNCHANGED tmp
    /\ UNCHANGED inputs

WriteKernelPath == WritePath(kernel_rel, "write_kernel_path", "write_initrd_path")

WriteInitrdPath == WritePath(initrd_rel, "write_initrd_path", "stub_offset")

\* stub_offset: fs::read and PE::parse may fail (?); image_base expects an
\* optional header; sections.last() is expected to exist; the u32 sum of
\* its virtual_size and virtual_address panics on overflow in a debug
\* build and wraps in a release build; image_base is then added as u64,
\* with the same check.
StubEnd == LET last == stub.sections[Len(stub.sections)] IN last.va + last.vs

\* s(name, file_path, offset): one entry of the objcopy plan, which
\* to_objcopy turns into --add-section name=file and --change-section-vma
\* name=offset; the file is abstracted to its size.
Section(name, size, offset) == [name |-> name, size |-> size, offset |-> offset]

\* u64::from(last.virtual_size + last.virtual_address) + image_base, before
\* the u64 check or wrap.
StubOffs == (StubEnd % U32) + stub.image_base

\* lanzaboote_image goes on to the file sizes; wrap_initrd plans its one
\* section at the offset (s(".initrd", initrd, initrd_offs)).
AfterStubOffset(offs) ==
    IF mode = "stub"
      THEN pc' = "file_sizes" /\ UNCHANGED plan
      ELSE /\ pc' = "objcopy"
           /\ plan' = <<Section(".initrd", initrd, offs)>>

StubOffset ==
    /\ pc = "stub_offset"
    /\ \E parsed \in BOOLEAN :
         CASE ~parsed -> Stop("err")
           [] stub.image_base = NoHeader \/ stub.sections = <<>> -> Stop("panic")
           [] StubEnd >= U32 /\ build = "debug" -> Stop("panic")
           [] StubOffs >= U64 /\ build = "debug" -> Stop("panic")
           [] OTHER -> /\ base' = StubOffs % U64
                       /\ AfterStubOffset(base')
                       /\ UNCHANGED outcome
    /\ UNCHANGED <<inputs, tmp>>

\* The offsets of pe.rs:25-28: each section starts where the previous
\* one's file ends, the u64 sum wrapping as in a release build.
Offsets(sizes) ==
    LET cmdline_offs == (base + sizes[1]) % U64
        initrd_path_offs == (cmdline_offs + sizes[2]) % U64
        kernel_path_offs == (initrd_path_offs + sizes[3]) % U64
    IN  <<base, cmdline_offs, initrd_path_offs, kernel_path_offs>>

\* The k-th of the three u64 additions overflows.
Overflows(sizes, k) == Offsets(sizes)[k] + sizes[k] >= U64

\* The plan of pe.rs:30-35.
Layout(sizes) ==
    LET o == Offsets(sizes)
    IN  <<Section(Names[1], sizes[1], o[1]),
          Section(Names[2], sizes[2], o[2]),
          Section(Names[3], sizes[3], o[3]),
          Section(Names[4], sizes[4], o[4])>>

\* The sizes of os-release and of the files written for the command line,
\* the initrd path and the kernel path, in the order of the plan.
PlanSizes == <<os_release, tmp[1], tmp[3], tmp[2]>>

(* Mutant of FileSizes: the two path files are laid out in the order they *)
(* were written, kernel path first.                                        *)
FileSizesSwapped ==
    /\ pc = "file_sizes"
    /\ \E failed \in 1..4 :
         CASE build = "debug" /\ (\E k \in 1..(failed - 1) : Overflows(PlanSizes, k))
                -> Stop("panic")
           [] failed <= 3 -> Stop("err")
           [] OTHER -> /\ pc' = "objcopy"
                       /\ plan' = Layout(<<os_release, tmp[1], tmp[2], tmp[3]>>)
                       /\ UNCHANGED <<base, outcome>>
    /\ UNCHANGED <<inputs, tmp>>

(* Mutant of FileSizes: the sums are not checked in a debug build either  *)
(* (wrapping_add).                                                         *)
FileSizesUnchecked ==
    /\ pc = "file_sizes"
    /\ \E failed \in 1..4 :
         CASE failed <= 3 -> Stop("err")
           [] OTHER -> /\ pc' = "objcopy"
                       /\ plan' = Layout(PlanSizes)
                       /\ UNCHANGED <<base, outcome>>
    /\ UNCHANGED <<inputs, tmp>>

\* file_size(&os_release)?, then file_size(&kernel_cmdline_file)?, then
\* file_size(&initrd_path_file)?, each followed by its u64 addition; failed
\* is the first metadata read that fails (4: none), and a debug build
\* panics at an overflowing addition before it.
FileSizes ==
    /\ pc = "file_sizes"
    /\ \E failed \in 1..4 :
         CASE build = "debug" /\ (\E k \in 1..(failed - 1) : Overflows(PlanSizes, k))
                -> Stop("panic")
           [] failed <= 3 -> Stop("err")
           [] OTHER -> /\ pc' = "objcopy"
                       /\ plan' = Layout(PlanSizes)
                       /\ UNCHANGED <<base, outcome>>
    /\ UNCHANGED <<inputs, tmp>>

\* wrap_in_pe: objcopy --add-section/--change-section-vma for every
\* section; a failing or unsuccessful objcopy is an error.
WrapInPe ==
    /\ pc = "objcopy"
    /\ \E ok \in BOOLEAN : pc' = "done" /\ outcome' = IF ok THEN "ok" ELSE "err"
    /\ UNCHANGED <<inputs, tmp, base, plan>>

Next ==
    \/ WriteCmdline
    \/ WriteKernelPath
    \/ WriteInitrdPath
    \/ StubOffset
    \/ FileSizes
    \/ WrapInPe

Spec == Init /\ [][Next]_vars

-----------------------------------------------------------------------------
(* Properties.                                                             *)

(* When lanzaboote_image succeeds, the plan handed to objcopy has the four *)
(* sections in the order the stub expects, and each one is exactly as long *)
(* as the file holding its value: os-release, the joined command line, the *)
(* initrd path and the kernel path (pe.rs:21-35), however the temporary    *)
(* files were written; when wrap_initrd succeeds, the plan is the one     *)
(* .initrd section, as long as the initrd (pe.rs:40-44).                   *)
SectionsHoldTheirFiles ==
    outcome = "ok" =>
        IF mode = "stub"
          THEN /\ [k \in 1..Len(plan) |-> plan[k].name] = Names
               /\ plan[1].size = os_release
               /\ plan[2].size = JoinSize(cmdline)
               /\ plan[3].size = EspPathSize(initrd_rel)
               /\ plan[4].size = EspPathSize(kernel_rel)
          ELSE /\ [k \in 1..Len(plan) |-> plan[k].name] = <<".initrd">>
               /\ plan[1].size = initrd

(* In a debug build the new sections of a successful plan never overlap   *)
(* one another: each one starts at or after the end of every section      *)
(* before it.  This rests on the overflow checks of the u64 sums at        *)
(* pe.rs:26-28 and 129, which panic instead of wrapping the offsets back   *)
(* below os_release_offs; a release build has no such check.  A            *)
(* zero-sized section occupies no bytes, so it may share its start with   *)
(* the next one.                                                           *)
NewSectionsDisjoint ==
    outcome = "ok" /\ build = "debug" =>
        \A j, k \in 1..Len(plan) : j < k => plan[j].offset + plan[j].size <= plan[k].offset

(* Spec 5: the offsets the planner produces are strictly increasing.       *)
OffsetsStrictlyIncreasing ==
    outcome = "ok" => \A k \in 1..(Len(plan) - 1) : plan[k].offset < plan[k + 1].offset

(* Spec 3: the new sections do not overlap the sections the stub already  *)
(* has; they start after the end of every one of them (stub_offset,        *)
(* pe.rs:116-130).                                                          *)
SectionsAboveStub ==
    outcome = "ok" =>
        \A k \in 1..Len(plan), i \in 1..Len(stub.sections) :
            plan[k].offset >= stub.image_base + stub.sections[i].va
                                              + stub.sections[i].vs

(* Spec 4.1: a stub binary with no optional header or no sections is a     *)
(* LayoutError returned to the caller; the only panics left are the        *)
(* ESP-relative path expects and the overflow checks of a debug build on  *)
(* a well-formed stub.                                                     *)
MalformedStubIsError ==
    outcome = "panic" =>
        \/ mode = "stub" /\ NotUnderEsp \in {kernel_rel, initrd_rel}
        \/ build = "debug" /\ stub.image_base # NoHeader /\ stub.sections # <<>>
=============================================================================
