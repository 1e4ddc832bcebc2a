---------------------------- MODULE BuildAndBoot ----------------------------
(***************************************************************************)
(* The build tool and the stub together: lanzaboote_image (SectionPlanner) *)
(* plans the sections objcopy adds to the stub, and the stub (StubBoot)    *)
(* then boots from an image carrying exactly those sections.  The contents *)
(* of a section the planner embeds are any value of its type; a section it *)
(* does not embed is Absent to EmbeddedConfiguration::new.                 *)
(***************************************************************************)
EXTENDS Naturals, Sequences

CONSTANTS
    Width, ImageBases, SectionTables, OsReleaseSizes, TokenLens, MaxTokens,
    RelPathLens, InitrdSizes, NotUnderEsp, NoHeader,
    Paths, Blobs, Cmdlines, HugeCmdlines, Digest(_), Absent, NoFile,
    NoValue

VARIABLES
    \* lanzaboote_image / wrap_initrd
    mode, initrd, stub, os_release, cmdline, kernel_rel, initrd_rel, build,
    bpc, tmp, base, plan, outcome,
    \* the stub, which runs once an image was built
    spc, image, esp, secureBoot, tpmPresent, config, kernel_data,
    initrd_data, is_kernel_hash_correct, is_initrd_hash_correct, pcrLog,
    initrds, kindIdx, installed, installs, uninstalls, kernel, kstatus,
    status, abortedAt

B == INSTANCE SectionPlanner WITH pc <- bpc
S == INSTANCE StubBoot WITH pc <- spc

bvars == <<mode, initrd, stub, os_release, cmdline, kernel_rel, initrd_rel,
           build, bpc, tmp, base, plan, outcome>>
svars == <<spc, image, esp, secureBoot, tpmPresent, config, kernel_data,
           initrd_data, is_kernel_hash_correct, is_initrd_hash_correct,
           pcrLog, initrds, kindIdx, installed, installs, uninstalls, kernel,
           kstatus, status, abortedAt>>

\* The stub's view of an image carrying the sections named in names: the
\* five sections EmbeddedConfiguration::new extracts, Absent when missing.
Field(names, name, values) == IF name \in names THEN values ELSE {Absent}

ImagesWith(names) ==
    [kernelp : Field(names, ".kernelp", Paths),
     kernelh : Field(names, ".kernelh", S!Digests),
     initrdp : Field(names, ".initrdp", Paths),
     initrdh : Field(names, ".initrdh", S!Digests),
     cmdline : Field(names, ".cmdline", Cmdlines)]

\* The sections objcopy added to the stub.
PlannedNames == {plan[k].name : k \in 1..Len(plan)}

\* The stub's first state is chosen with the build's: its image carries the
\* sections lanzaboote_image plans (Layout names them B!Names); the stub
\* only starts once that build has succeeded.
Init ==
    /\ B!Init
    /\ S!Init
    /\ image \in ImagesWith({B!Names[k] : k \in 1..4})

Build == bpc # "done" /\ B!Next /\ UNCHANGED svars

Boot ==
    /\ bpc = "done" /\ outcome = "ok" /\ mode = "stub"
    /\ image \in ImagesWith(PlannedNames)
    /\ S!Next
    /\ UNCHANGED bvars

Next == Build \/ Boot

Spec == Init /\ [][Next]_<<bvars, svars>>

-----------------------------------------------------------------------------
(* Spec 2 and 4.1: the embedder writes every value the stub reads,        *)
(* content hashes included, so a stub built by lanzaboote_image gets past  *)
(* EmbeddedConfiguration::new (main.rs:192-199).                           *)
BuiltImageExtracts == abortedAt # "extract"
=============================================================================
