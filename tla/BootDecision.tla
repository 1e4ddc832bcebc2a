---------------------------- MODULE BootDecision ----------------------------
(***************************************************************************)
(* What the stub promises when it hands over control (spec 4.7): a kernel  *)
(* gets control at most once, with the command line embedded in the       *)
(* signed stub, and either by the stub's own loader with kernel and initrd *)
(* bytes that hash to the values embedded in the stub ("Verified",         *)
(* UncheckedBoot), or by the firmware's loader with Secure Boot off        *)
(* ("Mismatched", FallbackBoot, which the firmware refuses under Secure    *)
(* Boot).  The decision is one step; StubBoot is the pipeline that takes   *)
(* it and is shown to implement this module.                               *)
(***************************************************************************)
EXTENDS Naturals, Sequences

CONSTANTS
    Digest(_),  \* the hash the build tool embeds and the stub recomputes
    NoValue     \* no kernel has control yet

VARIABLES
    image,      \* the stub's own sections: the embedded hashes and cmdline
    secureBoot, \* whether the firmware enforces signatures
    kernel      \* what got control: NoValue or [image, initrd, cmdline, route]

dvars == <<image, secureBoot, kernel>>

\* The bytes handed over hash to the values embedded in the stub.
EmbeddedVerified(k) ==
    /\ Digest(k.image) = image.kernelh
    /\ \A i \in 1..Len(k.initrd) : Digest(k.initrd[i]) = image.initrdh

\* The kernels the stub may hand control to.
MayStart(k) ==
    /\ k.cmdline = image.cmdline
    /\ \/ EmbeddedVerified(k) /\ k.route = "unchecked"
       \/ ~secureBoot /\ k.route = "uefi"

Init ==
    /\ secureBoot \in BOOLEAN
    /\ kernel = NoValue

\* A kernel gets control.
Start ==
    /\ kernel = NoValue
    /\ kernel' # NoValue
    /\ MayStart(kernel')
    /\ UNCHANGED <<image, secureBoot>>

Spec == Init /\ [][Start]_dvars
=============================================================================
