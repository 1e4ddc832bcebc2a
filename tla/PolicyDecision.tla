--------------------------- MODULE PolicyDecision ---------------------------
(***************************************************************************)
(* What the signing server's policy promises (spec 4.8): one decision per  *)
(* request, true iff the three store paths of the stub parameters exist    *)
(* and, when an allow-list of kernel command-line items is configured,     *)
(* every item of the command line is on it.  The decision is taken in one *)
(* step; Policy.tla is the loop that really computes it and is shown to    *)
(* implement this module.                                                   *)
(***************************************************************************)
EXTENDS PolicyParams

VARIABLES existing, params, allowed, decision

avars == <<existing, params, allowed, decision>>

Init ==
    /\ existing \in SUBSET StorePaths
    /\ params \in StubParameters
    /\ allowed \in AllowLists
    /\ decision = NoValue

Decide ==
    /\ decision = NoValue
    /\ decision' = TrustedRequest(existing, params, allowed)
    /\ UNCHANGED <<existing, params, allowed>>

SafetySpec == Init /\ [][Decide]_avars
=============================================================================
