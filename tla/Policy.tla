------------------------------- MODULE Policy -------------------------------
(***************************************************************************)
(* TrivialPolicy::trusted_stub_parameters (tool/server/src/policy.rs) as   *)
(* the steps it takes: the three trusted_store_path calls joined by ||,    *)
(* then, if an allow-list is configured, the for-loop over the command    *)
(* line that returns false at the first item not on the list.             *)
(* trusted_store_path is Path::exists, a lookup in the set existing.      *)
(***************************************************************************)
EXTENDS PolicyParams

VARIABLES
    existing,   \* store paths present on disk
    params,     \* the StubParameters being judged
    allowed,    \* self.allowed_kernel_cmdline_items
    pc,         \* "paths", "items" or "done"
    i,          \* index of the next command-line item the loop looks at
    result      \* the bool returned, NoValue before the return

vars == <<existing, params, allowed, pc, i, result>>

A == INSTANCE PolicyDecision
        WITH decision <- IF pc = "done" THEN result ELSE NoValue

\* trusted_store_path: store_path.exists().
trusted_store_path(p) == p \in existing

Cmdline == params.kernel_cmdline

Return(b) == pc' = "done" /\ result' = b /\ UNCHANGED i

Init ==
    /\ existing \in SUBSET StorePaths
    /\ params \in StubParameters
    /\ allowed \in AllowLists
    /\ pc = "paths"
    /\ i = 1
    /\ result = NoValue

\* One of the three store paths does not exist: return false.
RejectUntrustedPath ==
    /\ pc = "paths"
    /\ \/ ~trusted_store_path(params.lanzaboote_store_path)
       \/ ~trusted_store_path(params.kernel_store_path)
       \/ ~trusted_store_path(params.initrd_store_path)
    /\ Return(FALSE)
    /\ UNCHANGED <<existing, params, allowed>>

\* All three exist and no allow-list is configured: fall through to true.
AcceptWithoutAllowList ==
    /\ pc = "paths"
    /\ ReferencedPaths(params) \subseteq existing
    /\ allowed = NoList
    /\ Return(TRUE)
    /\ UNCHANGED <<existing, params, allowed>>

\* All three exist and an allow-list is configured: enter the loop.
EnterCmdlineLoop ==
    /\ pc = "paths"
    /\ ReferencedPaths(params) \subseteq existing
    /\ allowed # NoList
    /\ pc' = "items"
    /\ UNCHANGED <<existing, params, allowed, i, result>>

\* The current item is on the list: next iteration.
AcceptItem ==
    /\ pc = "items"
    /\ i <= Len(Cmdline)
    /\ Cmdline[i] \in allowed
    /\ i' = i + 1
    /\ UNCHANGED <<existing, params, allowed, pc, result>>

\* The current item is not on the list: return false.
RejectItem ==
    /\ pc = "items"
    /\ i <= Len(Cmdline)
    /\ Cmdline[i] \notin allowed
    /\ Return(FALSE)
    /\ UNCHANGED <<existing, params, allowed>>

(* Mutant of AcceptCmdline: the loop stops one item early.               *)
AcceptCmdlineEarly ==
    /\ pc = "items"
    /\ i >= Len(Cmdline)
    /\ Return(TRUE)
    /\ UNCHANGED <<existing, params, allowed>>

\* The loop ran out of items: fall through to true.
AcceptCmdline ==
    /\ pc = "items"
    /\ i > Len(Cmdline)
    /\ Return(TRUE)
    /\ UNCHANGED <<existing, params, allowed>>

Next ==
    \/ RejectUntrustedPath
    \/ AcceptWithoutAllowList
    \/ EnterCmdlineLoop
    \/ AcceptItem
    \/ RejectItem
    \/ AcceptCmdline

Spec == Init /\ [][Next]_vars

-----------------------------------------------------------------------------
(* Properties.                                                             *)

(* Whenever trusted_stub_parameters has returned, its answer is the one    *)
(* spec 4.8 asks for: every store path exists and every command-line item *)
(* is allow-listed, whichever of the returns in the code was taken.        *)
DecisionCorrect == pc = "done" => result = TrustedRequest(existing, params, allowed)

(* A configured allow-list that is empty rejects every request (spec,     *)
(* open question in section 6: "treat as reject everything").             *)
EmptyAllowListRejects == (pc = "done" /\ allowed = {}) => result = FALSE
=============================================================================
