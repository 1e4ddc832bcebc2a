--------------------------- MODULE PolicyProofs ----------------------------
(***************************************************************************)
(* Proofs about trusted_stub_parameters (Policy.tla), for every set of     *)
(* store paths, items and command-line length.                             *)
(***************************************************************************)
EXTENDS Policy, TLAPS

\* The loop's state: what has been established before the current item.
PInv ==
    /\ existing \in SUBSET StorePaths
    /\ params \in StubParameters
    /\ Cmdline \in Seq(Tokens)
    /\ allowed \in AllowLists
    /\ pc \in {"paths", "items", "done"}
    /\ result \in BOOLEAN \cup {NoValue}
    /\ i \in 1..(Len(Cmdline) + 1)
    /\ pc = "paths" => i = 1 /\ result = NoValue
    /\ pc = "items" =>
         /\ result = NoValue
         /\ ReferencedPaths(params) \subseteq existing
         /\ allowed # NoList
         /\ \A j \in 1..(i - 1) : Cmdline[j] \in allowed
    /\ DecisionCorrect

LEMMA CmdlineIsSeq ==
    ASSUME NEW p \in StubParameters
    PROVE  p.kernel_cmdline \in Seq(Tokens)
<1>1. PICK n \in 0..MaxCmdline : p.kernel_cmdline \in [1..n -> Tokens]
  BY DEF StubParameters
<1>2. QED
  BY <1>1, PolicyConstantsAssumption

LEMMA InitPInv == Init => PInv
<1> SUFFICES ASSUME Init PROVE PInv
  OBVIOUS
<1>1. Cmdline \in Seq(Tokens)
  BY CmdlineIsSeq DEF Init, Cmdline
<1>2. QED
  BY <1>1 DEF Init, PInv, DecisionCorrect

LEMMA NextPInv == PInv /\ [Next]_vars => PInv'
<1> USE DEF PInv, DecisionCorrect, TrustedRequest, AllowLists, Return, Cmdline
<1>1. ASSUME PInv, RejectUntrustedPath PROVE PInv'
  BY <1>1 DEF RejectUntrustedPath, ReferencedPaths, trusted_store_path
<1>2. ASSUME PInv, AcceptWithoutAllowList PROVE PInv'
  <2>1. UNCHANGED <<existing, params, allowed, i>> /\ pc' = "done" /\ result' = TRUE
    BY <1>2 DEF AcceptWithoutAllowList
  <2>2. TrustedRequest(existing, params, allowed)'
    BY <1>2, <2>1 DEF AcceptWithoutAllowList
  <2>3. QED
    BY <1>2, <2>1, <2>2
<1>3. ASSUME PInv, EnterCmdlineLoop PROVE PInv'
  BY <1>3 DEF EnterCmdlineLoop
<1>4. ASSUME PInv, AcceptItem PROVE PInv'
  BY <1>4 DEF AcceptItem
<1>5. ASSUME PInv, RejectItem PROVE PInv'
  <2>1. ~TrustedRequest(existing, params, allowed)
    <3>1. i \in 1..Len(Cmdline) /\ Cmdline[i] \notin allowed /\ allowed # NoList
      BY <1>5 DEF RejectItem
    <3>2. QED
      BY <3>1
  <2>2. QED
    BY <1>5, <2>1 DEF RejectItem
<1>6. ASSUME PInv, AcceptCmdline PROVE PInv'
  BY <1>6 DEF AcceptCmdline
<1>7. ASSUME PInv, UNCHANGED vars PROVE PInv'
  BY <1>7 DEF vars
<1>8. QED
  BY <1>1, <1>2, <1>3, <1>4, <1>5, <1>6, <1>7 DEF Next

(* Whatever return trusted_stub_parameters takes, the bool it returns is   *)
(* the decision of spec 4.8 (policy.rs:28-55).                             *)
THEOREM DecisionCorrectHolds == Spec => []DecisionCorrect
<1>1. PInv => DecisionCorrect
  BY DEF PInv
<1>2. QED
  BY <1>1, InitPInv, NextPInv, PTL DEF Spec

(* Every step of trusted_stub_parameters is either invisible to the        *)
(* one-step decision of PolicyDecision or is that decision: the code       *)
(* implements the safety part of the promise.  That it returns at all is   *)
(* the liveness part, checked by TLC.                                       *)
THEOREM ImplementsDecisionSafety == Spec => A!SafetySpec
<1>1. Init => A!Init
  BY DEF Init, A!Init, StubParameters, A!StubParameters, AllowLists,
         A!AllowLists
<1>2. PInv /\ [Next]_vars => [A!Decide]_A!avars
  <2> SUFFICES ASSUME PInv, [Next]_vars PROVE [A!Decide]_A!avars
    OBVIOUS
  <2>0. UNCHANGED <<existing, params, allowed>>
    BY DEF Next, vars, RejectUntrustedPath, AcceptWithoutAllowList,
           EnterCmdlineLoop, AcceptItem, RejectItem, AcceptCmdline
  <2>1. PInv'
    BY NextPInv
  <2>2. CASE pc' = "done" /\ pc # "done"
    BY <2>0, <2>1, <2>2 DEF A!Decide, PInv, DecisionCorrect, TrustedRequest,
                      A!TrustedRequest, ReferencedPaths, A!ReferencedPaths
  <2>3. CASE ~(pc' = "done" /\ pc # "done")
    <3>1. pc = "done" => UNCHANGED vars
      BY DEF Next, RejectUntrustedPath, AcceptWithoutAllowList,
             EnterCmdlineLoop, AcceptItem, RejectItem, AcceptCmdline
    <3>3. QED
      BY <2>0, <2>3, <3>1 DEF A!avars, vars
  <2>4. QED
    BY <2>2, <2>3
<1>3. QED
  BY <1>1, <1>2, InitPInv, NextPInv, PTL DEF Spec, A!SafetySpec
=============================================================================
