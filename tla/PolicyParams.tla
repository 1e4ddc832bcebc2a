---------------------------- MODULE PolicyParams ----------------------------
(* The inputs of the signing server's policy, shared by the promise       *)
(* (PolicyDecision) and the code (Policy).                                 *)
EXTENDS Naturals, Sequences

CONSTANTS
    StorePaths,   \* store paths a request may name
    Tokens,       \* kernel command-line items
    MaxCmdline,   \* longest command line a request carries
    NoList,       \* allowed_kernel_cmdline_items = None
    NoValue       \* no decision yet

ASSUME PolicyConstantsAssumption ==
    /\ MaxCmdline \in Nat
    /\ NoValue \notin BOOLEAN

\* StubParameters as far as the policy reads them.
StubParameters ==
    [lanzaboote_store_path : StorePaths,
     kernel_store_path     : StorePaths,
     initrd_store_path     : StorePaths,
     kernel_cmdline        : UNION {[1..n -> Tokens] : n \in 0..MaxCmdline}]

AllowLists == (SUBSET Tokens) \cup {NoList}

ReferencedPaths(p) ==
    {p.lanzaboote_store_path, p.kernel_store_path, p.initrd_store_path}

\* The decision spec 4.8 asks for on a request.
TrustedRequest(ex, p, al) ==
    /\ ReferencedPaths(p) \subseteq ex
    /\ al # NoList =>
         \A j \in 1..Len(p.kernel_cmdline) : p.kernel_cmdline[j] \in al
=============================================================================
