------------------------------ MODULE MCPolicy ------------------------------
(* Instance of Policy for TLC: two store paths, two command-line items,   *)
(* command lines of up to three items.                                     *)
EXTENDS Policy

CONSTANTS p1, p2, t1, t2

MCStorePaths == {p1, p2}
MCTokens == {t1, t2}
MCMaxCmdline == 3
=============================================================================
