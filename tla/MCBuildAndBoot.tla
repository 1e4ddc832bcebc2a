-------------------------- MODULE MCBuildAndBoot --------------------------
(* Instance of BuildAndBoot: one well-formed stub table and one size of   *)
(* each file for the planner; the instance of MCStubBoot for the stub.    *)
EXTENDS BuildAndBoot

CONSTANTS pk, pi, b1, b2, c1, cHuge

MCWidth == 8
MCImageBases == {512}
MCSectionTables == {<<[va |-> 16, vs |-> 32]>>}
MCOsReleaseSizes == {5}
MCTokenLens == {3}
MCMaxTokens == 1
MCRelPathLens == {4}
MCInitrdSizes == {7}
MCPaths == {pk, pi}
MCBlobs == {b1, b2}
MCCmdlines == {c1, cHuge}
MCHugeCmdlines == {cHuge}
MCDigest(b) == <<"sha256", b>>
=============================================================================
