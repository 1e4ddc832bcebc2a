----------------------------- MODULE MCStubBoot -----------------------------
(* A small instance of StubBoot for TLC: two ESP paths (the kernel's and   *)
(* the initrd's), two blobs (so a file can hold the hashed bytes or other  *)
(* bytes), a normal and an oversized command line.                         *)
EXTENDS StubBoot

CONSTANTS pk, pi, b1, b2, c1, cHuge

MCPaths == {pk, pi}
MCBlobs == {b1, b2}
MCCmdlines == {c1, cHuge}
MCHugeCmdlines == {cHuge}
\* An injective stand-in for SHA-256 on the model's blobs.
MCDigest(b) == <<"sha256", b>>
=============================================================================
