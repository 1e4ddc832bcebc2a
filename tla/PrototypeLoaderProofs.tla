------------------------ MODULE PrototypeLoaderProofs ------------------------
(***************************************************************************)
(* Proof that the prototype loader starts exactly the bytes of linux.efi, *)
(* for every file, every chunk size and every sequence of byte counts the *)
(* firmware's reads return.                                                *)
(***************************************************************************)
EXTENDS PrototypeLoader, SequenceTheorems, TLAPS

(* What the proof needs of the constants: the chunk of read_all and the   *)
(* longest file are numbers of bytes.                                      *)
LoaderConstants ==
    /\ MaxFileLen \in Nat
    /\ ChunkSize \in Nat

Reading == {"read", "load", "start"}
BeforeStart == {"init", "logo", "open", "read", "load", "start"}

(* read_all's loop invariant: the buffer is the prefix of the file up to  *)
(* the firmware's position; the loop is left only at the end of the file; *)
(* nothing has been started before StartImage.                             *)
LoaderInv ==
    /\ file \in Seq(Bytes) \cup {NoFile}
    /\ pc \in BeforeStart \cup Terminal
    /\ pos \in Nat
    /\ pc \in {"init", "logo", "open"} => pos = 0 /\ buf = <<>>
    /\ pc \in Reading =>
          /\ file \in Seq(Bytes)
          /\ pos <= Len(file)
          /\ buf = SubSeq(file, 1, pos)
    /\ pc \in {"load", "start"} => pos = Len(file)
    /\ pc \in BeforeStart => kernel = NoValue
    /\ kernel # NoValue => kernel = file

(* linux.efi, as Init chooses it, is a byte sequence.                      *)
LEMMA FilesAreSequences ==
    ASSUME LoaderConstants
    PROVE  Files \subseteq Seq(Bytes)
BY DEF LoaderConstants, Files

(* Appending the next n bytes of the file to its prefix of length p gives *)
(* the prefix of length p + n.                                             *)
LEMMA PrefixExtended ==
    ASSUME NEW f \in Seq(Bytes), NEW p \in 0..Len(f), NEW n \in 1..(Len(f) - p)
    PROVE  SubSeq(f, 1, p) \o SubSeq(f, p + 1, p + n) = SubSeq(f, 1, p + n)
BY ConcatAdjacentSubSeq

LEMMA InitLoaderInv ==
    ASSUME LoaderConstants
    PROVE  Init => LoaderInv
BY FilesAreSequences DEF Init, LoaderInv, BeforeStart, Reading

LEMMA NextLoaderInv ==
    ASSUME LoaderConstants
    PROVE  LoaderInv /\ [Next]_vars => LoaderInv'
<1> USE DEF LoaderInv, BeforeStart, Reading, Terminal
<1>1. ASSUME LoaderInv, ServicesInit PROVE LoaderInv'
  BY <1>1 DEF ServicesInit
<1>2. ASSUME LoaderInv, PrintLogo PROVE LoaderInv'
  BY <1>2 DEF PrintLogo
<1>3. ASSUME LoaderInv, OpenFile PROVE LoaderInv'
  BY <1>3 DEF OpenFile
<1>4. ASSUME LoaderInv, ReadChunk PROVE LoaderInv'
  <2>1. /\ file \in Seq(Bytes) /\ pos \in 0..Len(file)
        /\ buf = SubSeq(file, 1, pos) /\ pc = "read"
    BY <1>4 DEF ReadChunk
  <2>2. CASE \E n \in ReadSizes :
               IF n = 0
                 THEN pc' = "load" /\ UNCHANGED <<pos, buf>>
                 ELSE /\ buf' = buf \o SubSeq(file, pos + 1, pos + n)
                      /\ pos' = pos + n
                      /\ UNCHANGED pc
    <3>1. PICK n \in ReadSizes :
               IF n = 0
                 THEN pc' = "load" /\ UNCHANGED <<pos, buf>>
                 ELSE /\ buf' = buf \o SubSeq(file, pos + 1, pos + n)
                      /\ pos' = pos + n
                      /\ UNCHANGED pc
      BY <2>2
    <3>2. CASE pos = Len(file)
      <4>1. n = 0
        BY <3>1, <3>2 DEF ReadSizes
      <4>2. QED
        BY <1>4, <2>1, <3>1, <3>2, <4>1 DEF ReadChunk
    <3>3. CASE pos # Len(file)
      <4>1. n \in 1..(Len(file) - pos)
        BY <2>1, <3>1, <3>3, LoaderConstants DEF ReadSizes, LoaderConstants
      <4>2. /\ buf' = buf \o SubSeq(file, pos + 1, pos + n)
            /\ pos' = pos + n /\ pc' = "read"
        <5>1. n # 0
          BY <4>1
        <5>2. QED
          BY <2>1, <3>1, <5>1, Zenon
      <4>3. SubSeq(file, 1, pos) \o SubSeq(file, pos + 1, pos + n)
              = SubSeq(file, 1, pos + n)
        BY <2>1, <4>1, PrefixExtended
      <4>4. QED
        BY <1>4, <2>1, <4>1, <4>2, <4>3 DEF ReadChunk
    <3>4. QED
      BY <3>2, <3>3
  <2>3. CASE pc' = "panicked" /\ UNCHANGED <<pos, buf>>
    BY <1>4, <2>3 DEF ReadChunk
  <2>4. QED
    BY <1>4, <2>2, <2>3 DEF ReadChunk
<1>5. ASSUME LoaderInv, LoadImage PROVE LoaderInv'
  BY <1>5 DEF LoadImage
<1>6. ASSUME LoaderInv, StartImage PROVE LoaderInv'
  <2>1. kernel' = file
    BY <1>6, SubSeqFull DEF StartImage
  <2>2. QED
    BY <1>6, <2>1 DEF StartImage
<1>7. ASSUME LoaderInv, UNCHANGED vars PROVE LoaderInv'
  BY <1>7 DEF vars
<1>8. QED
  BY <1>1, <1>2, <1>3, <1>4, <1>5, <1>6, <1>7 DEF Next

(* Whatever byte counts the firmware's File.Read returns, the image the   *)
(* prototype loader starts is linux.efi byte for byte: read_all gathers   *)
(* every chunk in order and leaves its loop only on an empty read         *)
(* (main.rs:42-58, 80-92).                                                 *)
THEOREM KernelIsFileHolds ==
    ASSUME LoaderConstants
    PROVE  Spec => []KernelIsFile
<1>1. LoaderInv => KernelIsFile
  BY DEF LoaderInv, KernelIsFile
<1>2. Spec => []LoaderInv
  BY InitLoaderInv, NextLoaderInv, PTL DEF Spec
<1>3. QED
  BY <1>1, <1>2, PTL

=============================================================================
