------------------------ MODULE SectionPlannerProofs ------------------------
(***************************************************************************)
(* Proofs that the objcopy plan of lanzaboote_image and wrap_initrd holds  *)
(* each file in its own section and, in a debug build, lays the sections  *)
(* out without overlap, for every stub table, image base, file size and    *)
(* command line.                                                           *)
(***************************************************************************)
EXTENDS SectionPlanner, FiniteSetTheorems, SequenceTheorems, TLAPS

Steps == {"write_cmdline", "write_kernel_path", "write_initrd_path",
          "stub_offset", "file_sizes", "objcopy", "done"}

\* The four file sizes in the order pe.rs:21-35 lays the sections out.
StubSizes == <<os_release, JoinSize(cmdline), EspPathSize(initrd_rel),
               EspPathSize(kernel_rel)>>

\* The plan lanzaboote_image or wrap_initrd hands to objcopy.
PlanOf ==
    IF mode = "stub"
      THEN /\ kernel_rel \in Nat /\ initrd_rel \in Nat
           /\ plan = Layout(StubSizes)
      ELSE plan = <<Section(".initrd", initrd, base)>>

PlannerTypeOK ==
    /\ mode \in {"stub", "initrd"}
    /\ initrd \in Nat
    /\ stub \in [image_base : ImageBases \cup {NoHeader}, sections : SectionTables]
    /\ os_release \in Nat
    /\ cmdline \in Seq(Nat)
    /\ kernel_rel \in Nat \cup {NotUnderEsp}
    /\ initrd_rel \in Nat \cup {NotUnderEsp}
    /\ pc \in Steps

\* Where the .kernelp section starts, summed without a wrap.
PlanEnd == base + os_release + JoinSize(cmdline) + EspPathSize(initrd_rel)

\* In a debug build every u64 sum of the offsets was checked: none wrapped.
DebugFits == mode = "stub" /\ build = "debug" => PlanEnd < U64

(* The strengthening: the temporary files written so far, per step; the   *)
(* offset computed from the stub; the plan once it is handed over, and    *)
(* that a debug build handed it over only with no sum past u64.            *)
PlanInv ==
    /\ PlannerTypeOK
    /\ pc # "done" => outcome = NoValue
    /\ pc \in {"write_cmdline", "write_kernel_path", "write_initrd_path",
               "file_sizes"} => mode = "stub"
    /\ pc = "write_kernel_path" => tmp = <<JoinSize(cmdline)>>
    /\ pc = "write_initrd_path" =>
          /\ kernel_rel \in Nat
          /\ tmp = <<JoinSize(cmdline), EspPathSize(kernel_rel)>>
    /\ pc \in {"stub_offset", "file_sizes"} /\ mode = "stub" =>
          /\ kernel_rel \in Nat /\ initrd_rel \in Nat
          /\ tmp = <<JoinSize(cmdline), EspPathSize(kernel_rel),
                     EspPathSize(initrd_rel)>>
    /\ pc = "file_sizes" => base \in Nat
    /\ pc = "objcopy" \/ outcome = "ok" => base \in Nat /\ PlanOf /\ DebugFits


-----------------------------------------------------------------------------
(* Lemmas about the operators of the plan.                                 *)

(* The joined command line is a number of bytes: its bytes form a finite  *)
(* set, one finite block per item.                                         *)
LEMMA JoinSizeNat ==
    ASSUME NEW s \in Seq(Nat)
    PROVE  JoinSize(s) \in Nat
<1>1. CASE s = <<>>
  BY <1>1 DEF JoinSize
<1>2. CASE s # <<>>
  <2> DEFINE Blocks == {{i} \X (1..s[i]) : i \in 1..Len(s)}
             block == [i \in 1..Len(s) |-> {i} \X (1..s[i])]
  <2>1. IsFiniteSet(1..Len(s))
    BY FS_Interval
  <2>2. block \in Surjection(1..Len(s), Blocks)
    BY DEF Surjection
  <2>3. IsFiniteSet(Blocks)
    BY <2>1, <2>2, FS_Surjection
  <2>4. ASSUME NEW i \in 1..Len(s) PROVE IsFiniteSet({i} \X (1..s[i]))
    <3>1. IsFiniteSet({i})
      BY FS_Singleton
    <3>2. s[i] \in Nat
      OBVIOUS
    <3>3. IsFiniteSet(1..s[i])
      BY <3>2, FS_Interval
    <3>4. QED
      BY <3>1, <3>3, FS_Product
  <2>5. IsFiniteSet(UNION Blocks)
    BY <2>3, <2>4, FS_UNION
  <2>6. Cardinality(UNION Blocks) \in Nat
    BY <2>5, FS_CardinalityType
  <2>7. Len(s) >= 1
    BY <1>2
  <2>8. QED
    BY <1>2, <2>6, <2>7 DEF JoinSize
<1>3. QED
  BY <1>1, <1>2

(* Writing a temporary file appends its size to the ones written before.  *)
LEMMA AppendToOne ==
    ASSUME NEW a, NEW b
    PROVE  Append(<<a>>, b) = <<a, b>>
<1>1. <<a>> \in Seq({a, b})
  OBVIOUS
<1>2. \A i \in 1..2 : Append(<<a>>, b)[i] = IF i = 1 THEN a ELSE b
  BY <1>1
<1>3. Append(<<a>>, b) = [i \in 1..2 |-> Append(<<a>>, b)[i]]
  BY <1>1
<1>4. <<a, b>> = [i \in 1..2 |-> IF i = 1 THEN a ELSE b]
  OBVIOUS
<1>5. QED
  BY <1>2, <1>3, <1>4, Zenon

LEMMA AppendToTwo ==
    ASSUME NEW a, NEW b, NEW c
    PROVE  Append(<<a, b>>, c) = <<a, b, c>>
<1>1. <<a, b>> \in Seq({a, b, c})
  OBVIOUS
<1>2. \A i \in 1..3 :
        Append(<<a, b>>, c)[i] = IF i = 1 THEN a ELSE IF i = 2 THEN b ELSE c
  BY <1>1
<1>3. Append(<<a, b>>, c) = [i \in 1..3 |-> Append(<<a, b>>, c)[i]]
  BY <1>1
<1>4. <<a, b, c>> = [i \in 1..3 |-> IF i = 1 THEN a ELSE IF i = 2 THEN b ELSE c]
  OBVIOUS
<1>5. QED
  BY <1>2, <1>3, <1>4, Zenon

(* The u64 range is not empty.                                            *)
LEMMA U64Positive == U64 \in Nat \ {0}
BY U32Positive DEF U64

(* A u64 sum that does not overflow is not changed by the wrap.            *)
LEMMA NoWrap ==
    ASSUME NEW x \in 0..(U64 - 1)
    PROVE  x % U64 = x
BY U64Positive

(* Layout names the four sections in order and sizes each by its file.    *)
LEMMA LayoutFacts ==
    ASSUME NEW a \in Nat, NEW b \in Nat, NEW c \in Nat, NEW d \in Nat,
           plan = Layout(<<a, b, c, d>>)
    PROVE  /\ [k \in 1..Len(plan) |-> plan[k].name] = Names
           /\ plan[1].size = a /\ plan[2].size = b
           /\ plan[3].size = c /\ plan[4].size = d
BY DEF Layout, Section, Names

(* A u64 addition of two numbers whose sum is below 2^64 does not wrap.   *)
LEMMA AddNoWrap ==
    ASSUME NEW x \in Nat, NEW y \in Nat, x + y < U64
    PROVE  (x + y) % U64 = x + y
<1>1. x + y \in 0..(U64 - 1)
  BY U64Positive
<1>2. QED
  BY <1>1, NoWrap, Zenon

(* The offsets Layout computes, the u64 wrap written out.                  *)
LEMMA OffsetsDef ==
    ASSUME NEW a, NEW b, NEW c, NEW d
    PROVE  LET o == Offsets(<<a, b, c, d>>)
           IN  /\ o[1] = base /\ o[2] = (base + a) % U64
               /\ o[3] = (o[2] + b) % U64 /\ o[4] = (o[3] + c) % U64
BY DEF Offsets

(* When none of the three u64 additions overflows, the end of the third    *)
(* section, summed without a wrap, is below 2^64.                          *)
LEMMA ChecksBoundEnd ==
    ASSUME base \in Nat, NEW a \in Nat, NEW b \in Nat, NEW c \in Nat, NEW d \in Nat,
           \A k \in 1..3 : ~Overflows(<<a, b, c, d>>, k)
    PROVE  base + a + b + c < U64
<1> DEFINE o == Offsets(<<a, b, c, d>>)
<1>1. /\ ~(o[1] + a >= U64) /\ ~(o[2] + b >= U64) /\ ~(o[3] + c >= U64)
  BY DEF Overflows
<1>2. /\ o[1] = base /\ o[2] = (base + a) % U64
      /\ o[3] = (o[2] + b) % U64 /\ o[4] = (o[3] + c) % U64
  BY OffsetsDef
<1>3. base + a < U64
  <2>1. o[1] = base
    BY <1>2
  <2>2. QED
    BY <1>1, <2>1, U64Positive
<1>4. o[2] = base + a
  BY <1>2, <1>3, AddNoWrap, Zenon
<1>5. base + a + b < U64
  BY <1>1, <1>4, U64Positive
<1>6. base + a \in Nat
  OBVIOUS
<1>7. o[3] = base + a + b
  BY <1>2, <1>4, <1>5, <1>6, AddNoWrap, Zenon
<1>8. QED
  BY <1>1, <1>7, U64Positive

(* Sections laid end to end, each at the offset where the one before it   *)
(* ends, do not overlap.                                                   *)
LEMMA SectionsEndToEnd ==
    ASSUME NEW p, NEW o \in Nat, NEW a \in Nat, NEW b \in Nat, NEW c \in Nat,
           NEW d \in Nat, NEW n1, NEW n2, NEW n3, NEW n4,
           p = <<Section(n1, a, o), Section(n2, b, o + a),
                 Section(n3, c, o + a + b), Section(n4, d, o + a + b + c)>>
    PROVE  \A j, k \in 1..Len(p) : j < k => p[j].offset + p[j].size <= p[k].offset
BY DEF Section

(* When the end of the third section is below 2^64, no offset wrapped and  *)
(* each section starts at or after the end of every section before it.    *)
LEMMA LayoutDisjoint ==
    ASSUME base \in Nat, NEW a \in Nat, NEW b \in Nat, NEW c \in Nat, NEW d \in Nat,
           base + a + b + c < U64,
           plan = Layout(<<a, b, c, d>>)
    PROVE  \A j, k \in 1..Len(plan) :
              j < k => plan[j].offset + plan[j].size <= plan[k].offset
<1> DEFINE o == Offsets(<<a, b, c, d>>)
<1>1. /\ o[1] = base /\ o[2] = (base + a) % U64
      /\ o[3] = (o[2] + b) % U64 /\ o[4] = (o[3] + c) % U64
  BY OffsetsDef
<1>2. /\ base + a \in Nat /\ base + a + b \in Nat
      /\ base + a < U64 /\ base + a + b < U64
  BY U64Positive
<1>3. o[2] = base + a
  BY <1>1, <1>2, AddNoWrap, Zenon
<1>4. o[3] = base + a + b
  BY <1>1, <1>2, <1>3, AddNoWrap, Zenon
<1>5. o[4] = base + a + b + c
  <2>1. (base + a + b + c) % U64 = base + a + b + c
    BY <1>2, AddNoWrap, Zenon
  <2>2. QED
    BY <1>1, <1>4, <2>1, Zenon
<1>6. plan = <<Section(Names[1], a, o[1]), Section(Names[2], b, o[2]),
               Section(Names[3], c, o[3]), Section(Names[4], d, o[4])>>
  BY DEF Layout
<1>7. o[1] = base
  BY <1>1
<1>8. plan = <<Section(Names[1], a, base), Section(Names[2], b, base + a),
               Section(Names[3], c, base + a + b),
               Section(Names[4], d, base + a + b + c)>>
  BY <1>3, <1>4, <1>5, <1>6, <1>7, Zenon
<1>9. QED
  BY <1>8, SectionsEndToEnd, Zenon

-----------------------------------------------------------------------------
(* PlanInv is inductive.                                                   *)

LEMMA InitPlanInv == Init => PlanInv
<1> SUFFICES ASSUME Init PROVE PlanInv
  OBVIOUS
<1>1. cmdline \in Seq(Nat)
  BY SectionPlannerAssumption DEF Init
<1>2. PlannerTypeOK
  BY <1>1, SectionPlannerAssumption DEF Init, PlannerTypeOK, Steps
<1>3. QED
  BY <1>2, NoValueDistinct DEF Init, PlanInv

(* The offset stub_offset computes from a parsed stub is a number.         *)
LEMMA StubOffsetNat ==
    ASSUME stub \in [image_base : ImageBases \cup {NoHeader}, sections : SectionTables],
           stub.image_base # NoHeader, stub.sections # <<>>
    PROVE  StubOffs % U64 \in Nat
<1>1. stub.sections \in Seq([va : Nat, vs : Nat])
  BY SectionPlannerAssumption
<1>2. StubEnd \in Nat
  <2> DEFINE secs == stub.sections
  <2>1. Len(secs) \in Nat \ {0}
    BY <1>1
  <2>2. secs[Len(secs)] \in [va : Nat, vs : Nat]
    <3>1. Len(secs) \in 1..Len(secs)
      BY <2>1
    <3>2. QED
      BY <1>1, <3>1, ElementOfSeq, Zenon
  <2>3. QED
    BY <2>2 DEF StubEnd
<1>3. stub.image_base \in Nat
  BY SectionPlannerAssumption, Zenon
<1>4. StubOffs \in Nat
  BY <1>2, <1>3, U32Positive DEF StubOffs
<1>5. QED
  BY <1>4, U64Positive

LEMMA NextPlanInv == PlanInv /\ [Next]_vars => PlanInv'
<1> USE NoValueDistinct DEF PlanInv, PlannerTypeOK, Steps, inputs
<1>1. ASSUME PlanInv, WriteCmdline PROVE PlanInv'
  BY <1>1 DEF WriteCmdline, Stop
<1>2. ASSUME PlanInv, WriteKernelPath PROVE PlanInv'
  <2>1. pc = "write_kernel_path" /\ UNCHANGED inputs
    BY <1>2 DEF WriteKernelPath, WritePath
  <2>2. CASE kernel_rel = NotUnderEsp
    BY <1>2, <2>1, <2>2 DEF WriteKernelPath, WritePath, Stop
  <2>3. CASE kernel_rel # NotUnderEsp
    <3>1. kernel_rel \in Nat
      BY <1>2, <2>3
    <3>2. PICK ok \in BOOLEAN :
            IF ok THEN pc' = "write_initrd_path" /\ tmp' = Append(tmp, EspPathSize(kernel_rel))
                       /\ UNCHANGED <<base, plan, outcome>>
                  ELSE Stop("err") /\ UNCHANGED tmp
      BY <1>2, <2>3 DEF WriteKernelPath, WritePath
    <3>3. CASE ok
      <4>1. /\ pc' = "write_initrd_path" /\ UNCHANGED <<base, plan, outcome>>
            /\ tmp' = Append(tmp, EspPathSize(kernel_rel))
        BY <3>2, <3>3
      <4>2. tmp = <<JoinSize(cmdline)>>
        BY <1>2, <2>1
      <4>3. tmp' = <<JoinSize(cmdline), EspPathSize(kernel_rel)>>
        BY <4>1, <4>2, AppendToOne
      <4>4. QED
        BY <1>2, <2>1, <3>1, <4>1, <4>3
    <3>4. CASE ~ok
      BY <1>2, <2>1, <3>2, <3>4 DEF Stop
    <3>5. QED
      BY <3>3, <3>4
  <2>4. QED
    BY <2>2, <2>3
<1>3. ASSUME PlanInv, WriteInitrdPath PROVE PlanInv'
  <2>1. pc = "write_initrd_path" /\ UNCHANGED inputs
    BY <1>3 DEF WriteInitrdPath, WritePath
  <2>2. CASE initrd_rel = NotUnderEsp
    BY <1>3, <2>1, <2>2 DEF WriteInitrdPath, WritePath, Stop
  <2>3. CASE initrd_rel # NotUnderEsp
    <3>1. initrd_rel \in Nat
      BY <1>3, <2>3
    <3>2. PICK ok \in BOOLEAN :
            IF ok THEN pc' = "stub_offset" /\ tmp' = Append(tmp, EspPathSize(initrd_rel))
                       /\ UNCHANGED <<base, plan, outcome>>
                  ELSE Stop("err") /\ UNCHANGED tmp
      BY <1>3, <2>3 DEF WriteInitrdPath, WritePath
    <3>3. CASE ok
      <4>1. /\ pc' = "stub_offset" /\ UNCHANGED <<base, plan, outcome>>
            /\ tmp' = Append(tmp, EspPathSize(initrd_rel))
        BY <3>2, <3>3
      <4>2. tmp = <<JoinSize(cmdline), EspPathSize(kernel_rel)>>
        BY <1>3, <2>1
      <4>3. tmp' = <<JoinSize(cmdline), EspPathSize(kernel_rel), EspPathSize(initrd_rel)>>
        BY <4>1, <4>2, AppendToTwo
      <4>4. QED
        BY <1>3, <2>1, <3>1, <4>1, <4>3
    <3>4. CASE ~ok
      BY <1>3, <2>1, <3>2, <3>4 DEF Stop
    <3>5. QED
      BY <3>3, <3>4
  <2>4. QED
    BY <2>2, <2>3
<1>4. ASSUME PlanInv, StubOffset PROVE PlanInv'
  <2>1. PICK parsed \in BOOLEAN :
          CASE ~parsed -> Stop("err")
            [] stub.image_base = NoHeader \/ stub.sections = <<>> -> Stop("panic")
            [] StubEnd >= U32 /\ build = "debug" -> Stop("panic")
            [] StubOffs >= U64 /\ build = "debug" -> Stop("panic")
            [] OTHER -> /\ base' = StubOffs % U64
                        /\ AfterStubOffset(base')
                        /\ UNCHANGED outcome
    BY <1>4 DEF StubOffset
  <2>2. pc = "stub_offset" /\ UNCHANGED <<inputs, tmp>>
    BY <1>4 DEF StubOffset
  <2>3. CASE \/ ~parsed
             \/ stub.image_base = NoHeader \/ stub.sections = <<>>
             \/ StubEnd >= U32 /\ build = "debug"
             \/ StubOffs >= U64 /\ build = "debug"
    <3>1. pc' = "done" /\ outcome' \in {"err", "panic"} /\ UNCHANGED <<base, plan>>
      BY <2>1, <2>3 DEF Stop
    <3>2. QED
      BY <1>4, <2>2, <3>1
  <2>4. CASE /\ parsed
             /\ stub.image_base # NoHeader /\ stub.sections # <<>>
             /\ ~(StubEnd >= U32 /\ build = "debug")
             /\ ~(StubOffs >= U64 /\ build = "debug")
    <3>1. /\ base' = StubOffs % U64
          /\ AfterStubOffset(base')
          /\ UNCHANGED outcome
      BY <2>1, <2>4
    <3>2. base' \in Nat
      BY <1>4, <2>4, <3>1, StubOffsetNat
    <3>3. QED
      BY <1>4, <2>2, <3>1, <3>2 DEF AfterStubOffset, PlanOf, DebugFits
  <2>5. QED
    BY <2>3, <2>4
<1>5. ASSUME PlanInv, FileSizes PROVE PlanInv'
  <2>1. /\ pc = "file_sizes" /\ mode = "stub" /\ base \in Nat
        /\ kernel_rel \in Nat /\ initrd_rel \in Nat
        /\ tmp = <<JoinSize(cmdline), EspPathSize(kernel_rel), EspPathSize(initrd_rel)>>
        /\ UNCHANGED <<inputs, tmp>>
    BY <1>5 DEF FileSizes
  <2>2. PICK failed \in 1..4 :
          CASE build = "debug" /\ (\E k \in 1..(failed - 1) : Overflows(PlanSizes, k))
                 -> Stop("panic")
            [] failed <= 3 -> Stop("err")
            [] OTHER -> /\ pc' = "objcopy"
                        /\ plan' = Layout(PlanSizes)
                        /\ UNCHANGED <<base, outcome>>
    BY <1>5, Zenon DEF FileSizes
  <2>3. PlanSizes = StubSizes
    BY <2>1 DEF PlanSizes, StubSizes, EspPathSize
  <2>4. CASE \/ build = "debug" /\ (\E k \in 1..(failed - 1) : Overflows(PlanSizes, k))
             \/ failed <= 3
    <3>1. pc' = "done" /\ outcome' \in {"err", "panic"} /\ UNCHANGED <<base, plan>>
      BY <2>2, <2>4 DEF Stop
    <3>2. QED
      BY <1>5, <2>1, <3>1
  <2>5. CASE /\ ~(build = "debug" /\ (\E k \in 1..(failed - 1) : Overflows(PlanSizes, k)))
             /\ ~(failed <= 3)
    <3>1. /\ pc' = "objcopy" /\ UNCHANGED <<base, outcome>>
          /\ plan' = Layout(PlanSizes)
      BY <2>2, <2>5
    <3>2. plan' = Layout(StubSizes)'
      BY <2>1, <2>3, <3>1 DEF StubSizes, Layout, Offsets, Section
    <3>3. PlanOf'
      BY <2>1, <3>2 DEF PlanOf
    <3>4. JoinSize(cmdline) \in Nat
      BY <1>5, JoinSizeNat
    <3>5. DebugFits'
      <4>1. SUFFICES ASSUME build = "debug" PROVE PlanEnd' < U64
        BY <2>1 DEF DebugFits
      <4>2. failed = 4
        BY <2>5
      <4>3. \A k \in 1..3 : ~Overflows(StubSizes, k)
        <5>1. ~\E k \in 1..(failed - 1) : Overflows(PlanSizes, k)
          BY <2>5, <4>1
        <5>2. 1..(failed - 1) = 1..3
          BY <4>2
        <5>3. QED
          BY <2>3, <5>1, <5>2, Zenon
      <4>4. base + os_release + JoinSize(cmdline) + EspPathSize(initrd_rel) < U64
        <5>1. os_release \in Nat
          BY <1>5
        <5>2. EspPathSize(initrd_rel) \in Nat /\ EspPathSize(kernel_rel) \in Nat
          BY <2>1 DEF EspPathSize
        <5>3. QED
          BY <2>1, <3>4, <4>3, <5>1, <5>2, ChecksBoundEnd, Zenon DEF StubSizes
      <4>5. QED
        BY <2>1, <3>1, <4>4 DEF PlanEnd
    <3>6. QED
      BY <1>5, <2>1, <3>1, <3>3, <3>5
  <2>6. QED
    BY <2>4, <2>5
<1>6. ASSUME PlanInv, WrapInPe PROVE PlanInv'
  <2>1. /\ pc = "objcopy" /\ pc' = "done"
        /\ UNCHANGED <<inputs, tmp, base, plan>>
    BY <1>6 DEF WrapInPe
  <2>2. PlanOf' = PlanOf /\ DebugFits' = DebugFits
    BY <2>1 DEF PlanOf, StubSizes, Layout, Offsets, Section, DebugFits, PlanEnd
  <2>3. QED
    BY <1>6, <2>1, <2>2
<1>7. ASSUME PlanInv, UNCHANGED vars PROVE PlanInv'
  <2>1. PlanOf' = PlanOf /\ DebugFits' = DebugFits
    BY <1>7 DEF vars, PlanOf, StubSizes, Layout, Offsets, Section, DebugFits, PlanEnd
  <2>2. QED
    BY <1>7, <2>1 DEF vars
<1>8. QED
  BY <1>1, <1>2, <1>3, <1>4, <1>5, <1>6, <1>7 DEF Next


-----------------------------------------------------------------------------
(* The plan's properties.                                                  *)

\* The plan of a successful run, laid out from numbers.
LEMMA PlanOfOk ==
    ASSUME PlanInv, outcome = "ok"
    PROVE  /\ base \in Nat
           /\ mode = "stub" =>
                 /\ os_release \in Nat /\ JoinSize(cmdline) \in Nat
                 /\ EspPathSize(initrd_rel) \in Nat /\ EspPathSize(kernel_rel) \in Nat
                 /\ plan = Layout(StubSizes)
                 /\ build = "debug" => PlanEnd < U64
           /\ mode # "stub" => plan = <<Section(".initrd", initrd, base)>>
<1>1. base \in Nat /\ PlanOf /\ DebugFits
  BY DEF PlanInv
<1>2. cmdline \in Seq(Nat)
  BY DEF PlanInv, PlannerTypeOK
<1>3. JoinSize(cmdline) \in Nat
  BY <1>2, JoinSizeNat
<1>4. QED
  BY <1>1, <1>3 DEF PlanInv, PlannerTypeOK, PlanOf, EspPathSize, StubSizes, DebugFits

LEMMA SpecPlanInv == Spec => []PlanInv
BY InitPlanInv, NextPlanInv, PTL DEF Spec

(* A successful lanzaboote_image hands objcopy the sections .osrel,       *)
(* .cmdline, .initrdp and .kernelp, in that order, each as long as its    *)
(* file, whatever the order the temporary files were written in           *)
(* (pe.rs:21-35); a successful wrap_initrd hands it the one .initrd       *)
(* section, as long as the initrd (pe.rs:40-44).                           *)
THEOREM SectionsHoldTheirFilesHolds == Spec => []SectionsHoldTheirFiles
<1>1. PlanInv => SectionsHoldTheirFiles
  <2> SUFFICES ASSUME PlanInv, outcome = "ok" PROVE SectionsHoldTheirFiles
    BY DEF SectionsHoldTheirFiles
  <2>1. CASE mode = "stub"
    <3>1. /\ base \in Nat
          /\ os_release \in Nat /\ JoinSize(cmdline) \in Nat
          /\ EspPathSize(initrd_rel) \in Nat /\ EspPathSize(kernel_rel) \in Nat
          /\ plan = Layout(StubSizes)
      BY <2>1, PlanOfOk
    <3>3. /\ [k \in 1..Len(plan) |-> plan[k].name] = Names
          /\ plan[1].size = os_release /\ plan[2].size = JoinSize(cmdline)
          /\ plan[3].size = EspPathSize(initrd_rel)
          /\ plan[4].size = EspPathSize(kernel_rel)
      BY <3>1, LayoutFacts, Zenon DEF StubSizes
    <3>4. QED
      BY <2>1, <3>3 DEF SectionsHoldTheirFiles
  <2>2. CASE mode # "stub"
    <3>1. plan = <<Section(".initrd", initrd, base)>>
      BY <2>2, PlanOfOk
    <3>2. QED
      BY <2>2, <3>1 DEF SectionsHoldTheirFiles, Section
  <2>3. QED
    BY <2>1, <2>2
<1>2. QED
  BY <1>1, SpecPlanInv, PTL

(* In a debug build the sections a successful run hands objcopy never    *)
(* overlap: each one starts at or after the end of every section before   *)
(* it, for every image base, stub table and file size.  The overflow       *)
(* checks of the u64 sums at pe.rs:26-28 and 129 are what makes this hold: *)
(* a run whose sums would pass 2^64 panics before objcopy.                 *)
THEOREM NewSectionsDisjointHolds == Spec => []NewSectionsDisjoint
<1>1. PlanInv => NewSectionsDisjoint
  <2> SUFFICES ASSUME PlanInv, outcome = "ok", build = "debug"
               PROVE  \A j, k \in 1..Len(plan) :
                         j < k => plan[j].offset + plan[j].size <= plan[k].offset
    BY DEF NewSectionsDisjoint
  <2>1. CASE mode = "stub"
    <3>1. /\ base \in Nat
          /\ os_release \in Nat /\ JoinSize(cmdline) \in Nat
          /\ EspPathSize(initrd_rel) \in Nat /\ EspPathSize(kernel_rel) \in Nat
          /\ plan = Layout(StubSizes)
          /\ PlanEnd < U64
      BY <2>1, PlanOfOk
    <3>2. base + os_release + JoinSize(cmdline) + EspPathSize(initrd_rel) < U64
      BY <3>1 DEF PlanEnd
    <3>3. QED
      BY <3>1, <3>2, LayoutDisjoint, Zenon DEF StubSizes
  <2>2. CASE mode # "stub"
    <3>1. plan = <<Section(".initrd", initrd, base)>>
      BY <2>2, PlanOfOk
    <3>2. QED
      BY <3>1
  <2>3. QED
    BY <2>1, <2>2
<1>2. QED
  BY <1>1, SpecPlanInv, PTL

=============================================================================
