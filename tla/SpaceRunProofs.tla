--------------------------- MODULE SpaceRunProofs ---------------------------
(***************************************************************************)
(* For every configuration space.h accepts, every image, every input and   *)
(* every behaviour of the streams: no step writes outside the space, a     *)
(* finished run reports the truth about the space it leaves, and all the   *)
(* machine does is whole ticks.                                            *)
(***************************************************************************)
EXTENDS SpaceRun, SequenceTheorems, FiniteSetTheorems, WellFoundedInduction, TLAPS

(* The numbers of the layout.                                              *)
LEMMA LayoutType ==
  /\ SpaceSize \in Nat /\ NSize \in Nat /\ AddressSize \in Nat
  /\ InstructionSize \in Nat /\ ProcessorN \in Nat /\ ProcessorN >= 4
  /\ NSize + 2 * AddressSize = InstructionSize
  BY ConfigAssumption DEF SpaceSize, NSize, InstructionSize

(* The rows of the channels lie inside the space.                          *)
LEMMA ChannelRows ==
  ASSUME NEW i \in {InSlot, OutSlot}
  PROVE  /\ SrcAt(i) \in Nat
         /\ SrcAt(i) + AddressSize <= SpaceSize
<1>1. 3 * InstructionSize <= ProcessorN * InstructionSize
  <2>1. \A a, b \in Nat : b >= 4 => 3 * a <= b * a
    <3> SUFFICES ASSUME NEW a \in Nat, NEW b \in Nat, b >= 4
                 PROVE  3 * a <= b * a
      OBVIOUS
    <3>1. b * a = 3 * a + (b - 3) * a
      OBVIOUS
    <3>2. (b - 3) * a >= 0
      OBVIOUS
    <3> QED BY <3>1, <3>2
  <2> QED BY <2>1, LayoutType
<1>2. ProcessorN * InstructionSize <= SpaceSize
  BY ConfigAssumption, LayoutType DEF ProcessorBits
<1>3. RowAt(i) \in Nat /\ RowAt(i) + InstructionSize <= 3 * InstructionSize
  BY LayoutType DEF RowAt, InSlot, OutSlot
<1>4. SrcAt(i) = RowAt(i) + NSize + AddressSize
  BY DEF SrcAt
<1> HIDE DEF RowAt
<1> QED BY <1>1, <1>2, <1>3, <1>4, LayoutType

(* write_field_bits of a channel status stays inside the space.            *)
LEMMA WithStatusType ==
  ASSUME NEW S \in SUBSET Positions, NEW i \in {InSlot, OutSlot},
         NEW k, NEW failed
  PROVE  WithStatus(S, i, k, failed) \subseteq Positions
<1> DEFINE at == SrcAt(i)
<1>1. at \in Nat /\ at + AddressSize <= SpaceSize /\ SpaceSize \in Nat
      /\ AddressSize \in Nat
  BY ChannelRows, LayoutType
<1> HIDE DEF at
<1>2. at .. (at + AddressSize - 1) \subseteq Positions
  BY <1>1 DEF Positions
<1> QED BY <1>2 DEF WithStatus, WithField, at

(* A copy whose ranges computation has accepted stays inside the space.    *)
LEMMA CopiedType ==
  ASSUME NEW S \in SUBSET Positions, NEW row \in Row, InRange(row)
  PROVE  Copied(S, row) \subseteq Positions
<1>1. row.dst \in Nat /\ row.n \in Nat /\ SpaceSize \in Nat
  BY LayoutType DEF Row
<1>2. row.dst .. (row.dst + row.n - 1) \subseteq Positions
  BY <1>1 DEF InRange, Positions
<1> QED BY <1>2 DEF Copied

(* Bytes read into a range the channel has accepted stay inside the space. *)
LEMMA WithBytesType ==
  ASSUME NEW S \in SUBSET Positions, NEW row \in Row, ChannelRange(row),
         NEW bytes \in Seq(Byte), 8 * Len(bytes) <= row.n
  PROVE  WithBytes(S, row.dst, bytes) \subseteq Positions
<1>1. row.dst \in Nat /\ row.n \in Nat /\ SpaceSize \in Nat /\ Len(bytes) \in Nat
  BY LayoutType DEF Row
<1>2. row.dst + row.n <= SpaceSize
  BY <1>1 DEF ChannelRange
<1>3. row.dst .. (row.dst + 8 * Len(bytes) - 1) \subseteq Positions
  BY <1>1, <1>2 DEF Positions
<1> QED BY <1>3 DEF WithBytes

(* What fwrite is given is a sequence of bytes.                            *)
LEMMA BytesAtType ==
  ASSUME NEW S, NEW at, NEW k \in Nat
  PROVE  BytesAt(S, at, k) \in Seq(Byte) /\ Len(BytesAt(S, at, k)) = k
<1>1. \A j \in 1 .. k : {b \in 0 .. 7 : at + 8 * (j - 1) + b \in S} \in Byte
  BY DEF Byte
<1>2. BytesAt(S, at, k) \in [1 .. k -> Byte]
  BY <1>1 DEF BytesAt
<1> QED BY <1>2
-----------------------------------------------------------------------------
(* What a run knows before it ends: nothing has gone wrong yet, and the    *)
(* ticks it has left.                                                      *)
RunInv ==
  /\ pc \in {"loop", "out", "in", "compute"} => reason = "idle"
  /\ pc = "loop" /\ limit # NoLimit => ticks <= limit
  /\ InTick /\ limit # NoLimit => ticks < limit

IInv == TypeOK /\ RunInv /\ ReasonIsTrue

LEMMA InitIInv == Init => IInv
<1> SUFFICES ASSUME Init PROVE IInv
  OBVIOUS
<1>1. processor \in [Slots -> Row] /\ space \subseteq Positions
  BY DEF Init, NoRow, Row
<1>2. slot \in 0 .. ProcessorN /\ ticks \in 0 .. MaxTicks
  BY LayoutType, RunAssumption DEF Init
<1>3. TypeOK
  BY <1>1, <1>2, RunAssumption DEF Init, TypeOK, Now
<1> QED BY <1>3 DEF Init, IInv, RunInv, ReasonIsTrue, InTick

(* The callers and senders.                                                *)
LEMMA OutsidePreserves ==
  ASSUME IInv, Load \/ Call \/ Arrive
  PROVE  IInv'
<1> USE DEF IInv
<1>1. CASE Load
  <2>1. space' \subseteq Positions
    BY <1>1, RunAssumption DEF Load, TypeOK
  <2>2. TypeOK'
    BY <1>1, <2>1 DEF Load, TypeOK, streams
  <2> QED BY <1>1, <2>2 DEF Load, RunInv, ReasonIsTrue, InTick
<1>2. CASE Call
  <2>1. TypeOK' /\ (limit' # NoLimit => limit' \in Nat)
    BY <1>2, RunAssumption DEF Call, TypeOK, streams
  <2>2. RunInv'
    BY <1>2, <2>1 DEF Call, RunInv, InTick
  <2> QED BY <1>2, <2>1, <2>2 DEF Call, ReasonIsTrue
<1>3. CASE Arrive
  <2>1. TypeOK'
    <3>1. arrived' \in 0 .. Len(Input) /\ taken' \in 0 .. arrived'
      <4>1. Len(Input) \in Nat
        BY RunAssumption
      <4> QED BY <4>1, <1>3 DEF Arrive, TypeOK
    <3> QED BY <3>1, <1>3 DEF Arrive, TypeOK, machine
  <2>2. UNCHANGED <<space, pc, slot, ticks, limit, reason>>
    BY <1>3 DEF Arrive, machine
  <2>3. ReasonIsTrue'
    BY <2>2 DEF ReasonIsTrue, ReadRows
  <2> QED BY <2>1, <2>2, <2>3 DEF RunInv, InTick
<1> QED BY <1>1, <1>2, <1>3

(* The tests of the loop, and the end of a tick and of a run.              *)
LEMMA LoopPreserves ==
  ASSUME IInv, AtLimit \/ StartTick \/ EndTick \/ Return
  PROVE  IInv'
<1> USE DEF IInv
<1>0. /\ limit # NoLimit => limit \in Nat /\ limit <= MaxTicks
      /\ ticks \in Nat /\ MaxTicks \in Nat
  BY RunAssumption DEF TypeOK
<1>1. CASE AtLimit
  <2>1. TypeOK'
    BY <1>1 DEF AtLimit, ReadProcessor, TypeOK, streams
  <2>2. RunInv'
    BY <1>1 DEF AtLimit, RunInv, InTick
  <2>3. ReasonIsTrue'
    BY <1>1 DEF AtLimit, ReasonIsTrue, ReadRows
  <2> QED BY <2>1, <2>2, <2>3
<1>2. CASE StartTick
  <2>1. Now \in [space : SUBSET Positions, taken : Nat, output : Seq(Byte)]
    BY DEF TypeOK, Now
  <2>2. TypeOK'
    BY <1>2, <2>1 DEF StartTick, ReadProcessor, TypeOK, streams
  <2>3. RunInv'
    BY <1>0, <1>2 DEF StartTick, RunInv, InTick, streams
  <2>4. pc' = "return" => reason' = "idle" /\ ~Active(ReadRows')
    BY <1>2 DEF StartTick, RunInv, ReadRows
  <2>5. ReasonIsTrue'
    BY <2>4 DEF ReasonIsTrue
  <2> QED BY <2>2, <2>3, <2>5
<1>3. CASE EndTick
  <2>1. Now \in [space : SUBSET Positions, taken : Nat, output : Seq(Byte)]
    BY DEF TypeOK, Now
  <2>2. ticks' \in 0 .. MaxTicks
    BY <1>0, <1>3 DEF EndTick, TypeOK
  <2>3. TypeOK'
    BY <1>3, <2>1, <2>2 DEF EndTick, TypeOK, streams
  <2>4. RunInv'
    BY <1>0, <1>3 DEF EndTick, RunInv, InTick
  <2> QED BY <1>3, <2>3, <2>4 DEF EndTick, ReasonIsTrue
<1>4. CASE Return
  <2>1. TypeOK'
    BY <1>4 DEF Return, ReadProcessor, TypeOK, streams
  <2> QED BY <1>4, <2>1 DEF Return, RunInv, InTick, ReasonIsTrue
<1> QED BY <1>1, <1>2, <1>3, <1>4

(* The channels.                                                           *)
LEMMA OutPreserves ==
  ASSUME IInv, OutChannel
  PROVE  IInv'
<1> USE DEF IInv
<1> DEFINE row == processor[OutSlot]
<1>1. row \in Row
  <2>1. OutSlot \in Slots
    BY LayoutType DEF OutSlot, Slots
  <2> QED BY <2>1 DEF TypeOK
<1>2. space \in SUBSET Positions /\ output \in Seq(Byte)
  BY DEF TypeOK
<1>3. space' \subseteq Positions /\ output' \in Seq(Byte)
  <2> HIDE DEF IInv
  <2>1. CASE UNCHANGED <<space, output>>
    BY <2>1, <1>2
  <2>2. CASE space' = WithStatus(space, OutSlot, 0, TRUE) /\ UNCHANGED output
    BY <2>2, <1>2, WithStatusType
  <2>3. CASE \E k \in 0 .. (row.n \div 8) : Written(row, k)
    <3>1. PICK k \in 0 .. (row.n \div 8) : Written(row, k)
      BY <2>3
    <3>2. k \in Nat
      BY <3>1
    <3>3. output \o BytesAt(space, row.dst, k) \in Seq(Byte)
      BY <3>2, <1>2, BytesAtType
    <3>4. space' \subseteq Positions
      BY <3>1, <1>2, WithStatusType DEF Written
    <3> QED BY <3>1, <3>3, <3>4 DEF Written
  <2> QED BY <2>1, <2>2, <2>3 DEF OutChannel
<1>4. TypeOK'
  BY <1>3 DEF OutChannel, TypeOK
<1> QED BY <1>4 DEF OutChannel, RunInv, InTick, ReasonIsTrue

LEMMA InPreserves ==
  ASSUME IInv, InChannel
  PROVE  IInv'
<1> USE DEF IInv
<1> DEFINE row == processor[InSlot]
           wanted == row.n \div 8
<1>1. row \in Row
  <2>1. InSlot \in Slots
    BY LayoutType DEF InSlot, Slots
  <2> QED BY <2>1 DEF TypeOK
<1>2. /\ Input \in Seq(Byte) /\ Len(Input) \in Nat
      /\ arrived \in Nat /\ taken \in Nat
      /\ taken <= arrived /\ arrived <= Len(Input)
  BY RunAssumption DEF TypeOK
<1>3. wanted \in Nat /\ 8 * wanted <= row.n
  <2>1. row.n \in Nat
    BY <1>1 DEF Row
  <2> QED BY <2>1
<1>4. ASSUME NEW k \in Nat, NEW failed, k <= wanted, k <= arrived - taken,
             ChannelRange(row), Received(row, k, failed)
      PROVE  space' \subseteq Positions /\ taken' \in 0 .. arrived
  <2> DEFINE bytes == SubSeq(Input, taken + 1, taken + k)
  <2>1. bytes \in Seq(Byte) /\ Len(bytes) = k
    <3>1. \A x \in (taken + 1) .. (taken + k) : x \in 1 .. Len(Input)
      BY <1>2, <1>4
    <3>2. bytes \in Seq(Byte)
      BY <1>2, <3>1, SubSeqProperties
    <3>3. Len(bytes) = k
      BY <1>2, <1>4, <3>1, SubSeqProperties
    <3> QED BY <3>2, <3>3
  <2>2. 8 * Len(bytes) <= row.n
    BY <2>1, <1>1, <1>3, <1>4 DEF Row
  <2> HIDE DEF bytes
  <2>3. WithBytes(space, row.dst, bytes) \subseteq Positions
    BY <2>1, <2>2, <1>1, <1>4, WithBytesType DEF TypeOK
  <2>4. space' \subseteq Positions
    BY <2>3, <1>4, WithStatusType DEF Received, bytes
  <2>5. taken' \in 0 .. arrived
    BY <1>2, <1>4 DEF Received
  <2> QED BY <2>4, <2>5
<1>5. space' \subseteq Positions /\ taken' \in 0 .. arrived
  <2>1. CASE row.n = 0 /\ UNCHANGED <<space, taken>>
    BY <2>1 DEF TypeOK
  <2>2. CASE space' = WithStatus(space, InSlot, 0, TRUE) /\ UNCHANGED taken
    BY <2>2, WithStatusType DEF TypeOK
  <2>3. CASE ChannelRange(row) /\ arrived - taken >= wanted
             /\ Received(row, wanted, FALSE)
    <3>1. wanted \in Nat /\ wanted <= arrived - taken /\ wanted <= wanted
      BY <2>3, <1>2, <1>3
    <3> HIDE DEF wanted, row, IInv
    <3> QED BY <2>3, <3>1, <1>4
  <2>4. CASE ChannelRange(row) /\ arrived - taken < wanted
             /\ Received(row, arrived - taken, FALSE)
    <3>1. /\ arrived - taken \in Nat /\ arrived - taken <= wanted
          /\ arrived - taken <= arrived - taken
      BY <2>4, <1>2, <1>3
    <3> HIDE DEF wanted, row, IInv
    <3> QED BY <2>4, <3>1, <1>4
  <2>5. CASE ChannelRange(row) /\ \E k \in 0 .. (wanted - 1) :
                k <= arrived - taken /\ Received(row, k, TRUE)
    <3>1. PICK k \in 0 .. (wanted - 1) :
                 k <= arrived - taken /\ Received(row, k, TRUE)
      BY <2>5
    <3>2. k \in Nat /\ k <= wanted
      BY <1>3, <3>1
    <3> HIDE DEF wanted, row, IInv
    <3> QED BY <2>5, <3>1, <3>2, <1>4
  <2> QED BY <2>1, <2>2, <2>3, <2>4, <2>5 DEF InChannel
<1>6. TypeOK'
  <2>1. slot' \in 0 .. ProcessorN
    BY LayoutType DEF InChannel
  <2> QED BY <1>5, <2>1 DEF InChannel, TypeOK
<1> QED BY <1>6 DEF InChannel, RunInv, InTick, ReasonIsTrue

(* The instructions.                                                       *)
LEMMA ComputePreserves ==
  ASSUME IInv, SkipChannel \/ Nothing \/ Copy \/ Fault
  PROVE  IInv'
<1> USE DEF IInv
<1>1. CASE SkipChannel
  <2>1. slot' \in 0 .. ProcessorN
    BY <1>1, LayoutType DEF SkipChannel, InSlot, OutSlot
  <2>2. TypeOK'
    BY <1>1, <2>1 DEF SkipChannel, TypeOK, streams
  <2> QED BY <1>1, <2>2 DEF SkipChannel, RunInv, InTick, ReasonIsTrue
<1>2. CASE Nothing \/ Copy \/ Fault
  <2>1. Fetch /\ UNCHANGED <<ticks, limit, arrived, taken, output>>
    BY <1>2 DEF Nothing, Copy, Fault, streams
  <2>2. /\ pc = "compute" /\ slot \in Slots /\ slot # InSlot /\ slot # OutSlot
        /\ slot + 1 \in 0 .. ProcessorN
    BY <2>1, LayoutType DEF Fetch, TypeOK, Slots
  <2>3. processor' \in [Slots -> Row] /\ processor'[slot] \in Row
        /\ processor'[slot] = Decoded(space, slot)
    BY <2>1, <2>2 DEF Fetch, TypeOK
  <2>4. CASE Nothing
    <3>1. TypeOK'
      BY <2>4, <2>2, <2>3 DEF Nothing, TypeOK, streams
    <3>2. RunInv' /\ pc' = "compute"
      BY <2>1, <2>2, <2>4 DEF Nothing, RunInv, InTick
    <3> QED BY <3>1, <3>2 DEF ReasonIsTrue
  <2>5. CASE Copy
    <3>1. space' \subseteq Positions
      BY <2>5, <2>3, CopiedType DEF Copy, TypeOK
    <3>2. TypeOK'
      BY <2>5, <2>2, <2>3, <3>1 DEF Copy, TypeOK, streams
    <3>3. RunInv' /\ pc' = "compute"
      BY <2>1, <2>2, <2>5 DEF Copy, RunInv, InTick
    <3> QED BY <3>2, <3>3 DEF ReasonIsTrue
  <2>6. CASE Fault
    <3>1. Now \in [space : SUBSET Positions, taken : Nat, output : Seq(Byte)]
      BY DEF TypeOK, Now
    <3>2. TypeOK'
      BY <2>6, <2>2, <2>3, <3>1 DEF Fault, TypeOK, streams
    <3>3. /\ pc' = "return" /\ reason' = "error" /\ slot' = slot
          /\ ReadRows'[slot] = processor'[slot]
          /\ processor'[slot].n # 0 /\ ~InRange(processor'[slot])
      BY <2>2, <2>3, <2>6 DEF Fault, ReadRows
    <3>4. limit' # NoLimit => ticks' < limit'
      BY <2>1, <2>2 DEF RunInv, InTick
    <3>5. ReasonIsTrue'
      BY <2>2, <3>3, <3>4 DEF ReasonIsTrue
    <3> QED BY <3>2, <3>3, <3>5 DEF RunInv, InTick
  <2> QED BY <1>2, <2>4, <2>5, <2>6
<1> QED BY <1>1, <1>2

LEMMA Inductive == Spec => []IInv
<1>1. IInv /\ [Next]_vars => IInv'
  <2> SUFFICES ASSUME IInv, [Next]_vars PROVE IInv'
    OBVIOUS
  <2>1. CASE Load \/ Call \/ Arrive
    BY <2>1, OutsidePreserves
  <2>2. CASE AtLimit \/ StartTick \/ EndTick \/ Return
    BY <2>2, LoopPreserves
  <2>3. CASE OutChannel
    BY <2>3, OutPreserves
  <2>4. CASE InChannel
    BY <2>4, InPreserves
  <2>5. CASE SkipChannel \/ Nothing \/ Copy \/ Fault
    BY <2>5, ComputePreserves
  <2>6. CASE UNCHANGED vars
    BY <2>6 DEF vars, IInv, TypeOK, RunInv, ReasonIsTrue, InTick, ReadRows
  <2> QED BY <2>1, <2>2, <2>3, <2>4, <2>5, <2>6 DEF Next, Machine
<1> QED BY InitIInv, <1>1, PTL DEF Spec
-----------------------------------------------------------------------------
(* No copy, status or input byte is ever placed outside the space, for any *)
(* program in the space and any behaviour of the streams.                  *)
THEOREM TypeCorrect == Spec => []TypeOK
<1>1. IInv => TypeOK
  BY DEF IInv
<1> QED BY <1>1, Inductive, PTL

(* space_run never reports a reason that the space it leaves contradicts.  *)
THEOREM TrueReason == Spec => []ReasonIsTrue
<1>1. IInv => ReasonIsTrue
  BY DEF IInv
<1> QED BY <1>1, Inductive, PTL
-----------------------------------------------------------------------------
(* Induction over the numbers, as a fact about sets of them.               *)
LessThan == {r \in Nat \X Nat : r[1] < r[2]}

LEMMA Induction ==
  ASSUME NEW S, 0 \in S, \A n \in Nat : n \in S => n + 1 \in S
  PROVE  Nat \subseteq S
<1> SUFFICES ASSUME Nat \ S # {} PROVE FALSE
  OBVIOUS
<1>1. IsWellFoundedOn(LessThan, Nat)
  <2>1. OpToRel(<, Nat) = LessThan
    BY DEF OpToRel, LessThan
  <2> QED BY <2>1, NatLessThanWellFounded
<1>2. PICK m \in Nat \ S : \A n \in Nat \ S : ~(<<n, m>> \in LessThan)
  BY <1>1, WFMin
<1>3. \A n \in Nat \ S : ~(n < m)
  BY <1>2 DEF LessThan
<1>4. m - 1 \in Nat /\ m - 1 \in S
  BY <1>3
<1> QED BY <1>4

(* The states of a computation, one instruction after the other.           *)
Start(S) == [space |-> S, failed |-> FALSE]

Turn(st, i) == IF i \in {InSlot, OutSlot} THEN st ELSE Ticks!Compute(st, i)

Turns(after, S, n) ==
  after = [i \in 0 .. n |-> IF i = 0 THEN Start(S) ELSE Turn(after[i - 1], i - 1)]

LEMMA TurnsExist ==
  ASSUME NEW S, NEW n \in Nat
  PROVE  \E after : Turns(after, S, n)
<1> DEFINE T == {m \in Nat : \E after : Turns(after, S, m)}
<1>1. 0 \in T
  <2>1. Turns([i \in 0 .. 0 |-> Start(S)], S, 0)
    BY DEF Turns
  <2> QED BY <2>1
<1>2. ASSUME NEW m \in Nat, m \in T
      PROVE  m + 1 \in T
  <2>1. PICK after : Turns(after, S, m)
    BY <1>2
  <2> DEFINE next == [i \in 0 .. (m + 1) |->
                        IF i = m + 1 THEN Turn(after[m], m) ELSE after[i]]
  <2>2. \A i \in 0 .. (m + 1) :
          next[i] = IF i = 0 THEN Start(S) ELSE Turn(next[i - 1], i - 1)
    <3> TAKE i \in 0 .. (m + 1)
    <3>1. CASE i = m + 1
      BY <3>1
    <3>2. CASE i # m + 1 /\ i # 0
      <4>1. i \in 0 .. m /\ i - 1 \in 0 .. m
        BY <3>2
      <4>2. next[i] = after[i] /\ next[i - 1] = after[i - 1]
        BY <4>1
      <4> QED BY <2>1, <3>2, <4>1, <4>2 DEF Turns
    <3>3. CASE i = 0
      BY <2>1, <3>3 DEF Turns
    <3> QED BY <3>1, <3>2, <3>3
  <2>3. Turns(next, S, m + 1)
    BY <2>2 DEF Turns
  <2> QED BY <2>3
<1> HIDE DEF T
<1>3. Nat \subseteq T
  BY <1>1, <1>2, Induction
<1> QED BY <1>3 DEF T

After(S) == CHOOSE after : Turns(after, S, ProcessorN)

LEMMA AfterTurns ==
  ASSUME NEW S
  PROVE  /\ After(S)[0] = Start(S)
         /\ \A i \in Slots : After(S)[i + 1] = Turn(After(S)[i], i)
         /\ Ticks!Computation(S) = After(S)[ProcessorN].space
<1>1. PICK n \in Nat : n = ProcessorN
  BY LayoutType
<1>2. \E after : Turns(after, S, n)
  BY TurnsExist
<1>3. Turns(After(S), S, n)
  BY <1>1, <1>2 DEF After
<1>4. After(S)[0] = Start(S)
  BY <1>3 DEF Turns
<1>5. ASSUME NEW i \in Slots
      PROVE  After(S)[i + 1] = Turn(After(S)[i], i)
  <2>1. PICK after : after = After(S)
    OBVIOUS
  <2>2. PICK j \in 0 .. n : j = i + 1
    BY <1>1 DEF Slots
  <2>3. j # 0 /\ j - 1 = i
    BY <2>2 DEF Slots
  <2>4. after[j] = Turn(after[j - 1], j - 1)
    BY <1>3, <2>1, <2>3 DEF Turns
  <2> QED BY <2>1, <2>2, <2>3, <2>4
<1>6. Ticks!Computation(S) = After(S)[ProcessorN].space
  BY DEF Ticks!Computation, After, Turns, Turn, Start, Ticks!InSlot, Ticks!OutSlot,
         InSlot, OutSlot
<1> QED BY <1>4, <1>5, <1>6

(* What the tick says of the space, in the words of the machine.           *)
LEMMA SameWords ==
  /\ Ticks!Slots = Slots /\ Ticks!InSlot = InSlot /\ Ticks!OutSlot = OutSlot
  /\ \A S, i : Ticks!Decoded(S, i) = Decoded(S, i)
  /\ \A S : Ticks!Rows(S) = [i \in Slots |-> Decoded(S, i)]
  /\ \A rows : Ticks!Active(rows) <=> Active(rows)
  /\ \A row : Ticks!InRange(row) <=> InRange(row)
  /\ \A row : Ticks!ChannelRange(row) <=> ChannelRange(row)
  /\ \A S, row : Ticks!Copied(S, row) = Copied(S, row)
  /\ \A S, at, k : Ticks!BytesAt(S, at, k) = BytesAt(S, at, k)
  /\ \A S, at, bytes : Ticks!WithBytes(S, at, bytes) = WithBytes(S, at, bytes)
  /\ \A S, i, k, f : Ticks!WithStatus(S, i, k, f) = WithStatus(S, i, k, f)
<1>1. /\ Ticks!Slots = Slots /\ Ticks!InSlot = InSlot /\ Ticks!OutSlot = OutSlot
      /\ Ticks!SpaceSize = SpaceSize /\ Ticks!NSize = NSize
      /\ Ticks!InstructionSize = InstructionSize
  BY DEF Ticks!Slots, Slots, Ticks!InSlot, InSlot, Ticks!OutSlot, OutSlot,
         Ticks!SpaceSize, SpaceSize, Ticks!NSize, NSize,
         Ticks!InstructionSize, InstructionSize
<1>2. \A i : /\ Ticks!NAt(i) = NAt(i) /\ Ticks!DstAt(i) = DstAt(i)
             /\ Ticks!SrcAt(i) = SrcAt(i)
  BY <1>1 DEF Ticks!RowAt, RowAt, Ticks!NAt, NAt, Ticks!DstAt, DstAt, Ticks!SrcAt, SrcAt
<1>3. \A S, at, w : Ticks!Argument(S, at, w) = Argument(S, at, w)
  BY DEF Ticks!Argument, Argument
<1>4. \A S, i : Ticks!Decoded(S, i) = Decoded(S, i)
  BY <1>1, <1>2, <1>3 DEF Ticks!Decoded, Decoded
<1>5. \A S, i, k, f : Ticks!WithStatus(S, i, k, f) = WithStatus(S, i, k, f)
  BY <1>2 DEF Ticks!WithStatus, WithStatus, Ticks!WithField, WithField, Ticks!Status, Status
<1>6. /\ \A S : Ticks!Rows(S) = [i \in Slots |-> Decoded(S, i)]
      /\ \A rows : Ticks!Active(rows) <=> Active(rows)
  BY <1>1, <1>4 DEF Ticks!Rows, Ticks!Active, Active
<1>7. /\ \A row : Ticks!InRange(row) <=> InRange(row)
      /\ \A row : Ticks!ChannelRange(row) <=> ChannelRange(row)
  BY <1>1 DEF Ticks!InRange, InRange, Ticks!ChannelRange, ChannelRange
<1>8. /\ \A S, row : Ticks!Copied(S, row) = Copied(S, row)
      /\ \A S, at, k : Ticks!BytesAt(S, at, k) = BytesAt(S, at, k)
      /\ \A S, at, bytes : Ticks!WithBytes(S, at, bytes) = WithBytes(S, at, bytes)
  BY DEF Ticks!Copied, Copied, Ticks!BytesAt, BytesAt, Ticks!WithBytes, WithBytes
<1> QED BY <1>1, <1>4, <1>5, <1>6, <1>7, <1>8

(* An instruction's turn.                                                  *)
LEMMA TurnIs ==
  ASSUME NEW S, NEW i \in Slots
  PROVE  LET row == Decoded(S, i)
         IN  /\ i \in {InSlot, OutSlot} => Turn(Start(S), i) = Start(S)
             /\ i \notin {InSlot, OutSlot} =>
                  /\ row.n = 0 => Turn(Start(S), i) = Start(S)
                  /\ row.n # 0 /\ InRange(row) => Turn(Start(S), i) = Start(Copied(S, row))
                  /\ row.n # 0 /\ ~InRange(row) =>
                       Turn(Start(S), i) = [space |-> S, failed |-> TRUE]
BY SameWords DEF Turn, Start, Ticks!Compute

(* An invalid instruction is the last.                                     *)
LEMMA FailedStays ==
  ASSUME NEW T, NEW S, NEW i \in 0 .. ProcessorN,
         After(T)[i] = [space |-> S, failed |-> TRUE]
  PROVE  Ticks!Computation(T) = S
<1>1. PICK n \in Nat : n = ProcessorN
  BY LayoutType
<1>2. PICK after : after = After(T)
  OBVIOUS
<1>3. PICK end : end = [space |-> S, failed |-> TRUE]
  OBVIOUS
<1>4. \A j \in Slots : Turn(end, j) = end
  BY <1>3 DEF Turn, Ticks!Compute
<1>5. \A j \in Slots : after[j + 1] = Turn(after[j], j)
  BY <1>2, AfterTurns
<1> DEFINE M == {m \in Nat : i + m <= n => after[i + m] = end}
<1>6. 0 \in M
  BY <1>1, <1>2, <1>3
<1>7. ASSUME NEW m \in Nat, m \in M
      PROVE  m + 1 \in M
  <2> SUFFICES ASSUME i + (m + 1) <= n PROVE after[i + (m + 1)] = end
    OBVIOUS
  <2>1. PICK j \in Slots : j = i + m
    BY <1>1 DEF Slots
  <2>2. after[j] = end /\ i + (m + 1) = j + 1
    BY <1>1, <1>7, <2>1
  <2> QED BY <1>4, <1>5, <2>2
<1> HIDE DEF M
<1>8. Nat \subseteq M
  BY <1>6, <1>7, Induction
<1>9. n - i \in Nat /\ i + (n - i) = n
  BY <1>1
<1>10. after[n] = end
  BY <1>8, <1>9 DEF M
<1> QED BY <1>1, <1>2, <1>3, <1>10, AfterTurns
-----------------------------------------------------------------------------
(* What a tick has done so far, from the space and the streams it began    *)
(* with: OUT has sent k bytes and left the space S; IN has taken g and      *)
(* left T; computation has come to a slot.                                 *)
RowsOf(S) == [i \in Slots |-> Decoded(S, i)]

Began(i) == Decoded(before.space, i)

OutDone(k, S) ==
  /\ k \in Nat /\ S \in SUBSET Positions
  /\ output = before.output \o BytesAt(before.space, Began(OutSlot).dst, k)
  /\ \/ Began(OutSlot).n = 0 /\ k = 0 /\ S = before.space
     \/ /\ Began(OutSlot).n # 0
        /\ S = WithStatus(before.space, OutSlot, k, 8 * k # Began(OutSlot).n)
        /\ IF ChannelRange(Began(OutSlot)) THEN k \in 0 .. (Began(OutSlot).n \div 8)
           ELSE k = 0

InDone(g, failed, S, T) ==
  /\ g \in Nat /\ failed \in BOOLEAN /\ T \in SUBSET Positions
  /\ taken = before.taken + g
  /\ \/ Began(InSlot).n = 0 /\ g = 0 /\ ~failed /\ T = S
     \/ /\ Began(InSlot).n # 0
        /\ T = WithStatus(WithBytes(S, Began(InSlot).dst,
                                    SubSeq(Input, before.taken + 1, before.taken + g)),
                          InSlot, g, failed)
        /\ IF ChannelRange(Began(InSlot))
           THEN /\ g \in 0 .. (Began(InSlot).n \div 8)
                /\ 8 * g = Began(InSlot).n => ~failed
           ELSE g = 0 /\ failed

ChannelsDone(k, S, g, failed, T) == OutDone(k, S) /\ InDone(g, failed, S, T)

TickInv ==
  /\ InTick => Active(RowsOf(before.space))
  /\ pc \in {"out", "in"} \/ (pc = "compute" /\ slot = 0) => processor = RowsOf(before.space)
  /\ pc = "out" => space = before.space /\ taken = before.taken /\ output = before.output
  /\ pc = "in" => taken = before.taken /\ \E k : OutDone(k, space)
  /\ pc = "compute" =>
       \E k, S, g, failed, T : ChannelsDone(k, S, g, failed, T) /\ After(T)[slot] = Start(space)

(* Outside a tick there is nothing to say.                                 *)
LEMMA NotInTick ==
  ASSUME ~InTick'
  PROVE  TickInv'
BY DEF TickInv, InTick

LEMMA TickStays ==
  ASSUME TickInv, UNCHANGED <<space, processor, pc, slot, taken, output, before>>
  PROVE  TickInv'
<1>1. \A k, S, g, failed, T :
        ChannelsDone(k, S, g, failed, T)' <=> ChannelsDone(k, S, g, failed, T)
  BY DEF ChannelsDone, OutDone, InDone, Began
<1>2. \A k, S : OutDone(k, S)' <=> OutDone(k, S)
  BY DEF OutDone, Began
<1>3. pc' = "compute" =>
        \E k, S, g, failed, T :
          ChannelsDone(k, S, g, failed, T)' /\ After(T)[slot'] = Start(space')
  BY <1>1 DEF TickInv
<1>4. pc' = "in" => taken' = before'.taken /\ \E k : OutDone(k, space')
  BY <1>2 DEF TickInv
<1>5. (\E k : OutDone(k, space')) => \E k : OutDone(k, space)'
  BY <1>2
<1>6. /\ InTick' => Active(RowsOf(before'.space))
      /\ pc' \in {"out", "in"} \/ (pc' = "compute" /\ slot' = 0)
           => processor' = RowsOf(before'.space)
      /\ pc' = "out" => /\ space' = before'.space /\ taken' = before'.taken
                        /\ output' = before'.output
  BY DEF TickInv, InTick
<1> QED BY <1>3, <1>4, <1>5, <1>6 DEF TickInv

LEMMA StartBegins ==
  ASSUME TypeOK, StartTick
  PROVE  TickInv'
<1>1. pc' # "out" => ~InTick'
  BY DEF StartTick, InTick
<1>2. CASE pc' = "out"
  <2>1. Active(ReadRows) /\ before' = Now /\ space' = space /\ taken' = taken /\ output' = output
    BY <1>2 DEF StartTick, streams
  <2>2. processor' = RowsOf(space) /\ RowsOf(space) = ReadRows
    BY DEF StartTick, ReadProcessor, ReadRows, RowsOf
  <2>3. /\ before'.space = space' /\ before'.taken = taken' /\ before'.output = output'
        /\ Active(RowsOf(before'.space)) /\ processor' = RowsOf(before'.space)
    BY <2>1, <2>2 DEF Now
  <2> QED BY <1>2, <2>3 DEF TickInv
<1> QED BY <1>1, <1>2, NotInTick

LEMMA NoText ==
  ASSUME NEW s \in Seq(Byte), NEW S, NEW at
  PROVE  s = s \o BytesAt(S, at, 0)
<1>1. BytesAt(S, at, 0) = <<>>
  <2>1. BytesAt(S, at, 0) \in Seq(Byte) /\ Len(BytesAt(S, at, 0)) = 0
    BY BytesAtType
  <2> QED BY <2>1, EmptySeq
<1> QED BY <1>1

LEMMA NoBytes ==
  ASSUME NEW S \in SUBSET Positions, NEW at \in Int
  PROVE  WithBytes(S, at, <<>>) = S
<1>1. \A p \in S : p \in Int
  BY LayoutType DEF Positions
<1>2. Len(<<>>) = 0
  OBVIOUS
<1> QED BY <1>1, <1>2 DEF WithBytes

(* What the rows of a space hold are numbers.                              *)
LEMMA RowsTyped ==
  ASSUME TypeOK, TickInv, pc \in {"out", "in"} \/ (pc = "compute" /\ slot = 0), NEW i \in Slots
  PROVE  processor[i] = Began(i) /\ Began(i) \in Row
<1>1. processor[i] = Began(i)
  BY DEF TickInv, RowsOf, Began
<1> QED BY <1>1 DEF TypeOK

LEMMA ChannelSlots == InSlot \in Slots /\ OutSlot \in Slots /\ 0 \in Slots
BY LayoutType DEF InSlot, OutSlot, Slots

LEMMA OutDoes ==
  ASSUME IInv, TickInv, OutChannel
  PROVE  TickInv'
<1> DEFINE row == Began(OutSlot)
<1>1. /\ pc = "out" /\ pc' = "in" /\ UNCHANGED <<processor, slot, taken, before>>
      /\ space = before.space /\ taken = before.taken /\ output = before.output
      /\ Active(RowsOf(before.space)) /\ processor = RowsOf(before.space)
  BY DEF OutChannel, TickInv, InTick
<1>2. processor[OutSlot] = row /\ row \in Row
  BY <1>1, ChannelSlots, RowsTyped DEF IInv
<1>3. space' \in SUBSET Positions /\ space \in SUBSET Positions /\ output \in Seq(Byte)
  BY OutPreserves DEF IInv, TypeOK
<1>4. \/ row.n = 0 /\ UNCHANGED <<space, output>>
      \/ /\ row.n # 0 /\ ~ChannelRange(row)
         /\ space' = WithStatus(space, OutSlot, 0, TRUE)
         /\ UNCHANGED output
      \/ /\ row.n # 0 /\ ChannelRange(row)
         /\ \E k \in 0 .. (row.n \div 8) : Written(row, k)
  BY <1>2 DEF OutChannel
<1>5. output = before.output \o BytesAt(before.space, row.dst, 0)
  BY <1>1, <1>3, NoText
<1>6. PICK next : next = space'
  OBVIOUS
<1>7. row' = row
  BY <1>1 DEF Began
<1> HIDE DEF row
<1>8. CASE row.n = 0 /\ UNCHANGED <<space, output>>
  <2>1. OutDone(0, next)'
    BY <1>1, <1>3, <1>5, <1>6, <1>8, <1>7 DEF OutDone, row
  <2> QED BY <1>1, <1>6, <2>1 DEF TickInv, InTick
<1>9. CASE /\ row.n # 0 /\ ~ChannelRange(row)
           /\ space' = WithStatus(space, OutSlot, 0, TRUE)
           /\ UNCHANGED output
  <2>1. (8 * 0 # row.n) = TRUE
    BY <1>9
  <2>2. space' = WithStatus(before.space, OutSlot, 0, 8 * 0 # row.n)
    BY <1>1, <1>9, <2>1
  <2>3. OutDone(0, next)'
    BY <1>1, <1>3, <1>5, <1>6, <1>9, <1>7, <2>2 DEF OutDone, row
  <2> QED BY <1>1, <1>6, <2>3 DEF TickInv, InTick
<1>10. CASE /\ row.n # 0 /\ ChannelRange(row)
           /\ \E k \in 0 .. (row.n \div 8) : Written(row, k)
  <2>1. PICK k \in 0 .. (row.n \div 8) : Written(row, k)
    BY <1>10
  <2>2. k \in Nat
    BY <2>1
  <2>3. /\ output' = before.output \o BytesAt(before.space, row.dst, k)
        /\ space' = WithStatus(before.space, OutSlot, k, 8 * k # row.n)
    BY <1>1, <2>1 DEF Written
  <2>4. OutDone(k, next)'
    BY <1>1, <1>3, <1>6, <1>10, <1>7, <2>1, <2>2, <2>3 DEF OutDone, row
  <2> QED BY <1>1, <1>6, <2>4 DEF TickInv, InTick
<1> QED BY <1>4, <1>8, <1>9, <1>10

LEMMA InDoes ==
  ASSUME IInv, TickInv, InChannel
  PROVE  TickInv'
<1> DEFINE row == Began(InSlot)
           wanted == row.n \div 8
<1>1. /\ pc = "in" /\ pc' = "compute" /\ slot' = 0
      /\ UNCHANGED <<processor, output, before>>
      /\ taken = before.taken
      /\ Active(RowsOf(before.space)) /\ processor = RowsOf(before.space)
  BY DEF InChannel, TickInv, InTick
<1>2. processor[InSlot] = row /\ row \in Row
  BY <1>1, ChannelSlots, RowsTyped DEF IInv
<1>3. PICK now, next : now = space /\ next = space'
  OBVIOUS
<1>4. now \in SUBSET Positions /\ next \in SUBSET Positions /\ taken \in Nat /\ arrived \in Nat
  BY <1>3, InPreserves, RunAssumption DEF IInv, TypeOK
<1>5. PICK k : OutDone(k, now)
  BY <1>1, <1>3 DEF TickInv
<1>6. OutDone(k, now)' /\ row' = row
  BY <1>1, <1>5 DEF OutDone, Began
<1>7. After(next)[0] = Start(next)
  BY AfterTurns
<1>8. ASSUME NEW g \in Nat, NEW failed \in BOOLEAN, InDone(g, failed, now, next)'
      PROVE  TickInv'
  <2>1. ChannelsDone(k, now, g, failed, next)'
    BY <1>6, <1>8 DEF ChannelsDone
  <2>2. After(next)[slot'] = Start(space')
    BY <1>1, <1>3, <1>7
  <2> QED BY <1>1, <2>1, <2>2 DEF TickInv, InTick
<1>9. ASSUME NEW g \in Nat, NEW failed \in BOOLEAN, row.n # 0, ChannelRange(row),
             g \in 0 .. wanted, 8 * g = row.n => ~failed, Received(row, g, failed)
      PROVE  TickInv'
  <2>1. /\ taken' = before'.taken + g
        /\ next = WithStatus(WithBytes(now, row.dst,
                               SubSeq(Input, before'.taken + 1, before'.taken + g)),
                             InSlot, g, failed)
    BY <1>1, <1>3, <1>9 DEF Received
  <2>2. InDone(g, failed, now, next)'
    BY <1>4, <1>6, <1>9, <2>1 DEF InDone
  <2> QED BY <1>8, <2>2
<1>10. CASE row.n = 0 /\ UNCHANGED <<space, taken>>
  <2>1. InDone(0, FALSE, now, next)'
    BY <1>1, <1>3, <1>4, <1>6, <1>10 DEF InDone
  <2> QED BY <1>8, <2>1
<1>11. CASE /\ row.n # 0 /\ ~ChannelRange(row)
            /\ space' = WithStatus(space, InSlot, 0, TRUE)
            /\ UNCHANGED taken
  <2>1. PICK t, bytes : t \in Nat /\ t = before.taken /\ bytes = SubSeq(Input, t + 1, t + 0)
    BY <1>1, <1>4
  <2>2. bytes = <<>>
    BY <2>1, RunAssumption
  <2>3. WithBytes(now, row.dst, bytes) = now
    <3>1. row.dst \in Int
      BY <1>2 DEF Row
    <3> QED BY <1>4, <2>2, <3>1, NoBytes
  <2>4. before' = before /\ taken' = t /\ t = t + 0
    BY <1>1, <1>11, <2>1
  <2>5. next = WithStatus(now, InSlot, 0, TRUE)
    BY <1>3, <1>11
  <2>6. InDone(0, TRUE, now, next)'
    <3>1. taken' = before'.taken + 0
      BY <2>1, <2>4
    <3>2. next = WithStatus(WithBytes(now, row.dst,
                              SubSeq(Input, before'.taken + 1, before'.taken + 0)),
                            InSlot, 0, TRUE)
      BY <2>1, <2>3, <2>4, <2>5
    <3> QED BY <1>4, <1>6, <1>11, <3>1, <3>2 DEF InDone
  <2> QED BY <1>8, <2>6
<1>12. wanted \in Nat /\ (ChannelRange(row) => 8 * wanted = row.n)
  BY <1>2 DEF Row, ChannelRange
<1>13. CASE /\ row.n # 0 /\ ChannelRange(row)
            /\ \/ arrived - taken >= wanted /\ Received(row, wanted, FALSE)
               \/ arrived - taken < wanted /\ Received(row, arrived - taken, FALSE)
               \/ \E g \in 0 .. (wanted - 1) :
                    g <= arrived - taken /\ Received(row, g, TRUE)
  <2> HIDE DEF wanted
  <2>1. CASE Received(row, wanted, FALSE)
    <3>1. wanted \in 0 .. wanted
      BY <1>12
    <3> QED BY <1>9, <1>12, <1>13, <2>1, <3>1
  <2>2. CASE arrived - taken < wanted /\ Received(row, arrived - taken, FALSE)
    <3>1. arrived - taken \in Nat /\ arrived - taken \in 0 .. wanted
      <4>1. taken <= arrived
        BY DEF IInv, TypeOK
      <4> QED BY <1>4, <1>12, <2>2, <4>1
    <3> QED BY <1>9, <1>13, <2>2, <3>1
  <2>3. CASE \E g \in 0 .. (wanted - 1) : g <= arrived - taken /\ Received(row, g, TRUE)
    <3>1. PICK g \in 0 .. (wanted - 1) : Received(row, g, TRUE)
      BY <2>3
    <3>2. g \in Nat /\ g \in 0 .. wanted /\ 8 * g # row.n
      BY <1>12, <1>13, <3>1
    <3> QED BY <1>9, <1>13, <3>1, <3>2
  <2> QED BY <1>13, <2>1, <2>2, <2>3
<1>14. \/ row.n = 0 /\ UNCHANGED <<space, taken>>
       \/ /\ row.n # 0 /\ ~ChannelRange(row)
          /\ space' = WithStatus(space, InSlot, 0, TRUE)
          /\ UNCHANGED taken
       \/ /\ row.n # 0 /\ ChannelRange(row)
          /\ \/ arrived - taken >= wanted /\ Received(row, wanted, FALSE)
             \/ arrived - taken < wanted /\ Received(row, arrived - taken, FALSE)
             \/ \E g \in 0 .. (wanted - 1) :
                  g <= arrived - taken /\ Received(row, g, TRUE)
  BY <1>2 DEF InChannel
<1> QED BY <1>10, <1>11, <1>13, <1>14

LEMMA SlotsInt == Slots \subseteq Nat
BY LayoutType DEF Slots

(* A turn goes by and the tick goes on.                                    *)
LEMMA TurnDoes ==
  ASSUME TickInv, pc = "compute", pc' = "compute", slot \in Slots, slot' = slot + 1,
         UNCHANGED <<taken, output, before>>, Turn(Start(space), slot) = Start(space')
  PROVE  TickInv'
<1>1. PICK k, S, g, failed, T :
        ChannelsDone(k, S, g, failed, T) /\ After(T)[slot] = Start(space)
  BY DEF TickInv
<1>2. ChannelsDone(k, S, g, failed, T)'
  BY <1>1 DEF ChannelsDone, OutDone, InDone, Began
<1>3. After(T)[slot'] = Start(space')
  BY <1>1, AfterTurns
<1>4. slot' # 0
  BY SlotsInt
<1> QED BY <1>2, <1>3, <1>4 DEF TickInv, InTick

LEMMA ComputeDoes ==
  ASSUME IInv, TickInv, SkipChannel \/ Nothing \/ Copy
  PROVE  TickInv'
<1>1. CASE SkipChannel
  <2>1. slot \in {InSlot, OutSlot} /\ slot \in Slots
    BY <1>1, ChannelSlots DEF SkipChannel
  <2>2. Turn(Start(space), slot) = Start(space)
    BY <2>1, TurnIs
  <2> QED BY <1>1, <2>1, <2>2, TurnDoes DEF SkipChannel, streams
<1>2. CASE Nothing \/ Copy
  <2>1. Fetch /\ UNCHANGED <<pc, taken, output, before>> /\ slot' = slot + 1
    BY <1>2 DEF Nothing, Copy, streams
  <2>2. pc = "compute" /\ slot \in Slots /\ slot \notin {InSlot, OutSlot}
    BY <2>1, LayoutType DEF Fetch, IInv, TypeOK, Slots
  <2>3. PICK row \in Row : row = Decoded(space, slot) /\ processor'[slot] = row
    BY <2>1, <2>2 DEF Fetch, IInv, TypeOK
  <2>4. Turn(Start(space), slot) = Start(space')
    <3>1. CASE Nothing
      BY <2>2, <2>3, <3>1, TurnIs DEF Nothing
    <3>2. CASE Copy
      BY <2>2, <2>3, <3>2, TurnIs DEF Copy
    <3> QED BY <1>2, <3>1, <3>2
  <2> QED BY <2>1, <2>2, <2>4, TurnDoes
<1> QED BY <1>1, <1>2

-----------------------------------------------------------------------------
(* What the tick of SpaceTick says, of given values.                       *)
TickOf(s, t, w, next, nextT, nextW) ==
  \E rows \in {Ticks!Rows(s)} :
    /\ Ticks!Active(rows)
    /\ \E o \in Ticks!Results(rows[Ticks!OutSlot]), r \in Ticks!Results(rows[Ticks!InSlot]) :
         /\ t + r.k <= Len(Input)
         /\ nextT = t + r.k
         /\ o.failed = (8 * o.k # rows[Ticks!OutSlot].n)
         /\ 8 * r.k = rows[Ticks!InSlot].n => ~r.failed
         /\ nextW = w \o Ticks!BytesAt(s, rows[Ticks!OutSlot].dst, o.k)
         /\ \E S \in {Ticks!In(Ticks!Out(s, rows[Ticks!OutSlot], o), rows[Ticks!InSlot], r,
                               SubSeq(Input, t + 1, t + r.k))} :
              next = Ticks!Computation(S)

LEMMA TickOfTick ==
  ASSUME InTick, ~InTick',
         TickOf(before.space, before.taken, before.output, space', taken', output')
  PROVE  Ticks!Tick
BY DEF Ticks!Tick, TickOf

LEMMA ResultsAre ==
  ASSUME NEW row, NEW k, NEW failed \in BOOLEAN
  PROVE  [k |-> k, failed |-> failed] \in Ticks!Results(row) <=>
           IF row.n = 0 THEN k = 0 /\ ~failed
           ELSE IF ChannelRange(row) THEN k \in 0 .. (row.n \div 8)
           ELSE k = 0 /\ failed
BY SameWords DEF Ticks!Results

LEMMA TickIsTick ==
  ASSUME IInv, TickInv, pc = "compute", ~InTick', UNCHANGED <<taken, output>>,
         NEW k, NEW S, NEW g, NEW failed, NEW T, ChannelsDone(k, S, g, failed, T),
         space' = Ticks!Computation(T)
  PROVE  Ticks!Tick
<1>1. PICK rows : rows = RowsOf(before.space)
  OBVIOUS
<1>2. PICK out, in : out = rows[OutSlot] /\ in = rows[InSlot]
  OBVIOUS
<1>3. out = Began(OutSlot) /\ in = Began(InSlot)
  BY <1>1, <1>2, ChannelSlots DEF RowsOf, Began
<1>4. PICK bad \in BOOLEAN : bad <=> 8 * k # out.n
  OBVIOUS
<1>5. PICK o, r : o = [k |-> k, failed |-> bad] /\ r = [k |-> g, failed |-> failed]
  OBVIOUS
<1>6. OutDone(k, S) /\ InDone(g, failed, S, T)
  BY DEF ChannelsDone
<1>7. o.k = k /\ r.k = g /\ o.failed = bad /\ r.failed = failed
  BY <1>5
<1>8. o \in Ticks!Results(out)
  BY <1>3, <1>4, <1>5, <1>6, ResultsAre DEF OutDone
<1>9. r \in Ticks!Results(in)
  BY <1>3, <1>5, <1>6, ResultsAre DEF InDone
<1>10. S = Ticks!Out(before.space, out, o)
  <2>1. out.n # 0 => S = WithStatus(before.space, OutSlot, k, bad)
    <3>1. bad = (8 * k # out.n)
      BY <1>4
    <3> QED BY <1>3, <1>6, <3>1 DEF OutDone
  <2>2. out.n = 0 => S = before.space
    BY <1>3, <1>6 DEF OutDone
  <2> QED BY <1>7, <2>1, <2>2, SameWords DEF Ticks!Out
<1>11. PICK bytes : bytes = SubSeq(Input, before.taken + 1, before.taken + g)
  OBVIOUS
<1>12. T = Ticks!In(S, in, r, bytes)
  <2>1. in.n # 0 => T = WithStatus(WithBytes(S, in.dst, bytes), InSlot, g, failed)
    BY <1>3, <1>6, <1>11 DEF InDone
  <2>2. in.n = 0 => T = S
    BY <1>3, <1>6 DEF InDone
  <2> QED BY <1>7, <2>1, <2>2, SameWords DEF Ticks!In
<1>13. /\ taken' = before.taken + g /\ before.taken + g <= Len(Input)
       /\ output' = before.output \o BytesAt(before.space, out.dst, k)
  <2>1. taken <= Len(Input)
    BY RunAssumption DEF IInv, TypeOK
  <2> QED BY <1>3, <1>6, <2>1 DEF OutDone, InDone
<1>14. 8 * g = in.n => ~failed
  BY <1>3, <1>6 DEF InDone
<1>15. Active(rows) /\ rows = Ticks!Rows(before.space)
  BY <1>1, SameWords DEF TickInv, InTick, RowsOf
<1>16. o.failed = (8 * o.k # out.n)
  BY <1>4, <1>7
<1>17. TickOf(before.space, before.taken, before.output, space', taken', output')
  <2>1. rows \in {Ticks!Rows(before.space)} /\ Ticks!Active(rows)
    BY <1>15, SameWords
  <2>2. rows[Ticks!OutSlot] = out /\ rows[Ticks!InSlot] = in
    BY <1>2, SameWords
  <2>3. /\ before.taken + r.k <= Len(Input) /\ taken' = before.taken + r.k
        /\ 8 * r.k = in.n => ~r.failed
        /\ output' = before.output \o Ticks!BytesAt(before.space, out.dst, o.k)
    BY <1>7, <1>13, <1>14, SameWords
  <2>4. T \in {Ticks!In(Ticks!Out(before.space, out, o), in, r,
                       SubSeq(Input, before.taken + 1, before.taken + r.k))}
    BY <1>7, <1>10, <1>11, <1>12
  <2> QED BY <1>8, <1>9, <1>16, <2>1, <2>2, <2>3, <2>4 DEF TickOf
<1> QED BY <1>17, TickOfTick DEF InTick

LEMMA EndIsTick ==
  ASSUME IInv, TickInv, EndTick
  PROVE  Ticks!Tick
<1>1. /\ pc = "compute" /\ slot = ProcessorN /\ UNCHANGED <<space, taken, output>>
      /\ ~InTick'
  BY DEF EndTick, streams, InTick
<1>2. PICK k, S, g, failed, T :
        ChannelsDone(k, S, g, failed, T) /\ After(T)[slot] = Start(space)
  BY <1>1 DEF TickInv
<1>3. Ticks!Computation(T) = space
  <2>1. Start(space).space = space /\ After(T)[ProcessorN] = Start(space)
    BY <1>1, <1>2 DEF Start
  <2>2. Ticks!Computation(T) = After(T)[ProcessorN].space
    BY AfterTurns
  <2> QED BY <2>1, <2>2
<1> QED BY <1>1, <1>2, <1>3, TickIsTick

LEMMA FaultIsTick ==
  ASSUME IInv, TickInv, Fault
  PROVE  Ticks!Tick
<1>1. /\ pc = "compute" /\ UNCHANGED <<space, taken, output>> /\ ~InTick' /\ Fetch
  BY DEF Fault, streams, InTick, Fetch
<1>2. PICK k, S, g, failed, T :
        ChannelsDone(k, S, g, failed, T) /\ After(T)[slot] = Start(space)
  BY <1>1 DEF TickInv
<1>3. slot \in Slots /\ slot \notin {InSlot, OutSlot}
  BY <1>1, LayoutType DEF Fetch, IInv, TypeOK, Slots
<1>4. PICK row \in Row : row = Decoded(space, slot) /\ processor'[slot] = row
  BY <1>1, <1>3 DEF Fetch, IInv, TypeOK
<1>5. Turn(Start(space), slot) = [space |-> space, failed |-> TRUE]
  BY <1>3, <1>4, TurnIs DEF Fault
<1>6. After(T)[slot + 1] = [space |-> space, failed |-> TRUE]
  BY <1>2, <1>3, <1>5, AfterTurns
<1>7. slot + 1 \in 0 .. ProcessorN
  BY <1>3, LayoutType DEF Slots
<1>8. Ticks!Computation(T) = space
  BY <1>6, <1>7, FailedStays
<1> QED BY <1>1, <1>2, <1>8, TickIsTick

(* Within a tick, and between ticks, nothing is seen to move.              *)
LEMMA Unseen ==
  ASSUME \/ InTick /\ InTick' /\ before' = before
         \/ ~InTick /\ ~InTick' /\ UNCHANGED <<space, taken, output>>
         \/ ~InTick /\ InTick' /\ before' = Now
  PROVE  UNCHANGED Ticks!tickVars
BY DEF Ticks!tickVars, Now

LEMMA InitIsInit == Init => Ticks!Init
BY DEF Init, Ticks!Init, InTick

LEMMA StepIsTick ==
  ASSUME IInv, TickInv, [Next]_vars
  PROVE  TickInv' /\ [Ticks!Next]_(Ticks!tickVars)
<1>1. CASE Load
  <2>1. ~InTick /\ ~InTick' /\ UNCHANGED <<taken, output>>
    BY <1>1 DEF Load, InTick, streams
  <2>2. space' = space \/ \E f \in Files : space' = f.ones
    BY <1>1 DEF Load
  <2>3. CASE space' = space
    BY <2>1, <2>3, Unseen, NotInTick
  <2>4. CASE \E f \in Files : space' = f.ones
    <3>1. Ticks!Reset
      BY <2>1, <2>4 DEF Ticks!Reset
    <3> QED BY <2>1, <3>1, NotInTick DEF Ticks!Next
  <2> QED BY <2>2, <2>3, <2>4
<1>2. CASE Call \/ AtLimit \/ Return
  <2>1. ~InTick /\ ~InTick' /\ UNCHANGED <<space, taken, output>>
    BY <1>2 DEF Call, AtLimit, Return, InTick, streams
  <2> QED BY <2>1, Unseen, NotInTick
<1>3. CASE StartTick
  <2>1. ~InTick /\ before' = Now /\ UNCHANGED <<space, taken, output>>
    BY <1>3 DEF StartTick, InTick, streams
  <2> QED BY <1>3, <2>1, Unseen, StartBegins DEF IInv
<1>4. CASE OutChannel \/ InChannel \/ SkipChannel \/ Nothing \/ Copy
  <2>1. InTick /\ InTick' /\ before' = before
    BY <1>4 DEF OutChannel, InChannel, SkipChannel, Nothing, Copy, Fetch, InTick
  <2> QED BY <1>4, <2>1, Unseen, OutDoes, InDoes, ComputeDoes
<1>5. CASE EndTick \/ Fault
  <2>1. ~InTick'
    BY <1>5 DEF EndTick, Fault, InTick
  <2> QED BY <1>5, <2>1, EndIsTick, FaultIsTick, NotInTick DEF Ticks!Next
<1>6. CASE Arrive \/ UNCHANGED vars
  <2>1. UNCHANGED <<space, processor, pc, slot, taken, output, before>>
    BY <1>6 DEF Arrive, machine, vars
  <2>2. UNCHANGED Ticks!tickVars
    BY <2>1 DEF Ticks!tickVars, InTick
  <2> QED BY <2>1, <2>2, TickStays
<1> QED BY <1>1, <1>2, <1>3, <1>4, <1>5, <1>6 DEF Next, Machine

LEMMA InitTickInv == Init => TickInv
BY DEF Init, TickInv, InTick

(* The loops of space_step and space_run do nothing but whole ticks of the *)
(* space, as doc/space_emulator.md describes them: whatever `processor'    *)
(* keeps between reads, however a run is divided into calls, wherever an   *)
(* invalid instruction ends it, for every configuration and image.         *)
THEOREM MachineImplementsTicks == Spec => ImplementsTicks
<1>1. IInv /\ TickInv /\ [Next]_vars => TickInv' /\ [Ticks!Next]_(Ticks!tickVars)
  BY StepIsTick
<1> QED BY <1>1, Inductive, InitTickInv, InitIsInit, PTL DEF Spec, ImplementsTicks, Ticks!Spec
-----------------------------------------------------------------------------
(* Powers of 2, as numbers of subsets.                                     *)
LEMMA PowerCounts ==
  ASSUME NEW n \in Nat
  PROVE  IsFiniteSet(SUBSET (1 .. n)) /\ 2 ^ n = Cardinality(SUBSET (1 .. n))
<1>1. IsFiniteSet(1 .. n) /\ Cardinality(1 .. n) = n
  BY FS_Interval
<1> QED BY <1>1, FS_SUBSET

LEMMA PowerStep ==
  ASSUME NEW n \in Nat
  PROVE  2 ^ n \in Nat /\ 2 ^ (n + 1) = 2 * 2 ^ n
<1> DEFINE A == SUBSET (1 .. n)
           B == {s \in SUBSET (1 .. (n + 1)) : n + 1 \in s}
           f == [s \in A |-> s \cup {n + 1}]
<1>1. IsFiniteSet(A) /\ 2 ^ n = Cardinality(A)
  BY PowerCounts
<1>2. 2 ^ (n + 1) = Cardinality(SUBSET (1 .. (n + 1)))
  <2>1. PICK m \in Nat : m = n + 1
    OBVIOUS
  <2>2. 2 ^ m = Cardinality(SUBSET (1 .. m))
    BY PowerCounts
  <2> QED BY <2>1, <2>2, Zenon
<1>3. 1 .. (n + 1) = (1 .. n) \cup {n + 1} /\ n + 1 \notin 1 .. n
  OBVIOUS
<1>4. SUBSET (1 .. (n + 1)) = A \cup B /\ A \cap B = {}
  BY <1>3
<1>5. f \in Bijection(A, B)
  <2>1. \A s \in A : s \cup {n + 1} \in B
    BY <1>3
  <2>2. f \in [A -> B]
    BY <2>1
  <2>3. \A s, t \in A : f[s] = f[t] => s = t
    <3> SUFFICES ASSUME NEW s \in A, NEW t \in A, s \cup {n + 1} = t \cup {n + 1}
                 PROVE  s = t
      OBVIOUS
    <3>1. n + 1 \notin s /\ n + 1 \notin t
      BY <1>3
    <3> QED BY <3>1
  <2>4. \A t \in B : \E s \in A : f[s] = t
    <3> TAKE t \in B
    <3>1. t \ {n + 1} \in A
      BY <1>3
    <3>2. f[t \ {n + 1}] = t
      BY <3>1
    <3> QED BY <3>1, <3>2
  <2> HIDE DEF A, B, f
  <2>5. f \in Injection(A, B)
    BY <2>2, <2>3 DEF Injection, IsInjective
  <2>6. f \in Surjection(A, B)
    BY <2>2, <2>4 DEF Surjection
  <2> QED BY <2>5, <2>6 DEF Bijection
<1> HIDE DEF A, B, f
<1>6. ExistsBijection(A, B)
  BY <1>5 DEF ExistsBijection
<1>7. IsFiniteSet(B) /\ Cardinality(B) = Cardinality(A)
  BY <1>1, <1>6, FS_Bijection
<1>8. Cardinality(A) \in Nat /\ Cardinality({}) = 0
  BY <1>1, FS_CardinalityType, FS_EmptySet
<1>9. Cardinality(A \cup B) = Cardinality(A) + Cardinality(B) - Cardinality({})
  BY <1>1, <1>4, <1>7, FS_Union
<1>10. PICK x, y : x = 2 ^ n /\ y = 2 ^ (n + 1)
  OBVIOUS
<1>11. x = Cardinality(A) /\ y = Cardinality(A) + Cardinality(A) - 0
  <2>1. y = Cardinality(A \cup B)
    BY <1>2, <1>4, <1>10, Zenon
  <2> QED BY <1>1, <1>7, <1>8, <1>9, <1>10, <2>1, Zenon
<1>12. x \in Nat /\ y = 2 * x
  BY <1>8, <1>11
<1> QED BY <1>10, <1>12, Zenon

LEMMA PowerPositive ==
  ASSUME NEW n \in Nat
  PROVE  2 ^ n \in Nat \ {0}
<1> DEFINE M == {m \in Nat : 2 ^ m # 0}
<1>1. 0 \in M
  <2>1. 2 ^ 0 = 1
    OBVIOUS
  <2> QED BY <2>1
<1>2. ASSUME NEW m \in Nat, m \in M
      PROVE  m + 1 \in M
  BY <1>2, PowerStep
<1> HIDE DEF M
<1>3. n \in M
  BY <1>1, <1>2, Induction
<1> QED BY <1>3, PowerStep DEF M

(* Halves, and quotients by a number and by its double.                    *)
LEMMA QuotientIs ==
  ASSUME NEW v \in Nat, NEW m \in Nat \ {0}, NEW q \in Nat, NEW r \in Nat,
         v = m * q + r, r < m
  PROVE  v \div m = q
OBVIOUS

LEMMA QuotientExists ==
  ASSUME NEW v \in Nat, NEW m \in Nat \ {0}
  PROVE  /\ v \div m \in Nat
         /\ \E r \in Nat : v = m * (v \div m) + r /\ r < m
<1>1. v \div m \in Nat /\ v % m \in Nat /\ v % m < m /\ v = m * (v \div m) + (v % m)
  OBVIOUS
<1> QED BY <1>1

LEMMA Halved ==
  ASSUME NEW v \in Nat, NEW m \in Nat \ {0}
  PROVE  v \div (2 * m) = (v \div m) \div 2
<1>1. PICK x \in Nat, r \in Nat : x = v \div m /\ v = m * x + r /\ r < m
  BY QuotientExists
<1>2. PICK q \in Nat, b \in {0, 1} : q = x \div 2 /\ x = 2 * q + b
  OBVIOUS
<1>3. v = (2 * m) * q + (m * b + r)
  <2>1. PICK z \in Nat : z = m * q
    OBVIOUS
  <2>2. m * (2 * q + b) = 2 * z + m * b /\ (2 * m) * q = 2 * z
    BY <2>1
  <2>3. PICK y \in Nat : y = m * b
    BY <1>2
  <2>4. m * x = 2 * z + y
    BY <1>2, <2>2, <2>3
  <2> QED BY <1>1, <2>2, <2>3, <2>4
<1>4. m * b + r \in Nat /\ m * b + r < 2 * m
  BY <1>1, <1>2
<1>5. 2 * m \in Nat \ {0}
  OBVIOUS
<1>6. PICK m2, r2 : m2 = 2 * m /\ r2 = m * b + r
  OBVIOUS
<1>7. v \div m2 = q
  BY <1>3, <1>4, <1>5, <1>6, QuotientIs
<1> QED BY <1>1, <1>2, <1>6, <1>7

(* Reading a field of w bits from its top, bit by bit: its n highest.      *)
TopBits(top, S, at, w, n) ==
  top = [k \in 0 .. n |-> IF k = 0 THEN 0
                          ELSE 2 * top[k - 1] + (IF at + w - k \in S THEN 1 ELSE 0)]

LEMMA TopBitsExist ==
  ASSUME NEW S, NEW at, NEW w, NEW n \in Nat
  PROVE  \E top : TopBits(top, S, at, w, n)
<1> DEFINE T == {m \in Nat : \E top : TopBits(top, S, at, w, m)}
<1>1. 0 \in T
  <2>1. TopBits([k \in 0 .. 0 |-> 0], S, at, w, 0)
    BY DEF TopBits
  <2> QED BY <2>1
<1>2. ASSUME NEW m \in Nat, m \in T
      PROVE  m + 1 \in T
  <2>1. PICK top : TopBits(top, S, at, w, m)
    BY <1>2
  <2> DEFINE more(k) == 2 * top[k - 1] + (IF at + w - k \in S THEN 1 ELSE 0)
             next == [k \in 0 .. (m + 1) |-> IF k = m + 1 THEN more(k) ELSE top[k]]
  <2>2. \A k \in 0 .. (m + 1) :
          next[k] = IF k = 0 THEN 0
                    ELSE 2 * next[k - 1] + (IF at + w - k \in S THEN 1 ELSE 0)
    <3> TAKE k \in 0 .. (m + 1)
    <3>1. CASE k = m + 1
      <4>1. k - 1 \in 0 .. (m + 1) /\ k - 1 # m + 1 /\ k # 0
        BY <3>1
      <4>2. next[k - 1] = top[k - 1] /\ next[k] = more(k)
        BY <3>1, <4>1
      <4> HIDE DEF next
      <4> QED BY <4>1, <4>2
    <3>2. CASE k # m + 1 /\ k # 0
      <4>1. k \in 0 .. m /\ k - 1 \in 0 .. (m + 1) /\ k - 1 # m + 1
        BY <3>2
      <4>2. next[k] = top[k] /\ next[k - 1] = top[k - 1]
        BY <3>2, <4>1
      <4>3. top[k] = more(k)
        BY <2>1, <3>2, <4>1 DEF TopBits
      <4> HIDE DEF next
      <4> QED BY <3>2, <4>2, <4>3
    <3>3. CASE k = 0
      BY <2>1, <3>3 DEF TopBits
    <3> QED BY <3>1, <3>2, <3>3
  <2>3. TopBits(next, S, at, w, m + 1)
    BY <2>2 DEF TopBits
  <2> QED BY <2>3
<1> HIDE DEF T
<1>3. Nat \subseteq T
  BY <1>1, <1>2, Induction
<1> QED BY <1>3 DEF T

(* A field whose bits are those of a number v below 2 ^ w holds v.         *)
LEMMA ArgumentIs ==
  ASSUME NEW S, NEW at \in Nat, NEW w \in Nat, NEW v \in Nat, v < 2 ^ w,
         \A b \in 0 .. (w - 1) : at + b \in S <=> (v \div 2 ^ b) % 2 = 1
  PROVE  Argument(S, at, w) = v
<1> DEFINE top == CHOOSE f : TopBits(f, S, at, w, w)
<1>1. TopBits(top, S, at, w, w)
  BY TopBitsExist
<1>2. Argument(S, at, w) = top[w]
  BY DEF Argument, TopBits
<1> DEFINE M == {k \in Nat : k <= w => top[k] = v \div 2 ^ (w - k)}
<1> HIDE DEF top
<1>3. 0 \in M
  <2>1. PICK m : m = 2 ^ w
    OBVIOUS
  <2>2. m \in Nat \ {0} /\ v < m
    BY <2>1, PowerPositive
  <2>3. v = m * 0 + v
    BY <2>2
  <2>4. v \div m = 0
    BY <2>2, <2>3, QuotientIs
  <2>5. top[0] = 0
    BY <1>1 DEF TopBits
  <2>6. w - 0 = w
    OBVIOUS
  <2> QED BY <2>1, <2>4, <2>5, <2>6
<1>4. ASSUME NEW k \in Nat, k \in M
      PROVE  k + 1 \in M
  <2> SUFFICES ASSUME k + 1 <= w PROVE top[k + 1] = v \div 2 ^ (w - (k + 1))
    OBVIOUS
  <2>1. PICK b \in Nat : b = w - (k + 1)
    OBVIOUS
  <2>2. PICK m : m = 2 ^ b
    OBVIOUS
  <2>3. m \in Nat \ {0} /\ 2 ^ (b + 1) = 2 * m
    BY <2>2, PowerPositive, PowerStep
  <2>4. w - k = b + 1 /\ at + w - (k + 1) = at + b /\ b \in 0 .. (w - 1)
    BY <2>1
  <2>5. top[k] = v \div (2 * m)
    BY <1>4, <2>3, <2>4
  <2>6. PICK x \in Nat : x = v \div m
    BY <2>3, QuotientExists
  <2>7. top[k] = x \div 2
    BY <2>3, <2>5, <2>6, Halved
  <2>8. at + b \in S <=> x % 2 = 1
    BY <2>2, <2>4, <2>6
  <2>9. top[k + 1] = 2 * top[k] + (IF at + b \in S THEN 1 ELSE 0)
    <3>1. PICK j \in 0 .. w : j = k + 1
      OBVIOUS
    <3>2. j # 0 /\ j - 1 = k /\ at + w - j = at + b
      BY <2>4, <3>1
    <3>3. top[j] = 2 * top[j - 1] + (IF at + w - j \in S THEN 1 ELSE 0)
      BY <1>1, <3>2 DEF TopBits
    <3> QED BY <3>1, <3>2, <3>3
  <2>10. top[k + 1] = x
    BY <2>7, <2>8, <2>9
  <2> QED BY <2>1, <2>2, <2>6, <2>10
<1> HIDE DEF M
<1>5. w \in M
  BY <1>3, <1>4, Induction
<1>6. top[w] = v \div 2 ^ (w - w)
  BY <1>5 DEF M
<1>7. w - w = 0 /\ 2 ^ 0 = 1
  OBVIOUS
<1>8. v \div 1 = v
  OBVIOUS
<1> QED BY <1>2, <1>6, <1>7, <1>8
-----------------------------------------------------------------------------
(* What channels leave in the space.                                       *)
LEMMA FieldElsewhere ==
  ASSUME NEW S, NEW at \in Int, NEW w \in Int, NEW v, NEW p \in Int,
         p < at \/ p >= at + w
  PROVE  p \in WithField(S, at, w, v) <=> p \in S
BY DEF WithField

LEMMA BytesElsewhere ==
  ASSUME NEW S, NEW at \in Int, NEW bytes \in Seq(Byte), NEW p \in Int,
         p < at \/ p >= at + 8 * Len(bytes)
  PROVE  p \in WithBytes(S, at, bytes) <=> p \in S
<1>1. PICK n \in Nat : n = Len(bytes)
  BY LenProperties
<1> QED BY <1>1 DEF WithBytes

LEMMA BytesLand ==
  ASSUME NEW S, NEW at \in Nat, NEW bytes \in Seq(Byte), NEW j \in 1 .. Len(bytes),
         NEW b \in 0 .. 7
  PROVE  at + 8 * (j - 1) + b \in WithBytes(S, at, bytes) <=> b \in bytes[j]
<1>1. PICK n \in Nat : n = Len(bytes)
  BY LenProperties
<1>2. PICK p \in Int : p = at + 8 * (j - 1) + b
  BY <1>1
<1>3. p \in at .. (at + 8 * n - 1) /\ ~(p < at) /\ ~(p >= at + 8 * n)
  BY <1>1, <1>2
<1>4. (p - at) % 8 = b /\ (p - at) \div 8 + 1 = j
  BY <1>1, <1>2
<1> QED BY <1>1, <1>2, <1>3, <1>4 DEF WithBytes

(* A status reads back: its doubled count never outgrows the field.        *)
LEMMA StatusReads ==
  ASSUME NEW S, NEW i \in {InSlot, OutSlot}, NEW row \in Row, row.n # 0,
         NEW k \in Nat, NEW failed \in BOOLEAN,
         IF ChannelRange(row) THEN k \in 0 .. (row.n \div 8) ELSE k = 0,
         \A p \in SrcAt(i) .. (SrcAt(i) + AddressSize - 1) :
           p \in S <=> p \in WithStatus(before.space, i, k, failed)
  PROVE  Decoded(S, i).src = 2 * (8 * k) + (IF failed THEN 1 ELSE 0)
<1>1. PICK at \in Nat : at = SrcAt(i)
  BY ChannelRows
<1>2. PICK v : v = 2 * (8 * k) + (IF failed THEN 1 ELSE 0)
  OBVIOUS
<1>3. v \in Nat /\ v < SpaceSize
  <2>1. SpaceSize \in Nat /\ SpaceSize > 1
    <3>1. ProcessorBits \in Nat /\ ProcessorBits < SpaceSize /\ ProcessorBits > 0
      <4>1. \A a, b \in Nat : a >= 4 /\ b >= 1 => a * b >= 1
        OBVIOUS
      <4>2. InstructionSize >= 1
        BY ConfigAssumption DEF InstructionSize, NSize
      <4> QED BY <4>1, <4>2, LayoutType, ConfigAssumption DEF ProcessorBits
    <3> QED BY <3>1, LayoutType
  <2>2. CASE ChannelRange(row)
    <3>1. row.n \in Nat /\ row.n < SpaceSize \div 2 /\ 8 * k <= row.n
      BY <2>2 DEF Row, ChannelRange
    <3>2. 2 * (8 * k) + 1 < SpaceSize
      BY <2>1, <3>1
    <3>3. v \in Nat /\ v <= 2 * (8 * k) + 1
      BY <1>2
    <3> QED BY <2>1, <3>2, <3>3
  <2>3. CASE ~ChannelRange(row)
    <3>1. k = 0
      BY <2>3
    <3>2. v = 0 \/ v = 1
      BY <1>2, <3>1
    <3> QED BY <2>1, <3>2
  <2> QED BY <2>2, <2>3
<1>4. PICK m \in Nat : m = 2 ^ AddressSize
  BY LayoutType, PowerStep
<1>5. v < m
  BY <1>3, <1>4, LayoutType, ConfigAssumption
<1>6. \A b \in 0 .. (AddressSize - 1) : at + b \in S <=> (v \div 2 ^ b) % 2 = 1
  <2> TAKE b \in 0 .. (AddressSize - 1)
  <2>1. PICK p \in Int : p = at + b
    BY LayoutType
  <2>2. p \in at .. (at + AddressSize - 1) /\ p - at = b /\ ~(p < at) /\ ~(p >= at + AddressSize)
    BY <2>1, LayoutType
  <2>3. p \in S <=> p \in WithField(before.space, at, AddressSize, v)
    BY <1>1, <1>2, <2>2 DEF WithStatus, Status
  <2> QED BY <2>1, <2>2, <2>3 DEF WithField
<1>7. Argument(S, at, AddressSize) = v
  BY <1>3, <1>4, <1>5, <1>6, LayoutType, ArgumentIs
<1> QED BY <1>1, <1>2, <1>7 DEF Decoded

(* The space when the instructions of a tick begin.                        *)
LEMMA ComputationBegins ==
  ASSUME TickInv, pc = "compute", slot = 0
  PROVE  /\ processor = RowsOf(before.space)
         /\ \E k, S, g, failed : ChannelsDone(k, S, g, failed, space)
<1>1. PICK k, S, g, failed, T :
        ChannelsDone(k, S, g, failed, T) /\ After(T)[slot] = Start(space)
  BY DEF TickInv
<1>2. Start(T) = Start(space)
  BY <1>1, AfterTurns
<1>3. T = space
  BY <1>2 DEF Start
<1> QED BY <1>1, <1>3 DEF TickInv

LEMMA Within == \A t, g, n \in Nat : t + g <= n => \A x \in (t + 1) .. (t + g) : x \in 1 .. n
OBVIOUS

(* What IN took.                                                           *)
LEMMA TakenBytes ==
  ASSUME IInv, NEW g \in Nat, taken = before.taken + g,
         NEW bytes, bytes = SubSeq(Input, before.taken + 1, before.taken + g)
  PROVE  /\ bytes \in Seq(Byte) /\ Len(bytes) = g
         /\ \A j \in 1 .. g : bytes[j] = Input[before.taken + j]
<1>1. PICK t \in Nat, n \in Nat : t = before.taken /\ n = Len(Input) /\ t + g <= n
  BY RunAssumption, LenProperties DEF IInv, TypeOK
<1>2. \A x \in (t + 1) .. (t + g) : Input[x] \in Byte
  <2>1. \A x \in (t + 1) .. (t + g) : x \in 1 .. n
    BY <1>1, Within
  <2> QED BY <1>1, <2>1, RunAssumption, ElementOfSeq
<1>3. /\ bytes \in Seq(Byte)
      /\ Len(bytes) = IF t + 1 <= t + g THEN (t + g) - (t + 1) + 1 ELSE 0
      /\ \A j \in 1 .. ((t + g) - (t + 1) + 1) : bytes[j] = Input[(t + 1) + j - 1]
  <2>1. PICK m \in Int, e \in Int : m = t + 1 /\ e = t + g
    BY <1>1
  <2>2. \A x \in m .. e : Input[x] \in Byte
    BY <1>2, <2>1
  <2>3. /\ SubSeq(Input, m, e) \in Seq(Byte)
        /\ Len(SubSeq(Input, m, e)) = IF m <= e THEN e - m + 1 ELSE 0
        /\ \A j \in 1 .. (e - m + 1) : SubSeq(Input, m, e)[j] = Input[m + j - 1]
    BY <2>2, SubSeqProperties, SMTT(60)
  <2>4. bytes = SubSeq(Input, m, e)
    BY <1>1, <2>1
  <2> QED BY <2>1, <2>3, <2>4
<1>4. /\ (t + g) - (t + 1) + 1 = g
      /\ \A j \in 1 .. g : (t + 1) + j - 1 = t + j
  OBVIOUS
<1>5. Len(bytes) = g
  BY <1>3, <1>4
<1> QED BY <1>1, <1>3, <1>4, <1>5

LEMMA TickInputLands == IInv /\ TickInv => InputLands
<1> SUFFICES ASSUME IInv, TickInv, pc = "compute", slot = 0,
                    NEW j \in 1 .. (taken - before.taken), NEW b \in 0 .. 7,
                    processor[InSlot].dst + 8 * (j - 1) + b
                      \notin SrcAt(InSlot) .. (SrcAt(InSlot) + AddressSize - 1)
             PROVE  processor[InSlot].dst + 8 * (j - 1) + b \in space
                      <=> b \in Input[before.taken + j]
  BY DEF InputLands
<1>1. PICK k, S, g, failed : ChannelsDone(k, S, g, failed, space)
  BY ComputationBegins
<1>2. PICK row \in Row : row = Began(InSlot) /\ processor[InSlot] = row
  BY ChannelSlots, RowsTyped DEF IInv
<1>3. g \in Nat /\ taken = before.taken + g /\ taken \in Nat /\ before.taken \in Nat
  BY <1>1, RunAssumption DEF ChannelsDone, InDone, IInv, TypeOK
<1>4. PICK bytes : bytes = SubSeq(Input, before.taken + 1, before.taken + g)
  OBVIOUS
<1>5. /\ bytes \in Seq(Byte) /\ Len(bytes) = g
      /\ \A i \in 1 .. g : bytes[i] = Input[before.taken + i]
  BY <1>3, <1>4, TakenBytes
<1>6. j \in 1 .. g /\ j \in 1 .. Len(bytes)
  BY <1>3, <1>5
<1>7. space = WithStatus(WithBytes(S, row.dst, bytes), InSlot, g, failed)
  <2>1. row.n # 0
    BY <1>1, <1>2, <1>6 DEF ChannelsDone, InDone
  <2> QED BY <1>1, <1>2, <1>4, <2>1 DEF ChannelsDone, InDone
<1>8. PICK at, p, T :
        /\ at \in Nat /\ p \in Int
        /\ at = row.dst /\ p = at + 8 * (j - 1) + b /\ T = WithBytes(S, at, bytes)
  BY <1>2, <1>6, SMTT(60) DEF Row
<1>9. PICK s \in Nat : s = SrcAt(InSlot)
  BY ChannelRows
<1>10. p \in space <=> p \in T
  <2>1. p < s \/ p >= s + AddressSize
    BY <1>2, <1>8, <1>9, LayoutType
  <2> QED BY <1>7, <1>8, <1>9, <2>1, LayoutType, FieldElsewhere DEF WithStatus
<1>11. p \in T <=> b \in bytes[j]
  BY <1>5, <1>6, <1>8, BytesLand
<1> QED BY <1>2, <1>5, <1>6, <1>8, <1>10, <1>11

LEMMA StatusAnywhere ==
  ASSUME NEW S, NEW T, NEW i \in {InSlot, OutSlot}, NEW k, NEW failed,
         NEW p \in SrcAt(i) .. (SrcAt(i) + AddressSize - 1)
  PROVE  p \in WithStatus(S, i, k, failed) <=> p \in WithStatus(T, i, k, failed)
<1>1. PICK at \in Nat : at = SrcAt(i)
  BY ChannelRows
<1>2. ~(p < at) /\ ~(p >= at + AddressSize)
  BY <1>1, LayoutType
<1> QED BY <1>1, <1>2 DEF WithStatus, WithField

(* The status fields of the channels lie apart.                            *)
LEMMA StatusesApart ==
  ASSUME NEW p \in SrcAt(OutSlot) .. (SrcAt(OutSlot) + AddressSize - 1)
  PROVE  p \in Int /\ p >= SrcAt(InSlot) + AddressSize
<1>1. SrcAt(OutSlot) = SrcAt(InSlot) + InstructionSize
  BY LayoutType DEF SrcAt, RowAt, InSlot, OutSlot
<1>2. SrcAt(InSlot) \in Nat /\ SrcAt(OutSlot) \in Nat
  BY ChannelRows
<1> QED BY <1>1, <1>2, LayoutType

LEMMA TickStatusesArrive == IInv /\ TickInv => StatusesArrive
<1> SUFFICES ASSUME IInv, TickInv, pc = "compute", slot = 0 PROVE StatusesArrive
  BY DEF StatusesArrive
<1>1. PICK k, S, g, failed : ChannelsDone(k, S, g, failed, space)
  BY ComputationBegins
<1>2. PICK input \in Row, out \in Row :
        /\ input = Began(InSlot) /\ processor[InSlot] = input
        /\ out = Began(OutSlot) /\ processor[OutSlot] = out
  BY ChannelSlots, RowsTyped DEF IInv
<1>3. /\ OutDone(k, S) /\ InDone(g, failed, S, space)
      /\ k \in Nat /\ g \in Nat /\ failed \in BOOLEAN
  BY <1>1 DEF ChannelsDone, OutDone, InDone
<1>4. before.taken \in Nat /\ before.output \in Seq(Byte)
  BY DEF IInv, TypeOK
<1>5. PICK bytes : bytes = SubSeq(Input, before.taken + 1, before.taken + g)
  OBVIOUS
<1>6. bytes \in Seq(Byte) /\ Len(bytes) = g /\ taken - before.taken = g
  <2>1. taken = before.taken + g
    BY <1>3 DEF InDone
  <2>2. bytes \in Seq(Byte) /\ Len(bytes) = g
    BY <1>3, <1>5, <2>1, TakenBytes
  <2> QED BY <1>3, <1>4, <2>1, <2>2
<1>7. Len(output) - Len(before.output) = k
  <2>1. PICK text, n : /\ text = BytesAt(before.space, out.dst, k) /\ n = Len(before.output)
                       /\ n \in Nat
    BY <1>4, LenProperties
  <2>2. text \in Seq(Byte) /\ Len(text) = k /\ output = before.output \o text
    BY <1>2, <1>3, <2>1, BytesAtType DEF OutDone
  <2>3. Len(before.output \o text) = n + k
    <3>1. PICK sent : sent = before.output /\ sent \in Seq(Byte)
      BY <1>4
    <3>2. Len(sent \o text) = Len(sent) + Len(text)
      BY <2>2, <3>1, ConcatProperties
    <3> QED BY <2>1, <2>2, <3>1, <3>2
  <2> QED BY <1>3, <2>1, <2>2, <2>3
<1>8. ASSUME input.n # 0
      PROVE  LET told == Decoded(space, InSlot).src
             IN  /\ told \div 2 = 8 * g
                 /\ 8 * g = input.n => told % 2 = 0
                 /\ ~ChannelRange(input) => told % 2 = 1
  <2>1. /\ space = WithStatus(WithBytes(S, input.dst, bytes), InSlot, g, failed)
        /\ IF ChannelRange(input) THEN /\ g \in 0 .. (input.n \div 8)
                                       /\ 8 * g = input.n => ~failed
           ELSE g = 0 /\ failed
    BY <1>2, <1>3, <1>5, <1>8 DEF InDone
  <2>2. \A p \in SrcAt(InSlot) .. (SrcAt(InSlot) + AddressSize - 1) :
          p \in space <=> p \in WithStatus(before.space, InSlot, g, failed)
    BY <2>1, StatusAnywhere
  <2>3. IF ChannelRange(input) THEN g \in 0 .. (input.n \div 8) ELSE g = 0
    BY <2>1
  <2>4. PICK told : told = Decoded(space, InSlot).src
    OBVIOUS
  <2>5. told = 2 * (8 * g) + (IF failed THEN 1 ELSE 0)
    BY <1>3, <1>8, <2>2, <2>3, <2>4, StatusReads
  <2>6. told \div 2 = 8 * g /\ (failed => told % 2 = 1) /\ (~failed => told % 2 = 0)
    BY <1>3, <2>5
  <2>7. 8 * g = input.n => ~failed
    BY <1>8, <2>1
  <2> QED BY <2>1, <2>4, <2>6, <2>7
<1>9. ASSUME out.n # 0, ~ReadCovers(OutSlot)
      PROVE  Decoded(space, OutSlot).src = 2 * (8 * k) + (IF 8 * k = out.n THEN 0 ELSE 1)
  <2>1. PICK bad \in BOOLEAN : bad <=> 8 * k # out.n
    OBVIOUS
  <2>2. S = WithStatus(before.space, OutSlot, k, bad)
    <3>1. bad = (8 * k # out.n)
      BY <2>1
    <3> QED BY <1>2, <1>3, <1>9, <3>1 DEF OutDone
  <2>3. IF ChannelRange(out) THEN k \in 0 .. (out.n \div 8) ELSE k = 0
    BY <1>2, <1>3, <1>9 DEF OutDone
  <2>4. ASSUME NEW p \in SrcAt(OutSlot) .. (SrcAt(OutSlot) + AddressSize - 1)
        PROVE  p \in space <=> p \in S
    <3>1. CASE input.n = 0
      BY <1>2, <1>3, <3>1 DEF InDone
    <3>2. CASE input.n # 0
      <4>1. PICK T : T = WithBytes(S, input.dst, bytes)
        OBVIOUS
      <4>2. space = WithStatus(T, InSlot, g, failed)
        BY <1>2, <1>3, <1>5, <3>2, <4>1 DEF InDone
      <4>3. PICK s \in Nat : s = SrcAt(InSlot)
        BY ChannelRows
      <4>4. p \in Int /\ p >= s + AddressSize
        BY <4>3, StatusesApart
      <4>5. p \in space <=> p \in T
        BY <4>2, <4>3, <4>4, LayoutType, FieldElsewhere DEF WithStatus
      <4>6. PICK at \in Nat : at = input.dst
        BY DEF Row
      <4>7. p < at \/ p >= at + 8 * g
        <5>1. CASE ChannelRange(input)
          <6>1. 8 * g <= input.n
            <7>1. g \in 0 .. (input.n \div 8) /\ input.n \in Nat
              BY <1>2, <1>3, <3>2, <5>1 DEF InDone, Row
            <7> QED BY <7>1
          <6>2. PICK o \in Nat : o = SrcAt(OutSlot)
            BY ChannelRows
          <6>3. ~(at < o + AddressSize /\ o < at + input.n)
            BY <1>2, <1>9, <3>2, <4>6, <5>1, <6>2 DEF ReadCovers
          <6>4. input.n \in Nat /\ o <= p /\ p < o + AddressSize
            BY <6>2, LayoutType DEF Row
          <6>5. at >= o + AddressSize \/ at + input.n <= o
            BY <4>6, <6>2, <6>3, <6>4, LayoutType
          <6>6. CASE at >= o + AddressSize
            BY <4>4, <4>6, <6>2, <6>4, <6>6, LayoutType
          <6>7. CASE at + input.n <= o
            <7>1. PICK e \in Nat, n \in Nat : e = 8 * g /\ n = input.n /\ e <= n
              BY <1>3, <6>1, <6>4
            <7>2. p >= at + n
              BY <4>4, <4>6, <6>2, <6>4, <6>7, <7>1
            <7> QED BY <4>4, <4>6, <7>1, <7>2
          <6> QED BY <6>5, <6>6, <6>7
        <5>2. CASE ~ChannelRange(input)
          <6>1. g = 0
            BY <1>2, <1>3, <3>2, <5>2 DEF InDone
          <6>2. 8 * g = 0
            BY <6>1
          <6> QED BY <4>4, <4>6, <6>2
        <5> QED BY <5>1, <5>2
      <4>8. p \in T <=> p \in S
        BY <1>6, <4>1, <4>4, <4>6, <4>7, BytesElsewhere
      <4> QED BY <4>5, <4>8
    <3> QED BY <3>1, <3>2
  <2>5. \A p \in SrcAt(OutSlot) .. (SrcAt(OutSlot) + AddressSize - 1) :
          p \in space <=> p \in WithStatus(before.space, OutSlot, k, bad)
    BY <2>2, <2>4
  <2>6. Decoded(space, OutSlot).src = 2 * (8 * k) + (IF bad THEN 1 ELSE 0)
    BY <1>3, <1>9, <2>3, <2>5, StatusReads
  <2> QED BY <2>1, <2>6
<1>10. 8 * (taken - before.taken) = 8 * g /\ 8 * (Len(output) - Len(before.output)) = 8 * k
  BY <1>6, <1>7
<1> QED BY <1>2, <1>8, <1>9, <1>10 DEF StatusesArrive

LEMMA TicksInductive == Spec => [](IInv /\ TickInv)
<1>1. IInv /\ TickInv /\ [Next]_vars => TickInv'
  BY StepIsTick
<1> QED BY <1>1, Inductive, InitTickInv, PTL DEF Spec

(* The bytes that channel() reads are in the space, in order, before any   *)
(* instruction of the tick runs, wherever in the space they go and however *)
(* few of them have come.                                                  *)
THEOREM InputIsThere == Spec => []InputLands
BY TicksInductive, TickInputLands, PTL

(* Both statuses tell what the channels did: twice the number of bits fits *)
(* into the field for every configuration space.h accepts, and the status  *)
(* of IN is written after its data.                                        *)
THEOREM StatusesTold == Spec => []StatusesArrive
BY TicksInductive, TickStatusesArrive, PTL
=============================================================================
