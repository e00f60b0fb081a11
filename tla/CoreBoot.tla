------------------------------ MODULE CoreBoot ------------------------------
(***************************************************************************)
(* The standard start image (src/core.c, src/core.h) on the space machine: *)
(* a layer that reads the first record of the input, looks its status up   *)
(* in a table inside the space and continues with the record or with a     *)
(* report of the failure.                                                  *)
(***************************************************************************)
EXTENDS SpaceRun

CONSTANTS Message,  \* the bytes of CORE_ERROR_MESSAGE
          Waiting   \* how many bytes the input may have delivered

CeilLog2(x) == CHOOSE k \in 0 .. 31 : x <= 2 ^ k /\ (k = 0 \/ x > 2 ^ (k - 1))

(* The next multiple of k.                                                 *)
RoundUp(x, k) == ((x + k - 1) \div k) * k

LayerBits == 4 * InstructionSize
InputBits == RoundUp(LayerBits, 8) + 8
BufferStart == RoundUp(ProcessorBits, 8)
StatusBits == CeilLog2(2 * InputBits + 2)

EntryShift == CeilLog2(LayerBits)
BootBits == 2 ^ EntryShift
RestartStart == BufferStart + BootBits
MessageStart == RoundUp(RestartStart + LayerBits, 8)
MessageBits == 8 * Len(Message)
ZeroStart == MessageStart + MessageBits
TableBits == 2 ^ (StatusBits + EntryShift)
TableStart == RoundUp(ZeroStart + LayerBits, TableBits)

(* core_configuration_valid.                                               *)
ASSUME CoreAssumption ==
  /\ Message \in Seq(Byte)
  /\ TableStart + TableBits <= SpaceSize
  /\ InputBits < SpaceSize \div 2
  /\ Waiting \subseteq 0 .. Len(Input)
-----------------------------------------------------------------------------
(* encode: the ones of a layer of four instructions at base.               *)
FieldOnes(at, w, v) == {at + b : b \in {c \in 0 .. (w - 1) : (v \div 2 ^ c) % 2 = 1}}

Encoded(base, rows) ==
  UNION {FieldOnes(base + NAt(i), NSize, rows[i + 1].n) \cup
         FieldOnes(base + DstAt(i), AddressSize, rows[i + 1].dst) \cup
         FieldOnes(base + SrcAt(i), AddressSize, rows[i + 1].src) : i \in 0 .. 3}

Instruction(n, dst, src) == [n |-> n, dst |-> dst, src |-> src]

(* The first tick reads a record and copies the status of the read into    *)
(* the last instruction, which goes on with the table's entry for it.      *)
Core == <<Instruction(StatusBits, SrcAt(3) + EntryShift, SrcAt(InSlot)),
          Instruction(InputBits, BufferStart, 0),
          NoRow,
          Instruction(LayerBits, 0, TableStart)>>

Activate == <<NoRow, NoRow, NoRow, Instruction(LayerBits, 0, BufferStart)>>

(* Mutant: the report is not taken away when it has been made.             *)
FailureAgain == <<NoRow, NoRow, Instruction(MessageBits, MessageStart, 0), NoRow>>

Failure == <<NoRow, NoRow, Instruction(MessageBits, MessageStart, 0),
             Instruction(LayerBits, 0, ZeroStart)>>

(* Mutant: the status is taken for the number of bits.                     *)
EntryOfBits(entry) == IF entry = InputBits THEN Activate ELSE Failure

Entry(entry) == IF entry = 2 * InputBits THEN Activate ELSE Failure

(* core_init, whose memory is there.                                       *)
CoreImage ==
  Encoded(0, Core) \cup Encoded(RestartStart, Core)
  \cup {MessageStart + 8 * (j - 1) + b :
          <<j, b>> \in {<<j, b>> \in (1 .. Len(Message)) \X (0 .. 7) : b \in Message[j]}}
  \cup UNION {Encoded(TableStart + entry * BootBits, Entry(entry)) :
                entry \in 0 .. (2 ^ StatusBits - 1)}

BootInit == /\ space = CoreImage
            /\ processor = [i \in Slots |-> NoRow]
            /\ pc = "ready" /\ slot = 0
            /\ ticks = 0 /\ limit = NoLimit /\ reason = "idle"
            /\ arrived \in Waiting
            /\ taken = 0 /\ output = <<>>
            /\ before = Now

(* Input arrives in parts.                                                 *)
ArrivePart == /\ \E k \in Waiting : k > arrived /\ arrived' = k
              /\ UNCHANGED <<machine, taken, output, before>>

BootNext == Call \/ Machine \/ ArrivePart

BootSpec == BootInit /\ [][BootNext]_vars /\ WF_vars(Machine)
-----------------------------------------------------------------------------
Layer(S) == {p \in S : p < LayerBits}

(* The layer in the k bytes read last.                                     *)
RecordLayer(k) ==
  {p \in 0 .. (LayerBits - 1) : p % 8 \in Input[taken - k + p \div 8 + 1]}

InTickEnd == pc = "compute" /\ slot = ProcessorN

(* A record takes two ticks: the first starts the record's layer only if   *)
(* the read was whole, and the report if it was not, whatever part of it   *)
(* was read; the next puts exactly the bytes of the record into PROCESSOR, *)
(* or writes nothing but the message and leaves PROCESSOR empty.           *)
RecordsStart ==
  InTickEnd =>
    LET was == Layer(before.space)
        now == Layer(space)
        got == 8 * (taken - before.taken)
        told == SubSeq(output, Len(before.output) + 1, Len(output))
    IN  /\ was = Encoded(0, Core) =>
             now = Encoded(0, IF got = InputBits THEN Activate ELSE Failure)
        /\ was = Encoded(0, Activate) => now = RecordLayer(InputBits \div 8)
        /\ was = Encoded(0, Failure) =>
             now = {} /\ told = SubSeq(Message, 1, Len(told))

(* A program that loads its successor comes to the end of the input, and   *)
(* the machine stops by itself.                                            *)
BootEnds == (pc = "loop") ~> (pc = "ready" /\ reason = "idle")
=============================================================================
