------------------------------ MODULE SpaceBits ------------------------------
(***************************************************************************)
(* The bit space of src/space.h and src/space.c as values: its layout, the *)
(* encoding of instructions in it, and what copies and channels do to it.  *)
(* The space is the set of the positions that hold 1.                      *)
(***************************************************************************)
EXTENDS Integers, Sequences

CONSTANTS SpaceBytes,   \* VM_SPACE_BYTES
          ProcessorN,   \* PROCESSOR_N, the number of instructions
          AddressSize   \* ADDRESS_SIZE, CEIL_LOG2(SPACE_SIZE)

SpaceSize == 8 * SpaceBytes
NSize == AddressSize - 1
InstructionSize == NSize + 2 * AddressSize
ProcessorBits == ProcessorN * InstructionSize

(* space_configuration_valid, and that AddressSize is the ceiling of log2. *)
ASSUME ConfigAssumption ==
  /\ SpaceBytes \in Nat /\ ProcessorN \in Nat /\ AddressSize \in Nat
  /\ ProcessorN >= 4 /\ AddressSize > 1 /\ AddressSize <= 31
  /\ ProcessorBits < SpaceSize
  /\ 2 ^ (AddressSize - 1) < SpaceSize /\ SpaceSize <= 2 ^ AddressSize

Positions == 0 .. (SpaceSize - 1)
Slots == 0 .. (ProcessorN - 1)
InSlot == 1
OutSlot == 2

(* A byte is the set of its bits that are 1, numbered from the top.        *)
Byte == SUBSET (0 .. 7)
-----------------------------------------------------------------------------
(* The positions of the fields of instruction i (the tables o and s).      *)
RowAt(i) == i * InstructionSize
NAt(i) == RowAt(i)
DstAt(i) == RowAt(i) + NSize
SrcAt(i) == RowAt(i) + NSize + AddressSize

(* The number in the w bits from position at on, lowest bit first.         *)
Argument(S, at, w) ==
  LET top[k \in 0 .. w] ==   \* the number in the k highest of the bits
        IF k = 0 THEN 0
        ELSE 2 * top[k - 1] + (IF at + w - k \in S THEN 1 ELSE 0)
  IN  top[w]

(* Instruction i as the space holds it.                                    *)
Decoded(S, i) == [n   |-> Argument(S, NAt(i), NSize),
                  dst |-> Argument(S, DstAt(i), AddressSize),
                  src |-> Argument(S, SrcAt(i), AddressSize)]

Row == [n : Nat, dst : Nat, src : Nat]

NoRow == [n |-> 0, dst |-> 0, src |-> 0]

(* Mutant: the loop of write_field_bits runs one bit too far.              *)
WithFieldOver(S, at, w, v) ==
  {p \in S : p < at \/ p > at + w} \cup
  {p \in at .. (at + w) : (v \div 2 ^ (p - at)) % 2 = 1}

(* write_field_bits: the w lowest bits of the number v at position at.     *)
WithField(S, at, w, v) ==
  {p \in S : p < at \/ p >= at + w} \cup
  {p \in at .. (at + w - 1) : (v \div 2 ^ (p - at)) % 2 = 1}

(* The bits a copy instruction moves, all at once (bitcpy within space).   *)
Copied(S, row) ==
  {p \in S : p < row.dst \/ p >= row.dst + row.n} \cup
  {p \in row.dst .. (row.dst + row.n - 1) : (p - row.dst) + row.src \in S}

(* The ranges computation accepts.                                         *)
InRange(row) == /\ row.dst < SpaceSize /\ row.src < SpaceSize
                /\ row.n <= SpaceSize - row.dst
                /\ row.n <= SpaceSize - row.src

(* The ranges channel accepts: whole bytes, and a length whose doubled     *)
(* count still fits into the status field.                                 *)
ChannelRange(row) == /\ row.n % 8 = 0 /\ row.dst % 8 = 0
                     /\ row.n < SpaceSize \div 2
                     /\ row.dst < SpaceSize
                     /\ row.n <= SpaceSize - row.dst

(* The k bytes of the space from position at on, and their replacement.    *)
BytesAt(S, at, k) ==
  [j \in 1 .. k |-> {b \in 0 .. 7 : at + 8 * (j - 1) + b \in S}]

WithBytes(S, at, bytes) ==
  {p \in S : p < at \/ p >= at + 8 * Len(bytes)} \cup
  {p \in at .. (at + 8 * Len(bytes) - 1) :
     (p - at) % 8 \in bytes[(p - at) \div 8 + 1]}

(* The status of a channel operation: the copied bits doubled, and 1 when  *)
(* the operation failed.                                                   *)
Status(copied, failed) == 2 * (8 * copied) + (IF failed THEN 1 ELSE 0)

WithStatus(S, i, copied, failed) ==
  WithField(S, SrcAt(i), AddressSize, Status(copied, failed))

(* space_active, of the instructions it has read.                          *)
Active(rows) == \E i \in Slots : rows[i].n # 0
=============================================================================
