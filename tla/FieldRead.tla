------------------------------ MODULE FieldRead ------------------------------
(***************************************************************************)
(* get_argument of src/space.c: the field of n bits at position at, read   *)
(* bit by bit near the end of the space and from a packed word elsewhere.  *)
(* A 32-bit word is the set of its bits that are 1, numbered from the      *)
(* lowest; the space is the set of the positions that hold 1.  A step is a *)
(* statement that reads the space.                                         *)
(***************************************************************************)
EXTENDS Integers

CONSTANTS SpaceBytes,  \* sizeof space
          Widths,      \* the widths of the fields of an instruction
          Images       \* contents of the space

Positions == 0 .. (8 * SpaceBytes - 1)

(* The fields lie inside PROCESSOR, and space_configuration_valid keeps    *)
(* their width below that of the word.                                     *)
ASSUME FieldAssumption ==
  /\ SpaceBytes \in Nat
  /\ Widths \subseteq 1 .. 31
  /\ Images \subseteq SUBSET Positions

VARIABLES space,   \* the space, which does not change
          at, width, \* src and n of the call
          step,    \* the statement about to run
          packed,  \* the word packed of four bytes
          value,   \* the result
          bit,     \* the bit the loop has come to
          reads    \* the bytes of the space read so far

fieldVars == <<space, at, width, step, packed, value, bit, reads>>

Word == SUBSET (0 .. 31)

(* Shifts of a word, whose bits fall out at either end.                    *)
ShiftLeft(w, k) == {b + k : b \in w} \cap (0 .. 31)
ShiftRight(w, k) == {b - k : b \in w} \cap (0 .. 31)

(* The mask constants of reverse_bits_in_bytes.                            *)
Low(k) == {b \in 0 .. 31 : (b \div k) % 2 = 0}

Swapped(w, k) == ShiftLeft(w \cap Low(k), k) \cup (ShiftRight(w, k) \cap Low(k))

ReversedBits(w) == Swapped(Swapped(Swapped(w, 1), 2), 4)

(* Byte j of the space as a number: bit 7 is the first of its positions.   *)
ByteAt(S, j) == {b \in 0 .. 7 : 8 * j + (7 - b) \in S}

Byte == at \div 8
Offset == at % 8

(* Mutant: the end of the space is one byte further away.                  *)
NearEndLate == Byte + 3 > SpaceBytes

NearEnd == Byte + 4 > SpaceBytes

FieldInit ==
  /\ space \in Images
  /\ width \in Widths
  /\ at \in Positions /\ at + width <= 8 * SpaceBytes
  /\ step = "call"
  /\ packed = {} /\ value = {} /\ bit = 0 /\ reads = {}

(* Near the end every bit is read on its own.                              *)
Start == /\ step = "call"
         /\ step' = IF NearEnd THEN "bits" ELSE "pack"
         /\ UNCHANGED <<space, at, width, packed, value, bit, reads>>

Bit == /\ step = "bits" /\ bit < width
       /\ value' = value \cup
            (IF 7 - ((at + bit) % 8) \in ByteAt(space, (at + bit) \div 8) THEN {bit} ELSE {})
       /\ reads' = reads \cup {(at + bit) \div 8}
       /\ bit' = bit + 1
       /\ UNCHANGED <<space, at, width, step, packed>>

BitsDone == /\ step = "bits" /\ bit >= width
            /\ step' = "done"
            /\ UNCHANGED <<space, at, width, packed, value, bit, reads>>

(* Otherwise four bytes are packed, reversed and shifted at once.          *)
Pack == /\ step = "pack"
        /\ packed' = UNION {ShiftLeft(ByteAt(space, Byte + k), 8 * k) : k \in 0 .. 3}
        /\ reads' = reads \cup (Byte .. (Byte + 3))
        /\ value' = ShiftRight(ReversedBits(packed'), Offset)
        /\ step' = "fifth"
        /\ UNCHANGED <<space, at, width, bit>>

(* Mutant: a field that takes one bit of the fifth byte goes without it.   *)
ReachesLate == width + Offset > 33

(* A field may reach into a fifth byte.                                    *)
Reaches == width + Offset > 32

Fifth == /\ step = "fifth"
         /\ LET all == IF Reaches
                       THEN value \cup ShiftLeft(ReversedBits(ByteAt(space, Byte + 4)),
                                                 32 - Offset)
                       ELSE value
            IN  /\ value' = all \cap (0 .. (width - 1))
                /\ reads' = IF Reaches THEN reads \cup {Byte + 4} ELSE reads
         /\ step' = "done"
         /\ UNCHANGED <<space, at, width, packed, bit>>

FieldDone == step = "done" /\ UNCHANGED fieldVars

FieldNext == Start \/ Bit \/ BitsDone \/ Pack \/ Fifth \/ FieldDone

FieldSpec == FieldInit /\ [][FieldNext]_fieldVars
-----------------------------------------------------------------------------
(* Every word stays a word, and the loop within the field.                 *)
FieldTypeOK ==
  /\ space \subseteq Positions
  /\ width \in 1 .. 31 /\ at \in Nat /\ at + width <= 8 * SpaceBytes
  /\ step \in {"call", "bits", "pack", "fifth", "done"}
  /\ packed \in Word /\ value \in Word
  /\ bit \in 0 .. width
  /\ reads \subseteq Nat

(* The number read is the field: its bit j is the space's bit at + j, on   *)
(* both paths, for every offset and width.                                 *)
ReadsField == step = "done" => value = {j \in 0 .. (width - 1) : at + j \in space}

(* No byte past the end of the space is read, the fifth included.          *)
ReadsInside == reads \subseteq 0 .. (SpaceBytes - 1)
=============================================================================
