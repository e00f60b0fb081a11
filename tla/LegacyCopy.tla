----------------------------- MODULE LegacyCopy -----------------------------
(***************************************************************************)
(* bitcpy of the legacy machine (legacy/src/vm/bitcpy.c) within one array. *)
(* Its steps shift bits, mask them and or them, so a bit is the set of the *)
(* bits of the array at the call that it is the or of; bit 0 of a byte is  *)
(* the most significant, and words are loaded on a little-endian host.     *)
(* What is past the array reads as it may: the empty set.                  *)
(***************************************************************************)
EXTENDS Integers

CONSTANTS Bytes,  \* of the array
          Lengths, Starts  \* of the ranges, which lie within the array

Bits == 0 .. 8 * Bytes - 1

Calls == [n : Lengths, src : Starts, dst : Starts]

VARIABLES mem,       \* bit -> the bits it is the or of
          call,
          pc,        \* "call", "bits", "head", "words", "bytes", "tail", "done"
          n, src, dst,  \* bits left; the bytes (in "bits": bits done)
          shifted    \* whether the offsets in their bytes differ

copyVars == <<mem, call, pc, n, src, dst, shifted>>

Init == /\ mem = [b \in Bits |-> {b}]
        /\ call \in Calls
        /\ pc = "call" /\ n = 0 /\ src = 0 /\ dst = 0 /\ shifted = FALSE

At(b) == IF b \in Bits THEN mem[b] ELSE {}

SrcMod == call.src % 8
DstMod == call.dst % 8

(* left of the shifting paths: how far the source is ahead in its byte.    *)
Left == IF SrcMod > DstMod THEN SrcMod - DstMod ELSE 8 - (DstMod - SrcMod)

Overlap == call.src < call.dst + call.n /\ call.dst < call.src + call.n

Bitcpy ==
  /\ pc = "call"
  /\ n' = call.n
  /\ IF call.n = 0 \/ call.src = call.dst
     THEN pc' = "done" /\ UNCHANGED <<src, dst, shifted>>
     ELSE IF Overlap THEN pc' = "bits" /\ UNCHANGED <<src, dst, shifted>>
     ELSE /\ src' = call.src \div 8 /\ dst' = call.dst \div 8
          /\ shifted' = (SrcMod # DstMod)
          /\ pc' = IF DstMod # 0 THEN "head"
                   ELSE IF SrcMod = 0 THEN "bytes" ELSE "words"
  /\ UNCHANGED <<mem, call>>

(* bitcpy_overlap_fallback: bit by bit, from the end that is not in danger. *)
Bit == /\ pc = "bits" /\ n > 0
       /\ LET i == IF call.dst < call.src THEN call.n - n ELSE n - 1
          IN  mem' = [mem EXCEPT ![call.dst + i] = mem[call.src + i]]
       /\ n' = n - 1
       /\ pc' = IF n = 1 THEN "done" ELSE pc
       /\ UNCHANGED <<call, src, dst, shifted>>

(* The byte that a step stores: the source's, or one made of two of its.   *)
Joined == [j \in 0 .. 7 |-> At(IF shifted THEN 8 * src + Left + j ELSE 8 * src + j)]

(* The bits of a byte in a mask take new values.                           *)
Store(byte, mask, new) ==
  [b \in Bits |-> IF b \div 8 = byte /\ b % 8 \in mask THEN new[b % 8] ELSE mem[b]]

Lesser(a, b) == IF a < b THEN a ELSE b

Head == /\ pc = "head"
        /\ LET head == Lesser(8 - DstMod, n)
           IN  /\ mem' = Store(dst, DstMod .. (DstMod + head - 1), Joined)
               /\ n' = n - head
        /\ dst' = dst + 1
        /\ src' = IF shifted /\ SrcMod < DstMod THEN src ELSE src + 1
        /\ pc' = "words"
        /\ UNCHANGED <<call, shifted>>

(* Words of 64 bits; place v of one is the bit of weight 2^v.              *)
Word(byte) == [v \in 0 .. 63 |-> At(8 * (byte + v \div 8) + 7 - (v % 8))]
ShiftedUp(w, k, v)   == IF v >= k THEN w[v - k] ELSE {}
ShiftedDown(w, k, v) == IF v + k < 64 THEN w[v + k] ELSE {}

WordStored ==
  LET a == Word(src)
      b == Word(src + 8)
      up == IF shifted THEN Left ELSE SrcMod
      down == IF shifted THEN 8 - Left ELSE 64 - SrcMod
  IN  [v \in 0 .. 63 |-> ShiftedUp(a, up, v) \cup ShiftedDown(b, down, v)]

Words == /\ pc = "words"
         /\ IF n < 64 THEN pc' = "bytes" /\ UNCHANGED <<mem, n, src, dst>>
            ELSE /\ LET w == WordStored
                    IN  mem' = [b \in Bits |->
                                  IF b \in 8 * dst .. 8 * dst + 63
                                  THEN w[8 * ((b - 8 * dst) \div 8) + 7 - (b % 8)] ELSE mem[b]]
                 /\ n' = n - 64 /\ src' = src + 8 /\ dst' = dst + 8
                 /\ UNCHANGED pc
         /\ UNCHANGED <<call, shifted>>

CopyByte == /\ pc = "bytes"
            /\ IF n < 8 THEN pc' = "tail" /\ UNCHANGED <<mem, n, src, dst>>
               ELSE /\ mem' = Store(dst, 0 .. 7, Joined)
                    /\ n' = n - 8 /\ src' = src + 1 /\ dst' = dst + 1
                    /\ UNCHANGED pc
            /\ UNCHANGED <<call, shifted>>

Tail == /\ pc = "tail"
        /\ mem' = Store(dst, 0 .. (n - 1), Joined)
        /\ n' = 0 /\ pc' = "done"
        /\ UNCHANGED <<call, src, dst, shifted>>

Next == Bitcpy \/ Bit \/ Head \/ Words \/ CopyByte \/ Tail

Spec == Init /\ [][Next]_copyVars
-----------------------------------------------------------------------------
(* "copy bits MSB-first with overlap-safe fallback" (bitcpy.c:1): in the   *)
(* end the destination holds the bits the source had, and every other bit  *)
(* is what it was.                                                         *)
CopiesBits ==
  pc = "done" =>
    mem = [b \in Bits |-> IF b \in call.dst .. (call.dst + call.n - 1)
                          THEN {b - call.dst + call.src} ELSE {b}]
=============================================================================
