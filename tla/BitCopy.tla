------------------------------- MODULE BitCopy -------------------------------
(***************************************************************************)
(* bitcpy of src/bitcopy.c: one call copies n bits from bit position s of  *)
(* the array `so' to bit position d of the array `do'.  A step is one      *)
(* statement that touches the arrays: one bit of the fallback loops, one   *)
(* masked byte write, one memmove, or one byte of the shifted loop.        *)
(*                                                                         *)
(* A bit's content is an element of Content, so that a model can give      *)
(* every bit its own identity: the code never looks at what it moves, and  *)
(* a copy that is right for distinct contents is right for all contents.   *)
(***************************************************************************)
EXTENDS Integers

CONSTANTS Bytes,       \* length of each array in bytes
          Org,         \* the arrays a caller may pass
          Content,     \* what a bit holds
          InitialMem   \* the arrays when bitcpy is called

Pos == 0 .. (8 * Bytes - 1)

ASSUME BytesAssumption == Bytes \in Nat
ASSUME MemAssumption == InitialMem \in [Org -> [Pos -> Content]]

(* The calls a caller may make: both ranges lie inside their arrays.       *)
Calls == {c \in [n : 0 .. 8 * Bytes, so : Org, s : 0 .. 8 * Bytes,
                 do : Org, d : 0 .. 8 * Bytes] :
            c.s + c.n <= 8 * Bytes /\ c.d + c.n <= 8 * Bytes}

VARIABLES mem,       \* contents of the arrays
          call,      \* the arguments
          pc,        \* the statement about to run
          n, s, d,   \* n_bits, src_bit, dst_bit, which the code advances
          src, dst,  \* the byte pointers src and dst, as indexes
          len, i,    \* n_bits and i of the running fallback loop
          back,      \* where the fallback returns to
          touched    \* the bytes read or written so far, as <<array, index>>

vars == <<mem, call, pc, n, s, d, src, dst, len, i, back, touched>>
-----------------------------------------------------------------------------
SamePlace(c) == c.so = c.do /\ c.s = c.d

Overlapping(c) == c.so = c.do /\ c.s < c.d + c.n /\ c.d < c.s + c.n

(* k bits of m written at position p of the destination of the call c,     *)
(* taken from the positions from q on of its source: one bit, a masked     *)
(* byte, a byte or a memmove.                                              *)
Moved(m, c, k, q, p) ==
  [m EXCEPT ![c.do] =
     [b \in Pos |-> IF p <= b /\ b < p + k THEN m[c.so][q + (b - p)]
                                           ELSE m[c.do][b]]]

(* The bytes that hold the k bits from position p of array a.              *)
BytesOf(a, p, k) == {<<a, b \div 8>> : b \in p .. (p + k - 1)}

Write(k, q, p) ==
  /\ mem' = Moved(mem, call, k, q, p)
  /\ touched' = touched \cup BytesOf(call.so, q, k) \cup BytesOf(call.do, p, k)

(* Mutant: the loop always runs upwards.                                   *)
FallbackForward(k, q, p, l) ==
  len' = k /\ back' = l /\ pc' = "forward" /\ i' = 0

(* bitcpy_overlap_fallback on k bits from q to p, returning to label l.    *)
Fallback(k, q, p, l) ==
  /\ len' = k
  /\ back' = l
  /\ pc' = IF p < q THEN "forward" ELSE "backward"
  /\ i' = IF p < q THEN 0 ELSE k

Init == /\ mem = InitialMem
        /\ call \in Calls
        /\ pc = "call"
        /\ n = call.n /\ s = call.s /\ d = call.d
        /\ src = 0 /\ dst = 0
        /\ len = 0 /\ i = 0 /\ back = "done"
        /\ touched = {}
-----------------------------------------------------------------------------
(* The early returns.                                                      *)
Nothing == /\ pc = "call"
           /\ n = 0 \/ SamePlace(call)
           /\ pc' = "done"
           /\ UNCHANGED <<mem, call, n, s, d, src, dst, len, i, back, touched>>

(* Mutant: overlapping ranges take the byte paths.                         *)
ShortOnly(c) == c.n < 8

(* A short copy, or one whose ranges overlap, goes bit by bit.             *)
UsesFallback(c) == c.n < 8 \/ Overlapping(c)

ByBits == /\ pc = "call"
          /\ n # 0 /\ ~SamePlace(call)
          /\ UsesFallback(call)
          /\ Fallback(n, s, d, "done")
          /\ UNCHANGED <<mem, call, n, s, d, src, dst, touched>>

(* Otherwise the byte pointers are set and the offsets choose the path.    *)
ByBytes == /\ pc = "call"
           /\ n # 0 /\ ~SamePlace(call)
           /\ ~UsesFallback(call)
           /\ src' = s \div 8
           /\ dst' = d \div 8
           /\ \/ /\ s % 8 = d % 8
                 /\ pc' = IF d % 8 = 0 THEN "move" ELSE "head"
                 /\ UNCHANGED <<len, i, back>>
              \/ /\ s % 8 # d % 8
                 /\ d % 8 # 0
                 /\ LET head == 8 - (d % 8)
                    IN  Fallback(IF head > n THEN n ELSE head, s, d, "aligned")
              \/ /\ s % 8 # d % 8
                 /\ d % 8 = 0
                 /\ pc' = "shift"
                 /\ UNCHANGED <<len, i, back>>
           /\ UNCHANGED <<mem, call, n, s, d, touched>>

(* One turn of the loops of the fallback, and their ends.                  *)
Forward == /\ pc = "forward"
           /\ i < len
           /\ Write(1, s + i, d + i)
           /\ i' = i + 1
           /\ UNCHANGED <<call, pc, n, s, d, src, dst, len, back>>

Backward == /\ pc = "backward"
            /\ i > 0
            /\ Write(1, s + i - 1, d + i - 1)
            /\ i' = i - 1
            /\ UNCHANGED <<call, pc, n, s, d, src, dst, len, back>>

Return == /\ \/ pc = "forward" /\ i >= len
             \/ pc = "backward" /\ i = 0
          /\ pc' = back
          /\ UNCHANGED <<mem, call, n, s, d, src, dst, len, i, back, touched>>

(* Same offset: the masked head byte, which advances both pointers.        *)
HeadBits == IF 8 - (d % 8) > n THEN n ELSE 8 - (d % 8)

Head == /\ pc = "head"
        /\ Write(HeadBits, 8 * src + (d % 8), 8 * dst + (d % 8))
        /\ n' = n - HeadBits
        /\ src' = src + 1
        /\ dst' = dst + 1
        /\ pc' = "move"
        /\ UNCHANGED <<call, s, d, len, i, back>>

(* The memmove of the whole bytes.                                         *)
Move == /\ pc = "move"
        /\ LET bytes == n \div 8
           IN  /\ IF bytes # 0 THEN Write(8 * bytes, 8 * src, 8 * dst)
                               ELSE UNCHANGED <<mem, touched>>
               /\ src' = src + bytes
               /\ dst' = dst + bytes
               /\ n' = n - 8 * bytes
        /\ pc' = "tail"
        /\ UNCHANGED <<call, s, d, len, i, back>>

(* The masked tail byte.                                                   *)
Tail == /\ pc = "tail"
        /\ IF n # 0 THEN Write(n, 8 * src, 8 * dst)
                    ELSE UNCHANGED <<mem, touched>>
        /\ pc' = "done"
        /\ UNCHANGED <<call, n, s, d, src, dst, len, i, back>>

(* Different offsets, after the fallback aligned the destination.          *)
Aligned == /\ pc = "aligned"
           /\ s' = s + len
           /\ d' = d + len
           /\ n' = n - len
           /\ src' = (s + len) \div 8
           /\ dst' = (d + len) \div 8
           /\ pc' = "shift"
           /\ UNCHANGED <<mem, call, len, i, back, touched>>

(* The source bytes one turn of the shifted loop reads: src[1] only when   *)
(* the source is not aligned.                                              *)
ShiftReads == {<<call.so, src>>} \cup
              (IF s % 8 # 0 THEN {<<call.so, src + 1>>} ELSE {})

(* Mutant: the loop also takes the last bits, with a mask on the write.    *)
ShiftAny == /\ pc = "shift"
            /\ n > 0
            /\ LET bits == IF n < 8 THEN n ELSE 8
               IN  /\ mem' = Moved(mem, call, bits, 8 * src + (s % 8), 8 * dst)
                   /\ s' = s + bits /\ d' = d + bits /\ n' = n - bits
            /\ touched' = touched \cup ShiftReads \cup {<<call.do, dst>>}
            /\ src' = src + 1
            /\ dst' = dst + 1
            /\ UNCHANGED <<call, pc, len, i, back>>

Shift == /\ pc = "shift"
         /\ n >= 8
         /\ mem' = Moved(mem, call, 8, 8 * src + (s % 8), 8 * dst)
         /\ touched' = touched \cup ShiftReads \cup {<<call.do, dst>>}
         /\ src' = src + 1
         /\ dst' = dst + 1
         /\ s' = s + 8
         /\ d' = d + 8
         /\ n' = n - 8
         /\ UNCHANGED <<call, pc, len, i, back>>

ShiftTail == /\ pc = "shift"
             /\ n < 8
             /\ IF n # 0 THEN Fallback(n, s, d, "done")
                         ELSE pc' = "done" /\ UNCHANGED <<len, i, back>>
             /\ UNCHANGED <<mem, call, n, s, d, src, dst, touched>>

(* The call has returned.                                                  *)
Done == pc = "done" /\ UNCHANGED vars

Next == \/ Nothing \/ ByBits \/ ByBytes
        \/ Forward \/ Backward \/ Return
        \/ Head \/ Move \/ Tail
        \/ Aligned \/ Shift \/ ShiftTail
        \/ Done

Spec == Init /\ [][Next]_vars /\ WF_vars(Next)
-----------------------------------------------------------------------------
Labels == {"call", "forward", "backward", "head", "move", "tail",
           "aligned", "shift", "done"}

(* Every variable of the call keeps its type; the size_t counters never go *)
(* below zero, where n_bits -= 8 and the backward loop's i-- would wrap.   *)
TypeOK == /\ mem \in [Org -> [Pos -> Content]]
          /\ call \in Calls
          /\ pc \in Labels
          /\ n \in 0 .. 8 * Bytes /\ s \in 0 .. 8 * Bytes /\ d \in 0 .. 8 * Bytes
          /\ src \in 0 .. Bytes /\ dst \in 0 .. Bytes
          /\ len \in 0 .. 8 * Bytes /\ i \in 0 .. len
          /\ back \in {"aligned", "done"}
          /\ touched \subseteq Org \X Nat

(* The copy that bitcpy promises: all bits of the range at once.           *)
Snapshot == INSTANCE SnapshotCopy WITH
              mem <- IF pc = "done" THEN mem ELSE InitialMem,
              returned <- (pc = "done")

(* bitcpy, whichever path it takes, implements the one-step copy of the    *)
(* bits the source held before the call, and always returns.               *)
ImplementsSnapshot == Snapshot!Spec

(* When bitcpy returns, the destination holds what the source range held   *)
(* at the call and every other bit of every array is as it was: the        *)
(* overlap rule of doc/space_emulator.md.                                  *)
CopiesSnapshot == pc = "done" => mem = Snapshot!Copied(InitialMem, call)

(* No statement reads or writes a byte that holds no bit of either range:  *)
(* the caller may have allocated exactly those bytes (src[1] of the        *)
(* shifted loop is the one that could be past the end).                    *)
StaysInBounds ==
  touched \subseteq BytesOf(call.so, call.s, call.n) \cup
                    BytesOf(call.do, call.d, call.n)

(* At every step of the copy a bit is either still the one the caller left *)
(* there or already the final one, and the bits outside the destination    *)
(* are never disturbed: no masked byte write spills over its mask.         *)
NoStrayBit ==
  \A a \in Org : \A p \in Pos :
    mem[a][p] \in {InitialMem[a][p], Snapshot!Copied(InitialMem, call)[a][p]}
=============================================================================
