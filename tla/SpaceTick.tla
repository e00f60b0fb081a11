------------------------------ MODULE SpaceTick ------------------------------
(***************************************************************************)
(* What a tick of the space promises (doc/space_emulator.md): while some   *)
(* instruction has a length, OUT and then IN are copied outside, and then  *)
(* the other instructions are carried out in ascending order, each as the  *)
(* space holds it when its turn comes; an invalid one ends the tick.  The  *)
(* space, the input and the output are all the state there is.             *)
(***************************************************************************)
EXTENDS SpaceBits

CONSTANTS Input,  \* the bytes the input stream will ever hold
          Images  \* what may be loaded: the positions that hold 1

VARIABLES space,    \* the positions that hold 1
          taken,    \* how many input bytes have been read
          output    \* the bytes written

tickVars == <<space, taken, output>>

Rows(S) == [i \in Slots |-> Decoded(S, i)]

(* One instruction of a computation, unless an earlier one was invalid.    *)
Compute(st, i) ==
  LET row == Decoded(st.space, i)
  IN  IF st.failed \/ row.n = 0 THEN st
      ELSE IF InRange(row) THEN [st EXCEPT !.space = Copied(@, row)]
      ELSE [st EXCEPT !.failed = TRUE]

(* All but the channels, in their order.                                   *)
Computation(S) ==
  LET after[i \in 0 .. ProcessorN] ==
        IF i = 0 THEN [space |-> S, failed |-> FALSE]
        ELSE IF i - 1 \in {InSlot, OutSlot} THEN after[i - 1]
        ELSE Compute(after[i - 1], i - 1)
  IN  after[ProcessorN].space

(* The possible results of a channel: how many bytes, and the reason bit.  *)
Results(row) ==
  IF row.n = 0 THEN {[k |-> 0, failed |-> FALSE]}
  ELSE IF ChannelRange(row)
  THEN {[k |-> k, failed |-> f] : k \in 0 .. (row.n \div 8), f \in BOOLEAN}
  ELSE {[k |-> 0, failed |-> TRUE]}

Out(S, row, r) ==
  IF row.n = 0 THEN S ELSE WithStatus(S, OutSlot, r.k, r.failed)

In(S, row, r, bytes) ==
  IF row.n = 0 THEN S
  ELSE WithStatus(WithBytes(S, row.dst, bytes), InSlot, r.k, r.failed)

Init == space = {} /\ taken = 0 /\ output = <<>>

Tick ==
  \E rows \in {Rows(space)} :
    /\ Active(rows)
    /\ \E o \in Results(rows[OutSlot]), r \in Results(rows[InSlot]) :
         /\ taken + r.k <= Len(Input)
         /\ taken' = taken + r.k
         /\ o.failed = (8 * o.k # rows[OutSlot].n)
         /\ 8 * r.k = rows[InSlot].n => ~r.failed
         /\ output' = output \o BytesAt(space, rows[OutSlot].dst, o.k)
         /\ \E S \in {In(Out(space, rows[OutSlot], o), rows[InSlot], r,
                         SubSeq(Input, taken + 1, taken + r.k))} :
              space' = Computation(S)

(* A new image is loaded.                                                  *)
Reset == /\ space' \in Images
         /\ UNCHANGED <<taken, output>>

Next == Tick \/ Reset
Spec == Init /\ [][Next]_tickVars
=============================================================================
