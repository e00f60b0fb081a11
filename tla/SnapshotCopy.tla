---------------------------- MODULE SnapshotCopy ----------------------------
(***************************************************************************)
(* What a copy of a bit range promises (doc/space_emulator.md): only the   *)
(* destination bits change, and on overlap they receive the bits that the  *)
(* source range held before the copy.  The memory is one or more origins   *)
(* (C arrays), each a function from bit positions to bit contents.         *)
(***************************************************************************)
EXTENDS Naturals

CONSTANTS InitialMem,  \* the memory when the copy is called
          Calls        \* the calls: records [n, so, s, do, d]

VARIABLES mem,         \* contents of every origin
          call,        \* the arguments of the call
          returned     \* the copy is complete

snapshotVars == <<mem, call, returned>>

(* The range of the call's destination. *)
Destination(c) == {p \in Nat : c.d <= p /\ p < c.d + c.n}

(* The memory m after the call c, all bits moved at once. *)
Copied(m, c) ==
  [m EXCEPT ![c.do] =
     [p \in DOMAIN m[c.do] |->
        IF c.d <= p /\ p < c.d + c.n THEN m[c.so][c.s + (p - c.d)]
                                     ELSE m[c.do][p]]]

Init == /\ mem = InitialMem
        /\ call \in Calls
        /\ returned = FALSE

Copy == /\ ~returned
        /\ mem' = Copied(mem, call)
        /\ returned' = TRUE
        /\ UNCHANGED call

Spec == Init /\ [][Copy]_snapshotVars /\ WF_snapshotVars(Copy)
=============================================================================
