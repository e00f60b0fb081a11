------------------------------- MODULE MCBits -------------------------------
(* The two ways in which the code touches bits, one after the other: a     *)
(* field of an instruction is read, and then bitcpy copies between arrays  *)
(* of Bytes bytes, every bit with its own identity.  Neither sees the      *)
(* other, so each is given all its inputs beside a trivial one of the      *)
(* other's.  What get_argument does to a word it does to each of its bits, *)
(* so that images with a single one find every mistake; two with many ones *)
(* find bits that are cleared or kept by mistake.                          *)
EXTENDS BitCopy, FieldRead

MCContent == Org \X Pos
MCInitialMem == [a \in Org |-> [p \in Pos |-> <<a, p>>]]
MCImages == {{p} : p \in Positions} \cup {Positions, {p \in Positions : p % 3 = 0}}

bitVars == <<vars, fieldVars>>

NoCall == CHOOSE c \in Calls : c.n = 0 /\ c.so = c.do /\ c.s = 0 /\ c.d = 0

MCInit == \/ call = NoCall /\ Init /\ FieldInit
          \/ space = Positions /\ at = 0 /\ width = 1 /\ FieldInit /\ Init

MCNext == \/ step # "done" /\ FieldNext /\ UNCHANGED vars
          \/ step = "done" /\ FieldDone /\ Next

MCSpec == MCInit /\ [][MCNext]_bitVars /\ WF_bitVars(MCNext)
=============================================================================
