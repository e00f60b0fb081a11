----------------------------- MODULE MCCoreBoot -----------------------------
(* The smallest space the core fits, 2^18 bits, where layers have 212 bits *)
(* and the copy of the core is at 472.  The input holds two records: a     *)
(* program that writes the byte after its layer (at 432) and starts the    *)
(* core again, and one that is empty.                                      *)
EXTENDS CoreBoot

Program == <<NoRow, NoRow, Instruction(8, 432, 0), Instruction(212, 0, 472)>>

MCRecord ==
  <<{}, {}, {}, {}, {}, {}, {}, {}, {}, {}, {}, {}, {}, {5}, {}, {7},
  {0, 2, 3}, {}, {}, {}, {1, 3, 5, 6}, {}, {}, {}, {5, 6}, {0, 1, 2},
  {}, {1, 6}>>

ASSUME RecordIsProgram ==
  MCRecord = [j \in 1 .. 28 |->
    {b \in 0 .. 7 : 8 * (j - 1) + b \in Encoded(0, Program) \cup {217, 222}}]

Nothing28 ==
  <<{}, {}, {}, {}, {}, {}, {}, {}, {}, {}, {}, {}, {}, {}, {}, {}, {},
  {}, {}, {}, {}, {}, {}, {}, {}, {}, {}, {}>>

MCInput == MCRecord \o Nothing28

MCFiles == {}
MCMessage == <<{1, 2}, {7}>>
=============================================================================
