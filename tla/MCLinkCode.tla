----------------------------- MODULE MCLinkCode -----------------------------
(* What the copy linker makes, seen at three scales that do not meet: the  *)
(* emitter's programs in a small space, bit by bit; the code of single     *)
(* instructions on words of four bits, bytes of one and eight bytes of     *)
(* memory, in layers of 32 rows, so that addresses up to 15 reach past the *)
(* memory and every instruction longer than a few rows crosses from layer  *)
(* to layer; and texts of five statements, whose layers two operations     *)
(* fill.  A behaviour is one of them.                                      *)
EXTENDS CodeRun, LinkProgram

VARIABLE part  \* "program", "code" or "text"

(* Layers with 28 rows to fill: an addition and moves, or two bit          *)
(* operations.                                                             *)
A == 524296
B == 524304
C == 524312
MCWords == {A, B, C}
MCOperands == {<<A, A, B>>, <<C, A, B>>, <<A + 1, A, B>>, <<CodeBegin + 4000, A, B>>}
MCTables == [op \in {"add", "sub", "and", "or", "xor"} |->
  CASE op = "add" -> 524320 [] op = "sub" -> 524336 [] op = "and" -> 524352
    [] op = "or" -> 524356 [] op = "xor" -> 524360]
MCInputs == {[w \in MCWords |-> CASE w = A -> a [] w = B -> 13 [] OTHER -> 2] : a \in {5, 6}}

MCZeros == {CodeBegin - 4096, CodeBegin + 4096}

ASSUME MCTextAssumption == TextAssumption

SP == REG_BASE + 32
R0 == REG_BASE + 64
R1 == REG_BASE + 96
One(i) == <<i>>
MCCases ==
  {<<One(<<op, "b">>), R0, R1>> : op \in {"mul", "udiv", "umod", "div", "mod",
     "ashl", "lshr", "ashr", "neg", "not", "zex", "sex", "add", "sub",
     "and", "or", "xor", "mov"}}
  \cup {<<One(<<op, "b">>), R0, R0>> : op \in {"mul", "div", "mod", "ashl", "sub"}}
  \cup {<<One(<<op, 5>>), R0, R1>> : op \in {"inc", "dec"}}
  \cup {<<One(<<op, "s", k>>), R0, R1>> : op \in {"ld", "st"}, k \in {0, 3}}
  \cup {<<One(<<"ld", "l", 0>>), R0, R0>>, <<One(<<"st", "b", 0>>), R0, R1>>,
        <<One(<<"push">>), SP, R0>>, <<One(<<"pop">>), SP, R0>>,
        <<One(<<"push">>), SP, SP>>, <<One(<<"pop">>), SP, SP>>}
  \cup {<<One(<<"cmp">>), R0, R1>>}
  \cup {<< << <<"cmp">>, <<"branch", name, Taken>> >>, R0, R1>> :
          name \in {"eq", "ne", "lt", "ge", "le", "gt", "ltu", "geu", "leu", "gtu"}}
MCInputValues == 0 .. 15
MCFlagSets == {{CMP_EQ, CMP_LTS}}
MCMemoryBits == {{0, 3, 4, 6}}

MCStatements ==
  {<<"label", n>> : n \in Names} \cup {<<"op", 1>>, Cmp, <<"ret">>, <<"trap">>}
  \cup {<<"branch", "h">>, <<"jump", "g">>, <<"call", "f">>, <<"call", "g">>, <<"data", "g">>,
        <<"weak", "g">>, <<"weak", "h">>, <<"set", "g", "h">>, <<"set", "h", "g">>, <<"set", "h", "f">>}

(* The parts that a behaviour does without.                                *)
NoCode == /\ case = <<>> /\ steps = <<>> /\ code = [p |-> [ok |-> TRUE]] /\ given = <<>>
          /\ running = FALSE /\ rows = <<>> /\ bits = {} /\ loaded = 0 /\ ticks = 0

NoProgram == /\ program = <<>> /\ calls = 0 /\ space = {} /\ started = FALSE /\ current = 0
             /\ blocks = <<>> /\ follows = <<>>

MCInit == \/ part = "code" /\ Init /\ NoProgram /\ TextInit
          \/ part = "program" /\ ProgramInit /\ NoCode /\ TextInit
          \/ part = "text" /\ TextInit /\ NoCode /\ NoProgram

MCNext == /\ UNCHANGED part
          /\ \/ part = "code" /\ Next /\ UNCHANGED <<copyVars, vars>>
             \/ part = "program" /\ ProgramNext /\ UNCHANGED <<runVars, vars>>
             \/ part = "text" /\ TextNext /\ UNCHANGED <<runVars, copyVars>>

MCSpec == MCInit /\ [][MCNext]_<<part, runVars, copyVars, vars>>
=============================================================================
