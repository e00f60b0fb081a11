----------------------------- MODULE GuestMain -----------------------------
(***************************************************************************)
(* A guest from its job to its answer (__wrap_main of runtime/gcc/main.c): *)
(* the job is read as in GuestJob, the options at the front of its         *)
(* arguments are taken, the program runs with what is left, and when it    *)
(* exits, or when something before was refused, the answer is given as in  *)
(* GuestResponse.                                                          *)
(***************************************************************************)
EXTENDS GuestJob, GuestResponse

CONSTANTS Option,       \* what an argument means: [opt, good, dash]
          ArgumentMax,  \* entries of copy_arguments
          ObjectMax,    \* entries of copy_objects
          Invalid       \* the messages for a job that cannot be read, and
                        \* for an output file without a name

ASSUME MainAssumption ==
  /\ ArgumentMax \in Nat /\ ObjectMax \in Nat /\ Invalid \in Seq(Nat)
  /\ None \notin DOMAIN Option    \* an option is not the empty text
  /\ \A a \in DOMAIN Option : Option[a].good \in BOOLEAN /\ Option[a].dash \in BOOLEAN

NotRun == 125

VARIABLES main,      \* "read", "options", "run" or "failed"
          consumed,  \* the arguments taken, the program's name included
          chosen,    \* what the options have said so far
          args       \* what the program is given

mainVars == <<main, consumed, chosen, args>>
jobVars == vars
guestVars == <<jobVars, answerVars, mainVars>>

Nothing == [mode |-> "none", arguments |-> 0, objects |-> 0, library |-> FALSE, alone |-> FALSE]

OptionOf(a) ==
  IF a \in DOMAIN Option THEN Option[a] ELSE [opt |-> "none", good |-> TRUE, dash |-> FALSE]

GuestInit == /\ Init /\ AnswerInit
             /\ output = [asked |-> FALSE, lower |-> FALSE]
             /\ main = "read" /\ consumed = 1 /\ chosen = Nothing /\ args = None

(* The job is read once.                                                   *)
ReadJob == /\ main = "read" /\ error = "none" /\ job = None
           /\ \/ Read \/ Deliver \/ Break \/ Header \/ Length \/ Argument \/ Decode
           /\ UNCHANGED <<answerVars, mainVars>>

(* main returns 125, and exit leads to cs_gcc_finish.                      *)
Fails125 == /\ main' = "failed" /\ status' = NotRun /\ pc' = "finish"
            /\ UNCHANGED <<consumed, args, file, left, sent, code>>

Refuse == /\ main = "read" /\ stage = "idle" /\ error # "none"
          /\ Fails125 /\ Captures(2, Invalid)
          /\ UNCHANGED <<jobVars, output, chosen>>

Runs(with) == /\ main' = "run" /\ args' = with
              /\ UNCHANGED <<captured, file, status, pc, left, sent, code>>

(* The first argument may ask for an output file, and for its lowering.    *)
First == IF Len(job) > 1 THEN OptionOf(job[2]) ELSE OptionOf(None)

Begin ==
  /\ main = "read" /\ job # None
  /\ IF First.opt \in {"copy", "program"}
     THEN IF ~First.good \/ First.dash THEN Fails125 /\ UNCHANGED <<captured, output, chosen>>
          ELSE /\ main' = "options" /\ consumed' = 2
               /\ chosen' = [chosen EXCEPT !.mode = First.opt]
               /\ output' = [asked |-> TRUE, lower |-> TRUE]
               /\ UNCHANGED <<args, captured, file, status, pc, left, sent, code>>
     ELSE IF First.opt = "result"
     THEN IF ~First.good
          THEN Fails125 /\ Captures(2, Invalid) /\ UNCHANGED <<output, chosen>>
          ELSE /\ Runs(RemoveAt(job, 2))
               /\ output' = [asked |-> ~First.dash, lower |-> FALSE]
               /\ chosen' = [chosen EXCEPT !.mode = "result"]
               /\ UNCHANGED consumed
     ELSE Runs(job) /\ UNCHANGED <<consumed, output, chosen>>
  /\ UNCHANGED jobVars

Leading == {"entry", "argument", "memory", "object", "library", "alone"}

Here == IF consumed < Len(job) THEN OptionOf(job[consumed + 1]) ELSE OptionOf(None)

(* Mutant: a second library replaces the first.                            *)
RefusedTwice(o) ==
  \/ ~o.good
  \/ o.opt \notin {"entry", "argument"} /\ chosen.mode # "program"
  \/ o.opt = "argument" /\ chosen.arguments = ArgumentMax
  \/ o.opt = "object" /\ chosen.objects = ObjectMax

(* An option that is not understood or not allowed here.                   *)
RefusedOption(o) ==
  \/ ~o.good
  \/ o.opt \notin {"entry", "argument"} /\ chosen.mode # "program"
  \/ o.opt = "argument" /\ chosen.arguments = ArgumentMax
  \/ o.opt = "object" /\ chosen.objects = ObjectMax
  \/ o.opt = "library" /\ chosen.library
  \/ o.opt = "alone" /\ chosen.alone

Take == /\ main = "options" /\ Here.opt \in Leading
        /\ IF RefusedOption(Here) THEN Fails125 /\ UNCHANGED <<captured, output, chosen>>
           ELSE /\ consumed' = consumed + 1
                /\ chosen' = [chosen EXCEPT
                     !.arguments = @ + (IF Here.opt = "argument" THEN 1 ELSE 0),
                     !.objects = @ + (IF Here.opt = "object" THEN 1 ELSE 0),
                     !.library = @ \/ Here.opt = "library",
                     !.alone = @ \/ Here.opt = "alone"]
                /\ UNCHANGED <<main, args, answerVars>>
        /\ UNCHANGED jobVars

(* The program's own arguments close up to its name.                       *)
Ready == /\ main = "options" /\ Here.opt \notin Leading
         /\ Runs(<<job[1]>> \o SubSeq(job, consumed + 1, Len(job)))
         /\ UNCHANGED <<jobVars, output, consumed, chosen>>

(* The program runs and exits, and the answer goes out.                    *)
Answers == /\ main \in {"run", "failed"}
           /\ AnswerNext
           /\ UNCHANGED <<jobVars, mainVars>>

GuestNext == ReadJob \/ Refuse \/ Begin \/ Take \/ Ready \/ Answers
GuestSpec == GuestInit /\ [][GuestNext]_guestVars
-----------------------------------------------------------------------------
(* What a command line means, read as a whole: the options behind the      *)
(* first, as far as they go, each allowed, and what is left.               *)
Run(j) == CHOOSE k \in 1 .. Len(j) :
            /\ \A at \in 3 .. k : OptionOf(j[at]).opt \in Leading
            /\ k < 2 \/ k = Len(j) \/ OptionOf(j[k + 1]).opt \notin Leading
            /\ Len(j) > 1 => k > 1
Opts(j, what) == {at \in 3 .. Run(j) : OptionOf(j[at]).opt \in what}

Proper(j) ==
  LET first == IF Len(j) > 1 THEN OptionOf(j[2]) ELSE OptionOf(None)
  IN  CASE first.opt = "result" -> first.good
        [] first.opt \in {"copy", "program"} ->
             /\ first.good /\ ~first.dash
             /\ \A at \in 3 .. Run(j) : OptionOf(j[at]).good
             /\ Cardinality(Opts(j, {"argument"})) <= ArgumentMax
             /\ Cardinality(Opts(j, {"object"})) <= ObjectMax
             /\ \A o \in {"library", "alone"} : Cardinality(Opts(j, {o})) <= 1
             /\ first.opt = "copy" => Opts(j, Leading \ {"entry", "argument"}) = {}
        [] OTHER -> TRUE

Left(j) ==
  LET first == IF Len(j) > 1 THEN OptionOf(j[2]).opt ELSE "none"
  IN  CASE first = "result" -> <<j[1]>> \o SubSeq(j, 3, Len(j))
        [] first \in {"copy", "program"} -> <<j[1]>> \o SubSeq(j, Run(j) + 1, Len(j))
        [] OTHER -> j

(* A program runs only if its job was read and every option in front of    *)
(* its arguments allowed, and then with the other arguments only; any      *)
(* other guest answers 125 and no file.  An answer with a file is that of  *)
(* a success whose job asked for one, and is lowered only if that was asked.*)
RunsAsAsked ==
  /\ main = "run" => job # None /\ Proper(job) /\ args = Left(job)
  /\ main = "failed" => job = None \/ ~Proper(job)
  /\ AnswerDecodable(sent) =>
       /\ main = "failed" => Decoded(sent).status = NotRun
       /\ Decoded(sent).file # <<>> =>
            /\ main = "run" /\ Decoded(sent).status = 0
            /\ OptionOf(job[2]).opt \in {"result", "copy", "program"} /\ ~OptionOf(job[2]).dash
            /\ Decoded(sent).file \in Images \ Files =>
                 OptionOf(job[2]).opt \in {"copy", "program"}
=============================================================================
