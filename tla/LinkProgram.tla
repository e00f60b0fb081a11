----------------------------- MODULE LinkProgram -----------------------------
(***************************************************************************)
(* link_image of runtime/gcc/copy_link.c in program mode: statements are   *)
(* taken one by one, their rows go into layers, every change of control    *)
(* ends a layer, and when the text has ended the layers' jumps are given   *)
(* their targets.  Then the layers run beside the text they were made of.  *)
(* What rows compute is left out (CodeRun); a statement that only computes *)
(* takes one of a layer's LayerRoom places, a branch two.                  *)
(***************************************************************************)
EXTENDS Integers, SequencesExt, FiniteSets, TLC, Functions

CONSTANTS Names,         \* of labels
          Main,          \* the function the program starts with
          Locals,        \* labels within a function, whose names start with .L
          Statements,    \* what the text may hold
          MaxText,       \* bound: statements of a text
          LayerRoom,     \* places in a layer
          JumpRoom,      \* CS_COPY_JUMP_CAPACITY
          CallRoom,      \* CS_COPY_CALL_CAPACITY
          Frames         \* calls the stack has memory for

Return == "return handler"
MemoryFault == "memory fault"
Report == "report"

(* copy.cmp, one of the operations.                                        *)
Cmp == <<"op", 0>>

(* A text is made of these statements.  A layer has room for a branch, and *)
(* names of the text are not the linker's own.                             *)
TextAssumption ==
  /\ IsFiniteSet(Names) /\ Main \in Names /\ Locals \subseteq Names
  /\ Names \cap {Return, MemoryFault, Report} = {}
  /\ Statements \subseteq
       ({"label", "data", "weak", "branch", "call", "jump"} \X Names)
       \cup ({"set"} \X Names \X Names) \cup ({"op"} \X Nat) \cup {<<"ret">>, <<"trap">>}
  /\ LayerRoom \in Nat /\ LayerRoom >= 2
  /\ JumpRoom \in Nat \ {0} /\ CallRoom \in Nat \ {0} /\ Frames \in Nat /\ MaxText \in Nat

VARIABLES text, phase,                    \* "text", "run", "refused" or "rejected"
          layers,                         \* their places, and where they lead
          labels, data, weak, aliases, jumps,
          compared, callCount,            \* a branch has a comparison to go by
          entered, terminated, ended,     \* ended: a return or a trap was seen
          at, place, frames, stopped,     \* the layers' run
          pc, returns                       \* the text's run

compareVars == <<compared, callCount>>
linkVars == <<text, layers, labels, data, weak, aliases, jumps, compareVars,
              entered, terminated, ended>>
stepVars == <<at, place, frames, stopped, pc, returns>>
vars == <<phase, linkVars, stepVars>>

Here == Len(layers)
Empty == [items |-> <<>>, exit |-> [sort |-> "flow"]]

(* The state of the linker as a record, for what takes several calls.      *)
Work == [layers |-> layers, jumps |-> jumps, labels |-> labels]

(* cs_copy_program_next, and an item in a layer with room for n places.    *)
Opened(w) == [w EXCEPT !.layers = Append(@, Empty)]
Places(l) == Len(l.items)
Roomy(w, n) == IF Places(w.layers[Len(w.layers)]) + n > LayerRoom THEN Opened(w) ELSE w
Item(w, item) == [w EXCEPT !.layers[Len(w.layers)].items = Append(@, item)]
With(f, name, v) == [n \in DOMAIN f \cup {name} |-> IF n = name THEN v ELSE f[n]]
Marked(w, name) == [w EXCEPT !.labels = With(@, name, Len(w.layers))]

(* jump                                                                    *)
Depart(w, sort, name) ==
  Opened([w EXCEPT !.jumps = Append(@, [layer |-> Len(w.layers), sort |-> sort, name |-> name])])

(* The record becomes the state.                                           *)
Becomes(w) == /\ layers' = w.layers /\ jumps' = w.jumps /\ labels' = w.labels

TextInit ==
  /\ text = <<>> /\ phase = "text"
  /\ layers = Depart([layers |-> <<Empty>>, jumps |-> <<>>, labels |-> <<>>],
                    "start", Main).layers
  /\ jumps = <<[layer |-> 1, sort |-> "start", name |-> Main]>>
  /\ labels = <<>> /\ data = {} /\ weak = {} /\ aliases = <<>>
  /\ compared = FALSE /\ callCount = 0
  /\ entered = FALSE /\ terminated = FALSE /\ ended = FALSE
  /\ at = 1 /\ place = 1 /\ frames = <<>> /\ stopped = FALSE
  /\ pc = 1 /\ returns = <<>>

Refuse == phase' = "refused" /\ UNCHANGED <<layers, labels, data, weak, aliases,
                                            jumps, compareVars, entered, terminated,
                                            ended, stepVars>>

(* The capacity of the table of jumps.                                     *)
Full == Len(jumps) = JumpRoom

TakenNames == DOMAIN labels \cup data \cup DOMAIN aliases

(* A comparison holds to the end of its function.                          *)
Forgets(name) == compared' = (compared /\ name \in Locals) /\ UNCHANGED callCount

(* Mutant: a label does not begin a layer.                                 *)
LabelWithin(name) ==
  IF name \in TakenNames THEN Refuse
  ELSE /\ Becomes(Marked(Work, name))
       /\ entered' = TRUE /\ terminated' = FALSE /\ Forgets(name)
       /\ UNCHANGED <<phase, data, weak, aliases, ended, stepVars>>

(* A label begins a layer, for jumps lead to layers.                       *)
Label(name) ==
  IF name \in TakenNames THEN Refuse
  ELSE /\ Becomes(Marked(IF Places(layers[Here]) = 0 THEN Work ELSE Opened(Work), name))
       /\ entered' = TRUE /\ terminated' = FALSE /\ Forgets(name)
       /\ UNCHANGED <<phase, data, weak, aliases, ended, stepVars>>

(* .set: the address is that of another label.                             *)
Alias(name, of) ==
  IF name \in TakenNames THEN Refuse
  ELSE /\ aliases' = With(aliases, name, of)
       /\ UNCHANGED <<phase, layers, labels, data, weak, jumps, compareVars, entered,
                      terminated, ended, stepVars>>

(* A label in a data section, and a weak declaration.                      *)
Data(name) ==
  IF name \in TakenNames THEN Refuse
  ELSE /\ data' = data \cup {name}
       /\ UNCHANGED <<phase, layers, labels, weak, aliases, jumps, compareVars, entered,
                      terminated, ended, stepVars>>

Weak(name) ==
  /\ weak' = weak \cup {name}
  /\ UNCHANGED <<phase, layers, labels, data, aliases, jumps, compareVars, entered,
                 terminated, ended, stepVars>>

(* An operation stands in a function, and not behind one that leaves it.   *)
Reached == entered /\ ~terminated

Plain(w) == /\ Becomes(w)
            /\ UNCHANGED <<phase, data, weak, aliases, entered, terminated, ended, stepVars>>

Compute(s) ==
  IF Reached
  THEN /\ Plain(Item(Roomy(Work, 1), s))
       /\ compared' = (compared \/ s = Cmp) /\ UNCHANGED callCount
  ELSE Refuse

(* branch and conditional_jump; the two layers' addresses go into its table. *)
BranchTo(name) ==
  IF Reached /\ compared /\ ~Full
  THEN Plain(Depart(Roomy(Work, 2), "branch", name)) /\ UNCHANGED compareVars
  ELSE Refuse

(* memory_access: a jump to the fault's layer, on an address out of memory. *)
MemoryAccess(w) == Depart(Roomy(w, 2), "memory", MemoryFault)

(* call: a frame is stored that says to return to the layer after the jump. *)
Call(name) ==
  IF Reached /\ callCount < CallRoom /\ Len(jumps) + 3 <= JumpRoom
  THEN /\ LET w == Roomy(MemoryAccess(MemoryAccess(Work)), 1)
          IN  Plain(Depart(Item(w, <<"call", Len(w.layers) + 1>>), "call", name))
       /\ callCount' = callCount + 1 /\ UNCHANGED compared
  ELSE Refuse

(* copy.jmpa, copy.ret and copy.trap end what can be reached.              *)
Final(sort, name) ==
  IF Reached /\ ~Full
  THEN /\ Becomes(Depart(Work, sort, name))
       /\ terminated' = TRUE
       /\ ended' = (ended \/ sort # "jump")
       /\ UNCHANGED <<phase, data, weak, aliases, compareVars, entered, stepVars>>
  ELSE Refuse

Statement ==
  /\ phase = "text" /\ Len(text) < MaxText
  /\ \E s \in Statements :
       /\ text' = Append(text, s)
       /\ CASE s[1] = "label"  -> Label(s[2])
            [] s[1] = "data"   -> Data(s[2])
            [] s[1] = "set"    -> Alias(s[2], s[3])
            [] s[1] = "weak"   -> Weak(s[2])
            [] s[1] = "op"     -> Compute(s)
            [] s[1] = "branch" -> BranchTo(s[2])
            [] s[1] = "call"   -> Call(s[2])
            [] s[1] = "jump"   -> Final("jump", s[2])
            [] s[1] = "ret"    -> Final("return", Return)
            [] s[1] = "trap"   -> Final("trap", MemoryFault)
-----------------------------------------------------------------------------
(* The text as it is meant.  A position is a statement's, 0 for the fault, *)
(* and the end of the text returns.                                        *)
Does(s) == s[1] \in {"op", "branch", "call", "jump", "ret", "trap"}

FirstOf(S) == CHOOSE i \in S : \A j \in S : i <= j

Real(i) == IF i = 0 THEN 0
           ELSE FirstOf({j \in i .. Len(text) : Does(text[j])} \cup {Len(text) + 1})

(* What a name stands for in the end.                                      *)
SetTo(n) == {m \in Names : <<"set", n, m>> \in Range(text)}
Onward(root) == [n \in Names |-> IF SetTo(n) = {} THEN n
                                ELSE root[CHOOSE m \in SetTo(n) : TRUE]]
Roots == LET root[k \in 0 .. Cardinality(Names)] ==
               IF k = 0 THEN [n \in Names |-> n] ELSE Onward(root[k - 1])
         IN  root[Cardinality(Names)]
Stands(n) == Roots[n]

Place(n) ==
  LET places == {i \in DOMAIN text : text[i] = <<"label", Stands(n)>>}
  IN  IF places = {} THEN 0 ELSE FirstOf(places)

-----------------------------------------------------------------------------
(* layout_data: the undefined weak labels lead to the fault's layer; the   *)
(* aliases are resolved in passes, as many as there are aliases.           *)
Known == [n \in DOMAIN labels \cup data \cup (weak \ TakenNames) |->
            IF n \in DOMAIN labels THEN [sort |-> "code", layer |-> labels[n]]
            ELSE IF n \in data THEN [sort |-> "data"] ELSE [sort |-> "missing"]]

(* One pass over the aliases.                                              *)
AliasPass(known) ==
  [n \in DOMAIN known \cup {a \in DOMAIN aliases : aliases[a] \in DOMAIN known} |->
     IF n \in DOMAIN known THEN known[n] ELSE known[aliases[n]]]

ResolvedOnce == AliasPass(Known)  \* mutant: there is one pass

Resolved ==
  LET known[r \in 0 .. Cardinality(DOMAIN aliases)] ==
        IF r = 0 THEN Known ELSE AliasPass(known[r - 1])
  IN  known[Cardinality(DOMAIN aliases)]

(* Return, fault and report layers behind the text's.                      *)
Tailed ==
  LET handler == MemoryAccess(MemoryAccess(Marked(Opened(Work), Return)))
      back == Opened(Item(Roomy(handler, 2), <<"return">>))
      fault == Marked(Opened(Depart(back, "done", Report)), MemoryFault)
  IN  Marked(Opened(Opened(fault)), Report)

Target(w, known, j) ==
  IF j.name \in {Return, MemoryFault, Report} THEN w.labels[j.name]
  ELSE IF known[j.name].sort = "missing" THEN w.labels[MemoryFault] ELSE known[j.name].layer

Linked(w, known) ==
  [i \in DOMAIN w.layers |->
     LET js == {j \in Range(w.jumps) : j.layer = i}
     IN  [w.layers[i] EXCEPT !.exit =
            IF i \in {w.labels[MemoryFault], w.labels[Report]} THEN [sort |-> "stop"]
            ELSE IF js = {} THEN [sort |-> "flow"]
            ELSE LET j == CHOOSE k \in js : TRUE
                 IN  [sort |-> j.sort, to |-> Target(w, known, j)]]]

FinishText ==
  /\ phase = "text"
  /\ LET known == Resolved
         w == Tailed
         names == {j.name : j \in Range(w.jumps)} \ {Return, MemoryFault, Report}
     IN  IF /\ entered /\ ended
            /\ DOMAIN aliases \subseteq DOMAIN known
            /\ Main \in DOMAIN known /\ known[Main].sort = "code"
            /\ names \subseteq DOMAIN known
            /\ \A n \in names : known[n].sort # "data"
            /\ Len(w.jumps) <= JumpRoom
         THEN /\ phase' = "run"
              /\ layers' = Linked(w, known) /\ labels' = w.labels /\ jumps' = w.jumps
              /\ pc' = Place(Main)
         ELSE phase' = "rejected" /\ UNCHANGED <<layers, labels, jumps, pc>>
  /\ UNCHANGED <<text, data, weak, aliases, compareVars, entered, terminated, ended,
                 at, place, frames, stopped, returns>>
-----------------------------------------------------------------------------
(* What the text does next.                                               *)
TextEvent ==
  LET i == Real(pc)
      s == text[i]
  IN  CASE i = 0 -> <<"fault">>
        [] i = Len(text) + 1 -> <<"return">>
        [] i \in DOMAIN text /\ s[1] = "op" -> s
        [] i \in DOMAIN text /\ s[1] \in {"branch", "jump"} -> <<s[1]>>
        [] i \in DOMAIN text /\ s[1] = "call" ->
             IF Len(returns) = Frames THEN <<"fault">> ELSE <<"call">>
        [] i \in DOMAIN text /\ s[1] = "ret" -> <<"return">>
        [] i \in DOMAIN text /\ s[1] = "trap" -> <<"fault">>

(* The text does its event; chosen is the flag a branch tests.             *)
TextStep(chosen) ==
  LET i == Real(pc)
      e == TextEvent[1]
  IN  CASE e = "op" -> pc' = i + 1 /\ UNCHANGED returns
        [] e = "jump" -> pc' = Place(text[i][2]) /\ UNCHANGED returns
        [] e = "branch" -> pc' = (IF chosen THEN Place(text[i][2]) ELSE i + 1) /\ UNCHANGED returns
        [] e = "call" -> pc' = Place(text[i][2]) /\ returns' = <<i + 1>> \o returns
        [] e = "return" /\ returns # <<>> -> pc' = Head(returns) /\ returns' = Tail(returns)
        [] OTHER -> UNCHANGED <<pc, returns>>
-----------------------------------------------------------------------------
(* The run of the layers.                                                  *)
Standing == layers[at]
Pending == place <= Len(Standing.items)

LayerEvent ==
  IF Pending THEN (IF Standing.items[place][1] = "call" THEN <<"call">> ELSE Standing.items[place])
  ELSE IF at = labels[MemoryFault] THEN <<"fault">>
  ELSE IF at = labels[Report] THEN <<"report">>
  ELSE <<Standing.exit.sort>>

To(l) == at' = l /\ place' = 1

(* A row does what the text does next.                                     *)
RunItem ==
  /\ phase = "run" /\ ~stopped /\ Pending
  /\ LET e == Standing.items[place]
     IN  /\ CASE e[1] = "op" -> place' = place + 1 /\ UNCHANGED <<at, frames>>
              [] e[1] = "call" -> /\ frames' = <<e[2]>> \o frames
                                  /\ place' = place + 1 /\ UNCHANGED at
              [] e[1] = "return" ->
                   IF frames = <<>> THEN To(labels[Report]) /\ UNCHANGED frames
                   ELSE To(Head(frames)) /\ frames' = Tail(frames)
  /\ TextStep(FALSE)
  /\ UNCHANGED <<phase, linkVars, stopped>>

(* The last row loads the next layer.                                      *)
RunJump ==
  /\ phase = "run" /\ ~stopped /\ ~Pending /\ Standing.exit.sort \in {"jump", "branch"}
  /\ \E chosen \in IF Standing.exit.sort = "jump" THEN {TRUE} ELSE BOOLEAN :
       /\ To(IF chosen THEN Standing.exit.to ELSE at + 1)
       /\ TextStep(chosen)
  /\ UNCHANGED <<phase, linkVars, frames, stopped>>

RunOn ==
  /\ phase = "run" /\ ~stopped /\ ~Pending
  /\ Standing.exit.sort \notin {"jump", "branch", "stop"}
  /\ CASE Standing.exit.sort = "flow" -> To(at + 1)
       [] Standing.exit.sort = "memory" ->
            To(IF Len(frames) = Frames /\ at < labels[Return] THEN Standing.exit.to ELSE at + 1)
       [] OTHER -> To(Standing.exit.to)
  /\ UNCHANGED <<phase, linkVars, frames, stopped, pc, returns>>

Stop ==
  /\ phase = "run" /\ ~stopped /\ ~Pending /\ Standing.exit.sort = "stop"
  /\ stopped' = TRUE
  /\ UNCHANGED <<phase, linkVars, at, place, frames, pc, returns>>

TextNext == Statement \/ FinishText \/ RunItem \/ RunJump \/ RunOn \/ Stop
TextSpec == TextInit /\ [][TextNext]_vars
-----------------------------------------------------------------------------
(* The linked program does what its text says, event by event: the same    *)
(* operations, jumps, branches and calls, a return to behind its call      *)
(* however deep, and the fault for a trap, for a function that is weak and *)
(* missing and for a frame that memory has no room for.                    *)
InStep ==
  phase = "run" =>
    CASE LayerEvent[1] \in {"flow", "memory", "return", "trap", "start", "call", "done"}
           /\ ~Pending -> TRUE
      [] LayerEvent = <<"report">> -> TextEvent = <<"return">> /\ returns = <<>>
      [] OTHER -> LayerEvent = TextEvent /\ Len(frames) = Len(returns)

(* What a text must be to have a meaning: names are given once, operations *)
(* can be reached, a branch stands behind a comparison of its function,    *)
(* something returns or traps, names and aliases lead to functions, the    *)
(* entry's to one that is there, and calls and jumps are not too many.     *)
Gives(s) == s[1] \in {"label", "data", "set"}
CodeAt(i) == text[i][1] = "label" \/ Does(text[i])
Enters(i) == \E k \in 1 .. (i - 1) :
               /\ CodeAt(k) /\ text[k][1] \notin {"jump", "ret", "trap"}
               /\ \A j \in (k + 1) .. (i - 1) : ~CodeAt(j)
Compares(i) == \E k \in 1 .. (i - 1) :
                 /\ text[k] = Cmp
                 /\ \A j \in (k + 1) .. (i - 1) : text[j][1] = "label" => text[j][2] \in Locals
Among(kinds) == {i \in DOMAIN text : text[i][1] \in kinds}
Jumps == 1 + Cardinality(Among({"branch", "jump", "ret", "trap"}))
           + 3 * Cardinality(Among({"call"}))

WellMade ==
  /\ \A i, j \in DOMAIN text :
       Gives(text[i]) /\ Gives(text[j]) /\ text[i][2] = text[j][2] => i = j
  /\ \A i \in DOMAIN text : Does(text[i]) => Enters(i)
  /\ \A i \in Among({"branch"}) : Compares(i)
  /\ Cardinality(Among({"call"})) <= CallRoom
  /\ Jumps <= JumpRoom

IsCode(n) == <<"label", Stands(n)>> \in Range(text)
IsMissing(n) == /\ <<"weak", Stands(n)>> \in Range(text)
                /\ \A s \in Range(text) : ~(Gives(s) /\ s[2] = Stands(n))
IsData(n) == <<"data", Stands(n)>> \in Range(text)

TextMeant ==
  /\ WellMade
  /\ \E s \in Range(text) : s[1] \in {"ret", "trap"}
  /\ IsCode(Main)
  /\ \A s \in Range(text) :
       /\ s[1] \in {"branch", "call", "jump"} => IsCode(s[2]) \/ IsMissing(s[2])
       /\ s[1] = "set" => IsCode(s[2]) \/ IsMissing(s[2]) \/ IsData(s[2])
  /\ Jumps + 3 <= JumpRoom

(* The linker refuses a text that has no meaning, and no other of those    *)
(* that its other tables and the space have room for.                      *)
Refuses ==
  /\ phase \in {"text", "run", "rejected"} => WellMade
  /\ phase = "refused" => ~WellMade
  /\ phase = "run" => TextMeant
  /\ phase = "rejected" => ~TextMeant
=============================================================================
