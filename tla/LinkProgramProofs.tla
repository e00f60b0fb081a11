-------------------------- MODULE LinkProgramProofs --------------------------
(***************************************************************************)
(* Linked programs run in step with their texts (LinkProgram), and the     *)
(* texts refused are those without a meaning, for every text that the      *)
(* linker's unmodelled tables have room for, any names, any room for calls *)
(* and jumps, any depth of calls and layers of any room.                   *)
(*                                                                         *)
(* While the text is read, every statement has a point of the layers that  *)
(* it was begun at (lay, off) and, if it does something, one where its     *)
(* rows stand (on, to): Built.  The names of the text are those the linker *)
(* has put down (Named), and it resolves them to what they stand for       *)
(* (KnownIs).  When the jumps are linked they lead where the text goes     *)
(* (Image), and a run is at the rows of what the text does next, on its    *)
(* way there, or in the middle of a call (RunInv).                         *)
(*                                                                         *)
(* What the linker has taken down tells whether the text read so far may   *)
(* go on (Counts): the next statement is refused when that one spoils it   *)
(* (StatementCounts), and what is asked when the text ends is that its     *)
(* names lead somewhere (FinishMeans), for the passes settle (Settles).    *)
(***************************************************************************)
EXTENDS LinkProgram, FiniteSetTheorems, WellFoundedInduction, TLAPS

(* What layers and jumps are made of.                                      *)
Rows == Statements \cup ({"call"} \X Nat) \cup {<<"return">>}
Flowing == [items : Seq(Rows), exit : {[sort |-> "flow"]}]
Sorts == {"start", "branch", "jump", "memory", "call", "return", "trap", "done"}
Leaving == [layer : Nat, sort : Sorts, name : Names \cup {Return, MemoryFault, Report}]

(* No jump of J leaves layer l.                                            *)
Quiet(J, l) == \A j \in Range(J) : j.layer # l

(* From place p of layer l a run comes to place q of layer m, if that is   *)
(* not the same already: the first layer has no more rows.  Only the       *)
(* layers before e are complete.                                           *)
Onto(L, J, e, l, p, m, q) ==
  \/ m = l /\ q = p
  \/ m = l + 1 /\ q = 1 /\ l < e /\ Len(L[l].items) = p - 1 /\ Quiet(J, l)

(* Place p of layer l is the jump that the layer ends with.                *)
Left(L, J, e, l, p, sort, name) ==
  l < e /\ Len(L[l].items) = p - 1 /\ [layer |-> l, sort |-> sort, name |-> name] \in Range(J)

(* The rows of statement s stand at place p of layer l, and what follows   *)
(* them at place q of layer m.                                             *)
Compiled(L, J, e, s, l, p, m, q) ==
  /\ s[1] = "op" => p \in 1 .. Len(L[l].items) /\ L[l].items[p] = s /\ m = l /\ q = p + 1
  /\ s[1] # "op" => q = 1
  /\ s[1] \in {"branch", "jump"} => Left(L, J, e, l, p, s[1], s[2]) /\ m = l + 1
  /\ s[1] = "ret" => Left(L, J, e, l, p, "return", Return) /\ m = l + 1
  /\ s[1] = "trap" => Left(L, J, e, l, p, "trap", MemoryFault) /\ m = l + 1
  /\ s[1] = "call" => /\ Left(L, J, e, l, p, "memory", MemoryFault)
                      /\ Left(L, J, e, l + 1, 1, "memory", MemoryFault)
                      /\ Left(L, J, e, l + 2, 2, "call", s[2])
                      /\ L[l + 2].items[1] = <<"call", l + 3>> /\ m = l + 3

(* Nothing is done by the statements from i to before j.                   *)
Idle(t, i, j) == \A k \in i .. j - 1 : ~Does(t[k])

(* The layers L up to e, with jumps J and labels B, are those of text t.   *)
Built(t, L, J, B, e, lay, off, on, to) ==
  /\ lay[Len(t) + 1] = e /\ off[Len(t) + 1] = Len(L[e].items) + 1
  /\ \A i \in 1 .. Len(t) + 1 : lay[i] \in 1 .. e
  /\ \A i \in 1 .. Len(t) : Does(t[i]) =>
       on[i] \in 1 .. e /\ Compiled(L, J, e, t[i], on[i], to[i], lay[i + 1], off[i + 1])
  /\ \A i \in 1 .. Len(t) : \A j \in i .. Len(t) : Does(t[j]) /\ Idle(t, i, j) =>
       Onto(L, J, e, lay[i], off[i], on[j], to[j])
  /\ \A i \in 1 .. Len(t) + 1 : Idle(t, i, Len(t) + 1) =>
       Onto(L, J, e, lay[i], off[i], e, Len(L[e].items) + 1)
  /\ \A i \in 1 .. Len(t) : t[i][1] = "label" =>
       t[i][2] \in DOMAIN B /\ B[t[i][2]] = lay[i + 1] /\ off[i + 1] = 1

(* The names that the linker has put down are those of the text.           *)
Named(t, B, A, D) ==
  /\ \A n \in DOMAIN B \cap Names : \E i \in 1 .. Len(t) : t[i] = <<"label", n>>
  /\ \A i, j \in 1 .. Len(t) :
       t[i][1] = "label" /\ t[j][1] = "label" /\ t[i][2] = t[j][2] => i = j
  /\ \A i \in 1 .. Len(t) : t[i][1] = "set" =>
       t[i][2] \in DOMAIN A /\ A[t[i][2]] = t[i][3]
  /\ \A n \in DOMAIN A : n \in Names /\ A[n] \in Names
                         /\ \E i \in 1 .. Len(t) : t[i] = <<"set", n, A[n]>>
  /\ DOMAIN A \cap (DOMAIN B \cup D) = {}

(* A layer is left in one way.                                             *)
LeftOnce(J, e) ==
  /\ \A j \in Range(J) : j.layer \in 1 .. e - 1
  /\ \A j, k \in Range(J) : j.layer = k.layer => j = k

Starts(L, J) == /\ L[1].items = <<>>
                /\ [layer |-> 1, sort |-> "start", name |-> Main] \in Range(J)

Points(lay, off, on, to) == /\ lay \in [Nat -> Nat] /\ off \in [Nat -> Nat]
                            /\ on \in [Nat -> Nat] /\ to \in [Nat -> Nat]

(* The linker's tables.                                                    *)
Tables == /\ text \in Seq(Statements) /\ layers \in Seq(Flowing) /\ jumps \in Seq(Leaving)
          /\ Len(layers) >= 2 /\ DOMAIN labels \subseteq Names
          /\ data \subseteq Names /\ weak \subseteq Names
          /\ LeftOnce(jumps, Len(layers)) /\ Starts(layers, jumps)
          /\ Named(text, labels, aliases, data)

Idles == at = 1 /\ place = 1 /\ frames = <<>> /\ ~stopped /\ returns = <<>>

TextBuilt == \E lay, off, on, to :
  /\ Points(lay, off, on, to)
  /\ Built(text, layers, jumps, labels, Len(layers), lay, off, on, to)

TextInv == Tables /\ Idles /\ TextBuilt

-----------------------------------------------------------------------------
(* The return handler's layer; the fault's and the report's come after it. *)
H == labels[Return]

(* Layer l is where name leads in the text.                                *)
Leads(name, l, lay) ==
  IF Place(name) = 0 THEN l = H + 5
  ELSE /\ Place(name) \in 1 .. Len(text) /\ text[Place(name)][1] = "label"
       /\ l = lay[Place(name) + 1]

Goes(name, l, lay) == /\ name = Return => l = H
                      /\ name = MemoryFault => l = H + 5
                      /\ name = Report => l = H + 7
                      /\ name \in Names => Leads(name, l, lay)

Sort(l) == layers[l].exit.sort

Image(lay, off, on, to) ==
  /\ text \in Seq(Statements)
  /\ Built(text, layers, jumps, labels, H - 1, lay, off, on, to)
  /\ H \in Nat /\ H > 2 /\ labels[MemoryFault] = H + 5 /\ labels[Report] = H + 7
  /\ \A l \in 1 .. H + 7 : Len(layers[l].items) \in Nat
  /\ \A j \in Range(jumps) : /\ Sort(j.layer) = j.sort
                             /\ Goes(j.name, layers[j.layer].exit.to, lay)
  /\ \A l \in 1 .. H - 1 : Quiet(jumps, l) => Sort(l) = "flow"
  /\ Sort(H - 1) = "flow"
  /\ Starts(layers, jumps)
  /\ \A l \in {H, H + 1} : Sort(l) = "memory" /\ layers[l].exit.to = H + 5
  /\ \A l \in {H, H + 1, H + 5, H + 7} : layers[l].items = <<>>
  /\ layers[H + 2].items = << <<"return">> >>
  /\ Sort(H + 5) = "stop" /\ Sort(H + 7) = "stop"

AtStart == at = 1 /\ place = 1 /\ pc = Place(Main)
AtText(on, to) ==
  /\ Real(pc) \in 1 .. Len(text) /\ at \in 1 .. H - 1
  /\ Onto(layers, jumps, H - 1, at, place, on[Real(pc)], to[Real(pc)])
AtEnd ==
  /\ Real(pc) = Len(text) + 1 /\ at \in 1 .. H - 1
  /\ Onto(layers, jumps, H - 1, at, place, H - 1, Len(layers[H - 1].items) + 1)
Calling(on) ==
  /\ Real(pc) \in 1 .. Len(text) /\ text[Real(pc)][1] = "call" /\ Len(frames) < Frames
  /\ place = 1 /\ at \in {on[Real(pc)] + 1, on[Real(pc)] + 2}
Called(on) ==
  \E k \in 1 .. Len(text), n \in Names : /\ text[k][1] = "call" /\ text[k][2] = n
                                        /\ at = on[k] + 2 /\ place = 2 /\ pc = Place(n)
AtFault == at = H + 5 /\ place = 1 /\ TextEvent = <<"fault">>
AtReturn == at \in H .. H + 2 /\ place = 1 /\ TextEvent = <<"return">>
AtReport == at = H + 7 /\ place = 1 /\ TextEvent = <<"return">> /\ returns = <<>>

Where(on, to) == \/ AtStart \/ AtText(on, to) \/ AtEnd \/ Calling(on) \/ Called(on)
                 \/ AtFault \/ AtReturn \/ AtReport

(* Every frame says where its call goes on.                                *)
Framed(lay, off) ==
  /\ frames \in Seq(Nat) /\ returns \in Seq(Nat)
  /\ Len(frames) = Len(returns) /\ Len(frames) <= Frames
  /\ \A k \in 1 .. Len(returns) : /\ returns[k] \in 1 .. Len(text) + 1
                                /\ frames[k] = lay[returns[k]] /\ off[returns[k]] = 1

Running(lay, off, on, to) ==
  /\ Points(lay, off, on, to) /\ Image(lay, off, on, to) /\ Framed(lay, off)
  /\ pc \in 0 .. Len(text) + 1 /\ at \in Nat /\ place \in Nat /\ Where(on, to)

RunInv == \E lay, off, on, to : Running(lay, off, on, to)

(* What the proof of InStep carries from step to step.                     *)
LinkInv == /\ phase \in {"text", "run", "refused", "rejected"}
           /\ phase = "text" => TextInv
           /\ phase = "run" => RunInv

-----------------------------------------------------------------------------
(* Induction over the numbers, as a fact about sets of them.               *)
LessThan == {r \in Nat \X Nat : r[1] < r[2]}

LEMMA Least ==
  ASSUME NEW S, S \subseteq Nat, S # {}
  PROVE  \E i \in S : \A j \in S : i <= j
<1>1. IsWellFoundedOn(LessThan, Nat)
  <2>1. OpToRel(<, Nat) = LessThan
    BY DEF OpToRel, LessThan
  <2> QED BY <2>1, NatLessThanWellFounded
<1>2. PICK i \in S : \A j \in S : ~(<<j, i>> \in LessThan)
  BY <1>1, WFMin
<1>3. \A j \in S : ~(j < i)
  BY <1>2 DEF LessThan
<1> QED BY <1>2, <1>3

LEMMA Induction ==
  ASSUME NEW S, 0 \in S, \A n \in Nat : n \in S => n + 1 \in S
  PROVE  Nat \subseteq S
<1> SUFFICES ASSUME Nat \ S # {} PROVE FALSE
  OBVIOUS
<1>1. PICK i \in Nat \ S : \A j \in Nat \ S : i <= j
  BY Least
<1>2. i - 1 \in Nat /\ i - 1 \in S
  BY <1>1
<1> QED BY <1>1, <1>2

LEMMA FirstOfIs ==
  ASSUME NEW S, S \subseteq Nat, S # {}
  PROVE  FirstOf(S) \in S /\ \A j \in S : FirstOf(S) <= j
BY Least DEF FirstOf

(* What a statement is.                                                    *)
LEMMA StatementIs ==
  ASSUME TextAssumption, NEW s \in Statements
  PROVE  /\ s[1] \in {"label", "data", "weak", "set", "op", "branch", "call", "jump",
                      "ret", "trap"}
         /\ s[1] \in {"label", "data", "weak", "branch", "call", "jump"} =>
              s[2] \in Names /\ s = <<s[1], s[2]>>
         /\ s[1] = "set" => s[2] \in Names /\ s[3] \in Names /\ s = <<"set", s[2], s[3]>>
<1>1. CASE s \in {"label", "data", "weak", "branch", "call", "jump"} \X Names
  BY <1>1
<1>2. CASE s \in {"set"} \X Names \X Names
  BY <1>2
<1>3. CASE s \in {"op"} \X Nat
  BY <1>3
<1>4. CASE s \in {<<"ret">>, <<"trap">>}
  BY <1>4
<1> QED BY <1>1, <1>2, <1>3, <1>4 DEF TextAssumption

(* The statement that does something next.                                 *)
LEMMA RealIs ==
  ASSUME text \in Seq(Statements), NEW i \in 1 .. Len(text) + 1
  PROVE  /\ Real(i) \in i .. Len(text) + 1 /\ Idle(text, i, Real(i))
         /\ Real(i) <= Len(text) => Does(text[Real(i)])
<1> DEFINE S == {j \in i .. Len(text) : Does(text[j])} \cup {Len(text) + 1}
<1>1. Len(text) \in Nat
  OBVIOUS
<1>2. S \subseteq Nat /\ S # {} /\ Real(i) = FirstOf(S)
  BY <1>1 DEF Real
<1>3. FirstOf(S) \in S /\ \A j \in S : FirstOf(S) <= j
  BY <1>2, FirstOfIs
<1>4. ASSUME NEW k \in i .. Real(i) - 1 PROVE ~Does(text[k])
  BY <1>1, <1>2, <1>3
<1> QED BY <1>1, <1>2, <1>3, <1>4 DEF Idle

LEMMA RealFirst ==
  ASSUME text \in Seq(Statements), NEW i \in 1 .. Len(text) + 1, NEW r \in i .. Len(text) + 1,
         Idle(text, i, r), r <= Len(text) => Does(text[r])
  PROVE  Real(i) = r
<1>1. Real(i) \in i .. Len(text) + 1 /\ (Real(i) <= Len(text) => Does(text[Real(i)]))
      /\ Idle(text, i, Real(i))
  BY RealIs
<1>2. Len(text) \in Nat
  OBVIOUS
<1>3. CASE Real(i) < r
  <2>1. Real(i) \in i .. r - 1 /\ Real(i) <= Len(text)
    BY <1>1, <1>2, <1>3
  <2> QED BY <1>1, <2>1 DEF Idle
<1>4. CASE r < Real(i)
  <2>1. r \in i .. Real(i) - 1 /\ r <= Len(text)
    BY <1>1, <1>2, <1>4
  <2> QED BY <1>1, <2>1 DEF Idle
<1> QED BY <1>1, <1>2, <1>3, <1>4

(* A statement that does nothing is passed over.                           *)
LEMMA RealOn ==
  ASSUME text \in Seq(Statements), NEW i \in 1 .. Len(text), ~Does(text[i])
  PROVE  Real(i) = Real(i + 1)
<1>1. Len(text) \in Nat /\ i + 1 \in 1 .. Len(text) + 1
  OBVIOUS
<1>2. /\ Real(i + 1) \in i + 1 .. Len(text) + 1 /\ Idle(text, i + 1, Real(i + 1))
      /\ Real(i + 1) <= Len(text) => Does(text[Real(i + 1)])
  BY <1>1, RealIs
<1>3. Idle(text, i, Real(i + 1))
  BY <1>1, <1>2 DEF Idle
<1> QED BY <1>1, <1>2, <1>3, RealFirst

-----------------------------------------------------------------------------
(* The linker's work, as layers, jumps and labels.                         *)
R(L, J, B) == [layers |-> L, jumps |-> J, labels |-> B]
Fresh(L, n) == IF Len(L[Len(L)].items) + n > LayerRoom THEN Append(L, Empty) ELSE L
Filled(L, item) == [L EXCEPT ![Len(L)].items = Append(@, item)]
Exit(l, sort, name) == [layer |-> l, sort |-> sort, name |-> name]

LEMMA OpenedIs ==
  \A L, J, B : Opened(R(L, J, B)) = R(Append(L, Empty), J, B)
BY DEF Opened, R

LEMMA WorkIs ==
  ASSUME NEW L, NEW J, NEW B
  PROVE  /\ \A n : Roomy(R(L, J, B), n) = R(Fresh(L, n), J, B)
         /\ \A item : Item(R(L, J, B), item) = R(Filled(L, item), J, B)
         /\ \A sort, name : Depart(R(L, J, B), sort, name) =
              R(Append(L, Empty), Append(J, Exit(Len(L), sort, name)), B)
         /\ \A name : Marked(R(L, J, B), name) = R(L, J, With(B, name, Len(L)))
<1> DEFINE w == R(L, J, B)
<1>1. w.layers = L /\ w.jumps = J /\ w.labels = B
  BY DEF R
<1>2. \A n : Roomy(w, n) = R(Fresh(L, n), J, B)
  BY <1>1, OpenedIs DEF Roomy, Fresh, Places
<1>3. \A M : [w EXCEPT !.layers = M] = R(M, J, B)
  BY DEF R
<1>4. ASSUME NEW item PROVE Item(w, item) = R(Filled(L, item), J, B)
  <2>1. Item(w, item) = [w EXCEPT !.layers = Filled(w.layers, item)]
    BY DEF Item, Filled, R
  <2> HIDE DEF w
  <2> QED BY <2>1, <1>1, <1>3
<1>5. ASSUME NEW sort, NEW name
      PROVE  Depart(w, sort, name) =
               R(Append(L, Empty), Append(J, Exit(Len(L), sort, name)), B)
  <2>1. [w EXCEPT !.jumps = Append(@, [layer |-> Len(w.layers), sort |-> sort, name |-> name])]
          = R(L, Append(J, Exit(Len(L), sort, name)), B)
    BY <1>1 DEF Exit, R
  <2> QED BY <2>1, OpenedIs DEF Depart
<1>6. \A name : Marked(w, name) = R(L, J, With(B, name, Len(L)))
  BY DEF Marked, R
<1> QED BY <1>2, <1>4, <1>5, <1>6

Layed(L, J) == /\ L \in Seq(Flowing) /\ J \in Seq(Leaving) /\ Len(L) >= 2
               /\ LeftOnce(J, Len(L)) /\ Starts(L, J)

(* Nothing that is complete changes when layers and jumps are added.       *)
Grows(L, J, M, K) ==
  /\ Len(L) <= Len(M)
  /\ \A l \in 1 .. Len(L) - 1 : M[l].items = L[l].items
  /\ Len(L[Len(L)].items) <= Len(M[Len(L)].items)
  /\ \A p \in 1 .. Len(L[Len(L)].items) : M[Len(L)].items[p] = L[Len(L)].items[p]
  /\ \A j \in Range(J) : j \in Range(K)
  /\ \A j \in Range(K) : j \in Range(J) \/ j.layer \in Len(L) .. Len(M) - 1

Moves(L, J, M, K) == Layed(L, J) /\ Layed(M, K) /\ Grows(L, J, M, K)

LEMMA LayedIs ==
  ASSUME NEW L, NEW J, Layed(L, J)
  PROVE  /\ Len(L) \in Nat /\ Len(L) >= 2 /\ DOMAIN L = 1 .. Len(L)
         /\ \A l \in 1 .. Len(L) : /\ L[l] \in Flowing /\ L[l].items \in Seq(Rows)
                                   /\ Len(L[l].items) \in Nat
         /\ \A j \in Range(J) : j \in Leaving /\ j.layer \in Nat
<1>1. L \in Seq(Flowing) /\ Len(L) >= 2 /\ J \in Seq(Leaving)
  BY DEF Layed
<1>2. Len(L) \in Nat /\ DOMAIN L = 1 .. Len(L) /\ \A l \in 1 .. Len(L) : L[l] \in Flowing
  BY <1>1
<1>3. \A x \in Flowing : x.items \in Seq(Rows) /\ Len(x.items) \in Nat
  BY DEF Flowing
<1>4. \A j \in Range(J) : j \in Leaving
  BY <1>1 DEF Range
<1>5. \A j \in Leaving : j.layer \in Nat
  BY DEF Leaving
<1> QED BY <1>1, <1>2, <1>3, <1>4, <1>5

LEMMA Stays == ASSUME NEW L, NEW J, Layed(L, J) PROVE Moves(L, J, L, J)
BY LayedIs DEF Moves, Grows

LEMMA MovesOn ==
  ASSUME NEW L, NEW J, NEW M, NEW K, NEW N, NEW I, Moves(L, J, M, K), Moves(M, K, N, I)
  PROVE  Moves(L, J, N, I)
<1>1. Layed(L, J) /\ Layed(M, K) /\ Layed(N, I) /\ Grows(L, J, M, K) /\ Grows(M, K, N, I)
  BY DEF Moves
<1>2. PICK a \in Nat, b \in Nat, c \in Nat : a = Len(L) /\ b = Len(M) /\ c = Len(N) /\ a >= 2
  BY <1>1, LayedIs
<1>3. a <= b /\ b <= c
  BY <1>1, <1>2 DEF Grows
<1>4. \A l \in 1 .. a - 1 : N[l].items = L[l].items
  BY <1>1, <1>2, <1>3 DEF Grows
<1>5. PICK x \in Nat, y \in Nat, z \in Nat :
        x = Len(L[a].items) /\ y = Len(M[a].items) /\ z = Len(N[a].items)
  <2>1. a \in 1 .. Len(L) /\ a \in 1 .. Len(M) /\ a \in 1 .. Len(N)
    BY <1>2, <1>3
  <2> QED BY <1>1, <2>1, LayedIs
<1>6. x <= y /\ \A p \in 1 .. x : M[a].items[p] = L[a].items[p]
  BY <1>1, <1>2, <1>5 DEF Grows
<1>7. y <= z /\ \A p \in 1 .. y : N[a].items[p] = M[a].items[p]
  <2>1. CASE a = b
    BY <1>1, <1>2, <1>5, <2>1 DEF Grows
  <2>2. CASE a < b
    <3>1. a \in 1 .. b - 1
      BY <1>2, <2>2
    <3>2. N[a].items = M[a].items
      BY <1>1, <1>2, <3>1 DEF Grows
    <3> QED BY <3>2, <1>5
  <2> QED BY <1>2, <1>3, <2>1, <2>2
<1>8. x <= z /\ \A p \in 1 .. x : N[a].items[p] = L[a].items[p]
  <2>1. x <= z /\ \A p \in 1 .. x : p \in 1 .. y
    BY ONLY x \in Nat, y \in Nat, z \in Nat, <1>6, <1>7
  <2> QED BY ONLY <1>6, <1>7, <2>1
<1>9. \A j \in Range(J) : j \in Range(I)
  BY <1>1 DEF Grows
<1>10. \A j \in Range(I) : j \in Range(J) \/ j.layer \in a .. c - 1
  <2> SUFFICES ASSUME NEW j \in Range(I) PROVE j \in Range(J) \/ j.layer \in a .. c - 1
    OBVIOUS
  <2>1. j.layer \in Nat
    BY <1>1, LayedIs
  <2>2. j \in Range(K) \/ j.layer \in b .. c - 1
    BY <1>1, <1>2 DEF Grows
  <2>3. j \in Range(K) => j \in Range(J) \/ j.layer \in a .. b - 1
    BY <1>1, <1>2 DEF Grows
  <2> QED BY <1>2, <1>3, <2>1, <2>2, <2>3
<1>11. a <= c
  BY <1>2, <1>3
<1>12. Grows(L, J, N, I)
  BY ONLY <1>2, <1>4, <1>5, <1>8, <1>9, <1>10, <1>11 DEF Grows
<1> QED BY <1>1, <1>12 DEF Moves

LEMMA RangeMore ==
  ASSUME NEW S, NEW J \in Seq(S), NEW x \in S
  PROVE  \A j : j \in Range(Append(J, x)) <=> j \in Range(J) \/ j = x
<1>1. /\ Len(J) \in Nat /\ DOMAIN J = 1 .. Len(J) /\ DOMAIN Append(J, x) = 1 .. Len(J) + 1
      /\ \A k \in 1 .. Len(J) : Append(J, x)[k] = J[k]
      /\ Append(J, x)[Len(J) + 1] = x
  OBVIOUS
<1>2. Range(J) = {J[k] : k \in 1 .. Len(J)}
  BY <1>1 DEF Range
<1>3. Range(Append(J, x)) = {Append(J, x)[k] : k \in 1 .. Len(J) + 1}
  BY <1>1 DEF Range
<1>4. \A k : k \in 1 .. Len(J) + 1 <=> k \in 1 .. Len(J) \/ k = Len(J) + 1
  BY <1>1
<1> QED BY ONLY <1>1, <1>2, <1>3, <1>4

LEMMA AppendIs ==
  ASSUME NEW L \in Seq(Flowing)
  PROVE  /\ Append(L, Empty) \in Seq(Flowing)
         /\ Len(Append(L, Empty)) = Len(L) + 1 /\ Append(L, Empty)[Len(L) + 1].items = <<>>
         /\ \A l \in 1 .. Len(L) : Append(L, Empty)[l] = L[l]
<1>1. Empty \in Flowing /\ Empty.items = <<>>
  BY DEF Empty, Flowing
<1> QED BY <1>1

LEMMA Opens ==
  ASSUME NEW L, NEW J, Layed(L, J)
  PROVE  Moves(L, J, Append(L, Empty), J)
<1>1. /\ L \in Seq(Flowing) /\ J \in Seq(Leaving) /\ LeftOnce(J, Len(L)) /\ Starts(L, J)
  BY DEF Layed
<1>2. PICK a \in Nat : a = Len(L) /\ a >= 2
  BY LayedIs
<1> DEFINE M == Append(L, Empty)
<1>3. M \in Seq(Flowing) /\ Len(M) = a + 1 /\ \A l \in 1 .. a : M[l] = L[l]
  BY <1>1, <1>2, AppendIs
<1> HIDE DEF M
<1>4. LeftOnce(J, Len(M))
  BY <1>1, <1>2, <1>3 DEF LeftOnce
<1>5. Starts(M, J)
  BY <1>1, <1>2, <1>3 DEF Starts
<1>6. Layed(M, J)
  BY <1>1, <1>2, <1>3, <1>4, <1>5 DEF Layed
<1>7. Len(L[a].items) \in Nat
  BY <1>2, LayedIs
<1>8. Grows(L, J, M, J)
  BY ONLY <1>2, <1>3, <1>7 DEF Grows
<1> QED BY <1>6, <1>8 DEF Moves, M

LEMMA FreshIs ==
  ASSUME NEW L, NEW J, Layed(L, J), NEW n \in Nat, n <= 2, TextAssumption
  PROVE  /\ Moves(L, J, Fresh(L, n), J)
         /\ L[Len(L)].items = <<>> => Fresh(L, n) = L
         /\ Fresh(L, n) = L \/ Fresh(L, n) = Append(L, Empty)
<1>1. L[Len(L)].items = <<>> => Fresh(L, n) = L
  BY DEF Fresh, TextAssumption
<1> QED BY <1>1, Opens, Stays DEF Fresh

LEMMA Fills ==
  ASSUME NEW L, NEW J, Layed(L, J), NEW item \in Rows
  PROVE  /\ Moves(L, J, Filled(L, item), J) /\ Len(Filled(L, item)) = Len(L)
         /\ Filled(L, item)[Len(L)].items = Append(L[Len(L)].items, item)
<1>1. /\ L \in Seq(Flowing) /\ J \in Seq(Leaving) /\ LeftOnce(J, Len(L)) /\ Starts(L, J)
  BY DEF Layed
<1>2. PICK a \in Nat : a = Len(L) /\ a >= 2
  BY LayedIs
<1>3. L[a] \in Flowing /\ L[a].items \in Seq(Rows) /\ Len(L[a].items) \in Nat
  BY <1>2, LayedIs
<1> DEFINE M == Filled(L, item)
           x == [L[a] EXCEPT !.items = Append(@, item)]
<1>4. x \in Flowing /\ x.items = Append(L[a].items, item)
  <2>1. Append(L[a].items, item) \in Seq(Rows)
    BY <1>3
  <2>2. \A y \in Flowing : \A s \in Seq(Rows) :
          [y EXCEPT !.items = s] \in Flowing /\ [y EXCEPT !.items = s].items = s
    BY DEF Flowing
  <2> QED BY <1>3, <2>1, <2>2
<1>5. M = [L EXCEPT ![a] = x]
  BY <1>2 DEF Filled
<1> HIDE DEF M, x
<1>6. M \in Seq(Flowing) /\ Len(M) = a /\ M[a] = x /\ \A l \in 1 .. a - 1 : M[l] = L[l]
  BY <1>1, <1>2, <1>4, <1>5
<1>7. LeftOnce(J, Len(M))
  BY <1>1, <1>2, <1>6
<1>8. Starts(M, J)
  BY <1>1, <1>2, <1>6 DEF Starts
<1>9. Layed(M, J)
  BY <1>1, <1>2, <1>6, <1>7, <1>8 DEF Layed
<1>10. /\ Len(M[a].items) = Len(L[a].items) + 1
       /\ \A p \in 1 .. Len(L[a].items) : M[a].items[p] = L[a].items[p]
  BY <1>3, <1>4, <1>6
<1>11. Grows(L, J, M, J)
  <2>1. Len(L) <= Len(M)
    BY ONLY <1>2, <1>6
  <2>2. \A l \in 1 .. Len(L) - 1 : M[l].items = L[l].items
    BY ONLY <1>2, <1>6
  <2>3. Len(L[Len(L)].items) <= Len(M[Len(L)].items)
    BY ONLY <1>2, <1>3, <1>10
  <2>4. \A p \in 1 .. Len(L[Len(L)].items) : M[Len(L)].items[p] = L[Len(L)].items[p]
    BY ONLY <1>2, <1>10
  <2> QED BY ONLY <2>1, <2>2, <2>3, <2>4 DEF Grows
<1> QED BY <1>2, <1>4, <1>6, <1>9, <1>11 DEF Moves, M

(* A jump ends the layer.                                                  *)
LEMMA Leaves ==
  ASSUME NEW L, NEW J, Layed(L, J), NEW sort \in Sorts,
         NEW name \in Names \cup {Return, MemoryFault, Report}
  PROVE  /\ Moves(L, J, Append(L, Empty), Append(J, Exit(Len(L), sort, name)))
         /\ Exit(Len(L), sort, name) \in Range(Append(J, Exit(Len(L), sort, name)))
<1>1. /\ L \in Seq(Flowing) /\ J \in Seq(Leaving) /\ LeftOnce(J, Len(L)) /\ Starts(L, J)
  BY DEF Layed
<1>2. PICK a \in Nat : a = Len(L) /\ a >= 2
  BY LayedIs
<1> DEFINE M == Append(L, Empty)
           x == Exit(a, sort, name)
           K == Append(J, x)
<1>3. M \in Seq(Flowing) /\ Len(M) = a + 1 /\ \A l \in 1 .. a : M[l] = L[l]
  BY <1>1, <1>2, AppendIs
<1>4. x \in Leaving /\ x.layer = a
  BY DEF Exit, Leaving
<1>5. K \in Seq(Leaving) /\ \A j : j \in Range(K) <=> j \in Range(J) \/ j = x
  BY <1>1, <1>4, RangeMore
<1>6. \A j \in Range(J) : j.layer \in 1 .. a - 1
  BY <1>1, <1>2 DEF LeftOnce
<1> HIDE DEF M, K, x
<1>7. LeftOnce(K, Len(M))
  <2>1. \A j, k \in Range(J) : j.layer = k.layer => j = k
    BY <1>1 DEF LeftOnce
  <2>2. \A j \in Range(K) : j.layer \in 1 .. a
    BY <1>2, <1>4, <1>5, <1>6
  <2>3. \A j \in Range(J) : j.layer # a
    BY <1>2, <1>6
  <2>4. \A j, k \in Range(K) : j.layer = k.layer => j = k
    BY ONLY <1>4, <1>5, <2>1, <2>3
  <2> QED BY <1>2, <1>3, <2>2, <2>4 DEF LeftOnce
<1>8. Starts(M, K)
  BY <1>1, <1>2, <1>3, <1>5 DEF Starts
<1>9. Layed(M, K)
  BY <1>2, <1>3, <1>5, <1>7, <1>8 DEF Layed
<1>10. Len(L[a].items) \in Nat
  BY <1>2, LayedIs
<1>11. Grows(L, J, M, K)
  BY ONLY <1>2, <1>3, <1>4, <1>5, <1>10 DEF Grows
<1> QED BY <1>2, <1>5, <1>9, <1>11 DEF Moves, M, K, x

-----------------------------------------------------------------------------
(* What is complete stays as it was built.                                 *)
LEMMA OntoGrows ==
  ASSUME NEW L, NEW J, NEW M, NEW K, Moves(L, J, M, K), NEW l \in Nat, l >= 1,
         NEW p, NEW m, NEW q, Onto(L, J, Len(L), l, p, m, q)
  PROVE  Onto(M, K, Len(M), l, p, m, q)
<1>1. Layed(L, J) /\ Layed(M, K) /\ Grows(L, J, M, K)
  BY DEF Moves
<1>2. PICK a \in Nat, b \in Nat : a = Len(L) /\ b = Len(M) /\ a <= b
  BY <1>1, LayedIs DEF Grows
<1>3. CASE m = l /\ q = p
  BY <1>3 DEF Onto
<1>4. CASE m = l + 1 /\ q = 1 /\ l < a /\ Len(L[l].items) = p - 1 /\ Quiet(J, l)
  <2>1. l \in 1 .. a - 1 /\ l < b
    BY <1>2, <1>4
  <2>2. M[l].items = L[l].items
    BY <1>1, <1>2, <2>1 DEF Grows
  <2>3. ASSUME NEW j \in Range(K) PROVE j.layer # l
    <3>1. j \in Range(J) \/ j.layer \in a .. b - 1
      BY <1>1, <1>2 DEF Grows
    <3> QED BY <1>2, <1>4, <3>1 DEF Quiet
  <2> QED BY <1>2, <1>4, <2>1, <2>2, <2>3 DEF Onto, Quiet
<1> QED BY <1>2, <1>3, <1>4 DEF Onto

LEMMA LeftGrows ==
  ASSUME NEW L, NEW J, NEW M, NEW K, Moves(L, J, M, K), NEW l \in Nat, l >= 1,
         NEW p, NEW sort, NEW name, Left(L, J, Len(L), l, p, sort, name)
  PROVE  Left(M, K, Len(M), l, p, sort, name) /\ M[l].items = L[l].items
<1>1. Layed(L, J) /\ Layed(M, K) /\ Grows(L, J, M, K)
  BY DEF Moves
<1>2. PICK a \in Nat, b \in Nat : a = Len(L) /\ b = Len(M) /\ a <= b
  BY <1>1, LayedIs DEF Grows
<1>3. l < a /\ Len(L[l].items) = p - 1
      /\ [layer |-> l, sort |-> sort, name |-> name] \in Range(J)
  BY <1>2 DEF Left
<1>4. l \in 1 .. a - 1 /\ l < b
  BY <1>2, <1>3
<1>5. M[l].items = L[l].items /\ [layer |-> l, sort |-> sort, name |-> name] \in Range(K)
  BY <1>1, <1>2, <1>3, <1>4 DEF Grows
<1> QED BY <1>2, <1>3, <1>4, <1>5 DEF Left

LEMMA CompiledGrows ==
  ASSUME NEW L, NEW J, NEW M, NEW K, Moves(L, J, M, K), NEW l \in 1 .. Len(L),
         NEW s, NEW p, NEW m, NEW q, Compiled(L, J, Len(L), s, l, p, m, q)
  PROVE  Compiled(M, K, Len(M), s, l, p, m, q)
<1>1. Layed(L, J) /\ Layed(M, K) /\ Grows(L, J, M, K)
  BY DEF Moves
<1>2. PICK a \in Nat, b \in Nat : a = Len(L) /\ b = Len(M) /\ a <= b
  BY <1>1, LayedIs DEF Grows
<1>3. l \in Nat /\ l >= 1 /\ l <= a /\ l + 1 \in Nat /\ l + 1 >= 1 /\ l + 2 \in Nat /\ l + 2 >= 1
  BY <1>2
<1>4. ASSUME s[1] = "op"
      PROVE  p \in 1 .. Len(M[l].items) /\ M[l].items[p] = s /\ m = l /\ q = p + 1
  <2>1. p \in 1 .. Len(L[l].items) /\ L[l].items[p] = s /\ m = l /\ q = p + 1
    BY <1>4 DEF Compiled
  <2>2. CASE l < a
    <3>1. l \in 1 .. a - 1
      BY <1>3, <2>2
    <3>2. M[l].items = L[l].items
      BY <1>1, <1>2, <3>1 DEF Grows
    <3> QED BY <2>1, <3>2
  <2>3. CASE l = a
    <3>1. a \in 1 .. Len(L) /\ a \in 1 .. Len(M)
      BY <1>2, <1>3, <2>3
    <3>2. PICK x \in Nat, y \in Nat : x = Len(L[a].items) /\ y = Len(M[a].items)
      BY <1>1, <3>1, LayedIs
    <3>3. x <= y /\ \A k \in 1 .. x : M[a].items[k] = L[a].items[k]
      BY <1>1, <1>2, <3>2 DEF Grows
    <3> QED BY <2>1, <2>3, <3>2, <3>3
  <2> QED BY <1>2, <1>3, <2>2, <2>3
<1>5. s[1] # "op" => q = 1
  BY DEF Compiled
<1>6. s[1] \in {"branch", "jump"} => Left(M, K, Len(M), l, p, s[1], s[2]) /\ m = l + 1
  BY <1>3, LeftGrows DEF Compiled
<1>7. s[1] = "ret" => Left(M, K, Len(M), l, p, "return", Return) /\ m = l + 1
  BY <1>3, LeftGrows DEF Compiled
<1>8. s[1] = "trap" => Left(M, K, Len(M), l, p, "trap", MemoryFault) /\ m = l + 1
  BY <1>3, LeftGrows DEF Compiled
<1>9. ASSUME s[1] = "call"
      PROVE  /\ Left(M, K, Len(M), l, p, "memory", MemoryFault)
             /\ Left(M, K, Len(M), l + 1, 1, "memory", MemoryFault)
             /\ Left(M, K, Len(M), l + 2, 2, "call", s[2])
             /\ M[l + 2].items[1] = <<"call", l + 3>> /\ m = l + 3
  <2>1. /\ Left(L, J, Len(L), l, p, "memory", MemoryFault)
        /\ Left(L, J, Len(L), l + 1, 1, "memory", MemoryFault)
        /\ Left(L, J, Len(L), l + 2, 2, "call", s[2])
        /\ L[l + 2].items[1] = <<"call", l + 3>> /\ m = l + 3
    BY <1>9 DEF Compiled
  <2>2. Left(M, K, Len(M), l, p, "memory", MemoryFault)
    BY <1>3, <2>1, LeftGrows
  <2>3. Left(M, K, Len(M), l + 1, 1, "memory", MemoryFault)
    BY <1>3, <2>1, LeftGrows
  <2>4. Left(M, K, Len(M), l + 2, 2, "call", s[2]) /\ M[l + 2].items = L[l + 2].items
    BY <1>3, <2>1, LeftGrows
  <2> QED BY <2>1, <2>2, <2>3, <2>4
<1> QED BY ONLY <1>4, <1>5, <1>6, <1>7, <1>8, <1>9 DEF Compiled

(* A statement more, whose rows stand at place q of layer m.               *)
LEMMA StepBuilt ==
  ASSUME TextAssumption, NEW t \in Seq(Statements), NEW s \in Statements,
         NEW L, NEW J, NEW M, NEW K, Moves(L, J, M, K), NEW B, NEW C,
         \A n \in DOMAIN B : n \in DOMAIN C /\ C[n] = B[n],
         NEW lay, NEW off, NEW on, NEW to, Points(lay, off, on, to),
         Built(t, L, J, B, Len(L), lay, off, on, to),
         NEW m \in 1 .. Len(M), NEW q \in Nat,
         Does(s) => Compiled(M, K, Len(M), s, m, q, Len(M), Len(M[Len(M)].items) + 1),
         \A l \in 1 .. Len(L) : \A p \in Nat :
           Onto(L, J, Len(L), l, p, Len(L), Len(L[Len(L)].items) + 1) =>
             IF Does(s) THEN Onto(M, K, Len(M), l, p, m, q)
             ELSE Onto(M, K, Len(M), l, p, Len(M), Len(M[Len(M)].items) + 1),
         s[1] = "label" => /\ s[2] \in DOMAIN C /\ C[s[2]] = Len(M)
                           /\ Len(M[Len(M)].items) = 0
  PROVE  \E lay2, off2, on2, to2 :
           /\ Points(lay2, off2, on2, to2)
           /\ Built(Append(t, s), M, K, C, Len(M), lay2, off2, on2, to2)
<1>1. PICK n \in Nat : n = Len(t)
  OBVIOUS
<1>2. Layed(L, J) /\ Layed(M, K) /\ Grows(L, J, M, K)
  BY DEF Moves
<1>3. PICK e \in Nat, f \in Nat : e = Len(L) /\ f = Len(M) /\ 1 <= e /\ e <= f
  BY <1>2, LayedIs DEF Grows
<1>4. PICK c \in Nat, d \in Nat : c = Len(L[e].items) + 1 /\ d = Len(M[f].items) + 1
  <2>1. e \in 1 .. Len(L) /\ f \in 1 .. Len(M)
    BY <1>3
  <2> QED BY <1>2, <2>1, LayedIs
<1> DEFINE lay2 == [lay EXCEPT ![n + 2] = f]
           off2 == [off EXCEPT ![n + 2] = d]
           on2 == [on EXCEPT ![n + 1] = m]
           to2 == [to EXCEPT ![n + 1] = q]
           t2 == Append(t, s)
<1>5. /\ lay \in [Nat -> Nat] /\ off \in [Nat -> Nat] /\ on \in [Nat -> Nat] /\ to \in [Nat -> Nat]
  BY DEF Points
<1>6. m \in Nat /\ 1 <= m /\ m <= f
  BY <1>3
<1>7. Points(lay2, off2, on2, to2)
  BY <1>3, <1>4, <1>5, <1>6 DEF Points
<1>8. /\ lay2[n + 2] = f /\ off2[n + 2] = d /\ on2[n + 1] = m /\ to2[n + 1] = q
      /\ \A i \in 1 .. n + 1 : lay2[i] = lay[i] /\ off2[i] = off[i]
      /\ \A i \in 1 .. n : on2[i] = on[i] /\ to2[i] = to[i]
  <2>1. \A F \in [Nat -> Nat] : \A k \in Nat : \A v :
          [F EXCEPT ![k] = v][k] = v /\ \A i \in 1 .. k - 1 : [F EXCEPT ![k] = v][i] = F[i]
    OBVIOUS
  <2>2. n + 2 \in Nat /\ n + 1 \in Nat /\ (n + 2) - 1 = n + 1 /\ (n + 1) - 1 = n
    OBVIOUS
  <2>3. lay2[n + 2] = f /\ \A i \in 1 .. n + 1 : lay2[i] = lay[i]
    BY ONLY <1>5, <2>1, <2>2 DEF lay2
  <2>4. off2[n + 2] = d /\ \A i \in 1 .. n + 1 : off2[i] = off[i]
    BY ONLY <1>5, <2>1, <2>2 DEF off2
  <2>5. on2[n + 1] = m /\ \A i \in 1 .. n : on2[i] = on[i]
    BY ONLY <1>5, <2>1, <2>2 DEF on2
  <2>6. to2[n + 1] = q /\ \A i \in 1 .. n : to2[i] = to[i]
    BY ONLY <1>5, <2>1, <2>2 DEF to2
  <2> QED BY <2>3, <2>4, <2>5, <2>6
<1>9. Len(t2) = n + 1 /\ t2[n + 1] = s /\ \A i \in 1 .. n : t2[i] = t[i]
  BY <1>1
<1>10. \A i \in 1 .. n + 1 : lay[i] \in 1 .. e /\ lay[i] \in Nat /\ off[i] \in Nat
  BY <1>1, <1>3, <1>5 DEF Built
<1> HIDE DEF lay2, off2, on2, to2, t2
<1>11. \A i \in 1 .. n + 2 : lay2[i] \in 1 .. f
  <2> SUFFICES ASSUME NEW i \in 1 .. n + 2 PROVE lay2[i] \in 1 .. f
    OBVIOUS
  <2>0. \A k \in 1 .. e : k \in 1 .. f
    BY ONLY e \in Nat, f \in Nat, <1>3
  <2>1. CASE i = n + 2
    <3>1. f \in 1 .. f
      BY ONLY e \in Nat, f \in Nat, <1>3
    <3> QED BY ONLY <1>8, <2>1, <3>1
  <2>2. CASE i \in 1 .. n + 1
    BY ONLY <1>8, <1>10, <2>0, <2>2
  <2>3. i \in 1 .. n + 1 \/ i = n + 2
    BY ONLY n \in Nat, i \in 1 .. n + 2
  <2> QED BY <2>1, <2>2, <2>3
<1>12. ASSUME NEW i \in 1 .. n + 1, Does(t2[i])
       PROVE  on2[i] \in 1 .. f
              /\ Compiled(M, K, f, t2[i], on2[i], to2[i], lay2[i + 1], off2[i + 1])
  <2>1. CASE i = n + 1
    <3>1. i + 1 = n + 2
      BY <2>1
    <3>2. t2[i] = s /\ on2[i] = m /\ to2[i] = q /\ lay2[i + 1] = f /\ off2[i + 1] = d
      BY <1>8, <1>9, <2>1, <3>1
    <3>3. Compiled(M, K, f, s, m, q, f, d)
      BY <1>3, <1>4, <1>12, <3>2
    <3> QED BY <1>3, <3>2, <3>3
  <2>2. CASE i \in 1 .. n
    <3>1. i + 1 \in 1 .. n + 1
      BY <2>2
    <3>2. t2[i] = t[i] /\ on2[i] = on[i] /\ to2[i] = to[i]
          /\ lay2[i + 1] = lay[i + 1] /\ off2[i + 1] = off[i + 1]
      BY <1>8, <1>9, <2>2, <3>1
    <3>3. on[i] \in 1 .. e /\ Compiled(L, J, e, t[i], on[i], to[i], lay[i + 1], off[i + 1])
      BY <1>1, <1>3, <1>12, <2>2, <3>2 DEF Built
    <3>4. Compiled(M, K, f, t[i], on[i], to[i], lay[i + 1], off[i + 1])
      BY <1>3, <3>3, CompiledGrows
    <3> QED BY <1>3, <3>2, <3>3, <3>4
  <2> QED BY <2>1, <2>2
<1>13. \A i \in 1 .. n + 1 : \A j \in i .. n + 1 : Idle(t2, i, j) => Idle(t, i, j)
  <2> SUFFICES ASSUME NEW i \in 1 .. n + 1, NEW j \in i .. n + 1, Idle(t2, i, j),
                      NEW k \in i .. j - 1
               PROVE  ~Does(t[k])
    BY DEF Idle
  <2>1. k \in 1 .. n
    OBVIOUS
  <2>2. ~Does(t2[k]) /\ t2[k] = t[k]
    BY <1>9, <2>1 DEF Idle
  <2> QED BY <2>2
<1>14. ASSUME NEW i \in 1 .. n + 1, Idle(t, i, n + 1)
       PROVE  IF Does(s) THEN Onto(M, K, f, lay[i], off[i], m, q)
              ELSE Onto(M, K, f, lay[i], off[i], f, d)
  <2>1. Onto(L, J, e, lay[i], off[i], e, c)
    BY <1>1, <1>3, <1>4, <1>14 DEF Built
  <2> QED BY <1>3, <1>4, <1>10, <2>1
<1>15. ASSUME NEW i \in 1 .. n + 1, NEW j \in i .. n + 1, Does(t2[j]), Idle(t2, i, j)
       PROVE  Onto(M, K, f, lay2[i], off2[i], on2[j], to2[j])
  <2>1. lay2[i] = lay[i] /\ off2[i] = off[i] /\ Idle(t, i, j) /\ lay[i] \in Nat /\ lay[i] >= 1
    BY <1>3, <1>8, <1>10, <1>13, <1>15
  <2>2. CASE j = n + 1
    <3>1. Does(s) /\ on2[j] = m /\ to2[j] = q /\ Idle(t, i, n + 1)
      BY <1>8, <1>9, <1>15, <2>1, <2>2
    <3> QED BY <1>14, <2>1, <3>1
  <2>3. CASE j \in i .. n
    <3>1. i \in 1 .. n /\ j \in 1 .. n
      BY <2>3
    <3>2. t2[j] = t[j] /\ on2[j] = on[j] /\ to2[j] = to[j]
      BY <1>8, <1>9, <3>1
    <3>3. Onto(L, J, e, lay[i], off[i], on[j], to[j])
      BY <1>1, <1>3, <1>15, <2>1, <2>3, <3>1, <3>2 DEF Built
    <3> QED BY <1>3, <2>1, <3>2, <3>3, OntoGrows
  <2> QED BY <2>2, <2>3
<1>16. ASSUME NEW i \in 1 .. n + 2, Idle(t2, i, n + 2)
       PROVE  Onto(M, K, f, lay2[i], off2[i], f, d)
  <2>1. CASE i = n + 2
    BY <1>8, <2>1 DEF Onto
  <2>2. CASE i \in 1 .. n + 1
    <3>1. ~Does(s) /\ Idle(t2, i, n + 1)
      <4>1. n + 1 \in i .. (n + 2) - 1 /\ \A k \in i .. (n + 1) - 1 : k \in i .. (n + 2) - 1
        BY <2>2
      <4> QED BY <1>9, <1>16, <4>1 DEF Idle
    <3>2. Idle(t, i, n + 1)
      BY <1>13, <2>2, <3>1
    <3> QED BY <1>8, <1>14, <2>2, <3>1, <3>2
  <2> QED BY <2>1, <2>2
<1>17. ASSUME NEW i \in 1 .. n + 1, t2[i][1] = "label"
       PROVE  t2[i][2] \in DOMAIN C /\ C[t2[i][2]] = lay2[i + 1] /\ off2[i + 1] = 1
  <2>1. CASE i = n + 1
    <3>1. i + 1 = n + 2 /\ t2[i] = s
      BY <1>9, <2>1
    <3>2. s[2] \in DOMAIN C /\ C[s[2]] = f /\ Len(M[f].items) = 0
      BY <1>3, <1>17, <3>1
    <3> QED BY <1>4, <1>8, <3>1, <3>2
  <2>2. CASE i \in 1 .. n
    <3>1. i + 1 \in 1 .. n + 1
      BY <2>2
    <3>2. t2[i] = t[i] /\ lay2[i + 1] = lay[i + 1] /\ off2[i + 1] = off[i + 1]
      BY <1>8, <1>9, <2>2, <3>1
    <3>3. t[i][2] \in DOMAIN B /\ B[t[i][2]] = lay[i + 1] /\ off[i + 1] = 1
      BY <1>1, <1>17, <2>2, <3>2 DEF Built
    <3> QED BY <3>2, <3>3
  <2> QED BY <2>1, <2>2
<1>18. Built(t2, M, K, C, f, lay2, off2, on2, to2)
  <2>1. lay2[Len(t2) + 1] = f /\ off2[Len(t2) + 1] = Len(M[f].items) + 1
    <3>1. Len(t2) + 1 = n + 2
      BY <1>9
    <3> QED BY <1>4, <1>8, <3>1
  <2>2. Len(t2) = n + 1 /\ Len(t2) + 1 = n + 2
    BY <1>9
  <2>3. \A i \in 1 .. Len(t2) + 1 : lay2[i] \in 1 .. f
    BY <1>11, <2>2
  <2>4. \A i \in 1 .. Len(t2) + 1 : Idle(t2, i, Len(t2) + 1) =>
          Onto(M, K, f, lay2[i], off2[i], f, Len(M[f].items) + 1)
    BY <1>4, <1>16, <2>2
  <2> QED BY ONLY <1>12, <1>15, <1>17, <2>1, <2>2, <2>3, <2>4 DEF Built
<1> QED BY <1>3, <1>7, <1>18 DEF t2

(* What led to the end of the layers leads to place q of layer m.          *)
Comes(L, J, M, K, m, q) ==
  \A l \in 1 .. Len(L) : \A p \in Nat :
    Onto(L, J, Len(L), l, p, Len(L), Len(L[Len(L)].items) + 1) => Onto(M, K, Len(M), l, p, m, q)

LEMMA ComesHere ==
  ASSUME NEW L, NEW J, Layed(L, J)
  PROVE  Comes(L, J, L, J, Len(L), Len(L[Len(L)].items) + 1)
BY DEF Comes

LEMMA ComesOn ==
  ASSUME NEW L, NEW J, NEW N, NEW I, NEW M, NEW K, NEW m, NEW q, Layed(L, J),
         Len(L) <= Len(N), Comes(L, J, N, I, m, q), Moves(N, I, M, K)
  PROVE  Comes(L, J, M, K, m, q)
<1> SUFFICES ASSUME NEW l \in 1 .. Len(L), NEW p \in Nat,
                    Onto(L, J, Len(L), l, p, Len(L), Len(L[Len(L)].items) + 1)
             PROVE  Onto(M, K, Len(M), l, p, m, q)
  BY DEF Comes
<1>1. Onto(N, I, Len(N), l, p, m, q)
  BY DEF Comes
<1>2. l \in Nat /\ l >= 1
  BY LayedIs
<1> QED BY <1>1, <1>2, OntoGrows

LEMMA OpenComes ==
  ASSUME NEW L, NEW J, Layed(L, J), Len(L[Len(L)].items) # 0
  PROVE  Comes(L, J, Append(L, Empty), J, Len(L) + 1, 1)
<1> DEFINE M == Append(L, Empty)
<1>1. PICK e \in Nat : e = Len(L) /\ e >= 2
  BY LayedIs
<1>2. e \in 1 .. Len(L) /\ L \in Seq(Flowing) /\ LeftOnce(J, Len(L))
  BY <1>1 DEF Layed
<1>3. PICK c \in Nat : c = Len(L[e].items)
  BY <1>2, LayedIs
<1>4. Len(M) = e + 1 /\ \A l \in 1 .. e : M[l] = L[l]
  BY <1>1, <1>2, AppendIs
<1>5. Quiet(J, e)
  <2>1. \A j \in Range(J) : j.layer \in 1 .. e - 1
    BY <1>1, <1>2 DEF LeftOnce
  <2> QED BY <1>1, <2>1 DEF Quiet
<1> HIDE DEF M
<1>6. ASSUME NEW l \in 1 .. e, NEW p \in Nat, Onto(L, J, e, l, p, e, c + 1)
      PROVE  Onto(M, J, e + 1, l, p, e + 1, 1)
  <2>1. l = e /\ p = c + 1
    BY <1>1, <1>3, <1>6 DEF Onto
  <2>2. Len(M[e].items) = p - 1 /\ e < e + 1
    BY <1>1, <1>3, <1>4, <2>1
  <2> QED BY <1>5, <2>1, <2>2 DEF Onto
<1> QED BY <1>1, <1>3, <1>4, <1>6 DEF Comes, M

LEMMA FreshComes ==
  ASSUME TextAssumption, NEW L, NEW J, Layed(L, J), NEW n \in Nat, n <= 2
  PROVE  \E m \in Nat, q \in Nat :
           /\ m = Len(Fresh(L, n)) /\ q = Len(Fresh(L, n)[m].items) + 1
           /\ Len(L) <= m /\ m >= 2
           /\ Comes(L, J, Fresh(L, n), J, m, q)
<1> DEFINE N == Fresh(L, n)
<1>1. Moves(L, J, N, J)
  BY FreshIs
<1>2. Layed(N, J) /\ Grows(L, J, N, J)
  BY <1>1 DEF Moves
<1>3. PICK m \in Nat : m = Len(N) /\ Len(L) <= m /\ m >= 2
  BY <1>2, LayedIs DEF Grows
<1>4. m \in 1 .. Len(N)
  BY <1>3
<1>5. PICK q \in Nat : q = Len(N[m].items) + 1
  BY <1>2, <1>4, LayedIs
<1>6. Comes(L, J, N, J, m, q)
  <2>1. CASE N = L
    BY <1>3, <1>5, <2>1, ComesHere
  <2>2. CASE N # L
    <3>1. N = Append(L, Empty) /\ L[Len(L)].items # <<>>
      BY <2>2, FreshIs
    <3>2. L \in Seq(Flowing) /\ Len(L) \in 1 .. Len(L)
      BY LayedIs DEF Layed
    <3>3. L[Len(L)].items \in Seq(Rows)
      BY <3>2, LayedIs
    <3>4. Len(L[Len(L)].items) # 0
      BY <3>1, <3>3
    <3>5. m = Len(L) + 1 /\ q = 1
      BY <1>3, <1>5, <3>1, <3>2, AppendIs
    <3> QED BY <3>1, <3>4, <3>5, OpenComes
  <2> QED BY <2>1, <2>2
<1> QED BY <1>3, <1>5, <1>6

(* A jump ends the layer that L ends with.                                 *)
LeftBehind(L, J, sort, name, M, K) ==
  /\ Moves(L, J, M, K) /\ Layed(M, K)
  /\ Left(M, K, Len(M), Len(L), Len(L[Len(L)].items) + 1, sort, name)
  /\ Len(M) = Len(L) + 1 /\ M[Len(M)].items = <<>>

LEMMA LeavesLeft ==
  ASSUME NEW L, NEW J, Layed(L, J), NEW sort \in Sorts,
         NEW name \in Names \cup {Return, MemoryFault, Report}
  PROVE  LeftBehind(L, J, sort, name, Append(L, Empty), Append(J, Exit(Len(L), sort, name)))
<1> DEFINE M == Append(L, Empty)
           K == Append(J, Exit(Len(L), sort, name))
<1>1. Moves(L, J, M, K) /\ Exit(Len(L), sort, name) \in Range(K)
  BY Leaves
<1>2. L \in Seq(Flowing) /\ Len(L) \in Nat /\ Len(L) \in 1 .. Len(L)
      /\ Len(L[Len(L)].items) \in Nat
  BY LayedIs DEF Layed
<1>3. Len(M) = Len(L) + 1 /\ M[Len(L)] = L[Len(L)] /\ M[Len(L) + 1].items = <<>>
  BY <1>2, AppendIs
<1> HIDE DEF M, K
<1>4. Left(M, K, Len(M), Len(L), Len(L[Len(L)].items) + 1, sort, name)
  BY <1>1, <1>2, <1>3 DEF Left, Exit
<1>5. LeftBehind(L, J, sort, name, M, K)
  BY <1>1, <1>2, <1>3, <1>4 DEF Moves, LeftBehind
<1> QED BY <1>5 DEF M, K

(* The rows of statement s are added.                                      *)
Takes(s, L, J, M, K) ==
  /\ Moves(L, J, M, K)
  /\ \E m \in 1 .. Len(M), q \in Nat :
       /\ Comes(L, J, M, K, m, q)
       /\ Compiled(M, K, Len(M), s, m, q, Len(M), Len(M[Len(M)].items) + 1)

LEMMA TakesOp ==
  ASSUME TextAssumption, NEW L, NEW J, Layed(L, J), NEW s \in Statements, s[1] = "op"
  PROVE  Takes(s, L, J, Filled(Fresh(L, 1), s), J)
<1> DEFINE N == Fresh(L, 1)
           M == Filled(N, s)
<1>1. PICK m \in Nat, q \in Nat :
        /\ m = Len(N) /\ q = Len(N[m].items) + 1 /\ Len(L) <= m /\ m >= 2
        /\ Comes(L, J, N, J, m, q)
  BY FreshComes
<1>2. Moves(L, J, N, J) /\ Layed(N, J)
  BY FreshIs DEF Moves
<1>3. Moves(N, J, M, J) /\ Len(M) = m /\ M[m].items = Append(N[m].items, s)
  BY <1>1, <1>2, Fills DEF Rows
<1>4. N[m].items \in Seq(Rows)
  <2>1. m \in 1 .. Len(N)
    BY <1>1
  <2> QED BY <1>2, <2>1, LayedIs
<1> HIDE DEF N, M
<1>5. Moves(L, J, M, J)
  BY <1>2, <1>3, MovesOn
<1>6. Comes(L, J, M, J, m, q)
  BY <1>1, <1>3, ComesOn
<1>7. Len(M[m].items) = q /\ M[m].items[q] = s /\ q \in 1 .. q
  BY <1>1, <1>3, <1>4
<1>8. Compiled(M, J, m, s, m, q, m, q + 1)
  BY <1>7 DEF Compiled
<1>9. m \in 1 .. Len(M)
  BY <1>1, <1>3
<1>10. Takes(s, L, J, M, J)
  BY <1>3, <1>5, <1>6, <1>7, <1>8, <1>9 DEF Takes
<1> QED BY <1>10 DEF M, N

LEMMA TakesBranch ==
  ASSUME TextAssumption, NEW L, NEW J, Layed(L, J), NEW s \in Statements, s[1] = "branch"
  PROVE  LET N == Fresh(L, 2)
         IN  Takes(s, L, J, Append(N, Empty), Append(J, Exit(Len(N), "branch", s[2])))
<1> DEFINE N == Fresh(L, 2)
           M == Append(N, Empty)
           K == Append(J, Exit(Len(N), "branch", s[2]))
<1>1. PICK m \in Nat, q \in Nat :
        /\ m = Len(N) /\ q = Len(N[m].items) + 1 /\ Len(L) <= m /\ m >= 2
        /\ Comes(L, J, N, J, m, q)
  BY FreshComes
<1>2. Moves(L, J, N, J) /\ Layed(N, J)
  BY FreshIs DEF Moves
<1>3. s[2] \in Names
  BY StatementIs
<1>4. /\ Moves(N, J, M, K) /\ Len(M) = m + 1 /\ M[m + 1].items = <<>>
      /\ Left(M, K, m + 1, m, q, "branch", s[2])
  <2>1. "branch" \in Sorts /\ s[2] \in Names \cup {Return, MemoryFault, Report}
    BY <1>3 DEF Sorts
  <2>2. LeftBehind(N, J, "branch", s[2], M, K)
    BY ONLY <1>2, <2>1, LeavesLeft, Zenon
  <2> QED BY <1>1, <2>2 DEF LeftBehind
<1> HIDE DEF N, M, K
<1>5. Moves(L, J, M, K)
  BY <1>2, <1>4, MovesOn
<1>6. Comes(L, J, M, K, m, q)
  BY <1>1, <1>4, ComesOn
<1>7. Compiled(M, K, m + 1, s, m, q, m + 1, 1)
  BY <1>4 DEF Compiled
<1>8. m \in 1 .. Len(M) /\ Len(M[Len(M)].items) + 1 = 1
  BY <1>1, <1>4
<1>9. Takes(s, L, J, M, K)
  BY <1>4, <1>5, <1>6, <1>7, <1>8 DEF Takes
<1> QED BY <1>9 DEF M, K, N

LEMMA TakesFinal ==
  ASSUME TextAssumption, NEW L, NEW J, Layed(L, J), NEW s \in Statements,
         NEW sort, NEW name,
         \/ s[1] = "jump" /\ sort = "jump" /\ name = s[2]
         \/ s[1] = "ret" /\ sort = "return" /\ name = Return
         \/ s[1] = "trap" /\ sort = "trap" /\ name = MemoryFault
  PROVE  Takes(s, L, J, Append(L, Empty), Append(J, Exit(Len(L), sort, name)))
<1> DEFINE M == Append(L, Empty)
           K == Append(J, Exit(Len(L), sort, name))
<1>1. sort \in Sorts /\ name \in Names \cup {Return, MemoryFault, Report}
  <2>1. s[1] = "jump" => s[2] \in Names
    BY StatementIs
  <2> QED BY <2>1 DEF Sorts
<1>2. PICK m \in Nat, q \in Nat : m = Len(L) /\ q = Len(L[m].items) + 1 /\ m >= 2
  <2>1. Len(L) \in 1 .. Len(L) /\ Len(L) \in Nat /\ Len(L) >= 2
    BY LayedIs
  <2>2. Len(L[Len(L)].items) \in Nat
    BY <2>1, LayedIs
  <2> QED BY <2>1, <2>2
<1>3. /\ Moves(L, J, M, K) /\ Len(M) = m + 1 /\ M[m + 1].items = <<>>
      /\ Left(M, K, m + 1, m, q, sort, name)
  <2>1. LeftBehind(L, J, sort, name, M, K)
    BY <1>1, LeavesLeft, Zenon
  <2> QED BY <1>2, <2>1 DEF LeftBehind
<1> HIDE DEF M, K
<1>4. Comes(L, J, M, K, m, q)
  BY <1>2, <1>3, ComesHere, ComesOn
<1>5. Compiled(M, K, m + 1, s, m, q, m + 1, 1)
  BY <1>3 DEF Compiled
<1>6. m \in 1 .. Len(M) /\ Len(M[Len(M)].items) + 1 = 1
  BY <1>2, <1>3
<1>7. Takes(s, L, J, M, K)
  BY <1>3, <1>4, <1>5, <1>6 DEF Takes
<1> QED BY <1>7 DEF M, K

(* The layers and jumps of a call, from the layer N it begins in.          *)
CallLayers(N, name) ==
  LET M == Append(Append(N, Empty), Empty)
  IN  Append(Filled(M, <<"call", Len(M) + 1>>), Empty)
CallJumps(N, J, name) ==
  Append(Append(Append(J, Exit(Len(N), "memory", MemoryFault)), Exit(Len(N) + 1, "memory", MemoryFault)),
         Exit(Len(N) + 2, "call", name))

LEMMA TakesCall ==
  ASSUME TextAssumption, NEW L, NEW J, Layed(L, J), NEW s \in Statements, s[1] = "call"
  PROVE  LET N == Fresh(L, 2)
         IN  Takes(s, L, J, CallLayers(N, s[2]), CallJumps(N, J, s[2]))
<1> DEFINE N == Fresh(L, 2)
           N1 == Append(N, Empty)
           J1 == Append(J, Exit(Len(N), "memory", MemoryFault))
           N2 == Append(N1, Empty)
           J2 == Append(J1, Exit(Len(N) + 1, "memory", MemoryFault))
           item == <<"call", Len(N2) + 1>>
           N3 == Filled(N2, item)
           M == Append(N3, Empty)
           K == Append(J2, Exit(Len(N) + 2, "call", s[2]))
<1>1. PICK m \in Nat, q \in Nat :
        /\ m = Len(N) /\ q = Len(N[m].items) + 1 /\ Len(L) <= m /\ m >= 2
        /\ Comes(L, J, N, J, m, q)
  BY FreshComes
<1>2. Moves(L, J, N, J) /\ Layed(N, J)
  BY FreshIs DEF Moves
<1>3. s[2] \in Names
  BY StatementIs
<1> HIDE DEF N
<1>4. /\ Moves(N, J, N1, J1) /\ Layed(N1, J1) /\ Len(N1) = m + 1 /\ N1[m + 1].items = <<>>
      /\ Left(N1, J1, m + 1, m, q, "memory", MemoryFault)
  <2>1. "memory" \in Sorts /\ MemoryFault \in Names \cup {Return, MemoryFault, Report}
    BY DEF Sorts
  <2>2. LeftBehind(N, J, "memory", MemoryFault, N1, J1)
    BY ONLY <1>2, <2>1, LeavesLeft, Zenon
  <2> HIDE DEF N1, J1
  <2> QED BY <1>1, <2>2 DEF LeftBehind
<1> HIDE DEF N1, J1
<1>5. /\ Moves(N1, J1, N2, J2) /\ Layed(N2, J2) /\ Len(N2) = m + 2 /\ N2[m + 2].items = <<>>
      /\ Left(N2, J2, m + 2, m + 1, 1, "memory", MemoryFault)
  <2>1. "memory" \in Sorts /\ MemoryFault \in Names \cup {Return, MemoryFault, Report}
    BY DEF Sorts
  <2>2. Len(N1[m + 1].items) + 1 = 1 /\ Len(N) + 1 = m + 1 /\ (m + 1) + 1 = m + 2
    BY <1>1, <1>4
  <2>3. J2 = Append(J1, Exit(Len(N1), "memory", MemoryFault))
    BY <1>4, <2>2
  <2>4. LeftBehind(N1, J1, "memory", MemoryFault, N2, J2)
    BY ONLY <1>4, <2>1, <2>3, LeavesLeft, Zenon
  <2> QED BY <1>4, <2>2, <2>4 DEF LeftBehind
<1> HIDE DEF N2, J2
<1>6. item \in Rows /\ item = <<"call", m + 3>>
  BY <1>5 DEF Rows
<1>7. /\ Moves(N2, J2, N3, J2) /\ Layed(N3, J2) /\ Len(N3) = m + 2
      /\ N3[m + 2].items = << <<"call", m + 3>> >>
  <2>1. /\ Moves(N2, J2, N3, J2) /\ Len(N3) = Len(N2)
        /\ N3[Len(N2)].items = Append(N2[Len(N2)].items, item)
    BY <1>5, <1>6, Fills
  <2> QED BY <1>5, <1>6, <2>1 DEF Moves
<1> HIDE DEF N3, item
<1>8. /\ Moves(N3, J2, M, K) /\ Layed(M, K) /\ Len(M) = m + 3 /\ M[m + 3].items = <<>>
      /\ Left(M, K, m + 3, m + 2, 2, "call", s[2])
  <2>1. "call" \in Sorts /\ s[2] \in Names \cup {Return, MemoryFault, Report}
    BY <1>3 DEF Sorts
  <2>2. Len(N3[m + 2].items) + 1 = 2 /\ Len(N) + 2 = m + 2 /\ (m + 2) + 1 = m + 3
    BY <1>1, <1>7
  <2>3. K = Append(J2, Exit(Len(N3), "call", s[2]))
    BY <1>7, <2>2
  <2>4. LeftBehind(N3, J2, "call", s[2], M, K)
    BY ONLY <1>7, <2>1, <2>3, LeavesLeft, Zenon
  <2> QED BY <1>7, <2>2, <2>4 DEF LeftBehind
<1> HIDE DEF M, K
<1>9. Moves(N2, J2, M, K)
  BY <1>7, <1>8, MovesOn
<1>10. Moves(N1, J1, M, K)
  BY <1>5, <1>9, MovesOn
<1>11. Moves(N, J, M, K)
  BY <1>4, <1>10, MovesOn
<1>12. Moves(L, J, M, K)
  BY <1>2, <1>11, MovesOn
<1>13. Comes(L, J, M, K, m, q)
  BY <1>1, <1>11, ComesOn
<1>14. /\ m \in Nat /\ m >= 1 /\ m + 1 \in Nat /\ m + 1 >= 1 /\ m + 2 \in Nat /\ m + 2 >= 1
       /\ m \in 1 .. Len(M) /\ Len(M[Len(M)].items) + 1 = 1
  BY <1>1, <1>8
<1>15. Left(M, K, m + 3, m, q, "memory", MemoryFault)
  BY <1>4, <1>8, <1>10, <1>14, LeftGrows
<1>16. Left(M, K, m + 3, m + 1, 1, "memory", MemoryFault)
  BY <1>5, <1>8, <1>9, <1>14, LeftGrows
<1>17. M[m + 2].items[1] = <<"call", m + 3>>
  <2>1. m + 2 \in 1 .. Len(N3) - 1 \/ m + 2 = Len(N3)
    BY <1>7
  <2>2. 1 \in 1 .. Len(N3[Len(N3)].items)
    BY <1>7
  <2>3. M[m + 2].items[1] = N3[m + 2].items[1]
    BY <1>7, <1>8, <2>2 DEF Moves, Grows
  <2> QED BY <1>7, <2>3
<1>18. Compiled(M, K, m + 3, s, m, q, m + 3, 1)
  BY <1>8, <1>15, <1>16, <1>17 DEF Compiled
<1>19. Takes(s, L, J, M, K)
  BY <1>8, <1>12, <1>13, <1>14, <1>18 DEF Takes
<1> QED BY <1>1, <1>19 DEF M, K, N3, item, N2, J2, N1, J1, N, CallLayers, CallJumps

-----------------------------------------------------------------------------
(* The names put down are the text's, after another statement too.         *)
LEMMA MoreText ==
  ASSUME NEW t \in Seq(Statements), NEW s \in Statements
  PROVE  /\ Len(Append(t, s)) = Len(t) + 1 /\ Append(t, s)[Len(t) + 1] = s
         /\ Append(t, s) \in Seq(Statements) /\ Len(t) \in Nat
         /\ \A i \in 1 .. Len(t) : Append(t, s)[i] = t[i]
OBVIOUS

LEMMA NamedOther ==
  ASSUME NEW t \in Seq(Statements), NEW s \in Statements, NEW B, NEW A, NEW D, NEW E,
         Named(t, B, A, D), s[1] \notin {"label", "set"}, DOMAIN A \cap (DOMAIN B \cup E) = {}
  PROVE  Named(Append(t, s), B, A, E)
<1>1. PICK n \in Nat : n = Len(t)
  OBVIOUS
<1> DEFINE u == Append(t, s)
<1>2. Len(u) = n + 1 /\ u[n + 1] = s /\ \A i \in 1 .. n : u[i] = t[i]
  BY <1>1, MoreText
<1> HIDE DEF u
<1>3. \A i \in 1 .. n + 1 : u[i][1] \in {"label", "set"} => i \in 1 .. n
  BY <1>2
<1>4. \A i \in 1 .. n : i \in 1 .. n + 1
  BY <1>1
<1>5. Named(u, B, A, E)
  BY ONLY <1>1, <1>2, <1>3, <1>4, Named(t, B, A, D), DOMAIN A \cap (DOMAIN B \cup E) = {}
     DEF Named
<1> QED BY <1>5 DEF u

LEMMA NamedLabel ==
  ASSUME NEW t \in Seq(Statements), NEW s \in Statements, NEW B, NEW A, NEW D, NEW v,
         Named(t, B, A, D), s = <<"label", s[2]>>,
         \A i \in 1 .. Len(t) : t[i][1] = "label" => t[i][2] \in DOMAIN B,
         s[2] \notin DOMAIN B, s[2] \notin DOMAIN A
  PROVE  Named(Append(t, s), With(B, s[2], v), A, D)
<1>1. PICK n \in Nat : n = Len(t)
  OBVIOUS
<1>0. PICK C : C = With(B, s[2], v)
  OBVIOUS
<1> DEFINE u == Append(t, s)
<1>2. Len(u) = n + 1 /\ u[n + 1] = s /\ \A i \in 1 .. n : u[i] = t[i]
  BY <1>1, MoreText
<1>3. DOMAIN C = DOMAIN B \cup {s[2]}
  BY ONLY <1>0 DEF With
<1> HIDE DEF u
<1>4. \A i \in 1 .. n + 1 : i \in 1 .. n \/ i = n + 1
  BY <1>1
<1>5. \A i \in 1 .. n : i \in 1 .. n + 1
  BY <1>1
<1>6. s[1] = "label" /\ s[1] # "set"
  OBVIOUS
<1>7. \A m \in DOMAIN C \cap Names : \E i \in 1 .. n + 1 : u[i] = <<"label", m>>
  <2> SUFFICES ASSUME NEW m \in DOMAIN C \cap Names
               PROVE  \E i \in 1 .. n + 1 : u[i] = <<"label", m>>
    OBVIOUS
  <2>1. CASE m = s[2]
    <3>1. n + 1 \in 1 .. n + 1 /\ u[n + 1] = <<"label", m>>
      BY <1>1, <1>2, <2>1
    <3> QED BY <3>1
  <2>2. CASE m # s[2]
    <3>1. m \in DOMAIN B \cap Names
      BY <1>3, <2>2
    <3>2. PICK i \in 1 .. n : t[i] = <<"label", m>>
      BY <1>1, <3>1 DEF Named
    <3> QED BY <1>2, <1>5, <3>2
  <2> QED BY <2>1, <2>2
<1>8. ASSUME NEW i \in 1 .. n + 1, NEW j \in 1 .. n + 1, u[i][1] = "label", u[j][1] = "label",
             u[i][2] = u[j][2]
      PROVE  i = j
  <2>1. CASE i \in 1 .. n /\ j \in 1 .. n
    BY <1>1, <1>2, <1>8, <2>1 DEF Named
  <2>2. CASE i = n + 1 /\ j \in 1 .. n
    <3>1. t[j][2] = s[2] /\ t[j][1] = "label"
      BY <1>2, <1>8, <2>2
    <3> QED BY <1>1, <2>2, <3>1
  <2>3. CASE i \in 1 .. n /\ j = n + 1
    <3>1. t[i][2] = s[2] /\ t[i][1] = "label"
      BY <1>2, <1>8, <2>3
    <3> QED BY <1>1, <2>3, <3>1
  <2> QED BY <1>4, <2>1, <2>2, <2>3
<1>9. \A i \in 1 .. n + 1 : u[i][1] = "set" => u[i][2] \in DOMAIN A /\ A[u[i][2]] = u[i][3]
  BY <1>1, <1>2, <1>4, <1>6 DEF Named
<1>10. \A m \in DOMAIN A : m \in Names /\ A[m] \in Names
                           /\ \E i \in 1 .. n + 1 : u[i] = <<"set", m, A[m]>>
  <2> SUFFICES ASSUME NEW m \in DOMAIN A
               PROVE  m \in Names /\ A[m] \in Names
                      /\ \E i \in 1 .. n + 1 : u[i] = <<"set", m, A[m]>>
    OBVIOUS
  <2>1. m \in Names /\ A[m] \in Names /\ \E i \in 1 .. n : t[i] = <<"set", m, A[m]>>
    BY <1>1 DEF Named
  <2> QED BY <1>2, <1>5, <2>1
<1>11. DOMAIN A \cap (DOMAIN C \cup D) = {}
  BY <1>3 DEF Named
<1>12. Named(u, C, A, D)
  BY ONLY <1>2, <1>7, <1>8, <1>9, <1>10, <1>11 DEF Named
<1> QED BY <1>0, <1>12 DEF u

LEMMA NamedSet ==
  ASSUME NEW t \in Seq(Statements), NEW s \in Statements, NEW B, NEW A, NEW D,
         Named(t, B, A, D), s = <<"set", s[2], s[3]>>, s[2] \in Names, s[3] \in Names,
         s[2] \notin DOMAIN A, s[2] \notin DOMAIN B \cup D
  PROVE  Named(Append(t, s), B, With(A, s[2], s[3]), D)
<1>1. PICK n \in Nat : n = Len(t)
  OBVIOUS
<1>0. PICK C : C = With(A, s[2], s[3])
  OBVIOUS
<1> DEFINE u == Append(t, s)
<1>2. Len(u) = n + 1 /\ u[n + 1] = s /\ \A i \in 1 .. n : u[i] = t[i]
  BY <1>1, MoreText
<1>3. /\ DOMAIN C = DOMAIN A \cup {s[2]} /\ C[s[2]] = s[3]
      /\ \A m \in DOMAIN A : m # s[2] => C[m] = A[m]
  BY ONLY <1>0 DEF With
<1> HIDE DEF u
<1>4. \A i \in 1 .. n + 1 : i \in 1 .. n \/ i = n + 1
  BY <1>1
<1>5. \A i \in 1 .. n : i \in 1 .. n + 1
  BY <1>1
<1>6. s[1] = "set" /\ s[1] # "label"
  OBVIOUS
<1>7. \A m \in DOMAIN B \cap Names : \E i \in 1 .. n + 1 : u[i] = <<"label", m>>
  <2> SUFFICES ASSUME NEW m \in DOMAIN B \cap Names
               PROVE  \E i \in 1 .. n + 1 : u[i] = <<"label", m>>
    OBVIOUS
  <2>1. PICK i \in 1 .. n : t[i] = <<"label", m>>
    BY <1>1 DEF Named
  <2> QED BY <1>2, <1>5, <2>1
<1>8. \A i, j \in 1 .. n + 1 :
        u[i][1] = "label" /\ u[j][1] = "label" /\ u[i][2] = u[j][2] => i = j
  BY <1>1, <1>2, <1>4, <1>6 DEF Named
<1>9. ASSUME NEW i \in 1 .. n + 1, u[i][1] = "set"
      PROVE  u[i][2] \in DOMAIN C /\ C[u[i][2]] = u[i][3]
  <2>1. CASE i = n + 1
    BY <1>2, <1>3, <2>1
  <2>2. CASE i \in 1 .. n
    <3>1. u[i] = t[i] /\ t[i][2] \in DOMAIN A /\ A[t[i][2]] = t[i][3]
      BY <1>1, <1>2, <1>9, <2>2 DEF Named
    <3>2. t[i][2] # s[2]
      BY <3>1
    <3> QED BY <1>3, <3>1, <3>2
  <2> QED BY <1>4, <2>1, <2>2
<1>10. \A m \in DOMAIN C : m \in Names /\ C[m] \in Names
                           /\ \E i \in 1 .. n + 1 : u[i] = <<"set", m, C[m]>>
  <2> SUFFICES ASSUME NEW m \in DOMAIN C
               PROVE  m \in Names /\ C[m] \in Names
                      /\ \E i \in 1 .. n + 1 : u[i] = <<"set", m, C[m]>>
    OBVIOUS
  <2>1. CASE m = s[2]
    <3>1. n + 1 \in 1 .. n + 1 /\ u[n + 1] = <<"set", m, C[m]>>
      BY <1>1, <1>2, <1>3, <2>1
    <3> QED BY <1>3, <2>1, <3>1
  <2>2. CASE m # s[2]
    <3>1. m \in DOMAIN A /\ C[m] = A[m]
      BY <1>3, <2>2
    <3>2. m \in Names /\ A[m] \in Names /\ \E i \in 1 .. n : t[i] = <<"set", m, A[m]>>
      BY <1>1, <3>1 DEF Named
    <3> QED BY <1>2, <1>5, <3>1, <3>2
  <2> QED BY <2>1, <2>2
<1>11. DOMAIN C \cap (DOMAIN B \cup D) = {}
  BY <1>3 DEF Named
<1>12. Named(u, B, C, D)
  BY ONLY <1>2, <1>7, <1>8, <1>9, <1>10, <1>11 DEF Named
<1> QED BY <1>0, <1>12 DEF u

-----------------------------------------------------------------------------
(* The layers, jumps and labels go on with statement s.                    *)
Added(s, L, J, M, K, C) ==
  /\ Moves(L, J, M, K)
  /\ \E m \in 1 .. Len(M), q \in Nat :
       /\ Does(s) => Compiled(M, K, Len(M), s, m, q, Len(M), Len(M[Len(M)].items) + 1)
       /\ \A l \in 1 .. Len(L) : \A p \in Nat :
            Onto(L, J, Len(L), l, p, Len(L), Len(L[Len(L)].items) + 1) =>
              IF Does(s) THEN Onto(M, K, Len(M), l, p, m, q)
              ELSE Onto(M, K, Len(M), l, p, Len(M), Len(M[Len(M)].items) + 1)
  /\ s[1] = "label" => s[2] \in DOMAIN C /\ C[s[2]] = Len(M) /\ Len(M[Len(M)].items) = 0

LEMMA TakesAdded ==
  ASSUME NEW L, NEW J, NEW M, NEW K, NEW s, NEW C, Does(s), Takes(s, L, J, M, K)
  PROVE  Added(s, L, J, M, K, C)
<1>1. PICK m \in 1 .. Len(M), q \in Nat :
        /\ Comes(L, J, M, K, m, q)
        /\ Compiled(M, K, Len(M), s, m, q, Len(M), Len(M[Len(M)].items) + 1)
  BY DEF Takes
<1>2. s[1] # "label" /\ Moves(L, J, M, K)
  BY DEF Does, Takes
<1>3. \A l \in 1 .. Len(L) : \A p \in Nat :
        Onto(L, J, Len(L), l, p, Len(L), Len(L[Len(L)].items) + 1) => Onto(M, K, Len(M), l, p, m, q)
  BY <1>1 DEF Comes
<1> QED BY ONLY <1>1, <1>2, <1>3, Does(s) DEF Added

LEMMA QuietAdded ==
  ASSUME NEW L, NEW J, Layed(L, J), NEW s, NEW C, ~Does(s), s[1] # "label"
  PROVE  Added(s, L, J, L, J, C)
<1>1. Moves(L, J, L, J) /\ 1 \in 1 .. Len(L) /\ 1 \in Nat
  BY Stays, LayedIs
<1> QED BY ONLY <1>1, ~Does(s), s[1] # "label" DEF Added

LEMMA LabelAdded ==
  ASSUME NEW L, NEW J, Layed(L, J), NEW s, NEW B, s[1] = "label", NEW M,
         M = IF Len(L[Len(L)].items) = 0 THEN L ELSE Append(L, Empty)
  PROVE  Added(s, L, J, M, J, With(B, s[2], Len(M)))
<1>1. ~Does(s)
  BY DEF Does
<1>2. PICK e \in Nat : e = Len(L) /\ e >= 2 /\ L \in Seq(Flowing)
  BY LayedIs DEF Layed
<1>3. Moves(L, J, M, J)
  BY Stays, Opens
<1>4. PICK f \in Nat : f = Len(M) /\ f \in 1 .. Len(M) /\ Len(M[f].items) = 0
  BY <1>2, AppendIs
<1>5. ASSUME NEW l \in 1 .. Len(L), NEW p \in Nat,
             Onto(L, J, Len(L), l, p, Len(L), Len(L[Len(L)].items) + 1)
      PROVE  Onto(M, J, Len(M), l, p, Len(M), Len(M[Len(M)].items) + 1)
  <2>1. CASE M = L
    BY <1>5, <2>1
  <2>2. CASE M # L
    <3>1. M = Append(L, Empty) /\ Len(L[Len(L)].items) # 0
      BY <2>2
    <3>2. Comes(L, J, M, J, Len(L) + 1, 1) /\ f = Len(L) + 1
      BY <1>2, <1>4, <3>1, OpenComes, AppendIs
    <3> QED BY <1>4, <1>5, <3>2 DEF Comes
  <2> QED BY <2>1, <2>2
<1>6. PICK C : C = With(B, s[2], Len(M))
  OBVIOUS
<1>7. s[2] \in DOMAIN C /\ C[s[2]] = Len(M)
  BY ONLY <1>6 DEF With
<1>8. Len(M[Len(M)].items) = 0 /\ f \in 1 .. Len(M)
  BY <1>4
<1>9. Added(s, L, J, M, J, C)
  BY ONLY <1>1, <1>3, <1>4, <1>5, <1>7, <1>8 DEF Added
<1> QED BY <1>6, <1>9

LEMMA TextGoesOn ==
  ASSUME TextAssumption, TextInv, NEW s \in Statements, text' = Append(text, s),
         Added(s, layers, jumps, layers', jumps', labels'),
         \A n \in DOMAIN labels : n \in DOMAIN labels' /\ labels'[n] = labels[n],
         DOMAIN labels' \subseteq Names, data' \subseteq Names, weak' \subseteq Names,
         Named(text', labels', aliases', data'), UNCHANGED stepVars
  PROVE  TextInv'
<1>1. text \in Seq(Statements) /\ Idles /\ TextBuilt
  BY DEF TextInv, Tables
<1>2. Idles'
  BY <1>1 DEF Idles, stepVars
<1>3. Moves(layers, jumps, layers', jumps')
  BY DEF Added
<1>4. Tables'
  <2>1. Layed(layers', jumps')
    BY <1>3 DEF Moves
  <2> QED BY <1>1, <2>1, MoreText DEF Tables, Layed
<1>5. TextBuilt'
  <2>1. PICK lay, off, on, to :
          /\ Points(lay, off, on, to)
          /\ Built(text, layers, jumps, labels, Len(layers), lay, off, on, to)
    BY <1>1 DEF TextBuilt
  <2>2. PICK m \in 1 .. Len(layers'), q \in Nat :
          /\ Does(s) => Compiled(layers', jumps', Len(layers'), s, m, q, Len(layers'),
                                 Len(layers'[Len(layers')].items) + 1)
          /\ \A l \in 1 .. Len(layers) : \A p \in Nat :
               Onto(layers, jumps, Len(layers), l, p, Len(layers),
                    Len(layers[Len(layers)].items) + 1) =>
                 IF Does(s) THEN Onto(layers', jumps', Len(layers'), l, p, m, q)
                 ELSE Onto(layers', jumps', Len(layers'), l, p, Len(layers'),
                           Len(layers'[Len(layers')].items) + 1)
    BY DEF Added
  <2>3. s[1] = "label" => /\ s[2] \in DOMAIN labels' /\ labels'[s[2]] = Len(layers')
                          /\ Len(layers'[Len(layers')].items) = 0
    BY DEF Added
  <2>4. \E lay2, off2, on2, to2 :
          /\ Points(lay2, off2, on2, to2)
          /\ Built(Append(text, s), layers', jumps', labels', Len(layers'), lay2, off2, on2, to2)
    BY ONLY TextAssumption, s \in Statements, <1>1, <1>3, <2>1, <2>2, <2>3,
       \A n \in DOMAIN labels : n \in DOMAIN labels' /\ labels'[n] = labels[n], StepBuilt
  <2> QED BY <2>4 DEF TextBuilt
<1> QED BY <1>2, <1>4, <1>5 DEF TextInv

-----------------------------------------------------------------------------
(* Every statement keeps the invariant, or the text is refused.            *)
LEMMA InitText == ASSUME TextAssumption, TextInit PROVE TextInv
<1>1. /\ text = <<>> /\ labels = <<>> /\ data = {} /\ weak = {} /\ aliases = <<>>
      /\ layers = Append(<<Empty>>, Empty) /\ jumps = <<Exit(1, "start", Main)>>
  BY DEF TextInit, Depart, Opened, Exit
<1>2. Empty \in Flowing /\ Empty.items = <<>>
  BY DEF Empty, Flowing
<1>3. /\ layers \in Seq(Flowing) /\ Len(layers) = 2 /\ layers[1] = Empty /\ layers[2] = Empty
  <2>1. <<Empty>> \in Seq(Flowing) /\ Len(<<Empty>>) = 1 /\ <<Empty>>[1] = Empty
    BY <1>2
  <2> QED BY <1>1, <1>2, <2>1
<1>4. Exit(1, "start", Main) \in Leaving /\ Exit(1, "start", Main).layer = 1
  BY DEF Exit, Leaving, Sorts, TextAssumption
<1>5. jumps \in Seq(Leaving) /\ \A j : j \in Range(jumps) <=> j = Exit(1, "start", Main)
  BY <1>1, <1>4 DEF Range
<1>6. LeftOnce(jumps, 2)
  BY <1>4, <1>5 DEF LeftOnce
<1>7. Starts(layers, jumps)
  BY <1>2, <1>3, <1>5 DEF Starts, Exit
<1>8. Named(text, labels, aliases, data)
  <2>1. DOMAIN labels = {} /\ DOMAIN aliases = {} /\ 1 .. Len(text) = {}
    BY <1>1
  <2> QED BY <2>1 DEF Named
<1>9. text \in Seq(Statements) /\ DOMAIN labels \subseteq Names /\ data \subseteq Names
      /\ weak \subseteq Names
  BY <1>1
<1>10. Tables
  BY <1>3, <1>5, <1>6, <1>7, <1>8, <1>9 DEF Tables
<1>11. Idles
  BY DEF TextInit, Idles
<1>12. TextBuilt
  <2> DEFINE lay == [n \in Nat |-> 2]
             off == [n \in Nat |-> 1]
  <2>1. lay[1] = 2 /\ off[1] = 1 /\ Points(lay, off, lay, off)
    BY DEF Points
  <2> HIDE DEF lay, off
  <2>2. Len(text) = 0 /\ 1 .. 0 = {} /\ 1 .. 0 + 1 = {1}
    BY <1>1
  <2>3. Len(layers[2].items) + 1 = 1
    BY <1>2, <1>3
  <2>4. Onto(layers, jumps, 2, 2, 1, 2, 1)
    BY DEF Onto
  <2>5. Built(text, layers, jumps, labels, 2, lay, off, lay, off)
    BY ONLY <2>1, <2>2, <2>3, <2>4 DEF Built
  <2> QED BY <1>3, <2>1, <2>5 DEF TextBuilt
<1> QED BY <1>10, <1>11, <1>12 DEF TextInv

(* What a statement finds.                                                 *)
LEMMA TextNow ==
  ASSUME TextInv
  PROVE  /\ Layed(layers, jumps) /\ Work = R(layers, jumps, labels)
         /\ DOMAIN labels \subseteq Names /\ data \subseteq Names /\ weak \subseteq Names
         /\ text \in Seq(Statements) /\ Named(text, labels, aliases, data)
         /\ \A n \in DOMAIN labels : n \in DOMAIN labels /\ labels[n] = labels[n]
         /\ \A i \in 1 .. Len(text) : text[i][1] = "label" => text[i][2] \in DOMAIN labels
BY DEF TextInv, Tables, Layed, Work, R, TextBuilt, Built

LEMMA LabelKeeps ==
  ASSUME TextAssumption, TextInv, NEW s \in Statements, text' = Append(text, s),
         s[1] = "label", Label(s[2])
  PROVE  phase' = "refused" \/ (phase' = phase /\ TextInv')
<1>1. CASE s[2] \in TakenNames
  BY <1>1 DEF Label, Refuse
<1>2. CASE s[2] \notin TakenNames
  <2> DEFINE w == IF Places(layers[Here]) = 0 THEN Work ELSE Opened(Work)
  <2>1. Becomes(Marked(w, s[2])) /\ UNCHANGED <<phase, data, weak, aliases, stepVars>>
    BY <1>2 DEF Label
  <2>2. Layed(layers, jumps) /\ Work = R(layers, jumps, labels)
    BY TextNow
  <2>3. PICK M : M = IF Len(layers[Len(layers)].items) = 0 THEN layers ELSE Append(layers, Empty)
    OBVIOUS
  <2>4. w = R(M, jumps, labels)
    BY <2>2, <2>3, OpenedIs DEF Places, Here
  <2> HIDE DEF w
  <2>5. Marked(w, s[2]) = R(M, jumps, With(labels, s[2], Len(M)))
    BY <2>4, WorkIs
  <2>6. layers' = M /\ jumps' = jumps /\ labels' = With(labels, s[2], Len(M))
    BY <2>1, <2>5 DEF Becomes, R
  <2>7. Added(s, layers, jumps, layers', jumps', labels')
    BY <2>2, <2>3, <2>6, LabelAdded
  <2>8. /\ DOMAIN labels' = DOMAIN labels \cup {s[2]}
        /\ \A n \in DOMAIN labels : n # s[2] => labels'[n] = labels[n]
    BY ONLY <2>6 DEF With
  <2>9. s[2] \notin DOMAIN labels /\ s[2] \notin DOMAIN aliases
    BY <1>2 DEF TakenNames
  <2>10. \A n \in DOMAIN labels : n \in DOMAIN labels' /\ labels'[n] = labels[n]
    BY <2>8, <2>9
  <2>11. s[2] \in Names /\ s = <<"label", s[2]>>
    BY StatementIs
  <2>12. DOMAIN labels' \subseteq Names
    BY <2>8, <2>11, TextNow
  <2>13. Named(text', labels', aliases', data')
    <3>1. Named(Append(text, s), With(labels, s[2], Len(M)), aliases, data)
      BY <2>9, <2>11, TextNow, NamedLabel
    <3> QED BY <2>1, <2>6, <3>1
  <2>14. data' \subseteq Names /\ weak' \subseteq Names
    BY <2>1, TextNow
  <2> QED BY <2>1, <2>7, <2>10, <2>12, <2>13, <2>14, TextGoesOn
<1> QED BY <1>1, <1>2

(* A statement that changes no layer.                                      *)
LEMMA QuietKeeps ==
  ASSUME TextAssumption, TextInv, NEW s \in Statements, text' = Append(text, s),
         ~Does(s), s[1] # "label", UNCHANGED <<layers, jumps, labels, stepVars>>,
         data' \subseteq Names, weak' \subseteq Names, Named(text', labels, aliases', data')
  PROVE  TextInv'
<1>1. Added(s, layers, jumps, layers', jumps', labels')
  <2>1. Added(s, layers, jumps, layers, jumps, labels)
    BY TextNow, QuietAdded
  <2> QED BY <2>1
<1>2. DOMAIN labels' \subseteq Names
      /\ \A n \in DOMAIN labels : n \in DOMAIN labels' /\ labels'[n] = labels[n]
  BY TextNow
<1>3. UNCHANGED stepVars /\ Named(text', labels', aliases', data')
  OBVIOUS
<1> QED BY <1>1, <1>2, <1>3, TextGoesOn

LEMMA AliasKeeps ==
  ASSUME TextAssumption, TextInv, NEW s \in Statements, text' = Append(text, s),
         s[1] = "set", Alias(s[2], s[3])
  PROVE  phase' = "refused" \/ (phase' = phase /\ TextInv')
<1>1. CASE s[2] \in TakenNames
  BY <1>1 DEF Alias, Refuse
<1>2. CASE s[2] \notin TakenNames
  <2>1. /\ aliases' = With(aliases, s[2], s[3])
        /\ UNCHANGED <<phase, layers, labels, data, weak, jumps, stepVars>>
    BY <1>2 DEF Alias
  <2>2. s[2] \in Names /\ s[3] \in Names /\ s = <<"set", s[2], s[3]>> /\ ~Does(s)
    BY StatementIs DEF Does
  <2>3. Named(Append(text, s), labels, With(aliases, s[2], s[3]), data)
    BY <1>2, <2>2, TextNow, NamedSet DEF TakenNames
  <2>4. Named(text', labels, aliases', data')
    BY <2>1, <2>3
  <2>5. data' \subseteq Names /\ weak' \subseteq Names
    BY <2>1, TextNow
  <2> QED BY <2>1, <2>2, <2>4, <2>5, QuietKeeps
<1> QED BY <1>1, <1>2

LEMMA DataKeeps ==
  ASSUME TextAssumption, TextInv, NEW s \in Statements, text' = Append(text, s),
         s[1] = "data", Data(s[2])
  PROVE  phase' = "refused" \/ (phase' = phase /\ TextInv')
<1>1. CASE s[2] \in TakenNames
  BY <1>1 DEF Data, Refuse
<1>2. CASE s[2] \notin TakenNames
  <2>1. /\ data' = data \cup {s[2]}
        /\ UNCHANGED <<phase, layers, labels, weak, aliases, jumps, stepVars>>
    BY <1>2 DEF Data
  <2>2. s[2] \in Names /\ ~Does(s)
    BY StatementIs DEF Does
  <2>3. Named(text, labels, aliases, data) /\ text \in Seq(Statements)
    BY TextNow
  <2>4. DOMAIN aliases \cap (DOMAIN labels \cup data') = {}
    BY <1>2, <2>1, <2>3 DEF TakenNames, Named
  <2>5. Named(Append(text, s), labels, aliases, data')
    BY <2>3, <2>4, NamedOther
  <2>6. data' \subseteq Names /\ weak' \subseteq Names
    BY <2>1, <2>2, TextNow
  <2> QED BY <2>1, <2>2, <2>5, <2>6, QuietKeeps
<1> QED BY <1>1, <1>2

LEMMA WeakKeeps ==
  ASSUME TextAssumption, TextInv, NEW s \in Statements, text' = Append(text, s),
         s[1] = "weak", Weak(s[2])
  PROVE  phase' = phase /\ TextInv'
<1>1. /\ weak' = weak \cup {s[2]}
      /\ UNCHANGED <<phase, layers, labels, data, aliases, jumps, stepVars>>
  BY DEF Weak
<1>2. s[2] \in Names /\ ~Does(s)
  BY StatementIs DEF Does
<1>3. Named(text, labels, aliases, data) /\ text \in Seq(Statements)
  BY TextNow
<1>4. DOMAIN aliases \cap (DOMAIN labels \cup data) = {}
  BY <1>3 DEF Named
<1>5. Named(Append(text, s), labels, aliases, data)
  BY <1>3, <1>4, NamedOther
<1>6. data' \subseteq Names /\ weak' \subseteq Names
  BY <1>1, <1>2, TextNow
<1> QED BY <1>1, <1>2, <1>5, <1>6, QuietKeeps

(* A statement whose rows are added.                                       *)
LEMMA RowsKeep ==
  ASSUME TextAssumption, TextInv, NEW s \in Statements, text' = Append(text, s), Does(s),
         NEW M, NEW K, Takes(s, layers, jumps, M, K), layers' = M, jumps' = K,
         UNCHANGED <<labels, data, weak, aliases, stepVars>>
  PROVE  TextInv'
<1>1. Added(s, layers, jumps, layers', jumps', labels')
  BY TakesAdded
<1>2. Named(text, labels, aliases, data) /\ text \in Seq(Statements) /\ s[1] \notin {"label", "set"}
  BY TextNow DEF Does
<1>3. DOMAIN aliases \cap (DOMAIN labels \cup data) = {}
  BY <1>2 DEF Named
<1>4. Named(Append(text, s), labels, aliases, data)
  BY <1>2, <1>3, NamedOther
<1>5. /\ Named(text', labels', aliases', data') /\ UNCHANGED stepVars
      /\ DOMAIN labels' \subseteq Names /\ data' \subseteq Names /\ weak' \subseteq Names
      /\ \A n \in DOMAIN labels : n \in DOMAIN labels' /\ labels'[n] = labels[n]
  BY <1>4, TextNow
<1> QED BY <1>1, <1>5, TextGoesOn

LEMMA ComputeKeeps ==
  ASSUME TextAssumption, TextInv, NEW s \in Statements, text' = Append(text, s),
         s[1] = "op", Compute(s)
  PROVE  phase' = "refused" \/ (phase' = phase /\ TextInv')
<1>1. CASE ~Reached
  BY <1>1 DEF Compute, Refuse
<1>2. CASE Reached
  <2>1. Plain(Item(Roomy(Work, 1), s))
    BY <1>2 DEF Compute
  <2>2. Work = R(layers, jumps, labels) /\ Layed(layers, jumps)
    BY TextNow
  <2>3. Item(Roomy(Work, 1), s) = R(Filled(Fresh(layers, 1), s), jumps, labels)
    BY <2>2, WorkIs
  <2>4. Takes(s, layers, jumps, Filled(Fresh(layers, 1), s), jumps)
    BY <2>2, TakesOp
  <2>5. /\ layers' = Filled(Fresh(layers, 1), s) /\ jumps' = jumps
        /\ UNCHANGED <<phase, labels, data, weak, aliases, stepVars>>
    BY <2>1, <2>3 DEF Plain, Becomes, R
  <2> QED BY <2>4, <2>5, RowsKeep DEF Does
<1> QED BY <1>1, <1>2

LEMMA BranchKeeps ==
  ASSUME TextAssumption, TextInv, NEW s \in Statements, text' = Append(text, s),
         s[1] = "branch", BranchTo(s[2])
  PROVE  phase' = "refused" \/ (phase' = phase /\ TextInv')
<1>1. CASE ~(Reached /\ compared /\ ~Full)
  BY <1>1 DEF BranchTo, Refuse
<1>2. CASE Reached /\ compared /\ ~Full
  <2>1. Plain(Depart(Roomy(Work, 2), "branch", s[2]))
    BY <1>2 DEF BranchTo
  <2>2. Work = R(layers, jumps, labels) /\ Layed(layers, jumps)
    BY TextNow
  <2>3. PICK N, M, K : /\ N = Fresh(layers, 2) /\ M = Append(N, Empty)
                       /\ K = Append(jumps, Exit(Len(N), "branch", s[2]))
    OBVIOUS
  <2>4. Depart(Roomy(Work, 2), "branch", s[2]) = R(M, K, labels)
    BY <2>2, <2>3, WorkIs
  <2>5. Takes(s, layers, jumps, M, K)
    BY <2>2, <2>3, TakesBranch
  <2>6. /\ layers' = M /\ jumps' = K
        /\ UNCHANGED <<phase, labels, data, weak, aliases, stepVars>>
    BY <2>1, <2>4 DEF Plain, Becomes, R
  <2> QED BY <2>5, <2>6, RowsKeep DEF Does
<1> QED BY <1>1, <1>2

LEMMA FinalKeeps ==
  ASSUME TextAssumption, TextInv, NEW s \in Statements, text' = Append(text, s),
         NEW sort, NEW name,
         \/ s[1] = "jump" /\ sort = "jump" /\ name = s[2]
         \/ s[1] = "ret" /\ sort = "return" /\ name = Return
         \/ s[1] = "trap" /\ sort = "trap" /\ name = MemoryFault,
         Final(sort, name)
  PROVE  phase' = "refused" \/ (phase' = phase /\ TextInv')
<1>1. CASE ~(Reached /\ ~Full)
  BY <1>1 DEF Final, Refuse
<1>2. CASE Reached /\ ~Full
  <2>1. /\ Becomes(Depart(Work, sort, name))
        /\ UNCHANGED <<phase, data, weak, aliases, stepVars>>
    BY <1>2 DEF Final
  <2>2. Work = R(layers, jumps, labels) /\ Layed(layers, jumps)
    BY TextNow
  <2>3. PICK M, K : /\ M = Append(layers, Empty)
                    /\ K = Append(jumps, Exit(Len(layers), sort, name))
    OBVIOUS
  <2>4. Depart(Work, sort, name) = R(M, K, labels)
    BY <2>2, <2>3, WorkIs
  <2>5. Takes(s, layers, jumps, M, K)
    BY <2>2, <2>3, TakesFinal
  <2>6. layers' = M /\ jumps' = K /\ labels' = labels
    BY <2>1, <2>4 DEF Becomes, R
  <2> QED BY <2>1, <2>5, <2>6, RowsKeep DEF Does
<1> QED BY <1>1, <1>2

(* Two accesses to memory, and the rows of a call.                         *)
LEMMA AccessIs ==
  ASSUME NEW L, NEW J, NEW B
  PROVE  MemoryAccess(R(L, J, B)) = R(Append(Fresh(L, 2), Empty),
                                Append(J, Exit(Len(Fresh(L, 2)), "memory", MemoryFault)), B)
BY WorkIs DEF MemoryAccess

LEMMA FreshEmpty ==
  ASSUME TextAssumption, NEW L, L[Len(L)].items = <<>>, NEW n \in Nat, n <= 2
  PROVE  Fresh(L, n) = L
BY DEF Fresh, TextAssumption

LEMMA CallIs ==
  ASSUME TextAssumption, NEW L, NEW J, NEW B, Layed(L, J), NEW name
  PROVE  LET w == Roomy(MemoryAccess(MemoryAccess(R(L, J, B))), 1)
             N == Fresh(L, 2)
         IN  Depart(Item(w, <<"call", Len(w.layers) + 1>>), "call", name) =
               R(CallLayers(N, name), CallJumps(N, J, name), B)
<1> DEFINE w == Roomy(MemoryAccess(MemoryAccess(R(L, J, B))), 1)
<1>1. PICK N : N = Fresh(L, 2)
  OBVIOUS
<1>2. N \in Seq(Flowing)
  BY <1>1, FreshIs DEF Moves, Layed
<1>3. PICK N1, J1 : N1 = Append(N, Empty) /\ J1 = Append(J, Exit(Len(N), "memory", MemoryFault))
  OBVIOUS
<1>4. N1 \in Seq(Flowing) /\ Len(N1) = Len(N) + 1 /\ N1[Len(N1)].items = <<>>
  BY <1>2, <1>3, AppendIs
<1>5. PICK N2, J2 : N2 = Append(N1, Empty) /\ J2 = Append(J1, Exit(Len(N1), "memory", MemoryFault))
  OBVIOUS
<1>6. N2 \in Seq(Flowing) /\ Len(N2) = Len(N1) + 1 /\ N2[Len(N2)].items = <<>>
  BY <1>4, <1>5, AppendIs
<1>7. MemoryAccess(R(L, J, B)) = R(N1, J1, B)
  BY <1>1, <1>3, AccessIs
<1>8. MemoryAccess(R(N1, J1, B)) = R(N2, J2, B)
  <2>1. Fresh(N1, 2) = N1
    BY <1>4, FreshEmpty
  <2> QED BY <1>5, <2>1, AccessIs
<1>9. w = R(N2, J2, B) /\ w.layers = N2
  <2>1. w = R(Fresh(N2, 1), J2, B)
    BY <1>7, <1>8, WorkIs
  <2>2. Fresh(N2, 1) = N2
    BY <1>6, FreshEmpty
  <2> QED BY <2>1, <2>2 DEF R
<1> HIDE DEF w
<1>10. PICK N3 : N3 = Filled(N2, <<"call", Len(N2) + 1>>)
  OBVIOUS
<1>11. Item(w, <<"call", Len(w.layers) + 1>>) = R(N3, J2, B)
  BY <1>9, <1>10, WorkIs
<1>12. Len(N3) = Len(N2) /\ Len(N2) = Len(N) + 2 /\ Len(N1) = Len(N) + 1
  BY <1>2, <1>4, <1>6, <1>10 DEF Filled
<1>13. Depart(R(N3, J2, B), "call", name) =
         R(Append(N3, Empty), Append(J2, Exit(Len(N3), "call", name)), B)
  BY WorkIs
<1>14. CallLayers(N, name) = Append(N3, Empty)
  BY <1>3, <1>5, <1>10 DEF CallLayers
<1>15. CallJumps(N, J, name) = Append(J2, Exit(Len(N3), "call", name))
  BY <1>3, <1>5, <1>12 DEF CallJumps
<1>16. Depart(Item(w, <<"call", Len(w.layers) + 1>>), "call", name) =
         R(CallLayers(N, name), CallJumps(N, J, name), B)
  BY <1>11, <1>13, <1>14, <1>15
<1> QED BY <1>1, <1>16 DEF w

LEMMA CallKeeps ==
  ASSUME TextAssumption, TextInv, NEW s \in Statements, text' = Append(text, s),
         s[1] = "call", Call(s[2])
  PROVE  phase' = "refused" \/ (phase' = phase /\ TextInv')
<1>1. CASE ~(Reached /\ callCount < CallRoom /\ Len(jumps) + 3 <= JumpRoom)
  BY <1>1 DEF Call, Refuse
<1>2. CASE Reached /\ callCount < CallRoom /\ Len(jumps) + 3 <= JumpRoom
  <2> DEFINE w == Roomy(MemoryAccess(MemoryAccess(Work)), 1)
  <2>1. Plain(Depart(Item(w, <<"call", Len(w.layers) + 1>>), "call", s[2]))
    BY <1>2 DEF Call
  <2>2. Work = R(layers, jumps, labels) /\ Layed(layers, jumps)
    BY TextNow
  <2>3. PICK N, M, K : /\ N = Fresh(layers, 2) /\ M = CallLayers(N, s[2])
                       /\ K = CallJumps(N, jumps, s[2])
    OBVIOUS
  <2>4. Takes(s, layers, jumps, M, K)
    BY <2>2, <2>3, TakesCall
  <2>5. Depart(Item(w, <<"call", Len(w.layers) + 1>>), "call", s[2]) = R(M, K, labels)
    BY <2>2, <2>3, CallIs
  <2>6. /\ layers' = M /\ jumps' = K
        /\ UNCHANGED <<phase, labels, data, weak, aliases, stepVars>>
    BY <2>1, <2>5 DEF Plain, Becomes, R
  <2> QED BY <2>4, <2>6, RowsKeep DEF Does
<1> QED BY <1>1, <1>2

LEMMA StatementKeeps ==
  ASSUME TextAssumption, phase = "text", TextInv, Statement
  PROVE  phase' = "refused" \/ (phase' = "text" /\ TextInv')
<1>1. PICK s \in Statements :
        /\ text' = Append(text, s)
        /\ CASE s[1] = "label"  -> Label(s[2])
            [] s[1] = "data"   -> Data(s[2])
            [] s[1] = "set"    -> Alias(s[2], s[3])
            [] s[1] = "weak"   -> Weak(s[2])
            [] s[1] = "op"     -> Compute(s)
            [] s[1] = "branch" -> BranchTo(s[2])
            [] s[1] = "call"   -> Call(s[2])
            [] s[1] = "jump"   -> Final("jump", s[2])
            [] s[1] = "ret"    -> Final("return", Return)
            [] s[1] = "trap"   -> Final("trap", MemoryFault)
  BY DEF Statement
<1>2. s[1] \in {"label", "data", "weak", "set", "op", "branch", "call", "jump", "ret", "trap"}
  BY StatementIs
<1>3. CASE s[1] = "label"
  BY <1>1, <1>3, LabelKeeps
<1>4. CASE s[1] = "data"
  BY <1>1, <1>4, DataKeeps
<1>5. CASE s[1] = "set"
  BY <1>1, <1>5, AliasKeeps
<1>6. CASE s[1] = "weak"
  BY <1>1, <1>6, WeakKeeps
<1>7. CASE s[1] = "op"
  BY <1>1, <1>7, ComputeKeeps
<1>8. CASE s[1] = "branch"
  BY <1>1, <1>8, BranchKeeps
<1>9. CASE s[1] = "call"
  BY <1>1, <1>9, CallKeeps
<1>10. CASE s[1] = "jump"
  BY <1>1, <1>10, FinalKeeps
<1>11. CASE s[1] = "ret"
  BY <1>1, <1>11, FinalKeeps
<1>12. CASE s[1] = "trap"
  BY <1>1, <1>12, FinalKeeps
<1> QED BY <1>2, <1>3, <1>4, <1>5, <1>6, <1>7, <1>8, <1>9, <1>10, <1>11, <1>12

-----------------------------------------------------------------------------
(* What names stand for.                                                   *)
Repeated(X, g, a, n, f) ==
  f \in [0 .. n -> X] /\ f[0] = a /\ \A k \in 1 .. n : f[k] = g[f[k - 1]]

LEMMA Repeats ==
  ASSUME NEW X, NEW g \in [X -> X], NEW a \in X, NEW n \in Nat
  PROVE  \E f : Repeated(X, g, a, n, f)
<1> DEFINE Good(m) == \E f \in [0 .. m -> X] : f[0] = a /\ \A k \in 1 .. m : f[k] = g[f[k - 1]]
           S == {m \in Nat : Good(m)}
<1>1. 0 \in S
  <2> DEFINE f == [k \in 0 .. 0 |-> a]
  <2>1. f \in [0 .. 0 -> X] /\ f[0] = a /\ 1 .. 0 = {}
    OBVIOUS
  <2> QED BY <2>1
<1>2. ASSUME NEW m \in Nat, m \in S PROVE m + 1 \in S
  <2>1. PICK f \in [0 .. m -> X] : f[0] = a /\ \A k \in 1 .. m : f[k] = g[f[k - 1]]
    BY <1>2
  <2>2. f[m] \in X /\ g[f[m]] \in X
    OBVIOUS
  <2> DEFINE h == [k \in 0 .. m + 1 |-> IF k = m + 1 THEN g[f[m]] ELSE f[k]]
  <2>3. h \in [0 .. m + 1 -> X] /\ h[m + 1] = g[f[m]] /\ \A k \in 0 .. m : h[k] = f[k]
    BY <2>2
  <2> HIDE DEF h
  <2>4. ASSUME NEW k \in 1 .. m + 1 PROVE h[k] = g[h[k - 1]]
    <3>1. CASE k = m + 1
      BY <2>3, <3>1
    <3>2. CASE k \in 1 .. m
      <4>1. k - 1 \in 0 .. m /\ k \in 0 .. m
        BY <3>2
      <4> QED BY <2>1, <2>3, <3>2, <4>1
    <3> QED BY <3>1, <3>2
  <2>5. h[0] = a
    BY <2>1, <2>3
  <2> QED BY <2>3, <2>4, <2>5
<1> HIDE DEF Good
<1>3. Nat \subseteq S
  BY <1>1, <1>2, Induction
<1>4. Good(n)
  BY <1>3
<1> QED BY <1>4 DEF Good, Repeated

LEMMA RootsAre ==
  ASSUME TextAssumption
  PROVE  \E f : /\ Roots = f[Cardinality(Names)]
                /\ f[0] = [n \in Names |-> n]
                /\ \A k \in 1 .. Cardinality(Names) : f[k] = Onward(f[k - 1])
<1>1. PICK c \in Nat : c = Cardinality(Names)
  BY FS_CardinalityType DEF TextAssumption
<1> DEFINE X == [Names -> Names]
           g == [f \in X |-> Onward(f)]
           id == [n \in Names |-> n]
           G(f) == [k \in 0 .. c |-> IF k = 0 THEN id ELSE Onward(f[k - 1])]
<1>2. g \in [X -> X]
  <2> SUFFICES ASSUME NEW f \in X PROVE Onward(f) \in X
    OBVIOUS
  <2>1. ASSUME NEW n \in Names PROVE (IF SetTo(n) = {} THEN n ELSE f[CHOOSE m \in SetTo(n) : TRUE]) \in Names
    BY DEF SetTo
  <2> QED BY <2>1 DEF Onward
<1>3. id \in X
  OBVIOUS
<1>31. \A f \in X : g[f] = Onward(f)
  OBVIOUS
<1> HIDE DEF X, g, id
<1>4. PICK f \in [0 .. c -> X] : f[0] = id /\ \A k \in 1 .. c : f[k] = g[f[k - 1]]
  <2>1. PICK f : Repeated(X, g, id, c, f)
    BY <1>2, <1>3, Repeats, Zenon
  <2> QED BY <2>1 DEF Repeated
<1>5. \A k \in 1 .. c : k - 1 \in 0 .. c /\ f[k] = Onward(f[k - 1])
  <2> SUFFICES ASSUME NEW k \in 1 .. c PROVE k - 1 \in 0 .. c /\ f[k] = Onward(f[k - 1])
    OBVIOUS
  <2>1. k - 1 \in 0 .. c
    OBVIOUS
  <2>2. f[k - 1] \in X
    BY <2>1
  <2> QED BY <1>4, <1>31, <2>1, <2>2
<1>6. f = G(f)
  <2>1. f = [k \in 0 .. c |-> f[k]]
    OBVIOUS
  <2>2. \A k \in 0 .. c : f[k] = IF k = 0 THEN id ELSE Onward(f[k - 1])
    BY <1>4, <1>5
  <2> QED BY <2>1, <2>2, Zenon
<1>7. PICK h : h = CHOOSE f_1 : f_1 = G(f_1)
  OBVIOUS
<1>8. h = G(h)
  BY <1>6, <1>7, Zenon
<1>9. Roots = h[c]
  BY <1>1, <1>7 DEF Roots, id
<1>10. h[0] = id /\ \A k \in 1 .. c : h[k] = Onward(h[k - 1])
  <2>1. \A k \in 0 .. c : h[k] = IF k = 0 THEN id ELSE Onward(h[k - 1])
    BY <1>8, Zenon
  <2>2. 0 \in 0 .. c /\ \A k \in 1 .. c : k \in 0 .. c /\ k # 0
    OBVIOUS
  <2> QED BY <2>1, <2>2, Zenon
<1> QED BY <1>1, <1>9, <1>10 DEF id

(* The linker's passes.                                                    *)
LEMMA PassesAre ==
  ASSUME IsFiniteSet(DOMAIN aliases)
  PROVE  \E f : /\ Resolved = f[Cardinality(DOMAIN aliases)]
                /\ f[0] = Known
                /\ \A k \in 1 .. Cardinality(DOMAIN aliases) : f[k] = AliasPass(f[k - 1])
<1>1. PICK c \in Nat : c = Cardinality(DOMAIN aliases)
  BY FS_CardinalityType
<1> DEFINE N == DOMAIN Known \cup DOMAIN aliases
           V == {Known[n] : n \in DOMAIN Known}
           X == UNION {[D -> V] : D \in SUBSET N}
           g == [f \in X |-> AliasPass(f)]
           G(f) == [k \in 0 .. c |-> IF k = 0 THEN Known ELSE AliasPass(f[k - 1])]
<1>2. g \in [X -> X]
  <2> SUFFICES ASSUME NEW f \in X PROVE AliasPass(f) \in X
    OBVIOUS
  <2>1. PICK D \in SUBSET N : f \in [D -> V]
    OBVIOUS
  <2> DEFINE E == D \cup {a \in DOMAIN aliases : aliases[a] \in D}
  <2>2. E \in SUBSET N
    OBVIOUS
  <2>3. \A n \in E : (IF n \in D THEN f[n] ELSE f[aliases[n]]) \in V
    BY <2>1
  <2>4. AliasPass(f) = [n \in E |-> IF n \in D THEN f[n] ELSE f[aliases[n]]]
    BY <2>1 DEF AliasPass
  <2> HIDE DEF E, V, N
  <2>5. AliasPass(f) \in [E -> V]
    BY <2>3, <2>4
  <2> QED BY <2>2, <2>5
<1>3. Known \in X
  <2>1. Known \in [DOMAIN Known -> V]
    BY DEF Known
  <2> HIDE DEF V
  <2> QED BY <2>1
<1>31. \A f \in X : g[f] = AliasPass(f)
  OBVIOUS
<1> HIDE DEF N, V, X, g
<1>4. PICK f \in [0 .. c -> X] : f[0] = Known /\ \A k \in 1 .. c : f[k] = g[f[k - 1]]
  <2>1. PICK f : Repeated(X, g, Known, c, f)
    BY <1>2, <1>3, Repeats, Zenon
  <2> QED BY <2>1 DEF Repeated
<1>5. \A k \in 1 .. c : k - 1 \in 0 .. c /\ f[k] = AliasPass(f[k - 1])
  <2> SUFFICES ASSUME NEW k \in 1 .. c PROVE k - 1 \in 0 .. c /\ f[k] = AliasPass(f[k - 1])
    OBVIOUS
  <2>1. k - 1 \in 0 .. c
    OBVIOUS
  <2>2. f[k - 1] \in X
    BY <2>1
  <2> QED BY <1>4, <1>31, <2>1, <2>2
<1>6. f = G(f)
  <2>1. f = [k \in 0 .. c |-> f[k]]
    OBVIOUS
  <2>2. \A k \in 0 .. c : f[k] = IF k = 0 THEN Known ELSE AliasPass(f[k - 1])
    BY <1>4, <1>5
  <2> QED BY <2>1, <2>2, Zenon
<1>7. PICK h : h = CHOOSE f_1 : f_1 = G(f_1)
  OBVIOUS
<1>8. h = G(h)
  BY <1>6, <1>7, Zenon
<1>9. Resolved = h[c]
  BY <1>1, <1>7 DEF Resolved
<1>10. h[0] = Known /\ \A k \in 1 .. c : h[k] = AliasPass(h[k - 1])
  <2>1. \A k \in 0 .. c : h[k] = IF k = 0 THEN Known ELSE AliasPass(h[k - 1])
    BY <1>8, Zenon
  <2>2. 0 \in 0 .. c /\ \A k \in 1 .. c : k \in 0 .. c /\ k # 0
    OBVIOUS
  <2> QED BY <2>1, <2>2, Zenon
<1> QED BY <1>1, <1>9, <1>10

(* Names that are put down as other ones, and names that are not.          *)
LEMMA SetIs ==
  ASSUME Tables
  PROVE  /\ \A n \in DOMAIN aliases : n \in Names /\ SetTo(n) = {aliases[n]}
         /\ \A n \in DOMAIN Known : n \in Names /\ SetTo(n) = {} /\ n \notin DOMAIN aliases
         /\ \A n : SetTo(n) # {} => n \in DOMAIN aliases
<1>1. /\ text \in Seq(Statements) /\ DOMAIN labels \subseteq Names /\ data \subseteq Names
      /\ weak \subseteq Names /\ Named(text, labels, aliases, data)
  BY DEF Tables
<1>2. \A n, m : m \in SetTo(n) => n \in DOMAIN aliases /\ m = aliases[n]
  <2> SUFFICES ASSUME NEW n, NEW m \in SetTo(n) PROVE n \in DOMAIN aliases /\ m = aliases[n]
    OBVIOUS
  <2>1. PICK i \in 1 .. Len(text) : text[i] = <<"set", n, m>>
    BY <1>1 DEF SetTo, Range
  <2>2. text[i][1] = "set" /\ text[i][2] = n /\ text[i][3] = m
    BY <2>1
  <2> QED BY <1>1, <2>2 DEF Named
<1>3. ASSUME NEW n \in DOMAIN aliases PROVE n \in Names /\ SetTo(n) = {aliases[n]}
  <2>1. n \in Names /\ aliases[n] \in Names
    BY <1>1 DEF Named
  <2>2. PICK i \in 1 .. Len(text) : text[i] = <<"set", n, aliases[n]>>
    BY <1>1 DEF Named
  <2>3. <<"set", n, aliases[n]>> \in Range(text)
    <3>1. i \in DOMAIN text
      BY <1>1
    <3>2. text[i] \in Range(text)
      BY ONLY <3>1 DEF Range
    <3> QED BY ONLY <2>2, <3>2
  <2>4. aliases[n] \in SetTo(n)
    BY ONLY <2>1, <2>3 DEF SetTo
  <2> QED BY <1>2, <2>1, <2>4
<1>4. ASSUME NEW n \in DOMAIN Known PROVE n \in Names /\ SetTo(n) = {} /\ n \notin DOMAIN aliases
  <2>1. n \in DOMAIN labels \cup data \cup (weak \ TakenNames)
    BY DEF Known
  <2>2. n \notin DOMAIN aliases
    BY <1>1, <2>1 DEF Named, TakenNames
  <2> QED BY <1>1, <1>2, <2>1, <2>2
<1> QED BY <1>2, <1>3, <1>4

(* A name that the passes resolve is resolved to what it stands for.       *)
LEMMA KnownIs ==
  ASSUME TextAssumption, Tables, NEW n \in DOMAIN Resolved
  PROVE  n \in Names /\ Stands(n) \in DOMAIN Known /\ Resolved[n] = Known[Stands(n)]
<1>1. DOMAIN aliases \subseteq Names /\ IsFiniteSet(Names)
  BY SetIs DEF TextAssumption
<1>2. PICK c \in Nat, d \in Nat : c = Cardinality(Names) /\ d = Cardinality(DOMAIN aliases) /\ d <= c
  BY <1>1, FS_Subset, FS_CardinalityType
<1>3. PICK f : /\ Roots = f[c] /\ f[0] = [m \in Names |-> m]
               /\ \A k \in 1 .. c : f[k] = Onward(f[k - 1])
  BY <1>2, RootsAre
<1>4. PICK g : /\ Resolved = g[d] /\ g[0] = Known
               /\ \A k \in 1 .. d : g[k] = AliasPass(g[k - 1])
  <2>1. IsFiniteSet(DOMAIN aliases)
    BY <1>1, FS_Subset
  <2> QED BY <1>2, <2>1, PassesAre
<1> DEFINE Good(r) == r <= d =>
             \A m \in DOMAIN g[r] : \A k \in r .. c :
               m \in Names /\ f[k][m] \in DOMAIN Known /\ g[r][m] = Known[f[k][m]]
           S == {r \in Nat : Good(r)}
<1>5. 0 \in S
  <2> SUFFICES ASSUME NEW m \in DOMAIN Known, NEW k \in 0 .. c
               PROVE  m \in Names /\ f[k][m] = m
    BY <1>4
  <2>1. m \in Names /\ SetTo(m) = {}
    BY SetIs
  <2>2. CASE k = 0
    BY <1>3, <2>1, <2>2
  <2>3. CASE k # 0
    <3>1. f[k] = Onward(f[k - 1])
      BY <1>3, <2>3
    <3>2. f[k][m] = m
      BY ONLY <3>1, <2>1 DEF Onward
    <3> QED BY <2>1, <3>2
  <2> QED BY <2>2, <2>3
<1>6. ASSUME NEW r \in Nat, r \in S PROVE r + 1 \in S
  <2> SUFFICES ASSUME r + 1 <= d, NEW m \in DOMAIN g[r + 1], NEW k \in r + 1 .. c
               PROVE  m \in Names /\ f[k][m] \in DOMAIN Known /\ g[r + 1][m] = Known[f[k][m]]
    OBVIOUS
  <2>1. g[r + 1] = AliasPass(g[r])
    <3>1. r + 1 \in 1 .. d /\ (r + 1) - 1 = r
      BY <1>2
    <3> QED BY <1>4, <3>1
  <2>2. r <= d /\ k \in r .. c /\ k - 1 \in r .. c /\ k \in 1 .. c
    BY <1>2
  <2>3. \A q \in DOMAIN g[r] : \A i \in r .. c :
          q \in Names /\ f[i][q] \in DOMAIN Known /\ g[r][q] = Known[f[i][q]]
    BY <1>6, <2>2
  <2>4. CASE m \in DOMAIN g[r]
    <3>1. g[r + 1][m] = g[r][m]
      BY ONLY <2>1, <2>4 DEF AliasPass
    <3> QED BY <2>2, <2>3, <2>4, <3>1
  <2>5. CASE m \notin DOMAIN g[r]
    <3>1. m \in DOMAIN aliases /\ aliases[m] \in DOMAIN g[r] /\ g[r + 1][m] = g[r][aliases[m]]
      <4>1. m \in DOMAIN AliasPass(g[r])
        BY <2>1
      <4> QED BY ONLY <4>1, <2>1, <2>5 DEF AliasPass
    <3>2. m \in Names /\ SetTo(m) = {aliases[m]}
      BY <3>1, SetIs
    <3>3. f[k] = Onward(f[k - 1])
      BY <1>3, <2>2
    <3>4. f[k][m] = f[k - 1][aliases[m]]
      <4>1. SetTo(m) # {} /\ (CHOOSE x \in SetTo(m) : TRUE) = aliases[m]
        BY <3>2
      <4> QED BY ONLY <4>1, <3>2, <3>3 DEF Onward
    <3> QED BY <2>2, <2>3, <3>1, <3>2, <3>4
  <2> QED BY <2>4, <2>5
<1> HIDE DEF Good
<1>7. Good(d)
  BY <1>5, <1>6, Induction
<1>8. n \in DOMAIN g[d] /\ d <= d /\ c \in d .. c
  BY <1>2, <1>4
<1>9. n \in Names /\ f[c][n] \in DOMAIN Known /\ g[d][n] = Known[f[c][n]]
  BY <1>7, <1>8 DEF Good
<1> QED BY <1>3, <1>4, <1>9 DEF Stands

(* Where a resolved name leads.                                            *)
LEMMA PlaceIs ==
  ASSUME TextAssumption, Tables, NEW e, NEW lay, NEW off, NEW on, NEW to,
         Built(text, layers, jumps, labels, e, lay, off, on, to), NEW n \in DOMAIN Resolved
  PROVE  /\ n \in Names /\ Resolved[n].sort \in {"code", "data", "missing"}
         /\ Resolved[n].sort = "missing" => Place(n) = 0
         /\ Resolved[n].sort = "code" =>
              /\ Place(n) \in 1 .. Len(text) /\ text[Place(n)][1] = "label"
              /\ Resolved[n].layer = lay[Place(n) + 1]
<1> DEFINE places == {i \in DOMAIN text : text[i] = <<"label", Stands(n)>>}
<1>1. PICK s \in DOMAIN Known : s = Stands(n) /\ Resolved[n] = Known[s] /\ n \in Names
  BY KnownIs
<1>2. /\ DOMAIN text = 1 .. Len(text) /\ Len(text) \in Nat /\ DOMAIN labels \subseteq Names
      /\ Named(text, labels, aliases, data)
  BY DEF Tables
<1>3. Known[s] = IF s \in DOMAIN labels THEN [sort |-> "code", layer |-> labels[s]]
                 ELSE IF s \in data THEN [sort |-> "data"] ELSE [sort |-> "missing"]
  BY DEF Known
<1>4. places \subseteq Nat /\ Place(n) = IF places = {} THEN 0 ELSE FirstOf(places)
  BY <1>2 DEF Place
<1>5. \A i \in places : i \in 1 .. Len(text) /\ text[i][1] = "label" /\ text[i][2] = s
  BY <1>1, <1>2
<1>6. \A i \in 1 .. Len(text) : text[i] = <<"label", s>> => i \in places
  BY <1>1, <1>2
<1>7. \A i \in places : s \in DOMAIN labels /\ labels[s] = lay[i + 1]
  BY <1>5 DEF Built
<1> HIDE DEF places
<1>8. CASE s \in DOMAIN labels
  <2>1. Known[s] = [sort |-> "code", layer |-> labels[s]]
    BY ONLY <1>3, <1>8
  <2>2. s \in DOMAIN labels \cap Names
    BY <1>2, <1>8
  <2>3. PICK i \in 1 .. Len(text) : text[i] = <<"label", s>>
    BY <1>2, <2>2 DEF Named
  <2>4. places # {}
    BY <1>6, <2>3
  <2>5. Place(n) \in places
    BY <1>4, <2>4, FirstOfIs
  <2> QED BY <1>1, <1>5, <1>7, <2>1, <2>5
<1>9. CASE s \notin DOMAIN labels
  <2>1. places = {}
    BY <1>7, <1>9
  <2>2. Place(n) = 0
    BY <1>4, <2>1
  <2>3. Known[s] = [sort |-> "data"] \/ Known[s] = [sort |-> "missing"]
    BY <1>3, <1>9
  <2> QED BY <1>1, <2>2, <2>3
<1> QED BY <1>8, <1>9

-----------------------------------------------------------------------------
(* The layers behind the text's.                                           *)
TailExits(h) == {Exit(h, "memory", MemoryFault), Exit(h + 1, "memory", MemoryFault), Exit(h + 3, "done", Report)}

Behind(L, J, B, M, K, C, h) ==
  /\ M \in Seq(Flowing) /\ Len(M) = h + 7
  /\ \A l \in 1 .. h - 1 : M[l] = L[l]
  /\ \A l \in {h, h + 1, h + 5, h + 7} : M[l].items = <<>>
  /\ M[h + 2].items = << <<"return">> >>
  /\ \A j : j \in Range(K) <=> j \in Range(J) \/ j \in TailExits(h)
  /\ C[Return] = h /\ C[MemoryFault] = h + 5 /\ C[Report] = h + 7
  /\ \A n \in DOMAIN B : n \notin {Return, MemoryFault, Report} => n \in DOMAIN C /\ C[n] = B[n]

LEMMA AppendAt ==
  ASSUME NEW L \in Seq(Flowing), NEW n \in Nat, Len(L) = n, NEW M, M = Append(L, Empty)
  PROVE  /\ M \in Seq(Flowing) /\ Len(M) = n + 1 /\ M[n + 1].items = <<>>
         /\ \A l \in 1 .. n : M[l] = L[l]
BY AppendIs

LEMMA TailedIs ==
  ASSUME TextAssumption, TextInv
  PROVE  \E M, K, C : Tailed = R(M, K, C)
                      /\ Behind(layers, jumps, labels, M, K, C, Len(layers) + 1)
                      /\ Len(K) = Len(jumps) + 3
<1>1. /\ Work = R(layers, jumps, labels) /\ layers \in Seq(Flowing) /\ jumps \in Seq(Leaving)
      /\ Layed(layers, jumps)
  BY TextNow DEF Layed
<1>2. PICK h \in Nat : h = Len(layers) + 1 /\ h >= 3
  BY <1>1, LayedIs
<1>3. PICK L1, B1 : L1 = Append(layers, Empty) /\ B1 = With(labels, Return, h)
  OBVIOUS
<1>4. PICK L2, J1 : L2 = Append(L1, Empty) /\ J1 = Append(jumps, Exit(h, "memory", MemoryFault))
  OBVIOUS
<1>5. PICK L3, J2 : L3 = Append(L2, Empty) /\ J2 = Append(J1, Exit(h + 1, "memory", MemoryFault))
  OBVIOUS
<1>6. PICK L4 : L4 = Filled(L3, <<"return">>)
  OBVIOUS
<1>7. PICK L5 : L5 = Append(L4, Empty)
  OBVIOUS
<1>8. PICK L6, J3 : L6 = Append(L5, Empty) /\ J3 = Append(J2, Exit(h + 3, "done", Report))
  OBVIOUS
<1>9. PICK L7, B2 : L7 = Append(L6, Empty) /\ B2 = With(B1, MemoryFault, h + 5)
  OBVIOUS
<1>10. PICK L8 : L8 = Append(L7, Empty)
  OBVIOUS
<1>11. PICK L9, B3 : L9 = Append(L8, Empty) /\ B3 = With(B2, Report, h + 7)
  OBVIOUS
<1>12. Len(layers) = h - 1 /\ h - 1 \in Nat /\ (h - 1) + 1 = h /\ h + 1 \in Nat /\ h + 2 \in Nat
       /\ h + 3 \in Nat /\ h + 4 \in Nat /\ h + 5 \in Nat /\ h + 6 \in Nat
       /\ (h + 1) + 1 = h + 2 /\ (h + 2) + 1 = h + 3 /\ (h + 3) + 1 = h + 4
       /\ (h + 4) + 1 = h + 5 /\ (h + 5) + 1 = h + 6 /\ (h + 6) + 1 = h + 7
  BY <1>1, <1>2
<1>13. /\ L1 \in Seq(Flowing) /\ Len(L1) = h /\ L1[h].items = <<>>
       /\ \A l \in 1 .. h - 1 : L1[l] = layers[l]
  <2>1. /\ L1 \in Seq(Flowing) /\ Len(L1) = (h - 1) + 1 /\ L1[(h - 1) + 1].items = <<>>
        /\ \A l \in 1 .. h - 1 : L1[l] = layers[l]
    BY ONLY <1>1, <1>3, <1>12, AppendAt
  <2> QED BY ONLY <2>1, <1>12
<1>14. /\ L2 \in Seq(Flowing) /\ Len(L2) = h + 1 /\ L2[h + 1].items = <<>>
       /\ \A l \in 1 .. h : L2[l] = L1[l]
  BY ONLY <1>13, <1>4, h \in Nat, AppendAt
<1>15. /\ L3 \in Seq(Flowing) /\ Len(L3) = h + 2 /\ L3[h + 2].items = <<>>
       /\ \A l \in 1 .. h + 1 : L3[l] = L2[l]
  BY ONLY <1>14, <1>5, <1>12, AppendAt
<1>16. /\ L4 \in Seq(Flowing) /\ Len(L4) = h + 2 /\ L4[h + 2].items = << <<"return">> >>
       /\ \A l \in 1 .. h + 1 : L4[l] = L3[l]
  <2>0. h + 2 \in 1 .. h + 2
    BY <1>2
  <2>1. L3[h + 2] \in Flowing /\ DOMAIN L3 = 1 .. h + 2 /\ h + 2 \in 1 .. h + 2
    <3>1. DOMAIN L3 = 1 .. h + 2 /\ \A l \in 1 .. Len(L3) : L3[l] \in Flowing
      BY ONLY <1>15
    <3> QED BY ONLY <2>0, <3>1, <1>15
  <2> DEFINE x == [L3[h + 2] EXCEPT !.items = Append(@, <<"return">>)]
  <2>2. x \in Flowing /\ x.items = << <<"return">> >>
    <3>1. Append(L3[h + 2].items, <<"return">>) = << <<"return">> >>
      BY <1>15
    <3>2. << <<"return">> >> \in Seq(Rows)
      BY DEF Rows
    <3>3. \A y \in Flowing : \A s \in Seq(Rows) :
            [y EXCEPT !.items = s] \in Flowing /\ [y EXCEPT !.items = s].items = s
      BY DEF Flowing
    <3> QED BY <2>1, <3>1, <3>2, <3>3
  <2>3. L4 = [L3 EXCEPT ![h + 2] = x]
    BY <1>6, <1>15 DEF Filled
  <2> HIDE DEF x
  <2> QED BY <1>15, <2>1, <2>2, <2>3
<1>17. /\ L5 \in Seq(Flowing) /\ Len(L5) = h + 3
       /\ \A l \in 1 .. h + 2 : L5[l] = L4[l]
  BY ONLY <1>16, <1>7, <1>12, AppendAt
<1>18. /\ L6 \in Seq(Flowing) /\ Len(L6) = h + 4
       /\ \A l \in 1 .. h + 3 : L6[l] = L5[l]
  BY ONLY <1>17, <1>8, <1>12, AppendAt
<1>19. /\ L7 \in Seq(Flowing) /\ Len(L7) = h + 5 /\ L7[h + 5].items = <<>>
       /\ \A l \in 1 .. h + 4 : L7[l] = L6[l]
  <2>1. /\ L7 \in Seq(Flowing) /\ Len(L7) = (h + 4) + 1 /\ L7[(h + 4) + 1].items = <<>>
        /\ \A l \in 1 .. h + 4 : L7[l] = L6[l]
    <3>1. L7 = Append(L6, Empty) /\ h + 4 \in Nat /\ Len(L6) = h + 4 /\ L6 \in Seq(Flowing)
      BY <1>9, <1>12, <1>18
    <3> QED BY ONLY <3>1, AppendAt
  <2> QED BY ONLY <2>1, <1>12
<1>20. /\ L8 \in Seq(Flowing) /\ Len(L8) = h + 6
       /\ \A l \in 1 .. h + 5 : L8[l] = L7[l]
  BY ONLY <1>19, <1>10, <1>12, AppendAt
<1>21. /\ L9 \in Seq(Flowing) /\ Len(L9) = h + 7 /\ L9[h + 7].items = <<>>
       /\ \A l \in 1 .. h + 6 : L9[l] = L8[l]
  BY ONLY <1>20, <1>11, <1>12, AppendAt
<1>22. Tailed = R(L9, J3, B3)
  <2>1. Marked(Opened(Work), Return) = R(L1, jumps, B1)
    <3>1. Opened(Work) = R(L1, jumps, labels)
      BY <1>1, <1>3, OpenedIs
    <3>2. Marked(R(L1, jumps, labels), Return) = R(L1, jumps, With(labels, Return, Len(L1)))
      BY ONLY WorkIs
    <3> QED BY ONLY <3>1, <3>2, <1>3, <1>13
  <2>2. MemoryAccess(R(L1, jumps, B1)) = R(L2, J1, B1)
    <3>1. Fresh(L1, 2) = L1
      BY <1>13, FreshEmpty
    <3> QED BY <1>4, <1>13, <3>1, AccessIs
  <2>3. MemoryAccess(R(L2, J1, B1)) = R(L3, J2, B1)
    <3>1. Fresh(L2, 2) = L2
      BY <1>14, FreshEmpty
    <3> QED BY <1>5, <1>14, <3>1, AccessIs
  <2>4. Opened(Item(Roomy(R(L3, J2, B1), 2), <<"return">>)) = R(L5, J2, B1)
    <3>1. Fresh(L3, 2) = L3
      BY <1>15, FreshEmpty
    <3>2. Roomy(R(L3, J2, B1), 2) = R(L3, J2, B1)
      BY <3>1, WorkIs
    <3>3. Item(R(L3, J2, B1), <<"return">>) = R(L4, J2, B1)
      BY <1>6, WorkIs
    <3> QED BY <1>7, <3>2, <3>3, OpenedIs
  <2>5. Depart(R(L5, J2, B1), "done", Report) = R(L6, J3, B1)
    BY <1>8, <1>17, WorkIs
  <2>6. Marked(Opened(R(L6, J3, B1)), MemoryFault) = R(L7, J3, B2)
    <3>1. Opened(R(L6, J3, B1)) = R(L7, J3, B1)
      BY <1>9, OpenedIs
    <3>2. Marked(R(L7, J3, B1), MemoryFault) = R(L7, J3, With(B1, MemoryFault, Len(L7)))
      BY ONLY WorkIs
    <3> QED BY ONLY <3>1, <3>2, <1>9, <1>19
  <2>7. Marked(Opened(Opened(R(L7, J3, B2))), Report) = R(L9, J3, B3)
    <3>1. Opened(R(L7, J3, B2)) = R(L8, J3, B2) /\ Opened(R(L8, J3, B2)) = R(L9, J3, B2)
      BY <1>10, <1>11, OpenedIs
    <3>2. Marked(R(L9, J3, B2), Report) = R(L9, J3, With(B2, Report, Len(L9)))
      BY ONLY WorkIs
    <3> QED BY ONLY <3>1, <3>2, <1>11, <1>21
  <2> QED BY <2>1, <2>2, <2>3, <2>4, <2>5, <2>6, <2>7 DEF Tailed
<1>23. \A l \in 1 .. h - 1 : L9[l] = layers[l]
  <2> SUFFICES ASSUME NEW l \in 1 .. h - 1 PROVE L9[l] = layers[l]
    OBVIOUS
  <2>1. /\ l \in 1 .. h /\ l \in 1 .. h + 1 /\ l \in 1 .. h + 2 /\ l \in 1 .. h + 3
        /\ l \in 1 .. h + 4 /\ l \in 1 .. h + 5 /\ l \in 1 .. h + 6
    BY <1>12
  <2> QED BY ONLY l \in 1 .. h - 1, <2>1, <1>13, <1>14, <1>15, <1>16, <1>17, <1>18, <1>19, <1>20, <1>21
<1>24. \A l \in {h, h + 1, h + 5, h + 7} : L9[l].items = <<>>
  <2>1. /\ h \in 1 .. h /\ h \in 1 .. h + 1 /\ h \in 1 .. h + 2 /\ h \in 1 .. h + 3
        /\ h \in 1 .. h + 4 /\ h \in 1 .. h + 5 /\ h \in 1 .. h + 6
        /\ h + 1 \in 1 .. h + 1 /\ h + 1 \in 1 .. h + 2 /\ h + 1 \in 1 .. h + 3
        /\ h + 1 \in 1 .. h + 4 /\ h + 1 \in 1 .. h + 5 /\ h + 1 \in 1 .. h + 6
        /\ h + 5 \in 1 .. h + 5 /\ h + 5 \in 1 .. h + 6
    BY <1>2
  <2>2. L9[h].items = <<>>
    BY ONLY <2>1, <1>13, <1>14, <1>15, <1>16, <1>17, <1>18, <1>19, <1>20, <1>21
  <2>3. L9[h + 1].items = <<>>
    BY ONLY <2>1, <1>14, <1>15, <1>16, <1>17, <1>18, <1>19, <1>20, <1>21
  <2>4. L9[h + 5].items = <<>>
    BY ONLY <2>1, <1>19, <1>20, <1>21
  <2> QED BY <1>21, <2>2, <2>3, <2>4
<1>25. L9[h + 2].items = << <<"return">> >>
  <2>1. /\ h + 2 \in 1 .. h + 2 /\ h + 2 \in 1 .. h + 3 /\ h + 2 \in 1 .. h + 4
        /\ h + 2 \in 1 .. h + 5 /\ h + 2 \in 1 .. h + 6
    BY <1>2
  <2>2. L9[h + 2] = L6[h + 2]
    BY ONLY <2>1, <1>19, <1>20, <1>21
  <2>3. L6[h + 2] = L4[h + 2]
    BY ONLY <2>1, <1>17, <1>18
  <2> QED BY ONLY <2>2, <2>3, <1>16
<1>26. \A j : j \in Range(J3) <=> j \in Range(jumps) \/ j \in TailExits(h)
  <2>1. /\ Exit(h, "memory", MemoryFault) \in Leaving /\ Exit(h + 1, "memory", MemoryFault) \in Leaving
        /\ Exit(h + 3, "done", Report) \in Leaving
    BY DEF Exit, Leaving, Sorts
  <2>2. J1 \in Seq(Leaving) /\ J2 \in Seq(Leaving)
    BY <1>1, <1>4, <1>5, <2>1
  <2>3. \A j : j \in Range(J1) <=> j \in Range(jumps) \/ j = Exit(h, "memory", MemoryFault)
    BY ONLY <1>1, <1>4, <2>1, RangeMore
  <2>4. \A j : j \in Range(J2) <=> j \in Range(J1) \/ j = Exit(h + 1, "memory", MemoryFault)
    BY ONLY <1>5, <2>1, <2>2, RangeMore
  <2>5. \A j : j \in Range(J3) <=> j \in Range(J2) \/ j = Exit(h + 3, "done", Report)
    BY ONLY <1>8, <2>1, <2>2, RangeMore
  <2> QED BY ONLY <2>3, <2>4, <2>5 DEF TailExits
<1>27. Return # MemoryFault /\ Return # Report /\ MemoryFault # Report
  BY DEF Return, MemoryFault, Report
<1>28. B3[Return] = h /\ B3[MemoryFault] = h + 5 /\ B3[Report] = h + 7
  BY ONLY <1>3, <1>9, <1>11, <1>27 DEF With
<1>29. \A n \in DOMAIN labels : n \notin {Return, MemoryFault, Report} => n \in DOMAIN B3 /\ B3[n] = labels[n]
  BY ONLY <1>3, <1>9, <1>11, <1>27 DEF With
<1>30. Behind(layers, jumps, labels, L9, J3, B3, h)
  BY ONLY <1>21, <1>23, <1>24, <1>25, <1>26, <1>28, <1>29 DEF Behind
<1>31. Len(J3) = Len(jumps) + 3
  <2>1. /\ Exit(h, "memory", MemoryFault) \in Leaving /\ Exit(h + 1, "memory", MemoryFault) \in Leaving
        /\ Exit(h + 3, "done", Report) \in Leaving
    BY DEF Exit, Leaving, Sorts
  <2>2. J1 \in Seq(Leaving) /\ Len(J1) = Len(jumps) + 1
    BY <1>1, <1>4, <2>1
  <2>3. J2 \in Seq(Leaving) /\ Len(J2) = Len(J1) + 1
    BY <1>5, <2>1, <2>2
  <2>4. Len(J3) = Len(J2) + 1 /\ Len(jumps) \in Nat
    BY <1>1, <1>8, <2>1, <2>3
  <2> QED BY <2>2, <2>3, <2>4
<1> QED BY <1>2, <1>22, <1>30, <1>31

(* The layers up to e are those of the text when others come after them.   *)
Extends(e, L, J, B, M, K, C) ==
  /\ \A l \in 1 .. e : M[l].items = L[l].items
  /\ \A j \in Range(J) : j \in Range(K)
  /\ \A j \in Range(K) : j \in Range(J) \/ j.layer \notin 1 .. e
  /\ \A n \in DOMAIN B \cap Names : n \in DOMAIN C /\ C[n] = B[n]

LEMMA OntoStays ==
  ASSUME NEW e \in Nat, NEW L, NEW J, NEW B, NEW M, NEW K, NEW C, Extends(e, L, J, B, M, K, C),
         NEW l \in 1 .. e, NEW p, NEW m, NEW q, Onto(L, J, e, l, p, m, q)
  PROVE  Onto(M, K, e, l, p, m, q)
<1>1. CASE m = l /\ q = p
  BY <1>1 DEF Onto
<1>2. CASE m = l + 1 /\ q = 1 /\ l < e /\ Len(L[l].items) = p - 1 /\ Quiet(J, l)
  <2>1. M[l].items = L[l].items
    BY DEF Extends
  <2>2. Quiet(K, l)
    BY <1>2 DEF Extends, Quiet
  <2> QED BY <1>2, <2>1, <2>2 DEF Onto
<1> QED BY <1>1, <1>2 DEF Onto

LEMMA LeftStays ==
  ASSUME NEW e \in Nat, NEW L, NEW J, NEW B, NEW M, NEW K, NEW C, Extends(e, L, J, B, M, K, C),
         NEW l \in Nat, l >= 1, NEW p, NEW sort, NEW name, Left(L, J, e, l, p, sort, name)
  PROVE  Left(M, K, e, l, p, sort, name) /\ M[l].items = L[l].items
<1>1. l < e /\ Len(L[l].items) = p - 1 /\ [layer |-> l, sort |-> sort, name |-> name] \in Range(J)
  BY DEF Left
<1>2. l \in 1 .. e
  BY <1>1
<1>3. M[l].items = L[l].items /\ [layer |-> l, sort |-> sort, name |-> name] \in Range(K)
  BY <1>1, <1>2 DEF Extends
<1> QED BY <1>1, <1>3 DEF Left

LEMMA CompiledStays ==
  ASSUME NEW e \in Nat, NEW L, NEW J, NEW B, NEW M, NEW K, NEW C, Extends(e, L, J, B, M, K, C),
         NEW l \in 1 .. e, NEW s, NEW p, NEW m, NEW q, Compiled(L, J, e, s, l, p, m, q)
  PROVE  Compiled(M, K, e, s, l, p, m, q)
<1>1. l \in Nat /\ l >= 1 /\ l + 1 \in Nat /\ l + 1 >= 1 /\ l + 2 \in Nat /\ l + 2 >= 1
  OBVIOUS
<1>2. s[1] = "op" => p \in 1 .. Len(M[l].items) /\ M[l].items[p] = s /\ m = l /\ q = p + 1
  BY DEF Compiled, Extends
<1>3. s[1] # "op" => q = 1
  BY DEF Compiled
<1>4. s[1] \in {"branch", "jump"} => Left(M, K, e, l, p, s[1], s[2]) /\ m = l + 1
  BY <1>1, LeftStays DEF Compiled
<1>5. s[1] = "ret" => Left(M, K, e, l, p, "return", Return) /\ m = l + 1
  BY <1>1, LeftStays DEF Compiled
<1>6. s[1] = "trap" => Left(M, K, e, l, p, "trap", MemoryFault) /\ m = l + 1
  BY <1>1, LeftStays DEF Compiled
<1>7. ASSUME s[1] = "call"
      PROVE  /\ Left(M, K, e, l, p, "memory", MemoryFault) /\ Left(M, K, e, l + 1, 1, "memory", MemoryFault)
             /\ Left(M, K, e, l + 2, 2, "call", s[2])
             /\ M[l + 2].items[1] = <<"call", l + 3>> /\ m = l + 3
  <2>1. /\ Left(L, J, e, l, p, "memory", MemoryFault) /\ Left(L, J, e, l + 1, 1, "memory", MemoryFault)
        /\ Left(L, J, e, l + 2, 2, "call", s[2])
        /\ L[l + 2].items[1] = <<"call", l + 3>> /\ m = l + 3
    BY <1>7 DEF Compiled
  <2>2. Left(M, K, e, l, p, "memory", MemoryFault)
    BY <1>1, <2>1, LeftStays
  <2>3. Left(M, K, e, l + 1, 1, "memory", MemoryFault)
    BY <1>1, <2>1, LeftStays
  <2>4. Left(M, K, e, l + 2, 2, "call", s[2]) /\ M[l + 2].items = L[l + 2].items
    BY <1>1, <2>1, LeftStays
  <2> QED BY <2>1, <2>2, <2>3, <2>4
<1> QED BY ONLY <1>2, <1>3, <1>4, <1>5, <1>6, <1>7 DEF Compiled

LEMMA BuiltStays ==
  ASSUME TextAssumption, NEW e \in Nat, e >= 1, NEW L, NEW J, NEW B, NEW M, NEW K, NEW C,
         Extends(e, L, J, B, M, K, C), NEW t \in Seq(Statements),
         NEW lay, NEW off, NEW on, NEW to, Built(t, L, J, B, e, lay, off, on, to)
  PROVE  Built(t, M, K, C, e, lay, off, on, to)
<1>1. PICK n \in Nat : n = Len(t)
  OBVIOUS
<1>2. M[e].items = L[e].items
  BY DEF Extends
<1>3. lay[n + 1] = e /\ off[n + 1] = Len(M[e].items) + 1
  BY <1>1, <1>2 DEF Built
<1>4. \A i \in 1 .. n + 1 : lay[i] \in 1 .. e
  BY <1>1 DEF Built
<1>5. ASSUME NEW i \in 1 .. n, Does(t[i])
      PROVE  on[i] \in 1 .. e /\ Compiled(M, K, e, t[i], on[i], to[i], lay[i + 1], off[i + 1])
  <2>1. on[i] \in 1 .. e /\ Compiled(L, J, e, t[i], on[i], to[i], lay[i + 1], off[i + 1])
    BY <1>1, <1>5 DEF Built
  <2> QED BY <2>1, CompiledStays
<1>6. ASSUME NEW i \in 1 .. n, NEW j \in i .. n, Does(t[j]), Idle(t, i, j)
      PROVE  Onto(M, K, e, lay[i], off[i], on[j], to[j])
  <2>1. Onto(L, J, e, lay[i], off[i], on[j], to[j])
    BY <1>1, <1>6 DEF Built
  <2>2. lay[i] \in 1 .. e
    BY <1>4
  <2> QED BY <2>1, <2>2, OntoStays
<1>7. ASSUME NEW i \in 1 .. n + 1, Idle(t, i, n + 1)
      PROVE  Onto(M, K, e, lay[i], off[i], e, Len(M[e].items) + 1)
  <2>1. Onto(L, J, e, lay[i], off[i], e, Len(L[e].items) + 1)
    BY <1>1, <1>7 DEF Built
  <2> QED BY <1>2, <1>4, <2>1, OntoStays
<1>8. ASSUME NEW i \in 1 .. n, t[i][1] = "label"
      PROVE  t[i][2] \in DOMAIN C /\ C[t[i][2]] = lay[i + 1] /\ off[i + 1] = 1
  <2>1. t[i][2] \in DOMAIN B /\ B[t[i][2]] = lay[i + 1] /\ off[i + 1] = 1
    BY <1>1, <1>8 DEF Built
  <2>2. t[i] \in Statements
    BY <1>1
  <2>3. t[i][2] \in Names
    BY <1>8, <2>2, StatementIs
  <2> QED BY <2>1, <2>3 DEF Extends
<1> QED BY ONLY <1>1, <1>3, <1>4, <1>5, <1>6, <1>7, <1>8 DEF Built

(* The exits that the jumps give the layers.                               *)
Exits(N, M, K, C, h, known) ==
  /\ \A l \in 1 .. h + 7 : N[l].items = M[l].items
  /\ \A j \in Range(K) : /\ j.layer \in 1 .. h + 3
                         /\ N[j.layer].exit =
                              [sort |-> j.sort, to |-> Target(R(M, K, C), known, j)]
  /\ \A l \in 1 .. h - 1 : Quiet(K, l) => N[l].exit.sort = "flow"
  /\ N[h + 5].exit.sort = "stop" /\ N[h + 7].exit.sort = "stop"

LEMMA LinkedIs ==
  ASSUME NEW L, NEW J, Layed(L, J), NEW B, NEW M, NEW K, NEW C, NEW h \in Nat, h = Len(L) + 1,
         Behind(L, J, B, M, K, C, h), NEW known, NEW N, N = Linked(R(M, K, C), known)
  PROVE  Exits(N, M, K, C, h, known)
<1> DEFINE w == R(M, K, C)
           js(l) == {j \in Range(K) : j.layer = l}
           ex(l) == IF l \in {h + 5, h + 7} THEN [sort |-> "stop"]
                    ELSE IF js(l) = {} THEN [sort |-> "flow"]
                    ELSE LET j == CHOOSE k \in js(l) : TRUE
                         IN  [sort |-> j.sort, to |-> Target(w, known, j)]
<1>1. w.layers = M /\ w.jumps = K /\ w.labels = C
  BY DEF R
<1>2. /\ M \in Seq(Flowing) /\ Len(M) = h + 7 /\ C[MemoryFault] = h + 5 /\ C[Report] = h + 7
      /\ \A j : j \in Range(K) <=> j \in Range(J) \/ j \in TailExits(h)
  BY DEF Behind
<1>3. DOMAIN M = 1 .. h + 7 /\ \A l \in 1 .. h + 7 : M[l] \in Flowing
  BY <1>2
<1> HIDE DEF w, ex
<1>4. N = [l \in 1 .. h + 7 |-> [M[l] EXCEPT !.exit = ex(l)]]
  BY ONLY <1>1, <1>2, <1>3, N = Linked(R(M, K, C), known) DEF Linked, ex, w
<1>5. \A x \in Flowing : \A y : [x EXCEPT !.exit = y].items = x.items /\ [x EXCEPT !.exit = y].exit = y
  BY DEF Flowing
<1>6. ASSUME NEW l \in 1 .. h + 7 PROVE N[l].items = M[l].items /\ N[l].exit = ex(l)
  <2>1. N[l] = [M[l] EXCEPT !.exit = ex(l)]
    BY ONLY <1>4, l \in 1 .. h + 7
  <2> QED BY <1>3, <1>5, <2>1
<1>7. Len(L) = h - 1 /\ Len(L) >= 2 /\ \A j \in Range(J) : j.layer \in 1 .. h - 2
  <2>1. LeftOnce(J, Len(L)) /\ Len(L) \in Nat /\ Len(L) >= 2
    BY LayedIs DEF Layed
  <2>2. \A j \in Range(J) : j.layer \in 1 .. Len(L) - 1
    BY <2>1 DEF LeftOnce
  <2>3. Len(L) = h - 1 /\ Len(L) - 1 = h - 2
    BY <2>1
  <2> QED BY ONLY <2>1, <2>2, <2>3
<1>8. \A j \in TailExits(h) : j.layer \in {h, h + 1, h + 3}
  BY DEF TailExits, Exit
<1>9. \A j, k \in Range(K) : j.layer = k.layer => j = k
  <2>1. \A j, k \in Range(J) : j.layer = k.layer => j = k
    BY DEF Layed, LeftOnce
  <2>2. \A j, k \in TailExits(h) : j.layer = k.layer => j = k
    BY DEF TailExits, Exit
  <2>3. \A j \in Range(J), k \in TailExits(h) : j.layer # k.layer
    <3> SUFFICES ASSUME NEW j \in Range(J), NEW k \in TailExits(h) PROVE j.layer # k.layer
      OBVIOUS
    <3>1. j.layer \in 1 .. h - 2 /\ k.layer \in {h, h + 1, h + 3}
      BY <1>7, <1>8
    <3> QED BY <3>1
  <2> QED BY ONLY <1>2, <2>1, <2>2, <2>3
<1>10. \A j \in Range(K) : j.layer \in 1 .. h + 3
  <2> SUFFICES ASSUME NEW j \in Range(K) PROVE j.layer \in 1 .. h + 3
    OBVIOUS
  <2>1. j.layer \in 1 .. h - 2 \/ j.layer \in {h, h + 1, h + 3}
    BY <1>2, <1>7, <1>8
  <2>2. h >= 3
    BY <1>7
  <2> QED BY <2>1, <2>2
<1>11. ASSUME NEW j \in Range(K)
       PROVE  N[j.layer].exit = [sort |-> j.sort, to |-> Target(w, known, j)]
  <2>1. j.layer \in 1 .. h + 7 /\ j.layer \notin {h + 5, h + 7}
    BY <1>10
  <2>2. js(j.layer) = {j}
    BY <1>9
  <2>3. N[j.layer].exit = ex(j.layer)
    BY <1>6, <2>1
  <2>4. (CHOOSE k \in js(j.layer) : TRUE) = j /\ js(j.layer) # {}
    BY ONLY <2>2
  <2>5. ex(j.layer) = [sort |-> j.sort, to |-> Target(w, known, j)]
    BY ONLY <2>1, <2>4 DEF ex
  <2> QED BY ONLY <2>3, <2>5
<1>12. ASSUME NEW l \in 1 .. h - 1, Quiet(K, l) PROVE N[l].exit.sort = "flow"
  <2>1. l \in 1 .. h + 7 /\ l \notin {h + 5, h + 7}
    OBVIOUS
  <2>2. js(l) = {}
    BY <1>12 DEF Quiet
  <2>3. N[l].exit = ex(l)
    BY <1>6, <2>1
  <2>4. ex(l) = [sort |-> "flow"]
    BY ONLY <2>1, <2>2 DEF ex
  <2> QED BY <2>3, <2>4
<1>13. N[h + 5].exit.sort = "stop" /\ N[h + 7].exit.sort = "stop"
  <2>1. h + 5 \in 1 .. h + 7 /\ h + 7 \in 1 .. h + 7
    OBVIOUS
  <2>2. N[h + 5].exit = ex(h + 5) /\ N[h + 7].exit = ex(h + 7)
    BY <1>6, <2>1
  <2>3. ex(h + 5) = [sort |-> "stop"] /\ ex(h + 7) = [sort |-> "stop"]
    BY DEF ex
  <2> QED BY <2>2, <2>3
<1> QED BY ONLY <1>6, <1>10, <1>11, <1>12, <1>13 DEF Exits, w

(* When the text has ended a run of the layers begins, or it is rejected.  *)
LEMMA FinishKeeps ==
  ASSUME TextAssumption, phase = "text", TextInv, FinishText
  PROVE  phase' = "rejected" \/ (phase' = "run" /\ RunInv')
<1>1. PICK M, K, C : /\ Tailed = R(M, K, C)
                     /\ Behind(layers, jumps, labels, M, K, C, Len(layers) + 1)
  BY TailedIs
<1>2. PICK known : known = Resolved
  OBVIOUS
<1> DEFINE names == {j.name : j \in Range(K)} \ {Return, MemoryFault, Report}
           ok == /\ Main \in DOMAIN known /\ known[Main].sort = "code"
                 /\ names \subseteq DOMAIN known
                 /\ \A n \in names : known[n].sort # "data"
           w == R(M, K, C)
<1>3. w.layers = M /\ w.jumps = K /\ w.labels = C
  BY DEF R
<1> HIDE DEF w
<1>4. \/ phase' = "rejected"
      \/ /\ phase' = "run" /\ ok
         /\ layers' = Linked(w, known) /\ labels' = C /\ jumps' = K /\ pc' = Place(Main)
         /\ UNCHANGED <<text, at, place, frames, stopped, returns>>
  BY <1>1, <1>2, <1>3 DEF FinishText, w
<1> SUFFICES ASSUME /\ phase' = "run" /\ ok
                    /\ layers' = Linked(w, known) /\ labels' = C /\ jumps' = K /\ pc' = Place(Main)
                    /\ UNCHANGED <<text, at, place, frames, stopped, returns>>
             PROVE  RunInv'
  BY <1>4
<1>5. /\ Layed(layers, jumps) /\ text \in Seq(Statements) /\ Tables /\ Idles
  BY TextNow DEF TextInv
<1>6. PICK h \in Nat : h = Len(layers) + 1 /\ h >= 3
  BY <1>5, LayedIs
<1>7. PICK lay, off, on, to : /\ Points(lay, off, on, to)
                              /\ Built(text, layers, jumps, labels, Len(layers), lay, off, on, to)
  BY DEF TextInv, TextBuilt
<1>8. PICK N : N = layers'
  OBVIOUS
<1>9. Behind(layers, jumps, labels, M, K, C, h)
  BY <1>1, <1>6
<1>10. /\ \A l \in 1 .. h + 7 : N[l].items = M[l].items
       /\ \A j \in Range(K) : /\ j.layer \in 1 .. h + 3
                              /\ N[j.layer].exit = [sort |-> j.sort, to |-> Target(w, known, j)]
       /\ \A l \in 1 .. h - 1 : Quiet(K, l) => N[l].exit.sort = "flow"
       /\ N[h + 5].exit.sort = "stop" /\ N[h + 7].exit.sort = "stop"
  <2>1. N = Linked(R(M, K, C), known)
    BY <1>8 DEF w
  <2>2. Exits(N, M, K, C, h, known)
    BY ONLY <1>5, <1>6, <1>9, <2>1, h \in Nat, LinkedIs, Zenon
  <2> QED BY ONLY <2>2 DEF Exits, w
<1>11. /\ M \in Seq(Flowing) /\ Len(M) = h + 7
       /\ \A l \in 1 .. h - 1 : M[l] = layers[l]
       /\ \A l \in {h, h + 1, h + 5, h + 7} : M[l].items = <<>>
       /\ M[h + 2].items = << <<"return">> >>
       /\ \A j : j \in Range(K) <=> j \in Range(jumps) \/ j \in TailExits(h)
       /\ C[Return] = h /\ C[MemoryFault] = h + 5 /\ C[Report] = h + 7
       /\ \A n \in DOMAIN labels : n \notin {Return, MemoryFault, Report} => n \in DOMAIN C /\ C[n] = labels[n]
  BY <1>9 DEF Behind
<1>12. Extends(h - 1, layers, jumps, labels, N, K, C)
  <2>1. \A l \in 1 .. h - 1 : N[l].items = layers[l].items
    <3> SUFFICES ASSUME NEW l \in 1 .. h - 1 PROVE N[l].items = layers[l].items
      OBVIOUS
    <3>1. l \in 1 .. h + 7
      OBVIOUS
    <3> QED BY <1>10, <1>11, <3>1
  <2>2. \A j \in TailExits(h) : j.layer \notin 1 .. h - 1
    BY DEF TailExits, Exit
  <2>3. \A n \in Names : n \notin {Return, MemoryFault, Report}
    BY DEF TextAssumption
  <2> QED BY ONLY <1>11, <2>1, <2>2, <2>3 DEF Extends
<1>13. Built(text, N, K, C, h - 1, lay, off, on, to)
  <2>1. h - 1 \in Nat /\ h - 1 >= 1 /\ h - 1 = Len(layers)
    BY <1>5, <1>6, LayedIs
  <2>2. Built(text, layers, jumps, labels, h - 1, lay, off, on, to)
    BY <1>7, <2>1
  <2> QED BY ONLY TextAssumption, <1>5, <1>12, <2>1, <2>2, BuiltStays
<1>14. \A n \in DOMAIN Resolved :
         /\ n \in Names /\ Resolved[n].sort \in {"code", "data", "missing"}
         /\ Resolved[n].sort = "missing" => Place(n) = 0
         /\ Resolved[n].sort = "code" =>
              /\ Place(n) \in 1 .. Len(text) /\ text[Place(n)][1] = "label"
              /\ Resolved[n].layer = lay[Place(n) + 1]
  BY <1>5, <1>7, PlaceIs
<1>15. text' = text /\ H' = h /\ layers' = N /\ jumps' = K /\ labels' = C
       /\ \A n : Place(n)' = Place(n)
  BY <1>8, <1>11 DEF H, Place, Stands, Roots, Onward, SetTo
<1>16. ASSUME NEW j \in Range(K)
       PROVE  (Sort(j.layer) = j.sort)' /\ Goes(j.name, layers[j.layer].exit.to, lay)'
  <2>1. PICK l : l = Target(w, known, j)
    OBVIOUS
  <2>2. N[j.layer].exit = [sort |-> j.sort, to |-> l]
    BY <1>10, <2>1
  <2>3. N[j.layer].exit.sort = j.sort /\ N[j.layer].exit.to = l
    BY ONLY <2>2
  <2>4. j.name \in Names \cup {Return, MemoryFault, Report}
    <3>1. j \in Range(jumps) => j \in Leaving
      BY <1>5, LayedIs
    <3>2. j \in TailExits(h) => j.name \in {MemoryFault, Report}
      BY DEF TailExits, Exit
    <3> QED BY <1>11, <3>1, <3>2 DEF Leaving
  <2>5. Return # MemoryFault /\ Return # Report /\ MemoryFault # Report
        /\ \A n \in Names : n \notin {Return, MemoryFault, Report}
    BY DEF Return, MemoryFault, Report, TextAssumption
  <2>6. CASE j.name \in {Return, MemoryFault, Report}
    <3>1. l = C[j.name]
      BY <1>3, <2>1, <2>6 DEF Target
    <3>2. /\ j.name = Return => l = h
          /\ j.name = MemoryFault => l = h + 5
          /\ j.name = Report => l = h + 7
      BY <1>11, <3>1
    <3> QED BY <1>15, <2>3, <2>5, <2>6, <3>2 DEF Goes, Sort
  <2>7. CASE j.name \in Names
    <3>1. j.name \in names
      BY <2>5, <2>7
    <3>2. j.name \in DOMAIN known /\ known[j.name].sort # "data"
      BY <3>1
    <3>3. l = IF known[j.name].sort = "missing" THEN C[MemoryFault] ELSE known[j.name].layer
      BY <1>3, <2>1, <2>5, <2>7 DEF Target
    <3>4. IF Place(j.name) = 0 THEN l = h + 5
          ELSE /\ Place(j.name) \in 1 .. Len(text) /\ text[Place(j.name)][1] = "label"
               /\ l = lay[Place(j.name) + 1]
      <4>1. CASE known[j.name].sort = "missing"
        BY <1>2, <1>11, <1>14, <3>2, <3>3, <4>1
      <4>2. CASE known[j.name].sort # "missing"
        <5>1. known[j.name].sort = "code"
          BY <1>2, <1>14, <3>2, <4>2
        <5>2. /\ Place(j.name) \in 1 .. Len(text) /\ text[Place(j.name)][1] = "label"
              /\ known[j.name].layer = lay[Place(j.name) + 1]
          BY <1>2, <1>14, <3>2, <5>1
        <5> QED BY <1>5, <3>3, <4>2, <5>2
      <4> QED BY <4>1, <4>2
    <3>5. Leads(j.name, l, lay)'
      BY <1>15, <3>4 DEF Leads
    <3> QED BY <1>15, <2>3, <2>5, <2>7, <3>5 DEF Goes, Sort
  <2> QED BY <2>4, <2>6, <2>7
<1>17. \A l \in 1 .. h + 7 : Len(N[l].items) \in Nat
  <2> SUFFICES ASSUME NEW l \in 1 .. h + 7 PROVE Len(N[l].items) \in Nat
    OBVIOUS
  <2>1. M[l] \in Flowing
    BY <1>11
  <2>2. Len(M[l].items) \in Nat
    BY <2>1 DEF Flowing
  <2> QED BY <1>10, <2>2
<1>18. ASSUME NEW l \in {h, h + 1} PROVE N[l].exit.sort = "memory" /\ N[l].exit.to = h + 5
  <2>1. Exit(l, "memory", MemoryFault) \in Range(K)
    BY <1>11 DEF TailExits
  <2>2. PICK j \in Range(K) : j = Exit(l, "memory", MemoryFault)
    BY <2>1
  <2>3. j.layer = l /\ j.sort = "memory" /\ j.name = MemoryFault
    BY <2>2 DEF Exit
  <2>4. N[l].exit = [sort |-> j.sort, to |-> Target(w, known, j)]
    BY <1>10, <2>3
  <2>5. Target(w, known, j) = h + 5
    BY <1>3, <1>11, <2>3 DEF Target
  <2> QED BY <2>3, <2>4, <2>5
<1>19. \A l \in {h, h + 1, h + 5, h + 7} : N[l].items = <<>>
  <2> SUFFICES ASSUME NEW l \in {h, h + 1, h + 5, h + 7} PROVE N[l].items = <<>>
    OBVIOUS
  <2>1. l \in 1 .. h + 7
    BY <1>6
  <2>2. M[l].items = <<>>
    BY <1>11
  <2> QED BY ONLY <1>10, <2>1, <2>2
<1>20. N[h + 2].items = << <<"return">> >>
  <2>1. h + 2 \in 1 .. h + 7
    BY <1>6
  <2> QED BY <1>10, <1>11, <2>1
<1>21. Starts(N, K)
  <2>1. Starts(layers, jumps) /\ 1 \in 1 .. h + 7 /\ 1 \in 1 .. h - 1
    BY <1>5, <1>6 DEF Tables
  <2> QED BY <1>10, <1>11, <2>1 DEF Starts
<1>211. N[h - 1].exit.sort = "flow"
  <2>1. LeftOnce(jumps, h - 1)
    <3>1. h - 1 = Len(layers)
      BY <1>5, <1>6, LayedIs
    <3> QED BY <1>5, <3>1 DEF Layed
  <2>2. \A j \in Range(jumps) : j.layer \in 1 .. (h - 1) - 1
    BY <2>1 DEF LeftOnce
  <2>3. \A j \in TailExits(h) : j.layer # h - 1
    BY DEF TailExits, Exit
  <2>4. Quiet(K, h - 1) /\ h - 1 \in 1 .. h - 1
    BY <1>6, <1>11, <2>2, <2>3 DEF Quiet
  <2> QED BY <1>10, <2>4
<1>22. Image(lay, off, on, to)'
  <2>1. text' \in Seq(Statements) /\ Built(text', layers', jumps', labels', H' - 1, lay, off, on, to)
    BY <1>5, <1>13, <1>15
  <2>2. H' \in Nat /\ H' > 2 /\ labels'[MemoryFault] = H' + 5 /\ labels'[Report] = H' + 7
    BY <1>6, <1>11, <1>15
  <2>3. \A l \in 1 .. H' + 7 : Len(layers'[l].items) \in Nat
    BY <1>15, <1>17
  <2>4. \A j \in Range(jumps') : /\ (Sort(j.layer) = j.sort)'
                                 /\ Goes(j.name, layers[j.layer].exit.to, lay)'
    BY <1>15, <1>16
  <2>5. \A l \in 1 .. H' - 1 : Quiet(jumps', l) => (Sort(l) = "flow")'
    BY <1>10, <1>15 DEF Sort
  <2>51. (Sort(H - 1) = "flow")'
    BY <1>15, <1>211 DEF Sort
  <2>6. Starts(layers', jumps')
    BY <1>15, <1>21
  <2>7. \A l \in {H', H' + 1} : (Sort(l) = "memory" /\ layers[l].exit.to = H + 5)'
    BY <1>15, <1>18 DEF Sort
  <2>8. /\ \A l \in {H', H' + 1, H' + 5, H' + 7} : layers'[l].items = <<>>
        /\ layers'[H' + 2].items = << <<"return">> >>
    BY <1>15, <1>19, <1>20
  <2>9. (Sort(H + 5) = "stop" /\ Sort(H + 7) = "stop")'
    BY <1>10, <1>15 DEF Sort
  <2> QED BY <2>1, <2>2, <2>3, <2>4, <2>5, <2>51, <2>6, <2>7, <2>8, <2>9
     DEF Image
<1>23. Framed(lay, off)'
  <2>1. frames' = <<>> /\ returns' = <<>>
    BY <1>5 DEF Idles
  <2>2. Framed(lay, off)' <=>
          /\ frames' \in Seq(Nat) /\ returns' \in Seq(Nat)
          /\ Len(frames') = Len(returns') /\ Len(frames') <= Frames
          /\ \A k \in 1 .. Len(returns') : /\ returns'[k] \in 1 .. Len(text') + 1
                                        /\ frames'[k] = lay[returns'[k]] /\ off[returns'[k]] = 1
    BY DEF Framed
  <2>3. Frames \in Nat /\ Len(frames') = 0 /\ Len(returns') = 0
    BY <2>1 DEF TextAssumption
  <2> QED BY <2>1, <2>2, <2>3
<1>24. pc' \in 0 .. Len(text') + 1 /\ at' = 1 /\ place' = 1 /\ AtStart'
  <2>1. at' = 1 /\ place' = 1
    BY <1>5 DEF Idles
  <2>2. known[Main].sort = "code" /\ Main \in DOMAIN Resolved
    BY <1>2
  <2>3. Place(Main) \in 1 .. Len(text) /\ Len(text) \in Nat
    BY <1>2, <1>5, <1>14, <2>2
  <2>4. pc' = Place(Main)'
    BY <1>15
  <2> QED BY <1>15, <2>1, <2>3, <2>4 DEF AtStart
<1>25. Running(lay, off, on, to)'
  <2>1. Where(on, to)'
    BY <1>24 DEF Where
  <2> QED BY <1>7, <1>22, <1>23, <1>24, <2>1 DEF Running
<1> QED BY <1>25 DEF RunInv
-----------------------------------------------------------------------------
(* What the text does, and where the layers' run goes.                     *)
LEMMA RealZero == Real(0) = 0
BY DEF Real

LEMMA RealStays == ASSUME text' = text PROVE \A i : Real(i)' = Real(i)
BY DEF Real, FirstOf, Does

LEMMA PlaceStays == ASSUME text' = text PROVE \A n : Place(n)' = Place(n)
BY DEF Place, Stands, Roots, Onward, SetTo

LEMMA EventIs ==
  ASSUME text \in Seq(Statements), NEW i, i = Real(pc)
  PROVE  /\ i = 0 => TextEvent = <<"fault">>
         /\ i = Len(text) + 1 => TextEvent = <<"return">>
         /\ i \in 1 .. Len(text) =>
              /\ text[i][1] = "op" => TextEvent = text[i]
              /\ text[i][1] \in {"branch", "jump"} => TextEvent = << text[i][1] >>
              /\ text[i][1] = "call" /\ Len(returns) = Frames => TextEvent = <<"fault">>
              /\ text[i][1] = "call" /\ Len(returns) # Frames => TextEvent = <<"call">>
              /\ text[i][1] = "ret" => TextEvent = <<"return">>
              /\ text[i][1] = "trap" => TextEvent = <<"fault">>
<1>1. DOMAIN text = 1 .. Len(text) /\ Len(text) \in Nat
  OBVIOUS
<1>2. CASE i = 0
  BY <1>1, <1>2 DEF TextEvent
<1>3. CASE i = Len(text) + 1
  <2>1. i # 0 /\ i \notin DOMAIN text
    BY ONLY <1>1, <1>3
  <2>2. TextEvent = <<"return">>
    BY ONLY <1>3, <2>1, i = Real(pc) DEF TextEvent
  <2> QED BY ONLY <1>1, <1>3, <2>1, <2>2
<1>4. CASE i \in 1 .. Len(text)
  <2>1. i \in DOMAIN text /\ i # 0 /\ i # Len(text) + 1
    BY <1>1, <1>4
  <2> QED BY <2>1 DEF TextEvent
<1>5. Len(text) + 1 # 0 /\ 0 \notin 1 .. Len(text) /\ Len(text) + 1 \notin 1 .. Len(text)
  BY <1>1
<1> QED BY ONLY <1>2, <1>3, <1>4, <1>5

LEMMA EventNext ==
  ASSUME text \in Seq(Statements), text' = text, NEW i, i = Real(pc)'
  PROVE  /\ i = 0 => TextEvent' = <<"fault">>
         /\ i = Len(text) + 1 => TextEvent' = <<"return">>
         /\ i \in 1 .. Len(text) =>
              /\ text[i][1] = "call" /\ Len(returns') = Frames => TextEvent' = <<"fault">>
              /\ text[i][1] = "ret" => TextEvent' = <<"return">>
              /\ text[i][1] = "trap" => TextEvent' = <<"fault">>
<1>1. DOMAIN text' = 1 .. Len(text) /\ Len(text) \in Nat /\ text' = text
  OBVIOUS
<1>2. CASE i = 0
  BY <1>1, <1>2 DEF TextEvent
<1>3. CASE i = Len(text) + 1
  <2>1. i # 0 /\ i \notin DOMAIN text' /\ i = Len(text') + 1
    BY ONLY <1>1, <1>3
  <2>2. TextEvent' = <<"return">>
    BY ONLY <2>1, i = Real(pc)' DEF TextEvent
  <2> QED BY ONLY <1>1, <1>3, <2>1, <2>2
<1>4. CASE i \in 1 .. Len(text)
  <2>1. i \in DOMAIN text' /\ i # 0 /\ i # Len(text') + 1
    BY <1>1, <1>4
  <2> QED BY <1>1, <2>1 DEF TextEvent
<1>5. Len(text) + 1 # 0 /\ 0 \notin 1 .. Len(text) /\ Len(text) + 1 \notin 1 .. Len(text)
  BY <1>1
<1> QED BY ONLY <1>2, <1>3, <1>4, <1>5

(* The tables of a run do not change.                                      *)
LEMMA ImageStays ==
  ASSUME NEW lay, NEW off, NEW on, NEW to, Image(lay, off, on, to), UNCHANGED linkVars
  PROVE  Image(lay, off, on, to)'
<1>1. text' = text /\ layers' = layers /\ jumps' = jumps /\ labels' = labels
  BY DEF linkVars
<1>2. \A n, l : Leads(n, l, lay)' <=> Leads(n, l, lay)
  BY <1>1, PlaceStays DEF Leads, H
<1>3. \A n, l : Goes(n, l, lay)' <=> Goes(n, l, lay)
  BY <1>1, <1>2 DEF Goes, H
<1>4. H' = H /\ \A l : Sort(l)' = Sort(l)
  BY <1>1 DEF H, Sort
<1>5. \A j : Goes(j.name, layers[j.layer].exit.to, lay)'
             <=> Goes(j.name, layers[j.layer].exit.to, lay)
  BY <1>1, <1>2, <1>4 DEF Goes
<1> QED BY <1>1, <1>4, <1>5 DEF Image

LEMMA RunGoesOn ==
  ASSUME NEW lay, NEW off, NEW on, NEW to, Running(lay, off, on, to), UNCHANGED linkVars,
         pc' \in 0 .. Len(text) + 1, at' \in Nat, place' \in Nat,
         Framed(lay, off)', Where(on, to)'
  PROVE  RunInv'
<1>1. Points(lay, off, on, to) /\ Image(lay, off, on, to)'
  BY ImageStays DEF Running
<1>2. pc' \in 0 .. Len(text') + 1
  BY DEF linkVars
<1>3. Running(lay, off, on, to)'
  BY <1>1, <1>2 DEF Running
<1> QED BY <1>3 DEF RunInv

LEMMA ImageIs ==
  ASSUME NEW lay, NEW off, NEW on, NEW to, Image(lay, off, on, to)
  PROVE  /\ text \in Seq(Statements) /\ Len(text) \in Nat /\ H \in Nat /\ H > 2
         /\ labels[Return] = H /\ labels[MemoryFault] = H + 5 /\ labels[Report] = H + 7
         /\ Built(text, layers, jumps, labels, H - 1, lay, off, on, to)
         /\ \A l \in 1 .. H + 7 : Len(layers[l].items) \in Nat
BY DEF Image, H

(* The run comes to the statements from i on.                              *)
LEMMA Arrives ==
  ASSUME NEW lay, NEW off, NEW on, NEW to, Image(lay, off, on, to), UNCHANGED linkVars,
         NEW i \in 1 .. Len(text) + 1, Real(i) = Real(pc)', at' = lay[i], place' = off[i]
  PROVE  Where(on, to)' /\ at' \in 1 .. H - 1
<1>1. /\ text \in Seq(Statements) /\ Len(text) \in Nat /\ H \in Nat
      /\ Built(text, layers, jumps, labels, H - 1, lay, off, on, to)
  BY ImageIs
<1>2. PICK r \in i .. Len(text) + 1 : /\ r = Real(i) /\ Idle(text, i, r)
                                      /\ r <= Len(text) => Does(text[r])
  BY <1>1, RealIs
<1>3. text' = text /\ layers' = layers /\ jumps' = jumps /\ H' = H
  BY DEF linkVars, H
<1>4. lay[i] \in 1 .. H - 1
  BY <1>1 DEF Built
<1>5. CASE r \in 1 .. Len(text)
  <2>1. i \in 1 .. Len(text) /\ r \in i .. Len(text) /\ Does(text[r])
    BY <1>2, <1>5
  <2>2. Onto(layers, jumps, H - 1, lay[i], off[i], on[r], to[r])
    BY <1>1, <1>2, <2>1 DEF Built
  <2>3. Onto(layers', jumps', H' - 1, at', place', on[r], to[r])
    BY <1>3, <2>2
  <2>4. AtText(on, to)'
    BY <1>1, <1>2, <1>3, <1>4, <1>5, <2>3 DEF AtText
  <2> QED BY <1>4, <2>4 DEF Where
<1>6. CASE r = Len(text) + 1
  <2>1. Onto(layers, jumps, H - 1, lay[i], off[i], H - 1, Len(layers[H - 1].items) + 1)
    BY <1>1, <1>2, <1>6 DEF Built
  <2>2. Onto(layers', jumps', H' - 1, at', place', H' - 1, Len(layers'[H' - 1].items) + 1)
    BY <1>3, <2>1
  <2>3. AtEnd'
    BY <1>2, <1>3, <1>4, <1>6, <2>2 DEF AtEnd
  <2> QED BY <1>4, <2>3 DEF Where
<1> QED BY <1>1, <1>2, <1>5, <1>6

(* The run comes to where a name leads.                                    *)
LEMMA Lands ==
  ASSUME NEW lay, NEW off, NEW on, NEW to, Image(lay, off, on, to), UNCHANGED linkVars,
         NEW name \in Names, NEW l, Goes(name, l, lay), at' = l, place' = 1, pc' = Place(name)
  PROVE  Where(on, to)' /\ at' \in Nat /\ pc' \in 0 .. Len(text) + 1
<1>1. /\ text \in Seq(Statements) /\ Len(text) \in Nat /\ H \in Nat
      /\ Built(text, layers, jumps, labels, H - 1, lay, off, on, to)
  BY ImageIs
<1>2. Leads(name, l, lay)
  BY DEF Goes
<1>3. text' = text /\ H' = H
  BY DEF linkVars, H
<1>4. PICK p : p = Place(name) /\ p = pc'
  OBVIOUS
<1>5. CASE p = 0
  <2>1. at' = H' + 5
    BY <1>2, <1>3, <1>4, <1>5 DEF Leads
  <2>2. Real(pc)' = 0
    <3>1. Real(0) = 0 /\ Real(p)' = Real(p)
      BY <1>3, RealZero, RealStays
    <3>2. Real(pc)' = Real(p)'
      BY <1>4
    <3> QED BY <1>5, <3>1, <3>2
  <2>3. TextEvent' = <<"fault">>
    BY <1>1, <1>3, <2>2, EventNext
  <2>4. AtFault'
    BY <2>1, <2>3 DEF AtFault
  <2> QED BY <1>1, <1>3, <1>4, <1>5, <2>1, <2>4 DEF Where
<1>6. CASE p # 0
  <2>1. p \in 1 .. Len(text) /\ text[p][1] = "label" /\ l = lay[p + 1]
    BY <1>2, <1>4, <1>6 DEF Leads
  <2>2. off[p + 1] = 1 /\ p + 1 \in 1 .. Len(text) + 1
    BY <1>1, <2>1 DEF Built
  <2>3. Real(p) = Real(p + 1)
    <3>1. ~Does(text[p])
      BY <2>1 DEF Does
    <3> QED BY <1>1, <2>1, <3>1, RealOn
  <2>4. Real(pc)' = Real(p + 1)
    <3>1. Real(pc)' = Real(p)'
      BY <1>4
    <3>2. Real(p)' = Real(p)
      BY <1>3, RealStays
    <3> QED BY <2>3, <3>1, <3>2
  <2>5. Where(on, to)' /\ at' \in 1 .. H - 1
    BY <2>1, <2>2, <2>4, Arrives
  <2> QED BY <1>1, <1>4, <2>1, <2>5
<1> QED BY <1>5, <1>6

-----------------------------------------------------------------------------
(* Each place of a run, what happens there and where it leads.             *)
RunStep == RunItem \/ RunJump \/ RunOn \/ Stop
Elsewhere == at # H + 5 /\ at # H + 7

LEMMA FramedStays ==
  ASSUME NEW lay, NEW off, Framed(lay, off), UNCHANGED <<linkVars, frames, returns>>
  PROVE  Framed(lay, off)'
BY DEF Framed, linkVars

LEMMA EventHere ==
  ASSUME labels[MemoryFault] = H + 5, labels[Report] = H + 7, Elsewhere, ~Pending
  PROVE  LayerEvent = << Sort(at) >>
BY DEF LayerEvent, Elsewhere, Sort, Standing

LEMMA InStepQuiet ==
  ASSUME labels[MemoryFault] = H + 5, labels[Report] = H + 7, Elsewhere, ~Pending,
         Sort(at) \in {"flow", "memory", "return", "trap", "start", "call", "done"}
  PROVE  InStep
<1>1. LayerEvent = << Sort(at) >>
  BY EventHere
<1>2. LayerEvent[1] \in {"flow", "memory", "return", "trap", "start", "call", "done"} /\ ~Pending
  BY <1>1
<1>3. LayerEvent # <<"report">>
  BY <1>1
<1> QED BY <1>2, <1>3 DEF InStep

LEMMA InStepSame ==
  ASSUME NEW lay, NEW off, Framed(lay, off), LayerEvent = TextEvent,
         LayerEvent # <<"report">>,
         LayerEvent[1] \notin {"flow", "memory", "return", "trap", "start", "call", "done"}
           \/ Pending
  PROVE  InStep
BY DEF InStep, Framed

LEMMA OnIs ==
  ASSUME ~Pending, RunStep,
         Sort(at) \in {"flow", "memory", "return", "trap", "start", "call", "done"}
  PROVE  /\ UNCHANGED <<linkVars, frames, pc, returns>> /\ place' = 1
         /\ Sort(at) = "flow" => at' = at + 1
         /\ Sort(at) = "memory" =>
              at' = IF Len(frames) = Frames /\ at < H THEN layers[at].exit.to ELSE at + 1
         /\ Sort(at) \in {"return", "trap", "start", "call", "done"} => at' = layers[at].exit.to
<1>1. RunOn
  BY DEF RunStep, RunItem, RunJump, Stop, Sort, Standing
<1> QED BY <1>1 DEF RunOn, To, Sort, Standing, H

LEMMA JumpIs ==
  ASSUME ~Pending, RunStep, Sort(at) \in {"jump", "branch"}
  PROVE  \E chosen \in BOOLEAN :
           /\ Sort(at) = "jump" => chosen
           /\ at' = (IF chosen THEN layers[at].exit.to ELSE at + 1) /\ place' = 1
           /\ TextStep(chosen) /\ UNCHANGED <<linkVars, frames>>
<1>1. RunJump
  BY DEF RunStep, RunItem, RunOn, Stop, Sort, Standing
<1>2. PICK chosen \in IF Standing.exit.sort = "jump" THEN {TRUE} ELSE BOOLEAN :
        To(IF chosen THEN Standing.exit.to ELSE at + 1) /\ TextStep(chosen)
  BY <1>1 DEF RunJump
<1>3. chosen \in BOOLEAN /\ (Sort(at) = "jump" => chosen)
  BY <1>2 DEF Sort, Standing
<1> QED BY <1>1, <1>2, <1>3 DEF RunJump, To, Standing

LEMMA StopIs ==
  ASSUME ~Pending, RunStep, Sort(at) = "stop"
  PROVE  UNCHANGED <<linkVars, at, place, frames, pc, returns>>
<1>1. Stop
  BY DEF RunStep, RunItem, RunOn, RunJump, Sort, Standing
<1> QED BY <1>1 DEF Stop

LEMMA ItemIs ==
  ASSUME Pending, RunStep
  PROVE  RunItem /\ TextStep(FALSE) /\ UNCHANGED linkVars
BY DEF RunStep, RunItem, RunOn, RunJump, Stop

LEMMA LeftIs ==
  ASSUME NEW lay, NEW off, NEW on, NEW to, Image(lay, off, on, to), NEW l \in 1 .. H,
         NEW p \in Nat, NEW sort, NEW name, Left(layers, jumps, H - 1, l, p, sort, name)
  PROVE  /\ l \in 1 .. H - 2 /\ Len(layers[l].items) = p - 1
         /\ Sort(l) = sort /\ Goes(name, layers[l].exit.to, lay)
<1>1. l < H - 1 /\ Len(layers[l].items) = p - 1
      /\ [layer |-> l, sort |-> sort, name |-> name] \in Range(jumps)
  BY DEF Left
<1>2. PICK j \in Range(jumps) : j = [layer |-> l, sort |-> sort, name |-> name]
  BY <1>1
<1>3. Sort(j.layer) = j.sort /\ Goes(j.name, layers[j.layer].exit.to, lay)
  BY DEF Image
<1>4. j.layer = l /\ j.sort = sort /\ j.name = name
  BY <1>2
<1>5. H \in Nat
  BY ImageIs
<1> QED BY <1>1, <1>3, <1>4, <1>5

(* The rows of a layer that only leads on have been done.                  *)
LEMMA OntoIs ==
  ASSUME NEW lay, NEW off, NEW on, NEW to, Image(lay, off, on, to), at \in 1 .. H - 1,
         place \in Nat, NEW m, NEW q, Onto(layers, jumps, H - 1, at, place, m, q),
         ~(m = at /\ q = place)
  PROVE  ~Pending /\ Sort(at) = "flow" /\ m = at + 1 /\ q = 1 /\ at \in 1 .. H - 2
<1>1. m = at + 1 /\ q = 1 /\ at < H - 1 /\ Len(layers[at].items) = place - 1 /\ Quiet(jumps, at)
  BY DEF Onto
<1>2. H \in Nat
  BY ImageIs
<1>3. Sort(at) = "flow"
  BY <1>1 DEF Image
<1>4. ~Pending
  BY <1>1 DEF Pending, Standing
<1> QED BY <1>1, <1>2, <1>3, <1>4

LEMMA RunIs ==
  ASSUME NEW lay, NEW off, NEW on, NEW to, Running(lay, off, on, to)
  PROVE  /\ Points(lay, off, on, to) /\ Image(lay, off, on, to) /\ Framed(lay, off)
         /\ pc \in 0 .. Len(text) + 1 /\ at \in Nat /\ place \in Nat
         /\ text \in Seq(Statements) /\ Len(text) \in Nat /\ H \in Nat /\ H > 2
         /\ labels[Return] = H /\ labels[MemoryFault] = H + 5 /\ labels[Report] = H + 7
         /\ Built(text, layers, jumps, labels, H - 1, lay, off, on, to)
BY ImageIs DEF Running

LEMMA StartCase ==
  ASSUME TextAssumption, NEW lay, NEW off, NEW on, NEW to, Running(lay, off, on, to), AtStart
  PROVE  InStep /\ (RunStep => RunInv')
<1>1. /\ Image(lay, off, on, to) /\ Framed(lay, off) /\ H \in Nat /\ H > 2
      /\ labels[MemoryFault] = H + 5 /\ labels[Report] = H + 7
  BY RunIs
<1>2. layers[1].items = <<>> /\ [layer |-> 1, sort |-> "start", name |-> Main] \in Range(jumps)
  BY <1>1 DEF Image, Starts
<1>3. PICK j \in Range(jumps) : j = [layer |-> 1, sort |-> "start", name |-> Main]
  BY <1>2
<1>4. Sort(j.layer) = j.sort /\ Goes(j.name, layers[j.layer].exit.to, lay)
  BY <1>1 DEF Image
<1>5. at = 1 /\ place = 1 /\ pc = Place(Main)
  BY DEF AtStart
<1>6. Sort(at) = "start" /\ Goes(Main, layers[at].exit.to, lay)
  BY <1>3, <1>4, <1>5
<1>7. ~Pending
  BY <1>2, <1>5 DEF Pending, Standing
<1>8. Elsewhere
  BY <1>1, <1>5 DEF Elsewhere
<1>9. InStep
  BY <1>1, <1>6, <1>7, <1>8, InStepQuiet
<1>10. ASSUME RunStep PROVE RunInv'
  <2>1. UNCHANGED <<linkVars, frames, pc, returns>> /\ place' = 1 /\ at' = layers[at].exit.to
    BY <1>6, <1>7, <1>10, OnIs
  <2>2. Main \in Names /\ pc' = Place(Main)
    BY <1>5, <2>1 DEF TextAssumption
  <2>3. Where(on, to)' /\ at' \in Nat /\ pc' \in 0 .. Len(text) + 1
    BY <1>1, <1>6, <2>1, <2>2, Lands
  <2>4. Framed(lay, off)'
    BY <1>1, <2>1, FramedStays
  <2> QED BY <2>1, <2>3, <2>4, RunGoesOn
<1> QED BY <1>9, <1>10

LEMMA EndCase ==
  ASSUME TextAssumption, NEW lay, NEW off, NEW on, NEW to, Running(lay, off, on, to), AtEnd
  PROVE  InStep /\ (RunStep => RunInv')
<1>1. /\ Image(lay, off, on, to) /\ Framed(lay, off) /\ H \in Nat /\ H > 2 /\ place \in Nat
      /\ labels[MemoryFault] = H + 5 /\ labels[Report] = H + 7 /\ pc \in 0 .. Len(text) + 1
      /\ text \in Seq(Statements)
  BY RunIs
<1>2. /\ Real(pc) = Len(text) + 1 /\ at \in 1 .. H - 1
      /\ Onto(layers, jumps, H - 1, at, place, H - 1, Len(layers[H - 1].items) + 1)
  BY DEF AtEnd
<1>3. Elsewhere
  BY <1>1, <1>2 DEF Elsewhere
<1>4. ~Pending /\ Sort(at) = "flow"
      /\ (at # H - 1 => at + 1 = H - 1 /\ Len(layers[H - 1].items) + 1 = 1)
  <2>1. CASE H - 1 = at /\ Len(layers[H - 1].items) + 1 = place
    <3>1. Sort(H - 1) = "flow"
      BY <1>1 DEF Image
    <3>2. Len(layers[H - 1].items) \in Nat
      <4>1. H - 1 \in 1 .. H + 7
        BY <1>1
      <4> QED BY <1>1, <4>1 DEF Image
    <3> QED BY <2>1, <3>1, <3>2 DEF Pending, Standing
  <2>2. CASE ~(H - 1 = at /\ Len(layers[H - 1].items) + 1 = place)
    <3>1. /\ ~Pending /\ Sort(at) = "flow" /\ H - 1 = at + 1
          /\ Len(layers[H - 1].items) + 1 = 1
      BY <1>1, <1>2, <2>2, OntoIs
    <3> QED BY <3>1
  <2> QED BY <2>1, <2>2
<1>5. InStep
  BY <1>1, <1>3, <1>4, InStepQuiet
<1>6. ASSUME RunStep PROVE RunInv'
  <2>1. UNCHANGED <<linkVars, frames, pc, returns>> /\ place' = 1 /\ at' = at + 1
    BY <1>4, <1>6, OnIs
  <2>2. text' = text /\ layers' = layers /\ jumps' = jumps /\ H' = H
    BY <2>1 DEF linkVars, H
  <2>3. Real(pc)' = Len(text) + 1
    <3>1. PICK q : q = pc
      OBVIOUS
    <3>2. Real(q)' = Real(q) /\ pc' = q
      BY <2>1, <2>2, <3>1, RealStays
    <3>3. Real(pc)' = Real(q)'
      BY <3>2
    <3> QED BY <1>2, <3>1, <3>2, <3>3
  <2>4. Where(on, to)'
    <3>1. CASE at = H - 1
      <4>1. TextEvent' = <<"return">>
        BY <1>1, <2>2, <2>3, EventNext
      <4>2. at' = H'
        BY <1>1, <2>1, <2>2, <3>1
      <4>3. AtReturn'
        BY <1>1, <2>1, <2>2, <4>1, <4>2 DEF AtReturn
      <4> QED BY <4>3 DEF Where
    <3>2. CASE at # H - 1
      <4>1. at' = H - 1 /\ place' = Len(layers[H - 1].items) + 1
        BY <1>4, <2>1, <3>2
      <4>2. Onto(layers', jumps', H' - 1, at', place', H' - 1, Len(layers'[H' - 1].items) + 1)
        BY <2>2, <4>1 DEF Onto
      <4>3. at' \in 1 .. H' - 1
        BY <1>1, <2>2, <4>1
      <4>4. AtEnd'
        BY <2>2, <2>3, <4>2, <4>3 DEF AtEnd
      <4> QED BY <4>4 DEF Where
    <3> QED BY <3>1, <3>2
  <2>5. Framed(lay, off)'
    BY <1>1, <2>1, FramedStays
  <2>6. at' \in Nat /\ place' \in Nat /\ pc' \in 0 .. Len(text) + 1
    BY <1>1, <1>2, <2>1
  <2> QED BY <2>1, <2>4, <2>5, <2>6, RunGoesOn
<1> QED BY <1>5, <1>6

LEMMA FaultCase ==
  ASSUME TextAssumption, NEW lay, NEW off, NEW on, NEW to, Running(lay, off, on, to),
         AtFault \/ AtReport
  PROVE  InStep /\ (RunStep => RunInv')
<1>1. /\ Image(lay, off, on, to) /\ Framed(lay, off) /\ H \in Nat /\ H > 2 /\ place \in Nat
      /\ labels[MemoryFault] = H + 5 /\ labels[Report] = H + 7 /\ pc \in 0 .. Len(text) + 1 /\ at \in Nat
  BY RunIs
<1>2. at \in {H + 5, H + 7} /\ place = 1
  BY DEF AtFault, AtReport
<1>3. ~Pending /\ Sort(at) = "stop"
  <2>1. layers[at].items = <<>> /\ Sort(at) = "stop"
    BY <1>1, <1>2 DEF Image
  <2> QED BY <1>2, <2>1 DEF Pending, Standing
<1>4. InStep
  <2>1. CASE AtFault
    <3>1. at = labels[MemoryFault] /\ TextEvent = <<"fault">>
      BY <1>1, <2>1 DEF AtFault
    <3>2. LayerEvent = <<"fault">>
      BY <1>3, <3>1 DEF LayerEvent
    <3>3. /\ LayerEvent = TextEvent /\ LayerEvent # <<"report">>
          /\ LayerEvent[1] \notin {"flow", "memory", "return", "trap", "start", "call", "done"}
      BY <3>1, <3>2
    <3> QED BY <1>1, <3>3, InStepSame
  <2>2. CASE AtReport
    <3>1. at = labels[Report] /\ at # labels[MemoryFault] /\ TextEvent = <<"return">> /\ returns = <<>>
      BY <1>1, <2>2 DEF AtReport
    <3>2. LayerEvent = <<"report">>
      BY <1>3, <3>1 DEF LayerEvent
    <3> QED BY <3>1, <3>2 DEF InStep
  <2> QED BY <2>1, <2>2
<1>5. ASSUME RunStep PROVE RunInv'
  <2>1. UNCHANGED <<linkVars, at, place, frames, pc, returns>>
    BY <1>3, <1>5, StopIs
  <2>2. text' = text /\ H' = H
    BY <2>1 DEF linkVars, H
  <2>3. TextEvent' = TextEvent
    BY <2>1, <2>2 DEF TextEvent, Real, FirstOf, Does
  <2>4. Where(on, to)'
    BY <2>1, <2>2, <2>3 DEF Where, AtFault, AtReport
  <2>5. Framed(lay, off)'
    BY <1>1, <2>1, FramedStays
  <2> QED BY <1>1, <2>1, <2>4, <2>5, RunGoesOn
<1> QED BY <1>4, <1>5

LEMMA ReturnCase ==
  ASSUME TextAssumption, NEW lay, NEW off, NEW on, NEW to, Running(lay, off, on, to), AtReturn
  PROVE  InStep /\ (RunStep => RunInv')
<1>1. /\ Image(lay, off, on, to) /\ Framed(lay, off) /\ H \in Nat /\ H > 2 /\ place \in Nat
      /\ labels[MemoryFault] = H + 5 /\ labels[Report] = H + 7 /\ pc \in 0 .. Len(text) + 1 /\ at \in Nat
      /\ text \in Seq(Statements) /\ Len(text) \in Nat
  BY RunIs
<1>2. at \in H .. H + 2 /\ place = 1 /\ TextEvent = <<"return">>
  BY DEF AtReturn
<1>3. Elsewhere
  BY <1>1, <1>2 DEF Elsewhere
<1>4. CASE at # H + 2
  <2>1. at \in {H, H + 1}
    BY <1>1, <1>2, <1>4
  <2>2. layers[at].items = <<>> /\ Sort(at) = "memory"
    BY <1>1, <2>1 DEF Image
  <2>3. ~Pending
    BY <1>2, <2>2 DEF Pending, Standing
  <2>4. InStep
    BY <1>1, <1>3, <2>2, <2>3, InStepQuiet
  <2>5. ASSUME RunStep PROVE RunInv'
    <3>1. UNCHANGED <<linkVars, frames, pc, returns>> /\ place' = 1 /\ at' = at + 1
      BY <1>1, <2>1, <2>2, <2>3, <2>5, OnIs
    <3>2. text' = text /\ H' = H
      BY <3>1 DEF linkVars, H
    <3>3. TextEvent' = TextEvent
      BY <3>1, <3>2 DEF TextEvent, Real, FirstOf, Does
    <3>4. AtReturn'
      BY <1>1, <1>2, <2>1, <3>1, <3>2, <3>3 DEF AtReturn
    <3>5. Framed(lay, off)'
      BY <1>1, <3>1, FramedStays
    <3>6. at' \in Nat /\ place' \in Nat /\ pc' \in 0 .. Len(text) + 1
      BY <1>1, <3>1
    <3> QED BY <3>1, <3>4, <3>5, <3>6, RunGoesOn DEF Where
  <2> QED BY <2>4, <2>5
<1>5. CASE at = H + 2
  <2>1. layers[at].items = << <<"return">> >>
    BY <1>1, <1>5 DEF Image
  <2>2. Pending /\ Standing.items[place] = <<"return">>
    BY <1>2, <2>1 DEF Pending, Standing
  <2>3. LayerEvent = <<"return">>
    <3>1. <<"return">>[1] # "call"
      OBVIOUS
    <3> QED BY <2>2, <3>1 DEF LayerEvent
  <2>4. InStep
    <3>1. LayerEvent = TextEvent /\ LayerEvent # <<"report">>
      BY <1>2, <2>3
    <3> QED BY <1>1, <2>2, <3>1, InStepSame
  <2>5. ASSUME RunStep PROVE RunInv'
    <3>1. RunItem /\ TextStep(FALSE) /\ UNCHANGED linkVars
      BY <2>2, <2>5, ItemIs
    <3>2. text' = text /\ H' = H
      BY <3>1 DEF linkVars, H
    <3>3. IF frames = <<>> THEN at' = H + 7 /\ place' = 1 /\ frames' = frames
          ELSE at' = Head(frames) /\ place' = 1 /\ frames' = Tail(frames)
      BY <1>1, <2>2, <3>1 DEF RunItem, To
    <3>4. IF returns = <<>> THEN pc' = pc /\ returns' = returns
          ELSE pc' = Head(returns) /\ returns' = Tail(returns)
      BY <1>2, <3>1 DEF TextStep
    <3>5. /\ frames \in Seq(Nat) /\ returns \in Seq(Nat)
          /\ Len(frames) = Len(returns) /\ Len(frames) <= Frames
          /\ \A k \in 1 .. Len(returns) : /\ returns[k] \in 1 .. Len(text) + 1
                                        /\ frames[k] = lay[returns[k]] /\ off[returns[k]] = 1
      BY <1>1 DEF Framed
    <3>6. CASE frames = <<>>
      <4>1. returns = <<>>
        BY <3>5, <3>6
      <4>2. UNCHANGED <<linkVars, frames, pc, returns>> /\ at' = H + 7 /\ place' = 1
        BY <3>1, <3>3, <3>4, <3>6, <4>1
      <4>3. TextEvent' = TextEvent
        BY <3>2, <4>2 DEF TextEvent, Real, FirstOf, Does
      <4>4. AtReport'
        BY <1>2, <3>2, <4>1, <4>2, <4>3 DEF AtReport
      <4>5. Framed(lay, off)'
        BY <1>1, <4>2, FramedStays
      <4>6. at' \in Nat /\ place' \in Nat /\ pc' \in 0 .. Len(text) + 1
        BY <1>1, <4>2
      <4> QED BY <3>1, <4>4, <4>5, <4>6, RunGoesOn DEF Where
    <3>7. CASE frames # <<>>
      <4>1. returns # <<>> /\ 1 \in 1 .. Len(returns) /\ Len(frames) >= 1
        BY <3>5, <3>7
      <4>2. PICK i \in 1 .. Len(text) + 1 : i = returns[1] /\ frames[1] = lay[i] /\ off[i] = 1
        BY <3>5, <4>1
      <4>3. Head(frames) = frames[1] /\ Head(returns) = returns[1]
        BY <3>5, <4>1
      <4>4. at' = lay[i] /\ place' = off[i] /\ place' = 1 /\ pc' = i
        BY <3>3, <3>4, <3>7, <4>1, <4>2, <4>3
      <4>5. Real(pc)' = Real(i)
        <5>1. Real(i)' = Real(i)
          BY <3>2, RealStays
        <5>2. Real(pc)' = Real(i)'
          BY <4>4
        <5> QED BY <5>1, <5>2
      <4>6. Where(on, to)' /\ at' \in 1 .. H - 1
        BY <1>1, <3>1, <4>4, <4>5, Arrives
      <4>7. Framed(lay, off)'
        <5>1. frames' = Tail(frames) /\ returns' = Tail(returns)
          BY <3>3, <3>4, <3>7, <4>1
        <5>2. /\ frames' \in Seq(Nat) /\ returns' \in Seq(Nat)
              /\ Len(frames') = Len(frames) - 1 /\ Len(returns') = Len(returns) - 1
              /\ \A k \in 1 .. Len(returns) - 1 : frames'[k] = frames[k + 1] /\ returns'[k] = returns[k + 1]
          BY <3>5, <3>7, <4>1, <5>1
        <5>3. Len(frames') = Len(returns') /\ Len(frames') <= Frames
          BY <3>5, <5>2 DEF TextAssumption
        <5>4. ASSUME NEW k \in 1 .. Len(returns')
              PROVE  /\ returns'[k] \in 1 .. Len(text') + 1
                     /\ frames'[k] = lay[returns'[k]] /\ off[returns'[k]] = 1
          <6>1. k + 1 \in 1 .. Len(returns) /\ k \in 1 .. Len(returns) - 1
            BY <3>5, <5>2
          <6> QED BY <3>2, <3>5, <5>2, <6>1
        <5> QED BY <5>2, <5>3, <5>4 DEF Framed
      <4>8. at' \in Nat /\ place' \in Nat /\ pc' \in 0 .. Len(text) + 1
        BY <1>1, <4>4, <4>6
      <4> QED BY <3>1, <4>6, <4>7, <4>8, RunGoesOn
    <3> QED BY <3>6, <3>7
  <2> QED BY <2>4, <2>5
<1> QED BY <1>4, <1>5

LEMMA CalledCase ==
  ASSUME TextAssumption, NEW lay, NEW off, NEW on, NEW to, Running(lay, off, on, to), Called(on)
  PROVE  InStep /\ (RunStep => RunInv')
<1>1. /\ Image(lay, off, on, to) /\ Framed(lay, off) /\ H \in Nat /\ H > 2 /\ place \in Nat
      /\ labels[MemoryFault] = H + 5 /\ labels[Report] = H + 7 /\ pc \in 0 .. Len(text) + 1 /\ at \in Nat
      /\ text \in Seq(Statements) /\ Len(text) \in Nat
      /\ Built(text, layers, jumps, labels, H - 1, lay, off, on, to)
  BY RunIs
<1>2. PICK k \in 1 .. Len(text), n \in Names : /\ text[k][1] = "call" /\ text[k][2] = n
                                              /\ at = on[k] + 2 /\ place = 2 /\ pc = Place(n)
  BY DEF Called
<1>3. text[k] \in Statements /\ Does(text[k])
  BY <1>1, <1>2 DEF Does
<1>5. on[k] \in 1 .. H - 1 /\ Left(layers, jumps, H - 1, on[k] + 2, 2, "call", n)
  <2>1. on[k] \in 1 .. H - 1
        /\ Compiled(layers, jumps, H - 1, text[k], on[k], to[k], lay[k + 1], off[k + 1])
    BY <1>1, <1>3 DEF Built
  <2> QED BY <1>2, <2>1 DEF Compiled
<1>6. at \in 1 .. H
  BY <1>1, <1>2, <1>5 DEF Left
<1>7. /\ at \in 1 .. H - 2 /\ Len(layers[at].items) = 1
      /\ Sort(at) = "call" /\ Goes(n, layers[at].exit.to, lay)
  <2>2. Left(layers, jumps, H - 1, at, 2, "call", n)
    BY <1>2, <1>5
  <2>3. /\ at \in 1 .. H - 2 /\ Len(layers[at].items) = 2 - 1
        /\ Sort(at) = "call" /\ Goes(n, layers[at].exit.to, lay)
    BY ONLY <1>1, <1>6, <2>2, LeftIs, 2 \in Nat
  <2> QED BY <2>3
<1>8. ~Pending
  BY <1>2, <1>7 DEF Pending, Standing
<1>9. InStep
  <2>1. Elsewhere
    BY <1>1, <1>7 DEF Elsewhere
  <2> QED BY <1>1, <1>7, <1>8, <2>1, InStepQuiet
<1>10. ASSUME RunStep PROVE RunInv'
  <2>1. UNCHANGED <<linkVars, frames, pc, returns>> /\ place' = 1 /\ at' = layers[at].exit.to
    BY <1>7, <1>8, <1>10, OnIs
  <2>2. pc' = Place(n)
    BY <1>2, <2>1
  <2>3. Where(on, to)' /\ at' \in Nat /\ pc' \in 0 .. Len(text) + 1
    BY <1>1, <1>7, <2>1, <2>2, Lands
  <2>4. Framed(lay, off)'
    BY <1>1, <2>1, FramedStays
  <2> QED BY <2>1, <2>3, <2>4, RunGoesOn
<1> QED BY <1>9, <1>10

LEMMA PlaceRange ==
  ASSUME text \in Seq(Statements), NEW n
  PROVE  Place(n) \in 0 .. Len(text) + 1
<1>1. DOMAIN text = 1 .. Len(text) /\ Len(text) \in Nat
  OBVIOUS
<1>2. PICK places : places = {i \in DOMAIN text : text[i] = <<"label", Stands(n)>>}
  OBVIOUS
<1>3. PICK p : p = Place(n)
  OBVIOUS
<1>4. places \subseteq 1 .. Len(text) /\ p = IF places = {} THEN 0 ELSE FirstOf(places)
  BY <1>1, <1>2, <1>3 DEF Place
<1>5. places # {} => FirstOf(places) \in places
  <2>1. places \subseteq Nat
    BY <1>1, <1>4
  <2> QED BY ONLY <2>1, FirstOfIs
<1>6. p \in 0 .. Len(text) + 1
  BY ONLY <1>1, <1>4, <1>5
<1> QED BY <1>3, <1>6

LEMMA PushedIs ==
  ASSUME NEW s \in Seq(Nat), NEW x \in Nat, NEW t, t = <<x>> \o s
  PROVE  /\ t \in Seq(Nat) /\ Len(t) = Len(s) + 1 /\ t[1] = x
         /\ \A k \in 2 .. Len(t) : k - 1 \in 1 .. Len(s) /\ t[k] = s[k - 1]
OBVIOUS

LEMMA CallingCase ==
  ASSUME TextAssumption, NEW lay, NEW off, NEW on, NEW to, Running(lay, off, on, to), Calling(on)
  PROVE  InStep /\ (RunStep => RunInv')
<1>1. /\ Image(lay, off, on, to) /\ Framed(lay, off) /\ H \in Nat /\ H > 2 /\ place \in Nat
      /\ labels[MemoryFault] = H + 5 /\ labels[Report] = H + 7 /\ pc \in 0 .. Len(text) + 1 /\ at \in Nat
      /\ text \in Seq(Statements) /\ Len(text) \in Nat /\ Points(lay, off, on, to)
      /\ Built(text, layers, jumps, labels, H - 1, lay, off, on, to)
  BY RunIs
<1>2. PICK i \in 1 .. Len(text) : i = Real(pc) /\ text[i][1] = "call"
  BY DEF Calling
<1>3. Len(frames) < Frames /\ place = 1 /\ at \in {on[i] + 1, on[i] + 2}
  BY <1>2 DEF Calling
<1>4. text[i] \in Statements /\ Does(text[i])
  BY <1>1, <1>2 DEF Does
<1>5. PICK name \in Names : name = text[i][2]
  BY <1>2, <1>4, StatementIs
<1>6. PICK l \in 1 .. H - 1 : /\ l = on[i]
        /\ Left(layers, jumps, H - 1, l + 1, 1, "memory", MemoryFault)
        /\ Left(layers, jumps, H - 1, l + 2, 2, "call", name)
        /\ layers[l + 2].items[1] = <<"call", l + 3>> /\ lay[i + 1] = l + 3 /\ off[i + 1] = 1
  <2>1. on[i] \in 1 .. H - 1
        /\ Compiled(layers, jumps, H - 1, text[i], on[i], to[i], lay[i + 1], off[i + 1])
    BY <1>1, <1>4 DEF Built
  <2> QED BY <1>2, <1>5, <2>1 DEF Compiled
<1>7. l + 2 < H - 1 /\ l + 1 \in 1 .. H /\ l + 2 \in 1 .. H
  <2>1. l + 2 < H - 1
    BY <1>6 DEF Left
  <2> QED BY ONLY <1>1, <2>1, l \in 1 .. H - 1
<1>8. at \in {l + 1, l + 2} /\ Elsewhere
  <2>1. at \in {l + 1, l + 2}
    BY ONLY <1>3, <1>6
  <2> QED BY ONLY <1>1, <1>7, <2>1, l \in 1 .. H - 1 DEF Elsewhere
<1>9. /\ frames \in Seq(Nat) /\ returns \in Seq(Nat)
      /\ Len(frames) = Len(returns) /\ Len(frames) <= Frames
      /\ \A k \in 1 .. Len(returns) : /\ returns[k] \in 1 .. Len(text) + 1
                                    /\ frames[k] = lay[returns[k]] /\ off[returns[k]] = 1
  BY <1>1 DEF Framed
<1>10. CASE at = l + 1
  <2>1. Len(layers[at].items) = 0 /\ Sort(at) = "memory"
    <3>1. Len(layers[l + 1].items) = 1 - 1 /\ Sort(l + 1) = "memory"
      BY ONLY <1>1, <1>6, <1>7, LeftIs, 1 \in Nat
    <3> QED BY <1>10, <3>1
  <2>2. ~Pending
    BY <1>3, <2>1 DEF Pending, Standing
  <2>3. InStep
    BY <1>1, <1>8, <2>1, <2>2, InStepQuiet
  <2>4. ASSUME RunStep PROVE RunInv'
    <3>1. UNCHANGED <<linkVars, frames, pc, returns>> /\ place' = 1 /\ at' = at + 1
      <4>1. Len(frames) # Frames
        BY <1>3, <1>9
      <4> QED BY <2>1, <2>2, <2>4, <4>1, OnIs
    <3>2. text' = text
      BY <3>1 DEF linkVars
    <3>3. Real(pc)' = i
      <4>1. PICK q : q = pc
        OBVIOUS
      <4>2. Real(q)' = Real(q) /\ Real(pc)' = Real(q)'
        BY <3>1, <3>2, <4>1, RealStays
      <4> QED BY <1>2, <4>1, <4>2
    <3>4. Calling(on)'
      <4>1. at' \in {on[i] + 1, on[i] + 2}
        BY <1>6, <1>10, <3>1
      <4> QED BY <1>2, <1>3, <3>1, <3>2, <3>3, <4>1 DEF Calling
    <3>5. Framed(lay, off)'
      BY <1>1, <3>1, FramedStays
    <3>6. at' \in Nat /\ place' \in Nat /\ pc' \in 0 .. Len(text) + 1
      BY <1>1, <3>1
    <3> QED BY <3>1, <3>4, <3>5, <3>6, RunGoesOn DEF Where
  <2> QED BY <2>3, <2>4
<1>11. CASE at = l + 2
  <2>1. Len(layers[at].items) = 1
    <3>1. Len(layers[l + 2].items) = 2 - 1
      BY ONLY <1>1, <1>6, <1>7, LeftIs, 2 \in Nat
    <3> QED BY <1>11, <3>1
  <2>2. Pending /\ Standing.items[place] = <<"call", l + 3>>
    BY <1>3, <1>6, <1>11, <2>1 DEF Pending, Standing
  <2>3. LayerEvent = <<"call">>
    <3>1. <<"call", l + 3>>[1] = "call"
      OBVIOUS
    <3> QED BY <2>2, <3>1 DEF LayerEvent
  <2>4. TextEvent = <<"call">>
    <3>1. Len(returns) # Frames
      BY <1>3, <1>9
    <3> QED BY <1>1, <1>2, <3>1, EventIs
  <2>5. InStep
    <3>1. LayerEvent = TextEvent /\ LayerEvent # <<"report">>
      BY <2>3, <2>4
    <3> QED BY <1>1, <2>2, <3>1, InStepSame
  <2>6. ASSUME RunStep PROVE RunInv'
    <3>1. RunItem /\ TextStep(FALSE) /\ UNCHANGED linkVars
      BY <2>2, <2>6, ItemIs
    <3>2. text' = text
      BY <3>1 DEF linkVars
    <3>3. frames' = <<l + 3>> \o frames /\ place' = 2 /\ at' = at
      <4>1. <<"call", l + 3>>[1] = "call" /\ <<"call", l + 3>>[2] = l + 3
        OBVIOUS
      <4> QED BY <1>3, <2>2, <3>1, <4>1 DEF RunItem
    <3>31. l + 3 \in Nat /\ i + 1 \in Nat
      BY <1>1
    <3>4. pc' = Place(name) /\ returns' = <<i + 1>> \o returns
      <4>1. TextEvent[1] = "call"
        BY <2>4
      <4> QED BY <1>2, <1>5, <3>1, <4>1 DEF TextStep
    <3>5. Called(on)'
      <4>1. pc' = Place(name)' /\ text'[i][2] = name /\ text'[i][1] = "call" /\ i \in 1 .. Len(text')
        <5>1. Place(name)' = Place(name)
          BY <3>2, PlaceStays
        <5> QED BY <1>2, <1>5, <3>2, <3>4, <5>1
      <4>2. at' = on[i] + 2 /\ place' = 2
        BY <1>6, <1>11, <3>3
      <4> QED BY <4>1, <4>2 DEF Called
    <3>6. Framed(lay, off)'
      <4>1. /\ frames' \in Seq(Nat) /\ Len(frames') = Len(frames) + 1 /\ frames'[1] = l + 3
            /\ \A k \in 2 .. Len(frames') : k - 1 \in 1 .. Len(frames) /\ frames'[k] = frames[k - 1]
        BY ONLY <1>9, <3>3, <3>31, PushedIs
      <4>2. /\ returns' \in Seq(Nat) /\ Len(returns') = Len(returns) + 1 /\ returns'[1] = i + 1
            /\ \A k \in 2 .. Len(returns') : k - 1 \in 1 .. Len(returns) /\ returns'[k] = returns[k - 1]
        BY ONLY <1>9, <3>31, <3>4, PushedIs
      <4>3. Len(frames') = Len(returns') /\ Len(frames') <= Frames
        BY <1>3, <1>9, <4>1, <4>2 DEF TextAssumption
      <4>4. ASSUME NEW k \in 1 .. Len(returns')
            PROVE  /\ returns'[k] \in 1 .. Len(text') + 1
                   /\ frames'[k] = lay[returns'[k]] /\ off[returns'[k]] = 1
        <5>1. CASE k = 1
          <6>1. i + 1 \in 1 .. Len(text') + 1
            BY <1>1, <3>2
          <6> QED BY <1>6, <4>1, <4>2, <5>1, <6>1
        <5>2. CASE k # 1
          <6>1. k \in 2 .. Len(returns') /\ k \in 2 .. Len(frames')
            BY <4>3, <5>2
          <6>2. k - 1 \in 1 .. Len(returns) /\ returns'[k] = returns[k - 1] /\ frames'[k] = frames[k - 1]
            BY <4>1, <4>2, <6>1
          <6> QED BY <1>9, <3>2, <6>2
        <5> QED BY <5>1, <5>2
      <4> QED BY <4>1, <4>2, <4>3, <4>4 DEF Framed
    <3>7. pc' \in 0 .. Len(text) + 1 /\ at' \in Nat /\ place' \in Nat
      <4>1. Place(name) \in 0 .. Len(text) + 1
        BY <1>1, PlaceRange
      <4> QED BY <1>1, <3>3, <3>4, <4>1
    <3> QED BY <3>1, <3>5, <3>6, <3>7, RunGoesOn DEF Where
  <2> QED BY <2>5, <2>6
<1> QED BY <1>8, <1>10, <1>11

(* The rows of statement i are here.                                       *)
AtRows(on, to, i) == /\ i \in 1 .. Len(text) /\ i = Real(pc)
                    /\ at = on[i] /\ place = to[i]

LEMMA HereIs ==
  ASSUME NEW lay, NEW off, NEW on, NEW to, Running(lay, off, on, to), NEW i, AtRows(on, to, i)
  PROVE  /\ text[i] \in Statements /\ Does(text[i]) /\ at \in 1 .. H - 1 /\ Elsewhere
         /\ Compiled(layers, jumps, H - 1, text[i], at, place, lay[i + 1], off[i + 1])
<1>1. /\ Image(lay, off, on, to) /\ pc \in 0 .. Len(text) + 1 /\ text \in Seq(Statements)
      /\ Len(text) \in Nat /\ H \in Nat
      /\ Built(text, layers, jumps, labels, H - 1, lay, off, on, to)
  BY RunIs
<1>2. i \in 1 .. Len(text) /\ i = Real(pc) /\ at = on[i] /\ place = to[i]
  BY DEF AtRows
<1>3. pc \in 1 .. Len(text) + 1
  <2>1. pc # 0
    BY <1>2, RealZero
  <2> QED BY <1>1, <2>1
<1>4. Does(text[i])
  BY <1>1, <1>2, <1>3, RealIs
<1>5. /\ on[i] \in 1 .. H - 1
      /\ Compiled(layers, jumps, H - 1, text[i], on[i], to[i], lay[i + 1], off[i + 1])
  BY <1>1, <1>2, <1>4 DEF Built
<1>6. text[i] \in Statements
  BY <1>1, <1>2
<1>7. Elsewhere
  BY <1>1, <1>2, <1>5 DEF Elsewhere
<1> QED BY <1>2, <1>4, <1>5, <1>6, <1>7

LEMMA NextIs ==
  ASSUME NEW lay, NEW off, NEW on, NEW to, Running(lay, off, on, to), UNCHANGED linkVars,
         NEW i \in 1 .. Len(text), at' = lay[i + 1], place' = off[i + 1], pc' = i + 1,
         UNCHANGED <<frames, returns>>
  PROVE  RunInv'
<1>1. /\ Image(lay, off, on, to) /\ Framed(lay, off) /\ Len(text) \in Nat /\ H \in Nat
      /\ Points(lay, off, on, to)
  BY RunIs
<1>2. i + 1 \in 1 .. Len(text) + 1
  BY <1>1
<1>3. PICK k \in 1 .. Len(text) + 1 : k = i + 1
  BY <1>2
<1>4. Real(k) = Real(pc)'
  <2>1. Real(k)' = Real(k)
    BY RealStays DEF linkVars
  <2>2. Real(pc)' = Real(k)'
    BY <1>3
  <2> QED BY <2>1, <2>2
<1>5. Where(on, to)' /\ at' \in 1 .. H - 1
  BY <1>1, <1>3, <1>4, Arrives
<1>6. off[k] \in Nat
  BY <1>1 DEF Points
<1>7. Framed(lay, off)'
  BY <1>1, FramedStays
<1> QED BY <1>1, <1>2, <1>3, <1>5, <1>6, <1>7, RunGoesOn

LEMMA OpCase ==
  ASSUME TextAssumption, NEW lay, NEW off, NEW on, NEW to, Running(lay, off, on, to),
         NEW i, AtRows(on, to, i), text[i][1] = "op"
  PROVE  InStep /\ (RunStep => RunInv')
<1>1. /\ Framed(lay, off) /\ text \in Seq(Statements) /\ Len(text) \in Nat /\ H \in Nat
  BY RunIs
<1>2. i \in 1 .. Len(text) /\ i = Real(pc)
  BY DEF AtRows
<1>3. /\ place \in 1 .. Len(layers[at].items) /\ layers[at].items[place] = text[i]
      /\ lay[i + 1] = at /\ off[i + 1] = place + 1
  BY HereIs DEF Compiled
<1>4. Pending /\ Standing.items[place] = text[i]
  BY <1>3 DEF Pending, Standing
<1>5. LayerEvent = text[i]
  <2>1. text[i][1] # "call"
    OBVIOUS
  <2> QED BY <1>4, <2>1 DEF LayerEvent
<1>6. TextEvent = text[i]
  BY <1>1, <1>2, EventIs
<1>7. InStep
  <2>1. LayerEvent = TextEvent /\ LayerEvent # <<"report">>
    <3>1. <<"report">>[1] = "report"
      OBVIOUS
    <3>2. text[i] # <<"report">>
      BY <3>1
    <3> QED BY <1>5, <1>6, <3>2
  <2> QED BY <1>1, <1>4, <2>1, InStepSame
<1>8. ASSUME RunStep PROVE RunInv'
  <2>1. RunItem /\ TextStep(FALSE) /\ UNCHANGED linkVars
    BY <1>4, <1>8, ItemIs
  <2>2. place' = place + 1 /\ at' = at /\ frames' = frames
    BY <1>4, <2>1 DEF RunItem
  <2>3. pc' = i + 1 /\ returns' = returns
    BY <1>2, <1>6, <2>1 DEF TextStep
  <2>4. at' = lay[i + 1] /\ place' = off[i + 1]
    BY <1>3, <2>2
  <2> QED BY <1>2, <2>1, <2>2, <2>3, <2>4, NextIs
<1> QED BY <1>7, <1>8

LEMMA BranchCase ==
  ASSUME TextAssumption, NEW lay, NEW off, NEW on, NEW to, Running(lay, off, on, to),
         NEW i, AtRows(on, to, i), text[i][1] \in {"branch", "jump"}
  PROVE  InStep /\ (RunStep => RunInv')
<1>1. /\ Image(lay, off, on, to) /\ Framed(lay, off) /\ text \in Seq(Statements)
      /\ Len(text) \in Nat /\ H \in Nat /\ place \in Nat
      /\ labels[MemoryFault] = H + 5 /\ labels[Report] = H + 7
  BY RunIs
<1>2. i \in 1 .. Len(text) /\ i = Real(pc)
  BY DEF AtRows
<1>3. text[i] \in Statements /\ at \in 1 .. H - 1 /\ Elsewhere
      /\ Compiled(layers, jumps, H - 1, text[i], at, place, lay[i + 1], off[i + 1])
  BY HereIs
<1>4. PICK name \in Names : name = text[i][2]
  BY <1>3, StatementIs
<1>5. PICK sort : sort = text[i][1] /\ sort \in {"branch", "jump"}
  OBVIOUS
<1>6. Left(layers, jumps, H - 1, at, place, sort, name) /\ lay[i + 1] = at + 1 /\ off[i + 1] = 1
  BY <1>3, <1>4, <1>5 DEF Compiled
<1>7. /\ at \in 1 .. H - 2 /\ Len(layers[at].items) = place - 1
      /\ Sort(at) = sort /\ Goes(name, layers[at].exit.to, lay)
  <2>1. at \in 1 .. H
    BY <1>1, <1>3
  <2> QED BY ONLY <1>1, <1>6, <2>1, LeftIs
<1>8. ~Pending
  BY <1>1, <1>7 DEF Pending, Standing
<1>9. LayerEvent = << sort >>
  BY <1>1, <1>3, <1>7, <1>8, EventHere
<1>10. TextEvent = << sort >>
  BY <1>1, <1>2, <1>5, EventIs
<1>11. InStep
  <2>1. /\ LayerEvent = TextEvent /\ LayerEvent # <<"report">>
        /\ LayerEvent[1] \notin {"flow", "memory", "return", "trap", "start", "call", "done"}
    BY <1>5, <1>9, <1>10
  <2> QED BY <1>1, <2>1, InStepSame
<1>12. ASSUME RunStep PROVE RunInv'
  <2>1. PICK chosen \in BOOLEAN :
          /\ Sort(at) = "jump" => chosen
          /\ at' = (IF chosen THEN layers[at].exit.to ELSE at + 1) /\ place' = 1
          /\ TextStep(chosen) /\ UNCHANGED <<linkVars, frames>>
    BY <1>5, <1>7, <1>8, <1>12, JumpIs
  <2>2. (chosen => pc' = Place(name)) /\ (~chosen => pc' = i + 1) /\ returns' = returns
    <3>1. TextEvent[1] = sort
      BY <1>10
    <3>2. CASE sort = "jump"
      BY <1>2, <1>4, <1>7, <2>1, <3>1, <3>2 DEF TextStep
    <3>3. CASE sort = "branch"
      BY <1>2, <1>4, <2>1, <3>1, <3>3 DEF TextStep
    <3> QED BY <1>5, <3>2, <3>3
  <2>3. CASE chosen
    <3>1. at' = layers[at].exit.to /\ place' = 1 /\ pc' = Place(name) /\ UNCHANGED linkVars
      BY <2>1, <2>2, <2>3
    <3>2. Where(on, to)' /\ at' \in Nat /\ pc' \in 0 .. Len(text) + 1
      BY <1>1, <1>7, <3>1, Lands
    <3>3. Framed(lay, off)'
      BY <1>1, <2>1, <2>2, FramedStays
    <3> QED BY <3>1, <3>2, <3>3, RunGoesOn
  <2>4. CASE ~chosen
    <3>1. at' = lay[i + 1] /\ place' = off[i + 1] /\ pc' = i + 1
      BY <1>6, <2>1, <2>2, <2>4
    <3> QED BY <1>2, <2>1, <2>2, <3>1, NextIs
  <2> QED BY <2>3, <2>4
<1> QED BY <1>11, <1>12

-----------------------------------------------------------------------------
(* A call's first row: memory has room for a frame, or it is the fault.    *)
LEMMA CallCase ==
  ASSUME TextAssumption, NEW lay, NEW off, NEW on, NEW to, Running(lay, off, on, to),
         NEW i, AtRows(on, to, i), text[i][1] = "call"
  PROVE  InStep /\ (RunStep => RunInv')
<1>1. /\ Image(lay, off, on, to) /\ Framed(lay, off) /\ text \in Seq(Statements)
      /\ Len(text) \in Nat /\ H \in Nat /\ place \in Nat /\ pc \in 0 .. Len(text) + 1
      /\ labels[MemoryFault] = H + 5 /\ labels[Report] = H + 7
  BY RunIs
<1>2. i \in 1 .. Len(text) /\ i = Real(pc) /\ at = on[i]
  BY DEF AtRows
<1>3. at \in 1 .. H - 1 /\ Elsewhere
      /\ Compiled(layers, jumps, H - 1, text[i], at, place, lay[i + 1], off[i + 1])
  BY HereIs
<1>4. Left(layers, jumps, H - 1, at, place, "memory", MemoryFault)
  BY <1>3 DEF Compiled
<1>5. /\ at \in 1 .. H - 2 /\ Len(layers[at].items) = place - 1
      /\ Sort(at) = "memory" /\ Goes(MemoryFault, layers[at].exit.to, lay)
  <2>1. at \in 1 .. H
    BY <1>1, <1>3
  <2> QED BY ONLY <1>1, <1>4, <2>1, LeftIs
<1>6. ~Pending
  BY <1>1, <1>5 DEF Pending, Standing
<1>7. InStep
  BY <1>1, <1>3, <1>5, <1>6, InStepQuiet
<1>8. ASSUME RunStep PROVE RunInv'
  <2>1. /\ UNCHANGED <<linkVars, frames, pc, returns>> /\ place' = 1
        /\ at' = IF Len(frames) = Frames THEN H + 5 ELSE at + 1
    <3>1. layers[at].exit.to = H + 5 /\ at < H
      BY <1>1, <1>5 DEF Goes
    <3> QED BY <1>5, <1>6, <1>8, <3>1, OnIs
  <2>2. text' = text /\ H' = H
    BY <2>1 DEF linkVars, H
  <2>3. Real(pc)' = i
    <3>1. PICK q : q = pc
      OBVIOUS
    <3>2. Real(q)' = Real(q) /\ Real(pc)' = Real(q)'
      BY <2>1, <2>2, <3>1, RealStays
    <3> QED BY <1>2, <3>1, <3>2
  <2>4. Len(frames) = Len(returns) /\ Len(frames) <= Frames /\ Len(frames) \in Nat /\ Frames \in Nat
    BY <1>1 DEF Framed, TextAssumption
  <2>5. Where(on, to)'
    <3>1. CASE Len(frames) = Frames
      <4>1. Len(returns') = Frames
        BY <2>1, <2>4, <3>1
      <4>2. TextEvent' = <<"fault">>
        BY <1>1, <1>2, <2>2, <2>3, <4>1, EventNext
      <4>3. AtFault'
        BY <2>1, <2>2, <3>1, <4>2 DEF AtFault
      <4> QED BY <4>3 DEF Where
    <3>2. CASE Len(frames) # Frames
      <4>1. Len(frames') < Frames
        BY <2>1, <2>4, <3>2
      <4>2. at' = on[i] + 1
        BY <1>2, <2>1, <3>2
      <4>3. Calling(on)'
        BY <1>2, <2>1, <2>2, <2>3, <4>1, <4>2 DEF Calling
      <4> QED BY <4>3 DEF Where
    <3> QED BY <3>1, <3>2
  <2>6. Framed(lay, off)'
    BY <1>1, <2>1, FramedStays
  <2>7. at' \in Nat /\ place' \in Nat /\ pc' \in 0 .. Len(text) + 1
    BY <1>1, <1>3, <2>1
  <2> QED BY <2>1, <2>5, <2>6, <2>7, RunGoesOn
<1> QED BY <1>7, <1>8

(* A return and a trap leave for the linker's own layers.                  *)
LEMMA FinalCase ==
  ASSUME TextAssumption, NEW lay, NEW off, NEW on, NEW to, Running(lay, off, on, to),
         NEW i, AtRows(on, to, i), text[i][1] \in {"ret", "trap"}
  PROVE  InStep /\ (RunStep => RunInv')
<1>1. /\ Image(lay, off, on, to) /\ Framed(lay, off) /\ text \in Seq(Statements)
      /\ Len(text) \in Nat /\ H \in Nat /\ place \in Nat /\ pc \in 0 .. Len(text) + 1
      /\ labels[MemoryFault] = H + 5 /\ labels[Report] = H + 7
  BY RunIs
<1>2. i \in 1 .. Len(text) /\ i = Real(pc)
  BY DEF AtRows
<1>3. at \in 1 .. H - 1 /\ Elsewhere
      /\ Compiled(layers, jumps, H - 1, text[i], at, place, lay[i + 1], off[i + 1])
  BY HereIs
<1>4. PICK sort, name :
        /\ sort = IF text[i][1] = "ret" THEN "return" ELSE "trap"
        /\ name = IF text[i][1] = "ret" THEN Return ELSE MemoryFault
  OBVIOUS
<1>5. Left(layers, jumps, H - 1, at, place, sort, name)
  BY <1>3, <1>4 DEF Compiled
<1>6. /\ at \in 1 .. H - 2 /\ Len(layers[at].items) = place - 1
      /\ Sort(at) = sort /\ Goes(name, layers[at].exit.to, lay)
  <2>1. at \in 1 .. H
    BY <1>1, <1>3
  <2> QED BY ONLY <1>1, <1>5, <2>1, LeftIs
<1>7. ~Pending /\ sort \in {"return", "trap"}
  BY <1>1, <1>4, <1>6 DEF Pending, Standing
<1>8. InStep
  BY <1>1, <1>3, <1>6, <1>7, InStepQuiet
<1>9. ASSUME RunStep PROVE RunInv'
  <2>1. UNCHANGED <<linkVars, frames, pc, returns>> /\ place' = 1 /\ at' = layers[at].exit.to
    BY <1>6, <1>7, <1>9, OnIs
  <2>2. text' = text /\ H' = H
    BY <2>1 DEF linkVars, H
  <2>3. Real(pc)' = i
    <3>1. PICK q : q = pc
      OBVIOUS
    <3>2. Real(q)' = Real(q) /\ Real(pc)' = Real(q)'
      BY <2>1, <2>2, <3>1, RealStays
    <3> QED BY <1>2, <3>1, <3>2
  <2>4. Where(on, to)' /\ at' \in Nat
    <3>1. CASE text[i][1] = "ret"
      <4>1. at' = H
        BY <1>4, <1>6, <2>1, <3>1 DEF Goes
      <4>2. TextEvent' = <<"return">>
        BY <1>1, <1>2, <2>2, <2>3, <3>1, EventNext
      <4>3. AtReturn'
        BY <1>1, <2>1, <2>2, <4>1, <4>2 DEF AtReturn
      <4> QED BY <1>1, <4>1, <4>3 DEF Where
    <3>2. CASE text[i][1] = "trap"
      <4>1. at' = H + 5
        BY <1>4, <1>6, <2>1, <3>2 DEF Goes
      <4>2. TextEvent' = <<"fault">>
        BY <1>1, <1>2, <2>2, <2>3, <3>2, EventNext
      <4>3. AtFault'
        BY <2>1, <2>2, <4>1, <4>2 DEF AtFault
      <4> QED BY <1>1, <4>1, <4>3 DEF Where
    <3> QED BY <3>1, <3>2
  <2>5. Framed(lay, off)'
    BY <1>1, <2>1, FramedStays
  <2>6. place' \in Nat /\ pc' \in 0 .. Len(text) + 1
    BY <1>1, <2>1
  <2> QED BY <2>1, <2>4, <2>5, <2>6, RunGoesOn
<1> QED BY <1>8, <1>9

(* In the text: at the rows of what it does next, or a layer before them.  *)
LEMMA TextCase ==
  ASSUME TextAssumption, NEW lay, NEW off, NEW on, NEW to, Running(lay, off, on, to),
         AtText(on, to)
  PROVE  InStep /\ (RunStep => RunInv')
<1>1. /\ Image(lay, off, on, to) /\ Framed(lay, off) /\ text \in Seq(Statements)
      /\ Len(text) \in Nat /\ H \in Nat /\ place \in Nat /\ pc \in 0 .. Len(text) + 1
      /\ labels[MemoryFault] = H + 5 /\ labels[Report] = H + 7
  BY RunIs
<1>2. PICK i \in 1 .. Len(text) : i = Real(pc)
  BY DEF AtText
<1>3. at \in 1 .. H - 1 /\ Onto(layers, jumps, H - 1, at, place, on[i], to[i])
  BY <1>2 DEF AtText
<1>4. CASE on[i] = at /\ to[i] = place
  <2>1. AtRows(on, to, i)
    BY <1>2, <1>4 DEF AtRows
  <2>2. text[i] \in Statements /\ Does(text[i])
    BY <2>1, HereIs
  <2>3. text[i][1] \in {"op", "branch", "call", "jump", "ret", "trap"}
    BY <2>2 DEF Does
  <2>4. CASE text[i][1] = "op"
    BY <2>1, <2>4, OpCase
  <2>5. CASE text[i][1] \in {"branch", "jump"}
    BY <2>1, <2>5, BranchCase
  <2>6. CASE text[i][1] = "call"
    BY <2>1, <2>6, CallCase
  <2>7. CASE text[i][1] \in {"ret", "trap"}
    BY <2>1, <2>7, FinalCase
  <2> QED BY <2>3, <2>4, <2>5, <2>6, <2>7
<1>5. CASE ~(on[i] = at /\ to[i] = place)
  <2>1. PICK m, q : m = on[i] /\ q = to[i]
    OBVIOUS
  <2>2. Onto(layers, jumps, H - 1, at, place, m, q) /\ ~(m = at /\ q = place)
    BY <1>3, <1>5, <2>1
  <2>3. ~Pending /\ Sort(at) = "flow" /\ m = at + 1 /\ q = 1 /\ at \in 1 .. H - 2
    BY <1>1, <1>3, <2>2, OntoIs
  <2>4. Elsewhere
    BY <1>1, <1>3 DEF Elsewhere
  <2>5. InStep
    BY <1>1, <2>3, <2>4, InStepQuiet
  <2>6. ASSUME RunStep PROVE RunInv'
    <3>1. UNCHANGED <<linkVars, frames, pc, returns>> /\ place' = 1 /\ at' = at + 1
      BY <2>3, <2>6, OnIs
    <3>2. text' = text /\ layers' = layers /\ jumps' = jumps /\ H' = H
      BY <3>1 DEF linkVars, H
    <3>3. Real(pc)' = i
      <4>1. PICK r : r = pc
        OBVIOUS
      <4>2. Real(r)' = Real(r) /\ Real(pc)' = Real(r)'
        BY <3>1, <3>2, <4>1, RealStays
      <4> QED BY <1>2, <4>1, <4>2
    <3>4. at' \in 1 .. H' - 1 /\ at' = on[i] /\ place' = to[i]
      BY <1>1, <2>1, <2>3, <3>1, <3>2
    <3>5. AtText(on, to)'
      <4>1. Onto(layers', jumps', H' - 1, at', place', on[i], to[i])
        BY <3>4 DEF Onto
      <4> QED BY <1>2, <3>2, <3>3, <3>4, <4>1 DEF AtText
    <3>6. Framed(lay, off)'
      BY <1>1, <3>1, FramedStays
    <3>7. at' \in Nat /\ place' \in Nat /\ pc' \in 0 .. Len(text) + 1
      BY <1>1, <1>3, <3>1
    <3> QED BY <3>1, <3>5, <3>6, <3>7, RunGoesOn DEF Where
  <2> QED BY <2>5, <2>6
<1> QED BY <1>4, <1>5
-----------------------------------------------------------------------------
LEMMA RunKeeps == ASSUME TextAssumption, RunInv PROVE InStep /\ (RunStep => RunInv')
<1>1. PICK lay, off, on, to : Running(lay, off, on, to)
  BY DEF RunInv
<1>2. Where(on, to)
  BY <1>1 DEF Running
<1>3. CASE AtStart
  BY <1>1, <1>3, StartCase
<1>4. CASE AtText(on, to)
  BY <1>1, <1>4, TextCase
<1>5. CASE AtEnd
  BY <1>1, <1>5, EndCase
<1>6. CASE Calling(on)
  BY <1>1, <1>6, CallingCase
<1>7. CASE Called(on)
  BY <1>1, <1>7, CalledCase
<1>8. CASE AtFault \/ AtReport
  BY <1>1, <1>8, FaultCase
<1>9. CASE AtReturn
  BY <1>1, <1>9, ReturnCase
<1> QED BY <1>2, <1>3, <1>4, <1>5, <1>6, <1>7, <1>8, <1>9 DEF Where

(* Nothing happens: the layers' run is where it was.                       *)
LEMMA RunRests == ASSUME RunInv, UNCHANGED vars PROVE RunInv'
<1>1. PICK lay, off, on, to : Running(lay, off, on, to)
  BY DEF RunInv
<1>2. UNCHANGED linkVars /\ UNCHANGED <<at, place, frames, stopped, pc, returns>>
  BY DEF vars, stepVars
<1>3. text' = text /\ layers' = layers /\ jumps' = jumps /\ labels' = labels /\ H' = H
  BY <1>2 DEF linkVars, H
<1>4. Real(pc)' = Real(pc)
  BY <1>2, <1>3 DEF Real, FirstOf, Does
<1>5. TextEvent' = TextEvent
  BY <1>2, <1>3 DEF TextEvent, Real, FirstOf, Does
<1>6. \A n : Place(n)' = Place(n)
  BY <1>3, PlaceStays
<1>7. Where(on, to)'
  <2>1. AtStart => AtStart'
    BY <1>2, <1>6 DEF AtStart
  <2>2. AtText(on, to) => AtText(on, to)'
    BY <1>2, <1>3, <1>4 DEF AtText
  <2>3. AtEnd => AtEnd'
    BY <1>2, <1>3, <1>4 DEF AtEnd
  <2>4. Calling(on) => Calling(on)'
    BY <1>2, <1>3, <1>4 DEF Calling
  <2>5. Called(on) => Called(on)'
    BY <1>2, <1>3, <1>6 DEF Called
  <2>6. (AtFault => AtFault') /\ (AtReturn => AtReturn') /\ (AtReport => AtReport')
    BY <1>2, <1>3, <1>5 DEF AtFault, AtReturn, AtReport
  <2>7. Where(on, to)
    BY <1>1 DEF Running
  <2> QED BY <2>1, <2>2, <2>3, <2>4, <2>5, <2>6, <2>7 DEF Where
<1>8. Framed(lay, off)'
  BY <1>1, <1>2, RunIs, FramedStays
<1>9. pc' \in 0 .. Len(text) + 1 /\ at' \in Nat /\ place' \in Nat
  BY <1>1, <1>2, RunIs
<1> QED BY <1>1, <1>2, <1>7, <1>8, <1>9, RunGoesOn

LEMMA TextRests == ASSUME TextInv, UNCHANGED vars PROVE TextInv'
<1>1. UNCHANGED <<text, layers, labels, data, weak, aliases, jumps, at, place, frames, stopped, returns>>
  BY DEF vars, linkVars, stepVars
<1>2. Tables'
  BY <1>1 DEF TextInv, Tables
<1>3. Idles'
  BY <1>1 DEF TextInv, Idles
<1>4. TextBuilt'
  BY <1>1 DEF TextInv, TextBuilt
<1> QED BY <1>2, <1>3, <1>4 DEF TextInv

LEMMA InitLinkInv == ASSUME TextAssumption, TextInit PROVE LinkInv
<1>1. phase = "text"
  BY DEF TextInit
<1> QED BY <1>1, InitText DEF LinkInv

LEMMA LinkInvKept == ASSUME TextAssumption, LinkInv, [TextNext]_vars PROVE LinkInv'
<1>1. phase \in {"text", "run", "refused", "rejected"}
  BY DEF LinkInv
<1>2. CASE Statement
  <2>1. phase = "text" /\ TextInv
    BY <1>2 DEF Statement, LinkInv
  <2>2. phase' = "refused" \/ (phase' = "text" /\ TextInv')
    BY <1>2, <2>1, StatementKeeps
  <2> QED BY <2>2 DEF LinkInv
<1>3. CASE FinishText
  <2>1. phase = "text" /\ TextInv
    BY <1>3 DEF FinishText, LinkInv
  <2>2. phase' = "rejected" \/ (phase' = "run" /\ RunInv')
    BY <1>3, <2>1, FinishKeeps
  <2> QED BY <2>2 DEF LinkInv
<1>4. CASE RunStep
  <2>1. phase = "run" /\ phase' = phase
    BY <1>4 DEF RunStep, RunItem, RunJump, RunOn, Stop
  <2>2. RunInv'
    BY <1>4, <2>1, RunKeeps DEF LinkInv
  <2> QED BY <2>1, <2>2 DEF LinkInv
<1>5. CASE UNCHANGED vars
  <2>1. phase' = phase
    BY <1>5 DEF vars
  <2>2. phase = "text" => TextInv'
    BY <1>5, TextRests DEF LinkInv
  <2>3. phase = "run" => RunInv'
    BY <1>5, RunRests DEF LinkInv
  <2> QED BY <1>1, <2>1, <2>2, <2>3 DEF LinkInv
<1> QED BY <1>2, <1>3, <1>4, <1>5 DEF TextNext, RunStep

(* A linked program runs in step with its text: copy_link.c's layers, with *)
(* the rows of the statements and the targets that link_image gives their  *)
(* jumps, do the operations, jumps, calls, returns and faults of the text, *)
(* in its order.                                                           *)
THEOREM ProgramInStep == ASSUME TextAssumption PROVE TextSpec => []InStep
<1>1. TextInit => LinkInv
  BY InitLinkInv
<1>2. LinkInv /\ [TextNext]_vars => LinkInv'
  BY LinkInvKept
<1>3. LinkInv => InStep
  <2>1. ASSUME LinkInv, phase = "run" PROVE InStep
    BY <2>1, RunKeeps DEF LinkInv
  <2>2. phase # "run" => InStep
    BY DEF InStep
  <2> QED BY <2>1, <2>2
<1> QED BY <1>1, <1>2, <1>3, PTL DEF TextSpec

-----------------------------------------------------------------------------
(* A name is resolved when what it stands for is known: the passes settle.  *)
Closed(g) == \A a \in DOMAIN aliases : aliases[a] \in DOMAIN g => a \in DOMAIN g

(* A pass over the aliases resolves one more of them, or none is left that *)
(* can be resolved.                                                        *)
LEMMA PassIs ==
  ASSUME NEW g
  PROVE  /\ DOMAIN g \subseteq DOMAIN AliasPass(g)
         /\ Closed(g) => DOMAIN AliasPass(g) = DOMAIN g
         /\ ~Closed(g) => \E a \in DOMAIN aliases : a \notin DOMAIN g /\ a \in DOMAIN AliasPass(g)
BY DEF AliasPass, Closed

LEMMA Settles ==
  ASSUME IsFiniteSet(DOMAIN aliases)
  PROVE  Closed(Resolved) /\ DOMAIN Known \subseteq DOMAIN Resolved
<1>1. PICK d \in Nat : d = Cardinality(DOMAIN aliases)
  BY FS_CardinalityType
<1>2. PICK g : /\ Resolved = g[d] /\ g[0] = Known
               /\ \A k \in 1 .. d : g[k] = AliasPass(g[k - 1])
  BY <1>1, PassesAre
<1> DEFINE Old(r) == DOMAIN g[r] \cap DOMAIN aliases
           Good(r) == r <= d => /\ DOMAIN Known \subseteq DOMAIN g[r]
                                /\ Closed(g[r]) \/ Cardinality(Old(r)) >= r
           S == {r \in Nat : Good(r)}
<1>3. \A r \in Nat : IsFiniteSet(Old(r)) /\ Cardinality(Old(r)) \in Nat
  BY FS_Subset, FS_CardinalityType
<1>4. 0 \in S
  BY <1>2, <1>3
<1>5. ASSUME NEW r \in Nat, r \in S PROVE r + 1 \in S
  <2> SUFFICES ASSUME r + 1 <= d PROVE Good(r + 1)
    OBVIOUS
  <2>1. g[r + 1] = AliasPass(g[r])
    <3>1. r + 1 \in 1 .. d /\ (r + 1) - 1 = r
      BY <1>1
    <3> QED BY <1>2, <3>1
  <2>2. DOMAIN Known \subseteq DOMAIN g[r] /\ (Closed(g[r]) \/ Cardinality(Old(r)) >= r)
    BY <1>1, <1>5
  <2>3. DOMAIN g[r] \subseteq DOMAIN g[r + 1]
    BY <2>1, PassIs
  <2>4. CASE Closed(g[r])
    <3>1. DOMAIN g[r + 1] = DOMAIN g[r]
      BY <2>1, <2>4, PassIs
    <3>2. Closed(g[r + 1])
      BY ONLY <2>4, <3>1 DEF Closed
    <3> QED BY <2>2, <3>1, <3>2
  <2>5. CASE ~Closed(g[r])
    <3>1. PICK a \in DOMAIN aliases : a \notin DOMAIN g[r] /\ a \in DOMAIN g[r + 1]
      BY <2>1, <2>5, PassIs
    <3>2. Old(r) \cup {a} \in SUBSET Old(r + 1) /\ a \notin Old(r)
      BY <2>3, <3>1
    <3> HIDE DEF Old
    <3>3. Cardinality(Old(r) \cup {a}) = Cardinality(Old(r)) + 1
      BY <1>3, <3>2, FS_AddElement
    <3>4. Cardinality(Old(r) \cup {a}) <= Cardinality(Old(r + 1))
      BY <1>3, <3>2, FS_Subset
    <3>5. Cardinality(Old(r + 1)) >= r + 1
      <4>1. Cardinality(Old(r)) \in Nat /\ Cardinality(Old(r + 1)) \in Nat
        BY <1>3
      <4>2. Cardinality(Old(r)) >= r
        BY <2>2, <2>5
      <4> QED BY ONLY <3>3, <3>4, <4>1, <4>2, r \in Nat
    <3> QED BY <2>2, <2>3, <3>5
  <2> QED BY <2>4, <2>5
<1> HIDE DEF Good
<1>6. Good(d)
  BY <1>4, <1>5, Induction
<1>7. CASE Cardinality(Old(d)) >= d
  <2>1. Old(d) \in SUBSET DOMAIN aliases
    OBVIOUS
  <2>2. Cardinality(Old(d)) <= d /\ (d = Cardinality(Old(d)) => DOMAIN aliases = Old(d))
    BY <1>1, <2>1, FS_Subset
  <2>3. DOMAIN aliases = Old(d)
    BY <1>1, <1>3, <1>7, <2>2
  <2> QED BY <1>1, <1>2, <1>6, <2>3 DEF Closed, Good
<1>8. CASE ~(Cardinality(Old(d)) >= d)
  BY <1>1, <1>2, <1>6, <1>8 DEF Good
<1> QED BY <1>7, <1>8

(* A name is resolved if what it stands for is known.                      *)
LEMMA ResolvedIs ==
  ASSUME TextAssumption, Tables, NEW n \in Names
  PROVE  /\ n \in DOMAIN Resolved <=> Stands(n) \in DOMAIN Known
         /\ n \in DOMAIN Resolved => Resolved[n] = Known[Stands(n)]
<1>1. Closed(Resolved) /\ DOMAIN Known \subseteq DOMAIN Resolved
  <2>1. DOMAIN aliases \subseteq Names /\ IsFiniteSet(Names)
    BY SetIs DEF TextAssumption
  <2> QED BY <2>1, FS_Subset, Settles
<1>2. PICK c \in Nat : c = Cardinality(Names)
  BY FS_CardinalityType DEF TextAssumption
<1>3. PICK f : /\ Roots = f[c] /\ f[0] = [m \in Names |-> m]
               /\ \A k \in 1 .. c : f[k] = Onward(f[k - 1])
  BY <1>2, RootsAre
<1>4. PICK g : g = Resolved
  OBVIOUS
<1> DEFINE Good(k) == k <= c => \A m \in Names : f[k][m] \in DOMAIN Known => m \in DOMAIN g
           S == {k \in Nat : Good(k)}
<1>5. 0 \in S
  BY <1>1, <1>3, <1>4
<1>6. ASSUME NEW k \in Nat, k \in S PROVE k + 1 \in S
  <2> SUFFICES ASSUME k + 1 <= c, NEW m \in Names, f[k + 1][m] \in DOMAIN Known
               PROVE  m \in DOMAIN g
    OBVIOUS
  <2>1. f[k + 1] = Onward(f[k])
    <3>1. k + 1 \in 1 .. c /\ (k + 1) - 1 = k
      BY <1>2
    <3> QED BY <1>3, <3>1
  <2>2. \A x \in Names : f[k][x] \in DOMAIN Known => x \in DOMAIN g
    BY <1>2, <1>6
  <2>3. CASE SetTo(m) = {}
    <3>1. f[k + 1][m] = m
      BY ONLY <2>1, <2>3, m \in Names DEF Onward
    <3> QED BY <1>1, <1>4, <3>1
  <2>4. CASE SetTo(m) # {}
    <3>1. m \in DOMAIN aliases /\ SetTo(m) = {aliases[m]}
      BY <2>4, SetIs
    <3>2. aliases[m] \in Names
      BY <3>1 DEF Tables, Named
    <3>3. f[k + 1][m] = f[k][aliases[m]]
      <4>1. (CHOOSE x \in SetTo(m) : TRUE) = aliases[m]
        BY <3>1
      <4> QED BY ONLY <2>1, <2>4, <4>1, m \in Names DEF Onward
    <3>4. aliases[m] \in DOMAIN g
      BY <2>2, <3>2, <3>3
    <3> QED BY <1>1, <1>4, <3>1, <3>4 DEF Closed
  <2> QED BY <2>3, <2>4
<1> HIDE DEF Good
<1>7. Good(c)
  BY <1>5, <1>6, Induction
<1>8. Stands(n) \in DOMAIN Known => n \in DOMAIN Resolved
  BY <1>2, <1>3, <1>4, <1>7 DEF Good, Stands
<1>9. n \in DOMAIN Resolved => Stands(n) \in DOMAIN Known /\ Resolved[n] = Known[Stands(n)]
  BY KnownIs
<1> QED BY <1>8, <1>9

-----------------------------------------------------------------------------
(* A text, as far as it decides whether it is refused.                     *)
Ending == {"jump", "ret", "trap"}
Jumping == {"branch", "jump", "ret", "trap"}
Naming == {"branch", "call", "jump"}
JumpsOf(s) == IF s[1] \in Jumping THEN 1 ELSE IF s[1] = "call" THEN 3 ELSE 0
CallsOf(s) == IF s[1] = "call" THEN 1 ELSE 0
AmongOf(t, kinds) == {i \in 1 .. Len(t) : t[i][1] \in kinds}
JumpsIn(t) == 1 + Cardinality(AmongOf(t, Jumping)) + 3 * Cardinality(AmongOf(t, {"call"}))
CallsIn(t) == Cardinality(AmongOf(t, {"call"}))
StaysCompared(s) == s[1] = "label" => s[2] \in Locals
ComparedIn(t, i) == \E k \in 1 .. (i - 1) : /\ t[k] = Cmp
                                            /\ \A j \in (k + 1) .. (i - 1) : StaysCompared(t[j])
IsCodeAt(s) == s[1] = "label" \/ Does(s)
EntersIn(t, i) == \E k \in 1 .. (i - 1) : /\ IsCodeAt(t[k]) /\ t[k][1] \notin Ending
                                          /\ \A j \in (k + 1) .. (i - 1) : ~IsCodeAt(t[j])
Stated(t, kinds) == {n \in Names : \E i \in 1 .. Len(t) : t[i][1] \in kinds /\ t[i][2] = n}
Giving == {"label", "data", "set"}

Well(t) ==
  /\ \A i, j \in 1 .. Len(t) : Gives(t[i]) /\ Gives(t[j]) /\ t[i][2] = t[j][2] => i = j
  /\ \A i \in 1 .. Len(t) : Does(t[i]) => EntersIn(t, i)
  /\ \A i \in 1 .. Len(t) : t[i][1] = "branch" => ComparedIn(t, i)
  /\ CallsIn(t) <= CallRoom
  /\ JumpsIn(t) <= JumpRoom

LEMMA StatedMore ==
  ASSUME NEW t \in Seq(Statements), NEW s \in Statements, NEW kinds
  PROVE  Stated(Append(t, s), kinds) =
           Stated(t, kinds) \cup (IF s[1] \in kinds THEN {s[2]} \cap Names ELSE {})
<1>1. PICK n \in Nat : n = Len(t)
  OBVIOUS
<1> DEFINE u == Append(t, s)
<1>2. Len(u) = n + 1 /\ u[n + 1] = s /\ \A i \in 1 .. n : u[i] = t[i]
  BY <1>1, MoreText
<1> HIDE DEF u
<1>3. \A i : i \in 1 .. n + 1 <=> i \in 1 .. n \/ i = n + 1
  BY <1>1
<1>4. ASSUME NEW m \in Names
      PROVE  m \in Stated(u, kinds) <=> m \in Stated(t, kinds) \/ (s[1] \in kinds /\ m = s[2])
  BY ONLY <1>1, <1>2, <1>3, <1>4 DEF Stated
<1>5. Stated(u, kinds) \subseteq Names /\ Stated(t, kinds) \subseteq Names
  BY DEF Stated
<1>6. Stated(u, kinds) =
        Stated(t, kinds) \cup (IF s[1] \in kinds THEN {s[2]} \cap Names ELSE {})
  BY <1>4, <1>5
<1> QED BY <1>6 DEF u

LEMMA AmongMore ==
  ASSUME NEW t \in Seq(Statements), NEW s \in Statements, NEW kinds
  PROVE  /\ Cardinality(AmongOf(t, kinds)) \in Nat
         /\ Cardinality(AmongOf(Append(t, s), kinds)) =
              Cardinality(AmongOf(t, kinds)) + (IF s[1] \in kinds THEN 1 ELSE 0)
<1>1. PICK n \in Nat : n = Len(t)
  OBVIOUS
<1> DEFINE u == Append(t, s)
<1>2. Len(u) = n + 1 /\ u[n + 1] = s /\ \A i \in 1 .. n : u[i] = t[i]
  BY <1>1, MoreText
<1> HIDE DEF u
<1>3. PICK A : A = AmongOf(t, kinds)
  OBVIOUS
<1>4. A \in SUBSET (1 .. n) /\ IsFiniteSet(1 .. n)
  BY <1>1, <1>3, FS_Interval DEF AmongOf
<1>5. IsFiniteSet(A) /\ Cardinality(A) \in Nat
  BY <1>4, FS_Subset, FS_CardinalityType
<1>6. \A i : i \in 1 .. n + 1 <=> i \in 1 .. n \/ i = n + 1
  BY <1>1
<1>7. AmongOf(u, kinds) = IF s[1] \in kinds THEN A \cup {n + 1} ELSE A
  <2>1. \A i : i \in AmongOf(u, kinds) <=> i \in A \/ (s[1] \in kinds /\ i = n + 1)
    BY ONLY <1>1, <1>2, <1>3, <1>6 DEF AmongOf
  <2> QED BY ONLY <2>1
<1>8. n + 1 \notin A
  BY <1>1, <1>4
<1>9. Cardinality(AmongOf(u, kinds)) = Cardinality(A) + (IF s[1] \in kinds THEN 1 ELSE 0)
  <2>1. Cardinality(A \cup {n + 1}) = Cardinality(A) + 1
    BY <1>5, <1>8, FS_AddElement
  <2> QED BY <1>5, <1>7, <2>1
<1> QED BY <1>3, <1>5, <1>9 DEF u

LEMMA JumpsMore ==
  ASSUME NEW t \in Seq(Statements), NEW s \in Statements
  PROVE  /\ JumpsIn(t) \in Nat /\ JumpsOf(s) \in Nat
         /\ JumpsIn(Append(t, s)) = JumpsIn(t) + JumpsOf(s)
<1>1. PICK a \in Nat : a = Cardinality(AmongOf(t, Jumping))
  BY AmongMore
<1>2. PICK b \in Nat : b = Cardinality(AmongOf(t, {"call"}))
  BY AmongMore
<1>3. Cardinality(AmongOf(Append(t, s), Jumping)) = a + (IF s[1] \in Jumping THEN 1 ELSE 0)
  BY <1>1, AmongMore
<1>4. Cardinality(AmongOf(Append(t, s), {"call"})) = b + (IF s[1] \in {"call"} THEN 1 ELSE 0)
  BY <1>2, AmongMore
<1>5. s[1] = "call" => s[1] \notin Jumping
  BY DEF Jumping
<1>6. JumpsIn(t) = 1 + a + 3 * b
  BY <1>1, <1>2 DEF JumpsIn
<1>7. JumpsIn(Append(t, s)) = 1 + (a + (IF s[1] \in Jumping THEN 1 ELSE 0))
                                + 3 * (b + (IF s[1] = "call" THEN 1 ELSE 0))
  BY <1>3, <1>4 DEF JumpsIn
<1>8. CASE s[1] \in Jumping
  <2>1. JumpsOf(s) = 1 /\ s[1] # "call"
    BY <1>5, <1>8 DEF JumpsOf
  <2>2. JumpsIn(Append(t, s)) = 1 + (a + 1) + 3 * (b + 0)
    BY <1>7, <1>8, <2>1
  <2> QED BY <1>6, <2>1, <2>2
<1>9. CASE s[1] = "call"
  <2>1. JumpsOf(s) = 3 /\ s[1] \notin Jumping
    BY <1>5, <1>9 DEF JumpsOf
  <2>2. JumpsIn(Append(t, s)) = 1 + (a + 0) + 3 * (b + 1)
    BY <1>7, <1>9, <2>1
  <2> QED BY <1>6, <2>1, <2>2
<1>10. CASE s[1] \notin Jumping /\ s[1] # "call"
  <2>1. JumpsOf(s) = 0
    BY <1>10 DEF JumpsOf
  <2>2. JumpsIn(Append(t, s)) = 1 + (a + 0) + 3 * (b + 0)
    BY <1>7, <1>10
  <2> QED BY <1>6, <2>1, <2>2
<1> QED BY <1>8, <1>9, <1>10

LEMMA EntersMore ==
  ASSUME NEW t \in Seq(Statements), NEW s \in Statements
  PROVE  /\ \A i \in 1 .. Len(t) + 1 : EntersIn(Append(t, s), i) <=> EntersIn(t, i)
         /\ EntersIn(Append(t, s), Len(t) + 2) <=>
              IF IsCodeAt(s) THEN s[1] \notin Ending ELSE EntersIn(t, Len(t) + 1)
<1>1. PICK n \in Nat : n = Len(t)
  OBVIOUS
<1> DEFINE u == Append(t, s)
<1>2. Len(u) = n + 1 /\ u[n + 1] = s /\ \A i \in 1 .. n : u[i] = t[i]
  BY <1>1, MoreText
<1> HIDE DEF u
<1>3. ASSUME NEW i \in 1 .. n + 1 PROVE EntersIn(u, i) <=> EntersIn(t, i)
  <2>1. \A k \in 1 .. (i - 1) : u[k] = t[k] /\ \A j \in (k + 1) .. (i - 1) : u[j] = t[j]
    <3>1. \A k \in 1 .. (i - 1) : k \in 1 .. n /\ \A j \in (k + 1) .. (i - 1) : j \in 1 .. n
      BY <1>1
    <3> QED BY <1>2, <3>1
  <2> QED BY ONLY <2>1 DEF EntersIn, IsCodeAt, Does
<1>4. EntersIn(u, n + 2) <=> IF IsCodeAt(s) THEN s[1] \notin Ending ELSE EntersIn(t, n + 1)
  <2>1. (n + 2) - 1 = n + 1 /\ (n + 1) - 1 = n /\ n + 1 \in 1 .. n + 1
    BY <1>1
  <2>2. CASE IsCodeAt(s)
    <3>1. ASSUME EntersIn(u, n + 2) PROVE s[1] \notin Ending
      <4>1. PICK k \in 1 .. n + 1 : /\ u[k][1] \notin Ending
                                    /\ \A j \in (k + 1) .. n + 1 : ~IsCodeAt(u[j])
        BY <2>1, <3>1 DEF EntersIn
      <4>2. CASE k = n + 1
        BY <1>2, <4>1, <4>2
      <4>3. CASE k # n + 1
        <5>1. n + 1 \in (k + 1) .. n + 1
          BY <1>1, <4>3
        <5> QED BY <1>2, <2>2, <4>1, <5>1
      <4> QED BY <4>2, <4>3
    <3>2. ASSUME s[1] \notin Ending PROVE EntersIn(u, n + 2)
      <4>1. \A j \in ((n + 1) + 1) .. (n + 2) - 1 : FALSE
        BY <1>1
      <4>2. n + 1 \in 1 .. (n + 2) - 1
        BY <1>1
      <4> QED BY <1>2, <2>2, <3>2, <4>1, <4>2 DEF EntersIn
    <3> QED BY <2>2, <3>1, <3>2
  <2>3. CASE ~IsCodeAt(s)
    <3>1. ASSUME EntersIn(u, n + 2) PROVE EntersIn(t, n + 1)
      <4>1. PICK k \in 1 .. n + 1 : /\ IsCodeAt(u[k]) /\ u[k][1] \notin Ending
                                    /\ \A j \in (k + 1) .. n + 1 : ~IsCodeAt(u[j])
        BY <2>1, <3>1 DEF EntersIn
      <4>2. k \in 1 .. n
        <5>1. k # n + 1
          BY <1>2, <2>3, <4>1
        <5> QED BY <1>1, <5>1
      <4>3. \A j \in (k + 1) .. n : j \in 1 .. n /\ j \in (k + 1) .. n + 1
        BY <1>1, <4>2
      <4>4. \A j \in (k + 1) .. n : ~IsCodeAt(t[j])
        BY <1>2, <4>1, <4>3
      <4>5. IsCodeAt(t[k]) /\ t[k][1] \notin Ending
        BY <1>2, <4>1, <4>2
      <4> QED BY <2>1, <4>2, <4>4, <4>5 DEF EntersIn
    <3>2. ASSUME EntersIn(t, n + 1) PROVE EntersIn(u, n + 2)
      <4>1. PICK k \in 1 .. n : /\ IsCodeAt(t[k]) /\ t[k][1] \notin Ending
                                /\ \A j \in (k + 1) .. n : ~IsCodeAt(t[j])
        BY <2>1, <3>2 DEF EntersIn
      <4>2. ASSUME NEW j \in (k + 1) .. n + 1 PROVE ~IsCodeAt(u[j])
        <5>1. j = n + 1 \/ (j \in (k + 1) .. n /\ j \in 1 .. n)
          BY <1>1, <4>2
        <5> QED BY <1>2, <2>3, <4>1, <5>1
      <4>3. k \in 1 .. n + 1 /\ IsCodeAt(u[k]) /\ u[k][1] \notin Ending
        BY <1>1, <1>2, <4>1
      <4> QED BY <2>1, <4>2, <4>3 DEF EntersIn
    <3> QED BY <2>3, <3>1, <3>2
  <2> QED BY <2>2, <2>3
<1> QED BY <1>1, <1>3, <1>4 DEF u

LEMMA CallsMore ==
  ASSUME NEW t \in Seq(Statements), NEW s \in Statements
  PROVE  /\ CallsIn(t) \in Nat /\ CallsOf(s) \in Nat
         /\ CallsIn(Append(t, s)) = CallsIn(t) + CallsOf(s)
<1>1. /\ Cardinality(AmongOf(t, {"call"})) \in Nat
      /\ Cardinality(AmongOf(Append(t, s), {"call"})) =
           Cardinality(AmongOf(t, {"call"})) + (IF s[1] \in {"call"} THEN 1 ELSE 0)
  BY AmongMore
<1>2. CallsOf(s) = IF s[1] \in {"call"} THEN 1 ELSE 0
  BY DEF CallsOf
<1> QED BY <1>1, <1>2 DEF CallsIn

LEMMA ComparedMore ==
  ASSUME NEW t \in Seq(Statements), NEW s \in Statements
  PROVE  /\ \A i \in 1 .. Len(t) + 1 : ComparedIn(Append(t, s), i) <=> ComparedIn(t, i)
         /\ ComparedIn(Append(t, s), Len(t) + 2) <=>
              s = Cmp \/ (ComparedIn(t, Len(t) + 1) /\ StaysCompared(s))
<1>1. PICK n \in Nat : n = Len(t)
  OBVIOUS
<1> DEFINE u == Append(t, s)
<1>2. Len(u) = n + 1 /\ u[n + 1] = s /\ \A i \in 1 .. n : u[i] = t[i]
  BY <1>1, MoreText
<1> HIDE DEF u
<1>3. ASSUME NEW i \in 1 .. n + 1 PROVE ComparedIn(u, i) <=> ComparedIn(t, i)
  <2>1. \A k \in 1 .. (i - 1) : u[k] = t[k] /\ \A j \in (k + 1) .. (i - 1) : u[j] = t[j]
    <3>1. \A k \in 1 .. (i - 1) : k \in 1 .. n /\ \A j \in (k + 1) .. (i - 1) : j \in 1 .. n
      BY <1>1
    <3> QED BY <1>2, <3>1
  <2> QED BY ONLY <2>1 DEF ComparedIn, StaysCompared
<1>4. (n + 2) - 1 = n + 1 /\ (n + 1) - 1 = n /\ n + 1 \in 1 .. n + 1
  BY <1>1
<1>5. ASSUME ComparedIn(u, n + 2) PROVE s = Cmp \/ (ComparedIn(t, n + 1) /\ StaysCompared(s))
  <2>1. PICK k \in 1 .. n + 1 : /\ u[k] = Cmp
                                /\ \A j \in (k + 1) .. n + 1 : StaysCompared(u[j])
    BY <1>4, <1>5 DEF ComparedIn
  <2>2. CASE k = n + 1
    BY <1>2, <2>1, <2>2
  <2>3. CASE k # n + 1
    <3>1. /\ n + 1 \in (k + 1) .. n + 1 /\ k \in 1 .. n
          /\ \A j \in (k + 1) .. n : j \in 1 .. n /\ j \in (k + 1) .. n + 1
      BY <1>1, <2>3
    <3>2. StaysCompared(s) /\ t[k] = Cmp /\ \A j \in (k + 1) .. n : StaysCompared(t[j])
      BY <1>2, <2>1, <3>1
    <3> QED BY <1>4, <3>1, <3>2 DEF ComparedIn
  <2> QED BY <2>2, <2>3
<1>6. ASSUME s = Cmp PROVE ComparedIn(u, n + 2)
  <2>1. /\ \A j \in ((n + 1) + 1) .. (n + 2) - 1 : FALSE
        /\ n + 1 \in 1 .. (n + 2) - 1
    BY <1>1
  <2> QED BY <1>2, <1>6, <2>1 DEF ComparedIn
<1>7. ASSUME ComparedIn(t, n + 1), StaysCompared(s) PROVE ComparedIn(u, n + 2)
  <2>1. PICK k \in 1 .. n : t[k] = Cmp /\ \A j \in (k + 1) .. n : StaysCompared(t[j])
    BY <1>4, <1>7 DEF ComparedIn
  <2>2. ASSUME NEW j \in (k + 1) .. n + 1 PROVE StaysCompared(u[j])
    <3>1. j = n + 1 \/ (j \in (k + 1) .. n /\ j \in 1 .. n)
      BY <1>1, <2>2
    <3> QED BY <1>2, <1>7, <2>1, <3>1
  <2>3. k \in 1 .. n + 1 /\ u[k] = Cmp
    BY <1>1, <1>2, <2>1
  <2> QED BY <1>4, <2>2, <2>3 DEF ComparedIn
<1> QED BY <1>1, <1>3, <1>5, <1>6, <1>7 DEF u

LEMMA WellMore ==
  ASSUME TextAssumption, NEW t \in Seq(Statements), NEW s \in Statements, Well(t)
  PROVE  Well(Append(t, s)) <=> /\ Gives(s) => s[2] \notin Stated(t, Giving)
                                /\ Does(s) => EntersIn(t, Len(t) + 1)
                                /\ s[1] = "branch" => ComparedIn(t, Len(t) + 1)
                                /\ CallsIn(t) + CallsOf(s) <= CallRoom
                                /\ JumpsIn(t) + JumpsOf(s) <= JumpRoom
<1>1. PICK n \in Nat : n = Len(t)
  OBVIOUS
<1> DEFINE u == Append(t, s)
<1>2. Len(u) = n + 1 /\ u[n + 1] = s /\ \A i \in 1 .. n : u[i] = t[i]
  BY <1>1, MoreText
<1>3. /\ JumpsIn(u) = JumpsIn(t) + JumpsOf(s) /\ CallsIn(u) = CallsIn(t) + CallsOf(s)
      /\ \A i \in 1 .. n + 1 : EntersIn(u, i) <=> EntersIn(t, i)
      /\ \A i \in 1 .. n + 1 : ComparedIn(u, i) <=> ComparedIn(t, i)
  BY <1>1, JumpsMore, CallsMore, EntersMore, ComparedMore
<1> HIDE DEF u
<1>4. \A i : i \in 1 .. n + 1 <=> i \in 1 .. n \/ i = n + 1
  BY <1>1
<1>5. \A i : i \in 1 .. n => i # n + 1
  BY <1>1
<1>6. Gives(s) => s[2] \in Names
  BY StatementIs DEF Gives
<1>7. /\ \A i, j \in 1 .. n : Gives(t[i]) /\ Gives(t[j]) /\ t[i][2] = t[j][2] => i = j
      /\ \A i \in 1 .. n : Does(t[i]) => EntersIn(t, i)
      /\ \A i \in 1 .. n : t[i][1] = "branch" => ComparedIn(t, i)
  BY <1>1 DEF Well
<1> DEFINE Once == \A i, j \in 1 .. n + 1 : Gives(u[i]) /\ Gives(u[j]) /\ u[i][2] = u[j][2] => i = j
           New == \A i \in 1 .. n : ~(Gives(s) /\ Gives(t[i]) /\ t[i][2] = s[2])
<1>8. Once <=> New
  <2>1. ASSUME Once, NEW i \in 1 .. n PROVE ~(Gives(s) /\ Gives(t[i]) /\ t[i][2] = s[2])
    <3>1. i \in 1 .. n + 1 /\ n + 1 \in 1 .. n + 1 /\ i # n + 1
      BY <1>4, <1>5
    <3> QED BY <1>2, <2>1, <3>1
  <2>2. ASSUME New, NEW i \in 1 .. n + 1, NEW j \in 1 .. n + 1, Gives(u[i]), Gives(u[j]), u[i][2] = u[j][2]
        PROVE  i = j
    <3>1. CASE i \in 1 .. n /\ j \in 1 .. n
      BY <1>2, <1>7, <2>2, <3>1
    <3>2. CASE i \in 1 .. n /\ j = n + 1
      BY <1>2, <2>2, <3>2
    <3>3. CASE i = n + 1 /\ j \in 1 .. n
      <4>1. Gives(s) /\ Gives(t[j]) /\ t[j][2] = s[2]
        BY <1>2, <2>2, <3>3
      <4> QED BY <2>2, <3>3, <4>1
    <3> QED BY <1>4, <3>1, <3>2, <3>3
  <2> QED BY <2>1, <2>2
<1>9. New <=> (Gives(s) => s[2] \notin Stated(t, Giving))
  BY <1>1, <1>6 DEF Stated, Giving, Gives
<1>10. (\A i \in 1 .. n + 1 : Does(u[i]) => EntersIn(u, i)) <=> (Does(s) => EntersIn(t, n + 1))
  <2>1. ASSUME NEW i \in 1 .. n PROVE Does(u[i]) => EntersIn(u, i)
    BY <1>2, <1>3, <1>4, <1>7
  <2>2. n + 1 \in 1 .. n + 1
    BY <1>4
  <2>3. EntersIn(u, n + 1) <=> EntersIn(t, n + 1)
    BY <1>3, <2>2
  <2> QED BY <1>2, <1>4, <2>1, <2>2, <2>3
<1>11. (\A i \in 1 .. n + 1 : u[i][1] = "branch" => ComparedIn(u, i))
         <=> (s[1] = "branch" => ComparedIn(t, n + 1))
  <2>1. ASSUME NEW i \in 1 .. n PROVE u[i][1] = "branch" => ComparedIn(u, i)
    BY <1>2, <1>3, <1>4, <1>7
  <2>2. n + 1 \in 1 .. n + 1
    BY <1>4
  <2>3. ComparedIn(u, n + 1) <=> ComparedIn(t, n + 1)
    BY <1>3, <2>2
  <2> QED BY <1>2, <1>4, <2>1, <2>2, <2>3
<1> HIDE DEF Once, New
<1>12. Well(u) <=> /\ Once
                   /\ \A i \in 1 .. n + 1 : Does(u[i]) => EntersIn(u, i)
                   /\ \A i \in 1 .. n + 1 : u[i][1] = "branch" => ComparedIn(u, i)
                   /\ CallsIn(u) <= CallRoom
                   /\ JumpsIn(u) <= JumpRoom
  BY <1>2 DEF Well, Once
<1>13. Well(u) <=> /\ Gives(s) => s[2] \notin Stated(t, Giving)
                   /\ Does(s) => EntersIn(t, Len(t) + 1)
                   /\ s[1] = "branch" => ComparedIn(t, Len(t) + 1)
                   /\ CallsIn(t) + CallsOf(s) <= CallRoom
                   /\ JumpsIn(t) + JumpsOf(s) <= JumpRoom
  BY ONLY <1>1, <1>3, <1>8, <1>9, <1>10, <1>11, <1>12
<1> QED BY <1>13 DEF u

-----------------------------------------------------------------------------
(* The names that the jumps J lead to.                                     *)
Lists(J) == {n \in Names : \E j \in Range(J) : j.name = n}

LEMMA ExitIs ==
  ASSUME NEW l \in Nat, NEW sort \in Sorts, NEW name \in Names \cup {Return, MemoryFault, Report}
  PROVE  Exit(l, sort, name) \in Leaving /\ Exit(l, sort, name).name = name
BY DEF Exit, Leaving

LEMMA ListsMore ==
  ASSUME NEW J \in Seq(Leaving), NEW x \in Leaving, NEW K, K = Append(J, x)
  PROVE  /\ K \in Seq(Leaving) /\ Len(K) = Len(J) + 1
         /\ Lists(K) = Lists(J) \cup ({x.name} \cap Names)
         /\ x.name \in Names => Lists(K) = Lists(J) \cup {x.name}
         /\ x.name \notin Names => Lists(K) = Lists(J)
<1>1. \A j : j \in Range(K) <=> j \in Range(J) \/ j = x
  BY RangeMore
<1>2. \A n \in Names : n \in Lists(K) <=> n \in Lists(J) \/ n = x.name
  BY ONLY <1>1 DEF Lists
<1>3. Lists(K) = Lists(J) \cup ({x.name} \cap Names)
  BY <1>2 DEF Lists
<1> QED BY <1>3

(* What the linker takes, and what it has then taken down.                 *)
OK(s) == /\ Gives(s) => s[2] \notin TakenNames
         /\ Does(s) => Reached
         /\ s[1] = "branch" => compared
         /\ callCount + CallsOf(s) <= CallRoom
         /\ Len(jumps) + JumpsOf(s) <= JumpRoom

(* What was taken had room.                                                *)
Fits == Len(jumps) <= JumpRoom /\ callCount \in Nat /\ callCount <= CallRoom

Of(s, kinds) == IF s[1] \in kinds THEN {s[2]} ELSE {}

Took(s) ==
  /\ phase' = "text"
  /\ Len(jumps') = Len(jumps) + JumpsOf(s) /\ Lists(jumps') = Lists(jumps) \cup Of(s, Naming)
  /\ DOMAIN labels' = DOMAIN labels \cup Of(s, {"label"})
  /\ data' = data \cup Of(s, {"data"}) /\ weak' = weak \cup Of(s, {"weak"})
  /\ DOMAIN aliases' = DOMAIN aliases \cup Of(s, {"set"})
  /\ Reached' <=> IF IsCodeAt(s) THEN s[1] \notin Ending ELSE Reached
  /\ callCount' = callCount + CallsOf(s)
  /\ compared' <=> s = Cmp \/ (compared /\ StaysCompared(s))
  /\ entered => entered'
  /\ s[1] \notin {"ret", "trap"} => (ended' <=> ended)
  /\ s[1] \in {"ret", "trap"} => ended'

Answered(s) == (phase' = "refused" /\ ~OK(s)) \/ (OK(s) /\ Took(s))

LEMMA TakesLabel ==
  ASSUME NEW s \in Statements, phase = "text", Len(jumps) \in Nat, Fits,
         Work = R(layers, jumps, labels), s[1] = "label", Label(s[2])
  PROVE  Answered(s)
<1>1. /\ Gives(s) /\ ~Does(s) /\ JumpsOf(s) = 0 /\ IsCodeAt(s)
      /\ CallsOf(s) = 0 /\ s[1] # "branch" /\ s # Cmp
  BY DEF Gives, Does, JumpsOf, Jumping, IsCodeAt, CallsOf, Cmp
<1>2. CASE s[2] \in TakenNames
  BY <1>1, <1>2 DEF Label, Refuse, Answered, OK
<1>3. CASE s[2] \notin TakenNames
  <2> DEFINE w == IF Places(layers[Here]) = 0 THEN Work ELSE Opened(Work)
  <2>1. /\ Becomes(Marked(w, s[2])) /\ UNCHANGED <<phase, data, weak, aliases, ended>>
        /\ entered' = TRUE /\ terminated' = FALSE /\ Forgets(s[2])
    BY <1>3 DEF Label
  <2>2. PICK M : w = R(M, jumps, labels)
    BY OpenedIs
  <2> HIDE DEF w
  <2>3. Marked(w, s[2]) = R(M, jumps, With(labels, s[2], Len(M)))
    BY <2>2, WorkIs
  <2>4. jumps' = jumps /\ labels' = With(labels, s[2], Len(M))
    BY <2>1, <2>3 DEF Becomes, R
  <2>5. DOMAIN labels' = DOMAIN labels \cup {s[2]}
    BY ONLY <2>4 DEF With
  <2>6. OK(s)
    BY <1>1, <1>3 DEF OK, Fits
  <2>7. Reached' <=> TRUE
    BY <2>1 DEF Reached
  <2>8. /\ Of(s, Naming) = {} /\ Of(s, {"label"}) = {s[2]} /\ Of(s, {"data"}) = {}
        /\ Of(s, {"weak"}) = {} /\ Of(s, {"set"}) = {} /\ s[1] \notin Ending
        /\ s[1] \notin {"ret", "trap"}
    BY DEF Of, Naming, Ending
  <2>9. Len(jumps') = Len(jumps) + JumpsOf(s) /\ Lists(jumps') = Lists(jumps) \cup Of(s, Naming)
    BY <1>1, <2>4, <2>8
  <2>10. entered' /\ (ended' <=> ended)
    BY <2>1
  <2>11. Reached' <=> IF IsCodeAt(s) THEN s[1] \notin Ending ELSE Reached
    BY <1>1, <2>7, <2>8
  <2>12. /\ data' = data \cup Of(s, {"data"}) /\ weak' = weak \cup Of(s, {"weak"})
         /\ DOMAIN aliases' = DOMAIN aliases \cup Of(s, {"set"}) /\ phase' = "text"
         /\ DOMAIN labels' = DOMAIN labels \cup Of(s, {"label"})
    BY <2>1, <2>5, <2>8
  <2>13. /\ callCount' = callCount + CallsOf(s)
         /\ compared' <=> s = Cmp \/ (compared /\ StaysCompared(s))
    <3>1. callCount' = callCount + CallsOf(s)
      BY <1>1, <2>1 DEF Forgets, Fits
    <3>2. compared' <=> compared /\ s[2] \in Locals
      BY ONLY <2>1 DEF Forgets
    <3>3. StaysCompared(s) <=> s[2] \in Locals
      BY DEF StaysCompared
    <3> QED BY <1>1, <3>1, <3>2, <3>3
  <2>14. Took(s)
    BY ONLY <2>8, <2>9, <2>10, <2>11, <2>12, <2>13 DEF Took
  <2> QED BY <2>6, <2>14 DEF Answered
<1> QED BY <1>2, <1>3

(* A statement that names something and has no rows.                       *)
LEMMA TakesQuiet ==
  ASSUME NEW s \in Statements, phase = "text", Len(jumps) \in Nat, Fits,
         \/ s[1] = "set" /\ Alias(s[2], s[3])
         \/ s[1] = "data" /\ Data(s[2])
         \/ s[1] = "weak" /\ Weak(s[2])
  PROVE  Answered(s)
<1>1. /\ ~Does(s) /\ JumpsOf(s) = 0 /\ ~IsCodeAt(s)
      /\ CallsOf(s) = 0 /\ s[1] # "branch" /\ s # Cmp /\ StaysCompared(s)
  BY DEF Does, JumpsOf, Jumping, IsCodeAt, CallsOf, Cmp, StaysCompared
<1>2. Of(s, Naming) = {} /\ Of(s, {"label"}) = {} /\ s[1] \notin {"ret", "trap"}
  BY DEF Of, Naming
<1>3. CASE s[1] # "weak" /\ s[2] \in TakenNames
  BY <1>3 DEF Alias, Data, Refuse, Answered, OK, Gives
<1>4. CASE s[1] = "weak" \/ s[2] \notin TakenNames
  <2>1. OK(s)
    BY <1>1, <1>4 DEF OK, Gives, Fits
  <2>2. UNCHANGED <<phase, labels, jumps, compared, callCount, entered, terminated, ended>>
    BY <1>4 DEF Alias, Data, Weak, compareVars
  <2>3. Reached' <=> Reached
    BY <2>2 DEF Reached
  <2>4. /\ data' = data \cup Of(s, {"data"}) /\ weak' = weak \cup Of(s, {"weak"})
        /\ DOMAIN aliases' = DOMAIN aliases \cup Of(s, {"set"})
    <3>1. CASE s[1] = "set"
      <4>1. aliases' = With(aliases, s[2], s[3]) /\ UNCHANGED <<data, weak>>
        BY <1>4, <3>1 DEF Alias
      <4>2. DOMAIN aliases' = DOMAIN aliases \cup {s[2]}
        BY ONLY <4>1 DEF With
      <4> QED BY <3>1, <4>1, <4>2 DEF Of
    <3>2. CASE s[1] = "data"
      BY <1>4, <3>2 DEF Data, Of
    <3>3. CASE s[1] = "weak"
      BY <1>4, <3>3 DEF Weak, Of
    <3> QED BY <3>1, <3>2, <3>3
  <2>5. Len(jumps') = Len(jumps) + JumpsOf(s) /\ Lists(jumps') = Lists(jumps) \cup Of(s, Naming)
    BY <1>1, <1>2, <2>2
  <2>6. (entered => entered') /\ (ended' <=> ended) /\ phase' = "text"
    BY <2>2
  <2>7. Reached' <=> IF IsCodeAt(s) THEN s[1] \notin Ending ELSE Reached
    BY <1>1, <2>3
  <2>8. DOMAIN labels' = DOMAIN labels \cup Of(s, {"label"})
    BY <1>2, <2>2
  <2>9. /\ callCount' = callCount + CallsOf(s)
        /\ compared' <=> s = Cmp \/ (compared /\ StaysCompared(s))
    BY <1>1, <2>2 DEF Fits
  <2>10. Took(s)
    BY ONLY <1>2, <2>4, <2>5, <2>6, <2>7, <2>8, <2>9 DEF Took
  <2> QED BY <2>1, <2>10 DEF Answered
<1> QED BY <1>3, <1>4

(* A statement that does something.                                        *)
LEMMA TakesRows ==
  ASSUME NEW s \in Statements, phase = "text", Does(s), OK(s),
         UNCHANGED <<phase, labels, data, weak, aliases, entered>>,
         Len(jumps') = Len(jumps) + JumpsOf(s), Lists(jumps') = Lists(jumps) \cup Of(s, Naming),
         s[1] \notin Ending => UNCHANGED <<terminated, ended>>,
         s[1] \in Ending => terminated' = TRUE,
         s[1] = "jump" => (ended' <=> ended),
         s[1] \in {"ret", "trap"} => ended',
         callCount' = callCount + CallsOf(s), compared' <=> s = Cmp \/ compared
  PROVE  Answered(s)
<1>1. Reached
  BY DEF OK
<1>2. IsCodeAt(s) /\ Of(s, {"label"}) = {} /\ Of(s, {"data"}) = {} /\ Of(s, {"weak"}) = {}
      /\ Of(s, {"set"}) = {}
  BY DEF IsCodeAt, Does, Of
<1>3. Reached' <=> s[1] \notin Ending
  BY <1>1 DEF Reached
<1>4. s[1] \notin {"ret", "trap"} => (ended' <=> ended)
  <2>1. s[1] \notin {"ret", "trap"} => s[1] = "jump" \/ s[1] \notin Ending
    BY DEF Ending
  <2> QED BY <2>1
<1>5. /\ DOMAIN labels' = DOMAIN labels \cup Of(s, {"label"})
      /\ data' = data \cup Of(s, {"data"}) /\ weak' = weak \cup Of(s, {"weak"})
      /\ DOMAIN aliases' = DOMAIN aliases \cup Of(s, {"set"})
  BY <1>2
<1>6. Reached' <=> IF IsCodeAt(s) THEN s[1] \notin Ending ELSE Reached
  BY <1>2, <1>3
<1>7. (entered => entered') /\ phase' = "text"
  OBVIOUS
<1>8. compared' <=> s = Cmp \/ (compared /\ StaysCompared(s))
  BY DEF StaysCompared, Does
<1>9. Took(s)
  BY ONLY <1>4, <1>5, <1>6, <1>7, <1>8, callCount' = callCount + CallsOf(s), s[1] \in {"ret", "trap"} => ended',
     Len(jumps') = Len(jumps) + JumpsOf(s), Lists(jumps') = Lists(jumps) \cup Of(s, Naming)
     DEF Took
<1> QED BY <1>9 DEF Answered

LEMMA TakesCompute ==
  ASSUME TextAssumption, TextInv, NEW s \in Statements, phase = "text", Fits,
         s[1] = "op", Compute(s)
  PROVE  Answered(s)
<1>1. /\ Does(s) /\ ~Gives(s) /\ JumpsOf(s) = 0 /\ Of(s, Naming) = {} /\ s[1] \notin Ending
      /\ CallsOf(s) = 0 /\ s[1] # "branch"
  BY DEF Does, Gives, JumpsOf, Jumping, Of, Naming, Ending, CallsOf
<1>2. Layed(layers, jumps) /\ Work = R(layers, jumps, labels) /\ Len(jumps) \in Nat
  BY TextNow DEF Layed
<1>3. CASE ~Reached
  BY <1>1, <1>3 DEF Compute, Refuse, Answered, OK
<1>4. CASE Reached
  <2>1. /\ Plain(Item(Roomy(Work, 1), s)) /\ callCount' = callCount
        /\ compared' <=> s = Cmp \/ compared
    BY <1>4 DEF Compute
  <2>2. Item(Roomy(Work, 1), s) = R(Filled(Fresh(layers, 1), s), jumps, labels)
    BY <1>2, WorkIs
  <2>3. jumps' = jumps /\ labels' = labels
        /\ UNCHANGED <<phase, data, weak, aliases, entered, terminated, ended>>
    BY <2>1, <2>2 DEF Plain, Becomes, R
  <2>4. OK(s)
    BY <1>1, <1>2, <1>4 DEF OK, Fits
  <2>5. Len(jumps') = Len(jumps) + JumpsOf(s) /\ Lists(jumps') = Lists(jumps) \cup Of(s, Naming)
    BY <1>1, <1>2, <2>3
  <2>6. UNCHANGED <<phase, labels, data, weak, aliases, entered>>
    BY <2>3
  <2>7. UNCHANGED <<terminated, ended>> /\ s[1] # "jump" /\ s[1] \notin {"ret", "trap"}
    BY <2>3
  <2>8. callCount' = callCount + CallsOf(s)
    BY <1>1, <2>1 DEF Fits
  <2> QED BY <1>1, <2>1, <2>4, <2>5, <2>6, <2>7, <2>8, TakesRows
<1> QED BY <1>3, <1>4

LEMMA TakesLeaving ==
  ASSUME TextAssumption, TextInv, NEW s \in Statements, phase = "text", Fits,
         \/ s[1] = "branch" /\ BranchTo(s[2])
         \/ s[1] = "jump" /\ Final("jump", s[2])
         \/ s[1] = "ret" /\ Final("return", Return)
         \/ s[1] = "trap" /\ Final("trap", MemoryFault)
  PROVE  Answered(s)
<1>1. Does(s) /\ ~Gives(s) /\ JumpsOf(s) = 1 /\ CallsOf(s) = 0 /\ s # Cmp
  BY DEF Does, Gives, JumpsOf, Jumping, CallsOf, Cmp
<1>2. /\ Layed(layers, jumps) /\ Work = R(layers, jumps, labels) /\ Len(jumps) \in Nat
      /\ jumps \in Seq(Leaving) /\ JumpRoom \in Nat
  BY TextNow DEF Layed, TextAssumption
<1>3. OK(s) <=> Reached /\ (s[1] = "branch" => compared) /\ ~Full
  BY <1>1, <1>2 DEF OK, Full, Fits
<1>4. CASE ~(Reached /\ (s[1] = "branch" => compared) /\ ~Full)
  BY <1>3, <1>4 DEF BranchTo, Final, Refuse, Answered
<1>5. CASE Reached /\ (s[1] = "branch" => compared) /\ ~Full
  <2>1. /\ Return \notin Names /\ MemoryFault \notin Names
        /\ s[1] \in {"branch", "jump"} => s[2] \in Names
    BY StatementIs DEF TextAssumption
  <2>2. PICK L, sort, name :
          /\ L \in {layers, Fresh(layers, 2)} /\ sort \in Sorts
          /\ name \in Names \cup {Return, MemoryFault, Report}
          /\ {name} \cap Names = Of(s, Naming)
          /\ Becomes(Depart(R(L, jumps, labels), sort, name))
          /\ UNCHANGED <<phase, data, weak, aliases, entered>>
          /\ s[1] \notin Ending => UNCHANGED <<terminated, ended>>
          /\ s[1] \in Ending => terminated' = TRUE
          /\ s[1] = "jump" => (ended' <=> ended)
          /\ s[1] \in {"ret", "trap"} => ended'
    <3>1. CASE s[1] = "branch"
      <4>1. Plain(Depart(Roomy(Work, 2), "branch", s[2]))
        BY <1>5, <3>1 DEF BranchTo, Ending
      <4>2. Roomy(Work, 2) = R(Fresh(layers, 2), jumps, labels)
        BY <1>2, WorkIs
      <4>3. "branch" \in Sorts /\ s[2] \in Names /\ {s[2]} \cap Names = Of(s, Naming)
        BY <2>1, <3>1 DEF Sorts, Of, Naming
      <4>4. s[1] \notin Ending /\ s[1] \notin {"ret", "trap"}
        BY <3>1 DEF Ending
      <4> QED BY <4>1, <4>2, <4>3, <4>4 DEF Plain
    <3>2. CASE s[1] = "jump"
      <4>1. /\ Becomes(Depart(Work, "jump", s[2])) /\ terminated' = TRUE
            /\ ended' = (ended \/ "jump" # "jump")
            /\ UNCHANGED <<phase, data, weak, aliases, entered>>
        BY <1>5, <3>2 DEF Final
      <4>2. "jump" \in Sorts /\ s[2] \in Names /\ {s[2]} \cap Names = Of(s, Naming)
        BY <2>1, <3>2 DEF Sorts, Of, Naming
      <4>3. s[1] \in Ending /\ s[1] \notin {"ret", "trap"}
        BY <3>2 DEF Ending
      <4>4. ended' <=> ended
        BY <4>1
      <4> QED BY <1>2, <4>1, <4>2, <4>3, <4>4
    <3>3. CASE s[1] = "ret"
      <4>1. /\ Becomes(Depart(Work, "return", Return)) /\ terminated' = TRUE
            /\ ended' = (ended \/ "return" # "jump")
            /\ UNCHANGED <<phase, data, weak, aliases, entered>>
        BY <1>5, <3>3 DEF Final
      <4>2. "return" \in Sorts /\ {Return} \cap Names = Of(s, Naming)
        BY <2>1, <3>3 DEF Sorts, Of, Naming
      <4>3. s[1] \in Ending /\ s[1] # "jump" /\ ended'
        BY <3>3, <4>1 DEF Ending
      <4> QED BY <1>2, <4>1, <4>2, <4>3
    <3>4. CASE s[1] = "trap"
      <4>1. /\ Becomes(Depart(Work, "trap", MemoryFault)) /\ terminated' = TRUE
            /\ ended' = (ended \/ "trap" # "jump")
            /\ UNCHANGED <<phase, data, weak, aliases, entered>>
        BY <1>5, <3>4 DEF Final
      <4>2. "trap" \in Sorts /\ {MemoryFault} \cap Names = Of(s, Naming)
        BY <2>1, <3>4 DEF Sorts, Of, Naming
      <4>3. s[1] \in Ending /\ s[1] # "jump" /\ ended'
        BY <3>4, <4>1 DEF Ending
      <4> QED BY <1>2, <4>1, <4>2, <4>3
    <3> QED BY <3>1, <3>2, <3>3, <3>4
  <2>3. PICK a \in Nat : a = Len(L)
    <3>1. Moves(layers, jumps, Fresh(layers, 2), jumps)
      BY <1>2, FreshIs
    <3>2. Layed(L, jumps)
      BY <1>2, <2>2, <3>1 DEF Moves
    <3> QED BY <3>2, LayedIs
  <2>4. jumps' = Append(jumps, Exit(a, sort, name)) /\ labels' = labels
    <3>1. Depart(R(L, jumps, labels), sort, name) =
            R(Append(L, Empty), Append(jumps, Exit(Len(L), sort, name)), labels)
      BY WorkIs
    <3>2. Becomes(R(Append(L, Empty), Append(jumps, Exit(Len(L), sort, name)), labels))
      BY <2>2, <3>1
    <3> QED BY <2>3, <3>2 DEF Becomes, R
  <2>5. Len(jumps') = Len(jumps) + 1 /\ Lists(jumps') = Lists(jumps) \cup Of(s, Naming)
    <3>1. PICK x : x = Exit(a, sort, name)
      OBVIOUS
    <3>2. x \in Leaving /\ x.name = name
      BY <2>2, <3>1, ExitIs
    <3>3. PICK K : K = jumps'
      OBVIOUS
    <3>4. jumps \in Seq(Leaving) /\ K = Append(jumps, x)
      BY <1>2, <2>4, <3>1, <3>3
    <3>5. Len(K) = Len(jumps) + 1 /\ Lists(K) = Lists(jumps) \cup ({x.name} \cap Names)
      BY ONLY <3>2, <3>4, ListsMore
    <3>6. {x.name} \cap Names = Of(s, Naming)
      BY <2>2, <3>2
    <3> QED BY ONLY <3>3, <3>5, <3>6
  <2>6. callCount' = callCount + CallsOf(s) /\ (compared' <=> s = Cmp \/ compared)
    <3>1. UNCHANGED <<compared, callCount>>
      BY <1>5 DEF BranchTo, Final, compareVars
    <3> QED BY <1>1, <3>1 DEF Fits
  <2> QED BY <1>1, <1>3, <1>5, <2>2, <2>4, <2>5, <2>6, TakesRows
<1> QED BY <1>4, <1>5

LEMMA TakesCalls ==
  ASSUME TextAssumption, TextInv, NEW s \in Statements, phase = "text", Fits,
         s[1] = "call", Call(s[2])
  PROVE  Answered(s)
<1>1. Does(s) /\ ~Gives(s) /\ JumpsOf(s) = 3 /\ s[2] \in Names /\ Of(s, Naming) = {s[2]}
      /\ s[1] \notin Ending /\ MemoryFault \notin Names /\ CallsOf(s) = 1 /\ s # Cmp
      /\ s[1] # "branch" /\ CallRoom \in Nat
  BY StatementIs DEF Does, Gives, JumpsOf, Jumping, Of, Naming, Ending, CallsOf, Cmp, TextAssumption
<1>2. /\ Layed(layers, jumps) /\ Work = R(layers, jumps, labels) /\ Len(jumps) \in Nat
      /\ jumps \in Seq(Leaving)
  BY TextNow DEF Layed
<1>3. OK(s) <=> Reached /\ callCount < CallRoom /\ Len(jumps) + 3 <= JumpRoom
  <2>1. callCount + CallsOf(s) <= CallRoom <=> callCount < CallRoom
    BY <1>1 DEF Fits
  <2> QED BY <1>1, <2>1 DEF OK
<1>4. CASE ~(Reached /\ callCount < CallRoom /\ Len(jumps) + 3 <= JumpRoom)
  BY <1>3, <1>4 DEF Call, Refuse, Answered
<1>5. CASE Reached /\ callCount < CallRoom /\ Len(jumps) + 3 <= JumpRoom
  <2> DEFINE w == Roomy(MemoryAccess(MemoryAccess(Work)), 1)
  <2>1. /\ Plain(Depart(Item(w, <<"call", Len(w.layers) + 1>>), "call", s[2]))
        /\ callCount' = callCount + 1 /\ compared' = compared
    BY <1>5 DEF Call
  <2>2. PICK N, M, K : /\ N = Fresh(layers, 2) /\ M = CallLayers(N, s[2])
                       /\ K = CallJumps(N, jumps, s[2])
    OBVIOUS
  <2>3. Depart(Item(w, <<"call", Len(w.layers) + 1>>), "call", s[2]) = R(M, K, labels)
    BY <1>2, <2>2, CallIs
  <2> HIDE DEF w
  <2>4. jumps' = K /\ labels' = labels
        /\ UNCHANGED <<phase, data, weak, aliases, entered, terminated, ended>>
    BY <2>1, <2>3 DEF Plain, Becomes, R
  <2>5. PICK a \in Nat : a = Len(N)
    BY <1>2, <2>2, FreshIs, LayedIs DEF Moves
  <2>6. PICK x, y, z : /\ x = Exit(a, "memory", MemoryFault)
                       /\ y = Exit(a + 1, "memory", MemoryFault) /\ z = Exit(a + 2, "call", s[2])
    OBVIOUS
  <2>7. PICK J1, J2 : J1 = Append(jumps, x) /\ J2 = Append(J1, y)
    OBVIOUS
  <2>8. K = Append(J2, z)
    BY <2>2, <2>5, <2>6, <2>7 DEF CallJumps
  <2>9. /\ x \in Leaving /\ x.name = MemoryFault /\ y \in Leaving /\ y.name = MemoryFault
        /\ z \in Leaving /\ z.name = s[2]
    <3>1. "memory" \in Sorts /\ "call" \in Sorts /\ a + 1 \in Nat /\ a + 2 \in Nat
      BY DEF Sorts
    <3> QED BY <1>1, <2>6, <3>1, ExitIs
  <2>10. J1 \in Seq(Leaving) /\ Len(J1) = Len(jumps) + 1 /\ Lists(J1) = Lists(jumps)
    <3>1. x.name \notin Names /\ J1 = Append(jumps, x)
      BY <1>1, <2>7, <2>9
    <3> QED BY ONLY <1>2, <2>9, <3>1, ListsMore
  <2>11. J2 \in Seq(Leaving) /\ Len(J2) = Len(J1) + 1 /\ Lists(J2) = Lists(J1)
    <3>1. y.name \notin Names /\ J2 = Append(J1, y)
      BY <1>1, <2>7, <2>9
    <3> QED BY ONLY <2>9, <2>10, <3>1, ListsMore
  <2>12. Len(K) = Len(J2) + 1 /\ Lists(K) = Lists(J2) \cup {s[2]}
    <3>1. z.name \in Names /\ z.name = s[2]
      BY <1>1, <2>9
    <3>2. z \in Leaving
      BY <2>9
    <3>3. J2 \in Seq(Leaving)
      BY <2>11
    <3>4. /\ Len(K) = Len(J2) + 1
          /\ z.name \in Names => Lists(K) = Lists(J2) \cup {z.name}
      BY ONLY <2>8, <3>2, <3>3, ListsMore
    <3> QED BY ONLY <3>1, <3>4
  <2>13. Len(jumps') = Len(jumps) + 3 /\ Lists(jumps') = Lists(jumps) \cup Of(s, Naming)
    BY <1>1, <1>2, <2>4, <2>10, <2>11, <2>12
  <2>14. callCount' = callCount + CallsOf(s) /\ (compared' <=> s = Cmp \/ compared)
    BY <1>1, <2>1
  <2> QED BY <1>1, <1>3, <1>5, <2>4, <2>13, <2>14, TakesRows
<1> QED BY <1>4, <1>5

LEMMA StatementAnswers ==
  ASSUME TextAssumption, TextInv, phase = "text", Fits, Statement
  PROVE  \E s \in Statements : text' = Append(text, s) /\ Answered(s)
<1>1. PICK s \in Statements :
        /\ text' = Append(text, s)
        /\ CASE s[1] = "label"  -> Label(s[2])
            [] s[1] = "data"   -> Data(s[2])
            [] s[1] = "set"    -> Alias(s[2], s[3])
            [] s[1] = "weak"   -> Weak(s[2])
            [] s[1] = "op"     -> Compute(s)
            [] s[1] = "branch" -> BranchTo(s[2])
            [] s[1] = "call"   -> Call(s[2])
            [] s[1] = "jump"   -> Final("jump", s[2])
            [] s[1] = "ret"    -> Final("return", Return)
            [] s[1] = "trap"   -> Final("trap", MemoryFault)
  BY DEF Statement
<1>2. s[1] \in {"label", "data", "weak", "set", "op", "branch", "call", "jump", "ret", "trap"}
  BY StatementIs
<1>3. Work = R(layers, jumps, labels) /\ Len(jumps) \in Nat
  BY TextNow DEF Layed
<1>4. CASE s[1] = "label"
  BY <1>1, <1>3, <1>4, TakesLabel
<1>5. CASE s[1] \in {"data", "set", "weak"}
  BY <1>1, <1>3, <1>5, TakesQuiet
<1>6. CASE s[1] = "op"
  BY <1>1, <1>6, TakesCompute
<1>7. CASE s[1] \in {"branch", "jump", "ret", "trap"}
  BY <1>1, <1>7, TakesLeaving
<1>8. CASE s[1] = "call"
  BY <1>1, <1>8, TakesCalls
<1> QED BY <1>1, <1>2, <1>4, <1>5, <1>6, <1>7, <1>8

-----------------------------------------------------------------------------
Ends(t) == \E i \in 1 .. Len(t) : t[i][1] \in {"ret", "trap"}

(* What the linker has taken down while it reads the text.                 *)
Counts ==
  /\ Well(text) /\ Len(jumps) = JumpsIn(text) /\ callCount = CallsIn(text)
  /\ compared <=> ComparedIn(text, Len(text) + 1)
  /\ DOMAIN labels = Stated(text, {"label"}) /\ data = Stated(text, {"data"})
  /\ weak = Stated(text, {"weak"}) /\ DOMAIN aliases = Stated(text, {"set"})
  /\ Reached <=> EntersIn(text, Len(text) + 1)
  /\ ended <=> Ends(text)
  /\ ended => entered
  /\ Lists(jumps) = {Main} \cup Stated(text, Naming)

LEMMA TakenAre == ASSUME Counts PROVE TakenNames = Stated(text, Giving)
<1>1. Stated(text, {"label"}) \cup Stated(text, {"data"}) \cup Stated(text, {"set"})
        = Stated(text, Giving)
  BY DEF Stated, Giving
<1> QED BY <1>1 DEF Counts, TakenNames

LEMMA WellIs ==
  /\ text \in Seq(Statements) => (WellMade <=> Well(text)) /\ Jumps = JumpsIn(text)
  /\ text' \in Seq(Statements) => (WellMade' <=> Well(text'))
<1>1. ASSUME text \in Seq(Statements) PROVE (WellMade <=> Well(text)) /\ Jumps = JumpsIn(text)
  <2>1. DOMAIN text = 1 .. Len(text)
    BY <1>1
  <2>2. Jumps = JumpsIn(text)
    BY ONLY <2>1 DEF Jumps, JumpsIn, Among, AmongOf, Jumping
  <2>3. \A i : Enters(i) <=> EntersIn(text, i)
    BY ONLY DEF Enters, EntersIn, CodeAt, IsCodeAt, Ending
  <2>4. \A i : Compares(i) <=> ComparedIn(text, i)
    BY ONLY DEF Compares, ComparedIn, StaysCompared
  <2>5. /\ Cardinality(Among({"call"})) = CallsIn(text)
        /\ Among({"branch"}) = {i \in 1 .. Len(text) : text[i][1] = "branch"}
    BY ONLY <2>1 DEF CallsIn, Among, AmongOf
  <2>6. WellMade <=> Well(text)
    BY ONLY <2>1, <2>2, <2>3, <2>4, <2>5 DEF WellMade, Well
  <2> QED BY <2>2, <2>6
<1>2. ASSUME text' \in Seq(Statements) PROVE WellMade' <=> Well(text')
  <2>0. PICK t : t = text'
    OBVIOUS
  <2>1. DOMAIN t = 1 .. Len(t)
    BY <1>2, <2>0
  <2>2. Jumps' = JumpsIn(t)
    BY ONLY <2>0, <2>1 DEF Jumps, JumpsIn, Among, AmongOf, Jumping
  <2>3. \A i : Enters(i)' <=> EntersIn(t, i)
    BY ONLY <2>0 DEF Enters, EntersIn, CodeAt, IsCodeAt, Ending, Does
  <2>4. \A i : Compares(i)' <=> ComparedIn(t, i)
    BY ONLY <2>0 DEF Compares, ComparedIn, StaysCompared, Cmp
  <2>5. /\ Cardinality(Among({"call"}))' = CallsIn(t)
        /\ Among({"branch"})' = {i \in 1 .. Len(t) : t[i][1] = "branch"}
    BY ONLY <2>0, <2>1 DEF CallsIn, Among, AmongOf
  <2>6. WellMade' <=> Well(t)
    BY ONLY <2>0, <2>1, <2>2, <2>3, <2>4, <2>5 DEF WellMade, Well, Gives, Does
  <2> QED BY <2>0, <2>6
<1> QED BY <1>1, <1>2

LEMMA InitCounts == ASSUME TextAssumption, TextInit PROVE Counts
<1>1. /\ text = <<>> /\ labels = <<>> /\ data = {} /\ weak = {} /\ aliases = <<>>
      /\ jumps = <<Exit(1, "start", Main)>> /\ entered = FALSE /\ ended = FALSE
      /\ compared = FALSE /\ callCount = 0
  BY DEF TextInit, Exit
<1>2. Len(text) = 0 /\ 1 .. 0 = {} /\ 1 .. (0 + 1) - 1 = {}
  BY <1>1
<1>3. \A kinds : Stated(text, kinds) = {} /\ AmongOf(text, kinds) = {}
  BY ONLY <1>2 DEF Stated, AmongOf
<1>4. JumpsIn(text) = 1 /\ CallsIn(text) = 0
  BY <1>3, FS_EmptySet DEF JumpsIn, CallsIn
<1>5. Well(text)
  BY <1>2, <1>4 DEF Well, TextAssumption
<1>6. Lists(jumps) = {Main}
  <2>1. Exit(1, "start", Main).name = Main
    BY DEF Exit
  <2>2. \A j : j \in Range(jumps) <=> j = Exit(1, "start", Main)
    BY <1>1 DEF Range
  <2> QED BY <2>1, <2>2 DEF Lists, TextAssumption
<1>7. /\ ~EntersIn(text, Len(text) + 1) /\ ~Ends(text) /\ ~Reached
      /\ ~ComparedIn(text, Len(text) + 1)
  BY ONLY <1>1, <1>2 DEF EntersIn, ComparedIn, Ends, Reached
<1>8. DOMAIN labels = {} /\ DOMAIN aliases = {} /\ Len(jumps) = 1
  BY <1>1
<1> QED BY <1>1, <1>3, <1>4, <1>5, <1>6, <1>7, <1>8 DEF Counts

LEMMA StatementCounts ==
  ASSUME TextAssumption, TextInv, Counts, phase = "text", Statement
  PROVE  \/ phase' = "text" /\ Counts' /\ WellMade'
         \/ phase' = "refused" /\ ~WellMade'
<1>1. text \in Seq(Statements) /\ Len(jumps) \in Nat /\ JumpRoom \in Nat
  BY TextNow DEF Layed, TextAssumption
<1>2. Well(text) /\ Len(jumps) = JumpsIn(text) /\ callCount = CallsIn(text) /\ Fits
  <2>1. Well(text) /\ Len(jumps) = JumpsIn(text) /\ callCount = CallsIn(text)
    BY DEF Counts
  <2>2. \E s : s \in Statements
    BY DEF Statement
  <2>3. CallsIn(text) \in Nat
    BY <1>1, <2>2, CallsMore
  <2> QED BY <2>1, <2>3 DEF Well, Fits
<1>3. PICK s \in Statements : text' = Append(text, s) /\ Answered(s)
  BY <1>2, StatementAnswers
<1>4. PICK t : t = Append(text, s)
  OBVIOUS
<1>5. t \in Seq(Statements) /\ Len(t) = Len(text) + 1 /\ Len(text) \in Nat
  BY <1>1, <1>4, MoreText
<1>6. TakenNames = Stated(text, Giving)
  BY TakenAre
<1>7. (WellMade' <=> Well(t)) /\ text' = t
  BY <1>3, <1>4, <1>5, WellIs
<1>8. Well(t) <=> OK(s)
  <2>1. Well(t) <=> /\ Gives(s) => s[2] \notin Stated(text, Giving)
                    /\ Does(s) => EntersIn(text, Len(text) + 1)
                    /\ s[1] = "branch" => ComparedIn(text, Len(text) + 1)
                    /\ CallsIn(text) + CallsOf(s) <= CallRoom
                    /\ JumpsIn(text) + JumpsOf(s) <= JumpRoom
    BY <1>1, <1>2, <1>4, WellMore
  <2> QED BY <1>2, <1>6, <2>1 DEF OK, Counts
<1>9. CASE phase' = "refused" /\ ~OK(s)
  BY <1>7, <1>8, <1>9
<1>10. CASE OK(s) /\ Took(s)
  <2>1. /\ phase' = "text"
        /\ Len(jumps') = Len(jumps) + JumpsOf(s) /\ Lists(jumps') = Lists(jumps) \cup Of(s, Naming)
        /\ DOMAIN labels' = DOMAIN labels \cup Of(s, {"label"})
        /\ data' = data \cup Of(s, {"data"}) /\ weak' = weak \cup Of(s, {"weak"})
        /\ DOMAIN aliases' = DOMAIN aliases \cup Of(s, {"set"})
        /\ Reached' <=> IF IsCodeAt(s) THEN s[1] \notin Ending ELSE Reached
        /\ callCount' = callCount + CallsOf(s)
        /\ compared' <=> s = Cmp \/ (compared /\ StaysCompared(s))
        /\ entered => entered'
        /\ s[1] \notin {"ret", "trap"} => (ended' <=> ended)
        /\ s[1] \in {"ret", "trap"} => ended'
    BY <1>10 DEF Took
  <2>2. /\ DOMAIN labels = Stated(text, {"label"}) /\ data = Stated(text, {"data"})
        /\ weak = Stated(text, {"weak"}) /\ DOMAIN aliases = Stated(text, {"set"})
        /\ Reached <=> EntersIn(text, Len(text) + 1)
        /\ compared <=> ComparedIn(text, Len(text) + 1)
        /\ ended <=> Ends(text)
        /\ ended => entered
        /\ Lists(jumps) = {Main} \cup Stated(text, Naming)
    BY DEF Counts
  <2>3. ASSUME NEW kinds, kinds \subseteq {"label", "data", "weak", "set", "branch", "call", "jump"}
        PROVE  Stated(t, kinds) = Stated(text, kinds) \cup Of(s, kinds)
    <3>1. s[1] \in kinds => s[2] \in Names
      BY <2>3, StatementIs
    <3>2. Stated(t, kinds) = Stated(text, kinds) \cup (IF s[1] \in kinds THEN {s[2]} \cap Names ELSE {})
      BY <1>1, <1>4, StatedMore
    <3> QED BY <3>1, <3>2 DEF Of
  <2>4. /\ Stated(t, {"label"}) = Stated(text, {"label"}) \cup Of(s, {"label"})
        /\ Stated(t, {"data"}) = Stated(text, {"data"}) \cup Of(s, {"data"})
        /\ Stated(t, {"weak"}) = Stated(text, {"weak"}) \cup Of(s, {"weak"})
        /\ Stated(t, {"set"}) = Stated(text, {"set"}) \cup Of(s, {"set"})
        /\ Stated(t, Naming) = Stated(text, Naming) \cup Of(s, Naming)
    BY <2>3 DEF Naming
  <2>5. /\ DOMAIN labels' = Stated(t, {"label"}) /\ data' = Stated(t, {"data"})
        /\ weak' = Stated(t, {"weak"}) /\ DOMAIN aliases' = Stated(t, {"set"})
        /\ Lists(jumps') = {Main} \cup Stated(t, Naming)
    BY ONLY <2>1, <2>2, <2>4
  <2>6. Len(jumps') = JumpsIn(t) /\ callCount' = CallsIn(t)
    BY <1>1, <1>2, <1>4, <2>1, JumpsMore, CallsMore
  <2>7. Reached' <=> EntersIn(t, Len(t) + 1)
    <3>1. EntersIn(t, Len(text) + 2) <=>
            IF IsCodeAt(s) THEN s[1] \notin Ending ELSE EntersIn(text, Len(text) + 1)
      BY <1>1, <1>4, EntersMore
    <3>2. Len(t) + 1 = Len(text) + 2
      BY <1>5
    <3> QED BY ONLY <2>1, <2>2, <3>1, <3>2
  <2>8. ended' <=> Ends(t)
    <3>1. Ends(t) <=> Ends(text) \/ s[1] \in {"ret", "trap"}
      <4>1. /\ \A i \in 1 .. Len(text) : t[i] = text[i] /\ i \in 1 .. Len(text) + 1
            /\ t[Len(text) + 1] = s /\ Len(text) + 1 \in 1 .. Len(text) + 1
            /\ \A i \in 1 .. Len(text) + 1 : i \in 1 .. Len(text) \/ i = Len(text) + 1
        BY <1>1, <1>4, <1>5, MoreText
      <4> QED BY ONLY <1>5, <4>1 DEF Ends
    <3> QED BY ONLY <2>1, <2>2, <3>1
  <2>9. ended' => entered'
    <3>1. s[1] \in {"ret", "trap"} => entered
      BY <1>10 DEF OK, Does, Reached
    <3> QED BY ONLY <2>1, <2>2, <3>1
  <2>10. Well(t)
    BY <1>8, <1>10
  <2>11. compared' <=> ComparedIn(t, Len(t) + 1)
    <3>1. ComparedIn(t, Len(text) + 2) <=>
            s = Cmp \/ (ComparedIn(text, Len(text) + 1) /\ StaysCompared(s))
      BY <1>1, <1>4, ComparedMore
    <3>2. Len(t) + 1 = Len(text) + 2
      BY <1>5
    <3> QED BY ONLY <2>1, <2>2, <3>1, <3>2
  <2>12. Counts'
    <3>1. /\ Well(text') /\ Len(jumps') = JumpsIn(text') /\ callCount' = CallsIn(text')
          /\ compared' <=> ComparedIn(text', Len(text') + 1)
      BY ONLY <1>7, <2>6, <2>10, <2>11
    <3>2. /\ DOMAIN labels' = Stated(text', {"label"}) /\ data' = Stated(text', {"data"})
          /\ weak' = Stated(text', {"weak"}) /\ DOMAIN aliases' = Stated(text', {"set"})
          /\ Lists(jumps') = {Main} \cup Stated(text', Naming)
      BY ONLY <1>7, <2>5
    <3>3. (Reached' <=> EntersIn(text', Len(text') + 1)) /\ (ended' <=> Ends(text'))
      BY ONLY <1>7, <2>7, <2>8
    <3> QED BY ONLY <2>9, <3>1, <3>2, <3>3 DEF Counts
  <2> QED BY <1>7, <2>1, <2>10, <2>12
<1> QED BY <1>3, <1>9, <1>10 DEF Answered

-----------------------------------------------------------------------------
(* What the text says of a name is what the linker knows of it.            *)
LEMMA SaysIs ==
  ASSUME TextAssumption, text \in Seq(Statements), NEW m,
         NEW kind \in {"label", "data", "weak"}
  PROVE  <<kind, m>> \in Range(text) <=> m \in Stated(text, {kind})
<1>1. DOMAIN text = 1 .. Len(text) /\ \A i \in 1 .. Len(text) : text[i] \in Statements
  OBVIOUS
<1>2. ASSUME <<kind, m>> \in Range(text) PROVE m \in Stated(text, {kind})
  <2>1. PICK i \in 1 .. Len(text) : text[i] = <<kind, m>>
    BY <1>1, <1>2 DEF Range
  <2>2. text[i] \in Statements /\ text[i][1] = kind /\ text[i][2] = m
    BY <1>1, <2>1
  <2>3. m \in Names
    BY <2>2, StatementIs
  <2> QED BY <2>2, <2>3 DEF Stated
<1>3. ASSUME m \in Stated(text, {kind}) PROVE <<kind, m>> \in Range(text)
  <2>1. PICK i \in 1 .. Len(text) : text[i][1] = kind /\ text[i][2] = m
    BY <1>3 DEF Stated
  <2>2. text[i] = <<kind, m>>
    BY <1>1, <2>1, StatementIs
  <2> QED BY <1>1, <2>2 DEF Range
<1> QED BY <1>2, <1>3

LEMMA SortsAre ==
  ASSUME TextAssumption, TextInv, Counts, NEW n \in Names
  PROVE  /\ IsCode(n) <=> n \in DOMAIN Resolved /\ Resolved[n].sort = "code"
         /\ IsMissing(n) <=> n \in DOMAIN Resolved /\ Resolved[n].sort = "missing"
         /\ IsData(n) <=> n \in DOMAIN Resolved /\ Resolved[n].sort = "data"
         /\ n \in DOMAIN Resolved <=> IsCode(n) \/ IsMissing(n) \/ IsData(n)
<1>1. text \in Seq(Statements) /\ Tables
  BY DEF TextInv, Tables
<1>2. PICK m : m = Stands(n)
  OBVIOUS
<1>3. /\ n \in DOMAIN Resolved <=> m \in DOMAIN Known
      /\ n \in DOMAIN Resolved => Resolved[n] = Known[m]
  BY <1>1, <1>2, ResolvedIs
<1>4. /\ IsCode(n) <=> m \in DOMAIN labels
      /\ IsData(n) <=> m \in data
      /\ <<"weak", m>> \in Range(text) <=> m \in weak
  <2>1. DOMAIN labels = Stated(text, {"label"}) /\ data = Stated(text, {"data"})
        /\ weak = Stated(text, {"weak"})
    BY DEF Counts
  <2> QED BY <1>1, <1>2, <2>1, SaysIs DEF IsCode, IsData
<1>5. IsMissing(n) <=> m \in weak /\ m \notin TakenNames
  <2>1. TakenNames = Stated(text, Giving)
    BY TakenAre
  <2>2. DOMAIN text = 1 .. Len(text)
    BY <1>1
  <2>3. weak \subseteq Names
    BY <1>1 DEF Tables
  <2>4. m \in Names => ((\A x \in Range(text) : ~(Gives(x) /\ x[2] = m)) <=> m \notin Stated(text, Giving))
    <3>1. Range(text) = {text[i] : i \in 1 .. Len(text)}
      BY ONLY <2>2 DEF Range
    <3> QED BY ONLY <3>1 DEF Stated, Giving, Gives
  <2> QED BY ONLY <1>2, <1>4, <2>1, <2>3, <2>4 DEF IsMissing
<1>6. data \cap DOMAIN labels = {}
  <2>1. Well(text) /\ DOMAIN labels = Stated(text, {"label"}) /\ data = Stated(text, {"data"})
    BY DEF Counts
  <2> SUFFICES ASSUME NEW x \in Stated(text, {"label"}), x \in Stated(text, {"data"}) PROVE FALSE
    BY <2>1
  <2>2. PICK i \in 1 .. Len(text) : text[i][1] = "label" /\ text[i][2] = x
    BY DEF Stated
  <2>3. PICK j \in 1 .. Len(text) : text[j][1] = "data" /\ text[j][2] = x
    BY DEF Stated
  <2>4. i = j
    BY <2>1, <2>2, <2>3 DEF Well, Gives
  <2> QED BY <2>2, <2>3, <2>4
<1>7. /\ DOMAIN Known = DOMAIN labels \cup data \cup (weak \ TakenNames)
      /\ m \in DOMAIN Known => Known[m] = IF m \in DOMAIN labels THEN [sort |-> "code", layer |-> labels[m]]
                                          ELSE IF m \in data THEN [sort |-> "data"] ELSE [sort |-> "missing"]
  BY DEF Known
<1>8. DOMAIN labels \subseteq TakenNames /\ data \subseteq TakenNames
  BY DEF TakenNames
<1>9. CASE m \in DOMAIN labels
  <2>1. m \in DOMAIN Known /\ Known[m].sort = "code" /\ m \notin data /\ m \in TakenNames
    BY <1>6, <1>7, <1>8, <1>9
  <2> QED BY <1>3, <1>4, <1>5, <1>9, <2>1
<1>10. CASE m \in data
  <2>1. m \in DOMAIN Known /\ Known[m].sort = "data" /\ m \notin DOMAIN labels /\ m \in TakenNames
    BY <1>6, <1>7, <1>8, <1>10
  <2> QED BY <1>3, <1>4, <1>5, <1>10, <2>1
<1>11. CASE m \in weak \ TakenNames
  <2>1. m \in DOMAIN Known /\ Known[m].sort = "missing" /\ m \notin DOMAIN labels /\ m \notin data
    BY <1>7, <1>8, <1>11
  <2> QED BY <1>3, <1>4, <1>5, <1>11, <2>1
<1>12. CASE m \notin DOMAIN Known
  BY <1>3, <1>4, <1>5, <1>7, <1>12
<1> QED BY <1>7, <1>9, <1>10, <1>11, <1>12

(* The names that jumps lead to behind the text are those of the text.     *)
LEMMA TailNames ==
  ASSUME TextAssumption, TextInv
  PROVE  /\ {j.name : j \in Range(Tailed.jumps)} \ {Return, MemoryFault, Report} = Lists(jumps)
         /\ Len(Tailed.jumps) = Len(jumps) + 3
<1>1. PICK M, K, C : /\ Tailed = R(M, K, C)
                     /\ Behind(layers, jumps, labels, M, K, C, Len(layers) + 1)
                     /\ Len(K) = Len(jumps) + 3
  BY TailedIs
<1>2. Tailed.jumps = K
  BY <1>1 DEF R
<1>3. \A j : j \in Range(K) <=> j \in Range(jumps) \/ j \in TailExits(Len(layers) + 1)
  BY <1>1 DEF Behind
<1>4. \A j \in TailExits(Len(layers) + 1) : j.name \in {MemoryFault, Report}
  BY DEF TailExits, Exit
<1>5. \A j \in Range(jumps) : j.name \in Names \cup {Return, MemoryFault, Report}
  <2>1. \A j \in Range(jumps) : j \in Leaving
    BY TextNow, LayedIs
  <2> QED BY <2>1 DEF Leaving
<1>6. Names \cap {Return, MemoryFault, Report} = {}
  BY DEF TextAssumption
<1>7. \A n : n \in {j.name : j \in Range(K)} \ {Return, MemoryFault, Report} <=> n \in Lists(jumps)
  BY ONLY <1>3, <1>4, <1>5, <1>6 DEF Lists
<1> QED BY <1>1, <1>2, <1>7

(* The text has a meaning if and only if the linker finds what it asks for. *)
LEMMA FinishMeans ==
  ASSUME TextAssumption, TextInv, Counts, phase = "text", FinishText
  PROVE  (phase' = "run" /\ TextMeant) \/ (phase' = "rejected" /\ ~TextMeant)
<1>1. text \in Seq(Statements) /\ DOMAIN text = 1 .. Len(text) /\ Len(jumps) \in Nat
  BY TextNow DEF Layed
<1>2. PICK known : known = Resolved
  OBVIOUS
<1>3. PICK names : names = {j.name : j \in Range(Tailed.jumps)} \ {Return, MemoryFault, Report}
  OBVIOUS
<1> DEFINE ok == /\ entered /\ ended
                 /\ DOMAIN aliases \subseteq DOMAIN known
                 /\ Main \in DOMAIN known /\ known[Main].sort = "code"
                 /\ names \subseteq DOMAIN known
                 /\ \A n \in names : known[n].sort # "data"
                 /\ Len(Tailed.jumps) <= JumpRoom
<1>4. (phase' = "run" /\ ok) \/ (phase' = "rejected" /\ ~ok)
  BY <1>2, <1>3 DEF FinishText
<1>5. names = {Main} \cup Stated(text, Naming) /\ Len(Tailed.jumps) = JumpsIn(text) + 3
  BY <1>3, TailNames DEF Counts
<1>6. WellMade /\ Jumps = JumpsIn(text)
  BY <1>1, WellIs DEF Counts
<1>7. DOMAIN aliases = Stated(text, {"set"}) /\ (ended <=> Ends(text)) /\ (ended => entered)
  BY DEF Counts
<1>8. \A n \in Names : /\ IsCode(n) <=> n \in DOMAIN known /\ known[n].sort = "code"
                       /\ IsMissing(n) <=> n \in DOMAIN known /\ known[n].sort = "missing"
                       /\ IsData(n) <=> n \in DOMAIN known /\ known[n].sort = "data"
                       /\ n \in DOMAIN known <=> IsCode(n) \/ IsMissing(n) \/ IsData(n)
  BY <1>2, SortsAre
<1>9. Main \in Names
  BY DEF TextAssumption
<1>10. \A n \in Names : n \in DOMAIN known /\ known[n].sort # "data" <=> IsCode(n) \/ IsMissing(n)
  BY ONLY <1>8
<1> DEFINE Leads2 == \A n \in Stated(text, Naming) : IsCode(n) \/ IsMissing(n)
           Alias2 == \A n \in Stated(text, {"set"}) : IsCode(n) \/ IsMissing(n) \/ IsData(n)
<1>11. ok <=> Ends(text) /\ IsCode(Main) /\ Leads2 /\ Alias2 /\ Jumps + 3 <= JumpRoom
  <2>1. \A kinds : Stated(text, kinds) \subseteq Names
    BY DEF Stated
  <2>2. DOMAIN aliases \subseteq DOMAIN known <=> Alias2
    BY ONLY <1>7, <1>8, <2>1
  <2>3. (Main \in DOMAIN known /\ known[Main].sort = "code") <=> IsCode(Main)
    BY ONLY <1>8, <1>9
  <2>4. IsCode(Main) =>
          ((names \subseteq DOMAIN known /\ \A n \in names : known[n].sort # "data") <=> Leads2)
    BY ONLY <1>5, <1>9, <1>10, <2>1
  <2>5. Len(Tailed.jumps) <= JumpRoom <=> Jumps + 3 <= JumpRoom
    BY <1>5, <1>6
  <2>6. entered /\ ended <=> Ends(text)
    BY <1>7
  <2> HIDE DEF Leads2, Alias2
  <2> QED BY ONLY <2>2, <2>3, <2>4, <2>5, <2>6
<1>12. TextMeant <=> Ends(text) /\ IsCode(Main) /\ Leads2 /\ Alias2 /\ Jumps + 3 <= JumpRoom
  <2>1. Range(text) = {text[i] : i \in 1 .. Len(text)}
    BY ONLY <1>1 DEF Range
  <2>2. (\E s \in Range(text) : s[1] \in {"ret", "trap"}) <=> Ends(text)
    BY ONLY <2>1 DEF Ends
  <2>3. \A i \in 1 .. Len(text) : text[i][1] \in {"branch", "call", "jump", "set"} => text[i][2] \in Names
    <3>1. \A i \in 1 .. Len(text) : text[i] \in Statements
      BY <1>1
    <3> QED BY <3>1, StatementIs
  <2>4. (\A s \in Range(text) : s[1] \in {"branch", "call", "jump"} => IsCode(s[2]) \/ IsMissing(s[2]))
          <=> Leads2
    <3>1. \A n : n \in Stated(text, Naming) <=>
                   \E i \in 1 .. Len(text) : text[i][1] \in {"branch", "call", "jump"} /\ text[i][2] = n
      BY ONLY <2>3 DEF Stated, Naming
    <3> QED BY ONLY <2>1, <3>1
  <2>5. (\A s \in Range(text) : s[1] = "set" => IsCode(s[2]) \/ IsMissing(s[2]) \/ IsData(s[2]))
          <=> Alias2
    <3>1. \A n : n \in Stated(text, {"set"}) <=>
                   \E i \in 1 .. Len(text) : text[i][1] = "set" /\ text[i][2] = n
      BY ONLY <2>3 DEF Stated
    <3> QED BY ONLY <2>1, <3>1
  <2> HIDE DEF Leads2, Alias2
  <2> QED BY ONLY <1>6, <2>2, <2>4, <2>5 DEF TextMeant
<1> HIDE DEF ok, Leads2, Alias2
<1> QED BY <1>4, <1>11, <1>12

(* The text, once it is read, stays.                                       *)
LEMMA MeaningStays ==
  ASSUME text' = text
  PROVE  (WellMade' <=> WellMade) /\ (TextMeant' <=> TextMeant)
<1>1. WellMade' <=> WellMade
  BY DEF WellMade, Jumps, Among, Enters, Compares, Cmp, CodeAt, Gives, Does
<1>2. \A n : Stands(n)' = Stands(n)
  BY DEF Stands, Roots, Onward, SetTo
<1>3. \A n : /\ IsCode(n)' <=> IsCode(n)
             /\ IsMissing(n)' <=> IsMissing(n)
             /\ IsData(n)' <=> IsData(n)
  BY <1>2 DEF IsCode, IsMissing, IsData, Gives
<1>4. Jumps' = Jumps
  BY DEF Jumps, Among
<1>5. TextMeant' <=> TextMeant
  BY <1>1, <1>3, <1>4 DEF TextMeant
<1> QED BY <1>1, <1>5

LEMMA CountsStay == ASSUME Counts, UNCHANGED vars PROVE Counts'
<1>1. UNCHANGED <<text, labels, data, weak, aliases, jumps, compared, callCount, entered,
                  terminated, ended>>
  BY DEF vars, linkVars, compareVars
<1>2. Reached' <=> Reached
  BY <1>1 DEF Reached
<1> QED BY <1>1, <1>2 DEF Counts

(* What the proof of Refuses carries from step to step.                    *)
RefuseInv == LinkInv /\ Refuses /\ (phase = "text" => Counts)

LEMMA InitRefuse == ASSUME TextAssumption, TextInit PROVE RefuseInv
<1>1. phase = "text" /\ Counts /\ LinkInv
  BY InitCounts, InitLinkInv DEF TextInit
<1>2. WellMade
  BY <1>1, WellIs DEF LinkInv, TextInv, Tables, Counts
<1> QED BY <1>1, <1>2 DEF RefuseInv, Refuses

LEMMA RefuseKept == ASSUME TextAssumption, RefuseInv, [TextNext]_vars PROVE RefuseInv'
<1>1. LinkInv' /\ LinkInv /\ phase \in {"text", "run", "refused", "rejected"}
  BY LinkInvKept DEF RefuseInv, LinkInv
<1>2. CASE Statement
  <2>1. phase = "text" /\ TextInv /\ Counts
    BY <1>1, <1>2 DEF Statement, RefuseInv, LinkInv
  <2>2. \/ phase' = "text" /\ Counts' /\ WellMade'
        \/ phase' = "refused" /\ ~WellMade'
    BY <1>2, <2>1, StatementCounts
  <2> QED BY <1>1, <2>2 DEF RefuseInv, Refuses
<1>3. CASE FinishText
  <2>1. phase = "text" /\ TextInv /\ Counts /\ text' = text /\ WellMade
    BY <1>1, <1>3 DEF FinishText, RefuseInv, LinkInv, Refuses
  <2>2. (phase' = "run" /\ TextMeant) \/ (phase' = "rejected" /\ ~TextMeant)
    BY <1>3, <2>1, FinishMeans
  <2>3. WellMade' /\ (TextMeant' <=> TextMeant)
    BY <2>1, MeaningStays
  <2> QED BY <1>1, <2>2, <2>3 DEF RefuseInv, Refuses
<1>4. CASE RunStep
  <2>1. phase = "run" /\ phase' = phase /\ text' = text
    BY <1>4 DEF RunStep, RunItem, RunJump, RunOn, Stop, linkVars
  <2>2. (WellMade' <=> WellMade) /\ (TextMeant' <=> TextMeant)
    BY <2>1, MeaningStays
  <2> QED BY <1>1, <2>1, <2>2 DEF RefuseInv, Refuses
<1>5. CASE UNCHANGED vars
  <2>1. phase' = phase /\ text' = text
    BY <1>5 DEF vars, linkVars
  <2>2. (WellMade' <=> WellMade) /\ (TextMeant' <=> TextMeant)
    BY <2>1, MeaningStays
  <2>3. phase' = "text" => Counts'
    BY <1>5, <2>1, CountsStay DEF RefuseInv
  <2> QED BY <1>1, <2>1, <2>2, <2>3 DEF RefuseInv, Refuses
<1> QED BY <1>2, <1>3, <1>4, <1>5 DEF TextNext, RunStep

(* The linker refuses a text that has no meaning, and no other of those    *)
(* that its other tables (labels, sections, symbols, constants) and the    *)
(* space have room for: what link_image checks by statement and at the end *)
(* (names given twice, operations out of reach, branches without a         *)
(* comparison, the capacities for calls and jumps, aliases and targets     *)
(* that lead nowhere) is what a text needs to have a meaning.              *)
THEOREM ProgramRefuses == ASSUME TextAssumption PROVE TextSpec => []Refuses
<1>1. TextInit => RefuseInv
  BY InitRefuse
<1>2. RefuseInv /\ [TextNext]_vars => RefuseInv'
  BY RefuseKept
<1>3. RefuseInv => Refuses
  BY DEF RefuseInv
<1> QED BY <1>1, <1>2, <1>3, PTL DEF TextSpec
=============================================================================
