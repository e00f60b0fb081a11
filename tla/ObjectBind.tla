----------------------------- MODULE ObjectBind -----------------------------
(***************************************************************************)
(* Separate linking (runtime/gcc/copy_link.c, link_objects): the assembly  *)
(* texts of several units become one text in which every name is unique,   *)
(* and the image linker then binds it.  A unit is a sequence of            *)
(* statements, each with its kind k, its name n, and for .set the target   *)
(* to, for .comm the size and alignment.  A name of the output is a name   *)
(* of the input and the number of the unit it is private to, or 0.         *)
(***************************************************************************)
EXTENDS Integers, Sequences, FiniteSets, SequencesExt

CONSTANTS Names, Entry,
          Inputs,     \* the sequences of units that may be linked
          Capacities  \* sizes of the scratch buffer, in statements

Kinds == {"label", "set", "comm", "weak", "global", "local", "ref"}

IsStatement(s) ==
  /\ s \in [k : Kinds, n : Names, to : Names \cup {""}, size : Nat, align : Nat]
  /\ s.k = "set" => s.to \in Names

IsUnit(u) == u \in Seq(Range(u)) /\ \A i \in DOMAIN u : IsStatement(u[i])

ASSUME ObjectAssumption ==
  /\ IsFiniteSet(Names) /\ Entry \in Names /\ Capacities \subseteq Nat
  /\ \A s \in Inputs : /\ s \in Seq(Range(s)) /\ s # <<>>
                       /\ \A i \in DOMAIN s : IsUnit(s[i])

VARIABLES units,     \* the units, in their order
          capacity,
          pc,        \* "start", "scan", "rewrite", "tail", "image", "linked", "refused"
          at,        \* the unit that scan or rewrite looks at
          pass,      \* "measure" or "write"
          needed,    \* what the first pass measured
          text       \* the statements written so far, with their new names

vars == <<units, capacity, pc, at, pass, needed, text>>

Init == /\ units \in Inputs /\ capacity \in Capacities
        /\ pc = "start" /\ at = 1 /\ pass = "measure"
        /\ needed = 0 /\ text = <<>>

-----------------------------------------------------------------------------
(* object_scan and object_references: what a unit says of a name.          *)
Says(u, kinds, n) == \E i \in DOMAIN u : u[i].k \in kinds /\ u[i].n = n

Weak(u, n)    == Says(u, {"weak"}, n)
Local(u, n)   == Says(u, {"local"}, n)
Common(u, n)  == Says(u, {"comm"}, n)
Strong(u, n)  == Says(u, {"label", "set"}, n)
Defined(u, n) == Strong(u, n) \/ Common(u, n)
Referenced(u, n) == \/ Says(u, {"ref"}, n)
                    \/ \E i \in DOMAIN u : u[i].k = "set" /\ u[i].to = n

External(u, n) ==
  \/ Says(u, {"weak", "global"}, n)
  \/ Common(u, n) /\ ~Local(u, n)
  \/ Referenced(u, n) /\ ~Defined(u, n) /\ ~Local(u, n)

ScanRefuses(u) ==
  \E n \in Names :
    \/ Local(u, n) /\ Says(u, {"weak", "global"}, n)
    \/ Common(u, n) /\ (Strong(u, n) \/ Weak(u, n))

(* The commons of a unit: the first size that is not 0, the largest        *)
(* alignment.                                                              *)
CommonsOf(u, n) == {i \in DOMAIN u : u[i].k = "comm" /\ u[i].n = n}
CommonSize(u, n) ==
  LET sized == {i \in CommonsOf(u, n) : u[i].size # 0}
  IN  IF sized = {} THEN 0 ELSE u[Min(sized)].size
CommonAlign(u, n) == Max({u[i].align : i \in CommonsOf(u, n)})

-----------------------------------------------------------------------------
(* object_winner: strong before common before weak, and the first of them. *)
Priority(u, n) ==
  IF ~External(u, n) THEN 0
  ELSE IF Strong(u, n) THEN IF Weak(u, n) THEN 1 ELSE 3
  ELSE IF Common(u, n) THEN 2 ELSE 0

Rank(n) == Max({Priority(units[i], n) : i \in DOMAIN units})

Winner(n) ==
  IF Rank(n) = 0 THEN 0
  ELSE Min({i \in DOMAIN units : Priority(units[i], n) = Rank(n)})

TwoStrong(n) ==
  \E i, j \in DOMAIN units : i < j /\ Priority(units[i], n) = 3 /\ Priority(units[j], n) = 3

StrongReference(n) ==
  \E i \in DOMAIN units : External(units[i], n) /\ ~Weak(units[i], n)

-----------------------------------------------------------------------------
(* A statement of the output and the unit it is from; merged commons and    *)
(* weak imports are from none.                                             *)
Out(i, k, n, to, size, align) ==
  [from |-> i, k |-> k, n |-> n, to |-> to, size |-> size, align |-> align]
None == <<"", 0>>

Private(i, n) == (Defined(units[i], n) \/ Local(units[i], n)) /\ ~External(units[i], n)

(* Mutant: an alias to a definition that lost goes to the winner.          *)
DiscardedLabel(i, n, k) ==
  k = "label" /\ Weak(units[i], n) /\ Strong(units[i], n) /\ Winner(n) # i

(* A weak definition that lost becomes private where it is defined.        *)
Discarded(i, n, k) ==
  k \in {"label", "set"} /\ Weak(units[i], n) /\ Strong(units[i], n) /\ Winner(n) # i

NewName(i, n, k) == IF Private(i, n) \/ Discarded(i, n, k) THEN <<n, i>> ELSE <<n, 0>>

(* object_rewrite of one statement of unit i.                              *)
Rewritten(i, s) ==
  CASE s.k = "weak" \/ (s.k = "comm" /\ External(units[i], s.n)) -> <<>>
    [] s.k = "set" -> <<Out(i, "set", NewName(i, s.n, "set"), NewName(i, s.to, "set"), 0, 0)>>
    [] OTHER -> <<Out(i, s.k, NewName(i, s.n, s.k), None, s.size, s.align)>>

RewriteUnit(i) == FlattenSeq([j \in DOMAIN units[i] |-> Rewritten(i, units[i][j])])

RewriteRefuses(i) ==
  \E j \in DOMAIN units[i] :
    LET s == units[i][j]
    IN  \/ s.k \in {"label", "set"} /\ Weak(units[i], s.n) /\ TwoStrong(s.n)
        \/ s.k = "set" /\ Weak(units[i], s.to) /\ Strong(units[i], s.to) /\ TwoStrong(s.to)

(* object_commons: one object of the largest size and alignment.           *)
CommonUnits(n) ==
  {i \in DOMAIN units : External(units[i], n) /\ Common(units[i], n)}

(* Mutant: a strong definition does not remove the common.                 *)
CommonsStill(n) ==
  LET I == CommonUnits(n)
  IN  IF I = {} THEN <<>>
      ELSE <<Out(0, "comm", <<n, 0>>, None, Max({CommonSize(units[i], n) : i \in I}),
                 Max({CommonAlign(units[i], n) : i \in I}))>>

Commons(n) ==
  LET I == CommonUnits(n)
  IN  IF I = {} \/ Rank(n) = 3 THEN <<>>
      ELSE <<Out(0, "comm", <<n, 0>>, None, Max({CommonSize(units[i], n) : i \in I}),
                 Max({CommonAlign(units[i], n) : i \in I}))>>

(* object_weak_imports: a name that is declared weak wherever it is used.  *)
WeakImport(n) ==
  IF /\ Rank(n) = 0 /\ ~StrongReference(n)
     /\ \E i \in DOMAIN units : External(units[i], n) /\ Weak(units[i], n)
  THEN <<Out(0, "weak", <<n, 0>>, None, 0, 0)>> ELSE <<>>

TailRefuses == \E n \in Names : TwoStrong(n)

(* Both go through the names in one order.                                 *)
Order == SetToSeq(Names)
Each(Op(_)) == FlattenSeq([i \in DOMAIN Order |-> Op(Order[i])])

-----------------------------------------------------------------------------
Refuse == pc' = "refused" /\ UNCHANGED <<at, pass, needed, text>>

(* One unit is linked as it stands.                                        *)
AsItStands(s) == Out(1, s.k, <<s.n, 0>>, IF s.k = "set" THEN <<s.to, 0>> ELSE None, s.size, s.align)

Start == /\ pc = "start"
         /\ IF Len(units) = 1
            THEN /\ text' = [j \in DOMAIN units[1] |-> AsItStands(units[1][j])]
                 /\ pc' = "image"
            ELSE pc' = "scan" /\ UNCHANGED text
         /\ UNCHANGED <<units, capacity, at, pass, needed>>

Scan == /\ pc = "scan"
        /\ IF ScanRefuses(units[at]) THEN Refuse
           ELSE /\ IF at = Len(units) THEN at' = 1 /\ pc' = "rewrite"
                                      ELSE at' = at + 1 /\ pc' = pc
                /\ UNCHANGED <<pass, needed, text>>
        /\ UNCHANGED <<units, capacity>>

(* What is appended: counted by the first pass, kept by the second.        *)
Emit(s) == IF pass = "measure" THEN needed' = needed + Len(s) /\ UNCHANGED text
              ELSE text' = text \o s /\ UNCHANGED needed

Rewrite == /\ pc = "rewrite"
           /\ IF RewriteRefuses(at) THEN Refuse
              ELSE /\ Emit(RewriteUnit(at))
                   /\ IF at = Len(units) THEN at' = 1 /\ pc' = "tail"
                                         ELSE at' = at + 1 /\ pc' = pc
                   /\ UNCHANGED pass
           /\ UNCHANGED <<units, capacity>>

(* The commons and weak imports; then the scratch buffer must have room.   *)
Finish == /\ pc = "tail"
          /\ IF TailRefuses THEN Refuse
             ELSE /\ Emit(Each(Commons) \o Each(WeakImport))
                  /\ UNCHANGED at
                  /\ IF pass = "write" THEN pc' = "image" /\ UNCHANGED pass
                     ELSE IF needed' >= capacity THEN pc' = "refused" /\ UNCHANGED pass
                     ELSE pc' = "rewrite" /\ pass' = "write"
          /\ UNCHANGED <<units, capacity>>

-----------------------------------------------------------------------------
(* link_image: the definitions of the text, and where each name leads: to  *)
(* the statement that makes a label, to zero for a missing weak name.      *)
Defs(n) == {j \in DOMAIN text : text[j].k \in {"label", "set", "comm"} /\ text[j].n = n}
NewNames == {text[j].n : j \in DOMAIN text} \cup {text[j].to : j \in DOMAIN text}
IsWeak(n) == \E j \in DOMAIN text : text[j].k = "weak" /\ text[j].n = n

Placed == [n \in NewNames |->
             IF Defs(n) = {} THEN IF IsWeak(n) THEN {0} ELSE {}
             ELSE {j \in Defs(n) : text[j].k # "set"}]

Aliases == {j \in DOMAIN text : text[j].k = "set"}

(* layout_data passes over the aliases as often as there are aliases.      *)
Resolve(f, s) == IF s.k = "set" /\ f[s.n] = {} THEN [f EXCEPT ![s.n] = f[s.to]] ELSE f

Rounds == Len(text) * Cardinality(Aliases)

Places == LET place[r \in 0 .. Rounds] ==
                IF r = 0 THEN Placed
                ELSE Resolve(place[r - 1], text[((r - 1) % Len(text)) + 1])
          IN  place[Rounds]

ImageRefuses ==
  \/ \E j, k \in DOMAIN text :
       j < k /\ text[j].n = text[k].n /\ {text[j].k, text[k].k} \subseteq {"label", "set", "comm"}
  \/ \E j \in DOMAIN text : text[j].k \in {"ref", "set"} /\ Places[text[j].n] = {}
  \/ <<Entry, 0>> \notin NewNames
  \/ ~\E j \in Places[<<Entry, 0>>] : j # 0 /\ text[j].k = "label"

Image == /\ pc = "image"
         /\ pc' = IF ImageRefuses THEN "refused" ELSE "linked"
         /\ UNCHANGED <<units, capacity, at, pass, needed, text>>

Next == Start \/ Scan \/ Rewrite \/ Finish \/ Image
Spec == Init /\ [][Next]_vars

-----------------------------------------------------------------------------
(* The units whose definition a use of n in unit i has to reach, 0 for a   *)
(* merged common: its own where n is private, and for an alias also a body *)
(* that lost; else the first of the best that are not private.             *)
Made(n, S) == {w \in DOMAIN units : External(units[w], n) /\ S[w]}
Reached(i, n, alias) ==
  LET strong == Made(n, [w \in DOMAIN units |-> Strong(units[w], n) /\ ~Weak(units[w], n)])
      common == Made(n, [w \in DOMAIN units |-> Common(units[w], n)])
      weak   == Made(n, [w \in DOMAIN units |-> Strong(units[w], n) /\ Weak(units[w], n)])
  IN  IF Len(units) = 1 THEN {1}
      ELSE IF Private(i, n) \/ (alias /\ Strong(units[i], n)) THEN {i}
      ELSE IF strong # {} THEN {Min(strong)}
      ELSE IF common # {} THEN {0}
      ELSE {w \in weak : \A v \in weak : w <= v}

Makers(name) == {text[j].from : j \in Defs(name)}

(* Every use in a linked text reaches the definition that the units call   *)
(* for, or a zero when all of them declare the name weak; and a common has *)
(* the largest size and alignment that any unit asks for.                  *)
BindsRight ==
  pc = "linked" =>
    \A j \in DOMAIN text :
      LET s == text[j]
          name == IF s.k = "set" THEN s.to ELSE s.n
      IN  /\ s.k \in {"ref", "set"} =>
               \/ Makers(name) = Reached(s.from, name[1], s.k = "set") /\ Makers(name) # {}
               \/ /\ Makers(name) = {}
                  /\ \A i \in DOMAIN units :
                       External(units[i], name[1]) => Weak(units[i], name[1])
          /\ s.k = "comm" /\ s.from = 0 =>
               \A i \in DOMAIN units : External(units[i], s.n[1]) /\ Common(units[i], s.n[1]) =>
                 CommonSize(units[i], s.n[1]) <= s.size /\ CommonAlign(units[i], s.n[1]) <= s.align

(* Units without a conflict are never refused, whatever else they declare: *)
(* nothing is defined twice in a unit or strongly twice, all that is used  *)
(* is defined or weak, no alias is made of an alias, and the entry is code.*)
Once(u, n) == Cardinality({j \in DOMAIN u : u[j].k \in {"label", "set"} /\ u[j].n = n}) <= 1

Supplied(n) == \/ \E i \in DOMAIN units : External(units[i], n) /\ Defined(units[i], n)
               \/ ~StrongReference(n)

Harmless ==
  /\ Len(units) > 1 /\ needed < capacity
  /\ \A i \in DOMAIN units, n \in Names :
       /\ ~ScanRefuses(units[i]) /\ Once(units[i], n)
       /\ Local(units[i], n) => Says(units[i], {"label", "set"}, n) \/ ~Referenced(units[i], n)
       /\ Common(units[i], n) => External(units[i], n)
       /\ Says(units[i], {"set"}, n) =>
            \A v \in DOMAIN units : \A j \in DOMAIN units[v] : units[v][j].to # n
  /\ \A n \in Names : ~TwoStrong(n) /\ Supplied(n)
  /\ \E i \in DOMAIN units : Says(units[i], {"label"}, Entry) /\ External(units[i], Entry)
  /\ \A i \in DOMAIN units : ~Says(units[i], {"set", "comm"}, Entry)

NeverSpurious == pc = "refused" => ~Harmless

-----------------------------------------------------------------------------
(***************************************************************************)
(* Linking with archives (cs_copy_link_archives_alloc): members that       *)
(* define what the units so far use and nobody defines are added, pass     *)
(* after pass, until a whole pass adds none; all of them are then linked   *)
(* as above.                                                               *)
(***************************************************************************)
CONSTANTS Archives,    \* the sequences of members an archive group may have
          MaxObjects   \* CS_COPY_MAX_OBJECTS

(* What both entry points refuse at once is not an input.                  *)
ASSUME ArchiveAssumption ==
  /\ MaxObjects \in Nat
  /\ \A s \in Inputs : Len(s) <= MaxObjects
  /\ \A s \in Archives : s \in Seq(Range(s)) /\ \A i \in DOMAIN s : IsUnit(s[i])

VARIABLES members,            \* the members of the archives
          m,                  \* the member that the pass looks at
          changed,            \* whether the pass has added a unit
          picked,             \* the members added, in their order
          defined, wanted     \* required: the names some unit defines or uses

archiveVars == <<members, m, changed, picked, defined, wanted>>
allVars == <<vars, archiveVars>>

ArchiveInit ==
  /\ units \in Inputs /\ capacity \in Capacities
  /\ pc = "explicit" /\ at = 1 /\ pass = "measure" /\ needed = 0 /\ text = <<>>
  /\ members \in Archives
  /\ m = 1 /\ changed = FALSE /\ picked = <<>>
  /\ defined = {} /\ wanted = {Entry}

(* archive_requirements: only what other units see, and in the first unit  *)
(* the entry.                                                              *)
Root(u, first, n) == first /\ n = Entry /\ Defined(u, n)
Exports(u, first) == {n \in Names : Defined(u, n) /\ (External(u, n) \/ Root(u, first, n))}
Imports(u, first) == {n \in Names : /\ Referenced(u, n) /\ ~Weak(u, n)
                                    /\ External(u, n) \/ Root(u, first, n)}

(* Mutant: what a unit defines is not kept.                                *)
RequireUses(u, first) == wanted' = wanted \cup Imports(u, first) /\ UNCHANGED defined

Require(u, first) == /\ defined' = defined \cup Exports(u, first)
                     /\ wanted' = wanted \cup Imports(u, first)

Stop == /\ pc' = "stopped"
        /\ UNCHANGED <<units, m, changed, picked, defined, wanted>>

Explicit == /\ pc = "explicit"
            /\ IF ScanRefuses(units[at]) THEN Stop /\ UNCHANGED at
               ELSE /\ Require(units[at], at = 1)
                    /\ IF at = Len(units) THEN at' = 1 /\ pc' = "members"
                                          ELSE at' = at + 1 /\ pc' = pc
                    /\ UNCHANGED <<units, m, changed, picked>>
            /\ UNCHANGED <<capacity, pass, needed, text, members>>

(* archive_needed                                                          *)
Needed(u) ==
  \E n \in Names : External(u, n) /\ Defined(u, n) /\ n \in wanted /\ n \notin defined

Skip == m' = m + 1 /\ UNCHANGED <<units, pc, changed, picked, defined, wanted>>

Add(u) == /\ units' = Append(units, u)
          /\ picked' = Append(picked, m)
          /\ Require(u, FALSE)
          /\ changed' = TRUE /\ m' = m + 1
          /\ UNCHANGED pc

Picked == {picked[i] : i \in DOMAIN picked}

Examine == /\ pc = "members" /\ m <= Len(members)
           /\ IF m \in Picked THEN Skip
              ELSE IF ScanRefuses(members[m]) THEN Stop
              ELSE IF ~Needed(members[m]) THEN Skip
              ELSE IF Len(units) = MaxObjects THEN Stop
              ELSE Add(members[m])
           /\ UNCHANGED <<capacity, at, pass, needed, text, members>>

(* Mutant: a pass does not forget that it was begun.                       *)
PassesAgain == IF changed THEN m' = 1 /\ UNCHANGED <<changed, pc>>
               ELSE pc' = "start" /\ UNCHANGED <<m, changed>>

Passes == IF changed THEN m' = 1 /\ changed' = FALSE /\ UNCHANGED pc
          ELSE pc' = "start" /\ UNCHANGED <<m, changed>>

EndPass == /\ pc = "members" /\ m > Len(members)
           /\ Passes
           /\ UNCHANGED <<units, capacity, at, pass, needed, text, members,
                          picked, defined, wanted>>

Select == Explicit \/ Examine \/ EndPass
Link == Next /\ UNCHANGED archiveVars

ArchiveNext == Select \/ Link
ArchiveSpec == ArchiveInit /\ [][ArchiveNext]_allVars /\ WF_allVars(ArchiveNext)

-----------------------------------------------------------------------------
(* The selection is the closure that UnitClosure describes.                *)
Closure == INSTANCE UnitClosure WITH
             Defines <- LAMBDA u : Exports(u, FALSE),
             Needs <- LAMBDA u : Imports(u, FALSE),
             Roots <- LAMBDA s : Exports(s[1], TRUE),
             Start0 <- {Entry},
             Limit <- MaxObjects,
             chosen <- units,
             spare <- [k \in DOMAIN members \ Picked |-> members[k]],
             selected <- pc \notin {"explicit", "members", "stopped"} /\ m > Len(members)

Implements == Closure!Spec

(* However the members are ordered, the passes come to an end and the link *)
(* with them.                                                              *)
Ends == <>(pc \in {"linked", "refused", "stopped"})
=============================================================================
