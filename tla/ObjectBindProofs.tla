-------------------------- MODULE ObjectBindProofs --------------------------
(***************************************************************************)
(* Linking of separate units (ObjectBind), for units and archives of any   *)
(* length and any names: the selection of archive members is the closure   *)
(* that UnitClosure describes; every use in a linked text reaches the      *)
(* definition it has to; and units without a conflict are never refused.   *)
(*                                                                         *)
(* The second part goes from the text back to the units: Lists relates a   *)
(* text to the family of the statements that are left of the units, each   *)
(* once; what defines a name is then the winner's statement, a merged      *)
(* common or a private one; and the image linker, whose passes over the    *)
(* aliases keep what is placed, finds it.                                  *)
(***************************************************************************)
EXTENDS ObjectBind, SequenceTheorems, FiniteSetTheorems, WellFoundedInduction, TLAPS

(* What the first k units define and use.                                  *)
DefinedBy(k) == UNION {Exports(units[i], i = 1) : i \in 1 .. k}
WantedBy(k)  == {Entry} \cup (UNION {Imports(units[i], i = 1) : i \in 1 .. k})

Choosing == pc \in {"explicit", "members", "stopped"}

(* The inductive invariant: what is told of the units so far is true of    *)
(* them, and a pass that has added none has left out nothing that is       *)
(* needed.                                                                 *)
UnitsInv ==
  /\ \E S : units \in Seq(S)
  /\ Len(units) \in 1 .. MaxObjects
  /\ \E S : members \in Seq(S)
  /\ picked \in Seq(Nat)
  /\ m \in Nat /\ m >= 1

ExplicitInv ==
  pc = "explicit" => /\ at \in 1 .. Len(units) /\ m = 1 /\ changed = FALSE
                     /\ defined = DefinedBy(at - 1) /\ wanted = WantedBy(at - 1)

MembersInv ==
  pc = "members" =>
    /\ defined = DefinedBy(Len(units)) /\ wanted = WantedBy(Len(units))
    /\ changed \in BOOLEAN
    /\ ~changed => \A k \in 1 .. m - 1 :
                     k \in 1 .. Len(members) => k \in Picked \/ ~Needed(members[k])

ClosureInv == UnitsInv /\ ExplicitInv /\ MembersInv

-----------------------------------------------------------------------------
(* The mapping, one variable at a time.                                    *)
Spare == [k \in DOMAIN members \ Picked |-> members[k]]
Selected == ~Choosing /\ m > Len(members)

LEMMA Mapped ==
  /\ Closure!closureVars = <<units, Spare, Selected>>
  /\ Closure!closureVars' = <<units', Spare', Selected'>>
BY DEF Closure!closureVars, Spare, Selected, Choosing

LEMMA SameSelection ==
  ASSUME UNCHANGED <<units, members, picked>>, Selected' = Selected
  PROVE  UNCHANGED Closure!closureVars
<1>1. Spare' = Spare
  BY DEF Spare, Picked
<1> QED BY <1>1, Mapped

(* What a unit uses beyond what other units see is the entry, which is     *)
(* wanted anyway.                                                          *)
LEMMA RootsOnly ==
  ASSUME NEW u
  PROVE  /\ Imports(u, FALSE) \subseteq Imports(u, TRUE)
         /\ Imports(u, TRUE) \subseteq Imports(u, FALSE) \cup {Entry}
         /\ Exports(u, FALSE) \subseteq Exports(u, TRUE)
BY DEF Imports, Exports, Root

LEMMA WantedIs ==
  ASSUME Len(units) \in Nat, Len(units) >= 1, DOMAIN units = 1 .. Len(units)
  PROVE  Closure!Wanted = WantedBy(Len(units)) \ DefinedBy(Len(units))
<1>a. PICK n : n = Len(units)
  OBVIOUS
<1>1. n \in Nat /\ n = Len(units) /\ n >= 1 /\ DOMAIN units = 1 .. n /\ 1 \in 1 .. n
  BY <1>a
<1>2. \A i \in 1 .. n : (i = 1) \in BOOLEAN /\ (i # 1 => (i = 1) = FALSE)
  OBVIOUS
<1>3. Closure!Resolved = DefinedBy(n)
  <2>1. Closure!Resolved = (UNION {Exports(units[i], FALSE) : i \in 1 .. n}) \cup Exports(units[1], TRUE)
    BY <1>1 DEF Closure!Resolved
  <2>2. ASSUME NEW x \in DefinedBy(n) PROVE x \in Closure!Resolved
    <3>1. PICK i \in 1 .. n : x \in Exports(units[i], i = 1)
      BY <2>2 DEF DefinedBy
    <3>2. CASE i = 1
      BY <2>1, <3>1, <3>2
    <3>3. CASE i # 1
      <4>1. x \in Exports(units[i], FALSE)
        BY <3>1, <3>3
      <4> QED BY <2>1, <4>1
    <3> QED BY <3>2, <3>3
  <2>3. ASSUME NEW x \in Closure!Resolved PROVE x \in DefinedBy(n)
    <3>1. CASE x \in Exports(units[1], TRUE)
      BY <1>1, <3>1 DEF DefinedBy
    <3>2. CASE \E i \in 1 .. n : x \in Exports(units[i], FALSE)
      <4>1. PICK i \in 1 .. n : x \in Exports(units[i], FALSE)
        BY <3>2
      <4>2. x \in Exports(units[i], i = 1)
        BY <4>1, RootsOnly
      <4> QED BY <4>2 DEF DefinedBy
    <3> QED BY <2>1, <2>3, <3>1, <3>2
  <2> QED BY <2>2, <2>3
<1>4. {Entry} \cup (UNION {Imports(units[i], FALSE) : i \in 1 .. n}) = WantedBy(n)
  <2> DEFINE W == {Entry} \cup (UNION {Imports(units[i], FALSE) : i \in 1 .. n})
  <2>1. ASSUME NEW x \in W PROVE x \in WantedBy(n)
    <3>1. CASE x = Entry
      BY <3>1 DEF WantedBy
    <3>2. CASE \E i \in 1 .. n : x \in Imports(units[i], FALSE)
      <4>1. PICK i \in 1 .. n : x \in Imports(units[i], FALSE)
        BY <3>2
      <4>2. x \in Imports(units[i], i = 1)
        BY <4>1, RootsOnly
      <4> QED BY <4>2 DEF WantedBy
    <3> QED BY <3>1, <3>2
  <2>2. ASSUME NEW x \in WantedBy(n) PROVE x \in W
    <3>1. CASE x = Entry
      BY <3>1
    <3>2. CASE \E i \in 1 .. n : x \in Imports(units[i], i = 1)
      <4>1. PICK i \in 1 .. n : x \in Imports(units[i], i = 1)
        BY <3>2
      <4>2. CASE x = Entry
        BY <4>2
      <4>3. CASE x \in Imports(units[i], FALSE)
        BY <4>3
      <4>4. x \in Imports(units[i], TRUE) \/ x \in Imports(units[i], FALSE)
        BY <4>1
      <4>5. x = Entry \/ x \in Imports(units[i], FALSE)
        BY <4>4, RootsOnly
      <4> QED BY <4>2, <4>3, <4>5
    <3>3. x = Entry \/ \E i \in 1 .. n : x \in Imports(units[i], i = 1)
      BY <2>2 DEF WantedBy
    <3> QED BY <3>1, <3>2, <3>3
  <2> QED BY <2>1, <2>2
<1>5. Closure!Wanted = ({Entry} \cup (UNION {Imports(units[i], FALSE) : i \in 1 .. n})) \ Closure!Resolved
  BY <1>1 DEF Closure!Wanted
<1> QED BY <1>1, <1>3, <1>4, <1>5

LEMMA NeededIs ==
  ASSUME NEW u
  PROVE  Needed(u) <=> Exports(u, FALSE) \cap (wanted \ defined) # {}
<1>1. Exports(u, FALSE) = {n \in Names : Defined(u, n) /\ External(u, n)}
  BY DEF Exports, Root
<1> QED BY <1>1 DEF Needed

LEMMA LengthOf ==
  ASSUME UnitsInv
  PROVE  /\ Len(units) \in Nat /\ Len(units) >= 1 /\ DOMAIN units = 1 .. Len(units)
         /\ Len(members) \in Nat /\ DOMAIN members = 1 .. Len(members)
BY LenProperties, ArchiveAssumption DEF UnitsInv

(* A member is useful for the closure exactly if the pass would add it.    *)
LEMMA UsefulIs ==
  ASSUME ClosureInv, pc = "members", NEW k
  PROVE  Closure!Useful(k) <=> k \in 1 .. Len(members) /\ k \notin Picked /\ Needed(members[k])
<1>1. Closure!Wanted = wanted \ defined
  BY LengthOf, WantedIs DEF ClosureInv, MembersInv
<1>2. DOMAIN members = 1 .. Len(members)
  BY LengthOf DEF ClosureInv
<1>3. Closure!Useful(k) <=> /\ k \in DOMAIN members \ Picked
                            /\ Exports(members[k], FALSE) \cap Closure!Wanted # {}
  BY DEF Closure!Useful
<1> QED BY <1>1, <1>2, <1>3, NeededIs
-----------------------------------------------------------------------------
(* A unit that is appended adds what it defines and uses.                  *)
LEMMA Longer ==
  ASSUME NEW S, NEW s \in Seq(S), NEW u
  PROVE  /\ Append(s, u) \in Seq(S \cup {u}) /\ Len(Append(s, u)) = Len(s) + 1 /\ Len(s) \in Nat
         /\ Append(s, u)[Len(s) + 1] = u
         /\ \A i \in 1 .. Len(s) : Append(s, u)[i] = s[i]
<1>1. s \in Seq(S \cup {u})
  <2>1. Len(s) \in Nat /\ s \in [1 .. Len(s) -> S]
    BY LenProperties
  <2>2. s \in [1 .. Len(s) -> S \cup {u}]
    BY <2>1
  <2> QED BY <2>1, <2>2, SeqDef
<1>2. u \in S \cup {u}
  OBVIOUS
<1> QED BY <1>1, <1>2, AppendProperties, LenProperties

LEMMA OneMore ==
  ASSUME NEW n \in Nat, NEW e, NEW d, \A i \in 1 .. n : e[i] = d[i]
  PROVE  UNION {e[i] : i \in 1 .. n + 1} = (UNION {d[i] : i \in 1 .. n}) \cup e[n + 1]
<1>1. /\ \A i \in 1 .. n + 1 : i \in 1 .. n \/ i = n + 1
      /\ n + 1 \in 1 .. n + 1 /\ \A i \in 1 .. n : i \in 1 .. n + 1
  OBVIOUS
<1>2. ASSUME NEW x \in UNION {e[i] : i \in 1 .. n + 1}
      PROVE  x \in (UNION {d[i] : i \in 1 .. n}) \cup e[n + 1]
  <2>1. PICK i \in 1 .. n + 1 : x \in e[i]
    OBVIOUS
  <2> QED BY <1>1, <2>1
<1>3. ASSUME NEW x \in (UNION {d[i] : i \in 1 .. n}) \cup e[n + 1]
      PROVE  x \in UNION {e[i] : i \in 1 .. n + 1}
  <2>1. CASE x \in e[n + 1]
    BY <1>1, <2>1
  <2>2. CASE x \in UNION {d[i] : i \in 1 .. n}
    <3>1. PICK i \in 1 .. n : x \in d[i]
      BY <2>2
    <3> QED BY <1>1, <3>1
  <2> QED BY <1>3, <2>1, <2>2
<1> QED BY <1>2, <1>3

LEMMA Appended ==
  ASSUME UnitsInv, NEW u, units' = Append(units, u), Len(units) # MaxObjects
  PROVE  /\ (\E S : units' \in Seq(S))
         /\ Len(units') \in 1 .. MaxObjects
         /\ DefinedBy(Len(units))' = DefinedBy(Len(units)) \cup Exports(u, FALSE)
         /\ WantedBy(Len(units))' = WantedBy(Len(units)) \cup Imports(u, FALSE)
<1>1. PICK S : units \in Seq(S)
  BY DEF UnitsInv
<1>2. PICK n \in Nat : n = Len(units) /\ n >= 1 /\ n < MaxObjects /\ MaxObjects \in Nat
  <2>1. Len(units) \in 1 .. MaxObjects /\ MaxObjects \in Nat
    BY ArchiveAssumption DEF UnitsInv
  <2> QED BY <2>1
<1>3. PICK more : /\ more = units' /\ more \in Seq(S \cup {u}) /\ Len(more) = n + 1
                  /\ more[n + 1] = u /\ \A i \in 1 .. n : more[i] = units[i]
  BY <1>1, <1>2, Longer
<1>4. (n + 1 = 1) = FALSE /\ n + 1 \in 1 .. n + 1 /\ \A i \in 1 .. n : i \in 1 .. n + 1
  BY <1>2
<1>5. DefinedBy(n + 1)' = DefinedBy(n) \cup Exports(u, FALSE)
  <2> DEFINE d == [i \in 1 .. n |-> Exports(units[i], i = 1)]
             e == [i \in 1 .. n + 1 |-> Exports(more[i], i = 1)]
  <2>1. DefinedBy(n + 1)' = UNION {e[i] : i \in 1 .. n + 1}
    BY <1>3 DEF DefinedBy
  <2>2. DefinedBy(n) = UNION {d[i] : i \in 1 .. n}
    BY DEF DefinedBy
  <2>3. \A i \in 1 .. n : e[i] = d[i]
    BY <1>3, <1>4
  <2>4. e[n + 1] = Exports(u, FALSE)
    BY <1>3, <1>4
  <2> HIDE DEF d, e
  <2>5. UNION {e[i] : i \in 1 .. n + 1} = (UNION {d[i] : i \in 1 .. n}) \cup e[n + 1]
    BY <2>3, OneMore
  <2> QED BY <2>1, <2>2, <2>4, <2>5
<1>6. WantedBy(n + 1)' = WantedBy(n) \cup Imports(u, FALSE)
  <2> DEFINE d == [i \in 1 .. n |-> Imports(units[i], i = 1)]
             e == [i \in 1 .. n + 1 |-> Imports(more[i], i = 1)]
  <2>1. WantedBy(n + 1)' = {Entry} \cup (UNION {e[i] : i \in 1 .. n + 1})
    BY <1>3 DEF WantedBy
  <2>2. WantedBy(n) = {Entry} \cup (UNION {d[i] : i \in 1 .. n})
    BY DEF WantedBy
  <2>3. \A i \in 1 .. n : e[i] = d[i]
    BY <1>3, <1>4
  <2>4. e[n + 1] = Imports(u, FALSE)
    BY <1>3, <1>4
  <2> HIDE DEF d, e
  <2>5. UNION {e[i] : i \in 1 .. n + 1} = (UNION {d[i] : i \in 1 .. n}) \cup e[n + 1]
    BY <2>3, OneMore
  <2>6. WantedBy(n + 1)' = ({Entry} \cup (UNION {d[i] : i \in 1 .. n})) \cup e[n + 1]
    BY <2>1, <2>5
  <2> QED BY <2>2, <2>4, <2>6
<1>7. DefinedBy(Len(units))' = DefinedBy(n + 1)' /\ WantedBy(Len(units))' = WantedBy(n + 1)'
  BY <1>3
<1>8. Len(units') \in 1 .. MaxObjects /\ \E T : units' \in Seq(T)
  BY <1>2, <1>3
<1> QED BY <1>2, <1>5, <1>6, <1>7, <1>8
-----------------------------------------------------------------------------
(* Each step keeps the invariant, and is a step of the closure or none.    *)
Implemented == ClosureInv' /\ [Closure!Next]_(Closure!closureVars)

LEMMA ExplicitIs ==
  ASSUME ClosureInv, Explicit
  PROVE  Implemented
<1>1. /\ pc = "explicit" /\ UNCHANGED <<units, members, m, changed, picked>>
      /\ \/ pc' = "stopped"
         \/ /\ Require(units[at], at = 1)
            /\ IF at = Len(units) THEN at' = 1 /\ pc' = "members" ELSE at' = at + 1 /\ pc' = pc
  BY DEF Explicit, Stop
<1>2. UNCHANGED Closure!closureVars
  <2>1. Selected' = Selected
    BY <1>1 DEF Selected, Choosing
  <2> QED BY <1>1, <2>1, SameSelection
<1>3. UnitsInv'
  BY <1>1 DEF ClosureInv, UnitsInv
<1>4. /\ at \in 1 .. Len(units) /\ m = 1 /\ changed = FALSE /\ Len(units) \in Nat
      /\ defined = DefinedBy(at - 1) /\ wanted = WantedBy(at - 1)
  BY <1>1, LengthOf DEF ClosureInv, ExplicitInv
<1>5. CASE pc' = "stopped"
  BY <1>2, <1>3, <1>5 DEF ClosureInv, ExplicitInv, MembersInv, Implemented
<1>6. CASE /\ Require(units[at], at = 1)
           /\ IF at = Len(units) THEN at' = 1 /\ pc' = "members" ELSE at' = at + 1 /\ pc' = pc
  <2>1. PICK n \in Nat : n = at - 1 /\ at = n + 1
    BY <1>4
  <2>2. defined' = DefinedBy(n + 1) /\ wanted' = WantedBy(n + 1)
    <3> DEFINE d == [i \in 1 .. n + 1 |-> Exports(units[i], i = 1)]
               w == [i \in 1 .. n + 1 |-> Imports(units[i], i = 1)]
    <3>1. n + 1 \in 1 .. n + 1 /\ \A i \in 1 .. n : i \in 1 .. n + 1
      OBVIOUS
    <3>2. DefinedBy(n + 1) = UNION {d[i] : i \in 1 .. n + 1}
      BY DEF DefinedBy
    <3>3. WantedBy(n + 1) = {Entry} \cup (UNION {w[i] : i \in 1 .. n + 1})
      BY DEF WantedBy
    <3>4. DefinedBy(n) = UNION {d[i] : i \in 1 .. n}
      BY <3>1 DEF DefinedBy
    <3>5. WantedBy(n) = {Entry} \cup (UNION {w[i] : i \in 1 .. n})
      BY <3>1 DEF WantedBy
    <3>6. d[n + 1] = Exports(units[at], at = 1) /\ w[n + 1] = Imports(units[at], at = 1)
      BY <2>1, <3>1
    <3> HIDE DEF d, w
    <3>7. /\ UNION {d[i] : i \in 1 .. n + 1} = (UNION {d[i] : i \in 1 .. n}) \cup d[n + 1]
          /\ UNION {w[i] : i \in 1 .. n + 1} = (UNION {w[i] : i \in 1 .. n}) \cup w[n + 1]
      BY OneMore
    <3>8. /\ defined' = DefinedBy(n) \cup d[n + 1] /\ wanted' = WantedBy(n) \cup w[n + 1]
      BY <1>4, <1>6, <2>1, <3>6 DEF Require
    <3>9. defined' = DefinedBy(n + 1)
      BY <3>2, <3>4, <3>7, <3>8
    <3>10. wanted' = WantedBy(n + 1)
      BY <3>3, <3>5, <3>7, <3>8
    <3> QED BY <3>9, <3>10
  <2>3. CASE at = Len(units)
    <3>1. pc' = "members" /\ Len(units') = n + 1
      BY <1>1, <1>6, <2>1, <2>3
    <3>2. defined' = DefinedBy(Len(units))' /\ wanted' = WantedBy(Len(units))'
      BY <1>1, <2>2, <3>1 DEF DefinedBy, WantedBy
    <3>3. \A k \in 1 .. m' - 1 : FALSE
      BY <1>1, <1>4
    <3> QED BY <1>1, <1>2, <1>3, <1>4, <3>1, <3>2, <3>3 DEF ClosureInv, ExplicitInv, MembersInv, Implemented
  <2>4. CASE at # Len(units)
    <3>1. pc' = "explicit" /\ at' = n + 2 /\ at' - 1 = n + 1 /\ at' \in 1 .. Len(units')
      BY <1>1, <1>4, <1>6, <2>1, <2>4
    <3>2. defined' = DefinedBy(at - 1)' /\ wanted' = WantedBy(at - 1)'
      BY <1>1, <2>2, <3>1 DEF DefinedBy, WantedBy
    <3> QED BY <1>1, <1>2, <1>3, <1>4, <3>1, <3>2 DEF ClosureInv, ExplicitInv, MembersInv, Implemented
  <2> QED BY <2>3, <2>4
<1> QED BY <1>1, <1>5, <1>6

LEMMA SkipIs ==
  ASSUME ClosureInv, pc = "members", m <= Len(members), Skip, UNCHANGED members,
         m \in Picked \/ ~Needed(members[m])
  PROVE  Implemented
<1>1. UNCHANGED <<units, pc, changed, picked, defined, wanted, members>> /\ m' = m + 1
  BY DEF Skip
<1>2. UNCHANGED Closure!closureVars
  <2>1. Selected' = Selected
    BY <1>1 DEF Selected, Choosing
  <2> QED BY <1>1, <2>1, SameSelection
<1>3. UnitsInv' /\ m \in Nat /\ m >= 1
  BY <1>1 DEF ClosureInv, UnitsInv
<1>4. /\ defined' = DefinedBy(Len(units))' /\ wanted' = WantedBy(Len(units))' /\ changed' \in BOOLEAN
  BY <1>1 DEF ClosureInv, MembersInv, DefinedBy, WantedBy
<1>5. ASSUME ~changed', NEW k \in 1 .. m' - 1, k \in 1 .. Len(members')
      PROVE  (k \in Picked \/ ~Needed(members[k]))'
  <2>1. k \in Picked \/ ~Needed(members[k])
    <3>1. CASE k = m
      BY <3>1
    <3>2. CASE k # m
      <4>1. k \in 1 .. m - 1
        BY <1>1, <1>3, <3>2
      <4> QED BY <1>1, <1>5, <4>1 DEF ClosureInv, MembersInv
    <3> QED BY <3>1, <3>2
  <2>2. Picked' = Picked /\ (Needed(members[k])' <=> Needed(members[k]))
    BY <1>1 DEF Picked, Needed
  <2> QED BY <2>1, <2>2
<1>6. pc' = "members"
  BY <1>1
<1> QED BY <1>2, <1>3, <1>4, <1>5, <1>6 DEF ClosureInv, ExplicitInv, MembersInv, Implemented

LEMMA StopIs ==
  ASSUME ClosureInv, pc = "members", Stop, UNCHANGED members
  PROVE  Implemented
<1>1. UNCHANGED <<units, m, changed, picked, members>> /\ pc' = "stopped"
  BY DEF Stop
<1>2. Selected' = Selected
  BY <1>1 DEF Selected, Choosing
<1>3. UNCHANGED Closure!closureVars
  BY <1>1, <1>2, SameSelection
<1> QED BY <1>1, <1>3 DEF ClosureInv, UnitsInv, ExplicitInv, MembersInv, Implemented

LEMMA AddIs ==
  ASSUME ClosureInv, pc = "members", m <= Len(members), UNCHANGED members,
         m \notin Picked, Needed(members[m]), Len(units) # MaxObjects, Add(members[m])
  PROVE  Implemented
<1>1. PICK u : u = members[m]
  OBVIOUS
<1>2. /\ units' = Append(units, u) /\ picked' = Append(picked, m) /\ changed' = TRUE
      /\ m' = m + 1 /\ UNCHANGED <<pc, members>>
      /\ defined' = defined \cup Exports(u, FALSE) /\ wanted' = wanted \cup Imports(u, FALSE)
  BY <1>1 DEF Add, Require
<1>3. UnitsInv
  BY DEF ClosureInv
<1>4. /\ (\E S : units' \in Seq(S)) /\ Len(units') \in 1 .. MaxObjects
      /\ DefinedBy(Len(units))' = DefinedBy(Len(units)) \cup Exports(u, FALSE)
      /\ WantedBy(Len(units))' = WantedBy(Len(units)) \cup Imports(u, FALSE)
  BY <1>2, <1>3, Appended
<1>5. picked' \in Seq(Nat) /\ Picked' = Picked \cup {m}
  <2>1. picked \in Seq(Nat) /\ m \in Nat
    BY <1>3 DEF UnitsInv
  <2>2. PICK n, now : n \in Nat /\ n = Len(picked) /\ now = Append(picked, m)
    BY <2>1, LenProperties
  <2>3. /\ now \in Seq(Nat) /\ Len(now) = n + 1 /\ now[n + 1] = m
        /\ \A i \in 1 .. n : now[i] = picked[i]
    BY <2>1, <2>2, AppendProperties
  <2>4. DOMAIN picked = 1 .. n /\ DOMAIN now = 1 .. n + 1
    BY <2>1, <2>2, <2>3, LenProperties
  <2>5. Picked = {picked[i] : i \in 1 .. n} /\ Picked' = {now[i] : i \in 1 .. n + 1}
    BY <1>2, <2>2, <2>4 DEF Picked
  <2>6. \A i \in 1 .. n + 1 : i \in 1 .. n \/ i = n + 1
    BY <2>2
  <2>7. n + 1 \in 1 .. n + 1 /\ \A i \in 1 .. n : i \in 1 .. n + 1
    BY <2>2
  <2>8. {now[i] : i \in 1 .. n + 1} = {picked[i] : i \in 1 .. n} \cup {m}
    BY <2>3, <2>6, <2>7
  <2> QED BY <1>2, <2>2, <2>3, <2>5, <2>8
<1>6. UnitsInv'
  BY <1>2, <1>3, <1>4, <1>5 DEF UnitsInv
<1>7. ClosureInv'
  <2>1. defined' = DefinedBy(Len(units))' /\ wanted' = WantedBy(Len(units))'
    BY <1>2, <1>4 DEF ClosureInv, MembersInv
  <2> QED BY <1>2, <1>6, <2>1 DEF ClosureInv, ExplicitInv, MembersInv
<1>8. Closure!Take(m)
  <2>1. Closure!Useful(m)
    <3>1. m \in 1 .. Len(members)
      BY <1>3, LengthOf DEF UnitsInv
    <3> QED BY <3>1, UsefulIs
  <2>2. Len(units) < MaxObjects
    BY <1>3, ArchiveAssumption DEF UnitsInv
  <2>3. Spare' = [k \in (DOMAIN members \ Picked) \ {m} |-> Spare[k]]
    <3>1. DOMAIN members \ (Picked \cup {m}) = (DOMAIN members \ Picked) \ {m}
      OBVIOUS
    <3>2. \A k \in (DOMAIN members \ Picked) \ {m} : Spare[k] = members[k]
      BY DEF Spare
    <3>3. Spare' = [k \in DOMAIN members \ (Picked \cup {m}) |-> members[k]]
      BY <1>2, <1>5 DEF Spare
    <3> QED BY <3>1, <3>2, <3>3
  <2>4. DOMAIN Spare = DOMAIN members \ Picked
    BY DEF Spare
  <2>5. ~Selected /\ Selected' = Selected
    BY <1>2 DEF Selected, Choosing
  <2>6. Spare[m] = u
    <3>1. m \in DOMAIN Spare
      BY <1>3, <2>4, LengthOf DEF UnitsInv
    <3> QED BY <1>1, <2>4, <3>1 DEF Spare
  <2> QED BY <1>2, <2>1, <2>2, <2>3, <2>4, <2>5, <2>6 DEF Closure!Take, Spare, Selected, Choosing
<1>9. Closure!Next
  BY <1>8 DEF Closure!Next, Closure!Take, Closure!Useful
<1> QED BY <1>7, <1>9 DEF Implemented

LEMMA ExamineIs ==
  ASSUME ClosureInv, Examine
  PROVE  Implemented
<1>1. pc = "members" /\ m <= Len(members) /\ UNCHANGED members
  BY DEF Examine
<1>2. CASE m \in Picked /\ Skip
  BY <1>1, <1>2, SkipIs
<1>3. CASE ~Needed(members[m]) /\ Skip
  BY <1>1, <1>3, SkipIs
<1>4. CASE Stop
  BY <1>1, <1>4, StopIs
<1>5. CASE m \notin Picked /\ Needed(members[m]) /\ Len(units) # MaxObjects /\ Add(members[m])
  BY <1>1, <1>5, AddIs
<1> QED BY <1>2, <1>3, <1>4, <1>5 DEF Examine

LEMMA EndPassIs ==
  ASSUME ClosureInv, EndPass
  PROVE  Implemented
<1>1. /\ pc = "members" /\ m > Len(members) /\ Passes
      /\ UNCHANGED <<units, at, members, picked, defined, wanted>>
  BY DEF EndPass
<1>2. UnitsInv /\ m \in Nat /\ Len(members) \in Nat
  BY LengthOf DEF ClosureInv, UnitsInv
<1>3. CASE changed
  <2>1. m' = 1 /\ changed' = FALSE /\ pc' = "members"
    BY <1>1, <1>3 DEF Passes
  <2>2. Selected' = Selected
    BY <1>1, <2>1 DEF Selected, Choosing
  <2>3. UNCHANGED Closure!closureVars
    BY <1>1, <2>2, SameSelection
  <2>4. UnitsInv'
    BY <1>1, <1>2, <2>1 DEF UnitsInv
  <2>5. defined' = DefinedBy(Len(units))' /\ wanted' = WantedBy(Len(units))'
    BY <1>1 DEF ClosureInv, MembersInv, DefinedBy, WantedBy
  <2>6. \A k \in 1 .. m' - 1 : FALSE
    BY <2>1
  <2> QED BY <2>1, <2>3, <2>4, <2>5, <2>6 DEF ClosureInv, ExplicitInv, MembersInv, Implemented
<1>4. CASE ~changed
  <2>1. pc' = "start" /\ UNCHANGED <<m, changed>>
    BY <1>1, <1>4 DEF Passes
  <2>2. ClosureInv'
    BY <1>1, <1>2, <2>1 DEF ClosureInv, UnitsInv, ExplicitInv, MembersInv
  <2>3. ~\E k \in DOMAIN Spare : Closure!Useful(k)
    <3> SUFFICES ASSUME NEW k, Closure!Useful(k) PROVE FALSE
      OBVIOUS
    <3>1. k \in 1 .. Len(members) /\ k \notin Picked /\ Needed(members[k])
      BY <1>1, UsefulIs
    <3>2. k \in 1 .. m - 1
      BY <1>1, <1>2, <3>1
    <3> QED BY <1>1, <1>4, <3>1, <3>2 DEF ClosureInv, MembersInv
  <2>4. ~Selected /\ Selected'
    BY <1>1, <2>1 DEF Selected, Choosing
  <2>5. units' = units /\ Spare' = Spare
    BY <1>1 DEF Spare, Picked
  <2>6. Closure!Finish
    BY <2>3, <2>4, <2>5 DEF Closure!Finish, Spare, Selected, Choosing
  <2> QED BY <2>2, <2>6 DEF Implemented, Closure!Next
<1> QED BY <1>3, <1>4

(* What links leaves the selection as it is.                               *)
LEMMA LinkIs ==
  ASSUME ClosureInv, Link
  PROVE  Implemented
<1>1. UNCHANGED <<units, members, m, changed, picked, defined, wanted>>
  BY DEF Link, archiveVars, Next, Start, Scan, Rewrite, Finish, Image
<1>2. ~Choosing /\ ~Choosing'
  BY DEF Link, Choosing, Next, Start, Scan, Rewrite, Finish, Image, Refuse
<1>3. Selected' = Selected
  BY <1>1, <1>2 DEF Selected
<1>4. UNCHANGED Closure!closureVars
  BY <1>1, <1>3, SameSelection
<1> QED BY <1>1, <1>2, <1>4 DEF ClosureInv, UnitsInv, ExplicitInv, MembersInv, Implemented, Choosing

LEMMA ArchiveStarts == ArchiveInit => ClosureInv /\ ~Selected
<1> SUFFICES ASSUME ArchiveInit PROVE ClosureInv /\ ~Selected
  OBVIOUS
<1>1. UnitsInv
  <2>1. \A s \in Inputs : s \in Seq(Range(s)) /\ Len(s) \in 1 .. MaxObjects
    BY ObjectAssumption, ArchiveAssumption, LenProperties, EmptySeq
  <2> QED BY <2>1, ArchiveAssumption DEF ArchiveInit, UnitsInv
<1>2. DefinedBy(at - 1) = {} /\ WantedBy(at - 1) = {Entry}
  BY DEF ArchiveInit, DefinedBy, WantedBy
<1>3. at \in 1 .. Len(units)
  BY <1>1, LengthOf DEF ArchiveInit
<1> QED BY <1>1, <1>2, <1>3 DEF ArchiveInit, ClosureInv, ExplicitInv, MembersInv, Selected, Choosing

LEMMA ArchiveStays == ClosureInv /\ UNCHANGED allVars => Implemented
<1> SUFFICES ASSUME ClosureInv, UNCHANGED allVars PROVE Implemented
  OBVIOUS
<1>1. UNCHANGED <<units, pc, at, members, m, changed, picked, defined, wanted>>
  BY DEF allVars, vars, archiveVars
<1>2. Selected' = Selected
  BY <1>1 DEF Selected, Choosing
<1>3. UNCHANGED Closure!closureVars
  BY <1>1, <1>2, SameSelection
<1>4. ClosureInv'
  BY <1>1 DEF ClosureInv, UnitsInv, ExplicitInv, MembersInv, DefinedBy, WantedBy, Picked, Needed
<1> QED BY <1>3, <1>4 DEF Implemented

(* The members that are linked are those that the units call for, in an    *)
(* order in which each was called for by those before it, and none of the  *)
(* rest would be (cs_copy_link_archives_alloc of copy_link.c).             *)
THEOREM SelectionIsClosure == ArchiveSpec => Implements
<1>1. ArchiveInit => ClosureInv /\ ~Selected
  BY ArchiveStarts
<1>2. ClosureInv /\ [ArchiveNext]_allVars => Implemented
  BY ExplicitIs, ExamineIs, EndPassIs, LinkIs, ArchiveStays DEF ArchiveNext, Select
<1>3. Implements <=> ~Selected /\ [][Closure!Next]_(Closure!closureVars)
  BY DEF Implements, Closure!Spec, Selected, Choosing
<1> QED BY <1>1, <1>2, <1>3, PTL DEF ArchiveSpec, Implemented

-----------------------------------------------------------------------------
(* Induction over the numbers, as a fact about sets of them.               *)
LessThan == {r \in Nat \X Nat : r[1] < r[2]}

LEMMA Induction ==
  ASSUME NEW S, 0 \in S, \A n \in Nat : n \in S => n + 1 \in S
  PROVE  Nat \subseteq S
<1> SUFFICES ASSUME Nat \ S # {} PROVE FALSE
  OBVIOUS
<1>1. IsWellFoundedOn(LessThan, Nat)
  <2>1. OpToRel(<, Nat) = LessThan
    BY DEF OpToRel, LessThan
  <2> QED BY <2>1, NatLessThanWellFounded
<1>2. PICK least \in Nat \ S : \A n \in Nat \ S : ~(<<n, least>> \in LessThan)
  BY <1>1, WFMin
<1>3. \A n \in Nat \ S : ~(n < least)
  BY <1>2 DEF LessThan
<1>4. least - 1 \in Nat /\ least - 1 \in S
  BY <1>3
<1> QED BY <1>4

(* A sequence lists a family: each member of it once, in some order.       *)
Lists(s, v) ==
  \E o \in [DOMAIN s -> DOMAIN v] :
    /\ \A x, y \in DOMAIN s : o[x] = o[y] => x = y
    /\ \A e \in DOMAIN v : \E x \in DOMAIN s : o[x] = e
    /\ \A x \in DOMAIN s : s[x] = v[o[x]]

Joins(u, v, w) ==
  /\ DOMAIN v \cap DOMAIN w = {} /\ DOMAIN u = DOMAIN v \cup DOMAIN w
  /\ \A e \in DOMAIN v : u[e] = v[e]
  /\ \A e \in DOMAIN w : u[e] = w[e]

(* Two families without a common index are listed one after the other.     *)
LEMMA ListsBoth ==
  ASSUME NEW S, NEW s \in Seq(S), NEW t \in Seq(S), NEW v, NEW w, NEW u,
         Lists(s, v), Lists(t, w), Joins(u, v, w)
  PROVE  Lists(s \o t, u)
<1> USE DEF Joins
<1>1. PICK o \in [DOMAIN s -> DOMAIN v] :
        /\ \A x, y \in DOMAIN s : o[x] = o[y] => x = y
        /\ \A e \in DOMAIN v : \E x \in DOMAIN s : o[x] = e
        /\ \A x \in DOMAIN s : s[x] = v[o[x]]
  BY DEF Lists
<1>2. PICK p \in [DOMAIN t -> DOMAIN w] :
        /\ \A x, y \in DOMAIN t : p[x] = p[y] => x = y
        /\ \A e \in DOMAIN w : \E x \in DOMAIN t : p[x] = e
        /\ \A x \in DOMAIN t : t[x] = w[p[x]]
  BY DEF Lists
<1>3. PICK n \in Nat : n = Len(s) /\ DOMAIN s = 1 .. n
  BY LenProperties
<1>4. PICK k \in Nat : k = Len(t) /\ DOMAIN t = 1 .. k
  BY LenProperties
<1>5. /\ DOMAIN (s \o t) = 1 .. n + k
      /\ \A x \in 1 .. n + k : (s \o t)[x] = IF x <= n THEN s[x] ELSE t[x - n]
  BY <1>3, <1>4, ConcatProperties, LenProperties
<1> DEFINE q == [x \in 1 .. n + k |-> IF x <= n THEN o[x] ELSE p[x - n]]
<1>6. \A x \in 1 .. n + k :
        \/ x \in 1 .. n /\ q[x] = o[x] /\ q[x] \in DOMAIN v /\ (s \o t)[x] = v[q[x]]
        \/ x - n \in 1 .. k /\ x > n /\ q[x] = p[x - n] /\ q[x] \in DOMAIN w /\ (s \o t)[x] = w[q[x]]
  <2> SUFFICES ASSUME NEW x \in 1 .. n + k
               PROVE  \/ x \in 1 .. n /\ q[x] = o[x] /\ q[x] \in DOMAIN v /\ (s \o t)[x] = v[q[x]]
                      \/ /\ x - n \in 1 .. k /\ x > n /\ q[x] = p[x - n] /\ q[x] \in DOMAIN w
                         /\ (s \o t)[x] = w[q[x]]
    OBVIOUS
  <2>1. CASE x <= n
    <3>1. x \in 1 .. n /\ q[x] = o[x] /\ (s \o t)[x] = s[x]
      BY <1>5, <2>1
    <3> QED BY <1>1, <1>3, <3>1
  <2>2. CASE x > n
    <3>1. x - n \in 1 .. k /\ q[x] = p[x - n] /\ (s \o t)[x] = t[x - n]
      BY <1>5, <2>2
    <3>2. p[x - n] \in DOMAIN w /\ t[x - n] = w[p[x - n]]
      BY ONLY <1>2, <1>4, <3>1
    <3> HIDE DEF q
    <3> QED BY ONLY <2>2, <3>1, <3>2, x \in 1 .. n + k, n \in Nat, k \in Nat
  <2> HIDE DEF q
  <2>3. x <= n \/ x > n
    OBVIOUS
  <2> QED BY ONLY <2>1, <2>2, <2>3
<1>7. q \in [1 .. n + k -> DOMAIN u]
  BY <1>6
<1>8. \A x, y \in 1 .. n + k : q[x] = q[y] => x = y
  <2> SUFFICES ASSUME NEW x \in 1 .. n + k, NEW y \in 1 .. n + k, q[x] = q[y] PROVE x = y
    OBVIOUS
  <2> HIDE DEF q
  <2>1. CASE q[x] \in DOMAIN v
    <3>1. x \in 1 .. n /\ y \in 1 .. n /\ o[x] = o[y]
      BY ONLY <1>6, <2>1, q[x] = q[y], x \in 1 .. n + k, y \in 1 .. n + k, DOMAIN v \cap DOMAIN w = {}
    <3> QED BY <1>1, <1>3, <3>1
  <2>2. CASE q[x] \in DOMAIN w
    <3>1. x - n \in 1 .. k /\ y - n \in 1 .. k /\ p[x - n] = p[y - n]
      BY ONLY <1>6, <2>2, q[x] = q[y], x \in 1 .. n + k, y \in 1 .. n + k, DOMAIN v \cap DOMAIN w = {}
    <3>2. x - n = y - n
      BY <1>2, <1>4, <3>1
    <3> QED BY <1>3, <3>2
  <2> QED BY <1>6, <2>1, <2>2
<1>9. \A e \in DOMAIN u : \E x \in 1 .. n + k : q[x] = e
  <2> SUFFICES ASSUME NEW e \in DOMAIN u PROVE \E x \in 1 .. n + k : q[x] = e
    OBVIOUS
  <2>1. CASE e \in DOMAIN v
    <3>1. PICK x \in 1 .. n : o[x] = e
      BY <1>1, <1>3, <2>1
    <3>2. x \in 1 .. n + k /\ q[x] = e
      BY <3>1
    <3> QED BY <3>2
  <2>2. CASE e \in DOMAIN w
    <3>1. PICK x \in 1 .. k : p[x] = e
      BY <1>2, <1>4, <2>2
    <3>2. x + n \in 1 .. n + k /\ x + n > n /\ (x + n) - n = x
      BY <3>1
    <3>3. q[x + n] = e
      BY <3>1, <3>2
    <3> QED BY <3>2, <3>3
  <2> QED BY <2>1, <2>2
<1>10. \A x \in 1 .. n + k : (s \o t)[x] = u[q[x]]
  BY <1>6
<1> HIDE DEF q
<1>11. DOMAIN (s \o t) = 1 .. n + k
  BY <1>5
<1> DEFINE c == s \o t
<1>12. DOMAIN c = 1 .. n + k
  BY <1>11
<1> HIDE DEF c
<1>13. q \in [DOMAIN c -> DOMAIN u]
  BY ONLY <1>7, <1>12
<1>14. \A x, y \in DOMAIN c : q[x] = q[y] => x = y
  BY ONLY <1>8, <1>12
<1>15. \A e \in DOMAIN u : \E x \in DOMAIN c : q[x] = e
  BY ONLY <1>9, <1>12
<1>16. \A x \in DOMAIN c : c[x] = u[q[x]]
  BY ONLY <1>10, <1>12 DEF c
<1>17. Lists(c, u)
  BY ONLY <1>13, <1>14, <1>15, <1>16 DEF Lists
<1> QED BY ONLY <1>17 DEF c

(* A family listed is listed under other names for its indices.            *)
LEMMA ListsRenamed ==
  ASSUME NEW s, NEW v, NEW w, Lists(s, v), NEW h \in [DOMAIN v -> DOMAIN w],
         \A d, e \in DOMAIN v : h[d] = h[e] => d = e,
         \A e \in DOMAIN w : \E d \in DOMAIN v : h[d] = e,
         \A d \in DOMAIN v : w[h[d]] = v[d]
  PROVE  Lists(s, w)
<1>1. PICK o \in [DOMAIN s -> DOMAIN v] :
        /\ \A x, y \in DOMAIN s : o[x] = o[y] => x = y
        /\ \A e \in DOMAIN v : \E x \in DOMAIN s : o[x] = e
        /\ \A x \in DOMAIN s : s[x] = v[o[x]]
  BY DEF Lists
<1> DEFINE q == [x \in DOMAIN s |-> h[o[x]]]
<1>2. q \in [DOMAIN s -> DOMAIN w]
  BY <1>1
<1>3. \A x, y \in DOMAIN s : q[x] = q[y] => x = y
  BY <1>1
<1>4. \A e \in DOMAIN w : \E x \in DOMAIN s : q[x] = e
  <2> SUFFICES ASSUME NEW e \in DOMAIN w PROVE \E x \in DOMAIN s : q[x] = e
    OBVIOUS
  <2>1. PICK d \in DOMAIN v : h[d] = e
    OBVIOUS
  <2>2. PICK x \in DOMAIN s : o[x] = d
    BY <1>1
  <2> QED BY <2>1, <2>2
<1>5. \A x \in DOMAIN s : s[x] = w[q[x]]
  BY <1>1
<1> HIDE DEF q
<1> QED BY <1>2, <1>3, <1>4, <1>5 DEF Lists

-----------------------------------------------------------------------------
(* What FlattenSeq builds, one sequence after the other.                   *)
Flattens(g, e, n) == g = [i \in 1 .. n |-> IF i = 1 THEN e[i] ELSE g[i - 1] \o e[i]]

LEMMA FlattenExists ==
  ASSUME NEW e
  PROVE  \A n \in Nat : \E g : Flattens(g, e, n)
<1> DEFINE F == {n \in Nat : \E g : Flattens(g, e, n)}
<1>1. 0 \in F
  <2>1. Flattens([i \in 1 .. 0 |-> e[i]], e, 0)
    BY DEF Flattens
  <2> QED BY <2>1
<1>2. \A n \in Nat : n \in F => n + 1 \in F
  <2> SUFFICES ASSUME NEW n \in Nat, n \in F PROVE n + 1 \in F
    OBVIOUS
  <2>1. PICK g : Flattens(g, e, n)
    OBVIOUS
  <2> DEFINE h == [i \in 1 .. n + 1 |-> IF i = 1 THEN e[i] ELSE g[i - 1] \o e[i]]
  <2>6. \A i \in 1 .. n : g[i] = IF i = 1 THEN e[i] ELSE g[i - 1] \o e[i]
    BY <2>1, Zenon DEF Flattens
  <2>2. \A i \in 1 .. n : h[i] = g[i]
    <3> SUFFICES ASSUME NEW i \in 1 .. n PROVE h[i] = g[i]
      OBVIOUS
    <3>1. i \in 1 .. n + 1
      OBVIOUS
    <3>2. h[i] = IF i = 1 THEN e[i] ELSE g[i - 1] \o e[i]
      BY <3>1, Zenon
    <3> QED BY <2>6, <3>2, Zenon
  <2>3. \A i \in 1 .. n + 1 : h[i] = IF i = 1 THEN e[i] ELSE h[i - 1] \o e[i]
    <3> SUFFICES ASSUME NEW i \in 1 .. n + 1, i # 1 PROVE h[i] = h[i - 1] \o e[i]
      OBVIOUS
    <3>1. i - 1 \in 1 .. n
      OBVIOUS
    <3> QED BY <2>2, <3>1
  <2>4. h = [i \in 1 .. n + 1 |-> h[i]]
    OBVIOUS
  <2>5. Flattens(h, e, n + 1)
    <3> HIDE DEF h
    <3> QED BY <2>3, <2>4 DEF Flattens
  <2> QED BY <2>5
<1> HIDE DEF F
<1>3. Nat \subseteq F
  BY <1>1, <1>2, Induction
<1> QED BY <1>3 DEF F

LEMMA FlattenIs ==
  ASSUME NEW S, NEW e \in Seq(S), Len(e) > 0
  PROVE  \E g : Flattens(g, e, Len(e)) /\ FlattenSeq(e) = g[Len(e)]
<1>1. Len(e) \in Nat
  BY LenProperties
<1>2. \E g : Flattens(g, e, Len(e))
  BY <1>1, FlattenExists
<1> DEFINE f == CHOOSE f : f = [i \in 1 .. Len(e) |-> IF i = 1 THEN e[i] ELSE f[i - 1] \o e[i]]
<1>3. Flattens(f, e, Len(e))
  BY <1>2 DEF Flattens
<1>4. FlattenSeq(e) = f[Len(e)]
  BY DEF FlattenSeq
<1> QED BY <1>3, <1>4

(* Sequences of at most one element, one after the other: what is listed   *)
(* is their elements.                                                      *)
Firsts(e) == [i \in {i \in DOMAIN e : e[i] # <<>>} |-> e[i][1]]

Begun(e, k) == [i \in {i \in 1 .. k : e[i] # <<>>} |-> e[i][1]]

LEMMA ListsNone == ASSUME NEW v, DOMAIN v = {} PROVE Lists(<<>>, v)
<1> DEFINE o == [x \in {} |-> x]
<1>1. DOMAIN <<>> = {} /\ o \in [{} -> DOMAIN v]
  OBVIOUS
<1> QED BY <1>1 DEF Lists

LEMMA ListsOne == ASSUME NEW a, NEW v, NEW d, DOMAIN v = {d}, v[d] = a PROVE Lists(<<a>>, v)
<1> DEFINE o == [x \in {1} |-> d]
<1>1. DOMAIN <<a>> = {1} /\ o \in [{1} -> DOMAIN v] /\ <<a>>[1] = a /\ o[1] = d
  OBVIOUS
<1>2. o \in [DOMAIN <<a>> -> DOMAIN v]
  BY <1>1
<1> HIDE DEF o
<1> QED BY <1>1, <1>2 DEF Lists

LEMMA Short == ASSUME NEW S, NEW c \in Seq(S), Len(c) <= 1 PROVE c = <<>> \/ c = <<c[1]>>
<1>1. Len(c) \in Nat
  BY LenProperties
<1>2. \A k \in Nat : k <= 1 => k = 0 \/ k = 1
  OBVIOUS
<1>3. Len(c) = 0 \/ Len(c) = 1
  BY ONLY <1>1, <1>2, Len(c) <= 1, Zenon
<1> QED BY <1>3, EmptySeq

LEMMA FlattenLists ==
  ASSUME NEW S, NEW e, NEW n \in Nat, e \in Seq(Seq(S)), Len(e) = n,
         \A i \in 1 .. n : Len(e[i]) <= 1
  PROVE  FlattenSeq(e) \in Seq(S) /\ Lists(FlattenSeq(e), Firsts(e))
<1>1. DOMAIN e = 1 .. n /\ \A i \in 1 .. n : e[i] \in Seq(S)
  BY LenProperties, ElementOfSeq
<1>2. CASE n = 0
  <2>1. FlattenSeq(e) = <<>> /\ e = <<>>
    BY <1>2, EmptySeq DEF FlattenSeq
  <2>2. DOMAIN Firsts(e) = {}
    BY <1>1, <1>2 DEF Firsts
  <2> QED BY <2>1, <2>2, ListsNone
<1>3. CASE n > 0
  <2>1. PICK g : Flattens(g, e, n) /\ FlattenSeq(e) = g[n]
    BY <1>3, FlattenIs
  <2>2. \A i \in 1 .. n : g[i] = IF i = 1 THEN e[i] ELSE g[i - 1] \o e[i]
    BY <2>1, Zenon DEF Flattens
  <2>3. \A i \in 1 .. n :
          /\ e[i] = <<>> \/ e[i] = <<e[i][1]>>
          /\ e[i] \in Seq(S)
    <3> SUFFICES ASSUME NEW i \in 1 .. n PROVE e[i] = <<>> \/ e[i] = <<e[i][1]>>
      BY <1>1
    <3>1. PICK c \in Seq(S) : c = e[i] /\ Len(c) <= 1
      BY <1>1
    <3>2. c = <<>> \/ c = <<c[1]>>
      BY ONLY <3>1, c \in Seq(S), Short
    <3> QED BY <3>1, <3>2
  <2> DEFINE Done == {k \in Nat : k + 1 \in 1 .. n =>
                        g[k + 1] \in Seq(S) /\ Lists(g[k + 1], Begun(e, k + 1))}
  <2>4. \A i \in 1 .. n : Lists(e[i], [d \in {d \in {i} : e[d] # <<>>} |-> e[d][1]])
    <3> SUFFICES ASSUME NEW i \in 1 .. n
                 PROVE  Lists(e[i], [d \in {d \in {i} : e[d] # <<>>} |-> e[d][1]])
      OBVIOUS
    <3> DEFINE w == [d \in {d \in {i} : e[d] # <<>>} |-> e[d][1]]
    <3>1. CASE e[i] = <<>>
      <4>1. DOMAIN w = {}
        BY <3>1
      <4> HIDE DEF w
      <4>2. Lists(e[i], w)
        BY <3>1, <4>1, ListsNone
      <4> QED BY <4>2 DEF w
    <3>2. CASE e[i] # <<>>
      <4>1. DOMAIN w = {i} /\ w[i] = e[i][1]
        BY <3>2
      <4> HIDE DEF w
      <4>2. e[i] = <<e[i][1]>>
        BY <2>3, <3>2
      <4>3. Lists(<<e[i][1]>>, w)
        BY <4>1, ListsOne
      <4>4. Lists(e[i], w)
        BY <4>2, <4>3
      <4> QED BY <4>4 DEF w
    <3> QED BY <3>1, <3>2
  <2>5. 0 \in Done
    <3>1. 1 \in 1 .. n /\ g[1] = e[1]
      BY <1>3, <2>2
    <3>2. {i \in 1 .. 1 : e[i] # <<>>} = {d \in {1} : e[d] # <<>>}
      OBVIOUS
    <3>3. Begun(e, 1) = [d \in {d \in {1} : e[d] # <<>>} |-> e[d][1]]
      BY <3>2 DEF Begun
    <3> QED BY <2>3, <2>4, <3>1, <3>3
  <2>6. ASSUME NEW k \in Nat, k \in Done PROVE k + 1 \in Done
    <3> SUFFICES ASSUME k + 2 \in 1 .. n
                 PROVE  g[k + 2] \in Seq(S) /\ Lists(g[k + 2], Begun(e, k + 2))
      OBVIOUS
    <3>1. k + 1 \in 1 .. n /\ g[k + 1] \in Seq(S) /\ Lists(g[k + 1], Begun(e, k + 1))
      BY <2>6
    <3>2. g[k + 2] = g[k + 1] \o e[k + 2]
      <4>1. k + 2 # 1 /\ (k + 2) - 1 = k + 1
        OBVIOUS
      <4> QED BY <2>2, <4>1
    <3> DEFINE w == [d \in {d \in {k + 2} : e[d] # <<>>} |-> e[d][1]]
    <3>3. Lists(e[k + 2], w) /\ e[k + 2] \in Seq(S)
      BY <2>3, <2>4
    <3>4. /\ DOMAIN Begun(e, k + 1) \cap DOMAIN w = {}
          /\ DOMAIN Begun(e, k + 2) = DOMAIN Begun(e, k + 1) \cup DOMAIN w
      BY DEF Begun
    <3>5. /\ \A d \in DOMAIN Begun(e, k + 1) : Begun(e, k + 2)[d] = Begun(e, k + 1)[d]
          /\ \A d \in DOMAIN w : Begun(e, k + 2)[d] = w[d]
      BY DEF Begun
    <3> HIDE DEF w
    <3> DEFINE b == Begun(e, k + 1)
               c == Begun(e, k + 2)
               s == g[k + 1]
               t == e[k + 2]
    <3>8. /\ s \in Seq(S) /\ t \in Seq(S) /\ Lists(s, b) /\ Lists(t, w)
          /\ Joins(c, b, w)
      BY <3>1, <3>3, <3>4, <3>5 DEF Joins
    <3> HIDE DEF b, c, s, t
    <3>9. Lists(s \o t, c)
      BY ONLY <3>8, ListsBoth
    <3>6. Lists(g[k + 1] \o e[k + 2], Begun(e, k + 2))
      BY <3>9 DEF b, c, s, t
    <3>7. g[k + 1] \o e[k + 2] \in Seq(S)
      BY <3>1, <3>3, ConcatProperties
    <3> QED BY <3>2, <3>6, <3>7
  <2> HIDE DEF Done
  <2>7. Nat \subseteq Done
    BY <2>5, <2>6, Induction
  <2>8. n - 1 \in Nat /\ (n - 1) + 1 = n /\ n \in 1 .. n
    BY <1>3
  <2>9. g[n] \in Seq(S) /\ Lists(g[n], Begun(e, n))
    BY <2>7, <2>8 DEF Done
  <2>10. Firsts(e) = Begun(e, n)
    BY <1>1 DEF Firsts, Begun
  <2> QED BY <2>1, <2>9, <2>10
<1> QED BY <1>2, <1>3

-----------------------------------------------------------------------------
(* The order of the names has each of them once.                           *)
LEMMA OrderIs ==
  \E k \in Nat : /\ Order \in [1 .. k -> Names] /\ DOMAIN Order = 1 .. k
                 /\ \A i, j \in 1 .. k : Order[i] = Order[j] => i = j
                 /\ \A n \in Names : \E i \in 1 .. k : Order[i] = n
<1> DEFINE k == Cardinality(Names)
<1>1. k \in Nat /\ IsFiniteSet(Names) /\ ExistsBijection(1 .. k, Names)
  BY ObjectAssumption, FS_CardinalityType
<1>2. \E f \in [1 .. k -> Names] : IsInjective(f)
  BY <1>1 DEF ExistsBijection, Bijection, Injection
<1>3. Order \in [1 .. k -> Names] /\ IsInjective(Order)
  BY <1>2 DEF Order, SetToSeq
<1>4. Cardinality(1 .. k) = k
  <2>1. Cardinality(1 .. k) = IF 1 > k THEN 0 ELSE k - 1 + 1
    BY <1>1, FS_Interval
  <2> QED BY <1>1, <2>1
<1>5. Order \in Injection(1 .. k, Names)
  BY <1>3 DEF Injection
<1>6. Order \in Surjection(1 .. k, Names)
  BY <1>1, <1>4, <1>5, FS_Injection
<1> HIDE DEF k
<1>7. DOMAIN Order = 1 .. k
  BY <1>3
<1> QED BY <1>1, <1>3, <1>6, <1>7 DEF IsInjective, Surjection

(* The largest of finitely many numbers, and the least of any.             *)
LEMMA LargestOf ==
  ASSUME NEW n \in Nat, NEW I \in SUBSET (1 .. n), I # {}, NEW f, \A i \in I : f[i] \in Nat
  PROVE  \E i \in I : \A j \in I : f[j] <= f[i]
<1> DEFINE L == {k \in Nat : I \cap (1 .. k) # {} =>
                    \E i \in I \cap (1 .. k) : \A j \in I \cap (1 .. k) : f[j] <= f[i]}
<1>1. 0 \in L
  OBVIOUS
<1>2. ASSUME NEW k \in Nat, k \in L PROVE k + 1 \in L
  <2>1. CASE k + 1 \notin I
    <3>1. I \cap (1 .. k + 1) = I \cap (1 .. k)
      BY <2>1
    <3> QED BY <1>2, <3>1
  <2>2. CASE k + 1 \in I /\ I \cap (1 .. k) = {}
    <3>1. I \cap (1 .. k + 1) = {k + 1}
      BY <2>2
    <3> QED BY <2>2, <3>1
  <2>3. CASE k + 1 \in I /\ I \cap (1 .. k) # {}
    <3>1. PICK i \in I \cap (1 .. k) : \A j \in I \cap (1 .. k) : f[j] <= f[i]
      BY <1>2, <2>3
    <3>2. \A j \in I \cap (1 .. k + 1) : j \in I \cap (1 .. k) \/ j = k + 1
      OBVIOUS
    <3>3. f[i] \in Nat /\ f[k + 1] \in Nat /\ i \in I \cap (1 .. k + 1) /\ k + 1 \in I \cap (1 .. k + 1)
      BY <2>3
    <3>4. CASE f[i] <= f[k + 1]
      <4>1. \A j \in I \cap (1 .. k + 1) : f[j] <= f[k + 1]
        BY <3>1, <3>2, <3>3, <3>4
      <4> QED BY <3>3, <4>1
    <3>5. CASE ~(f[i] <= f[k + 1])
      <4>1. \A j \in I \cap (1 .. k + 1) : f[j] <= f[i]
        BY <3>1, <3>2, <3>3, <3>5
      <4> QED BY <3>3, <4>1
    <3> QED BY <3>4, <3>5
  <2> QED BY <2>1, <2>2, <2>3
<1> HIDE DEF L
<1>3. n \in L
  BY <1>1, <1>2, Induction
<1>4. I \cap (1 .. n) = I
  OBVIOUS
<1> QED BY <1>3, <1>4 DEF L

LEMMA MaxIs ==
  ASSUME NEW n \in Nat, NEW I \in SUBSET (1 .. n), I # {}, NEW f, \A i \in I : f[i] \in Nat
  PROVE  /\ \E i \in I : Max({f[j] : j \in I}) = f[i]
         /\ \A i \in I : f[i] <= Max({f[j] : j \in I})
         /\ Max({f[j] : j \in I}) \in Nat
<1>1. PICK i \in I : \A j \in I : f[j] <= f[i]
  BY LargestOf
<1> DEFINE T == {f[j] : j \in I}
<1>2. f[i] \in T /\ T \subseteq Nat /\ \A y \in T : f[i] >= y
  BY <1>1
<1>3. Max(T) \in T /\ \A y \in T : Max(T) >= y
  BY <1>2 DEF Max
<1> QED BY <1>2, <1>3

LEMMA MinIs ==
  ASSUME NEW T \in SUBSET Nat, T # {}
  PROVE  Min(T) \in T /\ \A x \in T : Min(T) <= x
<1> DEFINE N == {k \in Nat : \A x \in T : ~(x < k)}
<1>1. \E x \in T : \A y \in T : x <= y
  <2> SUFFICES ASSUME \A x \in T : \E y \in T : ~(x <= y) PROVE FALSE
    OBVIOUS
  <2>1. 0 \in N
    OBVIOUS
  <2>2. \A k \in Nat : k \in N => k + 1 \in N
    <3> SUFFICES ASSUME NEW k \in Nat, k \in N PROVE k + 1 \in N
      OBVIOUS
    <3>1. k \notin T
      <4> SUFFICES ASSUME k \in T PROVE FALSE
        OBVIOUS
      <4>1. PICK y \in T : ~(k <= y)
        OBVIOUS
      <4> QED BY <4>1
    <3>2. \A x \in T : x # k /\ ~(x < k) /\ x \in Nat
      BY <3>1
    <3> QED BY <3>2
  <2> HIDE DEF N
  <2>3. Nat \subseteq N
    BY <2>1, <2>2, Induction
  <2>4. PICK x \in T : TRUE
    OBVIOUS
  <2>5. x + 1 \in N
    BY <2>3
  <2> QED BY <2>5 DEF N
<1> QED BY <1>1 DEF Min

(* The names, each with a sequence of at most one statement.               *)
LEMMA EachLists ==
  ASSUME NEW S, NEW f \in [Names -> Seq(S)], \A n \in Names : Len(f[n]) <= 1
  PROVE  LET e == [i \in DOMAIN Order |-> f[Order[i]]]
         IN  /\ FlattenSeq(e) \in Seq(S)
             /\ Lists(FlattenSeq(e), [n \in {n \in Names : f[n] # <<>>} |-> f[n][1]])
<1> DEFINE e == [i \in DOMAIN Order |-> f[Order[i]]]
           w == [n \in {n \in Names : f[n] # <<>>} |-> f[n][1]]
<1>1. PICK k \in Nat : /\ Order \in [1 .. k -> Names] /\ DOMAIN Order = 1 .. k
                       /\ \A i, j \in 1 .. k : Order[i] = Order[j] => i = j
                       /\ \A n \in Names : \E i \in 1 .. k : Order[i] = n
  BY OrderIs
<1>2. \A i \in 1 .. k : Order[i] \in Names /\ e[i] = f[Order[i]]
  BY <1>1
<1>3. DOMAIN e = 1 .. k /\ \A i \in 1 .. k : e[i] \in Seq(S) /\ Len(e[i]) <= 1
  BY <1>1, <1>2
<1>4. e \in [1 .. k -> Seq(S)]
  BY <1>1, <1>2
<1>5. e \in Seq(Seq(S))
  BY <1>1, <1>4, IsASeq
<1>6. Len(e) = k
  BY <1>1, <1>3, <1>5, LenProperties
<1> HIDE DEF e
<1>7. FlattenSeq(e) \in Seq(S) /\ Lists(FlattenSeq(e), Firsts(e))
  BY ONLY <1>3, <1>5, <1>6, k \in Nat, FlattenLists
<1> DEFINE v == Firsts(e)
           h == [i \in DOMAIN v |-> Order[i]]
<1>8. /\ DOMAIN v = {i \in 1 .. k : f[Order[i]] # <<>>}
      /\ \A i \in DOMAIN v : v[i] = f[Order[i]][1]
  BY <1>2, <1>3 DEF Firsts
<1>9. DOMAIN w = {n \in Names : f[n] # <<>>} /\ \A n \in DOMAIN w : w[n] = f[n][1]
  OBVIOUS
<1> HIDE DEF v, w
<1>10. \A i \in DOMAIN v : i \in 1 .. k /\ h[i] = Order[i] /\ h[i] \in DOMAIN w /\ w[h[i]] = v[i]
  BY <1>2, <1>8, <1>9
<1>11. h \in [DOMAIN v -> DOMAIN w]
  BY <1>10
<1>12. \A i, j \in DOMAIN v : h[i] = h[j] => i = j
  BY <1>1, <1>10
<1>13. \A n \in DOMAIN w : \E i \in DOMAIN v : h[i] = n
  <2> SUFFICES ASSUME NEW n \in DOMAIN w PROVE \E i \in DOMAIN v : h[i] = n
    OBVIOUS
  <2>1. n \in Names /\ f[n] # <<>>
    BY <1>9
  <2>2. PICK i \in 1 .. k : Order[i] = n
    BY <1>1, <2>1
  <2>3. i \in DOMAIN v
    BY <1>8, <2>1, <2>2
  <2> QED BY <2>2, <2>3
<1> HIDE DEF h
<1>14. \A i \in DOMAIN v : w[h[i]] = v[i]
  BY <1>10
<1>15. Lists(FlattenSeq(e), w)
  BY <1>7, <1>11, <1>12, <1>13, <1>14, ListsRenamed DEF v
<1> QED BY <1>7, <1>15 DEF e, w

-----------------------------------------------------------------------------
(* The units that are linked, and what becomes of their statements.        *)
UnitsTyped ==
  /\ units \in Seq(Range(units)) /\ units # <<>>
  /\ \A i \in DOMAIN units : IsUnit(units[i])

NewNamesType == (Names \cup {""}) \X Nat
Outs == [from : Nat, k : Kinds, n : NewNamesType, to : NewNamesType, size : Nat, align : Nat]

LEMMA UnitsAre ==
  ASSUME UnitsTyped
  PROVE  /\ Len(units) \in Nat /\ Len(units) >= 1 /\ DOMAIN units = 1 .. Len(units)
         /\ \A i \in DOMAIN units :
              /\ Len(units[i]) \in Nat /\ DOMAIN units[i] = 1 .. Len(units[i])
              /\ \A j \in DOMAIN units[i] : IsStatement(units[i][j])
<1>1. Len(units) \in Nat /\ DOMAIN units = 1 .. Len(units) /\ Len(units) # 0
  BY LenProperties, EmptySeq DEF UnitsTyped
<1>2. ASSUME NEW i \in DOMAIN units
      PROVE  /\ Len(units[i]) \in Nat /\ DOMAIN units[i] = 1 .. Len(units[i])
             /\ \A j \in DOMAIN units[i] : IsStatement(units[i][j])
  <2>1. PICK u : u = units[i] /\ IsUnit(u)
    BY DEF UnitsTyped
  <2>2. Len(u) \in Nat /\ DOMAIN u = 1 .. Len(u)
    BY <2>1, LenProperties DEF IsUnit
  <2> QED BY <2>1, <2>2 DEF IsUnit
<1> QED BY <1>1, <1>2

LEMMA RewrittenIs ==
  ASSUME UnitsTyped, NEW i \in DOMAIN units, NEW s, IsStatement(s)
  PROVE  /\ Rewritten(i, s) \in Seq(Outs) /\ Len(Rewritten(i, s)) <= 1
         /\ Rewritten(i, s) = <<>> <=> s.k = "weak" \/ (s.k = "comm" /\ External(units[i], s.n))
         /\ Rewritten(i, s) # <<>> =>
              /\ Rewritten(i, s)[1].from = i /\ Rewritten(i, s)[1].k = s.k
              /\ Rewritten(i, s)[1].n = NewName(i, s.n, s.k)
              /\ s.k = "set" => Rewritten(i, s)[1].to = NewName(i, s.to, "set")
              /\ s.k # "set" => Rewritten(i, s)[1].to = None
<1>1. s.k \in Kinds /\ s.n \in Names /\ s.size \in Nat /\ s.align \in Nat /\ (s.k = "set" => s.to \in Names)
  BY DEF IsStatement
<1>2. i \in Nat
  BY UnitsAre
<1>3. \A n \in Names, k \in Kinds : NewName(i, n, k) \in NewNamesType
  BY <1>2 DEF NewName, NewNamesType
<1>4. None \in NewNamesType
  BY DEF None, NewNamesType
<1>5. CASE s.k = "weak" \/ (s.k = "comm" /\ External(units[i], s.n))
  <2>1. Rewritten(i, s) = <<>>
    BY <1>5 DEF Rewritten
  <2> QED BY <1>5, <2>1
<1>6. CASE s.k = "set"
  <2> DEFINE o == Out(i, "set", NewName(i, s.n, "set"), NewName(i, s.to, "set"), 0, 0)
  <2>1. Rewritten(i, s) = <<o>>
    BY <1>6 DEF Rewritten
  <2>2. o \in Outs
    BY <1>1, <1>2, <1>3, <1>6 DEF Out, Outs, Kinds
  <2>3. o.from = i /\ o.k = "set" /\ o.n = NewName(i, s.n, "set") /\ o.to = NewName(i, s.to, "set")
    BY DEF Out
  <2> HIDE DEF o
  <2> QED BY <1>6, <2>1, <2>2, <2>3
<1>7. CASE s.k \notin {"weak", "set"} /\ ~(s.k = "comm" /\ External(units[i], s.n))
  <2> DEFINE o == Out(i, s.k, NewName(i, s.n, s.k), None, s.size, s.align)
  <2>1. Rewritten(i, s) = <<o>>
    BY <1>7 DEF Rewritten
  <2>2. o \in Outs
    BY <1>1, <1>2, <1>3, <1>4 DEF Out, Outs
  <2>3. o.from = i /\ o.k = s.k /\ o.n = NewName(i, s.n, s.k) /\ o.to = None
    BY DEF Out
  <2> HIDE DEF o
  <2> QED BY <1>7, <2>1, <2>2, <2>3
<1> QED BY <1>5, <1>6, <1>7

LEMMA RewriteUnitLists ==
  ASSUME UnitsTyped, NEW i \in DOMAIN units
  PROVE  /\ RewriteUnit(i) \in Seq(Outs)
         /\ Lists(RewriteUnit(i), [j \in {j \in DOMAIN units[i] : Rewritten(i, units[i][j]) # <<>>}
                                     |-> Rewritten(i, units[i][j])[1]])
<1> DEFINE e == [j \in DOMAIN units[i] |-> Rewritten(i, units[i][j])]
<1>1. PICK l \in Nat : DOMAIN units[i] = 1 .. l /\ \A j \in 1 .. l : IsStatement(units[i][j])
  BY UnitsAre
<1>2. DOMAIN e = 1 .. l /\ \A j \in 1 .. l : e[j] \in Seq(Outs) /\ Len(e[j]) <= 1
  BY <1>1, RewrittenIs
<1>3. e \in [1 .. l -> Seq(Outs)]
  BY <1>2
<1>4. e \in Seq(Seq(Outs))
  BY <1>3, IsASeq
<1>5. Len(e) = l
  BY <1>2, <1>4, LenProperties
<1>6. Firsts(e) = [j \in {j \in DOMAIN units[i] : Rewritten(i, units[i][j]) # <<>>}
                     |-> Rewritten(i, units[i][j])[1]]
  BY DEF Firsts
<1>7. RewriteUnit(i) = FlattenSeq(e)
  BY DEF RewriteUnit
<1> HIDE DEF e
<1>8. FlattenSeq(e) \in Seq(Outs) /\ Lists(FlattenSeq(e), Firsts(e))
  BY ONLY <1>2, <1>4, <1>5, l \in Nat, FlattenLists
<1> QED BY <1>6, <1>7, <1>8

-----------------------------------------------------------------------------
(* The winner of a name.                                                   *)
LEMMA PriorityIs ==
  ASSUME NEW u, NEW n
  PROVE  /\ Priority(u, n) \in 0 .. 3
         /\ Priority(u, n) = 3 <=> External(u, n) /\ Strong(u, n) /\ ~Weak(u, n)
         /\ Priority(u, n) = 2 <=> External(u, n) /\ ~Strong(u, n) /\ Common(u, n)
         /\ Priority(u, n) = 1 <=> External(u, n) /\ Strong(u, n) /\ Weak(u, n)
<1>1. CASE ~External(u, n)
  <2>1. Priority(u, n) = 0
    BY <1>1 DEF Priority
  <2> QED BY <1>1, <2>1
<1>2. CASE External(u, n) /\ Strong(u, n)
  <2>1. Priority(u, n) = IF Weak(u, n) THEN 1 ELSE 3
    BY <1>2 DEF Priority
  <2> QED BY <1>2, <2>1
<1>3. CASE External(u, n) /\ ~Strong(u, n) /\ Common(u, n)
  <2>1. Priority(u, n) = 2
    BY <1>3 DEF Priority
  <2> QED BY <1>3, <2>1
<1>4. CASE External(u, n) /\ ~Strong(u, n) /\ ~Common(u, n)
  <2>1. Priority(u, n) = 0
    BY <1>4 DEF Priority
  <2> QED BY <1>4, <2>1
<1> QED BY <1>1, <1>2, <1>3, <1>4

LEMMA RankIs ==
  ASSUME UnitsTyped, NEW n
  PROVE  /\ Rank(n) \in 0 .. 3
         /\ \E i \in DOMAIN units : Priority(units[i], n) = Rank(n)
         /\ \A i \in DOMAIN units : Priority(units[i], n) <= Rank(n)
<1>1. PICK k \in Nat : k >= 1 /\ DOMAIN units = 1 .. k
  BY UnitsAre
<1> DEFINE f == [i \in 1 .. k |-> Priority(units[i], n)]
           I == 1 .. k
<1>2. \A i \in I : f[i] \in Nat /\ f[i] = Priority(units[i], n) /\ f[i] \in 0 .. 3
  BY PriorityIs
<1>3. {f[i] : i \in I} = {Priority(units[i], n) : i \in DOMAIN units}
  BY <1>1, <1>2
<1>4. I \in SUBSET (1 .. k) /\ I # {}
  BY <1>1
<1> HIDE DEF f, I
<1>5. /\ \E i \in I : Max({f[j] : j \in I}) = f[i]
      /\ \A i \in I : f[i] <= Max({f[j] : j \in I})
  BY <1>2, <1>4, MaxIs
<1>6. Rank(n) = Max({f[j] : j \in I})
  BY <1>3 DEF Rank
<1> QED BY <1>1, <1>2, <1>5, <1>6 DEF I

LEMMA WinnerIs ==
  ASSUME UnitsTyped, NEW n, Rank(n) # 0
  PROVE  /\ Winner(n) \in DOMAIN units
         /\ Priority(units[Winner(n)], n) = Rank(n)
         /\ \A i \in DOMAIN units : Priority(units[i], n) = Rank(n) => Winner(n) <= i
<1> DEFINE T == {i \in DOMAIN units : Priority(units[i], n) = Rank(n)}
<1>1. T \in SUBSET Nat /\ T # {}
  BY RankIs, UnitsAre
<1>2. Winner(n) = Min(T)
  BY DEF Winner
<1> HIDE DEF T
<1>3. Min(T) \in T /\ \A x \in T : Min(T) <= x
  BY <1>1, MinIs
<1> QED BY <1>2, <1>3 DEF T

(* What the scan and the end of the first pass have made sure of.          *)
NoConflict ==
  /\ \A i \in DOMAIN units : ~ScanRefuses(units[i])
  /\ \A n \in Names : ~TwoStrong(n)

LEMMA StrongWins ==
  ASSUME UnitsTyped, NoConflict, NEW n \in Names, NEW i \in DOMAIN units,
         External(units[i], n), Strong(units[i], n), ~Weak(units[i], n)
  PROVE  Rank(n) = 3 /\ Winner(n) = i
<1>1. Priority(units[i], n) = 3 /\ Rank(n) = 3
  BY PriorityIs, RankIs
<1>2. PICK w \in DOMAIN units : w = Winner(n) /\ Priority(units[w], n) = 3
  BY <1>1, WinnerIs
<1>3. w \in Nat /\ i \in Nat
  BY UnitsAre
<1>4. ~(w < i) /\ ~(i < w)
  BY <1>1, <1>2 DEF NoConflict, TwoStrong
<1> QED BY <1>1, <1>2, <1>3, <1>4

LEMMA CommonsRank ==
  ASSUME UnitsTyped, NoConflict, NEW n \in Names
  PROVE  CommonUnits(n) # {} /\ Rank(n) # 3 <=> Rank(n) = 2
<1>1. ASSUME NEW i \in DOMAIN units, External(units[i], n), Common(units[i], n)
      PROVE  Priority(units[i], n) = 2
  BY <1>1, PriorityIs DEF NoConflict, ScanRefuses
<1>2. ASSUME CommonUnits(n) # {}, Rank(n) # 3 PROVE Rank(n) = 2
  BY <1>1, <1>2, RankIs DEF CommonUnits
<1>3. ASSUME Rank(n) = 2 PROVE CommonUnits(n) # {}
  <2>1. PICK i \in DOMAIN units : Priority(units[i], n) = 2
    BY <1>3, RankIs
  <2> QED BY <2>1, PriorityIs DEF CommonUnits
<1> QED BY <1>2, <1>3

(* Only the winner, or the merged common, defines a name for all units.    *)
LEMMA PublicIsWinner ==
  ASSUME UnitsTyped, NoConflict, NEW i \in DOMAIN units, NEW j \in DOMAIN units[i],
         units[i][j].k \in {"label", "set", "comm"},
         Rewritten(i, units[i][j]) # <<>>,
         NewName(i, units[i][j].n, units[i][j].k) = <<units[i][j].n, 0>>
  PROVE  /\ units[i][j].k # "comm" /\ Strong(units[i], units[i][j].n)
         /\ External(units[i], units[i][j].n)
         /\ Winner(units[i][j].n) = i /\ Rank(units[i][j].n) \in {1, 3}
<1>1. PICK s : s = units[i][j] /\ IsStatement(s)
  BY UnitsAre
<1>2. PICK n \in Names : n = s.n
  BY <1>1 DEF IsStatement
<1>3. i \in Nat /\ i # 0
  BY UnitsAre
<1>4. ~Private(i, n) /\ ~Discarded(i, n, s.k)
  BY <1>1, <1>2, <1>3 DEF NewName
<1>5. ~(s.k = "comm" /\ External(units[i], n))
  BY <1>1, <1>2, RewrittenIs
<1>6. s.k = "comm" => Common(units[i], n)
  BY <1>1, <1>2 DEF Common, Says
<1>7. s.k # "comm"
  BY <1>4, <1>5, <1>6 DEF Private, Defined
<1>8. Strong(units[i], n)
  BY <1>1, <1>2, <1>7 DEF Strong, Says
<1>9. External(units[i], n)
  BY <1>4, <1>8 DEF Private, Defined
<1>10. CASE ~Weak(units[i], n)
  BY <1>1, <1>2, <1>7, <1>8, <1>9, <1>10, StrongWins
<1>11. CASE Weak(units[i], n)
  <2>1. Winner(n) = i
    BY <1>1, <1>4, <1>7, <1>8, <1>11 DEF Discarded
  <2>2. Rank(n) # 0
    BY <1>3, <2>1 DEF Winner
  <2>3. Priority(units[i], n) = Rank(n)
    BY <2>1, <2>2, WinnerIs
  <2>4. Rank(n) = 1
    BY <1>8, <1>9, <1>11, <2>3, PriorityIs
  <2> QED BY <1>1, <1>2, <1>7, <1>8, <1>9, <2>1, <2>4
<1> QED BY <1>10, <1>11

(* Whom a use reaches, in terms of the winner.                             *)
LEMMA ReachedIs ==
  ASSUME UnitsTyped, NoConflict, Len(units) # 1, NEW i \in DOMAIN units, NEW n \in Names,
         NEW alias \in BOOLEAN,
         ~Private(i, n), ~(alias /\ Strong(units[i], n))
  PROVE  Reached(i, n, alias) =
           IF Rank(n) = 0 THEN {} ELSE IF Rank(n) = 2 THEN {0} ELSE {Winner(n)}
<1> DEFINE strong == Made(n, [w \in DOMAIN units |-> Strong(units[w], n) /\ ~Weak(units[w], n)])
           common == Made(n, [w \in DOMAIN units |-> Common(units[w], n)])
           weak   == Made(n, [w \in DOMAIN units |-> Strong(units[w], n) /\ Weak(units[w], n)])
<1>1. strong = {w \in DOMAIN units : Priority(units[w], n) = 3}
  BY PriorityIs DEF Made
<1>2. common = CommonUnits(n)
  BY DEF Made, CommonUnits
<1>3. weak = {w \in DOMAIN units : Priority(units[w], n) = 1}
  BY PriorityIs DEF Made
<1>4. Reached(i, n, alias) = IF strong # {} THEN {Min(strong)}
                             ELSE IF common # {} THEN {0}
                             ELSE {w \in weak : \A v \in weak : w <= v}
  BY DEF Reached
<1> HIDE DEF strong, common, weak
<1>5. DOMAIN units \subseteq Nat
  BY UnitsAre
<1>6. Rank(n) \in 0 .. 3 /\ (\E w \in DOMAIN units : Priority(units[w], n) = Rank(n))
      /\ \A w \in DOMAIN units : Priority(units[w], n) <= Rank(n)
  BY RankIs
<1>7. CASE Rank(n) = 3
  <2>1. strong # {} /\ Winner(n) \in strong /\ \A w \in strong : Winner(n) <= w
    BY <1>1, <1>7, WinnerIs
  <2>2. strong \in SUBSET Nat
    BY <1>1, <1>5
  <2>3. Min(strong) \in strong /\ \A w \in strong : Min(strong) <= w
    BY <2>1, <2>2, MinIs
  <2>4. Min(strong) = Winner(n)
    <3>1. PICK a \in Nat : a = Min(strong) /\ a <= Winner(n)
      BY <2>1, <2>2, <2>3
    <3>2. PICK b \in Nat : b = Winner(n) /\ b <= a
      BY <2>1, <2>2, <2>3, <3>1
    <3>3. a <= b /\ b <= a
      BY <3>1, <3>2
    <3>4. a = b
      BY ONLY <3>3, a \in Nat, b \in Nat
    <3> QED BY ONLY <3>1, <3>2, <3>4
  <2> QED BY <1>4, <1>7, <2>1, <2>4
<1>8. strong # {} => Rank(n) = 3
  BY <1>1, <1>6
<1>9. CASE Rank(n) = 2
  BY <1>2, <1>4, <1>8, <1>9, CommonsRank
<1>10. CASE Rank(n) \in {0, 1}
  <2>1. common = {} /\ strong = {}
    BY <1>2, <1>8, <1>10, CommonsRank
  <2>2. CASE Rank(n) = 0
    <3>1. weak = {}
      <4> SUFFICES ASSUME NEW w \in weak PROVE FALSE
        OBVIOUS
      <4>1. w \in DOMAIN units /\ Priority(units[w], n) = 1 /\ Priority(units[w], n) <= Rank(n)
        BY <1>3, <1>6
      <4> QED BY <2>2, <4>1
    <3> QED BY <1>4, <2>1, <2>2, <3>1
  <2>3. CASE Rank(n) = 1
    <3>1. Winner(n) \in weak /\ \A w \in weak : Winner(n) <= w
      BY <1>3, <2>3, WinnerIs
    <3>2. weak \subseteq Nat
      BY <1>3, <1>5
    <3>3. {w \in weak : \A v \in weak : w <= v} = {Winner(n)}
      <4>1. PICK b \in weak : b = Winner(n) /\ \A w \in weak : b <= w
        BY <3>1
      <4>2. b \in Nat
        BY <3>2
      <4>3. \A w \in weak : (\A v \in weak : w <= v) => w = b
        BY ONLY <3>2, <4>1, <4>2, b \in weak
      <4> QED BY ONLY <4>1, <4>3, b \in weak
    <3> QED BY <1>4, <2>1, <2>3, <3>3
  <2> QED BY <1>10, <2>2, <2>3
<1> QED BY <1>6, <1>7, <1>9, <1>10

-----------------------------------------------------------------------------
(* What comes after the units: merged commons and weak imports.            *)
LEMMA CommonNumbers ==
  ASSUME NEW u, IsUnit(u), NEW n, Common(u, n)
  PROVE  CommonSize(u, n) \in Nat /\ CommonAlign(u, n) \in Nat
<1>1. PICK l \in Nat : DOMAIN u = 1 .. l
  BY LenProperties DEF IsUnit
<1>2. \A i \in DOMAIN u : u[i].size \in Nat /\ u[i].align \in Nat
  BY DEF IsUnit, IsStatement
<1>3. CommonsOf(u, n) # {} /\ CommonsOf(u, n) \subseteq 1 .. l
  BY <1>1 DEF CommonsOf, Common, Says
<1>4. CommonSize(u, n) \in Nat
  <2> DEFINE T == {i \in CommonsOf(u, n) : u[i].size # 0}
  <2>1. CASE T = {}
    BY <2>1 DEF CommonSize
  <2>2. CASE T # {}
    <3>1. T \in SUBSET Nat /\ T \subseteq 1 .. l
      BY <1>3
    <3> HIDE DEF T
    <3>2. Min(T) \in T
      BY <2>2, <3>1, MinIs
    <3>3. u[Min(T)].size \in Nat
      BY <1>1, <1>2, <3>1, <3>2
    <3>4. CommonSize(u, n) = u[Min(T)].size
      BY <2>2 DEF CommonSize, T
    <3> QED BY <3>3, <3>4
  <2> QED BY <2>1, <2>2
<1>5. CommonAlign(u, n) \in Nat
  <2> DEFINE f == [i \in 1 .. l |-> u[i].align]
             I == CommonsOf(u, n)
  <2>1. \A i \in I : f[i] \in Nat /\ f[i] = u[i].align
    BY <1>1, <1>2, <1>3
  <2>2. {f[i] : i \in I} = {u[i].align : i \in I}
    BY <2>1
  <2>3. I \in SUBSET (1 .. l) /\ I # {}
    BY <1>3
  <2>5. CommonAlign(u, n) = Max({f[j] : j \in I})
    BY <2>2 DEF CommonAlign
  <2> HIDE DEF f, I
  <2>4. Max({f[j] : j \in I}) \in Nat
    BY <2>1, <2>3, MaxIs
  <2> QED BY <2>4, <2>5
<1> QED BY <1>4, <1>5

LEMMA CommonsIs ==
  ASSUME UnitsTyped, NEW n \in Names
  PROVE  /\ Commons(n) \in Seq(Outs) /\ Len(Commons(n)) <= 1
         /\ Commons(n) # <<>> <=> CommonUnits(n) # {} /\ Rank(n) # 3
         /\ Commons(n) # <<>> =>
              /\ Commons(n)[1].from = 0 /\ Commons(n)[1].k = "comm" /\ Commons(n)[1].n = <<n, 0>>
              /\ Commons(n)[1].to = None
              /\ \A i \in CommonUnits(n) : /\ CommonSize(units[i], n) <= Commons(n)[1].size
                                           /\ CommonAlign(units[i], n) <= Commons(n)[1].align
<1>1. PICK k \in Nat : DOMAIN units = 1 .. k
  BY UnitsAre
<1> DEFINE I == CommonUnits(n)
           f == [i \in 1 .. k |-> CommonSize(units[i], n)]
           g == [i \in 1 .. k |-> CommonAlign(units[i], n)]
           c == Out(0, "comm", <<n, 0>>, None, Max({f[j] : j \in I}), Max({g[j] : j \in I}))
<1>2. CASE I = {} \/ Rank(n) = 3
  <2>1. Commons(n) = <<>>
    BY <1>2 DEF Commons
  <2> QED BY <1>2, <2>1
<1>3. CASE I # {} /\ Rank(n) # 3
  <2>1. /\ \A i \in I : f[i] = CommonSize(units[i], n) /\ f[i] \in Nat
        /\ \A i \in I : g[i] = CommonAlign(units[i], n) /\ g[i] \in Nat
    BY <1>1, CommonNumbers DEF CommonUnits, UnitsTyped
  <2>2. I \in SUBSET (1 .. k)
    BY <1>1 DEF CommonUnits
  <2>3. /\ {f[i] : i \in I} = {CommonSize(units[i], n) : i \in I}
        /\ {g[i] : i \in I} = {CommonAlign(units[i], n) : i \in I}
    BY <2>1
  <2>4. Commons(n) = <<c>>
    BY <1>3, <2>3 DEF Commons
  <2> HIDE DEF I, f, g
  <2>5. /\ Max({f[j] : j \in I}) \in Nat /\ \A i \in I : f[i] <= Max({f[j] : j \in I})
        /\ Max({g[j] : j \in I}) \in Nat /\ \A i \in I : g[i] <= Max({g[j] : j \in I})
    <3>0. \A i \in I : f[i] \in Nat
      BY <2>1
    <3>1. Max({f[j] : j \in I}) \in Nat /\ \A i \in I : f[i] <= Max({f[j] : j \in I})
      BY ONLY <1>3, <2>2, <3>0, k \in Nat, MaxIs
    <3>2. \A i \in I : g[i] \in Nat
      BY <2>1
    <3>3. Max({g[j] : j \in I}) \in Nat /\ \A i \in I : g[i] <= Max({g[j] : j \in I})
      BY ONLY <1>3, <2>2, <3>2, k \in Nat, MaxIs
    <3> QED BY ONLY <3>1, <3>3
  <2>6. <<n, 0>> \in NewNamesType /\ None \in NewNamesType
    BY DEF NewNamesType, None
  <2>7. c \in Outs
    BY <2>5, <2>6 DEF Out, Outs, Kinds
  <2>8. /\ c.from = 0 /\ c.k = "comm" /\ c.n = <<n, 0>> /\ c.to = None
        /\ c.size = Max({f[j] : j \in I}) /\ c.align = Max({g[j] : j \in I})
    BY DEF Out
  <2> HIDE DEF c
  <2>9. Commons(n) \in Seq(Outs) /\ Len(Commons(n)) <= 1 /\ Commons(n) # <<>> /\ Commons(n)[1] = c
    BY <2>4, <2>7
  <2>10. \A i \in I : CommonSize(units[i], n) <= c.size /\ CommonAlign(units[i], n) <= c.align
    BY <2>1, <2>5, <2>8
  <2> QED BY <1>3, <2>8, <2>9, <2>10 DEF I
<1> QED BY <1>2, <1>3

LEMMA WeakImportIs ==
  ASSUME NEW n \in Names
  PROVE  /\ WeakImport(n) \in Seq(Outs) /\ Len(WeakImport(n)) <= 1
         /\ WeakImport(n) # <<>> <=>
              /\ Rank(n) = 0 /\ ~StrongReference(n)
              /\ \E i \in DOMAIN units : External(units[i], n) /\ Weak(units[i], n)
         /\ WeakImport(n) # <<>> =>
              /\ WeakImport(n)[1].from = 0 /\ WeakImport(n)[1].k = "weak"
              /\ WeakImport(n)[1].n = <<n, 0>> /\ WeakImport(n)[1].to = None
<1> DEFINE c == Out(0, "weak", <<n, 0>>, None, 0, 0)
           P == /\ Rank(n) = 0 /\ ~StrongReference(n)
                /\ \E i \in DOMAIN units : External(units[i], n) /\ Weak(units[i], n)
<1>1. WeakImport(n) = IF P THEN <<c>> ELSE <<>>
  BY DEF WeakImport
<1>2. <<n, 0>> \in NewNamesType /\ None \in NewNamesType
  BY DEF NewNamesType, None
<1>3. c \in Outs
  BY <1>2 DEF Out, Outs, Kinds
<1>4. c.from = 0 /\ c.k = "weak" /\ c.n = <<n, 0>> /\ c.to = None
  BY DEF Out
<1>5. P \in BOOLEAN
  OBVIOUS
<1>6. /\ WeakImport(n) \in Seq(Outs) /\ Len(WeakImport(n)) <= 1
      /\ WeakImport(n) # <<>> <=> P
      /\ WeakImport(n) # <<>> => WeakImport(n)[1] = c
  <2> HIDE DEF P, c
  <2>1. CASE P
    BY <1>1, <1>3, <2>1
  <2>2. CASE ~P
    BY <1>1, <2>2
  <2> QED BY <2>1, <2>2
<1> HIDE DEF c
<1> QED BY <1>4, <1>6

-----------------------------------------------------------------------------
(* The statements that are left of the first k units, by unit and place;   *)
(* with the merged commons under 0 and the weak imports under -1.          *)
RowsOf(k) == {e \in (1 .. k) \X Nat :
                e[2] \in DOMAIN units[e[1]] /\ Rewritten(e[1], units[e[1]][e[2]]) # <<>>}
RowOf(e) == Rewritten(e[1], units[e[1]][e[2]])[1]
Family(k) == [e \in RowsOf(k) |-> RowOf(e)]

CommonRows == {0} \X {n \in Names : Commons(n) # <<>>}
WeakRows == {-1} \X {n \in Names : WeakImport(n) # <<>>}
Whole == [e \in RowsOf(Len(units)) \cup CommonRows \cup WeakRows |->
            IF e[1] = 0 THEN Commons(e[2])[1]
            ELSE IF e[1] = -1 THEN WeakImport(e[2])[1]
            ELSE RowOf(e)]

LEMMA FamilyGrows ==
  ASSUME UnitsTyped, NEW k \in DOMAIN units, NEW t \in Seq(Outs), Lists(t, Family(k - 1))
  PROVE  t \o RewriteUnit(k) \in Seq(Outs) /\ Lists(t \o RewriteUnit(k), Family(k))
<1>1. k \in Nat /\ k >= 1
  BY UnitsAre
<1> DEFINE v == [j \in {j \in DOMAIN units[k] : Rewritten(k, units[k][j]) # <<>>}
                   |-> Rewritten(k, units[k][j])[1]]
           w == [e \in {e \in {k} \X Nat : e[2] \in DOMAIN units[k] /\ Rewritten(k, units[k][e[2]]) # <<>>}
                   |-> Rewritten(k, units[k][e[2]])[1]]
           h == [j \in DOMAIN v |-> <<k, j>>]
           r == RewriteUnit(k)
<1>2. r \in Seq(Outs) /\ Lists(r, v)
  BY RewriteUnitLists
<1>3. DOMAIN units[k] \subseteq Nat
  BY UnitsAre
<1>4. \A j \in DOMAIN v : h[j] \in DOMAIN w /\ w[h[j]] = v[j] /\ h[j] = <<k, j>>
  BY <1>3
<1>5. \A e \in DOMAIN w : e[2] \in DOMAIN v /\ h[e[2]] = e
  <2> SUFFICES ASSUME NEW e \in DOMAIN w PROVE e[2] \in DOMAIN v /\ h[e[2]] = e
    OBVIOUS
  <2>1. e \in {k} \X Nat /\ e[2] \in DOMAIN v
    OBVIOUS
  <2>2. e = <<k, e[2]>>
    BY <2>1
  <2> QED BY <2>1, <2>2
<1>6. h \in [DOMAIN v -> DOMAIN w]
  BY <1>4
<1>7. /\ \A d, e \in DOMAIN v : h[d] = h[e] => d = e
      /\ \A e \in DOMAIN w : \E d \in DOMAIN v : h[d] = e
      /\ \A d \in DOMAIN v : w[h[d]] = v[d]
  <2> HIDE DEF h, v, w
  <2>1. \A d, e \in DOMAIN v : h[d] = h[e] => d = e
    BY <1>4
  <2> QED BY <1>4, <1>5, <2>1
<1>8. Joins(Family(k), Family(k - 1), w)
  <2>1. DOMAIN Family(k) = RowsOf(k) /\ DOMAIN Family(k - 1) = RowsOf(k - 1)
    BY DEF Family
  <2>2. \A e \in RowsOf(k - 1) : e[1] \in 1 .. k - 1 /\ e \in RowsOf(k)
    BY <1>1 DEF RowsOf
  <2>3. \A e \in DOMAIN w : e[1] = k /\ e \in RowsOf(k) /\ w[e] = RowOf(e)
    BY <1>1 DEF RowsOf, RowOf
  <2>4. \A e \in RowsOf(k) : e \in RowsOf(k - 1) \/ e \in DOMAIN w
    <3> SUFFICES ASSUME NEW e \in RowsOf(k), e \notin RowsOf(k - 1) PROVE e \in DOMAIN w
      OBVIOUS
    <3>1. /\ e \in (1 .. k) \X Nat /\ e[2] \in DOMAIN units[e[1]]
          /\ Rewritten(e[1], units[e[1]][e[2]]) # <<>>
      BY DEF RowsOf
    <3>2. e[1] \in 1 .. k /\ e[2] \in Nat /\ e = <<e[1], e[2]>>
      BY <3>1
    <3>3. ~(e[1] \in 1 .. k - 1)
      <4> SUFFICES ASSUME e[1] \in 1 .. k - 1 PROVE FALSE
        OBVIOUS
      <4>1. e \in (1 .. k - 1) \X Nat
        BY <3>2
      <4> QED BY <3>1, <4>1 DEF RowsOf
    <3>4. e[1] = k
      BY <1>1, <3>2, <3>3
    <3> QED BY <3>1, <3>2, <3>4
  <2>5. RowsOf(k - 1) \cap DOMAIN w = {}
    <3> SUFFICES ASSUME NEW e \in RowsOf(k - 1), e \in DOMAIN w PROVE FALSE
      OBVIOUS
    <3>1. e[1] \in 1 .. k - 1 /\ e[1] = k
      BY <2>2, <2>3
    <3> QED BY <1>1, <3>1
  <2> HIDE DEF w
  <2> QED BY <2>1, <2>2, <2>3, <2>4, <2>5 DEF Joins, Family
<1> HIDE DEF v, w, h, r
<1>9. Lists(r, w)
  BY <1>2, <1>6, <1>7, ListsRenamed
<1>10. t \o r \in Seq(Outs)
  BY <1>2, ConcatProperties
<1>11. Lists(t \o r, Family(k))
  BY <1>2, <1>8, <1>9, ListsBoth
<1> QED BY <1>10, <1>11 DEF r

LEMMA TailLists ==
  ASSUME UnitsTyped
  PROVE  LET e == Each(Commons) \o Each(WeakImport)
         IN  /\ e \in Seq(Outs)
             /\ \A t \in Seq(Outs) : Lists(t, Family(Len(units))) =>
                  t \o e \in Seq(Outs) /\ Lists(t \o e, Whole)
<1> DEFINE f == [n \in Names |-> Commons(n)]
           g == [n \in Names |-> WeakImport(n)]
           a == Each(Commons)
           b == Each(WeakImport)
           cn == [n \in {n \in Names : Commons(n) # <<>>} |-> Commons(n)[1]]
           wn == [n \in {n \in Names : WeakImport(n) # <<>>} |-> WeakImport(n)[1]]
           c == [e \in CommonRows |-> Commons(e[2])[1]]
           w == [e \in WeakRows |-> WeakImport(e[2])[1]]
           x == [e \in RowsOf(Len(units)) \cup CommonRows |->
                   IF e[1] = 0 THEN Commons(e[2])[1] ELSE RowOf(e)]
<1>1. a \in Seq(Outs) /\ Lists(a, cn)
  <2>1. f \in [Names -> Seq(Outs)] /\ \A n \in Names : Len(f[n]) <= 1
    BY CommonsIs
  <2>2. \A i \in DOMAIN Order : Order[i] \in Names
    BY OrderIs
  <2>3. [i \in DOMAIN Order |-> Commons(Order[i])] = [i \in DOMAIN Order |-> f[Order[i]]]
    BY <2>2
  <2>4. cn = [n \in {n \in Names : f[n] # <<>>} |-> f[n][1]]
    OBVIOUS
  <2>5. a = FlattenSeq([i \in DOMAIN Order |-> f[Order[i]]])
    BY <2>3 DEF Each
  <2> HIDE DEF f, a, cn
  <2> QED BY <2>1, <2>4, <2>5, EachLists
<1>2. b \in Seq(Outs) /\ Lists(b, wn)
  <2>1. g \in [Names -> Seq(Outs)] /\ \A n \in Names : Len(g[n]) <= 1
    BY WeakImportIs
  <2>2. \A i \in DOMAIN Order : Order[i] \in Names
    BY OrderIs
  <2>3. [i \in DOMAIN Order |-> WeakImport(Order[i])] = [i \in DOMAIN Order |-> g[Order[i]]]
    BY <2>2
  <2>4. wn = [n \in {n \in Names : g[n] # <<>>} |-> g[n][1]]
    OBVIOUS
  <2>5. b = FlattenSeq([i \in DOMAIN Order |-> g[Order[i]]])
    BY <2>3 DEF Each
  <2> HIDE DEF g, b, wn
  <2> QED BY <2>1, <2>4, <2>5, EachLists
<1>3. Lists(a, c)
  <2> DEFINE h == [n \in DOMAIN cn |-> <<0, n>>]
  <2>1. \A n \in DOMAIN cn : h[n] \in DOMAIN c /\ h[n] = <<0, n>> /\ c[h[n]] = cn[n]
    BY DEF CommonRows
  <2>2. \A e \in DOMAIN c : e[2] \in DOMAIN cn /\ h[e[2]] = e
    BY DEF CommonRows
  <2>3. h \in [DOMAIN cn -> DOMAIN c]
    BY <2>1
  <2> HIDE DEF h, c, cn, a
  <2>4. \A d, e \in DOMAIN cn : h[d] = h[e] => d = e
    BY <2>1
  <2>5. /\ \A e \in DOMAIN c : \E d \in DOMAIN cn : h[d] = e
        /\ \A d \in DOMAIN cn : c[h[d]] = cn[d]
    BY <2>1, <2>2
  <2> QED BY <1>1, <2>3, <2>4, <2>5, ListsRenamed
<1>4. Lists(b, w)
  <2> DEFINE h == [n \in DOMAIN wn |-> <<-1, n>>]
  <2>1. \A n \in DOMAIN wn : h[n] \in DOMAIN w /\ h[n] = <<-1, n>> /\ w[h[n]] = wn[n]
    BY DEF WeakRows
  <2>2. \A e \in DOMAIN w : e[2] \in DOMAIN wn /\ h[e[2]] = e
    BY DEF WeakRows
  <2>3. h \in [DOMAIN wn -> DOMAIN w]
    BY <2>1
  <2> HIDE DEF h, w, wn, b
  <2>4. \A d, e \in DOMAIN wn : h[d] = h[e] => d = e
    BY <2>1
  <2>5. /\ \A e \in DOMAIN w : \E d \in DOMAIN wn : h[d] = e
        /\ \A d \in DOMAIN wn : w[h[d]] = wn[d]
    BY <2>1, <2>2
  <2> QED BY <1>2, <2>3, <2>4, <2>5, ListsRenamed
<1>5. /\ \A e \in RowsOf(Len(units)) : e[1] \in Int /\ e[1] >= 1
      /\ \A e \in CommonRows : e[1] = 0
      /\ \A e \in WeakRows : e[1] = -1
  BY UnitsAre DEF RowsOf, CommonRows, WeakRows
<1>6. Joins(x, Family(Len(units)), c)
  <2>1. /\ DOMAIN x = RowsOf(Len(units)) \cup CommonRows
        /\ DOMAIN Family(Len(units)) = RowsOf(Len(units)) /\ DOMAIN c = CommonRows
        /\ \A e \in RowsOf(Len(units)) : Family(Len(units))[e] = RowOf(e) /\ x[e] = RowOf(e)
        /\ \A e \in CommonRows : c[e] = Commons(e[2])[1] /\ x[e] = Commons(e[2])[1]
    BY <1>5 DEF Family
  <2>2. RowsOf(Len(units)) \cap CommonRows = {}
    BY <1>5
  <2> HIDE DEF x, c
  <2> QED BY <2>1, <2>2 DEF Joins
<1>7. Joins(Whole, x, w)
  <2>1. /\ DOMAIN Whole = DOMAIN x \cup WeakRows /\ DOMAIN w = WeakRows
        /\ \A e \in DOMAIN x : Whole[e] = x[e]
        /\ \A e \in WeakRows : w[e] = WeakImport(e[2])[1] /\ Whole[e] = w[e]
    BY <1>5 DEF Whole
  <2>2. DOMAIN x \cap WeakRows = {}
    BY <1>5
  <2> HIDE DEF x, w
  <2> QED BY <2>1, <2>2 DEF Joins
<1>12. a \o b \in Seq(Outs)
  BY <1>1, <1>2, ConcatProperties
<1> SUFFICES ASSUME NEW t \in Seq(Outs), Lists(t, Family(Len(units)))
             PROVE  t \o (a \o b) \in Seq(Outs) /\ Lists(t \o (a \o b), Whole)
  BY <1>12
<1> HIDE DEF a, b, c, w, x, f, g, cn, wn
<1>8. t \o a \in Seq(Outs) /\ Lists(t \o a, x)
  BY <1>1, <1>3, <1>6, ListsBoth, ConcatProperties
<1>9. (t \o a) \o b \in Seq(Outs) /\ Lists((t \o a) \o b, Whole)
  <2> DEFINE s == t \o a
  <2>1. s \in Seq(Outs) /\ Lists(s, x)
    BY <1>8
  <2> HIDE DEF s
  <2>2. s \o b \in Seq(Outs) /\ Lists(s \o b, Whole)
    BY <1>2, <1>4, <1>7, <2>1, ListsBoth, ConcatProperties
  <2> QED BY <2>2 DEF s
<1>10. t \o (a \o b) = (t \o a) \o b
  BY <1>1, <1>2, ConcatAssociative
<1> QED BY <1>9, <1>10

-----------------------------------------------------------------------------
(* What a finished text has, and that it has nothing else.                 *)
LEMMA TextIs ==
  ASSUME UnitsTyped, text \in Seq(Outs), Lists(text, Whole)
  PROVE  /\ \A x \in DOMAIN text :
              \/ \E i \in DOMAIN units : \E j \in DOMAIN units[i] :
                   Rewritten(i, units[i][j]) # <<>> /\ text[x] = Rewritten(i, units[i][j])[1]
              \/ \E n \in Names : Commons(n) # <<>> /\ text[x] = Commons(n)[1]
              \/ \E n \in Names : WeakImport(n) # <<>> /\ text[x] = WeakImport(n)[1]
         /\ \A i \in DOMAIN units : \A j \in DOMAIN units[i] :
              Rewritten(i, units[i][j]) # <<>> =>
                \E x \in DOMAIN text : text[x] = Rewritten(i, units[i][j])[1]
         /\ \A n \in Names : Commons(n) # <<>> => \E x \in DOMAIN text : text[x] = Commons(n)[1]
         /\ \A n \in Names : WeakImport(n) # <<>> => \E x \in DOMAIN text : text[x] = WeakImport(n)[1]
<1>1. PICK o \in [DOMAIN text -> DOMAIN Whole] :
        /\ \A x, y \in DOMAIN text : o[x] = o[y] => x = y
        /\ \A e \in DOMAIN Whole : \E x \in DOMAIN text : o[x] = e
        /\ \A x \in DOMAIN text : text[x] = Whole[o[x]]
  BY DEF Lists
<1>2. /\ DOMAIN Whole = RowsOf(Len(units)) \cup CommonRows \cup WeakRows
      /\ \A e \in RowsOf(Len(units)) : /\ e[1] \in DOMAIN units /\ e[2] \in DOMAIN units[e[1]]
                                       /\ Rewritten(e[1], units[e[1]][e[2]]) # <<>>
                                       /\ Whole[e] = Rewritten(e[1], units[e[1]][e[2]])[1]
      /\ \A e \in CommonRows : e[2] \in Names /\ Commons(e[2]) # <<>> /\ Whole[e] = Commons(e[2])[1]
      /\ \A e \in WeakRows : e[2] \in Names /\ WeakImport(e[2]) # <<>> /\ Whole[e] = WeakImport(e[2])[1]
  <2>1. /\ \A e \in RowsOf(Len(units)) : e[1] \in 1 .. Len(units) /\ e[1] # 0 /\ e[1] # -1
        /\ \A e \in CommonRows : e[1] = 0
        /\ \A e \in WeakRows : e[1] = -1
    BY UnitsAre DEF RowsOf, CommonRows, WeakRows
  <2>2. DOMAIN units = 1 .. Len(units)
    BY UnitsAre
  <2>3. DOMAIN Whole = RowsOf(Len(units)) \cup CommonRows \cup WeakRows
    BY DEF Whole
  <2>4. ASSUME NEW e \in RowsOf(Len(units))
        PROVE  /\ e[1] \in DOMAIN units /\ e[2] \in DOMAIN units[e[1]]
               /\ Rewritten(e[1], units[e[1]][e[2]]) # <<>>
               /\ Whole[e] = Rewritten(e[1], units[e[1]][e[2]])[1]
    <3>1. Whole[e] = RowOf(e)
      BY <2>1 DEF Whole
    <3> QED BY <2>1, <2>2, <3>1 DEF RowOf, RowsOf
  <2>5. ASSUME NEW e \in CommonRows
        PROVE  e[2] \in Names /\ Commons(e[2]) # <<>> /\ Whole[e] = Commons(e[2])[1]
    <3>1. Whole[e] = Commons(e[2])[1]
      BY <2>1 DEF Whole
    <3> QED BY <3>1 DEF CommonRows
  <2>6. ASSUME NEW e \in WeakRows
        PROVE  e[2] \in Names /\ WeakImport(e[2]) # <<>> /\ Whole[e] = WeakImport(e[2])[1]
    <3>1. Whole[e] = WeakImport(e[2])[1]
      BY <2>1 DEF Whole
    <3> QED BY <3>1 DEF WeakRows
  <2> QED BY <2>3, <2>4, <2>5, <2>6
<1>3. ASSUME NEW x \in DOMAIN text
      PROVE  \/ \E i \in DOMAIN units : \E j \in DOMAIN units[i] :
                   Rewritten(i, units[i][j]) # <<>> /\ text[x] = Rewritten(i, units[i][j])[1]
             \/ \E n \in Names : Commons(n) # <<>> /\ text[x] = Commons(n)[1]
             \/ \E n \in Names : WeakImport(n) # <<>> /\ text[x] = WeakImport(n)[1]
  <2>1. PICK e \in DOMAIN Whole : text[x] = Whole[e]
    BY <1>1
  <2> QED BY <1>2, <2>1
<1>4. \A e \in DOMAIN Whole : \E x \in DOMAIN text : text[x] = Whole[e]
  BY <1>1
<1>5. ASSUME NEW i \in DOMAIN units, NEW j \in DOMAIN units[i], Rewritten(i, units[i][j]) # <<>>
      PROVE  \E x \in DOMAIN text : text[x] = Rewritten(i, units[i][j])[1]
  <2>1. i \in 1 .. Len(units) /\ j \in Nat
    BY UnitsAre
  <2>2. PICK e : e = <<i, j>>
    OBVIOUS
  <2>3. e \in RowsOf(Len(units)) /\ e[1] = i /\ e[2] = j
    BY <1>5, <2>1, <2>2 DEF RowsOf
  <2> QED BY <1>2, <1>4, <2>3
<1>6. ASSUME NEW n \in Names, Commons(n) # <<>>
      PROVE  \E x \in DOMAIN text : text[x] = Commons(n)[1]
  <2>1. PICK e : e = <<0, n>>
    OBVIOUS
  <2>2. e \in CommonRows /\ e[2] = n
    BY <1>6, <2>1 DEF CommonRows
  <2> QED BY <1>2, <1>4, <2>2
<1>7. ASSUME NEW n \in Names, WeakImport(n) # <<>>
      PROVE  \E x \in DOMAIN text : text[x] = WeakImport(n)[1]
  <2>1. PICK e : e = <<-1, n>>
    OBVIOUS
  <2>2. e \in WeakRows /\ e[2] = n
    BY <1>7, <2>1 DEF WeakRows
  <2> QED BY <1>2, <1>4, <2>2
<1> QED BY <1>3, <1>5, <1>6, <1>7

-----------------------------------------------------------------------------
(* The image linker's passes over the aliases.                             *)
Passed(g, n) ==
  g = [r \in 0 .. n |-> IF r = 0 THEN Placed
                        ELSE Resolve(g[r - 1], text[((r - 1) % Len(text)) + 1])]

LEMMA PassedExists == \A n \in Nat : \E g : Passed(g, n)
<1> DEFINE F == {n \in Nat : \E g : Passed(g, n)}
           S(f, r) == Resolve(f, text[((r - 1) % Len(text)) + 1])
<1>1. 0 \in F
  <2>1. Passed([r \in 0 .. 0 |-> Placed], 0)
    BY DEF Passed
  <2> QED BY <2>1
<1>2. \A n \in Nat : n \in F => n + 1 \in F
  <2> SUFFICES ASSUME NEW n \in Nat, n \in F PROVE n + 1 \in F
    OBVIOUS
  <2>1. PICK g : Passed(g, n)
    OBVIOUS
  <2> DEFINE h == [r \in 0 .. n + 1 |-> IF r = 0 THEN Placed ELSE S(g[r - 1], r)]
  <2>2. \A r \in 0 .. n : g[r] = IF r = 0 THEN Placed ELSE S(g[r - 1], r)
    BY <2>1, Zenon DEF Passed
  <2> HIDE DEF S
  <2>3. \A r \in 0 .. n : h[r] = g[r]
    <3> SUFFICES ASSUME NEW r \in 0 .. n PROVE h[r] = g[r]
      OBVIOUS
    <3>1. r \in 0 .. n + 1
      OBVIOUS
    <3>2. h[r] = IF r = 0 THEN Placed ELSE S(g[r - 1], r)
      BY <3>1, Zenon
    <3> QED BY <2>2, <3>2, Zenon
  <2>4. \A r \in 0 .. n + 1 : h[r] = IF r = 0 THEN Placed ELSE S(h[r - 1], r)
    <3> SUFFICES ASSUME NEW r \in 0 .. n + 1, r # 0 PROVE h[r] = S(h[r - 1], r)
      BY Zenon
    <3>1. r - 1 \in 0 .. n
      OBVIOUS
    <3>2. h[r] = S(g[r - 1], r)
      BY Zenon
    <3>3. h[r - 1] = g[r - 1]
      BY <2>3, <3>1
    <3> QED BY <3>2, <3>3, Zenon
  <2>5. h = [r \in 0 .. n + 1 |-> h[r]]
    BY Zenon
  <2>6. Passed(h, n + 1)
    <3> HIDE DEF h
    <3>1. \A r \in 0 .. n + 1 :
            h[r] = IF r = 0 THEN Placed ELSE Resolve(h[r - 1], text[((r - 1) % Len(text)) + 1])
      BY <2>4 DEF S
    <3> QED BY <2>5, <3>1, Zenon DEF Passed
  <2> QED BY <2>6
<1> HIDE DEF F
<1>3. Nat \subseteq F
  BY <1>1, <1>2, Induction
<1> QED BY <1>3 DEF F

(* What the passes keep: a name that nothing defines and a place once      *)
(* found stay as they are, and an alias of what is nowhere is nowhere.     *)
Kept(f) ==
  /\ f \in [NewNames -> SUBSET Nat]
  /\ \A n \in NewNames : Defs(n) = {} \/ Placed[n] # {} => f[n] = Placed[n]
  /\ \A j \in Aliases : Defs(text[j].n) = {j} /\ Defs(text[j].to) = {} /\ Placed[text[j].to] = {} =>
       f[text[j].n] = {}

LEMMA PlacedKept == text \in Seq(Outs) => Kept(Placed)
<1> SUFFICES ASSUME text \in Seq(Outs) PROVE Kept(Placed)
  OBVIOUS
<1>1. DOMAIN text \subseteq Nat
  BY LenProperties
<1>2. \A n \in NewNames : Placed[n] = IF Defs(n) = {} THEN IF IsWeak(n) THEN {0} ELSE {}
                                      ELSE {j \in Defs(n) : text[j].k # "set"}
  BY DEF Placed
<1>3. Placed \in [NewNames -> SUBSET Nat]
  BY <1>1 DEF Placed, Defs
<1>4. \A j \in Aliases : text[j].n \in NewNames /\ text[j].k = "set"
  BY DEF Aliases, NewNames
<1>5. ASSUME NEW j \in Aliases, Defs(text[j].n) = {j} PROVE Placed[text[j].n] = {}
  <2>1. PICK n \in NewNames : n = text[j].n /\ Defs(n) = {j}
    BY <1>4, <1>5
  <2>2. Placed[n] = {i \in Defs(n) : text[i].k # "set"}
    BY <1>2, <2>1
  <2>3. Placed[n] = {}
    BY <1>4, <2>1, <2>2
  <2> QED BY <2>1, <2>3
<1> QED BY <1>3, <1>5 DEF Kept

LEMMA ResolveKeeps ==
  ASSUME text \in Seq(Outs), NEW f, Kept(f), NEW k \in DOMAIN text
  PROVE  /\ Kept(Resolve(f, text[k]))
         /\ \A n \in NewNames : f[n] # {} => Resolve(f, text[k])[n] = f[n]
         /\ k \in Aliases /\ Placed[text[k].to] # {} => Resolve(f, text[k])[text[k].n] # {}
<1>1. text[k].n \in NewNames /\ text[k].to \in NewNames
  BY DEF NewNames
<1>2. text[k].k = "set" <=> k \in Aliases
  BY DEF Aliases
<1>3. k \in Aliases => k \in Defs(text[k].n)
  BY DEF Aliases, Defs
<1>4. \A j \in Aliases : text[j].n \in NewNames /\ text[j].to \in NewNames
  BY DEF Aliases, NewNames
<1>5. CASE k \in Aliases /\ f[text[k].n] = {}
  <2> DEFINE g == [f EXCEPT ![text[k].n] = f[text[k].to]]
  <2>1. Resolve(f, text[k]) = g
    BY <1>2, <1>5 DEF Resolve
  <2>2. g \in [NewNames -> SUBSET Nat]
    BY <1>1 DEF Kept
  <2>3. \A n \in NewNames : g[n] = IF n = text[k].n THEN f[text[k].to] ELSE f[n]
    BY <1>1 DEF Kept
  <2> HIDE DEF g
  <2>4. ASSUME NEW n \in NewNames, Defs(n) = {} \/ Placed[n] # {}
        PROVE  g[n] = Placed[n]
    <3>1. f[n] = Placed[n]
      BY <2>4 DEF Kept
    <3>2. n # text[k].n
      BY <1>3, <1>5, <2>4, <3>1
    <3> QED BY <2>3, <3>1, <3>2
  <2>5. ASSUME NEW j \in Aliases, Defs(text[j].n) = {j}, Defs(text[j].to) = {}, Placed[text[j].to] = {}
        PROVE  g[text[j].n] = {}
    <3>1. f[text[j].n] = {}
      BY <2>5 DEF Kept
    <3>2. CASE text[j].n # text[k].n
      BY <1>4, <2>3, <3>1, <3>2
    <3>3. CASE text[j].n = text[k].n
      <4>1. k = j
        BY <1>3, <1>5, <2>5, <3>3
      <4>2. f[text[j].to] = {}
        BY <1>4, <2>5 DEF Kept
      <4> QED BY <1>4, <2>3, <4>1, <4>2
    <3> QED BY <3>2, <3>3
  <2>6. Kept(g)
    BY <2>2, <2>4, <2>5 DEF Kept
  <2>7. \A n \in NewNames : f[n] # {} => g[n] = f[n]
    BY <1>5, <2>3
  <2>8. Placed[text[k].to] # {} => g[text[k].n] # {}
    BY <1>1, <2>3 DEF Kept
  <2> QED BY <2>1, <2>6, <2>7, <2>8
<1>6. CASE ~(k \in Aliases /\ f[text[k].n] = {})
  <2>1. Resolve(f, text[k]) = f
    BY <1>2, <1>6 DEF Resolve
  <2> QED BY <1>6, <2>1
<1> QED BY <1>5, <1>6

LEMMA RoundsIs ==
  ASSUME text \in Seq(Outs)
  PROVE  /\ Len(text) \in Nat /\ DOMAIN text = 1 .. Len(text) /\ Rounds \in Nat
         /\ Aliases # {} => Len(text) <= Rounds
<1>1. Len(text) \in Nat /\ DOMAIN text = 1 .. Len(text)
  BY LenProperties
<1>2. IsFiniteSet(1 .. Len(text))
  BY <1>1, FS_Interval
<1>3. IsFiniteSet(Aliases)
  BY <1>1, <1>2, FS_Subset DEF Aliases
<1>4. Cardinality(Aliases) \in Nat
  BY <1>3, FS_CardinalityType
<1>5. Aliases # {} => Cardinality(Aliases) >= 1
  <2>1. Aliases # {} => Cardinality(Aliases) # 0
    BY <1>3, FS_EmptySet
  <2> QED BY <1>4, <2>1
<1>6. \A a, b \in Nat : a * b \in Nat /\ (b >= 1 => a <= a * b)
  <2> SUFFICES ASSUME NEW a \in Nat, NEW b \in Nat PROVE a * b \in Nat /\ (b >= 1 => a <= a * b)
    OBVIOUS
  <2>1. a * b \in Nat
    OBVIOUS
  <2>2. ASSUME b >= 1 PROVE a <= a * b
    <3>1. b - 1 \in Nat
      BY <2>2
    <3>2. a * (b - 1) >= 0 /\ a * b = a * (b - 1) + a
      BY <3>1
    <3>3. a * (b - 1) \in Int
      BY <3>1
    <3> QED BY <3>2, <3>3
  <2> QED BY <2>1, <2>2
<1> QED BY <1>1, <1>4, <1>5, <1>6 DEF Rounds

LEMMA PlacesAre ==
  ASSUME text \in Seq(Outs)
  PROVE  /\ Kept(Places)
         /\ \A j \in Aliases : Placed[text[j].to] # {} => Places[text[j].n] # {}
<1>1. Len(text) \in Nat /\ DOMAIN text = 1 .. Len(text) /\ Rounds \in Nat
  BY RoundsIs
<1> DEFINE g == CHOOSE g : g = [r \in 0 .. Rounds |-> IF r = 0 THEN Placed
                        ELSE Resolve(g[r - 1], text[((r - 1) % Len(text)) + 1])]
<1>2. \E h : Passed(h, Rounds)
  BY <1>1, PassedExists
<1>3. Passed(g, Rounds)
  BY <1>2 DEF Passed
<1>4. Places = g[Rounds]
  BY DEF Places
<1> HIDE DEF g
<1>5. \A r \in 0 .. Rounds : g[r] = IF r = 0 THEN Placed
                        ELSE Resolve(g[r - 1], text[((r - 1) % Len(text)) + 1])
  BY <1>3, Zenon DEF Passed
<1> DEFINE At(r) == ((r - 1) % Len(text)) + 1
           Done(r) == {j \in Aliases : j <= r}
           F == {r \in Nat : r \in 0 .. Rounds =>
                   /\ Kept(g[r])
                   /\ \A j \in Done(r) : Placed[text[j].to] # {} => g[r][text[j].n] # {}}
<1>6. Len(text) = 0 => Rounds = 0
  <2> SUFFICES ASSUME Len(text) = 0 PROVE Rounds = 0
    OBVIOUS
  <2>1. Aliases = {}
    BY <1>1 DEF Aliases
  <2>2. Cardinality(Aliases) = 0
    BY <2>1, FS_EmptySet
  <2> QED BY <2>2 DEF Rounds
<1>7. 0 \in F
  <2>1. g[0] = Placed
    BY <1>1, <1>5
  <2>2. Done(0) = {}
    BY <1>1 DEF Aliases
  <2> QED BY <2>1, <2>2, PlacedKept
<1>8. ASSUME NEW r \in Nat, r \in F PROVE r + 1 \in F
  <2> SUFFICES ASSUME r + 1 \in 0 .. Rounds
               PROVE  /\ Kept(g[r + 1])
                      /\ \A j \in Done(r + 1) : Placed[text[j].to] # {} => g[r + 1][text[j].n] # {}
    OBVIOUS
  <2>1. Kept(g[r]) /\ \A j \in Done(r) : Placed[text[j].to] # {} => g[r][text[j].n] # {}
    BY <1>1, <1>8
  <2>2. Len(text) > 0
    BY <1>1, <1>6
  <2>3. \A a, b \in Nat : b > 0 => a % b \in 0 .. b - 1 /\ (a < b => a % b = a)
    OBVIOUS
  <2>4. At(r + 1) \in DOMAIN text /\ (r + 1 <= Len(text) => At(r + 1) = r + 1)
    BY <1>1, <2>2, <2>3
  <2>5. g[r + 1] = Resolve(g[r], text[At(r + 1)])
    <3>1. r + 1 # 0 /\ (r + 1) - 1 = r
      OBVIOUS
    <3> QED BY <1>5, <3>1
  <2> HIDE DEF At
  <2>6. PICK k \in DOMAIN text : k = At(r + 1)
    BY <2>4
  <2>7. /\ Kept(Resolve(g[r], text[k]))
        /\ \A n \in NewNames : g[r][n] # {} => Resolve(g[r], text[k])[n] = g[r][n]
        /\ k \in Aliases /\ Placed[text[k].to] # {} => Resolve(g[r], text[k])[text[k].n] # {}
    BY <2>1, ResolveKeeps
  <2>8. ASSUME NEW j \in Done(r + 1), Placed[text[j].to] # {} PROVE g[r + 1][text[j].n] # {}
    <3>1. j \in Aliases /\ j \in DOMAIN text /\ text[j].n \in NewNames /\ j <= r + 1
      BY DEF Aliases, NewNames
    <3>2. CASE j <= r
      <4>1. g[r][text[j].n] # {}
        BY <2>1, <2>8, <3>1, <3>2
      <4> QED BY <2>5, <2>6, <2>7, <3>1, <4>1
    <3>3. CASE j = r + 1
      <4>1. k = j
        BY <1>1, <2>4, <2>6, <3>1, <3>3
      <4> QED BY <2>5, <2>6, <2>7, <2>8, <3>1, <4>1
    <3>4. j <= r \/ j = r + 1
      BY <1>1, <3>1
    <3> QED BY <3>2, <3>3, <3>4
  <2> QED BY <2>5, <2>6, <2>7, <2>8
<1> HIDE DEF F
<1>9. Rounds \in F
  BY <1>1, <1>7, <1>8, Induction
<1>10. Kept(g[Rounds]) /\ \A j \in Done(Rounds) : Placed[text[j].to] # {} => g[Rounds][text[j].n] # {}
  BY <1>1, <1>9 DEF F
<1>11. \A j \in Aliases : j \in Done(Rounds)
  <2> SUFFICES ASSUME NEW j \in Aliases PROVE j <= Rounds
    OBVIOUS
  <2>1. j \in 1 .. Len(text) /\ Len(text) <= Rounds
    BY <1>1, RoundsIs DEF Aliases
  <2> QED BY <1>1, <2>1
<1> QED BY <1>4, <1>10, <1>11

(* In a text that the image linker takes, what is used is defined or weak. *)
UsedName(s) == IF s.k = "set" THEN s.to ELSE s.n

LEMMA ImageBinds ==
  ASSUME text \in Seq(Outs), ~ImageRefuses, NEW x \in DOMAIN text, text[x].k \in {"ref", "set"}
  PROVE  Defs(UsedName(text[x])) # {} \/ IsWeak(UsedName(text[x]))
<1>1. PICK n \in NewNames : n = text[x].n
  BY DEF NewNames
<1>2. PICK name \in NewNames : name = UsedName(text[x])
  BY DEF NewNames, UsedName
<1>3. Places[n] # {}
  BY <1>1 DEF ImageRefuses
<1>4. Kept(Places)
  BY PlacesAre
<1> SUFFICES ASSUME Defs(name) = {}, ~IsWeak(name) PROVE FALSE
  BY <1>2
<1>5. Placed[name] = {}
  BY <1>2 DEF Placed
<1>6. CASE text[x].k = "ref"
  <2>1. name = n
    BY <1>1, <1>2, <1>6 DEF UsedName
  <2> QED BY <1>3, <1>4, <1>5, <2>1 DEF Kept
<1>7. CASE text[x].k = "set"
  <2>1. x \in Aliases /\ x \in Defs(n) /\ name = text[x].to
    BY <1>1, <1>2, <1>7 DEF Aliases, Defs, UsedName
  <2>2. ASSUME NEW y \in Defs(n), y # x PROVE FALSE
    <3>1. y \in DOMAIN text /\ text[y].n = text[x].n
          /\ {text[y].k, text[x].k} \subseteq {"label", "set", "comm"}
      BY <1>1, <1>7 DEF Defs
    <3>2. x \in Nat /\ y \in Nat
      BY <3>1, LenProperties
    <3>3. x < y \/ y < x
      BY <2>2, <3>2
    <3> QED BY <3>1, <3>3 DEF ImageRefuses
  <2>3. Defs(text[x].n) = {x}
    BY <1>1, <2>1, <2>2
  <2>4. Places[text[x].n] = {}
    BY <1>4, <1>5, <2>1, <2>3 DEF Kept
  <2> QED BY <1>1, <1>3, <2>4
<1> QED BY <1>6, <1>7

-----------------------------------------------------------------------------
(* A text of several units, and a text of one.                             *)
Finished == /\ UnitsTyped /\ Len(units) # 1 /\ NoConflict
            /\ text \in Seq(Outs) /\ Lists(text, Whole)

Alone == /\ UnitsTyped /\ Len(units) = 1
         /\ text = [j \in DOMAIN units[1] |-> AsItStands(units[1][j])]

(* Where a statement of the text is from.                                  *)
FromUnit(x, i, j) ==
  /\ Rewritten(i, units[i][j]) # <<>>
  /\ IsStatement(units[i][j]) /\ units[i][j].k # "weak"
  /\ text[x].from = i /\ text[x].k = units[i][j].k
  /\ text[x].n = NewName(i, units[i][j].n, units[i][j].k)
  /\ units[i][j].k = "set" => text[x].to = NewName(i, units[i][j].to, "set")
  /\ units[i][j].k # "set" => text[x].to = None

LEMMA TextParts ==
  ASSUME Finished, NEW x \in DOMAIN text
  PROVE  \/ \E i \in DOMAIN units : \E j \in DOMAIN units[i] : FromUnit(x, i, j)
         \/ \E n \in Names : /\ Rank(n) = 2 /\ text[x] = Commons(n)[1]
                             /\ text[x].from = 0 /\ text[x].k = "comm" /\ text[x].n = <<n, 0>>
                             /\ text[x].to = None
         \/ \E n \in Names : /\ Rank(n) = 0 /\ ~StrongReference(n)
                             /\ text[x].from = 0 /\ text[x].k = "weak" /\ text[x].n = <<n, 0>>
                             /\ text[x].to = None
<1>1. CASE \E i \in DOMAIN units : \E j \in DOMAIN units[i] :
             Rewritten(i, units[i][j]) # <<>> /\ text[x] = Rewritten(i, units[i][j])[1]
  <2>1. PICK i \in DOMAIN units : \E j \in DOMAIN units[i] :
             Rewritten(i, units[i][j]) # <<>> /\ text[x] = Rewritten(i, units[i][j])[1]
    BY <1>1
  <2>2. PICK j \in DOMAIN units[i] :
             Rewritten(i, units[i][j]) # <<>> /\ text[x] = Rewritten(i, units[i][j])[1]
    BY <2>1
  <2>3. PICK s : s = units[i][j] /\ IsStatement(s)
    BY UnitsAre DEF Finished
  <2>4. FromUnit(x, i, j)
    BY <2>2, <2>3, RewrittenIs DEF FromUnit, Finished
  <2> QED BY <2>4
<1>2. CASE \E n \in Names : Commons(n) # <<>> /\ text[x] = Commons(n)[1]
  <2>1. PICK n \in Names : Commons(n) # <<>> /\ text[x] = Commons(n)[1]
    BY <1>2
  <2>2. Rank(n) = 2
    BY <2>1, CommonsIs, CommonsRank DEF Finished
  <2> QED BY <2>1, <2>2, CommonsIs DEF Finished
<1>3. CASE \E n \in Names : WeakImport(n) # <<>> /\ text[x] = WeakImport(n)[1]
  BY <1>3, WeakImportIs
<1> QED BY <1>1, <1>2, <1>3, TextIs DEF Finished

LEMMA NameIs ==
  ASSUME UnitsTyped, NEW i \in DOMAIN units, NEW n, NEW k
  PROVE  /\ i \in Nat /\ i # 0
         /\ NewName(i, n, k) = <<n, i>> <=> Private(i, n) \/ Discarded(i, n, k)
         /\ NewName(i, n, k) = <<n, 0>> <=> ~(Private(i, n) \/ Discarded(i, n, k))
<1>1. i \in Nat /\ i # 0
  BY UnitsAre
<1>2. CASE Private(i, n) \/ Discarded(i, n, k)
  <2>1. NewName(i, n, k) = <<n, i>>
    BY <1>2 DEF NewName
  <2> QED BY <1>1, <1>2, <2>1
<1>3. CASE ~(Private(i, n) \/ Discarded(i, n, k))
  <2>1. NewName(i, n, k) = <<n, 0>>
    BY <1>3 DEF NewName
  <2> QED BY <1>1, <1>3, <2>1
<1> QED BY <1>2, <1>3

(* Who makes a name: its unit, or the winner, or the merged common.        *)
Best(n) == IF Rank(n) = 0 THEN {} ELSE IF Rank(n) = 2 THEN {0} ELSE {Winner(n)}

LEMMA MakersAre ==
  ASSUME Finished, NEW n \in Names
  PROVE  /\ \A i \in DOMAIN units : Makers(<<n, i>>) \subseteq {i}
         /\ Makers(<<n, 0>>) \subseteq Best(n)
<1>1. ASSUME NEW i \in DOMAIN units, NEW x \in Defs(<<n, i>>) PROVE text[x].from = i
  <2>1. x \in DOMAIN text /\ text[x].k # "weak" /\ text[x].n = <<n, i>> /\ i # 0
    BY <1>1, UnitsAre DEF Defs, Finished
  <2>2. ~\E a \in Names : text[x].n = <<a, 0>>
    BY <2>1
  <2>3. PICK h \in DOMAIN units : \E j \in DOMAIN units[h] : FromUnit(x, h, j)
    BY <2>1, <2>2, TextParts
  <2>4. PICK j \in DOMAIN units[h] : FromUnit(x, h, j)
    BY <2>3
  <2>5. PICK s : s = units[h][j]
    OBVIOUS
  <2>6. text[x].from = h /\ NewName(h, s.n, s.k) = <<n, i>>
    BY <2>1, <2>4, <2>5 DEF FromUnit
  <2>7. NewName(h, s.n, s.k) \in {<<s.n, h>>, <<s.n, 0>>}
    BY DEF NewName
  <2>8. h = i
    BY <2>1, <2>6, <2>7
  <2> QED BY <2>6, <2>8
<1>2. ASSUME NEW x \in Defs(<<n, 0>>) PROVE text[x].from \in Best(n)
  <2>1. x \in DOMAIN text /\ text[x].k \in {"label", "set", "comm"} /\ text[x].n = <<n, 0>>
    BY <1>2 DEF Defs
  <2>2. CASE \E i \in DOMAIN units : \E j \in DOMAIN units[i] : FromUnit(x, i, j)
    <3>1. PICK i \in DOMAIN units : \E j \in DOMAIN units[i] : FromUnit(x, i, j)
      BY <2>2
    <3>2. PICK j \in DOMAIN units[i] : FromUnit(x, i, j)
      BY <3>1
    <3>3. PICK s : s = units[i][j]
      OBVIOUS
    <3>4. text[x].from = i /\ NewName(i, s.n, s.k) = <<n, 0>> /\ s.k \in {"label", "set", "comm"}
          /\ Rewritten(i, s) # <<>>
      BY <2>1, <3>2, <3>3 DEF FromUnit
    <3>5. s.n = n
      BY <3>4, NameIs DEF NewName
    <3>6. Winner(n) = i /\ Rank(n) \in {1, 3}
      BY <3>3, <3>4, <3>5, PublicIsWinner DEF Finished
    <3> QED BY <3>4, <3>6 DEF Best
  <2>3. CASE \E a \in Names : Rank(a) = 2 /\ text[x].from = 0 /\ text[x].n = <<a, 0>>
    <3>1. Rank(n) = 2 /\ text[x].from = 0
      BY <2>1, <2>3
    <3> QED BY <3>1 DEF Best
  <2>4. text[x].k # "weak"
    BY <2>1
  <2> QED BY <2>1, <2>2, <2>3, <2>4, TextParts
<1> QED BY <1>1, <1>2 DEF Makers

-----------------------------------------------------------------------------
(* A use whose name has a definition reaches the one it has to.            *)
LEMMA UseReaches ==
  ASSUME Finished, NEW i \in DOMAIN units, NEW n \in Names, NEW alias \in BOOLEAN,
         NEW k, k = (IF alias THEN "set" ELSE "ref"),
         Makers(NewName(i, n, k)) # {}
  PROVE  Makers(NewName(i, n, k)) = Reached(i, n, alias)
<1>1. i \in Nat /\ i # 0
  BY UnitsAre DEF Finished
<1>2. CASE Private(i, n) \/ Discarded(i, n, k)
  <2>1. Makers(<<n, i>>) = {i} /\ NewName(i, n, k) = <<n, i>>
    BY <1>2, MakersAre DEF NewName
  <2>2. Private(i, n) \/ (alias /\ Strong(units[i], n))
    BY <1>2 DEF Discarded
  <2>3. Reached(i, n, alias) = {i}
    BY <2>2 DEF Reached, Finished
  <2> QED BY <2>1, <2>3
<1>3. CASE ~Private(i, n) /\ ~Discarded(i, n, k)
  <2>1. NewName(i, n, k) = <<n, 0>>
    BY <1>3 DEF NewName
  <2>2. Makers(<<n, 0>>) \subseteq Best(n) /\ Makers(<<n, 0>>) # {}
    BY <2>1, MakersAre
  <2>3. Makers(<<n, 0>>) = Best(n)
    BY <2>2 DEF Best
  <2>4. CASE alias /\ Strong(units[i], n)
    <3>1. Reached(i, n, alias) = {i}
      BY <2>4 DEF Reached, Finished
    <3>2. External(units[i], n)
      BY <1>3, <2>4 DEF Private, Defined
    <3>3. Winner(n) = i /\ Rank(n) \in {1, 3}
      <4>1. CASE ~Weak(units[i], n)
        BY <2>4, <3>2, <4>1, StrongWins DEF Finished
      <4>2. CASE Weak(units[i], n)
        <5>1. Winner(n) = i
          BY <1>3, <2>4, <4>2 DEF Discarded
        <5>2. Rank(n) # 0
          BY <1>1, <5>1 DEF Winner
        <5>3. Priority(units[i], n) = Rank(n)
          BY <5>1, <5>2, WinnerIs DEF Finished
        <5>4. Priority(units[i], n) = 1
          BY <2>4, <3>2, <4>2, PriorityIs
        <5> QED BY <5>1, <5>3, <5>4
      <4> QED BY <4>1, <4>2
    <3> QED BY <2>1, <2>3, <3>1, <3>3 DEF Best
  <2>5. CASE ~(alias /\ Strong(units[i], n))
    <3>1. Reached(i, n, alias) = Best(n)
      BY <1>3, <2>5, ReachedIs DEF Finished, Best
    <3> QED BY <2>1, <2>3, <3>1
  <2> QED BY <2>4, <2>5
<1> QED BY <1>2, <1>3

LEMMA MakersDefs == \A name : Makers(name) = {} <=> Defs(name) = {}
BY DEF Makers

LEMMA FinishedBinds ==
  ASSUME Finished, ~ImageRefuses, pc = "linked"
  PROVE  BindsRight
<1>1. ASSUME NEW x \in DOMAIN text, text[x].k \in {"ref", "set"}
      PROVE  LET s == text[x]
                 name == UsedName(s)
             IN  \/ Makers(name) = Reached(s.from, name[1], s.k = "set") /\ Makers(name) # {}
                 \/ /\ Makers(name) = {}
                    /\ \A i \in DOMAIN units :
                         External(units[i], name[1]) => Weak(units[i], name[1])
  <2>1. PICK i \in DOMAIN units : \E j \in DOMAIN units[i] : FromUnit(x, i, j)
    BY <1>1, TextParts
  <2>2. PICK j \in DOMAIN units[i] : FromUnit(x, i, j)
    BY <2>1
  <2>3. PICK s : s = units[i][j] /\ IsStatement(s)
    BY <2>2 DEF FromUnit
  <2>4. PICK n \in Names : n = UsedName(s)
    BY <1>1, <2>2, <2>3 DEF FromUnit, IsStatement, UsedName
  <2>5. PICK alias \in BOOLEAN : alias = (text[x].k = "set")
    OBVIOUS
  <2>6. PICK k : k = IF alias THEN "set" ELSE "ref"
    OBVIOUS
  <2>7. text[x].from = i /\ s.k = k /\ UsedName(text[x]) = NewName(i, n, k)
    BY <1>1, <2>2, <2>3, <2>4, <2>5, <2>6 DEF FromUnit, UsedName
  <2>8. NewName(i, n, k)[1] = n
    BY DEF NewName
  <2>9. CASE Makers(NewName(i, n, k)) # {}
    <3>1. Makers(NewName(i, n, k)) = Reached(i, n, alias)
      BY <2>6, <2>9, UseReaches
    <3> QED BY <2>5, <2>7, <2>8, <2>9, <3>1
  <2>10. CASE Makers(NewName(i, n, k)) = {}
    <3>1. IsWeak(NewName(i, n, k))
      BY <1>1, <2>7, <2>10, MakersDefs, ImageBinds DEF Finished
    <3>2. PICK y \in DOMAIN text : text[y].k = "weak" /\ text[y].n = NewName(i, n, k)
      BY <3>1 DEF IsWeak
    <3>3. \E a \in Names : ~StrongReference(a) /\ text[y].n = <<a, 0>>
      <4>1. ~\E h \in DOMAIN units : \E l \in DOMAIN units[h] : FromUnit(y, h, l)
        BY <3>2 DEF FromUnit
      <4> QED BY <3>2, <4>1, TextParts
    <3>4. ~StrongReference(n)
      BY <2>8, <3>2, <3>3
    <3> QED BY <2>7, <2>8, <2>10, <3>4 DEF StrongReference
  <2> QED BY <2>9, <2>10
<1>2. ASSUME NEW x \in DOMAIN text, text[x].k = "comm", text[x].from = 0,
             NEW i \in DOMAIN units, External(units[i], text[x].n[1]), Common(units[i], text[x].n[1])
      PROVE  /\ CommonSize(units[i], text[x].n[1]) <= text[x].size
             /\ CommonAlign(units[i], text[x].n[1]) <= text[x].align
  <2>1. ~\E h \in DOMAIN units : \E j \in DOMAIN units[h] : FromUnit(x, h, j)
    BY <1>2, UnitsAre DEF FromUnit, Finished
  <2>2. PICK n \in Names : Rank(n) = 2 /\ text[x] = Commons(n)[1] /\ text[x].n = <<n, 0>>
    BY <1>2, <2>1, TextParts
  <2>3. Commons(n) # <<>>
    BY <2>2, CommonsIs, CommonsRank DEF Finished
  <2>4. i \in CommonUnits(n)
    BY <1>2, <2>2 DEF CommonUnits
  <2> QED BY <2>2, <2>3, <2>4, CommonsIs DEF Finished
<1> QED BY <1>1, <1>2 DEF BindsRight, UsedName

LEMMA AloneTyped == Alone => text \in Seq(Outs) /\ DOMAIN text = DOMAIN units[1] /\ 1 \in DOMAIN units
<1> SUFFICES ASSUME Alone PROVE text \in Seq(Outs) /\ DOMAIN text = DOMAIN units[1] /\ 1 \in DOMAIN units
  OBVIOUS
<1>1. 1 \in DOMAIN units /\ DOMAIN units = {1}
  BY UnitsAre DEF Alone
<1>2. PICK l \in Nat : DOMAIN units[1] = 1 .. l /\ \A j \in 1 .. l : IsStatement(units[1][j])
  BY <1>1, UnitsAre DEF Alone
<1>3. \A j \in 1 .. l : AsItStands(units[1][j]) \in Outs
  <2> SUFFICES ASSUME NEW s, IsStatement(s) PROVE AsItStands(s) \in Outs
    BY <1>2
  <2>1. <<s.n, 0>> \in NewNamesType /\ None \in NewNamesType /\ (s.k = "set" => <<s.to, 0>> \in NewNamesType)
    BY DEF IsStatement, NewNamesType, None
  <2> QED BY <2>1 DEF AsItStands, Out, Outs, IsStatement
<1>4. text \in [1 .. l -> Outs]
  BY <1>2, <1>3 DEF Alone
<1> QED BY <1>1, <1>2, <1>4

LEMMA AloneBinds ==
  ASSUME Alone, ~ImageRefuses, pc = "linked"
  PROVE  BindsRight
<1>1. DOMAIN units = {1} /\ text \in Seq(Outs) /\ DOMAIN text = DOMAIN units[1]
  BY AloneTyped, UnitsAre DEF Alone
<1>2. \A x \in DOMAIN text : /\ text[x].from = 1 /\ text[x].k = units[1][x].k
                             /\ text[x].n = <<units[1][x].n, 0>>
  BY <1>1 DEF Alone, AsItStands, Out
<1>3. \A name : Makers(name) # {} => Makers(name) = {1}
  BY <1>2 DEF Makers, Defs
<1>4. \A i, n, alias : Reached(i, n, alias) = {1}
  BY DEF Reached, Alone
<1>5. ASSUME NEW x \in DOMAIN text, text[x].k \in {"ref", "set"}, Makers(UsedName(text[x])) = {},
             NEW i \in DOMAIN units
      PROVE  Weak(units[i], UsedName(text[x])[1])
  <2>1. IsWeak(UsedName(text[x]))
    BY <1>1, <1>5, MakersDefs, ImageBinds
  <2>2. PICK y \in DOMAIN text : text[y].k = "weak" /\ text[y].n = UsedName(text[x])
    BY <2>1 DEF IsWeak
  <2>3. units[1][y].k = "weak" /\ units[1][y].n = UsedName(text[x])[1] /\ y \in DOMAIN units[1]
    BY <1>1, <1>2, <2>2
  <2> QED BY <1>1, <2>3 DEF Weak, Says
<1>6. ASSUME NEW x \in DOMAIN text, text[x].k \in {"ref", "set"}
      PROVE  LET s == text[x]
                 name == UsedName(s)
             IN  \/ Makers(name) = Reached(s.from, name[1], s.k = "set") /\ Makers(name) # {}
                 \/ /\ Makers(name) = {}
                    /\ \A i \in DOMAIN units :
                         External(units[i], name[1]) => Weak(units[i], name[1])
  <2>1. CASE Makers(UsedName(text[x])) = {}
    BY <1>5, <1>6, <2>1
  <2>2. CASE Makers(UsedName(text[x])) # {}
    <3>1. Makers(UsedName(text[x])) = {1}
      BY <1>3, <2>2
    <3>2. Reached(text[x].from, UsedName(text[x])[1], text[x].k = "set") = {1}
      BY <1>4
    <3> QED BY <3>1, <3>2
  <2> QED BY <2>1, <2>2
<1>7. \A x \in DOMAIN text : text[x].from # 0
  BY <1>2
<1> QED BY <1>6, <1>7 DEF BindsRight, UsedName

-----------------------------------------------------------------------------
(* Units without a conflict make a text that the image linker takes.  No   *)
(* name is defined twice: two definitions of one name would come from one  *)
(* unit, which defines it once.                                            *)
LEMMA OnceIs ==
  ASSUME NEW u, IsUnit(u), NEW n, Once(u, n), NEW j \in DOMAIN u, NEW l \in DOMAIN u,
         u[j].k \in {"label", "set"}, u[l].k \in {"label", "set"}, u[j].n = n, u[l].n = n
  PROVE  j = l
<1> DEFINE S == {x \in DOMAIN u : u[x].k \in {"label", "set"} /\ u[x].n = n}
<1>1. PICK d \in Nat : DOMAIN u = 1 .. d
  BY LenProperties DEF IsUnit
<1>2. IsFiniteSet(S)
  BY <1>1, FS_Interval, FS_Subset
<1>3. Cardinality(S) <= 1 /\ j \in S /\ l \in S
  BY DEF Once
<1> HIDE DEF S
<1> SUFFICES ASSUME j # l PROVE FALSE
  OBVIOUS
<1>4. IsFiniteSet({j}) /\ Cardinality({j}) = 1
  BY FS_Singleton
<1>5. Cardinality({j} \cup {l}) = 2
  <2>1. PICK T : T = {j}
    OBVIOUS
  <2>2. IsFiniteSet(T) /\ Cardinality(T) = 1 /\ l \notin T
    BY <1>4, <2>1
  <2>3. Cardinality(T \cup {l}) = Cardinality(T) + 1
    BY ONLY <2>2, FS_AddElement
  <2> QED BY <2>1, <2>2, <2>3
<1>6. {j} \cup {l} \subseteq S
  BY <1>3
<1>7. Cardinality({j} \cup {l}) <= Cardinality(S)
  BY <1>2, <1>6, FS_Subset
<1>8. Cardinality(S) \in Nat
  BY <1>2, FS_CardinalityType
<1> QED BY <1>3, <1>5, <1>7, <1>8

LEMMA HarmlessUnits ==
  ASSUME UnitsTyped, Harmless
  PROVE  /\ \A i \in DOMAIN units : \A j \in DOMAIN units[i] :
              /\ units[i][j].n \in Names /\ units[i][j].k \in Kinds
              /\ units[i][j].k = "set" => units[i][j].to \in Names
         /\ \A i \in DOMAIN units : \A n \in Names :
              /\ Common(units[i], n) => External(units[i], n)
              /\ Local(units[i], n) => Strong(units[i], n) \/ ~Referenced(units[i], n)
              /\ \A j, l \in DOMAIN units[i] :
                   /\ units[i][j].k \in {"label", "set"} /\ units[i][j].n = n
                   /\ units[i][l].k \in {"label", "set"} /\ units[i][l].n = n
                   => j = l
<1>1. ASSUME NEW i \in DOMAIN units, NEW j \in DOMAIN units[i]
      PROVE  /\ units[i][j].n \in Names /\ units[i][j].k \in Kinds
             /\ units[i][j].k = "set" => units[i][j].to \in Names
  <2>1. PICK s : s = units[i][j] /\ IsStatement(s)
    BY UnitsAre
  <2> QED BY <2>1 DEF IsStatement
<1>2. ASSUME NEW i \in DOMAIN units, NEW n \in Names
      PROVE  /\ Common(units[i], n) => External(units[i], n)
             /\ Local(units[i], n) => Strong(units[i], n) \/ ~Referenced(units[i], n)
             /\ Once(units[i], n)
  BY DEF Harmless, Strong
<1>3. ASSUME NEW i \in DOMAIN units, NEW n \in Names, NEW j \in DOMAIN units[i], NEW l \in DOMAIN units[i],
             units[i][j].k \in {"label", "set"} /\ units[i][j].n = n,
             units[i][l].k \in {"label", "set"} /\ units[i][l].n = n
      PROVE  j = l
  <2>1. IsUnit(units[i]) /\ Once(units[i], n)
    BY <1>2 DEF UnitsTyped
  <2> QED BY <1>3, <2>1, OnceIs
<1> QED BY <1>1, <1>2, <1>3

(* A definition of a text, and the place of it in the units.               *)
Definition(x) == x \in DOMAIN text /\ text[x].k \in {"label", "set", "comm"}
Place(x, e) ==
  \/ e[1] \in DOMAIN units /\ e[2] \in DOMAIN units[e[1]] /\ e = <<e[1], e[2]>>
     /\ FromUnit(x, e[1], e[2])
  \/ e[1] = 0 /\ e = <<0, e[2]>> /\ e[2] \in Names /\ Rank(e[2]) = 2
     /\ text[x].k = "comm" /\ text[x].n = <<e[2], 0>>

LEMMA PlaceOf ==
  ASSUME Finished
  PROVE  \E o : /\ \A x, y \in DOMAIN text : o[x] = o[y] => x = y
                /\ \A x : Definition(x) => Place(x, o[x])
<1>1. PICK o \in [DOMAIN text -> DOMAIN Whole] :
        /\ \A x, y \in DOMAIN text : o[x] = o[y] => x = y
        /\ \A e \in DOMAIN Whole : \E x \in DOMAIN text : o[x] = e
        /\ \A x \in DOMAIN text : text[x] = Whole[o[x]]
  BY DEF Lists, Finished
<1>2. DOMAIN Whole = RowsOf(Len(units)) \cup CommonRows \cup WeakRows
  BY DEF Whole
<1>3. DOMAIN units = 1 .. Len(units)
  BY UnitsAre DEF Finished
<1>4. ASSUME NEW x, Definition(x) PROVE Place(x, o[x])
  <2>1. PICK e \in DOMAIN Whole : e = o[x] /\ text[x] = Whole[e]
    BY <1>1, <1>4 DEF Definition
  <2>2. CASE e \in RowsOf(Len(units))
    <3>1. /\ e[1] \in 1 .. Len(units) /\ e = <<e[1], e[2]>> /\ e[2] \in DOMAIN units[e[1]]
          /\ Rewritten(e[1], units[e[1]][e[2]]) # <<>>
      BY <2>2 DEF RowsOf
    <3>2. e[1] # 0 /\ e[1] # -1 /\ e[1] \in DOMAIN units
      BY <1>3, <3>1
    <3>3. Whole[e] = RowOf(e)
      BY <3>2 DEF Whole
    <3>4. PICK i \in DOMAIN units : i = e[1]
      BY <3>2
    <3>5. PICK j \in DOMAIN units[i] : j = e[2]
      BY <3>1, <3>4
    <3>6. PICK s : s = units[i][j] /\ IsStatement(s)
      BY UnitsAre DEF Finished
    <3>7. text[x] = Rewritten(i, s)[1] /\ Rewritten(i, s) # <<>>
      BY <2>1, <3>1, <3>3, <3>4, <3>5, <3>6 DEF RowOf
    <3>8. FromUnit(x, i, j)
      BY <3>6, <3>7, RewrittenIs DEF FromUnit, Finished
    <3> QED BY <2>1, <3>1, <3>2, <3>4, <3>5, <3>8 DEF Place
  <2>3. CASE e \in CommonRows
    <3>1. e[1] = 0 /\ e = <<0, e[2]>> /\ e[2] \in Names /\ Commons(e[2]) # <<>>
      BY <2>3 DEF CommonRows
    <3>2. Whole[e] = Commons(e[2])[1]
      BY <3>1 DEF Whole
    <3>3. PICK n \in Names : n = e[2]
      BY <3>1
    <3>4. Rank(n) = 2 /\ text[x].k = "comm" /\ text[x].n = <<n, 0>>
      BY <2>1, <3>1, <3>2, <3>3, CommonsIs, CommonsRank DEF Finished
    <3> QED BY <2>1, <3>1, <3>3, <3>4 DEF Place
  <2>4. CASE e \in WeakRows
    <3>1. e[1] = -1 /\ e[2] \in Names /\ WeakImport(e[2]) # <<>>
      BY <2>4 DEF WeakRows
    <3>2. Whole[e] = WeakImport(e[2])[1]
      BY <3>1 DEF Whole
    <3>3. text[x].k = "weak"
      BY <2>1, <3>1, <3>2, WeakImportIs
    <3> QED BY <1>4, <3>3 DEF Definition
  <2> QED BY <1>2, <2>2, <2>3, <2>4
<1> QED BY <1>1, <1>4

LEMMA DefinedOnce ==
  ASSUME Finished, Harmless, NEW x, NEW y, Definition(x), Definition(y), text[x].n = text[y].n
  PROVE  x = y
<1>1. PICK o : /\ \A v, w \in DOMAIN text : o[v] = o[w] => v = w
               /\ \A v : Definition(v) => Place(v, o[v])
  BY PlaceOf
<1>2. PICK e : e = o[x] /\ Place(x, e)
  BY <1>1
<1>3. PICK f : f = o[y] /\ Place(y, f)
  BY <1>1
<1>4. ASSUME NEW a, NEW v, Definition(v), Place(v, a), a[1] # 0
      PROVE  /\ a[1] \in DOMAIN units /\ a[2] \in DOMAIN units[a[1]] /\ a = <<a[1], a[2]>>
             /\ units[a[1]][a[2]].k \in {"label", "set"}
             /\ units[a[1]][a[2]].n \in Names /\ text[v].n[1] = units[a[1]][a[2]].n
             /\ text[v].n[2] \in {0, a[1]}
             /\ text[v].n[2] = 0 => /\ a[1] = Winner(text[v].n[1]) /\ Rank(text[v].n[1]) # 2
  <2>1. PICK i \in DOMAIN units : i = a[1]
    BY <1>4 DEF Place
  <2>2. PICK j \in DOMAIN units[i] : j = a[2]
    BY <1>4, <2>1 DEF Place
  <2>3. PICK s : s = units[i][j] /\ s.n \in Names /\ (Common(units[i], s.n) => External(units[i], s.n))
                 /\ IsStatement(s)
    BY HarmlessUnits, UnitsAre DEF Finished
  <2>4. FromUnit(v, i, j)
    BY <1>4, <2>1, <2>2 DEF Place
  <2>5. s.k \in {"label", "set", "comm"} /\ Rewritten(i, s) # <<>> /\ text[v].n = NewName(i, s.n, s.k)
    BY <1>4, <2>3, <2>4 DEF FromUnit, Definition
  <2>6. s.k # "comm"
    <3>1. s.k = "comm" => Common(units[i], s.n)
      BY <2>3 DEF Common, Says
    <3> QED BY <2>3, <2>5, <3>1, RewrittenIs DEF Finished
  <2>7. text[v].n \in {<<s.n, i>>, <<s.n, 0>>}
    BY <2>5 DEF NewName
  <2>8. i # 0
    BY UnitsAre DEF Finished
  <2>9. ASSUME text[v].n[2] = 0 PROVE i = Winner(s.n) /\ Rank(s.n) # 2
    <3>1. NewName(i, s.n, s.k) = <<s.n, 0>>
      BY <2>5, <2>7, <2>8, <2>9
    <3> QED BY <2>3, <2>5, <3>1, PublicIsWinner DEF Finished
  <2> QED BY <1>4, <2>1, <2>2, <2>3, <2>5, <2>6, <2>7, <2>9 DEF Place
<1>5. ASSUME NEW a, NEW v, Place(v, a), a[1] = 0
      PROVE  a = <<0, text[v].n[1]>> /\ text[v].n[2] = 0 /\ Rank(text[v].n[1]) = 2
  <2>1. ~(0 \in DOMAIN units)
    BY UnitsAre DEF Finished
  <2> QED BY <1>5, <2>1 DEF Place
<1>6. CASE e[1] = 0
  <2>1. f[1] = 0
    BY <1>2, <1>3, <1>4, <1>5, <1>6
  <2>2. e = f
    BY <1>2, <1>3, <1>5, <1>6, <2>1
  <2> QED BY <1>1, <1>2, <1>3, <2>2 DEF Definition
<1>7. CASE e[1] # 0
  <2>1. f[1] # 0
    BY <1>2, <1>3, <1>4, <1>5, <1>7
  <2>2. e[1] = f[1]
    BY <1>2, <1>3, <1>4, <1>7, <2>1
  <2>3. PICK i \in DOMAIN units : i = e[1]
    BY <1>2, <1>4, <1>7
  <2>4. PICK j \in DOMAIN units[i] : j = e[2] /\ e = <<i, j>>
    BY <1>2, <1>4, <1>7, <2>3
  <2>5. PICK l \in DOMAIN units[i] : l = f[2] /\ f = <<i, l>>
    BY <1>3, <1>4, <2>1, <2>2, <2>3
  <2>6. PICK n \in Names : n = text[x].n[1]
    BY <1>2, <1>4, <1>7
  <2>7. /\ units[i][j].k \in {"label", "set"} /\ units[i][j].n = n
        /\ units[i][l].k \in {"label", "set"} /\ units[i][l].n = n
    BY <1>2, <1>3, <1>4, <1>7, <2>1, <2>2, <2>3, <2>4, <2>5, <2>6
  <2>8. j = l
    BY <2>7, HarmlessUnits DEF Finished
  <2>9. e = f
    BY <2>4, <2>5, <2>8
  <2> QED BY <1>1, <1>2, <1>3, <2>9 DEF Definition
<1> QED BY <1>6, <1>7

(* Every use has a definition or a weak import in the text.                *)
Have(name) == Defs(name) # {} \/ IsWeak(name)
Uses(i, n) == \E j \in DOMAIN units[i] : \/ units[i][j].k = "ref" /\ units[i][j].n = n
                                         \/ units[i][j].k = "set" /\ units[i][j].to = n

LEMMA MadeStays ==
  ASSUME Finished, NEW i \in DOMAIN units, NEW n \in Names, NEW j \in DOMAIN units[i],
         units[i][j].k \in {"label", "set"}, units[i][j].n = n
  PROVE  \E x \in Defs(NewName(i, n, units[i][j].k)) : text[x].k = units[i][j].k
<1>1. PICK s : s = units[i][j] /\ IsStatement(s)
  BY UnitsAre DEF Finished
<1>2. Rewritten(i, s) # <<>>
  BY <1>1, RewrittenIs DEF Finished
<1>3. PICK x \in DOMAIN text : text[x] = Rewritten(i, s)[1]
  BY <1>1, <1>2, TextIs DEF Finished
<1>4. text[x].k = s.k /\ text[x].n = NewName(i, s.n, s.k)
  BY <1>1, <1>2, <1>3, RewrittenIs DEF Finished
<1>5. x \in Defs(NewName(i, s.n, s.k))
  BY <1>1, <1>3, <1>4 DEF Defs
<1> QED BY <1>1, <1>4, <1>5

LEMMA WinnerStays ==
  ASSUME Finished, NEW n \in Names, Rank(n) \in {1, 3}
  PROVE  \E j \in DOMAIN units[Winner(n)] :
           /\ units[Winner(n)][j].n = n /\ units[Winner(n)][j].k \in {"label", "set"}
           /\ \E x \in Defs(<<n, 0>>) : text[x].k = units[Winner(n)][j].k
<1>1. PICK w \in DOMAIN units : w = Winner(n) /\ Priority(units[w], n) \in {1, 3}
  BY WinnerIs DEF Finished
<1>2. External(units[w], n) /\ Strong(units[w], n)
  BY <1>1, PriorityIs
<1>3. PICK j \in DOMAIN units[w] : units[w][j].k \in {"label", "set"} /\ units[w][j].n = n
  BY <1>2 DEF Strong, Says
<1>4. NewName(w, n, units[w][j].k) = <<n, 0>>
  BY <1>1, <1>2 DEF NewName, Private, Discarded
<1> QED BY <1>1, <1>3, <1>4, MadeStays

LEMMA UseHas ==
  ASSUME Finished, Harmless, NEW i \in DOMAIN units, NEW n \in Names, Uses(i, n), NEW k
  PROVE  Have(NewName(i, n, k))
<1>1. Referenced(units[i], n)
  BY DEF Uses, Referenced, Says
<1>2. UnitsTyped
  BY DEF Finished
<1>3. CASE Private(i, n) \/ Discarded(i, n, k)
  <2>1. NewName(i, n, k) = <<n, i>>
    BY <1>3 DEF NewName
  <2>2. Strong(units[i], n)
    <3>1. CASE Private(i, n)
      BY <1>1, <1>2, <3>1, HarmlessUnits DEF Private, Defined
    <3>2. CASE Discarded(i, n, k)
      BY <3>2 DEF Discarded
    <3> QED BY <1>3, <3>1, <3>2
  <2>3. PICK j \in DOMAIN units[i] : units[i][j].k \in {"label", "set"} /\ units[i][j].n = n
    BY <2>2 DEF Strong, Says
  <2>4. NewName(i, n, units[i][j].k) = <<n, i>>
    <3>1. Discarded(i, n, k) => Discarded(i, n, units[i][j].k)
      BY <2>3 DEF Discarded
    <3> QED BY <1>3, <3>1 DEF NewName
  <2>5. Defs(<<n, i>>) # {}
    BY <2>3, <2>4, MadeStays
  <2> QED BY <2>1, <2>5 DEF Have
<1>4. CASE ~(Private(i, n) \/ Discarded(i, n, k))
  <2>1. NewName(i, n, k) = <<n, 0>>
    BY <1>4 DEF NewName
  <2>2. External(units[i], n)
    BY <1>1, <1>4 DEF Private, External
  <2>3. Rank(n) \in 0 .. 3
    BY <1>2, RankIs
  <2>4. CASE Rank(n) \in {1, 3}
    BY <2>1, <2>4, WinnerStays DEF Have
  <2>5. CASE Rank(n) = 2
    <3>1. Commons(n) # <<>>
      BY <2>5, CommonsIs, CommonsRank DEF Finished
    <3>2. PICK x \in DOMAIN text : text[x] = Commons(n)[1]
      BY <3>1, TextIs DEF Finished
    <3>3. x \in Defs(<<n, 0>>)
      BY <1>2, <3>1, <3>2, CommonsIs DEF Defs
    <3> QED BY <2>1, <3>3 DEF Have
  <2>6. CASE Rank(n) = 0
    <3>1. ~StrongReference(n)
      <4>1. Supplied(n)
        BY DEF Harmless
      <4>2. ASSUME NEW h \in DOMAIN units, External(units[h], n), Defined(units[h], n) PROVE FALSE
        <5>1. Priority(units[h], n) \in 0 .. 3 /\ Priority(units[h], n) # 0
          BY <4>2 DEF Priority, Defined
        <5>2. Priority(units[h], n) <= 0
          BY <1>2, <2>6, RankIs
        <5> QED BY <5>1, <5>2
      <4> QED BY <4>1, <4>2 DEF Supplied
    <3>2. Weak(units[i], n)
      BY <2>2, <3>1 DEF StrongReference
    <3>3. WeakImport(n) # <<>>
      BY <2>2, <2>6, <3>1, <3>2, WeakImportIs
    <3>4. PICK x \in DOMAIN text : text[x] = WeakImport(n)[1]
      BY <3>3, TextIs DEF Finished
    <3>5. IsWeak(<<n, 0>>)
      BY <3>3, <3>4, WeakImportIs DEF IsWeak
    <3> QED BY <2>1, <3>5 DEF Have
  <2> QED BY <2>3, <2>4, <2>5, <2>6
<1> QED BY <1>3, <1>4

(* And is placed: directly, or through an alias of what is no alias.       *)
LEMMA TargetPlaced ==
  ASSUME Finished, Harmless, NEW x \in Aliases
  PROVE  text[x].to \in NewNames /\ Placed[text[x].to] # {}
<1>1. x \in DOMAIN text /\ text[x].k = "set"
  BY DEF Aliases
<1>2. PICK i \in DOMAIN units : \E j \in DOMAIN units[i] : FromUnit(x, i, j)
  BY <1>1, TextParts
<1>3. PICK j \in DOMAIN units[i] : FromUnit(x, i, j)
  BY <1>2
<1>4. PICK s : s = units[i][j] /\ IsStatement(s)
  BY <1>3 DEF FromUnit
<1>5. s.k = "set" /\ text[x].to = NewName(i, s.to, "set") /\ s.to \in Names
  BY <1>1, <1>3, <1>4 DEF FromUnit, IsStatement
<1>6. PICK n \in Names : n = s.to
  BY <1>5
<1>7. PICK name \in NewNames : name = text[x].to /\ name = NewName(i, n, "set")
  BY <1>1, <1>5, <1>6 DEF NewNames
<1>8. name[1] = n
  BY <1>7 DEF NewName
<1>9. Have(name)
  <2>1. Uses(i, n)
    BY <1>4, <1>5, <1>6 DEF Uses
  <2> QED BY <1>7, <2>1, UseHas
<1>10. ASSUME NEW y \in Defs(name), text[y].k = "set" PROVE FALSE
  <2>1. y \in DOMAIN text /\ text[y].n = name
    BY DEF Defs
  <2>2. PICK h \in DOMAIN units : \E l \in DOMAIN units[h] : FromUnit(y, h, l)
    BY <1>10, <2>1, TextParts
  <2>3. PICK l \in DOMAIN units[h] : FromUnit(y, h, l)
    BY <2>2
  <2>4. PICK t : t = units[h][l]
    OBVIOUS
  <2>5. t.k = "set" /\ text[y].n = NewName(h, t.n, "set")
    BY <1>10, <2>3, <2>4 DEF FromUnit
  <2>6. t.n = n
    BY <1>8, <2>1, <2>5 DEF NewName
  <2>7. Says(units[h], {"set"}, n)
    BY <2>4, <2>5, <2>6 DEF Says
  <2>8. \A v \in DOMAIN units : \A w \in DOMAIN units[v] : units[v][w].to # n
    BY <2>7 DEF Harmless
  <2> QED BY <1>4, <1>6, <2>8
<1>11. Placed[name] # {}
  <2>1. CASE Defs(name) = {}
    BY <1>7, <1>9, <2>1 DEF Placed, Have
  <2>2. CASE Defs(name) # {}
    <3>1. \E y \in Defs(name) : text[y].k # "set"
      BY <1>10, <2>2
    <3>2. Placed[name] = {y \in Defs(name) : text[y].k # "set"}
      BY <1>7, <2>2 DEF Placed
    <3> QED BY <3>1, <3>2
  <2> QED BY <2>1, <2>2
<1> QED BY <1>7, <1>11

LEMMA UsePlaced ==
  ASSUME Finished, Harmless, NEW x \in DOMAIN text, text[x].k \in {"ref", "set"}
  PROVE  Places[text[x].n] # {}
<1>1. text \in Seq(Outs)
  BY DEF Finished
<1>2. \A y \in Aliases : Places[text[y].n] # {}
  BY <1>1, TargetPlaced, PlacesAre
<1>3. CASE text[x].k = "set"
  BY <1>2, <1>3 DEF Aliases
<1>4. CASE text[x].k = "ref"
  <2>1. PICK i \in DOMAIN units : \E j \in DOMAIN units[i] : FromUnit(x, i, j)
    BY <1>4, TextParts
  <2>2. PICK j \in DOMAIN units[i] : FromUnit(x, i, j)
    BY <2>1
  <2>3. PICK s : s = units[i][j] /\ IsStatement(s)
    BY <2>2 DEF FromUnit
  <2>4. s.k = "ref" /\ s.n \in Names /\ text[x].n = NewName(i, s.n, "ref")
    BY <1>4, <2>2, <2>3 DEF FromUnit, IsStatement
  <2>5. Uses(i, s.n)
    BY <2>3, <2>4 DEF Uses
  <2>6. PICK name \in NewNames : name = text[x].n
    BY DEF NewNames
  <2>7. Have(name)
    BY <2>4, <2>5, <2>6, UseHas
  <2>8. CASE \E y \in Defs(name) : text[y].k = "set"
    <3>1. PICK y \in Aliases : text[y].n = name
      BY <2>8 DEF Defs, Aliases
    <3> QED BY <1>2, <2>6, <3>1
  <2>9. CASE ~\E y \in Defs(name) : text[y].k = "set"
    <3>1. CASE Defs(name) = {}
      <4>1. Placed[name] = {0}
        BY <2>6, <2>7, <3>1 DEF Placed, Have
      <4> QED BY <1>1, <2>6, <4>1, PlacesAre DEF Kept
    <3>2. CASE Defs(name) # {}
      <4>1. Placed[name] = {y \in Defs(name) : text[y].k # "set"}
        BY <2>6, <3>2 DEF Placed
      <4>2. Placed[name] # {}
        BY <2>9, <3>2, <4>1
      <4> QED BY <1>1, <2>6, <4>2, PlacesAre DEF Kept
    <3> QED BY <3>1, <3>2
  <2> QED BY <2>8, <2>9
<1> QED BY <1>3, <1>4

(* The entry is a label of the winner.                                     *)
LEMMA EntryPlaced ==
  ASSUME Finished, Harmless
  PROVE  /\ <<Entry, 0>> \in NewNames
         /\ \E y \in Places[<<Entry, 0>>] : y # 0 /\ text[y].k = "label"
<1>1. PICK n \in Names : n = Entry
  BY ObjectAssumption
<1>2. UnitsTyped /\ NoConflict /\ text \in Seq(Outs)
  BY DEF Finished
<1>3. PICK i \in DOMAIN units : Says(units[i], {"label"}, n) /\ External(units[i], n)
  BY <1>1 DEF Harmless
<1>4. Rank(n) \in {1, 3}
  <2>1. Strong(units[i], n)
    BY <1>3 DEF Strong, Says
  <2>2. Priority(units[i], n) \in {1, 3} /\ Priority(units[i], n) <= Rank(n)
    BY <1>2, <1>3, <2>1, PriorityIs, RankIs
  <2>3. ASSUME Rank(n) = 2 PROVE FALSE
    <3>1. PICK h \in DOMAIN units : Priority(units[h], n) = 2
      BY <1>2, <2>3, RankIs
    <3>2. Common(units[h], n)
      BY <3>1, PriorityIs
    <3>3. ~Says(units[h], {"set", "comm"}, n)
      BY <1>1 DEF Harmless
    <3> QED BY <3>2, <3>3 DEF Common, Says
  <2>4. Rank(n) \in 0 .. 3
    BY <1>2, RankIs
  <2> QED BY <2>2, <2>3, <2>4
<1>5. PICK w \in DOMAIN units : w = Winner(n)
  BY <1>2, <1>4, WinnerIs
<1>6. PICK j \in DOMAIN units[w] :
        /\ units[w][j].n = n /\ units[w][j].k \in {"label", "set"}
        /\ \E x \in Defs(<<n, 0>>) : text[x].k = units[w][j].k
  BY <1>4, <1>5, WinnerStays
<1>7. units[w][j].k = "label"
  <2>1. ~Says(units[w], {"set", "comm"}, n)
    BY <1>1 DEF Harmless
  <2> QED BY <1>6, <2>1 DEF Says
<1>8. PICK x \in Defs(<<n, 0>>) : text[x].k = "label"
  BY <1>6, <1>7
<1>9. x \in DOMAIN text /\ text[x].n = <<n, 0>> /\ x # 0
  BY <1>2, LenProperties DEF Defs
<1>10. PICK name \in NewNames : name = <<n, 0>>
  BY <1>9 DEF NewNames
<1>11. x \in Placed[name]
  BY <1>8, <1>10 DEF Placed
<1>12. Places[name] = Placed[name]
  BY <1>2, <1>10, <1>11, PlacesAre DEF Kept
<1> QED BY <1>1, <1>8, <1>9, <1>10, <1>11, <1>12

LEMMA FinishedHarmless == Finished /\ Harmless => ~ImageRefuses
<1> SUFFICES ASSUME Finished, Harmless PROVE ~ImageRefuses
  OBVIOUS
<1>1. DOMAIN text \subseteq Nat
  BY LenProperties DEF Finished
<1>2. ASSUME NEW j \in DOMAIN text, NEW k \in DOMAIN text, j < k, text[j].n = text[k].n,
             {text[j].k, text[k].k} \subseteq {"label", "set", "comm"}
      PROVE  FALSE
  <2>1. j = k
    BY <1>2, DefinedOnce DEF Definition
  <2> QED BY <1>1, <1>2, <2>1
<1> QED BY <1>2, UsePlaced, EntryPlaced DEF ImageRefuses

-----------------------------------------------------------------------------
(* What is said of the units, and of the text, does not change while they  *)
(* do not.                                                                 *)
LEMMA SameUnits ==
  ASSUME UNCHANGED units
  PROVE  /\ UnitsTyped' = UnitsTyped /\ NoConflict' = NoConflict
         /\ \A n : /\ TwoStrong(n)' = TwoStrong(n) /\ StrongReference(n)' = StrongReference(n)
                   /\ Supplied(n)' = Supplied(n)
         /\ \A k : Family(k)' = Family(k)
         /\ Whole' = Whole
<1>1. /\ UnitsTyped' = UnitsTyped
      /\ \A n : TwoStrong(n)' = TwoStrong(n) /\ StrongReference(n)' = StrongReference(n)
  BY DEF UnitsTyped, TwoStrong, StrongReference
<1>2. NoConflict' = NoConflict
  BY <1>1 DEF NoConflict
<1>3. \A n : Rank(n)' = Rank(n)
  BY DEF Rank
<1>4. \A n : Winner(n)' = Winner(n)
  BY <1>3 DEF Winner
<1>5. \A i, n, k : NewName(i, n, k)' = NewName(i, n, k)
  <2>1. \A i, n : Private(i, n)' = Private(i, n)
    BY DEF Private
  <2>2. \A i, n, k : Discarded(i, n, k)' = Discarded(i, n, k)
    BY <1>4 DEF Discarded
  <2> QED BY <2>1, <2>2 DEF NewName
<1>6. \A i, s : Rewritten(i, s)' = Rewritten(i, s)
  BY <1>5 DEF Rewritten
<1>7. /\ \A k : RowsOf(k)' = RowsOf(k)
      /\ \A e : RowOf(e)' = RowOf(e)
  BY <1>6 DEF RowsOf, RowOf
<1>8. \A k : Family(k)' = Family(k)
  BY <1>7 DEF Family
<1>9. \A n : Commons(n)' = Commons(n)
  <2>1. \A n : CommonUnits(n)' = CommonUnits(n)
    BY DEF CommonUnits
  <2> QED BY <1>3, <2>1 DEF Commons
<1>10. \A n : WeakImport(n)' = WeakImport(n)
  BY <1>1, <1>3 DEF WeakImport
<1>11. Whole' = Whole
  <2>1. CommonRows' = CommonRows /\ WeakRows' = WeakRows
    BY <1>9, <1>10 DEF CommonRows, WeakRows
  <2> QED BY <1>7, <1>9, <1>10, <2>1 DEF Whole
<1>12. \A n : Supplied(n)' = Supplied(n)
  BY <1>1 DEF Supplied
<1> QED BY <1>1, <1>2, <1>8, <1>11, <1>12

LEMMA SameText ==
  ASSUME UNCHANGED text
  PROVE  ImageRefuses' = ImageRefuses
<1>1. NewNames' = NewNames /\ Aliases' = Aliases
      /\ \A n : Defs(n)' = Defs(n) /\ IsWeak(n)' = IsWeak(n)
  BY DEF NewNames, Aliases, Defs, IsWeak
<1>2. Placed' = Placed
  BY <1>1 DEF Placed
<1>3. Rounds' = Rounds
  BY <1>1 DEF Rounds
<1>4. Places' = Places
  BY <1>2, <1>3 DEF Places
<1> QED BY <1>1, <1>4 DEF ImageRefuses

-----------------------------------------------------------------------------
(* What holds on the way: which units have been scanned, and that the text *)
(* is all that is left of the units before the present one.                *)
Written(k) == IF pass = "write" THEN text \in Seq(Outs) /\ Lists(text, Family(k))
              ELSE text = <<>>

LinkInv ==
  /\ UnitsTyped /\ at \in DOMAIN units
  /\ capacity \in Nat /\ needed \in Nat /\ pass \in {"measure", "write"}
  /\ pc \in {"explicit", "members", "start", "scan"} => pass = "measure" /\ text = <<>>
  /\ pc \in {"members", "start", "tail"} => at = 1
  /\ pc \in {"scan", "rewrite", "tail"} => Len(units) # 1
  /\ pc = "scan" => \A i \in 1 .. at - 1 : ~ScanRefuses(units[i])
  /\ pc \in {"rewrite", "tail"} => \A i \in DOMAIN units : ~ScanRefuses(units[i])
  /\ pc = "rewrite" => Written(at - 1)
  /\ pc = "tail" => Written(Len(units))
  /\ pc \in {"image", "linked"} => Finished \/ Alone
  /\ pc = "linked" => ~ImageRefuses
  /\ pc = "refused" => ~Harmless

LEMMA NoneWritten == ASSUME UnitsTyped PROVE Lists(<<>>, Family(0))
<1>1. DOMAIN Family(0) = {}
  BY DEF Family, RowsOf
<1> QED BY <1>1, ListsNone

LEMMA SameWritten ==
  ASSUME UNCHANGED <<units, pass, text>>
  PROVE  \A k : Written(k)' = Written(k)
BY SameUnits DEF Written

LEMMA SameAll ==
  ASSUME UNCHANGED <<units, text>>
  PROVE  Finished' = Finished /\ Alone' = Alone
<1>1. Finished' = Finished
  BY SameUnits DEF Finished
<1>2. Alone' = Alone
  BY SameUnits DEF Alone
<1> QED BY <1>1, <1>2

LEMMA SameHarmless ==
  ASSUME UNCHANGED <<units, needed, capacity>>
  PROVE  Harmless' = Harmless
BY SameUnits DEF Harmless

LEMMA LinkStays == LinkInv /\ UNCHANGED vars => LinkInv'
<1> SUFFICES ASSUME LinkInv, UNCHANGED vars PROVE LinkInv'
  OBVIOUS
<1>1. UNCHANGED <<units, capacity, pc, at, pass, needed, text>>
  BY DEF vars
<1>2. /\ UnitsTyped' = UnitsTyped /\ Finished' = Finished /\ Alone' = Alone
      /\ ImageRefuses' = ImageRefuses /\ Harmless' = Harmless
      /\ \A k : Written(k)' = Written(k)
  BY <1>1, SameUnits, SameWritten, SameAll, SameHarmless, SameText
<1> QED BY <1>1, <1>2 DEF LinkInv

LEMMA StartKeeps == LinkInv /\ Start => LinkInv'
<1> SUFFICES ASSUME LinkInv, Start PROVE LinkInv'
  OBVIOUS
<1>1. /\ UNCHANGED <<units, capacity, at, pass, needed>>
      /\ UnitsTyped /\ at \in DOMAIN units /\ capacity \in Nat /\ needed \in Nat
      /\ pass = "measure" /\ text = <<>> /\ at = 1
  BY DEF LinkInv, Start
<1>2. UnitsTyped'
  BY <1>1, SameUnits
<1>3. CASE Len(units) = 1
  <2>1. pc' = "image" /\ text' = [j \in DOMAIN units[1] |-> AsItStands(units[1][j])]
    BY <1>3 DEF Start
  <2>2. Alone'
    BY <1>1, <1>2, <1>3, <2>1 DEF Alone
  <2> QED BY <1>1, <1>2, <2>1, <2>2 DEF LinkInv
<1>4. CASE Len(units) # 1
  <2>1. pc' = "scan" /\ text' = text
    BY <1>4 DEF Start
  <2> QED BY <1>1, <1>2, <1>4, <2>1 DEF LinkInv
<1> QED BY <1>3, <1>4

LEMMA ScanKeeps == LinkInv /\ Scan => LinkInv'
<1> SUFFICES ASSUME LinkInv, Scan PROVE LinkInv'
  OBVIOUS
<1>1. /\ UNCHANGED <<units, capacity, pass, needed, text>> /\ pc = "scan"
      /\ UnitsTyped /\ at \in DOMAIN units /\ capacity \in Nat /\ needed \in Nat
      /\ pass = "measure" /\ text = <<>> /\ Len(units) # 1
      /\ \A i \in 1 .. at - 1 : ~ScanRefuses(units[i])
  BY DEF LinkInv, Scan, Refuse
<1>2. UnitsTyped' /\ DOMAIN units = 1 .. Len(units) /\ Len(units) \in Nat
  BY <1>1, SameUnits, UnitsAre
<1>3. CASE ScanRefuses(units[at])
  <2>1. pc' = "refused" /\ at' = at
    BY <1>3 DEF Scan, Refuse
  <2>2. ~Harmless
    BY <1>1, <1>3, ObjectAssumption DEF Harmless
  <2>3. ~Harmless'
    BY <1>1, <2>2, SameHarmless
  <2> QED BY <1>1, <1>2, <2>1, <2>3 DEF LinkInv
<1>4. CASE ~ScanRefuses(units[at])
  <2>1. \A i \in 1 .. at : ~ScanRefuses(units[i])
    BY <1>1, <1>2, <1>4
  <2>2. CASE at = Len(units)
    <3>1. at' = 1 /\ pc' = "rewrite"
      BY <1>4, <2>2 DEF Scan
    <3>2. \A i \in DOMAIN units : ~ScanRefuses(units[i])
      BY <1>2, <2>1, <2>2
    <3>3. Written(0)'
      BY <1>1 DEF Written
    <3>4. at' - 1 = 0 /\ 1 \in DOMAIN units
      BY <1>1, <1>2, <3>1
    <3> QED BY <1>1, <1>2, <3>1, <3>2, <3>3, <3>4 DEF LinkInv
  <2>3. CASE at # Len(units)
    <3>1. at' = at + 1 /\ pc' = "scan"
      BY <1>1, <1>4, <2>3 DEF Scan
    <3>2. at' \in DOMAIN units /\ at' - 1 = at
      BY <1>1, <1>2, <2>3, <3>1
    <3>3. \A i \in 1 .. at' - 1 : ~ScanRefuses(units'[i])
      BY <1>1, <2>1, <3>2
    <3> QED BY <1>1, <1>2, <3>1, <3>2, <3>3 DEF LinkInv
  <2> QED BY <2>2, <2>3
<1> QED BY <1>3, <1>4

LEMMA RewriteKeeps == LinkInv /\ Rewrite => LinkInv'
<1> SUFFICES ASSUME LinkInv, Rewrite PROVE LinkInv'
  OBVIOUS
<1>1. /\ UNCHANGED <<units, capacity, pass>> /\ pc = "rewrite"
      /\ UnitsTyped /\ at \in DOMAIN units /\ capacity \in Nat /\ needed \in Nat
      /\ pass \in {"measure", "write"} /\ Len(units) # 1
      /\ \A i \in DOMAIN units : ~ScanRefuses(units[i])
      /\ Written(at - 1)
  BY DEF LinkInv, Rewrite, Refuse
<1>2. UnitsTyped' /\ DOMAIN units = 1 .. Len(units) /\ Len(units) \in Nat
  BY <1>1, SameUnits, UnitsAre
<1>3. CASE RewriteRefuses(at)
  <2>1. pc' = "refused" /\ UNCHANGED <<at, needed, text>>
    BY <1>3 DEF Rewrite, Refuse
  <2>2. \E n \in Names : TwoStrong(n)
    <3>1. PICK j \in DOMAIN units[at] :
            LET s == units[at][j]
            IN  \/ s.k \in {"label", "set"} /\ Weak(units[at], s.n) /\ TwoStrong(s.n)
                \/ s.k = "set" /\ Weak(units[at], s.to) /\ Strong(units[at], s.to) /\ TwoStrong(s.to)
      BY <1>3 DEF RewriteRefuses
    <3>2. PICK s : s = units[at][j] /\ IsStatement(s)
      BY <1>1, UnitsAre
    <3>3. TwoStrong(s.n) \/ (s.k = "set" /\ TwoStrong(s.to))
      BY <3>1, <3>2
    <3>4. s.n \in Names /\ (s.k = "set" => s.to \in Names)
      BY <3>2 DEF IsStatement
    <3> QED BY <3>3, <3>4
  <2>3. ~Harmless
    BY <2>2 DEF Harmless
  <2>4. ~Harmless'
    BY <1>1, <2>1, <2>3, SameHarmless
  <2> QED BY <1>1, <1>2, <2>1, <2>4 DEF LinkInv
<1>4. CASE ~RewriteRefuses(at)
  <2>1. RewriteUnit(at) \in Seq(Outs) /\ Len(RewriteUnit(at)) \in Nat
    BY <1>1, RewriteUnitLists, LenProperties
  <2>2. Emit(RewriteUnit(at))
    BY <1>4 DEF Rewrite
  <2>3. needed' \in Nat
    BY <1>1, <2>1, <2>2 DEF Emit
  <2>4. PICK b \in Nat : b = at
    BY <1>1, <1>2
  <2>5. Written(b)'
    <3>1. CASE pass = "measure"
      BY <1>1, <2>2, <3>1 DEF Emit, Written
    <3>2. CASE pass = "write"
      <4>1. text' = text \o RewriteUnit(b)
        BY <2>2, <2>4, <3>2 DEF Emit
      <4>2. text \in Seq(Outs) /\ Lists(text, Family(b - 1))
        BY <1>1, <2>4, <3>2 DEF Written
      <4>3. text' \in Seq(Outs) /\ Lists(text', Family(b))
        BY <1>1, <2>4, <4>1, <4>2, FamilyGrows
      <4>4. Family(b)' = Family(b)
        BY <1>1, SameUnits
      <4> QED BY <1>1, <3>2, <4>3, <4>4 DEF Written
    <3> QED BY <1>1, <3>1, <3>2
  <2>6. CASE at = Len(units)
    <3>1. at' = 1 /\ pc' = "tail"
      BY <1>4, <2>6 DEF Rewrite
    <3>2. b = Len(units) /\ Len(units)' = b /\ 1 \in DOMAIN units
      BY <1>1, <1>2, <2>4, <2>6
    <3>3. Written(Len(units))'
      BY <2>5, <3>2
    <3> QED BY <1>1, <1>2, <2>3, <3>1, <3>2, <3>3 DEF LinkInv
  <2>7. CASE at # Len(units)
    <3>1. at' = b + 1 /\ pc' = "rewrite"
      BY <1>1, <1>4, <2>4, <2>7 DEF Rewrite
    <3>2. at' \in DOMAIN units /\ at' - 1 = b
      BY <1>1, <1>2, <2>4, <2>7, <3>1
    <3>3. Written(at - 1)'
      BY <2>5, <3>2
    <3> QED BY <1>1, <1>2, <2>3, <3>1, <3>2, <3>3 DEF LinkInv
  <2> QED BY <2>6, <2>7
<1> QED BY <1>3, <1>4

LEMMA FinishKeeps == LinkInv /\ Finish => LinkInv'
<1> SUFFICES ASSUME LinkInv, Finish PROVE LinkInv'
  OBVIOUS
<1> DEFINE e == Each(Commons) \o Each(WeakImport)
<1>1. /\ UNCHANGED <<units, capacity, at>> /\ pc = "tail" /\ at = 1
      /\ UnitsTyped /\ at \in DOMAIN units /\ capacity \in Nat /\ needed \in Nat
      /\ pass \in {"measure", "write"} /\ Len(units) # 1
      /\ \A i \in DOMAIN units : ~ScanRefuses(units[i])
      /\ Written(Len(units))
  BY DEF LinkInv, Finish, Refuse
<1>2. UnitsTyped' /\ DOMAIN units = 1 .. Len(units) /\ Len(units) \in Nat
  BY <1>1, SameUnits, UnitsAre
<1>3. CASE TailRefuses
  <2>1. pc' = "refused" /\ UNCHANGED <<at, pass, needed, text>>
    BY <1>3 DEF Finish, Refuse
  <2>2. ~Harmless
    BY <1>3 DEF Harmless, TailRefuses
  <2>3. ~Harmless'
    BY <1>1, <2>1, <2>2, SameHarmless
  <2> QED BY <1>1, <1>2, <2>1, <2>3 DEF LinkInv
<1>4. CASE ~TailRefuses
  <2>1. NoConflict
    BY <1>1, <1>4 DEF NoConflict, TailRefuses
  <2>2. e \in Seq(Outs)
    BY <1>1, TailLists
  <2>3. Emit(e)
    BY <1>4 DEF Finish
  <2> HIDE DEF e
  <2>4. needed' \in Nat
    BY <1>1, <2>2, <2>3, LenProperties DEF Emit
  <2>5. CASE pass = "write"
    <3>1. pc' = "image" /\ pass' = pass /\ text' = text \o e
      BY <1>4, <2>3, <2>5 DEF Finish, Emit
    <3>2. text \in Seq(Outs) /\ Lists(text, Family(Len(units)))
      BY <1>1, <2>5 DEF Written
    <3>3. text' \in Seq(Outs) /\ Lists(text', Whole)
      BY <1>1, <3>1, <3>2, TailLists DEF e
    <3>4. Whole' = Whole /\ NoConflict' = NoConflict
      BY <1>1, SameUnits
    <3>5. Finished'
      BY <1>1, <1>2, <2>1, <3>3, <3>4 DEF Finished
    <3> QED BY <1>1, <1>2, <2>4, <3>1, <3>5 DEF LinkInv
  <2>6. CASE pass = "measure"
    <3>1. text' = text /\ text = <<>>
      BY <1>1, <2>3, <2>6 DEF Emit, Written
    <3>2. CASE needed' >= capacity
      <4>1. pc' = "refused" /\ pass' = pass
        BY <1>4, <2>6, <3>2 DEF Finish
      <4>2. ~(needed' < capacity')
        BY <1>1, <2>4, <3>2
      <4>3. ~Harmless'
        BY <4>2 DEF Harmless
      <4> QED BY <1>1, <1>2, <2>4, <4>1, <4>3 DEF LinkInv
    <3>3. CASE ~(needed' >= capacity)
      <4>1. pc' = "rewrite" /\ pass' = "write"
        BY <1>4, <2>6, <3>3 DEF Finish
      <4>2. Lists(<<>>, Family(0)) /\ <<>> \in Seq(Outs)
        BY <1>1, NoneWritten
      <4>3. Family(0)' = Family(0)
        BY <1>1, SameUnits
      <4>4. Written(0)'
        BY <3>1, <4>1, <4>2, <4>3 DEF Written
      <4>5. at' - 1 = 0
        BY <1>1
      <4>6. Written(at - 1)'
        BY <4>4, <4>5
      <4> QED BY <1>1, <1>2, <2>4, <4>1, <4>6 DEF LinkInv
    <3> QED BY <3>2, <3>3
  <2> QED BY <1>1, <2>5, <2>6
<1> QED BY <1>3, <1>4

LEMMA ImageKeeps == LinkInv /\ Image => LinkInv'
<1> SUFFICES ASSUME LinkInv, Image PROVE LinkInv'
  OBVIOUS
<1>1. /\ UNCHANGED <<units, capacity, at, pass, needed, text>> /\ pc = "image"
      /\ Finished \/ Alone
  BY DEF LinkInv, Image
<1>2. /\ UnitsTyped' = UnitsTyped /\ Finished' = Finished /\ Alone' = Alone
      /\ ImageRefuses' = ImageRefuses /\ Harmless' = Harmless
  BY <1>1, SameUnits, SameAll, SameHarmless, SameText
<1>3. CASE ImageRefuses
  <2>1. pc' = "refused"
    BY <1>3 DEF Image
  <2>2. Len(units) = 1 => ~Harmless
    BY DEF Harmless
  <2>3. Alone => Len(units) = 1
    BY DEF Alone
  <2>4. ~Harmless
    BY <1>1, <1>3, <2>2, <2>3, FinishedHarmless
  <2> QED BY <1>1, <1>2, <2>1, <2>4 DEF LinkInv
<1>4. CASE ~ImageRefuses
  <2>1. pc' = "linked"
    BY <1>4 DEF Image
  <2> QED BY <1>1, <1>2, <1>4, <2>1 DEF LinkInv
<1> QED BY <1>3, <1>4

LEMMA NextKeeps == LinkInv /\ [Next]_vars => LinkInv'
BY StartKeeps, ScanKeeps, RewriteKeeps, FinishKeeps, ImageKeeps, LinkStays DEF Next

LEMMA InitLinks ==
  ASSUME units \in Inputs, capacity \in Capacities, at = 1, pass = "measure", needed = 0, text = <<>>,
         pc \in {"explicit", "start"}
  PROVE  LinkInv
<1>1. UnitsTyped
  BY ObjectAssumption DEF UnitsTyped
<1>2. 1 \in DOMAIN units
  BY <1>1, UnitsAre
<1> QED BY <1>1, <1>2, ObjectAssumption DEF LinkInv

LEMMA InvBinds == LinkInv => BindsRight /\ NeverSpurious
<1> SUFFICES ASSUME LinkInv PROVE BindsRight /\ NeverSpurious
  OBVIOUS
<1>1. BindsRight
  BY FinishedBinds, AloneBinds DEF LinkInv, BindsRight
<1> QED BY <1>1 DEF LinkInv, NeverSpurious

(* Adding a unit keeps the units typed.                                    *)
LEMMA AddKeeps ==
  ASSUME UnitsTyped, NEW u, IsUnit(u), units' = Append(units, u)
  PROVE  UnitsTyped' /\ DOMAIN units \subseteq DOMAIN units'
<1>1. PICK l \in Nat : l = Len(units) /\ DOMAIN units = 1 .. l /\ l >= 1
  BY UnitsAre
<1>2. units \in Seq(Range(units))
  BY DEF UnitsTyped
<1>3. PICK T : T = Range(units) \cup {u}
  OBVIOUS
<1>4. /\ units' \in Seq(T) /\ Len(units') = l + 1
      /\ units'[l + 1] = u
      /\ \A i \in 1 .. l : units'[i] = units[i]
  BY <1>1, <1>2, <1>3, Longer
<1>5. DOMAIN units' = 1 .. l + 1
  BY <1>1, <1>4, LenProperties
<1>6. \A i \in DOMAIN units' : IsUnit(units'[i])
  <2> SUFFICES ASSUME NEW i \in 1 .. l + 1 PROVE IsUnit(units'[i])
    BY <1>5
  <2>1. CASE i = l + 1
    BY <1>4, <2>1
  <2>2. CASE i # l + 1
    <3>1. i \in 1 .. l
      BY <1>1, <2>2
    <3> QED BY <1>1, <1>4, <3>1 DEF UnitsTyped
  <2> QED BY <2>1, <2>2
<1>7. units' \in [1 .. l + 1 -> Range(units')]
  BY <1>4, <1>5, LenProperties DEF Range
<1>8. units' \in Seq(Range(units'))
  <2>1. PICK R : R = Range(units')
    OBVIOUS
  <2>2. PICK n \in Nat : n = l + 1
    OBVIOUS
  <2>3. units' \in [1 .. n -> R]
    BY <1>7, <2>1, <2>2
  <2>4. units' \in Seq(R)
    BY ONLY <2>3, n \in Nat, SeqDef
  <2> QED BY <2>1, <2>4
<1>9. units' # <<>>
  BY <1>1, <1>5
<1>10. DOMAIN units \subseteq DOMAIN units'
  BY <1>1, <1>5
<1> QED BY <1>6, <1>8, <1>9, <1>10 DEF UnitsTyped

ArchiveLinkInv == LinkInv /\ members \in Archives /\ m \in Nat /\ m >= 1

LEMMA SelectKeeps == ArchiveLinkInv /\ Select => ArchiveLinkInv'
<1> SUFFICES ASSUME ArchiveLinkInv, Select PROVE ArchiveLinkInv'
  OBVIOUS
<1>1. /\ UNCHANGED <<capacity, pass, needed, text, members>>
      /\ pc \in {"explicit", "members"}
      /\ UnitsTyped /\ at \in DOMAIN units /\ capacity \in Nat /\ needed \in Nat
      /\ pass = "measure" /\ text = <<>> /\ members \in Archives
      /\ m' \in Nat /\ m' >= 1
  <2>1. UNCHANGED <<capacity, pass, needed, text, members>> /\ pc \in {"explicit", "members"}
    BY DEF Select, Explicit, Examine, EndPass
  <2>2. m' \in {m, m + 1, 1}
    BY DEF Select, Explicit, Examine, EndPass, Stop, Skip, Add, Passes
  <2>3. m \in Nat /\ m >= 1 /\ members \in Archives /\ LinkInv
    BY DEF ArchiveLinkInv
  <2>4. /\ UnitsTyped /\ at \in DOMAIN units /\ capacity \in Nat /\ needed \in Nat
        /\ pass = "measure" /\ text = <<>>
    BY <2>1, <2>3 DEF LinkInv
  <2> QED BY <2>1, <2>2, <2>3, <2>4
<1>2. CASE Explicit
  <2>1. UNCHANGED units /\ \/ pc' = "stopped" /\ at' = at
                           \/ pc' = "members" /\ at' = 1
                           \/ pc' = "explicit" /\ at' = at + 1 /\ at # Len(units)
    BY <1>2 DEF Explicit, Stop
  <2>2. UnitsTyped' /\ DOMAIN units = 1 .. Len(units) /\ Len(units) \in Nat /\ Len(units) >= 1
    BY <1>1, <2>1, SameUnits, UnitsAre
  <2>3. at' \in DOMAIN units'
    BY <1>1, <2>1, <2>2
  <2> QED BY <1>1, <2>1, <2>2, <2>3 DEF ArchiveLinkInv, LinkInv
<1>3. CASE Examine
  <2>1. /\ pc = "members" /\ at' = at /\ m <= Len(members)
        /\ \/ UNCHANGED units /\ pc' \in {"members", "stopped"}
           \/ units' = Append(units, members[m]) /\ pc' = pc
    BY <1>3 DEF Examine, Stop, Skip, Add
  <2>2. at = 1
    BY <2>1 DEF ArchiveLinkInv, LinkInv
  <2>3. CASE UNCHANGED units /\ pc' \in {"members", "stopped"}
    <3>1. UnitsTyped'
      BY <1>1, <2>3, SameUnits
    <3> QED BY <1>1, <2>1, <2>2, <2>3, <3>1 DEF ArchiveLinkInv, LinkInv
  <2>4. CASE units' = Append(units, members[m]) /\ pc' = pc
    <3>1. IsUnit(members[m])
      <4>1. m \in Nat /\ m >= 1 /\ members \in Archives
        BY DEF ArchiveLinkInv
      <4>2. members \in Seq(Range(members)) /\ \A i \in DOMAIN members : IsUnit(members[i])
        BY <4>1, ArchiveAssumption
      <4>3. m \in DOMAIN members
        BY <2>1, <4>1, <4>2, LenProperties
      <4> QED BY <4>2, <4>3
    <3>2. UnitsTyped' /\ at' \in DOMAIN units'
      BY <1>1, <2>1, <2>4, <3>1, AddKeeps
    <3> QED BY <1>1, <2>1, <2>2, <2>4, <3>2 DEF ArchiveLinkInv, LinkInv
  <2> QED BY <2>1, <2>3, <2>4
<1>4. CASE EndPass
  <2>1. pc = "members" /\ UNCHANGED <<units, at>> /\ pc' \in {"members", "start"}
    BY <1>4 DEF EndPass, Passes
  <2>2. at = 1
    BY <2>1 DEF ArchiveLinkInv, LinkInv
  <2>3. UnitsTyped'
    BY <1>1, <2>1, SameUnits
  <2> QED BY <1>1, <2>1, <2>2, <2>3 DEF ArchiveLinkInv, LinkInv
<1> QED BY <1>2, <1>3, <1>4 DEF Select

LEMMA ArchiveLinkKeeps == ArchiveLinkInv /\ [ArchiveNext]_allVars => ArchiveLinkInv'
<1> SUFFICES ASSUME ArchiveLinkInv, [ArchiveNext]_allVars PROVE ArchiveLinkInv'
  OBVIOUS
<1>1. CASE Select
  BY <1>1, SelectKeeps
<1>2. CASE Link
  <2>1. Next /\ UNCHANGED <<members, m>>
    BY <1>2 DEF Link, archiveVars
  <2> QED BY <2>1, NextKeeps DEF ArchiveLinkInv
<1>3. CASE UNCHANGED allVars
  <2>1. UNCHANGED vars /\ UNCHANGED <<members, m>>
    BY <1>3 DEF allVars, archiveVars
  <2> QED BY <2>1, LinkStays DEF ArchiveLinkInv
<1> QED BY <1>1, <1>2, <1>3 DEF ArchiveNext

LEMMA LinkInvHolds == Spec => []LinkInv
<1>1. Init => LinkInv
  BY InitLinks DEF Init
<1>2. LinkInv /\ [Next]_vars => LinkInv'
  BY NextKeeps
<1> QED BY <1>1, <1>2, PTL DEF Spec

LEMMA ArchiveLinkInvHolds == ArchiveSpec => []ArchiveLinkInv
<1>1. ArchiveInit => ArchiveLinkInv
  BY InitLinks DEF ArchiveInit, ArchiveLinkInv
<1>2. ArchiveLinkInv /\ [ArchiveNext]_allVars => ArchiveLinkInv'
  BY ArchiveLinkKeeps
<1> QED BY <1>1, <1>2, PTL DEF ArchiveSpec

(* Every use in a linked text reaches the definition that the units call   *)
(* for, however many there are and in whatever order, and a common is as   *)
(* large and as aligned as any unit asks (object_rewrite, object_winner,   *)
(* object_commons and object_weak_imports of copy_link.c).                 *)
THEOREM UsesBindRight == Spec => []BindsRight
<1>1. LinkInv => BindsRight
  BY InvBinds
<1> QED BY <1>1, LinkInvHolds, PTL

(* So it does when members of archives were added to the units.            *)
THEOREM ArchivesBindRight == ArchiveSpec => []BindsRight
<1>1. ArchiveLinkInv => BindsRight
  BY InvBinds DEF ArchiveLinkInv
<1> QED BY <1>1, ArchiveLinkInvHolds, PTL

(* Units without a conflict, all of whose names are supplied, are never    *)
(* refused, by link_objects or by the image linker after it.               *)
THEOREM NeverSpuriouslyRefused == Spec => []NeverSpurious
<1>1. LinkInv => NeverSpurious
  BY InvBinds
<1> QED BY <1>1, LinkInvHolds, PTL

(* Nor with members of archives among them.                                *)
THEOREM ArchivesNeverSpurious == ArchiveSpec => []NeverSpurious
<1>1. ArchiveLinkInv => NeverSpurious
  BY InvBinds DEF ArchiveLinkInv
<1> QED BY <1>1, ArchiveLinkInvHolds, PTL
=============================================================================
