------------------------- MODULE SectionLayoutProofs -------------------------
(***************************************************************************)
(* The data of a copy program (SectionLayout), for every text, any number  *)
(* of sections, and a memory of any size.                                  *)
(*                                                                         *)
(* While the text is read, the staging area holds of every fragment what   *)
(* its section was given, and every cell of a section belongs to one       *)
(* (Staged); the pointers in it are those still to be resolved (Listed).   *)
(* layout_data gives places one after the other (Based); then the area     *)
(* holds the resolved cells (Resolved), and moving the fragments never     *)
(* writes two things to one place (Meet).                                  *)
(***************************************************************************)
EXTENDS SectionLayout, SequenceTheorems, WellFoundedInduction, TLAPS

(* What an area, a section and its fragments are made of.                  *)
Cells == {Cell(v) : v \in Nat} \cup {Pointer(l) : l \in Labels}
Records == [name : SectionNames, position : Nat, alignment : Nat \ {0}, base : Nat]
Later == [at : Nat, label : Labels]
Pieces == [staging : Nat, offset : Nat, count : Nat \ {0}, section : Nat]

IsData(s) == Kind[s.name] \in {1, 2}
IsPointer(c) == "pointer" \in DOMAIN c

(* The sections have names of their own; every name has been given as many *)
(* cells as its section has positions, and none before it has a section.   *)
Named(all, given) ==
  /\ all \in Seq(Records) /\ Len(all) >= 1
  /\ \A i, j \in DOMAIN all : all[i].name = all[j].name => i = j
  /\ given \in [SectionNames -> Seq(Cells)]
  /\ \A i \in DOMAIN all : Len(given[all[i].name]) = all[i].position
  /\ \A n \in SectionNames : (\A i \in DOMAIN all : all[i].name # n) => given[n] = <<>>

(* The cells of a fragment are cells of one section of data, and staged.   *)
Spans(all, pieces, top) ==
  /\ pieces \in Seq(Pieces)
  /\ \A x \in DOMAIN pieces :
       /\ pieces[x].section \in DOMAIN all /\ IsData(all[pieces[x].section])
       /\ pieces[x].offset + pieces[x].count <= all[pieces[x].section].position
       /\ pieces[x].staging + pieces[x].count <= top

(* The staging area holds of every fragment what its section was given.    *)
Carries(all, pieces, given, cells) ==
  \A x \in DOMAIN pieces : \A k \in 0 .. pieces[x].count - 1 :
    cells[pieces[x].staging + k] = given[all[pieces[x].section].name][pieces[x].offset + k + 1]

(* Every cell of a section of data is a fragment's.                        *)
Covers(all, pieces) ==
  \A i \in DOMAIN all : IsData(all[i]) =>
    \A k \in 0 .. all[i].position - 1 :
      \E x \in DOMAIN pieces :
        /\ pieces[x].section = i
        /\ pieces[x].offset <= k /\ k < pieces[x].offset + pieces[x].count

(* The staged pointers are those that are to be resolved.                  *)
Listed(cells, later, top) ==
  /\ later \in Seq(Later)
  /\ \A x \in DOMAIN later :
       later[x].at \in First .. top - 1 /\ cells[later[x].at] = Pointer(later[x].label)
  /\ \A a \in 0 .. 2 * Capacity - 1 :
       IsPointer(cells[a]) => \E x \in DOMAIN later : later[x].at = a

Staged(all, pieces, top, cells, given) ==
  /\ Named(all, given) /\ Spans(all, pieces, top) /\ Covers(all, pieces)
  /\ Carries(all, pieces, given, cells)
  /\ top \in First .. Capacity
  /\ DOMAIN cells = 0 .. 2 * Capacity - 1
  /\ \A a \in top .. 2 * Capacity - 1 : cells[a] = Zero

Selects == /\ active \in DOMAIN sections /\ previous \in DOMAIN sections
           /\ stack \in Seq(DOMAIN sections)

(* The sections of data have places one after the other.                   *)
Based(all) ==
  /\ \A i \in DOMAIN all : IsData(all[i]) =>
       /\ all[i].base % all[i].alignment = 0 /\ all[i].base >= First
       /\ all[i].base + all[i].position <= Capacity
  /\ \A i, j \in DOMAIN all : IsData(all[i]) /\ IsData(all[j]) /\ i < j =>
       all[i].base + all[i].position <= all[j].base

(* The area holds of every fragment what its section was given, resolved.  *)
Resolved ==
  /\ DOMAIN area = 0 .. 2 * Capacity - 1
  /\ \A x \in DOMAIN fragments : \A k \in 0 .. fragments[x].count - 1 :
       area[fragments[x].staging + k] =
         Final(content[sections[fragments[x].section].name][fragments[x].offset + k + 1])

(* What the proof of DataPlaced carries from step to step.                 *)
LayoutInv ==
  /\ step \in {"read", "relocate", "pack", "done", "refused"}
  /\ step = "read" => /\ Staged(sections, fragments, cursor, area, content) /\ Selects
                      /\ Listed(area, relocations, cursor)
  /\ step = "relocate" => /\ Staged(sections, fragments, cursor, area, content)
                          /\ Listed(area, relocations, cursor) /\ Based(sections)
  /\ step = "pack" => /\ Named(sections, content) /\ Spans(sections, fragments, cursor)
                      /\ Covers(sections, fragments) /\ cursor \in First .. Capacity
                      /\ Resolved /\ Based(sections)
  /\ DataPlaced
(* Induction over the numbers, as a fact about sets of them.               *)
LessThan == {r \in Nat \X Nat : r[1] < r[2]}

LEMMA Induction ==
  ASSUME NEW S, 0 \in S, \A n \in Nat : n \in S => n + 1 \in S
  PROVE  Nat \subseteq S
<1> SUFFICES ASSUME Nat \ S # {} PROVE FALSE
  OBVIOUS
<1>1. IsWellFoundedOn(LessThan, Nat)
  <2>1. OpToRel(<, Nat) = LessThan
    BY DEF OpToRel, LessThan
  <2> QED BY <2>1, NatLessThanWellFounded
<1>2. PICK least \in Nat \ S : \A n \in Nat \ S : ~(<<n, least>> \in LessThan)
  BY <1>1, WFMin
<1>3. \A n \in Nat \ S : ~(n < least)
  BY <1>2 DEF LessThan
<1>4. least - 1 \in Nat /\ least - 1 \in S
  BY <1>3
<1> QED BY <1>4

-----------------------------------------------------------------------------
(* What aligning adds to a place.                                          *)
LEMMA PaddingIs ==
  ASSUME NEW p \in Nat, NEW a \in Nat \ {0}
  PROVE  /\ Padding(p, a) \in Nat /\ Padding(p, 1) = 0
         /\ (p + Padding(p, a)) % a = 0
<1>1. /\ (-p) % a \in 0 .. a - 1 /\ (-p) \div a \in Int
      /\ -p = a * ((-p) \div a) + ((-p) % a)
  OBVIOUS
<1>2. PICK q \in Int : q = -((-p) \div a)
  BY <1>1
<1>3. (-p) \div a = -q
  BY <1>1, <1>2
<1>4. p + ((-p) % a) = a * q
  BY <1>1, <1>3
<1>5. (a * q) % a = 0
  OBVIOUS
<1>6. (-p) % 1 = 0
  OBVIOUS
<1> QED BY <1>1, <1>4, <1>5, <1>6 DEF Padding

LEMMA CapacityIs == First \in Nat /\ Capacity \in Nat /\ First <= Capacity
BY LayoutAssumption

(* A fragment grows or one is added, for n cells at place p of section i.  *)
Extended(pieces, longer, i, p, n, top) ==
  /\ longer \in Seq(Pieces) /\ DOMAIN pieces \subseteq DOMAIN longer
  /\ \A x \in DOMAIN pieces :
       /\ longer[x].staging = pieces[x].staging /\ longer[x].offset = pieces[x].offset
       /\ longer[x].section = pieces[x].section
       /\ \/ longer[x].count = pieces[x].count
          \/ /\ longer[x].count = pieces[x].count + n /\ pieces[x].section = i
             /\ pieces[x].staging + pieces[x].count = top
             /\ pieces[x].offset + pieces[x].count = p
  /\ \A x \in DOMAIN longer \ DOMAIN pieces :
       longer[x] = [staging |-> top, offset |-> p, count |-> n, section |-> i]
  /\ n > 0 => \E x \in DOMAIN longer :
                /\ longer[x].section = i /\ longer[x].offset <= p
                /\ longer[x].offset + longer[x].count = p + n

LEMMA FragmentedIs ==
  ASSUME NEW i \in Nat, NEW p \in Nat, NEW n \in Nat, fragments \in Seq(Pieces), cursor \in Nat
  PROVE  Extended(fragments, Fragmented(i, p, n), i, p, n, cursor)
<1> DEFINE F == Fragmented(i, p, n)
           L == Len(fragments)
<1>1. L \in Nat /\ DOMAIN fragments = 1 .. L /\ \A x \in 1 .. L : fragments[x] \in Pieces
  BY LenProperties
<1>2. CASE n = 0
  BY <1>2 DEF Fragmented, Extended
<1>3. CASE n # 0 /\ Follows(i, p)
  <2>1. F = [fragments EXCEPT ![L].count = @ + n]
    BY <1>3 DEF Fragmented
  <2>2. L \in 1 .. L /\ fragments[L].section = i
        /\ fragments[L].staging + fragments[L].count = cursor
        /\ fragments[L].offset + fragments[L].count = p
    BY <1>1, <1>3, EmptySeq DEF Follows, Last
  <2>a. PICK f \in Pieces : f = fragments[L]
    BY <1>1, <2>2
  <2>b. f.offset \in Nat /\ f.count \in Nat \ {0}
    BY DEF Pieces
  <2>3. PICK e : e = [f EXCEPT !.count = @ + n]
    OBVIOUS
  <2>4. e \in Pieces /\ e.staging = fragments[L].staging /\ e.offset = fragments[L].offset
        /\ e.section = fragments[L].section /\ e.count = fragments[L].count + n
    <3>a. f.count + n \in Nat \ {0}
      BY <2>b
    <3>1. e \in Pieces
      BY <2>3, <3>a DEF Pieces
    <3>2. e.staging = f.staging /\ e.offset = f.offset /\ e.section = f.section /\ e.count = f.count + n
      BY <2>3 DEF Pieces
    <3> QED BY <2>a, <3>1, <3>2
  <2>5. F = [fragments EXCEPT ![L] = e]
    BY <2>1, <2>3, <2>a
  <2>6. F \in Seq(Pieces) /\ Len(F) = L /\ \A x \in 1 .. L : F[x] = IF x = L THEN e ELSE fragments[x]
    BY <2>2, <2>4, <2>5, ExceptSeq
  <2>7. DOMAIN F = 1 .. L
    BY <2>6, LenProperties
  <2> HIDE DEF F, L
  <2>8. \A x \in DOMAIN fragments :
       /\ F[x].staging = fragments[x].staging /\ F[x].offset = fragments[x].offset
       /\ F[x].section = fragments[x].section
       /\ \/ F[x].count = fragments[x].count
          \/ /\ F[x].count = fragments[x].count + n /\ fragments[x].section = i
             /\ fragments[x].staging + fragments[x].count = cursor
             /\ fragments[x].offset + fragments[x].count = p
    BY <1>1, <2>2, <2>4, <2>6
  <2>9. F[L].section = i /\ F[L].offset <= p /\ F[L].offset + F[L].count = p + n
    <3>1. F[L] = e
      BY <2>2, <2>6
    <3>2. e.section = i /\ e.offset = f.offset /\ e.count = f.count + n /\ f.offset + f.count = p
      BY <2>2, <2>4, <2>a
    <3> QED BY <2>b, <3>1, <3>2
  <2>10. Extended(fragments, F, i, p, n, cursor)
    BY <1>1, <2>2, <2>6, <2>7, <2>8, <2>9 DEF Extended
  <2> QED BY <2>10 DEF F
<1>4. CASE n # 0 /\ ~Follows(i, p)
  <2>1. PICK e : e = [staging |-> cursor, offset |-> p, count |-> n, section |-> i]
    OBVIOUS
  <2>2. e \in Pieces /\ e.offset = p /\ e.count = n /\ e.section = i
    BY <1>4, <2>1 DEF Pieces
  <2>3. F = Append(fragments, e)
    BY <1>4, <2>1 DEF Fragmented
  <2>4. /\ F \in Seq(Pieces) /\ DOMAIN F = 1 .. L + 1
        /\ \A x \in 1 .. L + 1 : F[x] = IF x = L + 1 THEN e ELSE fragments[x]
    BY <1>1, <2>2, <2>3
  <2> HIDE DEF F, L
  <2>5. \A x \in DOMAIN F \ DOMAIN fragments : F[x] = e
    BY <1>1, <2>4
  <2>6. \A x \in DOMAIN fragments : F[x] = fragments[x]
    BY <1>1, <2>4
  <2>7. L + 1 \in DOMAIN F /\ F[L + 1] = e
    BY <1>1, <2>4
  <2>8. DOMAIN fragments \subseteq DOMAIN F
    BY <1>1, <2>4
  <2>9. Extended(fragments, F, i, p, n, cursor)
    <3>1. \E x \in DOMAIN F : /\ F[x].section = i /\ F[x].offset <= p
                              /\ F[x].offset + F[x].count = p + n
      BY <2>2, <2>7
    <3>2. \A x \in DOMAIN fragments :
            /\ F[x].staging = fragments[x].staging /\ F[x].offset = fragments[x].offset
            /\ F[x].section = fragments[x].section /\ F[x].count = fragments[x].count
      BY <2>6
    <3>3. \A x \in DOMAIN F \ DOMAIN fragments :
            F[x] = [staging |-> cursor, offset |-> p, count |-> n, section |-> i]
      BY <2>1, <2>5
    <3> QED BY <2>4, <2>8, <3>1, <3>2, <3>3 DEF Extended
  <2> QED BY <2>9 DEF F
<1> QED BY <1>2, <1>3, <1>4

LEMMA Joined ==
  ASSUME NEW S, NEW s \in Seq(S), NEW t \in Seq(S)
  PROVE  /\ s \o t \in Seq(S) /\ Len(s \o t) = Len(s) + Len(t)
         /\ \A k \in 1 .. Len(s) + Len(t) :
              (s \o t)[k] = IF k <= Len(s) THEN s[k] ELSE t[k - Len(s)]
BY ConcatProperties

(* Section i is given n cells more, which are staged from top on.          *)
Grown(all, i, n, more, top, cells, given, all2, cells2, given2) ==
  /\ all2 \in Seq(Records) /\ DOMAIN all2 = DOMAIN all
  /\ \A j \in DOMAIN all : /\ all2[j].name = all[j].name
                           /\ all2[j].position = IF j = i THEN all[j].position + n
                                                 ELSE all[j].position
  /\ DOMAIN cells2 = 0 .. 2 * Capacity - 1
  /\ \A a \in 0 .. 2 * Capacity - 1 :
       cells2[a] = IF a \in top .. top + n - 1 THEN more[a - top + 1] ELSE cells[a]
  /\ given2 \in [SectionNames -> Seq(Cells)]
  /\ \A m \in SectionNames :
       given2[m] = IF m = all[i].name THEN given[m] \o more ELSE given[m]

LEMMA Associates == \A s, t, u \in Seq(Cells) : (s \o t) \o u = s \o (t \o u)
BY ConcatAssociative

(* n cells more for section i: they are staged, they are given to it, and  *)
(* a fragment has them.                                                    *)
LEMMA Stages ==
  ASSUME NEW all, NEW pieces, NEW top, NEW cells, NEW given,
         Staged(all, pieces, top, cells, given),
         NEW i \in DOMAIN all, IsData(all[i]),
         NEW n \in Nat, NEW more \in Seq(Cells), Len(more) = n, top + n <= Capacity,
         NEW all2, NEW cells2, NEW given2, Grown(all, i, n, more, top, cells, given, all2, cells2, given2),
         NEW pieces2, Extended(pieces, pieces2, i, all[i].position, n, top)
  PROVE  Staged(all2, pieces2, top + n, cells2, given2)
<1> DEFINE p == all[i].position
           name == all[i].name
<1>0. /\ all2 \in Seq(Records) /\ DOMAIN all2 = DOMAIN all
      /\ \A j \in DOMAIN all : /\ all2[j].name = all[j].name
                               /\ all2[j].position = IF j = i THEN all[j].position + n
                                                     ELSE all[j].position
      /\ DOMAIN cells2 = 0 .. 2 * Capacity - 1
      /\ \A a \in 0 .. 2 * Capacity - 1 :
           cells2[a] = IF a \in top .. top + n - 1 THEN more[a - top + 1] ELSE cells[a]
      /\ given2 \in [SectionNames -> Seq(Cells)]
      /\ \A m \in SectionNames :
           given2[m] = IF m = all[i].name THEN given[m] \o more ELSE given[m]
  BY DEF Grown
<1> USE <1>0
<1>1. /\ all \in Seq(Records) /\ Len(all) \in Nat /\ DOMAIN all = 1 .. Len(all) /\ Len(all) >= 1
      /\ DOMAIN all2 = 1 .. Len(all2) /\ Len(all2) \in Nat
  BY LenProperties DEF Staged, Named
<1>2. Len(all2) >= 1
  BY <1>1
<1>3. \A j \in DOMAIN all : all[j].name \in SectionNames /\ all[j].position \in Nat
  <2>1. \A j \in DOMAIN all : all[j] \in Records
    BY <1>1, LenProperties
  <2> QED BY <2>1 DEF Records
<1>4. p \in Nat /\ name \in SectionNames /\ top \in Nat /\ Len(given[name]) = p
  BY <1>3, CapacityIs DEF Staged, Named
<1>5. \A m \in SectionNames : given[m] \in Seq(Cells)
  BY DEF Staged, Named
<1>6. \A j \in DOMAIN all : all[j].name = name => j = i
  BY DEF Staged, Named
<1>7. /\ Len(given2[name]) = p + n
      /\ \A k \in 1 .. p + n : given2[name][k] = IF k <= p THEN given[name][k] ELSE more[k - p]
  <2>1. given2[name] = given[name] \o more
    BY <1>4
  <2>2. given[name] \in Seq(Cells)
    BY <1>4, <1>5
  <2> HIDE DEF p, name
  <2>3. PICK old \in Seq(Cells) : old = given[name]
    BY <2>2
  <2>4. Len(old) = p
    BY <1>4, <2>3
  <2>5. /\ Len(old \o more) = p + n
        /\ \A k \in 1 .. p + n : (old \o more)[k] = IF k <= p THEN old[k] ELSE more[k - p]
    <3>1. /\ Len(old \o more) = Len(old) + Len(more)
          /\ \A k \in 1 .. Len(old) + Len(more) :
               (old \o more)[k] = IF k <= Len(old) THEN old[k] ELSE more[k - Len(old)]
      BY ONLY <2>3, more \in Seq(Cells), Joined
    <3> QED BY <2>4, <3>1
  <2> QED BY <2>1, <2>3, <2>5
<1>8. \A j \in DOMAIN all : \A k \in 1 .. all[j].position : given2[all[j].name][k] = given[all[j].name][k]
  <2> SUFFICES ASSUME NEW j \in DOMAIN all, NEW k \in 1 .. all[j].position
               PROVE  given2[all[j].name][k] = given[all[j].name][k]
    OBVIOUS
  <2>1. CASE j = i
    <3>1. k \in 1 .. p + n /\ k <= p
      BY <1>4, <2>1
    <3> QED BY <1>7, <2>1, <3>1
  <2>2. CASE j # i
    BY <1>3, <1>6, <2>2
  <2> QED BY <2>1, <2>2
<1>9. Named(all2, given2)
  <2>1. \A j \in DOMAIN all : Len(given2[all[j].name]) = all2[j].position
    <3> SUFFICES ASSUME NEW j \in DOMAIN all PROVE Len(given2[all[j].name]) = all2[j].position
      OBVIOUS
    <3>1. CASE j = i
      BY <1>7, <3>1
    <3>2. CASE j # i
      <4>1. given2[all[j].name] = given[all[j].name]
        BY <1>3, <1>6, <3>2
      <4>2. Len(given[all[j].name]) = all[j].position
        BY DEF Staged, Named
      <4> QED BY <3>2, <4>1, <4>2
    <3> QED BY <3>1, <3>2
  <2>2. ASSUME NEW m \in SectionNames, \A j \in DOMAIN all2 : all2[j].name # m
        PROVE  given2[m] = <<>>
    <3>1. \A j \in DOMAIN all : all[j].name # m
      BY <2>2
    <3>2. given[m] = <<>> /\ m # name
      BY <3>1 DEF Staged, Named
    <3> QED BY <3>2
  <2>3. \A x, y \in DOMAIN all2 : all2[x].name = all2[y].name => x = y
    BY DEF Staged, Named
  <2> QED BY <1>2, <2>1, <2>2, <2>3 DEF Named
<1> HIDE DEF p, name
<1>10. /\ pieces \in Seq(Pieces) /\ pieces2 \in Seq(Pieces) /\ DOMAIN pieces \subseteq DOMAIN pieces2
       /\ \A x \in DOMAIN pieces : pieces[x] \in Pieces
       /\ \A x \in DOMAIN pieces2 : pieces2[x] \in Pieces
  BY LenProperties DEF Staged, Spans, Extended
<1>11. \A x \in DOMAIN pieces :
         /\ pieces[x].staging \in Nat /\ pieces[x].offset \in Nat /\ pieces[x].count \in Nat
         /\ pieces[x].section \in DOMAIN all /\ IsData(all[pieces[x].section])
         /\ pieces[x].offset + pieces[x].count <= all[pieces[x].section].position
         /\ pieces[x].staging + pieces[x].count <= top
  BY <1>10 DEF Staged, Spans, Pieces
<1>12. \A x \in DOMAIN pieces :
       /\ pieces2[x].staging = pieces[x].staging /\ pieces2[x].offset = pieces[x].offset
       /\ pieces2[x].section = pieces[x].section
       /\ \/ pieces2[x].count = pieces[x].count
          \/ /\ pieces2[x].count = pieces[x].count + n /\ pieces[x].section = i
             /\ pieces[x].staging + pieces[x].count = top
             /\ pieces[x].offset + pieces[x].count = p
  BY DEF Extended, p
<1>13. \A x \in DOMAIN pieces2 \ DOMAIN pieces :
         /\ pieces2[x].staging = top /\ pieces2[x].offset = p
         /\ pieces2[x].count = n /\ pieces2[x].section = i
  BY DEF Extended, p
<1>14. \A j \in DOMAIN all : IsData(all2[j]) <=> IsData(all[j])
  BY DEF IsData
<1>15. Spans(all2, pieces2, top + n)
  <2> SUFFICES ASSUME NEW x \in DOMAIN pieces2
               PROVE  /\ pieces2[x].section \in DOMAIN all2 /\ IsData(all2[pieces2[x].section])
                      /\ pieces2[x].offset + pieces2[x].count <= all2[pieces2[x].section].position
                      /\ pieces2[x].staging + pieces2[x].count <= top + n
    BY <1>10 DEF Spans
  <2>1. CASE x \in DOMAIN pieces
    <3>1. pieces2[x].section \in DOMAIN all2 /\ IsData(all2[pieces2[x].section])
      BY <1>11, <1>12, <1>14, <2>1
    <3>2. CASE pieces2[x].count = pieces[x].count
      <4>1. all[pieces[x].section].position <= all2[pieces[x].section].position
        BY <1>3, <1>11, <2>1
      <4>2. pieces2[x].offset + pieces2[x].count <= all2[pieces2[x].section].position
        <5>1. all2[pieces[x].section].position \in Nat /\ all[pieces[x].section].position \in Nat
          <6>1. PICK j \in DOMAIN all : j = pieces[x].section
            BY <1>11, <2>1
          <6>2. all[j].position \in Nat /\ all[j].position + n \in Nat
            BY <1>3
          <6>3. all2[j].position = all[j].position \/ all2[j].position = all[j].position + n
            BY <1>0
          <6> QED BY <6>1, <6>2, <6>3
        <5>2. PICK q, q2 \in Nat : q = all[pieces[x].section].position /\ q2 = all2[pieces[x].section].position
          BY <5>1
        <5>3. PICK o, c \in Nat : o = pieces[x].offset /\ c = pieces[x].count
          BY <1>11, <2>1
        <5>4. o + c <= q /\ q <= q2
          BY <1>11, <2>1, <4>1, <5>2, <5>3
        <5>5. o + c <= q2
          BY <5>4
        <5> QED BY <1>12, <2>1, <3>2, <5>2, <5>3, <5>5
      <4>3. pieces2[x].staging + pieces2[x].count <= top + n
        BY <1>4, <1>11, <1>12, <2>1, <3>2
      <4> QED BY <3>1, <4>2, <4>3
    <3>3. CASE pieces2[x].count # pieces[x].count
      <4>1. all2[pieces2[x].section].position = p + n
        BY <1>12, <2>1, <3>3 DEF p
      <4>a. PICK s, o, c \in Nat : s = pieces[x].staging /\ o = pieces[x].offset /\ c = pieces[x].count
        BY <1>11, <2>1
      <4>b. /\ pieces2[x].staging = s /\ pieces2[x].offset = o /\ pieces2[x].count = c + n
            /\ s + c = top /\ o + c = p
        BY <1>12, <2>1, <3>3, <4>a
      <4>2. pieces2[x].offset + pieces2[x].count = p + n
        <5>1. o + (c + n) = p + n
          BY ONLY <4>b, o \in Nat, c \in Nat, n \in Nat
        <5> QED BY <4>b, <5>1
      <4>3. pieces2[x].staging + pieces2[x].count = top + n
        <5>1. s + (c + n) = top + n
          BY ONLY <4>b, s \in Nat, c \in Nat, n \in Nat
        <5> QED BY <4>b, <5>1
      <4> QED BY <1>4, <3>1, <4>1, <4>2, <4>3
    <3> QED BY <3>2, <3>3
  <2>2. CASE x \notin DOMAIN pieces
    <3>1. all2[i].position = p + n
      BY DEF p
    <3> QED BY <1>4, <1>13, <1>14, <2>2, <3>1
  <2> QED BY <2>1, <2>2
<1>16. Covers(all2, pieces2)
  <2> SUFFICES ASSUME NEW j \in DOMAIN all2, IsData(all2[j]), NEW k \in 0 .. all2[j].position - 1
               PROVE  \E x \in DOMAIN pieces2 :
                        /\ pieces2[x].section = j
                        /\ pieces2[x].offset <= k /\ k < pieces2[x].offset + pieces2[x].count
    BY DEF Covers
  <2>1. CASE k < all[j].position
    <3>1. k \in 0 .. all[j].position - 1 /\ IsData(all[j])
      BY <1>3, <1>14, <2>1
    <3>2. PICK x \in DOMAIN pieces : /\ pieces[x].section = j
                                     /\ pieces[x].offset <= k
                                     /\ k < pieces[x].offset + pieces[x].count
      BY <3>1 DEF Staged, Covers
    <3>3. k < pieces2[x].offset + pieces2[x].count
      BY <1>11, <1>12, <3>2
    <3> QED BY <1>10, <1>12, <3>2, <3>3
  <2>2. CASE ~(k < all[j].position)
    <3>1. j = i
      BY <1>3, <2>2
    <3>2. n > 0 /\ p <= k /\ k < p + n
      <4>1. all2[j].position = p + n /\ ~(k < p)
        BY <2>2, <3>1 DEF p
      <4>2. k \in 0 .. (p + n) - 1
        BY <4>1
      <4> QED BY ONLY <1>4, <4>1, <4>2, n \in Nat
    <3>3. PICK x \in DOMAIN pieces2 : /\ pieces2[x].section = i /\ pieces2[x].offset <= p
                                      /\ pieces2[x].offset + pieces2[x].count = p + n
      BY <3>2 DEF Extended, p
    <3>4. pieces2[x].offset <= k
      <4>1. pieces2[x].offset \in Nat
        BY <1>10 DEF Pieces
      <4> QED BY <1>4, <3>2, <3>3, <4>1
    <3> QED BY <3>1, <3>2, <3>3, <3>4
  <2> QED BY <2>1, <2>2
<1>17. \A a \in 0 .. top - 1 : cells2[a] = cells[a]
  BY <1>4, CapacityIs DEF Staged
<1>18. \A k \in 0 .. n - 1 : cells2[top + k] = given2[name][p + k + 1]
  <2> SUFFICES ASSUME NEW k \in 0 .. n - 1 PROVE cells2[top + k] = given2[name][p + k + 1]
    OBVIOUS
  <2>1. top + k \in 0 .. 2 * Capacity - 1 /\ top + k \in top .. top + n - 1 /\ (top + k) - top + 1 = k + 1
    BY <1>4, CapacityIs
  <2>2. cells2[top + k] = more[k + 1]
    BY <2>1
  <2>3. p + k + 1 \in 1 .. p + n /\ ~(p + k + 1 <= p) /\ (p + k + 1) - p = k + 1
    BY <1>4
  <2> QED BY <1>7, <2>2, <2>3
<1>19. Carries(all2, pieces2, given2, cells2)
  <2> SUFFICES ASSUME NEW x \in DOMAIN pieces2, NEW k \in 0 .. pieces2[x].count - 1
               PROVE  cells2[pieces2[x].staging + k] =
                        given2[all2[pieces2[x].section].name][pieces2[x].offset + k + 1]
    BY DEF Carries
  <2>1. CASE x \in DOMAIN pieces
    <3>1. CASE k < pieces[x].count
      <4>a. PICK s, o, c \in Nat : s = pieces[x].staging /\ o = pieces[x].offset /\ c = pieces[x].count
        BY <1>11, <2>1
      <4>b. PICK q \in Nat : q = all[pieces[x].section].position
        BY <1>3, <1>11, <2>1
      <4>c. o + c <= q /\ s + c <= top
        BY <1>11, <2>1, <4>a, <4>b
      <4>d. k \in Int /\ 0 <= k /\ k < c
        BY <1>10, <3>1, <4>a DEF Pieces
      <4>1. k \in 0 .. pieces[x].count - 1
        BY <4>a, <4>d
      <4>2. cells[pieces[x].staging + k] = given[all[pieces[x].section].name][pieces[x].offset + k + 1]
        BY <2>1, <4>1 DEF Staged, Carries
      <4>3. pieces[x].staging + k \in 0 .. top - 1
        <5>1. s + k \in 0 .. top - 1
          BY <1>4, <4>c, <4>d
        <5> QED BY <4>a, <5>1
      <4>4. pieces[x].offset + k + 1 \in 1 .. all[pieces[x].section].position
        <5>1. o + k + 1 \in 1 .. q
          BY <4>c, <4>d
        <5> QED BY <4>a, <4>b, <5>1
      <4>5. given2[all[pieces[x].section].name][pieces[x].offset + k + 1]
              = given[all[pieces[x].section].name][pieces[x].offset + k + 1]
        BY <1>8, <1>11, <2>1, <4>4
      <4>6. all2[pieces2[x].section].name = all[pieces[x].section].name
        BY <1>11, <1>12, <2>1
      <4> QED BY <1>12, <1>17, <2>1, <4>2, <4>3, <4>5, <4>6
    <3>2. CASE ~(k < pieces[x].count)
      <4>1. /\ pieces2[x].count = pieces[x].count + n /\ pieces[x].section = i
            /\ pieces[x].staging + pieces[x].count = top
            /\ pieces[x].offset + pieces[x].count = p
        BY <1>11, <1>12, <2>1, <3>2
      <4>a. PICK s, o, c \in Nat : s = pieces[x].staging /\ o = pieces[x].offset /\ c = pieces[x].count
        BY <1>11, <2>1
      <4>b. pieces2[x].staging = s /\ pieces2[x].offset = o /\ s + c = top /\ o + c = p
        BY <1>12, <2>1, <4>1, <4>a
      <4>c. k \in 0 .. c + n - 1 /\ ~(k < c)
        <5>1. pieces2[x].count = c + n
          BY <4>1, <4>a
        <5>2. k \in 0 .. pieces2[x].count - 1
          OBVIOUS
        <5>3. k \in 0 .. c + n - 1
          BY ONLY <5>1, <5>2
        <5> QED BY <3>2, <4>a, <5>3, Zenon
      <4>2. PICK h \in 0 .. n - 1 : k = c + h
        <5>1. k - c \in 0 .. n - 1 /\ k = c + (k - c)
          BY <4>c
        <5> QED BY <5>1
      <4>3. pieces2[x].staging + k = top + h /\ pieces2[x].offset + k + 1 = p + h + 1
        <5>1. s + k = top + h /\ o + k + 1 = p + h + 1
          BY <1>4, <4>b, <4>2
        <5> QED BY <4>b, <5>1
      <4>4. all2[pieces2[x].section].name = name
        BY <1>12, <2>1, <4>1 DEF name
      <4> QED BY <1>18, <4>3, <4>4
    <3> QED BY <3>1, <3>2
  <2>2. CASE x \notin DOMAIN pieces
    <3>1. k \in 0 .. n - 1 /\ pieces2[x].staging = top /\ pieces2[x].offset = p
      BY <1>13, <2>2
    <3>2. all2[pieces2[x].section].name = name
      BY <1>13, <2>2 DEF name
    <3> QED BY <1>18, <3>1, <3>2
  <2> QED BY <2>1, <2>2
<1>20. top + n \in First .. Capacity
  BY <1>4, CapacityIs DEF Staged
<1>21. \A a \in top + n .. 2 * Capacity - 1 : cells2[a] = Zero
  <2> SUFFICES ASSUME NEW a \in top + n .. 2 * Capacity - 1 PROVE cells2[a] = Zero
    OBVIOUS
  <2>1. a \in top .. 2 * Capacity - 1 /\ a \in 0 .. 2 * Capacity - 1 /\ a \notin top .. top + n - 1
    BY <1>4, CapacityIs
  <2>2. cells[a] = Zero
    BY <2>1 DEF Staged
  <2> QED BY <2>1, <2>2
<1> QED BY <1>9, <1>15, <1>16, <1>19, <1>20, <1>21 DEF Staged

LEMMA CellsAre ==
  /\ Zero \in Cells /\ ~IsPointer(Zero) /\ \A v \in Nat : Cell(v) \in Cells /\ ~IsPointer(Cell(v))
  /\ \A l \in Labels : Pointer(l) \in Cells /\ IsPointer(Pointer(l)) /\ Pointer(l).pointer = l
BY DEF Zero, Cell, Pointer, Cells, IsPointer

LEMMA ZerosAre ==
  ASSUME NEW n \in Nat
  PROVE  Zeros(n) \in Seq(Cells) /\ Len(Zeros(n)) = n /\ \A k \in 1 .. n : Zeros(n)[k] = Zero
BY CellsAre DEF Zeros

(* The cells that a reservation stages: the padding and what it asks for.  *)
More(i, all, alignment, cells) == Zeros(Padding(all[i].position, alignment)) \o cells

Padded(all, i, alignment, cells, pad, c, more) ==
  /\ pad = Padding(all[i].position, alignment) /\ c = Len(cells)
  /\ all[i].position \in Nat
  /\ more = More(i, all, alignment, cells) /\ Len(more) = pad + c
  /\ \A k \in 1 .. pad + c : more[k] = IF k <= pad THEN Zero ELSE cells[k - pad]

LEMMA MoreIs ==
  ASSUME NEW all, NEW given, Named(all, given), NEW i \in DOMAIN all,
         NEW alignment \in Nat \ {0}, NEW cells \in Seq(Cells)
  PROVE  \E pad \in Nat, c \in Nat, more \in Seq(Cells) : Padded(all, i, alignment, cells, pad, c, more)
<1>1. all[i] \in Records
  BY LenProperties DEF Named
<1>2. all[i].position \in Nat
  BY <1>1 DEF Records
<1>3. PICK pad \in Nat : pad = Padding(all[i].position, alignment)
  BY <1>2, PaddingIs
<1>4. Zeros(pad) \in Seq(Cells) /\ Len(Zeros(pad)) = pad /\ \A k \in 1 .. pad : Zeros(pad)[k] = Zero
  BY ZerosAre
<1>5. PICK z \in Seq(Cells) : z = Zeros(pad)
  BY <1>4
<1>6. Len(cells) \in Nat
  BY LenProperties
<1>7. /\ z \o cells \in Seq(Cells) /\ Len(z \o cells) = Len(z) + Len(cells)
      /\ \A k \in 1 .. Len(z) + Len(cells) :
           (z \o cells)[k] = IF k <= Len(z) THEN z[k] ELSE cells[k - Len(z)]
  BY ONLY <1>5, cells \in Seq(Cells), Joined
<1>8. More(i, all, alignment, cells) = z \o cells
  BY <1>3, <1>5 DEF More
<1>9. Len(z) = pad /\ \A k \in 1 .. pad : z[k] = Zero
  BY <1>4, <1>5
<1>10. \A k \in 1 .. pad + Len(cells) : (z \o cells)[k] = IF k <= pad THEN Zero ELSE cells[k - pad]
  BY <1>6, <1>7, <1>9
<1>11. PICK c \in Nat : c = Len(cells)
  BY <1>6
<1>12. PICK more \in Seq(Cells) : more = z \o cells
  BY <1>7
<1>13. Len(more) = pad + c /\ \A k \in 1 .. pad + c : more[k] = IF k <= pad THEN Zero ELSE cells[k - pad]
  BY <1>7, <1>9, <1>10, <1>11, <1>12
<1>14. more = More(i, all, alignment, cells)
  BY <1>8, <1>12
<1>15. Padded(all, i, alignment, cells, pad, c, more)
  BY <1>2, <1>3, <1>11, <1>13, <1>14 DEF Padded
<1> QED BY <1>15

(* What a reservation of section i does: it stages n cells, more.          *)
Reservation(all, i, alignment, cells, n, more) ==
  /\ n = Padding(all[i].position, alignment) + Len(cells)
  /\ more = More(i, all, alignment, cells) /\ Len(more) = n
  /\ cursor' = cursor + n /\ fragments' = Fragmented(i, all[i].position, n)
  /\ Grown(all, i, n, more, cursor, area, content, sections', area', content')

LEMMA ReservedIs ==
  ASSUME NEW all, Staged(all, fragments, cursor, area, content),
         NEW i \in DOMAIN all, NEW alignment \in Nat \ {0}, NEW cells \in Seq(Cells),
         Reserved(all, i, alignment, cells)
  PROVE  \E n \in Nat, more \in Seq(Cells) : Reservation(all, i, alignment, cells, n, more)
<1>1. /\ Named(all, content) /\ cursor \in Nat /\ DOMAIN area = 0 .. 2 * Capacity - 1
      /\ \A a \in cursor .. 2 * Capacity - 1 : area[a] = Zero
  BY CapacityIs DEF Staged
<1>2. PICK pad \in Nat, c \in Nat, more \in Seq(Cells) : Padded(all, i, alignment, cells, pad, c, more)
  <2>1. Named(all, content)
    BY <1>1
  <2> QED BY ONLY <2>1, i \in DOMAIN all, alignment \in Nat \ {0}, cells \in Seq(Cells), MoreIs
<1>a. /\ pad = Padding(all[i].position, alignment) /\ c = Len(cells)
      /\ all[i].position \in Nat /\ more = More(i, all, alignment, cells)
  BY <1>2 DEF Padded
<1>3. PICK p \in Nat : p = all[i].position
  BY <1>a
<1>4. Len(more) = pad + c
      /\ \A k \in 1 .. pad + c : more[k] = IF k <= pad THEN Zero ELSE cells[k - pad]
  BY <1>2 DEF Padded
<1>5. PICK n \in Nat : n = pad + c
  OBVIOUS
<1>6. /\ sections' = [all EXCEPT ![i].position = p + n,
                                 ![i].alignment = IF alignment > @ THEN alignment ELSE @]
      /\ fragments' = Fragmented(i, p, n)
      /\ cursor' = cursor + n
      /\ area' = [a \in DOMAIN area |->
                    IF a \in cursor + pad .. cursor + n - 1
                    THEN cells[a - cursor - pad + 1] ELSE area[a]]
      /\ content' = [content EXCEPT ![all[i].name] = @ \o [k \in 1 .. pad |-> Zero] \o cells]
  BY <1>a, <1>3, <1>5 DEF Reserved
<1>7. /\ sections' \in Seq(Records) /\ DOMAIN sections' = DOMAIN all
      /\ \A j \in DOMAIN all : /\ sections'[j].name = all[j].name
                               /\ sections'[j].position = IF j = i THEN all[j].position + n
                                                          ELSE all[j].position
  <2>1. all \in Seq(Records) /\ DOMAIN all = 1 .. Len(all) /\ Len(all) \in Nat
    BY <1>1, LenProperties DEF Named
  <2>2. \A j \in DOMAIN all : all[j] \in Records
    BY <2>1
  <2>3. PICK r \in Records : r = all[i]
    BY <2>2
  <2>4. PICK e : e = [r EXCEPT !.position = p + n,
                               !.alignment = IF alignment > @ THEN alignment ELSE @]
    OBVIOUS
  <2>5. e \in Records /\ e.name = r.name /\ e.position = p + n
    <3>1. p + n \in Nat /\ (IF alignment > r.alignment THEN alignment ELSE r.alignment) \in Nat \ {0}
      BY DEF Records
    <3> QED BY <2>4, <3>1 DEF Records
  <2>6. sections' = [all EXCEPT ![i] = e]
    BY <1>6, <2>3, <2>4
  <2>7. /\ sections' \in Seq(Records) /\ Len(sections') = Len(all)
        /\ \A j \in 1 .. Len(all) : sections'[j] = IF j = i THEN e ELSE all[j]
    BY <2>1, <2>5, <2>6, ExceptSeq
  <2>8. DOMAIN sections' = DOMAIN all
    BY <2>1, <2>7, LenProperties
  <2> QED BY <1>3, <2>1, <2>3, <2>5, <2>7, <2>8
<1>8. \A a \in 0 .. 2 * Capacity - 1 :
        area'[a] = IF a \in cursor .. cursor + n - 1 THEN more[a - cursor + 1] ELSE area[a]
  <2> SUFFICES ASSUME NEW a \in 0 .. 2 * Capacity - 1
               PROVE  area'[a] = IF a \in cursor .. cursor + n - 1
                                 THEN more[a - cursor + 1] ELSE area[a]
    OBVIOUS
  <2>0. a \in Int /\ a < 2 * Capacity
    BY CapacityIs
  <2>a. cursor \in Nat /\ n = pad + c
    BY <1>1, <1>5
  <2>1. area'[a] = IF a \in cursor + pad .. cursor + n - 1
                   THEN cells[a - cursor - pad + 1] ELSE area[a]
    BY <1>1, <1>6
  <2> USE <2>a
  <2>2. CASE a \in cursor + pad .. cursor + n - 1
    <3>1. a \in cursor .. cursor + n - 1 /\ a - cursor + 1 \in 1 .. pad + c
          /\ ~(a - cursor + 1 <= pad) /\ a - cursor + 1 - pad = a - cursor - pad + 1
      BY ONLY <2>a, <2>2, <2>0, n \in Nat, pad \in Nat, c \in Nat
    <3> QED BY <1>4, <2>1, <2>2, <3>1
  <2>3. CASE a \in cursor .. cursor + pad - 1
    <3>1. a \in cursor .. cursor + n - 1 /\ a - cursor + 1 \in 1 .. pad + c
          /\ a - cursor + 1 <= pad /\ a \notin cursor + pad .. cursor + n - 1
      BY ONLY <2>a, <2>3, <2>0, n \in Nat, pad \in Nat, c \in Nat
    <3>2. area[a] = Zero
      BY <1>1, <2>0, <2>3
    <3> QED BY <1>4, <2>1, <3>1, <3>2
  <2>4. CASE a \notin cursor .. cursor + pad - 1 /\ a \notin cursor + pad .. cursor + n - 1
    <3>1. a \notin cursor .. cursor + n - 1
      BY <1>1, <1>5, <2>0, <2>4
    <3> QED BY <2>1, <2>4, <3>1
  <2> QED BY <2>2, <2>3, <2>4
<1>9. /\ content' \in [SectionNames -> Seq(Cells)]
      /\ \A m \in SectionNames :
                content'[m] = IF m = all[i].name THEN content[m] \o more ELSE content[m]
  <2>1. content \in [SectionNames -> Seq(Cells)] /\ all[i].name \in SectionNames
    <3>1. all[i] \in Records
      BY <1>1, LenProperties DEF Named
    <3> QED BY <1>1, <3>1 DEF Named, Records
  <2>2. PICK old \in Seq(Cells) : old = content[all[i].name]
    BY <2>1
  <2>3. PICK z \in Seq(Cells) : z = Zeros(pad)
    BY ZerosAre
  <2>4. (old \o z) \o cells = old \o (z \o cells)
    BY ONLY old \in Seq(Cells), z \in Seq(Cells), cells \in Seq(Cells), Associates, Zenon
  <2>5. more = z \o cells
    BY <1>a, <2>3 DEF More
  <2>6. PICK new \in Seq(Cells) : new = old \o more
    BY Joined
  <2>7. content' = [content EXCEPT ![all[i].name] = new]
    <3>2. content[all[i].name] \o [k \in 1 .. pad |-> Zero] \o cells = new
      BY <2>2, <2>3, <2>4, <2>5, <2>6 DEF Zeros
    <3> QED BY <1>6, <3>2
  <2> QED BY <2>1, <2>2, <2>6, <2>7
<1>10. DOMAIN area' = 0 .. 2 * Capacity - 1
  BY <1>1, <1>6
<1>11. n = Padding(all[i].position, alignment) + Len(cells) /\ Len(more) = n
  BY <1>a, <1>4, <1>5
<1>12. fragments' = Fragmented(i, all[i].position, n) /\ cursor' = cursor + n
  BY <1>3, <1>6
<1>13. Grown(all, i, n, more, cursor, area, content, sections', area', content')
  BY <1>7, <1>8, <1>9, <1>10 DEF Grown
<1>14. Reservation(all, i, alignment, cells, n, more)
  BY <1>a, <1>11, <1>12, <1>13, Zenon DEF Reservation
<1> QED BY <1>14

LEMMA ReservedStages ==
  ASSUME NEW all, Staged(all, fragments, cursor, area, content),
         NEW i \in DOMAIN all, IsData(all[i]),
         NEW alignment \in Nat \ {0}, NEW cells \in Seq(Cells),
         Room(Padding(all[i].position, alignment) + Len(cells)),
         Reserved(all, i, alignment, cells)
  PROVE  /\ Staged(sections', fragments', cursor', area', content')
         /\ DOMAIN sections' = DOMAIN all
<1>r. PICK n \in Nat, more \in Seq(Cells) : Reservation(all, i, alignment, cells, n, more)
  BY ReservedIs
<1>1. /\ n = Padding(all[i].position, alignment) + Len(cells)
      /\ more = More(i, all, alignment, cells) /\ Len(more) = n
      /\ cursor' = cursor + n /\ fragments' = Fragmented(i, all[i].position, n)
      /\ Grown(all, i, n, more, cursor, area, content, sections', area', content')
  BY <1>r, Zenon DEF Reservation
<1>2. cursor \in Nat /\ fragments \in Seq(Pieces) /\ all \in Seq(Records)
  BY CapacityIs DEF Staged, Spans, Named
<1>3. cursor + n <= Capacity
  <2>1. n <= Capacity - cursor
    BY <1>1 DEF Room
  <2> QED BY <1>2, <2>1, CapacityIs
<1>4. i \in Nat /\ all[i].position \in Nat
  <2>1. DOMAIN all = 1 .. Len(all) /\ all[i] \in Records
    BY <1>2, LenProperties
  <2> QED BY <2>1 DEF Records
<1>5. Extended(fragments, fragments', i, all[i].position, n, cursor)
  BY <1>1, <1>2, <1>4, FragmentedIs
<1>6. PICK s2, f2, a2, c2 : s2 = sections' /\ f2 = fragments' /\ a2 = area' /\ c2 = content'
  OBVIOUS
<1>7. Grown(all, i, n, more, cursor, area, content, s2, a2, c2)
  BY <1>1, <1>6
<1>10. Extended(fragments, f2, i, all[i].position, n, cursor)
  BY <1>5, <1>6
<1>11. Len(more) = n
  BY <1>1
<1>12. Staged(s2, f2, cursor + n, a2, c2)
  BY <1>3, <1>7, <1>10, <1>11, Stages
<1> QED BY <1>1, <1>6, <1>7, <1>12 DEF Grown

-----------------------------------------------------------------------------
(* The steps that read the text.                                           *)
ReadInv == /\ Staged(sections, fragments, cursor, area, content) /\ Selects
           /\ Listed(area, relocations, cursor)

LEMMA RecordsAre ==
  ASSUME NEW all, NEW given, Named(all, given)
  PROVE  /\ all \in Seq(Records) /\ Len(all) \in Nat /\ DOMAIN all = 1 .. Len(all) /\ Len(all) >= 1
         /\ \A i \in DOMAIN all : /\ all[i] \in Records /\ all[i].name \in SectionNames
                                  /\ all[i].position \in Nat /\ all[i].alignment \in Nat \ {0}
                                  /\ all[i].base \in Nat
<1>1. all \in Seq(Records) /\ Len(all) \in Nat /\ DOMAIN all = 1 .. Len(all) /\ Len(all) >= 1
  BY LenProperties DEF Named
<1>2. \A i \in DOMAIN all : all[i] \in Records
  BY <1>1
<1> QED BY <1>1, <1>2 DEF Records

LEMMA SectionMade ==
  ASSUME NEW n \in SectionNames, Staged(sections, fragments, cursor, area, content)
  PROVE  /\ Staged(WithSection(n), fragments, cursor, area, content)
         /\ IndexOf(n) \in DOMAIN WithSection(n) /\ WithSection(n)[IndexOf(n)].name = n
         /\ DOMAIN sections \subseteq DOMAIN WithSection(n)
<1>1. /\ sections \in Seq(Records) /\ Len(sections) \in Nat
      /\ DOMAIN sections = 1 .. Len(sections) /\ Len(sections) >= 1
      /\ Named(sections, content) /\ \A i \in DOMAIN sections : sections[i].position \in Nat
  BY RecordsAre DEF Staged
<1>2. CASE \E i \in DOMAIN sections : sections[i].name = n
  <2>1. IndexOf(n) \in DOMAIN sections /\ sections[IndexOf(n)].name = n
    BY <1>2 DEF IndexOf
  <2>2. WithSection(n) = sections
    <3>1. PICK x \in 1 .. Len(sections) : x = IndexOf(n)
      BY <1>1, <2>1
    <3>2. ~(x > Len(sections))
      BY <1>1
    <3> QED BY <3>1, <3>2, Zenon DEF WithSection
  <2> QED BY <2>1, <2>2
<1>3. CASE \A i \in DOMAIN sections : sections[i].name # n
  <2>1. IndexOf(n) = Len(sections) + 1
    BY <1>3 DEF IndexOf
  <2>2. PICK s : s = NewSection(n)
    OBVIOUS
  <2>3. s \in Records /\ s.name = n /\ s.position = 0
    BY <2>2 DEF NewSection, Records
  <2>4. PICK all : all = WithSection(n)
    OBVIOUS
  <2>5. all = Append(sections, s)
    <3>1. Len(sections) + 1 > Len(sections)
      BY <1>1
    <3>2. IndexOf(n) > Len(sections)
      BY <2>1, <3>1, Zenon
    <3> QED BY <2>2, <2>4, <3>2, Zenon DEF WithSection
  <2>6. /\ all \in Seq(Records) /\ Len(all) = Len(sections) + 1 /\ DOMAIN all = 1 .. Len(sections) + 1
        /\ \A i \in DOMAIN sections : all[i] = sections[i]
        /\ all[Len(sections) + 1] = s
    BY <1>1, <2>3, <2>5
  <2>7. \A i \in DOMAIN all : i \in DOMAIN sections \/ i = Len(sections) + 1
    BY <1>1, <2>6
  <2>8. DOMAIN sections \subseteq DOMAIN all
    BY <1>1, <2>6
  <2>9. Named(all, content)
    <3>1. Len(all) >= 1
      BY <1>1, <2>6
    <3>2. \A i, j \in DOMAIN all : all[i].name = all[j].name => i = j
      BY <1>1, <1>3, <2>3, <2>6, <2>7 DEF Named
    <3>3. content[n] = <<>>
      BY <1>1, <1>3 DEF Named
    <3>4. \A i \in DOMAIN all : Len(content[all[i].name]) = all[i].position
      BY <1>1, <2>3, <2>6, <2>7, <3>3, EmptySeq DEF Named
    <3>5. \A x \in SectionNames : (\A i \in DOMAIN all : all[i].name # x) => content[x] = <<>>
      BY <1>1, <2>6, <2>8 DEF Named
    <3> QED BY <1>1, <2>6, <3>1, <3>2, <3>4, <3>5 DEF Named
  <2>10. \A i \in DOMAIN sections : IsData(all[i]) <=> IsData(sections[i])
    BY <2>6
  <2>11. Spans(all, fragments, cursor)
    BY <2>6, <2>8, <2>10 DEF Staged, Spans
  <2>12. Covers(all, fragments)
    <3> SUFFICES ASSUME NEW i \in DOMAIN all, IsData(all[i]), NEW k \in 0 .. all[i].position - 1
                 PROVE  \E x \in DOMAIN fragments :
                           /\ fragments[x].section = i
                           /\ fragments[x].offset <= k
                           /\ k < fragments[x].offset + fragments[x].count
      BY DEF Covers
    <3>1. i \in DOMAIN sections
      BY <2>3, <2>6, <2>7
    <3>2. IsData(sections[i]) /\ k \in 0 .. sections[i].position - 1
      BY <2>6, <3>1
    <3> QED BY <3>1, <3>2 DEF Staged, Covers
  <2>13. Carries(all, fragments, content, area)
    BY <2>6 DEF Staged, Carries, Spans
  <2>14. Staged(all, fragments, cursor, area, content)
    BY <2>9, <2>11, <2>12, <2>13 DEF Staged
  <2>15. Len(sections) + 1 \in DOMAIN all
    BY <1>1, <2>6
  <2> QED BY <2>1, <2>3, <2>4, <2>6, <2>8, <2>14, <2>15
<1> QED BY <1>2, <1>3

LEMMA StackGrows ==
  ASSUME stack \in Seq(DOMAIN sections), NEW all, DOMAIN sections \subseteq DOMAIN all
  PROVE  stack \in Seq(DOMAIN all)
BY SeqMonotonic

LEMMA RefusedStays == Rejects => LayoutInv'
BY DEF Rejects, LayoutInv, DataPlaced

LEMMA ReadStays == step' = "read" /\ ReadInv' => LayoutInv'
BY DEF LayoutInv, ReadInv, DataPlaced

LEMMA ReadIs == step = "read" /\ LayoutInv => ReadInv
BY DEF LayoutInv, ReadInv

LEMMA EntersIs ==
  ASSUME ReadInv, NEW n \in SectionNames, Enters(n), UNCHANGED <<fragments, cursor>>, Keep
  PROVE  /\ Staged(sections', fragments', cursor', area', content')
         /\ Listed(area', relocations', cursor')
         /\ active' \in DOMAIN sections' /\ previous' \in DOMAIN sections'
         /\ DOMAIN sections \subseteq DOMAIN sections'
<1>1. /\ Staged(WithSection(n), fragments, cursor, area, content)
      /\ IndexOf(n) \in DOMAIN WithSection(n)
      /\ DOMAIN sections \subseteq DOMAIN WithSection(n)
  BY SectionMade DEF ReadInv
<1>2. sections' = WithSection(n) /\ previous' = active /\ active' = IndexOf(n)
  BY DEF Enters
<1>3. /\ fragments' = fragments /\ cursor' = cursor /\ area' = area /\ content' = content
      /\ relocations' = relocations
  BY DEF Keep
<1>4. active \in DOMAIN sections /\ Listed(area, relocations, cursor)
  BY DEF ReadInv, Selects
<1> QED BY <1>1, <1>2, <1>3, <1>4

LEMMA SectionStays ==
  ASSUME LayoutInv, NEW n \in SectionNames, Section(n)
  PROVE  LayoutInv'
<1>1. ReadInv /\ step' = "read" /\ Enters(n) /\ UNCHANGED <<stack, fragments, cursor>> /\ Keep
  BY ReadIs DEF Section, Reads
<1>2. /\ Staged(sections', fragments', cursor', area', content')
      /\ Listed(area', relocations', cursor')
      /\ active' \in DOMAIN sections' /\ previous' \in DOMAIN sections'
      /\ DOMAIN sections \subseteq DOMAIN sections'
  BY <1>1, EntersIs
<1>3. stack' \in Seq(DOMAIN sections')
  BY <1>1, <1>2, StackGrows DEF ReadInv, Selects
<1>4. ReadInv'
  BY <1>2, <1>3 DEF ReadInv, Selects
<1> QED BY <1>1, <1>4, ReadStays

LEMMA PushSectionStays ==
  ASSUME LayoutInv, NEW n \in SectionNames, PushSection(n)
  PROVE  LayoutInv'
<1>1. CASE Len(stack) = Depth
  BY <1>1, RefusedStays DEF PushSection
<1>2. CASE Len(stack) # Depth
  <2>1. /\ ReadInv /\ step' = "read" /\ Enters(n) /\ UNCHANGED <<fragments, cursor>> /\ Keep
        /\ stack' = Append(stack, active)
    BY <1>2, ReadIs DEF PushSection, Reads
  <2>2. /\ Staged(sections', fragments', cursor', area', content')
        /\ Listed(area', relocations', cursor')
        /\ active' \in DOMAIN sections' /\ previous' \in DOMAIN sections'
        /\ DOMAIN sections \subseteq DOMAIN sections'
    BY <2>1, EntersIs
  <2>3. stack \in Seq(DOMAIN sections') /\ active \in DOMAIN sections'
    BY <2>1, <2>2, StackGrows DEF ReadInv, Selects
  <2>4. stack' \in Seq(DOMAIN sections')
    BY <2>1, <2>3
  <2>5. ReadInv'
    BY <2>2, <2>4 DEF ReadInv, Selects
  <2> QED BY <2>1, <2>5, ReadStays
<1> QED BY <1>1, <1>2

LEMMA ReturnStays ==
  ASSUME ReadInv, step = "read", NEW i \in DOMAIN sections, Return(i), stack' \in Seq(DOMAIN sections)
  PROVE  LayoutInv'
<1>1. /\ previous' = active /\ active' = i /\ sections' = sections /\ fragments' = fragments
      /\ cursor' = cursor /\ area' = area /\ content' = content /\ relocations' = relocations
      /\ step' = "read"
  BY DEF Return, Keep
<1>2. ReadInv'
  BY <1>1 DEF ReadInv, Selects
<1> QED BY <1>1, <1>2, ReadStays

LEMMA PopSectionStays == LayoutInv /\ PopSection => LayoutInv'
<1> SUFFICES ASSUME LayoutInv, PopSection PROVE LayoutInv'
  OBVIOUS
<1>1. CASE stack = <<>>
  BY <1>1, RefusedStays DEF PopSection
<1>2. CASE stack # <<>>
  <2>1. ReadInv /\ step = "read" /\ Return(Last(stack)) /\ stack' = Front(stack)
    BY <1>2, ReadIs DEF PopSection, Reads
  <2>2. stack \in Seq(DOMAIN sections)
    BY <2>1 DEF ReadInv, Selects
  <2>3. Len(stack) \in Nat \ {0}
    BY <1>2, <2>2, EmptySeq
  <2>4. Last(stack) \in DOMAIN sections
    <3>1. Len(stack) \in 1 .. Len(stack)
      BY <2>3
    <3> QED BY <2>2, <3>1, ElementOfSeq DEF Last
  <2>5. Front(stack) \in Seq(DOMAIN sections)
    <3>1. \A k \in 1 .. Len(stack) - 1 : stack[k] \in DOMAIN sections
      BY <2>2, <2>3, ElementOfSeq
    <3>2. Len(stack) - 1 \in Int /\ 1 \in Int
      BY <2>3
    <3> QED BY <3>1, <3>2, SubSeqProperties DEF Front
  <2> QED BY <2>1, <2>4, <2>5, ReturnStays
<1> QED BY <1>1, <1>2

LEMMA PreviousStays == LayoutInv /\ Previous => LayoutInv'
<1> SUFFICES ASSUME LayoutInv, Previous PROVE LayoutInv'
  OBVIOUS
<1>1. CASE ~previousValid
  BY <1>1, RefusedStays DEF Previous
<1>2. CASE previousValid
  <2>1. ReadInv /\ step = "read" /\ Return(previous) /\ stack' = stack
    BY <1>2, ReadIs DEF Previous, Reads
  <2>2. previous \in DOMAIN sections /\ stack \in Seq(DOMAIN sections)
    BY <2>1 DEF ReadInv, Selects
  <2> QED BY <2>1, <2>2, ReturnStays
<1> QED BY <1>1, <1>2

(* A reservation of cells without a pointer leaves what is to be resolved  *)
(* as it is.                                                               *)
LEMMA ListedStays ==
  ASSUME NEW all, Staged(all, fragments, cursor, area, content), Listed(area, relocations, cursor),
         NEW i \in DOMAIN all, NEW alignment \in Nat \ {0}, NEW cells \in Seq(Cells),
         \A x \in 1 .. Len(cells) : ~IsPointer(cells[x]),
         Room(Padding(all[i].position, alignment) + Len(cells)),
         Reserved(all, i, alignment, cells)
  PROVE  Listed(area', relocations, cursor')
<1>r. PICK n \in Nat, more \in Seq(Cells) : Reservation(all, i, alignment, cells, n, more)
  BY ReservedIs
<1>1. /\ n = Padding(all[i].position, alignment) + Len(cells)
      /\ more = More(i, all, alignment, cells) /\ Len(more) = n
      /\ cursor' = cursor + n /\ fragments' = Fragmented(i, all[i].position, n)
      /\ Grown(all, i, n, more, cursor, area, content, sections', area', content')
  BY <1>r, Zenon DEF Reservation
<1>2. Named(all, content) /\ cursor \in Nat /\ cursor <= Capacity
  BY CapacityIs DEF Staged
<1>3. PICK pad \in Nat, c \in Nat, more2 \in Seq(Cells) : Padded(all, i, alignment, cells, pad, c, more2)
  BY ONLY <1>2, i \in DOMAIN all, alignment \in Nat \ {0}, cells \in Seq(Cells), MoreIs
<1>4. \A k \in 1 .. n : ~IsPointer(more[k])
  <2>1. n = pad + c /\ c = Len(cells)
        /\ \A k \in 1 .. pad + c : more[k] = IF k <= pad THEN Zero ELSE cells[k - pad]
    BY <1>1, <1>3, Zenon DEF Padded
  <2> SUFFICES ASSUME NEW k \in 1 .. n PROVE ~IsPointer(more[k])
    OBVIOUS
  <2>2. CASE k <= pad
    <3>1. more[k] = Zero
      BY <2>1, <2>2
    <3> QED BY <3>1, CellsAre
  <2>3. CASE ~(k <= pad)
    <3>1. k - pad \in 1 .. Len(cells)
      BY <2>1, <2>3
    <3>2. more[k] = cells[k - pad]
      BY <2>1, <2>3
    <3> QED BY <3>1, <3>2
  <2> QED BY <2>2, <2>3
<1>5. PICK a2 : a2 = area'
  OBVIOUS
<1>6. \A a \in 0 .. 2 * Capacity - 1 :
         a2[a] = IF a \in cursor .. cursor + n - 1 THEN more[a - cursor + 1] ELSE area[a]
  BY <1>1, <1>5, Zenon DEF Grown
<1>7. ASSUME NEW x \in DOMAIN relocations
      PROVE  /\ relocations[x].at \in First .. cursor + n - 1
             /\ a2[relocations[x].at] = Pointer(relocations[x].label)
  <2>1. PICK a \in First .. cursor - 1 : a = relocations[x].at
    BY DEF Listed
  <2>2. area[a] = Pointer(relocations[x].label)
    BY <2>1 DEF Listed
  <2>3. a \in First .. cursor + n - 1 /\ a \in 0 .. 2 * Capacity - 1 /\ a \notin cursor .. cursor + n - 1
    BY <1>2, CapacityIs
  <2> QED BY <1>6, <2>1, <2>2, <2>3
<1>8. ASSUME NEW a \in 0 .. 2 * Capacity - 1, IsPointer(a2[a])
      PROVE  \E x \in DOMAIN relocations : relocations[x].at = a
  <2>1. CASE a \in cursor .. cursor + n - 1
    <3>1. a - cursor + 1 \in 1 .. n
      BY <1>2, <2>1
    <3> QED BY <1>4, <1>6, <1>8, <2>1, <3>1
  <2>2. CASE a \notin cursor .. cursor + n - 1
    <3>1. IsPointer(area[a])
      BY <1>6, <1>8, <2>2
    <3> QED BY <3>1 DEF Listed
  <2> QED BY <2>1, <2>2
<1>9. Listed(a2, relocations, cursor + n)
  <2>1. relocations \in Seq(Later)
    BY DEF Listed
  <2>a. cursor + n \in Nat
    BY <1>2
  <2>2. PICK t \in Nat : t = cursor + n
    BY <2>a
  <2>b. First .. t - 1 = First .. cursor + n - 1
    BY <1>2, <2>2
  <2>3. \A x \in DOMAIN relocations :
          relocations[x].at \in First .. t - 1 /\ a2[relocations[x].at] = Pointer(relocations[x].label)
    BY <1>7, <2>b, Zenon
  <2>4. \A a \in 0 .. 2 * Capacity - 1 :
          IsPointer(a2[a]) => \E x \in DOMAIN relocations : relocations[x].at = a
    BY <1>8
  <2>5. Listed(a2, relocations, t)
    BY ONLY <2>1, <2>3, <2>4 DEF Listed
  <2> QED BY <2>2, <2>5
<1> QED BY <1>1, <1>5, <1>9

LEMMA ListedMore ==
  ASSUME Staged(sections, fragments, cursor, area, content), Listed(area, relocations, cursor),
         active \in DOMAIN sections, NEW l \in Labels, Room(1),
         Reserved(sections, active, 1, <<Pointer(l)>>),
         relocations' = Append(relocations, [at |-> cursor, label |-> l])
  PROVE  Listed(area', relocations', cursor')
<1> DEFINE cells == <<Pointer(l)>>
<1>0. cells \in Seq(Cells) /\ Len(cells) = 1 /\ cells[1] = Pointer(l)
  BY CellsAre
<1> HIDE DEF cells
<1>r. PICK n \in Nat, more \in Seq(Cells) : Reservation(sections, active, 1, cells, n, more)
  <2>1. Reserved(sections, active, 1, cells) /\ 1 \in Nat \ {0}
    BY DEF cells
  <2>2. active \in DOMAIN sections /\ Staged(sections, fragments, cursor, area, content)
    OBVIOUS
  <2> QED BY ONLY <1>0, <2>1, <2>2, ReservedIs
<1>1. /\ n = Padding(sections[active].position, 1) + Len(cells)
      /\ more = More(active, sections, 1, cells) /\ Len(more) = n
      /\ cursor' = cursor + n /\ fragments' = Fragmented(active, sections[active].position, n)
      /\ Grown(sections, active, n, more, cursor, area, content, sections', area', content')
  BY <1>r, Zenon DEF Reservation
<1>2. Named(sections, content) /\ cursor \in Nat /\ First <= cursor /\ 1 <= Capacity - cursor
  BY CapacityIs DEF Staged, Room
<1>3. PICK pad \in Nat, c \in Nat, more2 \in Seq(Cells) : Padded(sections, active, 1, cells, pad, c, more2)
  <2>1. 1 \in Nat \ {0}
    OBVIOUS
  <2> QED BY ONLY <1>0, <1>2, active \in DOMAIN sections, <2>1, MoreIs
<1>4. n = 1 /\ more[1] = Pointer(l)
  <2>1. pad = 0
    <3>1. sections[active].position \in Nat /\ pad = Padding(sections[active].position, 1)
      BY <1>3, Zenon DEF Padded
    <3>2. 1 \in Nat \ {0}
      OBVIOUS
    <3>3. \A p \in Nat : Padding(p, 1) = 0
      BY <3>2, PaddingIs
    <3> QED BY <3>1, <3>3, Zenon
  <2>2. c = 1 /\ \A k \in 1 .. pad + c : more[k] = IF k <= pad THEN Zero ELSE cells[k - pad]
    BY <1>0, <1>1, <1>3, Zenon DEF Padded
  <2>3. n = pad + c
    BY <1>1, <1>3, Zenon DEF Padded
  <2>4. 1 \in 1 .. pad + c /\ ~(1 <= pad) /\ 1 - pad = 1
    BY <2>1, <2>2
  <2> QED BY <1>0, <2>1, <2>2, <2>3, <2>4
<1>5. PICK a2, r2, r : a2 = area' /\ r2 = relocations' /\ r = [at |-> cursor, label |-> l]
  OBVIOUS
<1>6. \A a \in 0 .. 2 * Capacity - 1 : a2[a] = IF a = cursor THEN Pointer(l) ELSE area[a]
  <2>1. \A a \in 0 .. 2 * Capacity - 1 :
         a2[a] = IF a \in cursor .. cursor + n - 1 THEN more[a - cursor + 1] ELSE area[a]
    BY <1>1, <1>5, Zenon DEF Grown
  <2>2. \A a \in 0 .. 2 * Capacity - 1 : a \in cursor .. cursor + n - 1 <=> a = cursor
    BY <1>2, <1>4, CapacityIs
  <2>3. cursor - cursor + 1 = 1
    BY <1>2
  <2> QED BY <1>4, <2>1, <2>2, <2>3
<1>7. r \in Later /\ r.at = cursor /\ r.label = l
  BY <1>2, <1>5 DEF Later
<1>8. /\ relocations \in Seq(Later) /\ Len(relocations) \in Nat
      /\ DOMAIN relocations = 1 .. Len(relocations)
  BY LenProperties DEF Listed
<1>9. /\ r2 \in Seq(Later) /\ DOMAIN r2 = 1 .. Len(relocations) + 1
      /\ r2[Len(relocations) + 1] = r /\ \A x \in DOMAIN relocations : r2[x] = relocations[x]
  BY <1>5, <1>7, <1>8
<1>10. ASSUME NEW x \in DOMAIN r2
       PROVE  r2[x].at \in First .. cursor /\ a2[r2[x].at] = Pointer(r2[x].label)
  <2>1. CASE x \in DOMAIN relocations
    <3>1. PICK a \in First .. cursor - 1 : a = relocations[x].at
      BY <2>1 DEF Listed
    <3>2. area[a] = Pointer(relocations[x].label)
      BY <2>1, <3>1 DEF Listed
    <3>3. a \in First .. cursor /\ a \in 0 .. 2 * Capacity - 1 /\ a # cursor
      BY <1>2, CapacityIs
    <3> QED BY <1>6, <1>9, <2>1, <3>1, <3>2, <3>3
  <2>2. CASE x \notin DOMAIN relocations
    <3>1. x = Len(relocations) + 1
      BY <1>8, <1>9, <2>2
    <3>2. cursor \in First .. cursor /\ cursor \in 0 .. 2 * Capacity - 1
      BY <1>2, CapacityIs
    <3> QED BY <1>6, <1>7, <1>9, <3>1, <3>2
  <2> QED BY <2>1, <2>2
<1>11. ASSUME NEW a \in 0 .. 2 * Capacity - 1, IsPointer(a2[a])
       PROVE  \E x \in DOMAIN r2 : r2[x].at = a
  <2>1. CASE a = cursor
    <3>1. Len(relocations) + 1 \in DOMAIN r2
      BY <1>8, <1>9
    <3> QED BY <1>7, <1>9, <2>1, <3>1
  <2>2. CASE a # cursor
    <3>1. IsPointer(area[a])
      BY <1>6, <1>11, <2>2
    <3>2. PICK x \in DOMAIN relocations : relocations[x].at = a
      BY <3>1 DEF Listed
    <3>3. x \in DOMAIN r2
      BY <1>8, <1>9
    <3> QED BY <1>9, <3>2, <3>3
  <2> QED BY <2>1, <2>2
<1>12. cursor + n - 1 = cursor /\ cursor' = cursor + n
  BY <1>1, <1>2, <1>4
<1>13. Listed(a2, r2, cursor + n)
  <2>1. \A x \in DOMAIN r2 : r2[x].at \in First .. cursor + n - 1 /\ a2[r2[x].at] = Pointer(r2[x].label)
    BY <1>10, <1>12
  <2>a. cursor + n \in Nat
    BY <1>2
  <2>2. PICK t \in Nat : t = cursor + n
    BY <2>a
  <2>b. First .. t - 1 = First .. cursor + n - 1
    BY <1>2, <2>2
  <2>3. \A x \in DOMAIN r2 : r2[x].at \in First .. t - 1 /\ a2[r2[x].at] = Pointer(r2[x].label)
    BY <2>1, <2>b, Zenon
  <2>4. \A a \in 0 .. 2 * Capacity - 1 : IsPointer(a2[a]) => \E x \in DOMAIN r2 : r2[x].at = a
    BY <1>11
  <2>5. r2 \in Seq(Later)
    BY <1>9
  <2>6. Listed(a2, r2, t)
    BY ONLY <2>3, <2>4, <2>5 DEF Listed
  <2> QED BY <2>2, <2>6
<1> QED BY <1>5, <1>12, <1>13

(* What a step that stages cells keeps.                                    *)
LEMMA PlaceKept ==
  ASSUME Selects, NEW all, DOMAIN sections \subseteq DOMAIN all, DOMAIN sections' = DOMAIN all, KeepPlace
  PROVE  Selects'
<1>1. active' = active /\ previous' = previous /\ stack' = stack
  BY DEF KeepPlace
<1>2. stack \in Seq(DOMAIN sections)
  BY DEF Selects
<1>3. DOMAIN sections \subseteq DOMAIN sections'
  OBVIOUS
<1>4. stack \in Seq(DOMAIN sections')
  BY <1>2, <1>3, SeqMonotonic
<1> QED BY <1>1, <1>3, <1>4 DEF Selects

LEMMA DataIs == \A i : OfData(i) <=> IsData(sections[i])
BY DEF OfData, KindOf, IsData

LEMMA PutStays ==
  ASSUME LayoutInv, step = "read", NEW alignment \in Nat \ {0}, NEW cells \in Seq(Cells),
         \A x \in 1 .. Len(cells) : ~IsPointer(cells[x]), Put(alignment, cells)
  PROVE  LayoutInv'
<1>1. CASE ~OfData(active) \/ ~Room(Padding(sections[active].position, alignment) + Len(cells))
  BY <1>1, RefusedStays DEF Put
<1>2. CASE OfData(active) /\ Room(Padding(sections[active].position, alignment) + Len(cells))
  <2>1. /\ Reserved(sections, active, alignment, cells) /\ KeepPlace
        /\ relocations' = relocations /\ step' = "read"
    BY <1>2 DEF Put
  <2>2. /\ Staged(sections, fragments, cursor, area, content) /\ Selects
        /\ Listed(area, relocations, cursor) /\ active \in DOMAIN sections
        /\ IsData(sections[active])
    BY <1>2, ReadIs, DataIs DEF ReadInv, Selects
  <2>3. Staged(sections', fragments', cursor', area', content') /\ DOMAIN sections' = DOMAIN sections
    BY <1>2, <2>1, <2>2, ReservedStages
  <2>4. Listed(area', relocations', cursor')
    BY <1>2, <2>1, <2>2, ListedStays
  <2>5. Selects'
    BY <2>1, <2>2, <2>3, PlaceKept
  <2>6. ReadInv'
    BY <2>3, <2>4, <2>5 DEF ReadInv
  <2> QED BY <2>1, <2>6, ReadStays
<1> QED BY <1>1, <1>2

LEMMA ZerosPlain ==
  ASSUME NEW n \in Nat
  PROVE  Zeros(n) \in Seq(Cells) /\ \A x \in 1 .. Len(Zeros(n)) : ~IsPointer(Zeros(n)[x])
BY ZerosAre, CellsAre

LEMMA NumberStays == used \in Nat /\ LayoutInv /\ Number => LayoutInv'
<1> SUFFICES ASSUME used \in Nat, LayoutInv, Number PROVE LayoutInv'
  OBVIOUS
<1>1. CASE KindOf(active) = 2
  BY <1>1, RefusedStays DEF Number
<1>2. CASE KindOf(active) # 2
  <2>1. step = "read" /\ Put(1, <<Cell(used + 1)>>)
    BY <1>2 DEF Number, Reads
  <2>2. PICK c \in Cells : c = Cell(used + 1) /\ ~IsPointer(c)
    BY CellsAre
  <2>3. PICK cells : cells = <<c>>
    OBVIOUS
  <2>4. cells \in Seq(Cells) /\ Len(cells) = 1 /\ cells[1] = c
    BY <2>3
  <2>5. \A x \in 1 .. Len(cells) : ~IsPointer(cells[x])
    BY <2>2, <2>4
  <2>6. Put(1, cells) /\ 1 \in Nat \ {0}
    BY <2>1, <2>2, <2>3
  <2> QED BY <2>1, <2>4, <2>5, <2>6, PutStays
<1> QED BY <1>1, <1>2

LEMMA SpaceStays == ASSUME LayoutInv, NEW n \in Counts, Space(n) PROVE LayoutInv'
<1>1. n \in Nat /\ 1 \in Nat \ {0} /\ step = "read" /\ Put(1, Zeros(n))
  BY LayoutAssumption DEF Space, Reads
<1> QED BY <1>1, ZerosPlain, PutStays

LEMMA AlignStays == ASSUME LayoutInv, NEW a \in Alignments, Align(a) PROVE LayoutInv'
<1>1. CASE a > Capacity
  BY <1>1, RefusedStays DEF Align
<1>2. CASE ~(a > Capacity)
  <2>1. a \in Nat \ {0} /\ step = "read" /\ Put(a, <<>>)
    BY <1>2, LayoutAssumption DEF Align, Reads
  <2>2. <<>> \in Seq(Cells) /\ \A x \in 1 .. Len(<<>>) : ~IsPointer(<<>>[x])
    BY EmptySeq
  <2> QED BY <2>1, <2>2, PutStays
<1> QED BY <1>1, <1>2

LEMMA AddressStays == ASSUME LayoutInv, NEW l \in Labels, Address(l) PROVE LayoutInv'
<1>1. CASE KindOf(active) # 1 \/ ~Room(1)
  BY <1>1, RefusedStays DEF Address
<1>2. CASE KindOf(active) = 1 /\ Room(1)
  <2>1. /\ Reserved(sections, active, 1, <<Pointer(l)>>) /\ KeepPlace
        /\ relocations' = Append(relocations, [at |-> cursor, label |-> l])
        /\ step = "read" /\ step' = "read"
    BY <1>2 DEF Address, Reads
  <2>2. /\ Staged(sections, fragments, cursor, area, content) /\ Selects
        /\ Listed(area, relocations, cursor) /\ active \in DOMAIN sections
        /\ IsData(sections[active])
    BY <1>2, <2>1, ReadIs DEF ReadInv, Selects, IsData, KindOf
  <2>3. PICK cells : cells = <<Pointer(l)>>
    OBVIOUS
  <2>4. cells \in Seq(Cells) /\ Len(cells) = 1
    BY <2>3, CellsAre
  <2>5. Padding(sections[active].position, 1) = 0 /\ 1 \in Nat \ {0}
    <3>1. sections[active].position \in Nat
      BY <2>2, RecordsAre DEF Staged
    <3>2. 1 \in Nat \ {0}
      OBVIOUS
    <3> QED BY <3>1, <3>2, PaddingIs
  <2>6. Padding(sections[active].position, 1) + Len(cells) = 1
    BY <2>4, <2>5
  <2>7. Reserved(sections, active, 1, cells) /\ Room(Padding(sections[active].position, 1) + Len(cells))
    BY <1>2, <2>1, <2>3, <2>6
  <2>8. Staged(sections', fragments', cursor', area', content') /\ DOMAIN sections' = DOMAIN sections
    BY <2>2, <2>4, <2>5, <2>7, ReservedStages
  <2>9. Listed(area', relocations', cursor')
    BY <1>2, <2>1, <2>2, ListedMore
  <2>10. Selects'
    BY <2>1, <2>2, <2>8, PlaceKept
  <2>11. ReadInv'
    BY <2>8, <2>9, <2>10 DEF ReadInv
  <2> QED BY <2>1, <2>11, ReadStays
<1> QED BY <1>1, <1>2

LEMMA LabelStays == ASSUME LayoutInv, NEW l \in Labels, Label(l) PROVE LayoutInv'
<1>1. CASE labels[l] # Nowhere \/ ~OfData(active)
  BY <1>1, RefusedStays DEF Label
<1>2. CASE labels[l] = Nowhere /\ OfData(active)
  <2>1. /\ step = "read" /\ step' = "read" /\ KeepPlace
        /\ UNCHANGED <<sections, fragments, cursor, area, relocations, content>>
    BY <1>2 DEF Label, Reads
  <2>2. ReadInv
    BY <2>1, ReadIs
  <2>3. ReadInv'
    BY <2>1, <2>2 DEF ReadInv, Selects, KeepPlace
  <2> QED BY <2>1, <2>3, ReadStays
<1> QED BY <1>1, <1>2

LEMMA CommonBlockStays ==
  ASSUME LayoutInv, NEW l \in Labels, NEW n \in Counts, NEW a \in Alignments, CommonBlock(l, n, a)
  PROVE  LayoutInv'
<1> DEFINE all == WithSection(".bss")
           i == IndexOf(".bss")
           p == all[i].position
<1>1. CASE labels[l] # Nowhere \/ a > Capacity \/ ~Room(Padding(p, a) + n)
  BY <1>1, RefusedStays DEF CommonBlock
<1>2. CASE ~(labels[l] # Nowhere \/ a > Capacity \/ ~Room(Padding(p, a) + n))
  <2>1. /\ step = "read" /\ step' = "read" /\ KeepPlace /\ relocations' = relocations
        /\ Reserved(all, i, a, Zeros(n)) /\ Room(Padding(p, a) + n)
    BY <1>2 DEF CommonBlock, Reads
  <2>2. ".bss" \in SectionNames /\ Kind[".bss"] = 2 /\ n \in Nat /\ a \in Nat \ {0}
    BY LayoutAssumption
  <2>3. /\ Staged(sections, fragments, cursor, area, content) /\ Selects
        /\ Listed(area, relocations, cursor)
    BY <2>1, ReadIs DEF ReadInv
  <2>4. /\ Staged(all, fragments, cursor, area, content) /\ i \in DOMAIN all
        /\ all[i].name = ".bss" /\ DOMAIN sections \subseteq DOMAIN all
    BY <2>2, <2>3, SectionMade
  <2>5. IsData(all[i])
    BY <2>2, <2>4 DEF IsData
  <2>6. PICK cells : cells = Zeros(n)
    OBVIOUS
  <2>7. /\ cells \in Seq(Cells) /\ Len(cells) = n
        /\ \A x \in 1 .. Len(cells) : ~IsPointer(cells[x])
    BY <2>2, <2>6, ZerosPlain, ZerosAre
  <2>8. Reserved(all, i, a, cells) /\ Room(Padding(all[i].position, a) + Len(cells))
    BY <2>1, <2>6, <2>7
  <2> HIDE DEF all, i, p
  <2>9. Staged(sections', fragments', cursor', area', content') /\ DOMAIN sections' = DOMAIN all
    BY <2>2, <2>4, <2>5, <2>7, <2>8, ReservedStages
  <2>10. Listed(area', relocations', cursor')
    BY <2>1, <2>2, <2>3, <2>4, <2>7, <2>8, ListedStays
  <2>11. Selects'
    BY <2>1, <2>3, <2>4, <2>9, PlaceKept
  <2>12. ReadInv'
    BY <2>9, <2>10, <2>11 DEF ReadInv
  <2> QED BY <2>1, <2>12, ReadStays
<1> QED BY <1>1, <1>2

(* The sections laid out one after the other, up to section n.             *)
LaidTo(g, n) ==
  g = [k \in 0 .. n |-> IF k = 0 THEN [all |-> <<>>, end |-> First]
                       ELSE Laid(g[k - 1], sections[k])]

LEMMA LaidExists == \A n \in Nat : \E g : LaidTo(g, n)
<1> DEFINE Z == [all |-> <<>>, end |-> First]
           S(f, r) == Laid(f, sections[r])
           F == {n \in Nat : \E g : LaidTo(g, n)}
<1>0. \A g, n : LaidTo(g, n) <=> g = [r \in 0 .. n |-> IF r = 0 THEN Z ELSE S(g[r - 1], r)]
  BY DEF LaidTo
<1> HIDE DEF Z, S
<1>1. 0 \in F
  <2>1. PICK g : g = [r \in 0 .. 0 |-> Z]
    OBVIOUS
  <2>2. g = [r \in 0 .. 0 |-> IF r = 0 THEN Z ELSE S(g[r - 1], r)]
    BY <2>1
  <2>3. LaidTo(g, 0)
    BY <1>0, <2>2, Zenon
  <2> QED BY <2>3
<1>2. \A n \in Nat : n \in F => n + 1 \in F
  <2> SUFFICES ASSUME NEW n \in Nat, n \in F PROVE n + 1 \in F
    OBVIOUS
  <2>1. PICK g : LaidTo(g, n)
    OBVIOUS
  <2> DEFINE h == [r \in 0 .. n + 1 |-> IF r = 0 THEN Z ELSE S(g[r - 1], r)]
  <2>2. g = [r \in 0 .. n |-> IF r = 0 THEN Z ELSE S(g[r - 1], r)]
    BY <1>0, <2>1, Zenon
  <2>3. \A r \in 0 .. n : g[r] = IF r = 0 THEN Z ELSE S(g[r - 1], r)
    BY <2>2, Zenon
  <2>4. \A r \in 0 .. n : h[r] = g[r]
    <3> SUFFICES ASSUME NEW r \in 0 .. n PROVE h[r] = g[r]
      OBVIOUS
    <3>1. r \in 0 .. n + 1
      OBVIOUS
    <3>2. h[r] = IF r = 0 THEN Z ELSE S(g[r - 1], r)
      BY <3>1, Zenon
    <3> QED BY <2>3, <3>2, Zenon
  <2>5. \A r \in 0 .. n + 1 : h[r] = IF r = 0 THEN Z ELSE S(h[r - 1], r)
    <3> SUFFICES ASSUME NEW r \in 0 .. n + 1, r # 0 PROVE h[r] = S(h[r - 1], r)
      BY Zenon
    <3>1. r - 1 \in 0 .. n
      OBVIOUS
    <3>2. h[r] = S(g[r - 1], r)
      BY Zenon
    <3>3. h[r - 1] = g[r - 1]
      BY <2>4, <3>1
    <3> QED BY <3>2, <3>3, Zenon
  <2>6. h = [r \in 0 .. n + 1 |-> h[r]]
    BY Zenon
  <2> HIDE DEF h
  <2>7. h = [r \in 0 .. n + 1 |-> IF r = 0 THEN Z ELSE S(h[r - 1], r)]
    BY <2>5, <2>6, Zenon
  <2>8. LaidTo(h, n + 1)
    BY <1>0, <2>7, Zenon
  <2> QED BY <2>8
<1> HIDE DEF F
<1>3. Nat \subseteq F
  BY <1>1, <1>2, Induction
<1> QED BY <1>3 DEF F

(* The sections that are laid out have their places one after the other.   *)
LaidInv(l, k) ==
  /\ l \in [all : Seq(Records), end : Nat]
  /\ Len(l.all) = k /\ l.end >= First
  /\ \A i \in 1 .. k :
       /\ l.all[i].name = sections[i].name /\ l.all[i].position = sections[i].position
       /\ IsData(sections[i]) =>
            /\ l.all[i].base % l.all[i].alignment = 0 /\ l.all[i].base >= First
            /\ l.all[i].base + l.all[i].position <= l.end
  /\ \A i, j \in 1 .. k : IsData(sections[i]) /\ IsData(sections[j]) /\ i < j =>
       l.all[i].base + l.all[i].position <= l.all[j].base

LEMMA LaidStarts == LaidInv([all |-> <<>>, end |-> First], 0)
<1>1. <<>> \in Seq(Records) /\ Len(<<>>) = 0 /\ First \in Nat
  BY EmptySeq, CapacityIs
<1> QED BY <1>1 DEF LaidInv

LEMMA LaidStep ==
  ASSUME Named(sections, content), NEW k \in Nat, k + 1 \in DOMAIN sections, NEW l, LaidInv(l, k)
  PROVE  LaidInv(Laid(l, sections[k + 1]), k + 1)
<1>1. PICK s \in Records : s = sections[k + 1]
  BY RecordsAre
<1>2. /\ s.name \in SectionNames /\ s.position \in Nat /\ s.alignment \in Nat \ {0} /\ s.base \in Nat
  BY DEF Records
<1>3. PICK old \in Seq(Records), end \in Nat : l = [all |-> old, end |-> end]
  BY DEF LaidInv
<1>4. /\ Len(old) = k /\ DOMAIN old = 1 .. k /\ end >= First
      /\ \A i \in 1 .. k : old[i] \in Records /\ old[i].base \in Nat /\ old[i].position \in Nat
  <2>1. Len(old) = k /\ end >= First
    BY <1>3 DEF LaidInv
  <2>2. DOMAIN old = 1 .. k /\ \A i \in 1 .. k : old[i] \in Records
    BY <2>1, LenProperties
  <2> QED BY <2>1, <2>2 DEF Records
<1>5. \A i \in 1 .. k :
        /\ old[i].name = sections[i].name /\ old[i].position = sections[i].position
        /\ IsData(sections[i]) =>
             /\ old[i].base % old[i].alignment = 0 /\ old[i].base >= First
             /\ old[i].base + old[i].position <= end
  BY <1>3 DEF LaidInv
<1>6. \A i, j \in 1 .. k : IsData(sections[i]) /\ IsData(sections[j]) /\ i < j =>
        old[i].base + old[i].position <= old[j].base
  BY <1>3 DEF LaidInv
<1>7. First \in Nat
  BY CapacityIs
<1>8. CASE ~IsData(s)
  <2>1. PICK new : new = Append(old, s)
    OBVIOUS
  <2>2. Laid(l, s) = [all |-> new, end |-> end]
    BY <1>3, <1>8, <2>1 DEF Laid, IsData
  <2>3. /\ new \in Seq(Records) /\ Len(new) = k + 1 /\ new[k + 1] = s
        /\ \A i \in 1 .. k : new[i] = old[i]
    BY <1>4, <2>1
  <2>4. \A i \in 1 .. k + 1 : i \in 1 .. k \/ i = k + 1
    OBVIOUS
  <2>5. \A i \in 1 .. k + 1 :
          /\ new[i].name = sections[i].name /\ new[i].position = sections[i].position
          /\ IsData(sections[i]) =>
               /\ new[i].base % new[i].alignment = 0 /\ new[i].base >= First
               /\ new[i].base + new[i].position <= end
    BY <1>1, <1>5, <1>8, <2>3, <2>4
  <2>6. \A i, j \in 1 .. k + 1 : IsData(sections[i]) /\ IsData(sections[j]) /\ i < j =>
          new[i].base + new[i].position <= new[j].base
    BY <1>1, <1>6, <1>8, <2>3, <2>4
  <2>7. LaidInv([all |-> new, end |-> end], k + 1)
    BY <1>4, <2>3, <2>5, <2>6 DEF LaidInv
  <2> QED BY <1>1, <2>2, <2>7
<1>9. CASE IsData(s)
  <2>1. PICK pad \in Nat : pad = Padding(end, s.alignment)
    BY <1>2, PaddingIs
  <2>2. PICK base \in Nat : base = end + pad
    OBVIOUS
  <2>3. base % s.alignment = 0 /\ base >= end
    <3>1. PICK al \in Nat \ {0} : al = s.alignment
      BY <1>2
    <3>2. (end + Padding(end, al)) % al = 0
      BY PaddingIs
    <3>3. base % al = 0
      BY <2>1, <2>2, <3>1, <3>2, Zenon
    <3>4. base >= end
      BY <2>2
    <3> QED BY <3>1, <3>3, <3>4
  <2>4. PICK r : r = [s EXCEPT !.base = base]
    OBVIOUS
  <2>5. /\ r \in Records /\ r.name = s.name /\ r.position = s.position /\ r.alignment = s.alignment
        /\ r.base = base
    BY <2>4 DEF Records
  <2>6. PICK new, last : new = Append(old, r) /\ last = base + s.position
    OBVIOUS
  <2>7. Laid(l, s) = [all |-> new, end |-> last]
    BY <1>3, <1>9, <2>1, <2>2, <2>4, <2>6 DEF Laid, IsData, Aligned
  <2>8. /\ new \in Seq(Records) /\ Len(new) = k + 1 /\ new[k + 1] = r
        /\ \A i \in 1 .. k : new[i] = old[i]
    BY <1>4, <2>5, <2>6
  <2>9. last \in Nat /\ last >= end /\ last >= First /\ base >= First
    BY <1>2, <1>4, <1>7, <2>3, <2>6
  <2>10. \A i \in 1 .. k + 1 : i \in 1 .. k \/ i = k + 1
    OBVIOUS
  <2>11. ASSUME NEW i \in 1 .. k + 1
         PROVE  /\ new[i].name = sections[i].name /\ new[i].position = sections[i].position
                /\ IsData(sections[i]) =>
                     /\ new[i].base % new[i].alignment = 0 /\ new[i].base >= First
                     /\ new[i].base + new[i].position <= last
    <3>1. CASE i = k + 1
      <4>1. base + s.position <= last
        BY <2>6, <2>9
      <4> QED BY <1>1, <2>3, <2>5, <2>8, <2>9, <3>1, <4>1
    <3>2. CASE i \in 1 .. k
      <4>1. new[i] = old[i]
        BY <2>8, <3>2
      <4>2. PICK b, p \in Nat : b = old[i].base /\ p = old[i].position
        BY <1>4, <3>2
      <4>3. b + p <= end => b + p <= last
        BY <2>9
      <4> QED BY <1>5, <3>2, <4>1, <4>2, <4>3
    <3> QED BY <2>10, <3>1, <3>2
  <2>12. ASSUME NEW i \in 1 .. k + 1, NEW j \in 1 .. k + 1, IsData(sections[i]),
                IsData(sections[j]), i < j
         PROVE  new[i].base + new[i].position <= new[j].base
    <3>1. i \in 1 .. k /\ new[i] = old[i]
      BY <2>8, <2>12
    <3>2. CASE j \in 1 .. k
      BY <1>6, <2>8, <2>12, <3>1, <3>2
    <3>3. CASE j = k + 1
      <4>1. PICK b, p \in Nat : b = old[i].base /\ p = old[i].position
        BY <1>4, <3>1
      <4>2. b + p <= end
        BY <1>5, <2>12, <3>1, <4>1
      <4>3. b + p <= base
        BY <2>3, <4>2
      <4> QED BY <2>5, <2>8, <3>1, <3>3, <4>1, <4>3
    <3> QED BY <2>10, <3>2, <3>3
  <2>13. LaidInv([all |-> new, end |-> last], k + 1)
    BY <2>8, <2>9, <2>11, <2>12 DEF LaidInv
  <2> QED BY <1>1, <2>7, <2>13
<1> QED BY <1>8, <1>9

LEMMA LaidOutIs == ASSUME Named(sections, content) PROVE LaidInv(LaidOut, Len(sections))
<1> DEFINE N == Len(sections)
           g == CHOOSE g : g = [k \in 0 .. N |-> IF k = 0 THEN [all |-> <<>>, end |-> First]
                                                 ELSE Laid(g[k - 1], sections[k])]
<1>1. N \in Nat /\ DOMAIN sections = 1 .. N
  BY RecordsAre
<1>2. \E h : LaidTo(h, N)
  BY <1>1, LaidExists
<1>3. LaidTo(g, N)
  BY <1>2 DEF LaidTo
<1>4. LaidOut = g[N]
  BY DEF LaidOut
<1> HIDE DEF g, N
<1>5. \A k \in 0 .. N : g[k] = IF k = 0 THEN [all |-> <<>>, end |-> First]
                               ELSE Laid(g[k - 1], sections[k])
  BY <1>3, Zenon DEF LaidTo
<1> DEFINE F == {k \in Nat : k <= N => LaidInv(g[k], k)}
<1>6. 0 \in F
  <2>1. g[0] = [all |-> <<>>, end |-> First]
    BY <1>1, <1>5
  <2> QED BY <2>1, LaidStarts
<1>7. \A k \in Nat : k \in F => k + 1 \in F
  <2> SUFFICES ASSUME NEW k \in Nat, k \in F, k + 1 <= N PROVE LaidInv(g[k + 1], k + 1)
    OBVIOUS
  <2>1. k <= N /\ k + 1 \in 0 .. N /\ k + 1 # 0 /\ (k + 1) - 1 = k /\ k + 1 \in DOMAIN sections
    BY <1>1
  <2>2. LaidInv(g[k], k)
    BY <2>1
  <2>3. g[k + 1] = Laid(g[k], sections[k + 1])
    BY <1>5, <2>1
  <2>4. LaidInv(Laid(g[k], sections[k + 1]), k + 1)
    BY <2>1, <2>2, LaidStep
  <2> QED BY <2>3, <2>4
<1> HIDE DEF F
<1>8. Nat \subseteq F
  BY <1>6, <1>7, Induction
<1>9. N \in F /\ N <= N
  BY <1>1, <1>8
<1> QED BY <1>4, <1>9 DEF F, N

(* Sections that only differ in their places hold the same cells.          *)
LEMMA SameSections ==
  ASSUME NEW all, NEW pieces, NEW top, NEW cells, NEW given,
         Staged(all, pieces, top, cells, given),
         NEW all2 \in Seq(Records), DOMAIN all2 = DOMAIN all,
         \A j \in DOMAIN all : all2[j].name = all[j].name /\ all2[j].position = all[j].position
  PROVE  Staged(all2, pieces, top, cells, given)
<1>1. Named(all, given) /\ Spans(all, pieces, top) /\ Covers(all, pieces)
      /\ Carries(all, pieces, given, cells)
  BY DEF Staged
<1>2. \A j \in DOMAIN all : IsData(all2[j]) <=> IsData(all[j])
  BY DEF IsData
<1>3. Len(all2) >= 1
  BY <1>1, LenProperties, RecordsAre
<1>4. Named(all2, given)
  BY <1>1, <1>3 DEF Named
<1>5. Spans(all2, pieces, top)
  BY <1>1, <1>2 DEF Spans
<1>6. Covers(all2, pieces)
  <2> SUFFICES ASSUME NEW i \in DOMAIN all2, IsData(all2[i]), NEW k \in 0 .. all2[i].position - 1
               PROVE  \E x \in DOMAIN pieces :
                         /\ pieces[x].section = i /\ pieces[x].offset <= k
                         /\ k < pieces[x].offset + pieces[x].count
    BY DEF Covers
  <2>1. IsData(all[i]) /\ k \in 0 .. all[i].position - 1
    BY <1>2
  <2> QED BY <1>1, <2>1 DEF Covers
<1>7. Carries(all2, pieces, given, cells)
  BY <1>1 DEF Carries, Spans
<1> QED BY <1>4, <1>5, <1>6, <1>7 DEF Staged

LEMMA LayoutStays == LayoutInv /\ Layout => LayoutInv'
<1> SUFFICES ASSUME LayoutInv, Layout PROVE LayoutInv'
  OBVIOUS
<1>1. CASE stack # <<>> \/ LaidOut.end > Capacity
  BY <1>1, RefusedStays DEF Layout
<1>2. CASE ~(stack # <<>> \/ LaidOut.end > Capacity)
  <2>1. /\ step = "read" /\ step' = "relocate" /\ sections' = LaidOut.all
        /\ UNCHANGED <<fragments, cursor, area, relocations, content>>
    BY <1>2 DEF Layout
  <2>2. Staged(sections, fragments, cursor, area, content) /\ Listed(area, relocations, cursor)
    BY <2>1, ReadIs DEF ReadInv
  <2>3. Named(sections, content)
    BY <2>2 DEF Staged
  <2>4. PICK N \in Nat : N = Len(sections) /\ DOMAIN sections = 1 .. N
    BY <2>3, RecordsAre
  <2>5. LaidInv(LaidOut, N)
    BY <2>3, <2>4, LaidOutIs
  <2>6. PICK all \in Seq(Records), end \in Nat : LaidOut.all = all /\ LaidOut.end = end
    BY <2>5 DEF LaidInv
  <2>7. Len(all) = N /\ DOMAIN all = 1 .. N /\ end <= Capacity
    <3>1. Len(all) = N
      BY <2>5, <2>6 DEF LaidInv
    <3>2. end <= Capacity
      BY <1>2, <2>6, CapacityIs
    <3> QED BY <3>1, <3>2, LenProperties
  <2>8. \A i \in 1 .. N :
          /\ all[i].name = sections[i].name /\ all[i].position = sections[i].position
          /\ IsData(sections[i]) =>
               /\ all[i].base % all[i].alignment = 0 /\ all[i].base >= First
               /\ all[i].base + all[i].position <= end
    BY <2>5, <2>6 DEF LaidInv
  <2>9. \A i, j \in 1 .. N : IsData(sections[i]) /\ IsData(sections[j]) /\ i < j =>
          all[i].base + all[i].position <= all[j].base
    BY <2>5, <2>6 DEF LaidInv
  <2>10. Staged(all, fragments, cursor, area, content)
    <3>1. DOMAIN all = DOMAIN sections
      BY <2>4, <2>7
    <3>2. \A j \in DOMAIN sections : all[j].name = sections[j].name /\ all[j].position = sections[j].position
      BY <2>4, <2>8
    <3> QED BY <2>2, <3>1, <3>2, SameSections
  <2>11. Named(all, content)
    BY <2>10 DEF Staged
  <2>12. Based(all)
    <3>1. \A i \in 1 .. N : IsData(all[i]) <=> IsData(sections[i])
      BY <2>8 DEF IsData
    <3>2. \A i \in 1 .. N : all[i].base \in Nat /\ all[i].position \in Nat
      BY <2>7, <2>11, RecordsAre
    <3>3. ASSUME NEW i \in 1 .. N, IsData(all[i])
          PROVE  /\ all[i].base % all[i].alignment = 0 /\ all[i].base >= First
                 /\ all[i].base + all[i].position <= Capacity
      <4>1. PICK b, p \in Nat : b = all[i].base /\ p = all[i].position
        BY <3>2
      <4>2. b + p <= end
        BY <2>8, <3>1, <3>3, <4>1
      <4>3. b + p <= Capacity
        BY <2>7, <4>2, CapacityIs
      <4> QED BY <2>8, <3>1, <3>3, <4>1, <4>3
    <3> QED BY <2>7, <2>9, <3>1, <3>3 DEF Based
  <2>13. DataPlaced'
    BY <2>1 DEF DataPlaced
  <2> QED BY <2>1, <2>2, <2>6, <2>10, <2>12, <2>13 DEF LayoutInv
<1> QED BY <1>1, <1>2

(* The pointers written one after the other, up to relocation n.           *)
WrittenTo(g, n) ==
  g = [k \in 0 .. n |-> IF k = 0 THEN area
                       ELSE [g[k - 1] EXCEPT ![relocations[k].at + 0] =
                 Cell(labels[relocations[k].label].address)]]

LEMMA WrittenExists == \A n \in Nat : \E g : WrittenTo(g, n)
<1> DEFINE Z == area
           S(f, r) == [f EXCEPT ![relocations[r].at + 0] =
                 Cell(labels[relocations[r].label].address)]
           F == {n \in Nat : \E g : WrittenTo(g, n)}
<1>0. \A g, n : WrittenTo(g, n) <=> g = [r \in 0 .. n |-> IF r = 0 THEN Z ELSE S(g[r - 1], r)]
  BY DEF WrittenTo
<1> HIDE DEF Z, S
<1>1. 0 \in F
  <2>1. PICK g : g = [r \in 0 .. 0 |-> Z]
    OBVIOUS
  <2>2. g = [r \in 0 .. 0 |-> IF r = 0 THEN Z ELSE S(g[r - 1], r)]
    BY <2>1
  <2>3. WrittenTo(g, 0)
    BY <1>0, <2>2, Zenon
  <2> QED BY <2>3
<1>2. \A n \in Nat : n \in F => n + 1 \in F
  <2> SUFFICES ASSUME NEW n \in Nat, n \in F PROVE n + 1 \in F
    OBVIOUS
  <2>1. PICK g : WrittenTo(g, n)
    OBVIOUS
  <2> DEFINE h == [r \in 0 .. n + 1 |-> IF r = 0 THEN Z ELSE S(g[r - 1], r)]
  <2>2. g = [r \in 0 .. n |-> IF r = 0 THEN Z ELSE S(g[r - 1], r)]
    BY <1>0, <2>1, Zenon
  <2>3. \A r \in 0 .. n : g[r] = IF r = 0 THEN Z ELSE S(g[r - 1], r)
    BY <2>2, Zenon
  <2>4. \A r \in 0 .. n : h[r] = g[r]
    <3> SUFFICES ASSUME NEW r \in 0 .. n PROVE h[r] = g[r]
      OBVIOUS
    <3>1. r \in 0 .. n + 1
      OBVIOUS
    <3>2. h[r] = IF r = 0 THEN Z ELSE S(g[r - 1], r)
      BY <3>1, Zenon
    <3> QED BY <2>3, <3>2, Zenon
  <2>5. \A r \in 0 .. n + 1 : h[r] = IF r = 0 THEN Z ELSE S(h[r - 1], r)
    <3> SUFFICES ASSUME NEW r \in 0 .. n + 1, r # 0 PROVE h[r] = S(h[r - 1], r)
      BY Zenon
    <3>1. r - 1 \in 0 .. n
      OBVIOUS
    <3>2. h[r] = S(g[r - 1], r)
      BY Zenon
    <3>3. h[r - 1] = g[r - 1]
      BY <2>4, <3>1
    <3> QED BY <3>2, <3>3, Zenon
  <2>6. h = [r \in 0 .. n + 1 |-> h[r]]
    BY Zenon
  <2> HIDE DEF h
  <2>7. h = [r \in 0 .. n + 1 |-> IF r = 0 THEN Z ELSE S(h[r - 1], r)]
    BY <2>5, <2>6, Zenon
  <2>8. WrittenTo(h, n + 1)
    BY <1>0, <2>7, Zenon
  <2> QED BY <2>8
<1> HIDE DEF F
<1>3. Nat \subseteq F
  BY <1>1, <1>2, Induction
<1> QED BY <1>3 DEF F

-----------------------------------------------------------------------------
(* Every pointer is written once or several times, with the same address.  *)
LEMMA FinalIs ==
  /\ \A c : ~IsPointer(c) => Final(c) = c
  /\ \A l \in Labels : Final(Pointer(l)) = Cell(labels[l].address)
BY CellsAre DEF Final, IsPointer

LEMMA RelocatedIs ==
  ASSUME Listed(area, relocations, cursor), DOMAIN area = 0 .. 2 * Capacity - 1,
         cursor \in First .. Capacity
  PROVE  /\ DOMAIN Relocated = 0 .. 2 * Capacity - 1
         /\ \A a \in 0 .. 2 * Capacity - 1 : Relocated[a] = Final(area[a])
<1> DEFINE N == Len(relocations)
           D == 0 .. 2 * Capacity - 1
           g == CHOOSE g : g = [k \in 0 .. N |-> IF k = 0 THEN area
                                ELSE [g[k - 1] EXCEPT ![relocations[k].at + 0] =
                                        Cell(labels[relocations[k].label].address)]]
<1>1. N \in Nat /\ DOMAIN relocations = 1 .. N
      /\ \A k \in 1 .. N : relocations[k].label \in Labels /\ relocations[k].at \in Nat
  <2>1. N \in Nat /\ DOMAIN relocations = 1 .. N /\ \A k \in 1 .. N : relocations[k] \in Later
    BY LenProperties DEF Listed
  <2> QED BY <2>1 DEF Later
<1>2. \A k \in 1 .. N : /\ relocations[k].at \in D
                        /\ area[relocations[k].at] = Pointer(relocations[k].label)
  <2> SUFFICES ASSUME NEW k \in 1 .. N
               PROVE  /\ relocations[k].at \in D
                      /\ area[relocations[k].at] = Pointer(relocations[k].label)
    OBVIOUS
  <2>1. PICK a \in First .. cursor - 1 : a = relocations[k].at
    BY <1>1 DEF Listed
  <2>2. a \in D
    BY CapacityIs
  <2> QED BY <1>1, <2>1, <2>2 DEF Listed
<1>3. \E h : WrittenTo(h, N)
  BY <1>1, WrittenExists
<1>4. WrittenTo(g, N)
  BY <1>3 DEF WrittenTo
<1>5. Relocated = g[N]
  BY DEF Relocated, RelocatedBy
<1> HIDE DEF g, N
<1>6. \A k \in 0 .. N : g[k] = IF k = 0 THEN area
                               ELSE [g[k - 1] EXCEPT ![relocations[k].at + 0] =
                                       Cell(labels[relocations[k].label].address)]
  BY <1>4, Zenon DEF WrittenTo
<1> HIDE DEF D
<1> DEFINE Right(f, k) ==
             /\ DOMAIN f = D
             /\ \A a \in D : f[a] = IF \E x \in 1 .. k : relocations[x].at = a
                                    THEN Final(area[a]) ELSE area[a]
           F == {k \in Nat : k <= N => Right(g[k], k)}
<1>7. 0 \in F
  <2>1. g[0] = area
    <3>1. 0 \in 0 .. N
      BY <1>1
    <3> QED BY <1>6, <3>1, Zenon
  <2>2. Right(area, 0)
    BY DEF D
  <2> QED BY <2>1, <2>2
<1>8. \A k \in Nat : k \in F => k + 1 \in F
  <2> SUFFICES ASSUME NEW k \in Nat, k \in F, k + 1 <= N PROVE Right(g[k + 1], k + 1)
    OBVIOUS
  <2>1. k <= N /\ k + 1 \in 0 .. N /\ k + 1 # 0 /\ (k + 1) - 1 = k /\ k + 1 \in 1 .. N
    BY <1>1
  <2>2. PICK f : f = g[k]
    OBVIOUS
  <2>3. Right(f, k)
    BY <2>1, <2>2
  <2>4. PICK a \in D : a = relocations[k + 1].at
    BY <1>2, <2>1
  <2>5. PICK l \in Labels : l = relocations[k + 1].label
    BY <1>1, <2>1
  <2>6. a + 0 = a
    BY DEF D
  <2>7. g[k + 1] = [f EXCEPT ![a] = Cell(labels[l].address)]
    <3>1. g[k + 1] = [g[k] EXCEPT ![relocations[k + 1].at + 0] =
                                       Cell(labels[relocations[k + 1].label].address)]
      BY <1>6, <2>1
    <3> QED BY <2>2, <2>4, <2>5, <2>6, <3>1
  <2>8. Final(area[a]) = Cell(labels[l].address)
    <3>1. area[a] = Pointer(l)
      BY <1>2, <2>1, <2>4, <2>5
    <3> QED BY <3>1, FinalIs
  <2>9. PICK e : e = [f EXCEPT ![a] = Final(area[a])]
    OBVIOUS
  <2>10. DOMAIN e = D /\ \A b \in D : e[b] = IF b = a THEN Final(area[a]) ELSE f[b]
    BY <2>3, <2>9
  <2>11. \A b \in D : (\E x \in 1 .. k + 1 : relocations[x].at = b)
                        <=> b = a \/ \E x \in 1 .. k : relocations[x].at = b
    <3>1. \A x : x \in 1 .. k + 1 <=> x \in 1 .. k \/ x = k + 1
      OBVIOUS
    <3> QED BY <2>4, <3>1
  <2>12. Right(e, k + 1)
    BY <2>3, <2>10, <2>11
  <2> QED BY <2>7, <2>8, <2>9, <2>12
<1> HIDE DEF F
<1>9. Nat \subseteq F
  BY <1>7, <1>8, Induction
<1>10. Right(g[N], N)
  <2>1. N \in F /\ N <= N
    BY <1>1, <1>9
  <2> QED BY <2>1 DEF F
<1>11. ASSUME NEW a \in D PROVE g[N][a] = Final(area[a])
  <2>1. CASE IsPointer(area[a])
    <3>1. \E x \in 1 .. N : relocations[x].at = a
      BY <1>1, <2>1 DEF Listed, D
    <3> QED BY <1>10, <3>1
  <2>2. CASE ~IsPointer(area[a])
    BY <1>10, <2>2, FinalIs
  <2> QED BY <2>1, <2>2
<1>12. DOMAIN g[N] = D
  BY <1>10
<1> QED BY <1>5, <1>11, <1>12 DEF D

LEMMA RelocateStays == LayoutInv /\ Relocate => LayoutInv'
<1> SUFFICES ASSUME LayoutInv, Relocate PROVE LayoutInv'
  OBVIOUS
<1>1. CASE \E k \in DOMAIN relocations : labels[relocations[k].label] = Nowhere
  BY <1>1, RefusedStays DEF Relocate
<1>2. CASE ~(\E k \in DOMAIN relocations : labels[relocations[k].label] = Nowhere)
  <2>1. /\ step = "relocate" /\ step' = "pack" /\ area' = Relocated
        /\ UNCHANGED <<sections, fragments, cursor, labels, content>>
    BY <1>2 DEF Relocate
  <2>2. /\ Staged(sections, fragments, cursor, area, content)
        /\ Listed(area, relocations, cursor) /\ Based(sections)
    BY <2>1 DEF LayoutInv
  <2>3. /\ Named(sections, content) /\ Spans(sections, fragments, cursor)
        /\ Covers(sections, fragments) /\ Carries(sections, fragments, content, area)
        /\ cursor \in First .. Capacity /\ DOMAIN area = 0 .. 2 * Capacity - 1
    BY <2>2 DEF Staged
  <2>4. PICK a2 : a2 = Relocated
    OBVIOUS
  <2>5. DOMAIN a2 = 0 .. 2 * Capacity - 1 /\ \A a \in 0 .. 2 * Capacity - 1 : a2[a] = Final(area[a])
    BY <2>2, <2>3, <2>4, RelocatedIs
  <2>6. ASSUME NEW x \in DOMAIN fragments, NEW k \in 0 .. fragments[x].count - 1
        PROVE  a2[fragments[x].staging + k] =
                 Final(content[sections[fragments[x].section].name][fragments[x].offset + k + 1])
    <3>1. fragments[x] \in Pieces
      BY <2>3, LenProperties DEF Spans
    <3>2. PICK s, c \in Nat : s = fragments[x].staging /\ c = fragments[x].count
      BY <3>1 DEF Pieces
    <3>3. s + c <= cursor
      BY <2>3, <3>2 DEF Spans
    <3>4. k \in 0 .. c - 1
      BY <3>2
    <3>5. s + k \in 0 .. 2 * Capacity - 1
      BY <2>3, <3>3, <3>4, CapacityIs
    <3>6. area[s + k] = content[sections[fragments[x].section].name][fragments[x].offset + k + 1]
      BY <2>3, <3>2 DEF Carries
    <3> QED BY <2>5, <3>2, <3>5, <3>6
  <2>7. Resolved'
    <3>1. area' = a2 /\ fragments' = fragments /\ content' = content /\ sections' = sections
          /\ labels' = labels
      BY <2>1, <2>4
    <3>2. \A c : Final(c)' = Final(c)
      BY <3>1 DEF Final
    <3> QED BY <2>5, <2>6, <3>1, <3>2 DEF Resolved
  <2>8. DataPlaced'
    BY <2>1 DEF DataPlaced
  <2> QED BY <2>1, <2>2, <2>3, <2>7, <2>8 DEF LayoutInv
<1> QED BY <1>1, <1>2

(* The fragments moved one after the other, up to fragment n.              *)
MovedTo(g, n) ==
  g = [k \in 0 .. n |-> IF k = 0 THEN [a \in DOMAIN area |-> IF a < Capacity THEN area[a] ELSE Zero]
                       ELSE Moved(g[k - 1], fragments[k])]

LEMMA MovedExists == \A n \in Nat : \E g : MovedTo(g, n)
<1> DEFINE Z == [a \in DOMAIN area |-> IF a < Capacity THEN area[a] ELSE Zero]
           S(f, r) == Moved(f, fragments[r])
           F == {n \in Nat : \E g : MovedTo(g, n)}
<1>0. \A g, n : MovedTo(g, n) <=> g = [r \in 0 .. n |-> IF r = 0 THEN Z ELSE S(g[r - 1], r)]
  BY DEF MovedTo
<1> HIDE DEF Z, S
<1>1. 0 \in F
  <2>1. PICK g : g = [r \in 0 .. 0 |-> Z]
    OBVIOUS
  <2>2. g = [r \in 0 .. 0 |-> IF r = 0 THEN Z ELSE S(g[r - 1], r)]
    BY <2>1
  <2>3. MovedTo(g, 0)
    BY <1>0, <2>2, Zenon
  <2> QED BY <2>3
<1>2. \A n \in Nat : n \in F => n + 1 \in F
  <2> SUFFICES ASSUME NEW n \in Nat, n \in F PROVE n + 1 \in F
    OBVIOUS
  <2>1. PICK g : MovedTo(g, n)
    OBVIOUS
  <2> DEFINE h == [r \in 0 .. n + 1 |-> IF r = 0 THEN Z ELSE S(g[r - 1], r)]
  <2>2. g = [r \in 0 .. n |-> IF r = 0 THEN Z ELSE S(g[r - 1], r)]
    BY <1>0, <2>1, Zenon
  <2>3. \A r \in 0 .. n : g[r] = IF r = 0 THEN Z ELSE S(g[r - 1], r)
    BY <2>2, Zenon
  <2>4. \A r \in 0 .. n : h[r] = g[r]
    <3> SUFFICES ASSUME NEW r \in 0 .. n PROVE h[r] = g[r]
      OBVIOUS
    <3>1. r \in 0 .. n + 1
      OBVIOUS
    <3>2. h[r] = IF r = 0 THEN Z ELSE S(g[r - 1], r)
      BY <3>1, Zenon
    <3> QED BY <2>3, <3>2, Zenon
  <2>5. \A r \in 0 .. n + 1 : h[r] = IF r = 0 THEN Z ELSE S(h[r - 1], r)
    <3> SUFFICES ASSUME NEW r \in 0 .. n + 1, r # 0 PROVE h[r] = S(h[r - 1], r)
      BY Zenon
    <3>1. r - 1 \in 0 .. n
      OBVIOUS
    <3>2. h[r] = S(g[r - 1], r)
      BY Zenon
    <3>3. h[r - 1] = g[r - 1]
      BY <2>4, <3>1
    <3> QED BY <3>2, <3>3, Zenon
  <2>6. h = [r \in 0 .. n + 1 |-> h[r]]
    BY Zenon
  <2> HIDE DEF h
  <2>7. h = [r \in 0 .. n + 1 |-> IF r = 0 THEN Z ELSE S(h[r - 1], r)]
    BY <2>5, <2>6, Zenon
  <2>8. MovedTo(h, n + 1)
    BY <1>0, <2>7, Zenon
  <2> QED BY <2>8
<1> HIDE DEF F
<1>3. Nat \subseteq F
  BY <1>1, <1>2, Induction
<1> QED BY <1>3 DEF F

-----------------------------------------------------------------------------
(* The fragments are moved into the other half, each to the place that its *)
(* section has there; what two of them say of the same cell is the same.   *)
Value(x, k) == Final(content[sections[fragments[x].section].name][fragments[x].offset + k + 1])
Goal(x, k) == Capacity + sections[fragments[x].section].base + fragments[x].offset + k

LEMMA FragmentIs ==
  ASSUME Named(sections, content), Spans(sections, fragments, cursor), Based(sections),
         cursor \in First .. Capacity, NEW x \in DOMAIN fragments
  PROVE  \E s \in Nat, o \in Nat, c \in Nat, i \in DOMAIN sections, b \in Nat, p \in Nat :
           /\ fragments[x].staging = s /\ fragments[x].offset = o /\ fragments[x].count = c
           /\ fragments[x].section = i /\ sections[i].base = b /\ sections[i].position = p
           /\ IsData(sections[i]) /\ o + c <= p /\ s + c <= Capacity /\ b + p <= Capacity
<1>1. fragments[x] \in Pieces
  BY LenProperties DEF Spans
<1>2. PICK s, o, c \in Nat :
        fragments[x].staging = s /\ fragments[x].offset = o /\ fragments[x].count = c
  BY <1>1 DEF Pieces
<1>3. PICK i \in DOMAIN sections : fragments[x].section = i /\ IsData(sections[i])
  BY DEF Spans
<1>4. PICK b, p \in Nat : sections[i].base = b /\ sections[i].position = p
  BY RecordsAre
<1>5. o + c <= p /\ s + c <= cursor
  BY <1>2, <1>3, <1>4 DEF Spans
<1>6. s + c <= Capacity
  BY <1>5, CapacityIs
<1>7. b + p <= Capacity
  BY <1>3, <1>4 DEF Based
<1> QED BY <1>2, <1>3, <1>4, <1>5, <1>6, <1>7

(* Two fragments that meet are of one section.                             *)
LEMMA Meet ==
  ASSUME Named(sections, content), Spans(sections, fragments, cursor), Based(sections),
         cursor \in First .. Capacity, NEW x \in DOMAIN fragments, NEW y \in DOMAIN fragments,
         NEW h \in 0 .. fragments[x].count - 1, NEW k \in 0 .. fragments[y].count - 1,
         Goal(x, h) = Goal(y, k)
  PROVE  Value(x, h) = Value(y, k)
<1>1. PICK s \in Nat, o \in Nat, c \in Nat, i \in DOMAIN sections, b \in Nat, p \in Nat :
           /\ fragments[x].staging = s /\ fragments[x].offset = o /\ fragments[x].count = c
           /\ fragments[x].section = i /\ sections[i].base = b /\ sections[i].position = p
           /\ IsData(sections[i]) /\ o + c <= p /\ s + c <= Capacity /\ b + p <= Capacity
  BY FragmentIs
<1>2. PICK s2 \in Nat, o2 \in Nat, c2 \in Nat, i2 \in DOMAIN sections, b2 \in Nat, p2 \in Nat :
           /\ fragments[y].staging = s2 /\ fragments[y].offset = o2 /\ fragments[y].count = c2
           /\ fragments[y].section = i2 /\ sections[i2].base = b2 /\ sections[i2].position = p2
           /\ IsData(sections[i2]) /\ o2 + c2 <= p2 /\ s2 + c2 <= Capacity /\ b2 + p2 <= Capacity
  BY FragmentIs
<1>3. h \in 0 .. c - 1 /\ k \in 0 .. c2 - 1
  BY <1>1, <1>2
<1>4. b + o + h = b2 + o2 + k
  <2>1. Goal(x, h) = Capacity + b + o + h /\ Goal(y, k) = Capacity + b2 + o2 + k
    BY <1>1, <1>2, Zenon DEF Goal
  <2>2. Capacity + b + o + h = Capacity + b2 + o2 + k
    BY <2>1
  <2>3. h \in Int /\ k \in Int
    BY <1>3
  <2>4. PICK C \in Nat : C = Capacity
    BY CapacityIs
  <2>5. C + b + o + h = C + b2 + o2 + k
    BY <2>2, <2>4
  <2>6. PICK l, r \in Int : l = b + o + h /\ r = b2 + o2 + k
    BY <2>3
  <2>7. C + b + o + h = C + l /\ C + b2 + o2 + k = C + r
    BY <2>3, <2>6
  <2>8. C + l = C + r
    BY <2>5, <2>7
  <2>9. l = r
    BY ONLY <2>8, C \in Nat, l \in Int, r \in Int
  <2> QED BY <2>6, <2>9
<1>5. i = i2
  <2>1. i \in Int /\ i2 \in Int
    BY RecordsAre
  <2>2. ~(i < i2)
    <3>1. i < i2 => b + p <= b2
      BY <1>1, <1>2 DEF Based
    <3> QED BY <1>1, <1>3, <1>4, <3>1
  <2>3. ~(i2 < i)
    <3>1. i2 < i => b2 + p2 <= b
      BY <1>1, <1>2 DEF Based
    <3> QED BY <1>2, <1>3, <1>4, <3>1
  <2> QED BY <2>1, <2>2, <2>3
<1>6. o + h + 1 = o2 + k + 1
  <2>1. b = b2
    BY <1>1, <1>2, <1>5
  <2>2. h \in Int /\ k \in Int
    BY <1>3
  <2> QED BY ONLY <1>4, <2>1, <2>2, b \in Nat, o \in Nat, b2 \in Nat, o2 \in Nat
<1> QED BY <1>1, <1>2, <1>5, <1>6 DEF Value

Moving(f, k) ==
  /\ DOMAIN f = 0 .. 2 * Capacity - 1
  /\ \A a \in 0 .. Capacity - 1 : f[a] = area[a]
  /\ \A x \in 1 .. k : \A h \in 0 .. fragments[x].count - 1 : f[Goal(x, h)] = Value(x, h)

LEMMA MovedStep ==
  ASSUME Named(sections, content), Spans(sections, fragments, cursor), Based(sections),
         cursor \in First .. Capacity, Resolved, NEW k \in Nat, k + 1 \in DOMAIN fragments,
         NEW f, Moving(f, k)
  PROVE  Moving(Moved(f, fragments[k + 1]), k + 1)
<1>1. PICK y \in DOMAIN fragments : y = k + 1
  OBVIOUS
<1>2. PICK s \in Nat, o \in Nat, c \in Nat, i \in DOMAIN sections, b \in Nat, p \in Nat :
           /\ fragments[y].staging = s /\ fragments[y].offset = o /\ fragments[y].count = c
           /\ fragments[y].section = i /\ sections[i].base = b /\ sections[i].position = p
           /\ IsData(sections[i]) /\ o + c <= p /\ s + c <= Capacity /\ b + p <= Capacity
  BY FragmentIs
<1>3. PICK to \in Nat : to = Capacity + b + o
  BY CapacityIs
<1>4. PICK e : e = [a \in DOMAIN f |-> IF a \in to .. to + c - 1 THEN f[s + (a - to)] ELSE f[a]]
  OBVIOUS
<1>5. Moved(f, fragments[y]) = e
  BY <1>2, <1>3, <1>4, Zenon DEF Moved
<1>6. DOMAIN f = 0 .. 2 * Capacity - 1 /\ \A a \in 0 .. Capacity - 1 : f[a] = area[a]
  BY DEF Moving
<1>7. /\ DOMAIN e = 0 .. 2 * Capacity - 1
      /\ \A a \in 0 .. 2 * Capacity - 1 :
           e[a] = IF a \in to .. to + c - 1 THEN f[s + (a - to)] ELSE f[a]
  BY <1>4, <1>6
<1>8. \A a \in 0 .. Capacity - 1 : e[a] = area[a]
  <2> SUFFICES ASSUME NEW a \in 0 .. Capacity - 1 PROVE e[a] = area[a]
    OBVIOUS
  <2>1. a \in 0 .. 2 * Capacity - 1 /\ a \notin to .. to + c - 1
    BY <1>3, CapacityIs
  <2> QED BY <1>6, <1>7, <2>1
<1>9. ASSUME NEW h \in 0 .. c - 1 PROVE Goal(y, h) = to + h /\ e[to + h] = Value(y, h)
  <2>1. Goal(y, h) = to + h
    BY <1>2, <1>3 DEF Goal
  <2>2. to + h \in 0 .. 2 * Capacity - 1 /\ to + h \in to .. to + c - 1 /\ s + ((to + h) - to) = s + h
    BY <1>2, <1>3, CapacityIs
  <2>3. e[to + h] = f[s + h]
    BY <1>7, <2>2
  <2>4. s + h \in 0 .. Capacity - 1
    BY <1>2, CapacityIs
  <2>5. area[s + h] = Value(y, h)
    <3>1. h \in 0 .. fragments[y].count - 1
      BY <1>2
    <3>2. area[fragments[y].staging + h] = Value(y, h)
      BY <3>1 DEF Resolved, Value
    <3> QED BY <1>2, <3>2
  <2> QED BY <1>6, <2>1, <2>3, <2>4, <2>5
<1>10. ASSUME NEW x \in 1 .. k + 1, NEW h \in 0 .. fragments[x].count - 1
       PROVE  e[Goal(x, h)] = Value(x, h)
  <2>1. CASE x = k + 1
    <3>1. h \in 0 .. c - 1 /\ x = y
      BY <1>1, <1>2, <2>1
    <3> QED BY <1>9, <3>1
  <2>2. CASE x # k + 1
    <3>1. x \in 1 .. k
      BY <2>2
    <3>2. x \in DOMAIN fragments
      <4>1. DOMAIN fragments = 1 .. Len(fragments) /\ Len(fragments) \in Nat
        BY LenProperties DEF Spans
      <4> QED BY <3>1, <4>1
    <3>3. f[Goal(x, h)] = Value(x, h)
      BY <3>1 DEF Moving
    <3>4. PICK a : a = Goal(x, h)
      OBVIOUS
    <3>5. CASE a \in to .. to + c - 1
      <4>1. a - to \in 0 .. c - 1 /\ to + (a - to) = a
        BY <3>5
      <4>2. PICK q \in 0 .. c - 1 : a = to + q
        BY <4>1
      <4>3. Goal(y, q) = a /\ e[a] = Value(y, q)
        BY <1>9, <4>2
      <4>4. q \in 0 .. fragments[y].count - 1
        BY <1>2
      <4>5. Value(x, h) = Value(y, q)
        BY <3>2, <3>4, <4>3, <4>4, Meet
      <4> QED BY <3>4, <4>3, <4>5
    <3>6. CASE a \notin to .. to + c - 1
      <4>1. a \in 0 .. 2 * Capacity - 1
        <5>1. PICK s2 \in Nat, o2 \in Nat, c2 \in Nat, i2 \in DOMAIN sections, b2 \in Nat, p2 \in Nat :
           /\ fragments[x].staging = s2 /\ fragments[x].offset = o2 /\ fragments[x].count = c2
           /\ fragments[x].section = i2 /\ sections[i2].base = b2 /\ sections[i2].position = p2
           /\ IsData(sections[i2]) /\ o2 + c2 <= p2 /\ s2 + c2 <= Capacity /\ b2 + p2 <= Capacity
          BY <3>2, FragmentIs
        <5>2. a = Capacity + b2 + o2 + h
          BY <3>4, <5>1, Zenon DEF Goal
        <5>3. h \in 0 .. c2 - 1
          BY <5>1
        <5> QED BY <5>1, <5>2, <5>3, CapacityIs
      <4>2. e[a] = f[a]
        BY <1>7, <3>6, <4>1
      <4> QED BY <3>3, <3>4, <4>2
    <3> QED BY <3>5, <3>6
  <2> QED BY <2>1, <2>2
<1>11. Moving(e, k + 1)
  BY <1>7, <1>8, <1>10 DEF Moving
<1> QED BY <1>1, <1>5, <1>11

LEMMA PackedIs ==
  ASSUME Named(sections, content), Spans(sections, fragments, cursor), Based(sections),
         cursor \in First .. Capacity, Resolved
  PROVE  /\ DOMAIN Packed = 0 .. 2 * Capacity - 1
         /\ \A x \in DOMAIN fragments : \A h \in 0 .. fragments[x].count - 1 :
              Packed[Goal(x, h)] = Value(x, h)
<1> DEFINE N == Len(fragments)
           g == CHOOSE g : g = [k \in 0 .. N |->
                                 IF k = 0 THEN [a \in DOMAIN area |-> IF a < Capacity THEN area[a] ELSE Zero]
                                 ELSE Moved(g[k - 1], fragments[k])]
           start == [a \in DOMAIN area |-> IF a < Capacity THEN area[a] ELSE Zero]
<1>1. N \in Nat /\ DOMAIN fragments = 1 .. N
  BY LenProperties DEF Spans
<1>2. \E h : MovedTo(h, N)
  BY <1>1, MovedExists
<1>3. MovedTo(g, N)
  BY <1>2 DEF MovedTo
<1>4. Packed = g[N]
  BY DEF Packed
<1> HIDE DEF g, N
<1>5. \A k \in 0 .. N : g[k] = IF k = 0 THEN start ELSE Moved(g[k - 1], fragments[k])
  BY <1>3, Zenon DEF MovedTo
<1>6. Moving(start, 0)
  <2>1. DOMAIN area = 0 .. 2 * Capacity - 1
    BY DEF Resolved
  <2>2. \A a \in 0 .. Capacity - 1 : a \in 0 .. 2 * Capacity - 1 /\ a < Capacity
    BY CapacityIs
  <2>3. DOMAIN start = 0 .. 2 * Capacity - 1 /\ \A a \in 0 .. Capacity - 1 : start[a] = area[a]
    BY <2>1, <2>2
  <2> QED BY <2>3 DEF Moving
<1> HIDE DEF start
<1> DEFINE F == {k \in Nat : k <= N => Moving(g[k], k)}
<1>7. 0 \in F
  <2>1. 0 \in 0 .. N
    BY <1>1
  <2>2. g[0] = start
    BY <1>5, <2>1, Zenon
  <2> QED BY <1>6, <2>2
<1>8. \A k \in Nat : k \in F => k + 1 \in F
  <2> SUFFICES ASSUME NEW k \in Nat, k \in F, k + 1 <= N PROVE Moving(g[k + 1], k + 1)
    OBVIOUS
  <2>1. k <= N /\ k + 1 \in 0 .. N /\ k + 1 # 0 /\ (k + 1) - 1 = k /\ k + 1 \in DOMAIN fragments
    BY <1>1
  <2>2. Moving(g[k], k)
    BY <2>1
  <2>3. g[k + 1] = Moved(g[k], fragments[k + 1])
    BY <1>5, <2>1
  <2> QED BY <2>1, <2>2, <2>3, MovedStep
<1> HIDE DEF F
<1>9. Nat \subseteq F
  BY <1>7, <1>8, Induction
<1>10. N \in F /\ N <= N
  BY <1>1, <1>9
<1>11. Moving(g[N], N)
  BY <1>10 DEF F
<1> QED BY <1>1, <1>4, <1>11 DEF Moving

LEMMA PackStays == LayoutInv /\ Pack => LayoutInv'
<1> SUFFICES ASSUME LayoutInv, Pack PROVE LayoutInv'
  OBVIOUS
<1>1. /\ step = "pack" /\ step' = "done"
      /\ area' = [a \in DOMAIN area |-> IF a < Capacity THEN Packed[Capacity + a] ELSE Zero]
      /\ sections' = sections /\ fragments' = fragments /\ labels' = labels /\ content' = content
  BY DEF Pack
<1>2. /\ Named(sections, content) /\ Spans(sections, fragments, cursor)
      /\ Covers(sections, fragments) /\ cursor \in First .. Capacity
      /\ Resolved /\ Based(sections)
  BY <1>1 DEF LayoutInv
<1>3. DOMAIN area = 0 .. 2 * Capacity - 1
  BY <1>2 DEF Resolved
<1>4. \A x \in DOMAIN fragments : \A h \in 0 .. fragments[x].count - 1 :
        Packed[Goal(x, h)] = Value(x, h)
  BY <1>2, PackedIs
<1>5. PICK a2 : a2 = area'
  OBVIOUS
<1>6. \A a \in 0 .. 2 * Capacity - 1 : a2[a] = IF a < Capacity THEN Packed[Capacity + a] ELSE Zero
  BY <1>1, <1>3, <1>5
<1>7. \A i \in DOMAIN sections : /\ sections[i].base \in Nat /\ sections[i].position \in Nat
                                 /\ i \in Nat
  BY <1>2, RecordsAre
<1>8. ASSUME NEW i \in DOMAIN sections, IsData(sections[i]), NEW k \in 1 .. sections[i].position
      PROVE  a2[sections[i].base + k - 1] = Final(content[sections[i].name][k])
  <2>1. PICK b, p \in Nat : b = sections[i].base /\ p = sections[i].position
    BY <1>7
  <2>2. k - 1 \in 0 .. p - 1 /\ k \in 1 .. p
    BY <2>1
  <2>3. b + p <= Capacity
    BY <1>2, <1>8, <2>1 DEF Based
  <2>4. PICK x \in DOMAIN fragments : /\ fragments[x].section = i
                                      /\ fragments[x].offset <= k - 1
                                      /\ k - 1 < fragments[x].offset + fragments[x].count
    BY <1>2, <1>8, <2>1, <2>2 DEF Covers
  <2>5. fragments[x] \in Pieces
    BY <1>2, LenProperties DEF Spans
  <2>6. PICK o, c \in Nat : o = fragments[x].offset /\ c = fragments[x].count
    BY <2>5 DEF Pieces
  <2>7. k - 1 - o \in 0 .. c - 1 /\ o + (k - 1 - o) + 1 = k
    BY <2>2, <2>4, <2>6
  <2>8. PICK h \in 0 .. c - 1 : h = k - 1 - o
    BY <2>7
  <2>9. o + h + 1 = k /\ h \in 0 .. fragments[x].count - 1
    BY <2>6, <2>7, <2>8
  <2>10. Value(x, h) = Final(content[sections[i].name][k])
    BY <2>4, <2>6, <2>9 DEF Value
  <2>11. Goal(x, h) = Capacity + (b + k - 1)
    <3>1. Goal(x, h) = Capacity + b + o + h
      BY <2>1, <2>4, <2>6, Zenon DEF Goal
    <3>2. Capacity + b + o + h = Capacity + (b + k - 1)
      BY <2>2, <2>8, CapacityIs
    <3> QED BY <3>1, <3>2
  <2>12. Packed[Capacity + (b + k - 1)] = Final(content[sections[i].name][k])
    BY <1>4, <2>9, <2>10, <2>11
  <2>13. b + k - 1 \in 0 .. 2 * Capacity - 1 /\ b + k - 1 < Capacity
    BY <2>2, <2>3, CapacityIs
  <2> QED BY <1>6, <2>1, <2>12, <2>13
<1>9. \A a \in Capacity .. 2 * Capacity - 1 : a2[a] = Zero
  <2>1. \A a \in Capacity .. 2 * Capacity - 1 : a \in 0 .. 2 * Capacity - 1 /\ ~(a < Capacity)
    BY CapacityIs
  <2> QED BY <1>6, <2>1
<1>10. DataPlaced'
  <2>1. \A c : Final(c)' = Final(c)
    BY <1>1 DEF Final
  <2>2. \A i : OfData(i)' <=> IsData(sections[i])
    BY <1>1 DEF OfData, KindOf, IsData
  <2>3. DataSections' = {i \in DOMAIN sections : IsData(sections[i])}
    BY <1>1, <2>2 DEF DataSections
  <2>4. \A i, j \in DOMAIN sections : IsData(sections[i]) /\ IsData(sections[j]) /\ i < j =>
          sections[i].base + sections[i].position <= sections[j].base
    BY <1>2 DEF Based
  <2>5. \A i \in DOMAIN sections : IsData(sections[i]) =>
          /\ sections[i].base % sections[i].alignment = 0 /\ sections[i].base >= First
          /\ sections[i].base + sections[i].position <= Capacity
    BY <1>2 DEF Based
  <2>6. area' = a2
    BY <1>5
  <2> QED BY <1>1, <1>8, <1>9, <2>1, <2>3, <2>4, <2>5, <2>6 DEF DataPlaced
<1> QED BY <1>1, <1>10 DEF LayoutInv

-----------------------------------------------------------------------------
LEMMA LayoutStarts == LayoutInit => LayoutInv /\ used \in Nat
<1> SUFFICES ASSUME LayoutInit PROVE LayoutInv /\ used \in Nat
  OBVIOUS
<1>1. PICK s : s = NewSection(".text")
  OBVIOUS
<1>2. s \in Records /\ s.name = ".text" /\ s.position = 0
  BY <1>1, LayoutAssumption DEF NewSection, Records
<1>3. sections = <<s>>
  BY <1>1 DEF LayoutInit
<1>4. sections \in Seq(Records) /\ Len(sections) = 1 /\ DOMAIN sections = {1} /\ sections[1] = s
  BY <1>2, <1>3
<1>5. content \in [SectionNames -> Seq(Cells)] /\ \A n \in SectionNames : content[n] = <<>>
  BY EmptySeq DEF LayoutInit
<1>6. Named(sections, content)
  <2>1. content[".text"] = <<>> /\ Len(<<>>) = 0
    BY <1>5, LayoutAssumption, EmptySeq
  <2> QED BY <1>2, <1>4, <1>5, <2>1 DEF Named
<1>7. fragments = <<>> /\ relocations = <<>> /\ stack = <<>> /\ cursor = First /\ step = "read"
      /\ active = 1 /\ previous = 1 /\ used = 0
      /\ area = [a \in 0 .. 2 * Capacity - 1 |-> Zero]
  BY DEF LayoutInit
<1>8. fragments \in Seq(Pieces) /\ DOMAIN fragments = {} /\ relocations \in Seq(Later)
      /\ DOMAIN relocations = {} /\ stack \in Seq(DOMAIN sections)
  BY <1>7, EmptySeq, LenProperties
<1>9. Spans(sections, fragments, cursor) /\ Carries(sections, fragments, content, area)
  BY <1>8 DEF Spans, Carries
<1>10. Covers(sections, fragments)
  BY <1>2, <1>4 DEF Covers
<1>11. /\ DOMAIN area = 0 .. 2 * Capacity - 1 /\ cursor \in First .. Capacity
       /\ \A a \in 0 .. 2 * Capacity - 1 : area[a] = Zero
  BY <1>7, CapacityIs
<1>12. \A a \in cursor .. 2 * Capacity - 1 : area[a] = Zero
  BY <1>7, <1>11, CapacityIs
<1>13. Listed(area, relocations, cursor)
  BY <1>8, <1>11, CellsAre DEF Listed
<1>14. Selects
  BY <1>4, <1>7, <1>8 DEF Selects
<1>15. Staged(sections, fragments, cursor, area, content)
  BY <1>6, <1>9, <1>10, <1>11, <1>12 DEF Staged
<1> QED BY <1>7, <1>13, <1>14, <1>15 DEF LayoutInv, DataPlaced

LEMMA UsedIs == used \in Nat /\ [LayoutNext]_layoutVars => used' \in Nat
<1> SUFFICES ASSUME used \in Nat, [LayoutNext]_layoutVars PROVE used' = used \/ used' = used + 1
  OBVIOUS
<1>1. CASE UNCHANGED layoutVars
  BY <1>1 DEF layoutVars
<1>2. CASE LayoutNext
  BY <1>2 DEF LayoutNext, Section, PushSection, PopSection, Previous, Number, Space, Align, Address,
              Label, CommonBlock, Reads, Layout, Relocate, Pack
<1> QED BY <1>1, <1>2

LEMMA LayoutStep == used \in Nat /\ LayoutInv /\ [LayoutNext]_layoutVars => LayoutInv'
<1> SUFFICES ASSUME used \in Nat, LayoutInv, [LayoutNext]_layoutVars PROVE LayoutInv'
  OBVIOUS
<1>1. ASSUME NEW n \in SectionNames, Section(n) PROVE LayoutInv'
  BY <1>1, SectionStays
<1>2. ASSUME NEW n \in SectionNames, PushSection(n) PROVE LayoutInv'
  BY <1>2, PushSectionStays
<1>3. CASE PopSection
  BY <1>3, PopSectionStays
<1>4. CASE Previous
  BY <1>4, PreviousStays
<1>5. CASE Number
  BY <1>5, NumberStays
<1>6. ASSUME NEW n \in Counts, Space(n) PROVE LayoutInv'
  BY <1>6, SpaceStays
<1>7. ASSUME NEW a \in Alignments, Align(a) PROVE LayoutInv'
  BY <1>7, AlignStays
<1>8. ASSUME NEW l \in Labels, Address(l) PROVE LayoutInv'
  BY <1>8, AddressStays
<1>9. ASSUME NEW l \in Labels, Label(l) PROVE LayoutInv'
  BY <1>9, LabelStays
<1>10. ASSUME NEW l \in Labels, NEW n \in Counts, NEW a \in Alignments, CommonBlock(l, n, a)
       PROVE  LayoutInv'
  BY <1>10, CommonBlockStays
<1>11. CASE Layout
  BY <1>11, LayoutStays
<1>12. CASE Relocate
  BY <1>12, RelocateStays
<1>13. CASE Pack
  BY <1>13, PackStays
<1>14. CASE UNCHANGED layoutVars
  <2>1. \A c : Final(c)' = Final(c)
    BY <1>14 DEF layoutVars, Final
  <2>2. UNCHANGED <<sections, active, previous, stack, fragments, cursor, area, relocations, step, content>>
    BY <1>14 DEF layoutVars
  <2>3. Resolved' <=> Resolved
    BY <2>1, <2>2 DEF Resolved
  <2>4. Selects' <=> Selects
    BY <2>2 DEF Selects
  <2>5. DataSections' = DataSections
    BY <2>2 DEF DataSections, OfData, KindOf
  <2>6. DataPlaced' <=> DataPlaced
    BY <2>1, <2>2, <2>5 DEF DataPlaced
  <2> QED BY <2>2, <2>3, <2>4, <2>6 DEF LayoutInv
<1> QED BY <1>1, <1>2, <1>3, <1>4, <1>5, <1>6, <1>7, <1>8, <1>9, <1>10, <1>11, <1>12, <1>13, <1>14
        DEF LayoutNext

(* DataPlaced: in the image every section of data has a place of its own,  *)
(* aligned and inside the memory, with every cell that the directives gave *)
(* it, in their order and with the pointers resolved, and the stack's half *)
(* is empty: layout_data and pack_data, after any sequence of directives   *)
(* that data_directive accepts.                                            *)
THEOREM DataIsPlaced == LayoutSpec => []DataPlaced
<1>1. LayoutInit => LayoutInv /\ used \in Nat
  BY LayoutStarts
<1>2. (LayoutInv /\ used \in Nat) /\ [LayoutNext]_layoutVars => (LayoutInv /\ used \in Nat)'
  BY LayoutStep, UsedIs
<1>3. LayoutInv /\ used \in Nat => DataPlaced
  BY DEF LayoutInv
<1> QED BY <1>1, <1>2, <1>3, PTL DEF LayoutSpec
=============================================================================
