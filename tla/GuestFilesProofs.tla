-------------------------- MODULE GuestFilesProofs --------------------------
(***************************************************************************)
(* Files, directories and system calls, for tables of every size, every    *)
(* set of paths and packets, and every sequence of calls.  The first part  *)
(* is about the tables; in the second, they implement the tree of files,   *)
(* and directory streams list it.                                          *)
(***************************************************************************)
EXTENDS GuestCalls, GuestDirs, FiniteSetTheorems, SequenceTheorems, WellFoundedInduction, TLAPS

-----------------------------------------------------------------------------
(* Induction over the numbers, as a fact about sets of them.               *)
LessThan == {r \in Nat \X Nat : r[1] < r[2]}

LEMMA LessThanWellFounded == IsWellFoundedOn(LessThan, Nat)
<1>1. OpToRel(<, Nat) = LessThan
  BY DEF OpToRel, LessThan
<1> QED BY <1>1, NatLessThanWellFounded

LEMMA LeastNumber ==
  ASSUME NEW S \in SUBSET Nat, S # {}
  PROVE  \E m \in S : \A n \in S : m <= n
<1>1. PICK m \in S : \A n \in S : ~(<<n, m>> \in LessThan)
  BY LessThanWellFounded, WFMin
<1>2. \A n \in S : ~(n < m)
  BY <1>1 DEF LessThan
<1> QED BY <1>2

LEMMA Induction ==
  ASSUME NEW S, 0 \in S, \A n \in Nat : n \in S => n + 1 \in S
  PROVE  Nat \subseteq S
<1> SUFFICES ASSUME Nat \ S # {} PROVE FALSE
  OBVIOUS
<1>1. PICK m \in Nat \ S : \A n \in Nat \ S : m <= n
  BY LeastNumber
<1>2. m - 1 \in Nat /\ m - 1 \in S
  BY <1>1
<1> QED BY <1>1, <1>2

LEMMA FunctionLength ==
  ASSUME NEW n \in Nat, NEW f, DOMAIN f = 1 .. n
  PROVE  Len(f) = n
OBVIOUS

(* The first slot of a set is in it and before all others.                 *)
LEMMA FirstIsLeast ==
  ASSUME NEW S \in SUBSET Nat, S # {}
  PROVE  First(S) \in S /\ \A j \in S : First(S) <= j
<1>1. \E i \in S : \A j \in S : i <= j
  BY LeastNumber
<1> QED BY <1>1 DEF First

-----------------------------------------------------------------------------
(* A path, normalized component by component, is a sequence of components, *)
(* or one of the two refusals; it never looks like the mark of a free slot. *)
(* The marks are named beside STRING: to the provers, a literal is no       *)
(* element of it.                                                          *)
Components == STRING \cup {"", "..", "/"}

Proper(path) == path \in Seq(Components) /\ \A k \in DOMAIN path : path[k] # "/"

LEMMA OneProper ==
  ASSUME NEW s \in Components, s # "/"
  PROVE  Proper(<<s>>)
<1>1. <<s>> \in Seq(Components) /\ DOMAIN <<s>> = {1} /\ <<s>>[1] = s
  OBVIOUS
<1> QED BY <1>1 DEF Proper

LEMMA RefusalsProper == Proper(Above) /\ Proper(TooLong)
<1>1. ".." \in Components /\ ".." # "/" /\ "" \in Components /\ "" # "/"
  BY DEF Components
<1>2. Proper(<<"..">>) /\ Proper(<<"">>)
  BY <1>1, OneProper
<1> QED BY <1>2 DEF Above, TooLong

LEMMA StepProper ==
  ASSUME NEW path, Proper(path), NEW part \in Components, part # "/"
  PROVE  Proper(Step(path, part))
<1>1. CASE path \in {Above, TooLong} \/ part = "."
  BY <1>1 DEF Step
<1>2. CASE path \notin {Above, TooLong} /\ part = ".."
  <2>2. CASE path # <<>>
    <3>1. Front(path) = SubSeq(path, 1, Len(path) - 1)
      BY DEF Front
    <3>2. /\ Len(path) \in Nat
          /\ \A i \in 1 .. (Len(path) - 1) : path[i] \in Components /\ path[i] # "/"
      BY DEF Proper
    <3>3. /\ Front(path) \in Seq(Components)
          /\ Len(Front(path)) = IF 1 <= Len(path) - 1 THEN Len(path) - 1 ELSE 0
          /\ \A i \in 1 .. (Len(path) - 1) : Front(path)[i] = path[i]
      BY <3>1, <3>2, SubSeqProperties
    <3>4. Proper(Front(path))
      BY <3>2, <3>3 DEF Proper
    <3> QED BY <1>2, <2>2, <3>4 DEF Step
  <2> QED BY <1>2, <2>2, RefusalsProper DEF Step
<1>3. CASE path \notin {Above, TooLong} /\ part \notin {".", ".."}
  <2>1. Proper(Append(path, part))
    BY DEF Proper
  <2> QED BY <1>3, <2>1, RefusalsProper DEF Step
<1> QED BY <1>1, <1>2, <1>3

(* The loop over the components of a path.                                 *)
Walk(raw, n, path) ==
  path = [k \in 0 .. n |-> IF k = 0 THEN <<>> ELSE Step(path[k - 1], raw[k])]

LEMMA WalkExists ==
  ASSUME NEW raw, NEW n \in Nat
  PROVE  \E path : Walk(raw, n, path)
<1> DEFINE S == {m \in Nat : \E path : Walk(raw, m, path)}
<1>1. 0 \in S
  <2>1. Walk(raw, 0, [k \in 0 .. 0 |-> <<>>])
    BY DEF Walk
  <2> QED BY <2>1
<1>2. ASSUME NEW m \in Nat, m \in S
      PROVE  m + 1 \in S
  <2>1. PICK path : Walk(raw, m, path)
    BY <1>2
  <2> DEFINE next == [k \in 0 .. (m + 1) |->
                        IF k = m + 1 THEN Step(path[m], raw[k]) ELSE path[k]]
  <2>2. \A k \in 0 .. (m + 1) :
          next[k] = IF k = 0 THEN <<>> ELSE Step(next[k - 1], raw[k])
    <3> TAKE k \in 0 .. (m + 1)
    <3>1. CASE k = m + 1
      BY <3>1
    <3>2. CASE k # m + 1 /\ k # 0
      <4>1. k \in 0 .. m /\ k - 1 \in 0 .. m
        BY <3>2
      <4>2. next[k] = path[k] /\ next[k - 1] = path[k - 1]
        BY <4>1
      <4> QED BY <2>1, <3>2, <4>1, <4>2 DEF Walk
    <3>3. CASE k = 0
      BY <2>1, <3>3 DEF Walk
    <3> QED BY <3>1, <3>2, <3>3
  <2>3. Walk(raw, m + 1, next)
    BY <2>2 DEF Walk
  <2> QED BY <2>3
<1> HIDE DEF S
<1>3. Nat \subseteq S
  BY <1>1, <1>2, Induction
<1> QED BY <1>3 DEF S

LEMMA NormalizedProper ==
  ASSUME NEW raw \in RawPaths
  PROVE  Proper(Normalized(raw)) /\ Normalized(raw) # NoName
<1> DEFINE n == Len(raw)
           path == CHOOSE p : Walk(raw, n, p)
<1>1. /\ n \in Nat
      /\ \A k \in 1 .. n : raw[k] \in Components /\ raw[k] # "/"
  BY PathsAssumption, LenProperties DEF Components
<1>2. Walk(raw, n, path)
  BY <1>1, WalkExists
<1>3. Normalized(raw) = path[n]
  BY DEF Normalized, Walk
<1> DEFINE S == {k \in Nat : k <= n => Proper(path[k])}
<1> HIDE DEF path, n
<1>4. 0 \in S
  <2>1. path[0] = <<>>
    BY <1>1, <1>2 DEF Walk
  <2>2. Proper(<<>>)
    BY DEF Proper
  <2> QED BY <2>1, <2>2
<1>5. ASSUME NEW k \in Nat, k \in S
      PROVE  k + 1 \in S
  <2> SUFFICES ASSUME k + 1 <= n PROVE Proper(path[k + 1])
    OBVIOUS
  <2>1. path[k + 1] = Step(path[k], raw[k + 1])
    BY <1>1, <1>2 DEF Walk
  <2>2. Proper(path[k])
    BY <1>1, <1>5
  <2>3. raw[k + 1] \in Components /\ raw[k + 1] # "/"
    BY <1>1
  <2> QED BY <2>1, <2>2, <2>3, StepProper
<1> HIDE DEF S
<1>6. n \in S
  BY <1>1, <1>4, <1>5, Induction
<1>7. Proper(path[n])
  BY <1>1, <1>6 DEF S
<1>8. ~Proper(NoName)
  BY DEF Proper, NoName
<1> QED BY <1>3, <1>7, <1>8
-----------------------------------------------------------------------------
(* The inductive invariant.  An object is NoObject exactly when its name   *)
(* is NoName, and an input file keeps its name; nobody has one open for    *)
(* writing.                                                                *)
Object == [name : Seq(Components), linked : BOOLEAN, readonly : BOOLEAN,
           size : 0 .. SizeMax, cells : Seq(Bytes), references : Nat]

Handle == [object : Slots \cup {-1}, position : 0 .. SizeMax, flags : SUBSET Flags]

TablesTypeOK == objects \in [Slots -> Object] /\ handles \in [Fds -> Handle]

TypeOK == /\ TablesTypeOK
          /\ directories \in [Slots -> Seq(Components)]
          /\ openDirectories \in 0 .. OpenMax
          /\ reply \in [failed : BOOLEAN, bytes : Seq(Bytes)]

ObjectsInv ==
  \A i \in Slots : /\ objects[i].size <= Len(objects[i].cells)
                   /\ objects[i].name = NoName => objects[i] = NoObject
                   /\ objects[i].readonly => objects[i].linked

HandlesInv ==
  \A d \in Fds : /\ handles[d].object = -1 => handles[d] = NoHandle
                 /\ handles[d] # NoHandle /\ "write" \in handles[d].flags
                      => ~objects[handles[d].object].readonly

TablesInv == TablesTypeOK /\ ObjectsInv /\ HandlesInv /\ NoDangling

FilesInv == TypeOK /\ TablesInv

(* The descriptors that stand for object i.                                *)
Users(i) == {d \in Fds : handles[d].object = i}

LEMMA UsersFinite == \A S \in SUBSET Fds : IsFiniteSet(S)
<1>1. IsFiniteSet(Fds)
  BY FilesAssumption, FS_Interval DEF Fds
<1> QED BY <1>1, FS_Subset

LEMMA SlotsAreNumbers == Slots \subseteq Nat /\ -1 \notin Slots
BY FilesAssumption DEF Slots

(* NoDangling of one slot, in a form that names its users.                 *)
SlotOK(i) == /\ objects[i].references = Cardinality(Users(i))
             /\ objects[i] = NoObject <=> (Users(i) = {} /\ ~objects[i].linked)

NamesDiffer ==
  \A i, j \in Slots :
    objects[i].linked /\ objects[j].linked /\ objects[j].name = objects[i].name => j = i

SlotsOK == \A i \in Slots : SlotOK(i)

LEMMA DanglingParts == NoDangling <=> NamesDiffer /\ SlotsOK
<1>1. ASSUME NoDangling
      PROVE  NamesDiffer /\ SlotsOK
  <2>1. ASSUME NEW i \in Slots PROVE SlotOK(i)
    BY <1>1 DEF NoDangling, SlotOK, Users
  <2>2. ASSUME NEW i \in Slots, NEW j \in Slots
        PROVE  objects[i].linked /\ objects[j].linked /\ objects[j].name = objects[i].name
                 => j = i
    BY <1>1, <2>2 DEF NoDangling
  <2>3. NamesDiffer
    BY <2>2 DEF NamesDiffer
  <2>4. SlotsOK
    BY <2>1 DEF SlotsOK
  <2> QED BY <2>3, <2>4
<1>2. ASSUME NamesDiffer, SlotsOK
      PROVE  NoDangling
  <2>1. ASSUME NEW i \in Slots
        PROVE  /\ objects[i].references = Cardinality({d \in Fds : handles[d].object = i})
               /\ objects[i] = NoObject <=>
                    ({d \in Fds : handles[d].object = i} = {} /\ ~objects[i].linked)
    BY <1>2 DEF SlotsOK, SlotOK, Users
  <2> QED BY <1>2, <2>1 DEF NoDangling, NamesDiffer
<1> QED BY <1>1, <1>2

LEMMA DanglingPartsNext == NoDangling' <=> NamesDiffer' /\ SlotsOK'
BY DanglingParts, PTL

(* A call that changes contents and positions only, and of these only such *)
(* as are in use.                                                          *)
LEMMA ContentStep ==
  ASSUME TablesInv, TablesTypeOK',
         \A i \in Slots :
           \/ objects'[i] = objects[i]
           \/ /\ objects[i] # NoObject
              /\ objects'[i].size <= Len(objects'[i].cells)
              /\ objects'[i].name = objects[i].name
              /\ objects'[i].linked = objects[i].linked
              /\ objects'[i].readonly = objects[i].readonly
              /\ objects'[i].references = objects[i].references,
         \A d \in Fds :
           \/ handles'[d] = handles[d]
           \/ /\ handles[d] # NoHandle
              /\ handles'[d].object = handles[d].object
              /\ handles'[d].flags = handles[d].flags
  PROVE  TablesInv'
<1> USE DEF TablesInv
<1>1. \A i \in Slots :
        /\ objects'[i].name = objects[i].name
        /\ objects'[i].linked = objects[i].linked
        /\ objects'[i].readonly = objects[i].readonly
        /\ objects'[i].references = objects[i].references
        /\ objects'[i] = NoObject <=> objects[i] = NoObject
  <2> TAKE i \in Slots
  <2>1. CASE objects'[i] = objects[i]
    BY <2>1
  <2>2. CASE objects'[i] # objects[i]
    <3>1. objects[i].name # NoName
      BY <2>2 DEF ObjectsInv
    <3>2. objects'[i].name # NoName
      BY <2>2, <3>1
    <3> QED BY <2>2, <3>1, <3>2 DEF NoObject
  <2> QED BY <2>1, <2>2
<1>2. \A d \in Fds : /\ handles'[d].object = handles[d].object
                     /\ handles'[d].flags = handles[d].flags
                     /\ handles'[d] = NoHandle <=> handles[d] = NoHandle
  BY DEF HandlesInv, NoHandle
<1>3. ObjectsInv'
  <2> SUFFICES ASSUME NEW i \in Slots
               PROVE  /\ objects'[i].size <= Len(objects'[i].cells)
                      /\ objects'[i].name = NoName => objects'[i] = NoObject
                      /\ objects'[i].readonly => objects'[i].linked
    BY DEF ObjectsInv
  <2> QED BY <1>1 DEF ObjectsInv
<1>4. HandlesInv'
  <2> SUFFICES ASSUME NEW d \in Fds
               PROVE  /\ handles'[d].object = -1 => handles'[d] = NoHandle
                      /\ handles'[d] # NoHandle /\ "write" \in handles'[d].flags
                           => ~objects'[handles'[d].object].readonly
    BY DEF HandlesInv
  <2>1. handles[d].object = -1 \/ handles[d].object \in Slots
    BY DEF TablesTypeOK, Handle
  <2> QED BY <1>1, <1>2, <2>1 DEF HandlesInv
<1>5. NoDangling'
  <2>1. \A i \in Slots : Users(i)' = Users(i)
    BY <1>2 DEF Users
  <2>2. NamesDiffer' /\ SlotsOK'
    BY <1>1, <2>1, DanglingParts DEF NamesDiffer, SlotsOK, SlotOK
  <2> QED BY <2>2, DanglingPartsNext
<1> QED BY <1>3, <1>4, <1>5

(* Slot i is opened: what it holds by now has a name that no other slot    *)
(* has, and is no input file that may be written.                          *)
LEMMA OpensStep ==
  ASSUME TablesInv, NEW i \in Slots, NEW obj \in Object, NEW flags \in SUBSET Flags,
         \E d \in Fds : handles[d] = NoHandle,
         obj.linked, obj.name # NoName, obj.size <= Len(obj.cells),
         obj.references = objects[i].references, obj.readonly = objects[i].readonly,
         obj.readonly => "write" \notin flags,
         \A j \in Slots \ {i} : objects[j].linked => objects[j].name # obj.name,
         Opens(i, obj, flags)
  PROVE  TablesInv'
<1> DEFINE fd == First({d \in Fds : handles[d] = NoHandle})
           opened == [obj EXCEPT !.size = IF "trunc" \in flags THEN 0 ELSE @,
                                 !.references = @ + 1]
           handle == [object |-> i, position |-> 0, flags |-> flags]
<1> USE DEF TablesInv
<1>1. fd \in Fds /\ handles[fd] = NoHandle
  <2>1. {d \in Fds : handles[d] = NoHandle} \in SUBSET Nat
    BY DEF Fds
  <2> QED BY <2>1, FirstIsLeast
<1>2. /\ objects' = [objects EXCEPT ![i] = opened]
      /\ handles' = [handles EXCEPT ![fd] = handle]
  BY DEF Opens
<1> HIDE DEF fd
<1>3. /\ opened \in Object /\ opened.references = obj.references + 1
      /\ opened.name = obj.name /\ opened.linked /\ opened.readonly = obj.readonly
      /\ opened.size <= Len(opened.cells)
  <2> DEFINE size == IF "trunc" \in flags THEN 0 ELSE obj.size
  <2>1. size \in 0 .. SizeMax /\ size <= Len(obj.cells)
    <3>1. Len(obj.cells) \in Nat
      BY DEF Object
    <3> QED BY <3>1, FilesAssumption DEF Object
  <2>2. opened = [obj EXCEPT !.size = size, !.references = obj.references + 1]
    OBVIOUS
  <2> HIDE DEF size, opened
  <2>3. opened \in Object
    <3>1. obj.references + 1 \in Nat
      BY DEF Object
    <3> QED BY <2>1, <2>2, <3>1 DEF Object
  <2>4. /\ opened.references = obj.references + 1
        /\ opened.name = obj.name /\ opened.linked /\ opened.readonly = obj.readonly
        /\ opened.size = size /\ opened.cells = obj.cells
    BY <2>2 DEF Object
  <2> QED BY <2>1, <2>3, <2>4
<1>4. handle \in Handle /\ handle # NoHandle
  <2>1. 0 \in 0 .. SizeMax /\ i # -1
    BY FilesAssumption, SlotsAreNumbers
  <2> QED BY <2>1 DEF Handle, NoHandle
<1> HIDE DEF opened, handle
<1>5. /\ objects'[i] = opened /\ \A j \in Slots \ {i} : objects'[j] = objects[j]
      /\ handles'[fd] = handle /\ \A d \in Fds \ {fd} : handles'[d] = handles[d]
  BY <1>1, <1>2 DEF TablesTypeOK
<1>6. TablesTypeOK'
  BY <1>1, <1>2, <1>3, <1>4 DEF TablesTypeOK
<1>7. ObjectsInv'
  <2> SUFFICES ASSUME NEW j \in Slots
               PROVE  /\ objects'[j].size <= Len(objects'[j].cells)
                      /\ objects'[j].name = NoName => objects'[j] = NoObject
                      /\ objects'[j].readonly => objects'[j].linked
    BY DEF ObjectsInv
  <2> QED BY <1>3, <1>5 DEF ObjectsInv
<1>8. HandlesInv'
  <2> SUFFICES ASSUME NEW d \in Fds
               PROVE  /\ handles'[d].object = -1 => handles'[d] = NoHandle
                      /\ handles'[d] # NoHandle /\ "write" \in handles'[d].flags
                           => ~objects'[handles'[d].object].readonly
    BY DEF HandlesInv
  <2>1. CASE d = fd
    <3>1. handle.object = i /\ handle.flags = flags /\ i # -1
      BY SlotsAreNumbers DEF handle
    <3> QED BY <1>3, <1>5, <2>1, <3>1
  <2>2. CASE d # fd
    <3>1. handles'[d] = handles[d]
      BY <1>5, <2>2
    <3>2. handles[d].object = -1 \/ handles[d].object \in Slots
      BY DEF TablesTypeOK, Handle
    <3>3. handles[d].object \in Slots
            => objects'[handles[d].object].readonly = objects[handles[d].object].readonly
      BY <1>3, <1>5
    <3> QED BY <3>1, <3>2, <3>3 DEF HandlesInv
  <2> QED BY <2>1, <2>2
<1>9. NamesDiffer'
  <2>1. NamesDiffer
    BY DanglingParts
  <2> QED BY <1>3, <1>5, <2>1 DEF NamesDiffer
<1>10. SlotsOK'
  <2>1. SlotsOK
    BY DanglingParts
  <2>2. fd \notin Users(i) /\ Users(i)' = Users(i) \cup {fd}
    <3>1. handles[fd].object = -1 /\ handles'[fd].object = i
      BY <1>1, <1>5 DEF NoHandle, handle
    <3> QED BY <1>1, <1>5, <3>1, SlotsAreNumbers DEF Users
  <2>3. \A j \in Slots \ {i} : Users(j)' = Users(j)
    <3>1. handles[fd].object = -1 /\ handles'[fd].object = i
      BY <1>1, <1>5 DEF NoHandle, handle
    <3> QED BY <1>1, <1>5, <3>1, SlotsAreNumbers DEF Users
  <2>4. Cardinality(Users(i)') = Cardinality(Users(i)) + 1
    <3>1. Users(i) \in SUBSET Fds
      BY DEF Users
    <3>2. IsFiniteSet(Users(i))
      BY <3>1, UsersFinite
    <3>3. Cardinality(Users(i) \cup {fd}) =
            IF fd \in Users(i) THEN Cardinality(Users(i)) ELSE Cardinality(Users(i)) + 1
      BY <3>2, FS_AddElement
    <3> QED BY <2>2, <3>3
  <2>5. objects'[i].references = Cardinality(Users(i)')
    BY <1>3, <1>5, <2>1, <2>4 DEF SlotsOK, SlotOK
  <2>6. objects'[i] # NoObject
    BY <1>3, <1>5 DEF NoObject
  <2>7. SlotOK(i)'
    BY <1>3, <1>5, <2>5, <2>6 DEF SlotOK
  <2>8. \A j \in Slots \ {i} : SlotOK(j)'
    BY <1>5, <2>1, <2>3 DEF SlotsOK, SlotOK
  <2> QED BY <2>7, <2>8 DEF SlotsOK
<1> QED BY <1>6, <1>7, <1>8, <1>9, <1>10, DanglingPartsNext

(* What stands for nothing is of the tables' types.                        *)
LEMMA EmptyIsTyped ==
  NoName \in Seq(Components) /\ NoObject \in Object /\ NoHandle \in Handle
<1>1. <<>> \in Seq(Bytes) /\ 0 \in 0 .. SizeMax
  BY FilesAssumption
<1>2. NoName \in Seq(Components)
  <2>1. "/" \in Components
    BY DEF Components
  <2> QED BY <2>1 DEF NoName
<1>3. NoObject \in Object
  BY <1>1, <1>2 DEF Object, NoObject
<1>4. NoHandle \in Handle
  BY <1>1 DEF Handle, NoHandle
<1> QED BY <1>2, <1>3, <1>4

(* A slot whose name or last descriptor goes.                              *)
LEMMA ReleasedStep ==
  ASSUME TablesInv, NEW i \in Slots, objects[i] # NoObject,
         NEW obj \in Object,
         obj.name = objects[i].name, obj.readonly = objects[i].readonly,
         obj.size <= Len(obj.cells), obj.linked => objects[i].linked,
         obj.readonly => obj.linked,
         handles' \in [Fds -> Handle],
         \A d \in Fds : handles'[d] \in {handles[d], NoHandle},
         obj.references = Cardinality(Users(i)'),
         \A j \in Slots \ {i} : Users(j)' = Users(j),
         objects' = [objects EXCEPT ![i] = Released(obj)]
  PROVE  TablesInv'
<1> USE DEF TablesInv
<1>1. Released(obj) \in Object
  BY EmptyIsTyped DEF Released
<1>2. /\ objects'[i] = Released(obj)
      /\ \A j \in Slots \ {i} : objects'[j] = objects[j]
  BY DEF TablesTypeOK
<1>3. obj.name # NoName
  BY DEF ObjectsInv
<1>4. TablesTypeOK'
  BY <1>1 DEF TablesTypeOK
<1>5. ObjectsInv'
  <2> SUFFICES ASSUME NEW j \in Slots
               PROVE  /\ objects'[j].size <= Len(objects'[j].cells)
                      /\ objects'[j].name = NoName => objects'[j] = NoObject
                      /\ objects'[j].readonly => objects'[j].linked
    BY DEF ObjectsInv
  <2>1. NoObject.size <= Len(NoObject.cells) /\ ~NoObject.readonly
    BY DEF NoObject
  <2> QED BY <1>2, <1>3, <2>1 DEF ObjectsInv, Released
<1>6. HandlesInv'
  <2> SUFFICES ASSUME NEW d \in Fds
               PROVE  /\ handles'[d].object = -1 => handles'[d] = NoHandle
                      /\ handles'[d] # NoHandle /\ "write" \in handles'[d].flags
                           => ~objects'[handles'[d].object].readonly
    BY DEF HandlesInv
  <2>1. CASE handles'[d] = NoHandle
    BY <2>1
  <2>2. CASE handles'[d] # NoHandle
    <3>1. handles'[d] = handles[d]
      BY <2>2
    <3>2. handles[d].object = -1 \/ handles[d].object \in Slots
      BY DEF TablesTypeOK, Handle
    <3>3. Released(obj).readonly => objects[i].readonly
      BY DEF Released, NoObject
    <3> QED BY <1>2, <3>1, <3>2, <3>3 DEF HandlesInv
  <2> QED BY <2>1, <2>2
<1>7. Released(obj).linked => objects[i].linked /\ Released(obj).name = objects[i].name
  BY DEF Released, NoObject
<1>8. NamesDiffer'
  <2>1. NamesDiffer
    BY DanglingParts
  <2> QED BY <1>2, <1>7, <2>1 DEF NamesDiffer
<1>9. SlotsOK'
  <2>1. SlotsOK
    BY DanglingParts
  <2>2. \A j \in Slots \ {i} : SlotOK(j)'
    BY <1>2, <2>1 DEF SlotsOK, SlotOK
  <2>3. Users(i)' \in SUBSET Fds
    BY DEF Users
  <2>4. IsFiniteSet(Users(i)')
    <3>1. \A S \in SUBSET Fds : IsFiniteSet(S)
      BY UsersFinite
    <3> QED BY <2>3, <3>1
  <2>5. obj.references = 0 <=> Users(i)' = {}
    BY <2>4, FS_EmptySet
  <2>6. SlotOK(i)'
    <3>1. CASE ~obj.linked /\ obj.references = 0
      <4>1. objects'[i] = NoObject
        BY <1>2, <3>1 DEF Released
      <4>2. NoObject.references = 0 /\ ~NoObject.linked
        BY DEF NoObject
      <4> QED BY <2>5, <3>1, <4>1, <4>2 DEF SlotOK
    <3>2. CASE ~(~obj.linked /\ obj.references = 0)
      <4>1. objects'[i] = obj
        BY <1>2, <3>2 DEF Released
      <4>2. obj # NoObject
        BY <1>3 DEF NoObject
      <4> QED BY <2>5, <3>2, <4>1, <4>2 DEF SlotOK
    <3> QED BY <3>1, <3>2
  <2> QED BY <2>2, <2>6 DEF SlotsOK
<1> QED BY <1>4, <1>5, <1>6, <1>8, <1>9, DanglingPartsNext

-----------------------------------------------------------------------------
(* What the calls find, and what they leave of the directories' numbers.   *)
LEMMA FoundIsLinked ==
  ASSUME NEW name, Lookup(name) # {}
  PROVE  /\ First(Lookup(name)) \in Slots
         /\ objects[First(Lookup(name))].linked
         /\ objects[First(Lookup(name))].name = name
<1>1. Lookup(name) \in SUBSET Nat
  BY SlotsAreNumbers DEF Lookup
<1>2. First(Lookup(name)) \in Lookup(name)
  BY <1>1, FirstIsLeast
<1> QED BY <1>2 DEF Lookup

LEMMA OpenedIsThere ==
  ASSUME TablesInv, NEW d \in Fds, handles[d] # NoHandle
  PROVE  /\ handles[d].object \in Slots
         /\ objects[handles[d].object] # NoObject
<1>1. handles[d].object \in Slots
  BY DEF TablesInv, TablesTypeOK, Handle, HandlesInv
<1>2. d \in Users(handles[d].object)
  BY DEF Users
<1>3. SlotOK(handles[d].object)
  BY <1>1, DanglingParts DEF TablesInv, SlotsOK
<1> QED BY <1>1, <1>2, <1>3 DEF SlotOK

Tables == [Slots -> Seq(Components)]

LEMMA InodeTables ==
  ASSUME directories \in Tables, NEW name \in Seq(Components),
         NEW o \in InodeOutcomes(name)
  PROVE  o.table \in Tables
<1> DEFINE free == {i \in Slots : directories[i] = NoName}
<1>1. CASE o.table = directories
  BY <1>1
<1>2. CASE free # {} /\ o.table = [directories EXCEPT ![First(free)] = name]
  <2>1. free \in SUBSET Nat
    BY SlotsAreNumbers
  <2>2. First(free) \in Slots
    BY <1>2, <2>1, FirstIsLeast
  <2> QED BY <1>2, <2>2 DEF Tables
<1> QED BY <1>1, <1>2 DEF InodeOutcomes

LEMMA StatTables ==
  ASSUME directories \in Tables, NEW name \in Seq(Components),
         NEW st \in StatOutcomes(name)
  PROVE  st.table \in Tables
<1>1. CASE st.table = directories
  BY <1>1
<1>2. CASE \E o \in InodeOutcomes(name) : st.table = o.table
  BY <1>2, InodeTables
<1> QED BY <1>1, <1>2 DEF StatOutcomes

LEMMA NormalizedTyped ==
  ASSUME NEW raw \in RawPaths
  PROVE  Normalized(raw) \in Seq(Components) /\ Normalized(raw) # NoName
BY NormalizedProper DEF Proper

-----------------------------------------------------------------------------
(* Every call keeps the invariant.                                         *)
RestTypeOK == /\ directories \in Tables
              /\ openDirectories \in 0 .. OpenMax
              /\ reply \in [failed : BOOLEAN, bytes : Seq(Bytes)]

LEMMA FilesParts == FilesInv <=> TablesInv /\ RestTypeOK
BY DEF FilesInv, TypeOK, TablesInv, RestTypeOK, Tables

LEMMA FilesPartsNext == FilesInv' <=> TablesInv' /\ RestTypeOK'
BY FilesParts, PTL

LEMMA ReturnsTyped ==
  ASSUME NEW bytes \in Seq(Bytes), Returns(bytes)
  PROVE  reply' \in [failed : BOOLEAN, bytes : Seq(Bytes)]
BY DEF Returns

LEMMA ReturnsNothing ==
  ASSUME Returns(<<>>)
  PROVE  reply' \in [failed : BOOLEAN, bytes : Seq(Bytes)]
<1>1. <<>> \in Seq(Bytes)
  OBVIOUS
<1> QED BY <1>1, ReturnsTyped

LEMMA TablesStay ==
  ASSUME TablesInv, UNCHANGED <<objects, handles>>
  PROVE  TablesInv'
BY ContentStep DEF TablesInv, TablesTypeOK

LEMMA FailsKeeps ==
  ASSUME FilesInv, NEW e, Fails(e), directories' \in Tables
  PROVE  FilesInv'
<1>1. TablesInv'
  BY FilesParts, TablesStay DEF Fails
<1>2. RestTypeOK'
  BY FilesParts DEF Fails, RestTypeOK
<1> QED BY <1>1, <1>2, FilesPartsNext

LEMMA RefusedKeeps ==
  ASSUME FilesInv, NEW e, Refused(e)
  PROVE  FilesInv'
<1>1. directories' \in Tables
  BY FilesParts DEF Refused, RestTypeOK
<1> QED BY <1>1, FailsKeeps DEF Refused

LEMMA StatKeeps ==
  ASSUME FilesInv, NEW raw \in RawPaths, Stat(raw)
  PROVE  FilesInv'
<1>1. directories \in Tables
  BY FilesParts DEF RestTypeOK
<1>2. CASE Refused(PathError(Normalized(raw)))
  BY <1>2, RefusedKeeps
<1>3. ASSUME NEW st \in StatOutcomes(Normalized(raw)), Fails(st.errno), directories' = st.table
      PROVE  FilesInv'
  BY <1>1, <1>3, StatTables, NormalizedTyped, FailsKeeps
<1> QED BY <1>2, <1>3 DEF Stat

LEMMA AccessKeeps ==
  ASSUME FilesInv, NEW raw \in RawPaths, NEW write, NEW execute, Access(raw, write, execute)
  PROVE  FilesInv'
<1>1. directories \in Tables
  BY FilesParts DEF RestTypeOK
<1>2. CASE Refused(PathError(Normalized(raw)))
  BY <1>2, RefusedKeeps
<1>3. ASSUME NEW st \in StatOutcomes(Normalized(raw)), NEW e, Fails(e), directories' = st.table
      PROVE  FilesInv'
  BY <1>1, <1>3, StatTables, NormalizedTyped, FailsKeeps
<1> QED BY <1>2, <1>3 DEF Access

LEMMA OutputKeeps ==
  ASSUME FilesInv, NEW raw \in RawPaths, Output(raw)
  PROVE  FilesInv'
<1> DEFINE name == Normalized(raw)
           i == First(Lookup(name))
<1>1. CASE \E e : Refused(e)
  BY <1>1, RefusedKeeps
<1>2. CASE /\ Lookup(name) # {}
           /\ Returns(SubSeq(objects[i].cells, 1, objects[i].size))
           /\ UNCHANGED <<objects, handles, directories, openDirectories>>
  <2>1. i \in Slots
    BY <1>2, FoundIsLinked
  <2>2. /\ objects[i].cells \in Seq(Bytes) /\ objects[i].size \in Nat
        /\ objects[i].size <= Len(objects[i].cells)
    BY <2>1, FilesParts DEF TablesInv, TablesTypeOK, ObjectsInv, Object
  <2>3. SubSeq(objects[i].cells, 1, objects[i].size) \in Seq(Bytes)
    <3>1. \A k \in 1 .. objects[i].size : objects[i].cells[k] \in Bytes
      BY <2>2
    <3> QED BY <2>2, <3>1, SubSeqProperties
  <2>4. RestTypeOK'
    BY <1>2, <2>3, ReturnsTyped, FilesParts DEF RestTypeOK
  <2> QED BY <1>2, <2>4, TablesStay, FilesParts, FilesPartsNext
<1> QED BY <1>1, <1>2 DEF Output

LEMMA DirectoryOpenKeeps ==
  ASSUME FilesInv, NEW raw \in RawPaths, DirectoryOpen(raw)
  PROVE  FilesInv'
<1>1. directories \in Tables /\ openDirectories \in 0 .. OpenMax
  BY FilesParts DEF RestTypeOK
<1>2. CASE Refused(PathError(Normalized(raw)))
  BY <1>2, RefusedKeeps
<1>3. ASSUME NEW st \in StatOutcomes(Normalized(raw)), NEW e, Fails(e), directories' = st.table
      PROVE  FilesInv'
  BY <1>1, <1>3, StatTables, NormalizedTyped, FailsKeeps
<1>4. ASSUME NEW st \in StatOutcomes(Normalized(raw)), directories' = st.table,
             openDirectories # OpenMax, openDirectories' = openDirectories + 1,
             Returns(<<>>), UNCHANGED <<objects, handles>>
      PROVE  FilesInv'
  <2>1. directories' \in Tables
    BY <1>1, <1>4, StatTables, NormalizedTyped
  <2>2. openDirectories' \in 0 .. OpenMax
    BY <1>1, <1>4, FilesAssumption
  <2>3. RestTypeOK'
    BY <1>4, <2>1, <2>2, ReturnsNothing DEF RestTypeOK
  <2> QED BY <1>4, <2>3, TablesStay, FilesParts, FilesPartsNext
<1> QED BY <1>2, <1>3, <1>4 DEF DirectoryOpen

LEMMA DirectoryCloseKeeps ==
  ASSUME FilesInv, DirectoryClose
  PROVE  FilesInv'
<1>1. openDirectories' \in 0 .. OpenMax
  BY FilesParts, FilesAssumption DEF RestTypeOK, DirectoryClose
<1>2. RestTypeOK'
  BY <1>1, ReturnsNothing, FilesParts DEF RestTypeOK, DirectoryClose
<1> QED BY <1>2, TablesStay, FilesParts, FilesPartsNext DEF DirectoryClose

LEMMA MountKeeps ==
  ASSUME FilesInv, NEW packet \in Packets, Mount(packet)
  PROVE  FilesInv'
<1> DEFINE files == packet.files
<1>1. CASE \E e : Refused(e)
  BY <1>1, RefusedKeeps
<1>2. CASE /\ ~Busy /\ packet.valid
           /\ \A i \in 1 .. Len(files) : Len(files[i].bytes) <= SizeMax
           /\ objects' = Mounted(files)
           /\ directories' = [i \in Slots |-> NoName]
           /\ Returns(<<>>)
           /\ UNCHANGED <<handles, openDirectories>>
  <2>1. /\ Len(files) \in Nat
        /\ \A i \in 1 .. Len(files) :
             /\ files[i].name \in Seq(Components) /\ files[i].name # NoName
             /\ files[i].bytes \in Seq(Bytes) /\ Len(files[i].bytes) \in 0 .. SizeMax
    <3>1. /\ files \in Seq([name : Seq(STRING), bytes : Seq(Bytes)])
          /\ \A j \in 1 .. Len(files) : \A c \in DOMAIN files[j].name :
               files[j].name[c] \notin {"", "/", ".", ".."}
          /\ \A j \in 1 .. Len(files) : files[j].name # <<>>
      BY <1>2, PathsAssumption
    <3>2. ASSUME NEW i \in 1 .. Len(files)
          PROVE  /\ files[i].name \in Seq(Components) /\ files[i].name # NoName
                 /\ files[i].bytes \in Seq(Bytes) /\ Len(files[i].bytes) \in 0 .. SizeMax
      <4>1. files[i].name \in Seq(STRING) /\ files[i].bytes \in Seq(Bytes)
        <5>1. files[i] \in [name : Seq(STRING), bytes : Seq(Bytes)]
          BY <3>1, ElementOfSeq
        <5> QED BY <5>1
      <4>2. files[i].name \in Seq(Components)
        <5>1. STRING \subseteq Components
          BY DEF Components
        <5> QED BY <4>1, <5>1, SeqMonotonic
      <4>3. files[i].name # NoName
        <5>1. Len(files[i].name) \in Nat /\ DOMAIN files[i].name = 1 .. Len(files[i].name)
          BY <4>1, LenProperties
        <5>2. Len(files[i].name) # 0
          BY <3>1, <4>1, EmptySeq
        <5>3. files[i].name[1] # "/"
          <6>1. 1 \in DOMAIN files[i].name
            BY <5>1, <5>2
          <6> QED BY <3>1, <6>1
        <5>4. NoName[1] = "/"
          BY DEF NoName
        <5> QED BY <5>3, <5>4, Zenon
      <4>4. Len(files[i].bytes) \in Nat
        BY <4>1
      <4> QED BY <1>2, <4>1, <4>2, <4>3, <4>4, FilesAssumption
    <3> QED BY <3>1, <3>2, LenProperties
  <2>2. \A j, k \in 1 .. Len(files) : files[j].name = files[k].name => j = k
    BY <1>2, PathsAssumption
  <2>3. \A d \in Fds : handles'[d] = NoHandle /\ handles[d] = NoHandle
    BY <1>2 DEF Busy
  <2> HIDE DEF files
  <2>4. ASSUME NEW i \in Slots, i < Len(files)
        PROVE  /\ i + 1 \in 1 .. Len(files)
               /\ objects'[i] \in Object
               /\ objects'[i].name = files[i + 1].name
               /\ objects'[i].linked /\ objects'[i].references = 0
               /\ objects'[i].size = Len(objects'[i].cells)
    <3>1. i + 1 \in 1 .. Len(files)
      BY <2>1, <2>4, SlotsAreNumbers
    <3>2. objects'[i] = [name |-> files[i + 1].name, linked |-> TRUE, readonly |-> TRUE,
                         size |-> Len(files[i + 1].bytes),
                         cells |-> files[i + 1].bytes, references |-> 0]
      BY <1>2, <2>4 DEF Mounted
    <3>3. objects'[i] \in Object
      BY <2>1, <3>1, <3>2 DEF Object
    <3> QED BY <3>1, <3>2, <3>3
  <2>5. ASSUME NEW i \in Slots, ~(i < Len(files))
        PROVE  objects'[i] = NoObject
    BY <1>2, <2>1, <2>5, SlotsAreNumbers DEF Mounted
  <2>6. NoObject \in Object
    BY EmptyIsTyped
  <2>7. ASSUME NEW i \in Slots
        PROVE  objects'[i] \in Object
    <3>1. CASE i < Len(files)
      BY <2>4, <3>1
    <3> QED BY <2>5, <2>6, <3>1
  <2>8. TablesTypeOK'
    <3>1. objects' = [i \in Slots |-> objects'[i]]
      BY <1>2 DEF Mounted
    <3> QED BY <1>2, <2>7, <3>1 DEF TablesTypeOK, FilesInv, TypeOK
  <2>9. ObjectsInv'
    <3> SUFFICES ASSUME NEW j \in Slots
                 PROVE  /\ objects'[j].size <= Len(objects'[j].cells)
                        /\ objects'[j].name = NoName => objects'[j] = NoObject
                        /\ objects'[j].readonly => objects'[j].linked
      BY DEF ObjectsInv
    <3>1. CASE j < Len(files)
      <4>1. j + 1 \in 1 .. Len(files) /\ objects'[j].size \in Nat
        BY <2>4, <3>1 DEF Object
      <4>2. objects'[j].name # NoName
        BY <2>1, <2>4, <3>1
      <4> QED BY <2>4, <3>1, <4>1, <4>2
    <3>2. CASE ~(j < Len(files))
      <4>1. NoObject.size <= Len(NoObject.cells) /\ ~NoObject.readonly
        BY DEF NoObject
      <4> QED BY <2>5, <3>2, <4>1
    <3> QED BY <3>1, <3>2
  <2>10. HandlesInv'
    BY <2>3 DEF HandlesInv
  <2>11. NamesDiffer'
    <3> SUFFICES ASSUME NEW i \in Slots, NEW j \in Slots, objects'[i].linked,
                        objects'[j].linked, objects'[j].name = objects'[i].name
                 PROVE  j = i
      BY DEF NamesDiffer
    <3>1. ~NoObject.linked
      BY DEF NoObject
    <3>2. i < Len(files) /\ j < Len(files)
      BY <2>5, <3>1
    <3>3. i + 1 \in 1 .. Len(files) /\ j + 1 \in 1 .. Len(files)
      BY <2>4, <3>2
    <3>4. files[j + 1].name = files[i + 1].name
      BY <2>4, <3>2
    <3>5. j + 1 = i + 1
      BY <2>2, <3>3, <3>4 DEF files
    <3> QED BY <3>5, SlotsAreNumbers
  <2>12. SlotsOK'
    <3> SUFFICES ASSUME NEW i \in Slots
                 PROVE  SlotOK(i)'
      BY DEF SlotsOK
    <3>1. Users(i)' = {}
      BY <2>3, SlotsAreNumbers DEF Users, NoHandle
    <3>2. Cardinality(Users(i)') = 0
      BY <3>1, FS_EmptySet
    <3>3. CASE i < Len(files)
      <4>1. objects'[i].references = 0 /\ objects'[i].linked
        BY <2>4, <3>3
      <4>2. objects'[i] # NoObject
        BY <4>1 DEF NoObject
      <4> QED BY <3>2, <4>1, <4>2 DEF SlotOK
    <3>4. CASE ~(i < Len(files))
      <4>1. objects'[i] = NoObject /\ NoObject.references = 0 /\ ~NoObject.linked
        BY <2>5, <3>4 DEF NoObject
      <4> QED BY <3>1, <3>2, <4>1 DEF SlotOK
    <3> QED BY <3>3, <3>4
  <2>13. RestTypeOK'
    <3>1. directories' \in Tables
      BY <1>2, EmptyIsTyped DEF Tables
    <3> QED BY <1>2, <3>1, ReturnsNothing, FilesParts DEF RestTypeOK
  <2> QED BY <2>8, <2>9, <2>10, <2>11, <2>12, <2>13, DanglingPartsNext, FilesPartsNext
          DEF TablesInv
<1> QED BY <1>1, <1>2 DEF Mount

LEMMA CloseKeeps ==
  ASSUME FilesInv, NEW d \in Fds, Close(d)
  PROVE  FilesInv'
<1>1. CASE \E e : Refused(e)
  BY <1>1, RefusedKeeps
<1>2. ASSUME handles[d] # NoHandle,
             handles' = [handles EXCEPT ![d] = NoHandle],
             Returns(<<>>), UNCHANGED <<directories, openDirectories>>,
             NEW i, i = handles[d].object,
             NEW obj, obj = [objects[i] EXCEPT !.references = @ - 1],
             objects' = [objects EXCEPT ![i] = Released(obj)]
      PROVE  FilesInv'
  <2>1. TablesInv /\ i \in Slots /\ objects[i] # NoObject
    BY <1>2, FilesParts, OpenedIsThere
  <2>2. /\ objects[i] \in Object /\ objects[i].references = Cardinality(Users(i))
        /\ objects[i].size <= Len(objects[i].cells)
        /\ objects[i].readonly => objects[i].linked
    BY <2>1, DanglingParts DEF TablesInv, TablesTypeOK, ObjectsInv, SlotsOK, SlotOK
  <2>4. handles' \in [Fds -> Handle] /\ \A e \in Fds : handles'[e] \in {handles[e], NoHandle}
    BY <1>2, <2>1, EmptyIsTyped DEF TablesInv, TablesTypeOK
  <2>5. /\ handles'[d] = NoHandle /\ NoHandle.object = -1
        /\ \A e \in Fds \ {d} : handles'[e] = handles[e]
    BY <1>2, <2>1 DEF TablesInv, TablesTypeOK, NoHandle
  <2>6. d \in Users(i) /\ Users(i)' = Users(i) \ {d}
    <3>1. i # -1
      BY <2>1, SlotsAreNumbers
    <3>2. d \in Users(i)
      BY <1>2 DEF Users
    <3>3. \A e \in Fds : e \in Users(i)' <=> e \in Users(i) /\ e # d
      BY <2>5, <3>1 DEF Users
    <3> QED BY <3>2, <3>3 DEF Users
  <2>7. \A j \in Slots \ {i} : Users(j)' = Users(j)
    BY <1>2, <2>1, <2>5, SlotsAreNumbers DEF Users
  <2>8. Cardinality(Users(i)') = objects[i].references - 1
    <3>1. Users(i) \in SUBSET Fds
      BY DEF Users
    <3>2. IsFiniteSet(Users(i))
      BY <3>1, UsersFinite
    <3>3. Cardinality(Users(i) \ {d}) = Cardinality(Users(i)) - 1
      BY <2>6, <3>2, FS_RemoveElement
    <3> QED BY <2>2, <2>6, <3>3
  <2>9. objects[i].references - 1 \in Nat
    <3>1. Users(i)' \in SUBSET Fds
      BY DEF Users
    <3>2. IsFiniteSet(Users(i)')
      BY <3>1, UsersFinite
    <3> QED BY <2>8, <3>2, FS_CardinalityType
  <2>10. /\ obj \in Object /\ obj.references = objects[i].references - 1
         /\ obj.name = objects[i].name /\ obj.linked = objects[i].linked
         /\ obj.readonly = objects[i].readonly /\ obj.size = objects[i].size
         /\ obj.cells = objects[i].cells
    BY <1>2, <2>2, <2>9 DEF Object
  <2>11. TablesInv'
    <3>1. /\ obj.size <= Len(obj.cells)
          /\ obj.linked => objects[i].linked
          /\ obj.readonly => obj.linked
          /\ obj.references = Cardinality(Users(i)')
      BY <2>2, <2>8, <2>10
    <3> QED BY <1>2, <2>1, <2>4, <2>7, <2>10, <3>1, ReleasedStep
  <2>12. RestTypeOK'
    BY <1>2, ReturnsNothing, FilesParts DEF RestTypeOK
  <2> QED BY <2>11, <2>12, FilesPartsNext
<1> QED BY <1>1, <1>2 DEF Close

(* A call that moves the position of an open file.                         *)
LEMMA PositionStep ==
  ASSUME TablesInv, NEW d \in Fds, handles[d] # NoHandle,
         NEW position \in 0 .. SizeMax,
         handles' = [handles EXCEPT ![d].position = position],
         UNCHANGED objects
  PROVE  TablesInv'
<1>1. handles \in [Fds -> Handle] /\ objects \in [Slots -> Object]
  BY DEF TablesInv, TablesTypeOK
<1>2. handles' = [handles EXCEPT ![d] = [handles[d] EXCEPT !.position = position]]
  OBVIOUS
<1>3. /\ [handles[d] EXCEPT !.position = position] \in Handle
      /\ [handles[d] EXCEPT !.position = position].object = handles[d].object
      /\ [handles[d] EXCEPT !.position = position].flags = handles[d].flags
  BY <1>1 DEF Handle
<1>4. TablesTypeOK'
  BY <1>1, <1>2, <1>3 DEF TablesTypeOK
<1>5. \A e \in Fds : \/ handles'[e] = handles[e]
                     \/ /\ handles[e] # NoHandle
                        /\ handles'[e].object = handles[e].object
                        /\ handles'[e].flags = handles[e].flags
  BY <1>1, <1>2, <1>3
<1> QED BY <1>4, <1>5, ContentStep

LEMMA UnlinkKeeps ==
  ASSUME FilesInv, NEW raw \in RawPaths, Unlink(raw)
  PROVE  FilesInv'
<1> DEFINE found == Lookup(Normalized(raw))
<1>1. CASE \E e : Refused(e)
  BY <1>1, RefusedKeeps
<1>2. ASSUME found # {}, Returns(<<>>), UNCHANGED <<handles, directories, openDirectories>>,
             NEW i, i = First(found), ~objects[i].readonly,
             NEW obj, obj = [objects[i] EXCEPT !.linked = FALSE],
             objects' = [objects EXCEPT ![i] = Released(obj)]
      PROVE  FilesInv'
  <2>1. TablesInv /\ i \in Slots /\ objects[i].linked
    BY <1>2, FilesParts, FoundIsLinked
  <2>2. objects[i] # NoObject
    BY <2>1 DEF NoObject
  <2>3. /\ objects[i] \in Object /\ objects[i].references = Cardinality(Users(i))
        /\ objects[i].size <= Len(objects[i].cells)
    BY <2>1, DanglingParts DEF TablesInv, TablesTypeOK, ObjectsInv, SlotsOK, SlotOK
  <2>4. \A j \in Slots : Users(j)' = Users(j)
    BY <1>2 DEF Users
  <2>5. /\ obj \in Object /\ obj.references = objects[i].references
        /\ obj.name = objects[i].name /\ ~obj.linked
        /\ obj.readonly = objects[i].readonly /\ obj.size = objects[i].size
        /\ obj.cells = objects[i].cells
    BY <1>2, <2>3 DEF Object
  <2>6. handles' \in [Fds -> Handle] /\ \A e \in Fds : handles'[e] \in {handles[e], NoHandle}
    BY <1>2, <2>1 DEF TablesInv, TablesTypeOK
  <2>7. /\ obj.size <= Len(obj.cells)
        /\ obj.linked => objects[i].linked
        /\ obj.readonly => obj.linked
        /\ obj.references = Cardinality(Users(i)')
    BY <1>2, <2>1, <2>3, <2>4, <2>5
  <2>8. TablesInv'
    BY <1>2, <2>1, <2>2, <2>4, <2>5, <2>6, <2>7, ReleasedStep
  <2>9. RestTypeOK'
    BY <1>2, ReturnsNothing, FilesParts DEF RestTypeOK
  <2> QED BY <2>8, <2>9, FilesPartsNext
<1> QED BY <1>1, <1>2 DEF Unlink

(* The first of the checks of an open that is passed.                      *)
LEMMA OpenErrorNone ==
  ASSUME NEW name, NEW flags, NEW st, OpenError(name, flags, st) = "none"
  PROVE  /\ \E d \in Fds : handles[d] = NoHandle
         /\ Lookup(name) # {} => /\ ~({"create", "excl"} \subseteq flags)
                                 /\ objects[First(Lookup(name))].readonly => "write" \notin flags
         /\ Lookup(name) = {} => "create" \in flags /\ \E i \in Slots : objects[i].name = NoName
BY DEF OpenError

LEMMA OpenKeeps ==
  ASSUME FilesInv, NEW raw \in RawPaths, NEW flags \in SUBSET Flags, Open(raw, flags)
  PROVE  FilesInv'
<1> DEFINE name == Normalized(raw)
           free == {i \in Slots : objects[i].name = NoName}
<1>1. CASE \E e : Refused(e)
  BY <1>1, RefusedKeeps
<1>2. ASSUME NEW st \in StatOutcomes(name), NEW e, Fails(e), directories' = st.table
      PROVE  FilesInv'
  <2>1. directories \in Tables
    BY FilesParts DEF RestTypeOK
  <2> QED BY <1>2, <2>1, StatTables, NormalizedTyped, FailsKeeps
<1>3. ASSUME NEW st \in StatOutcomes(name), directories' = st.table, NEW i, NEW obj,
             Opens(i, obj, flags), TablesInv'
      PROVE  FilesInv'
  <2>1. directories \in Tables
    BY FilesParts DEF RestTypeOK
  <2>2. directories' \in Tables
    BY <1>3, <2>1, StatTables, NormalizedTyped
  <2>3. RestTypeOK'
    BY <1>3, <2>2, ReturnsNothing, FilesParts DEF RestTypeOK, Opens
  <2> QED BY <1>3, <2>3, FilesPartsNext
<1>4. ASSUME NEW st \in StatOutcomes(name), OpenError(name, flags, st) = "none",
             Lookup(name) # {}, NEW i, i = First(Lookup(name)),
             Opens(i, objects[i], flags)
      PROVE  TablesInv'
  <2>1. TablesInv /\ i \in Slots /\ objects[i].linked /\ objects[i].name = name
    BY <1>4, FilesParts, FoundIsLinked
  <2>2. name # NoName
    BY NormalizedTyped
  <2>3. objects[i] \in Object /\ objects[i].size <= Len(objects[i].cells)
    BY <2>1 DEF TablesInv, TablesTypeOK, ObjectsInv
  <2>4. \A j \in Slots \ {i} : objects[j].linked => objects[j].name # objects[i].name
    BY <2>1, DanglingParts DEF TablesInv, NamesDiffer
  <2>5. /\ \E d \in Fds : handles[d] = NoHandle
        /\ objects[i].readonly => "write" \notin flags
    BY <1>4, OpenErrorNone
  <2> HIDE DEF name
  <2> QED BY <1>4, <2>1, <2>2, <2>3, <2>4, <2>5, OpensStep
<1>5. ASSUME NEW st \in StatOutcomes(name), OpenError(name, flags, st) = "none",
             Lookup(name) = {}, NEW i, i = First(free),
             NEW obj, obj = [objects[i] EXCEPT !.name = name, !.linked = TRUE],
             Opens(i, obj, flags)
      PROVE  TablesInv'
  <2>1. /\ \E d \in Fds : handles[d] = NoHandle
        /\ free # {}
    BY <1>5, OpenErrorNone
  <2>2. TablesInv /\ i \in Slots /\ objects[i].name = NoName
    <3>1. free \in SUBSET Nat
      BY SlotsAreNumbers
    <3> QED BY <1>5, <2>1, <3>1, FirstIsLeast, FilesParts
  <2>3. objects[i] = NoObject
    BY <2>2 DEF TablesInv, ObjectsInv
  <2>4. name \in Seq(Components) /\ name # NoName
    BY NormalizedTyped
  <2>5. \A j \in Slots : objects[j].linked => objects[j].name # name
    BY <1>5 DEF Lookup
  <2> HIDE DEF name, free
  <2>6. /\ obj \in Object /\ obj.name = name /\ obj.linked
        /\ obj.readonly = objects[i].readonly /\ ~obj.readonly
        /\ obj.references = objects[i].references
    BY <1>5, <2>3, <2>4, EmptyIsTyped DEF Object, NoObject
  <2>7. obj.size <= Len(obj.cells)
    BY <1>5, <2>3 DEF NoObject
  <2>8. /\ \A j \in Slots \ {i} : objects[j].linked => objects[j].name # obj.name
        /\ obj.readonly => "write" \notin flags
        /\ obj.name # NoName
    BY <2>4, <2>5, <2>6
  <2> QED BY <1>5, <2>1, <2>2, <2>6, <2>7, <2>8, OpensStep
<1> QED BY <1>1, <1>2, <1>3, <1>4, <1>5 DEF Open

LEMMA SeekKeeps ==
  ASSUME FilesInv, NEW d \in Fds, NEW offset \in Int, NEW origin, Seek(d, offset, origin)
  PROVE  FilesInv'
<1>1. CASE \E e : Refused(e)
  BY <1>1, RefusedKeeps
<1>2. ASSUME handles[d] # NoHandle, NEW base, offset >= -base, offset <= SizeMax - base,
             base \in {0, handles[d].position, objects[handles[d].object].size},
             handles' = [handles EXCEPT ![d].position = base + offset],
             Returns(<<>>), UNCHANGED <<objects, directories, openDirectories>>
      PROVE  FilesInv'
  <2>1. TablesInv /\ handles[d].object \in Slots
    BY <1>2, FilesParts, OpenedIsThere
  <2>2. /\ handles[d] \in Handle /\ objects[handles[d].object] \in Object
    BY <2>1 DEF TablesInv, TablesTypeOK
  <2>3. base + offset \in 0 .. SizeMax
    <3>1. base \in Int
      BY <1>2, <2>2 DEF Handle, Object
    <3> QED BY <1>2, <3>1, FilesAssumption
  <2>4. TablesInv'
    BY <1>2, <2>1, <2>2, <2>3, PositionStep
  <2>5. RestTypeOK'
    BY <1>2, ReturnsNothing, FilesParts DEF RestTypeOK
  <2> QED BY <2>4, <2>5, FilesPartsNext
<1>3. \A origin_ \in 0 .. 2 :
        (CASE origin_ = 0 -> 0
           [] origin_ = 1 -> handles[d].position
           [] origin_ = 2 -> objects[handles[d].object].size)
          \in {0, handles[d].position, objects[handles[d].object].size}
  OBVIOUS
<1> QED BY <1>1, <1>2, <1>3 DEF Seek

LEMMA ReadKeeps ==
  ASSUME FilesInv, NEW d \in Fds, NEW count \in Nat, Read(d, count)
  PROVE  FilesInv'
<1> DEFINE h == handles[d]
           obj == objects[h.object]
           left == IF h.position < obj.size THEN obj.size - h.position ELSE 0
           got == IF count < left THEN count ELSE left
<1>1. CASE \E e : Refused(e)
  BY <1>1, RefusedKeeps
<1>2. CASE /\ h # NoHandle
           /\ Returns(SubSeq(obj.cells, h.position + 1, h.position + got))
           /\ handles' = [handles EXCEPT ![d].position = @ + got]
           /\ UNCHANGED <<objects, directories, openDirectories>>
  <2>1. TablesInv /\ h.object \in Slots
    BY <1>2, FilesParts, OpenedIsThere
  <2>2. h \in Handle /\ obj \in Object /\ obj.size <= Len(obj.cells)
    BY <2>1 DEF TablesInv, TablesTypeOK, ObjectsInv
  <2>3. /\ h.position \in 0 .. SizeMax /\ obj.size \in 0 .. SizeMax
        /\ Len(obj.cells) \in Nat
    BY <2>2 DEF Handle, Object
  <2>4. /\ got \in Nat /\ h.position + got \in 0 .. SizeMax
        /\ got # 0 => h.position + got <= Len(obj.cells)
    <3> DEFINE at == h.position
               size == obj.size
               length == Len(obj.cells)
    <3>1. /\ at \in Nat /\ size \in Nat /\ length \in Nat /\ SizeMax \in Nat
          /\ at <= SizeMax /\ size <= SizeMax /\ size <= length
      BY <2>2, <2>3, FilesAssumption
    <3>2. left = IF at < size THEN size - at ELSE 0
      OBVIOUS
    <3> HIDE DEF left, at, size, length
    <3>3. left \in Nat /\ at + left <= SizeMax /\ (left # 0 => at + left <= length)
      BY <3>1, <3>2
    <3>4. /\ got \in Nat /\ at + got \in 0 .. SizeMax
          /\ got # 0 => at + got <= length
      BY <3>1, <3>3
    <3> QED BY <3>4 DEF at, length
  <2>5. SubSeq(obj.cells, h.position + 1, h.position + got) \in Seq(Bytes)
    <3>1. \A k \in (h.position + 1) .. (h.position + got) : obj.cells[k] \in Bytes
      <4>1. obj.cells \in Seq(Bytes)
        BY <2>2 DEF Object
      <4> HIDE DEF obj, got, left
      <4> QED BY <2>3, <2>4, <4>1, ElementOfSeq, SMTT(60)
    <3> HIDE DEF obj, got, left
    <3> QED BY <2>3, <2>4, <3>1, SubSeqProperties
  <2>6. TablesInv'
    <3>1. handles' = [handles EXCEPT ![d].position = h.position + got]
      BY <1>2
    <3> HIDE DEF got, left, obj
    <3> QED BY <1>2, <2>1, <2>4, <3>1, PositionStep
  <2>7. RestTypeOK'
    BY <1>2, <2>5, ReturnsTyped, FilesParts DEF RestTypeOK
  <2> QED BY <2>6, <2>7, FilesPartsNext
<1> QED BY <1>1, <1>2 DEF Read

(* What a write leaves of an object: as long as before or longer, and only *)
(* bytes, since the gap is cleared.                                        *)
LEMMA FilledTyped ==
  ASSUME NEW obj \in Object, obj.size <= Len(obj.cells), NEW text \in Seq(Bytes),
         NEW position \in Nat, position + Len(text) <= SizeMax
  PROVE  LET new == Filled(obj, position, text)
         IN  /\ new \in Object /\ new.size <= Len(new.cells)
             /\ new.size = IF position + Len(text) > obj.size
                           THEN position + Len(text) ELSE obj.size
             /\ new.name = obj.name /\ new.linked = obj.linked
             /\ new.readonly = obj.readonly /\ new.references = obj.references
             /\ Len(new.cells) = IF position + Len(text) > Len(obj.cells)
                                 THEN position + Len(text) ELSE Len(obj.cells)
             /\ \A j \in 1 .. Len(new.cells) :
                  new.cells[j] = IF position < j /\ j <= position + Len(text)
                                 THEN text[j - position]
                                 ELSE IF obj.size < j /\ j <= position THEN Zero
                                 ELSE obj.cells[j]
<1> DEFINE end == position + Len(text)
           grown == Grown(obj.cells, end)
           length == IF end > Len(obj.cells) THEN end ELSE Len(obj.cells)
           size == IF end > obj.size THEN end ELSE obj.size
           cell(j) == IF position < j /\ j <= end THEN text[j - position]
                      ELSE IF obj.size < j /\ j <= position THEN Zero
                      ELSE grown[j]
           cells == [j \in 1 .. length |-> cell(j)]
           new == [obj EXCEPT !.cells = cells, !.size = size]
<1>1. /\ Len(text) \in Nat /\ end \in Nat /\ end <= SizeMax /\ SizeMax \in Nat
      /\ obj.size \in Nat /\ obj.size <= SizeMax /\ obj.cells \in Seq(Bytes)
      /\ Len(obj.cells) \in Nat
  BY FilesAssumption DEF Object
<1>2. length \in Nat /\ size \in 0 .. SizeMax /\ size <= length
  BY <1>1
<1>3. Len(grown) = length /\ \A j \in 1 .. Len(obj.cells) : grown[j] = obj.cells[j]
  <2>1. grown = [j \in 1 .. length |-> IF j <= Len(obj.cells) THEN obj.cells[j] ELSE Junk]
    BY DEF Grown
  <2>2. 1 .. Len(obj.cells) \subseteq 1 .. length
    BY <1>1
  <2> HIDE DEF length, grown
  <2>3. DOMAIN grown = 1 .. length
    BY <2>1
  <2>4. Len(grown) = length
    BY <1>2, <2>1, <2>3, FunctionLength
  <2>5. ASSUME NEW j \in 1 .. Len(obj.cells)
        PROVE  grown[j] = obj.cells[j]
    BY <1>1, <2>1, <2>2
  <2> QED BY <2>4, <2>5
<1>4. Filled(obj, position, text) = new
  <2>1. Filled(obj, position, text) =
          [obj EXCEPT !.cells = [j \in 1 .. Len(grown) |-> cell(j)],
                      !.size = IF end > obj.size THEN end ELSE obj.size]
    BY DEF Filled
  <2> QED BY <1>3, <2>1
<1>5. \A j \in 1 .. length :
        /\ cell(j) \in Bytes
        /\ cell(j) = IF position < j /\ j <= end THEN text[j - position]
                     ELSE IF obj.size < j /\ j <= position THEN Zero
                     ELSE obj.cells[j]
  <2> TAKE j \in 1 .. length
  <2> HIDE DEF grown
  <2>1. CASE position < j /\ j <= end
    <3>1. j - position \in 1 .. Len(text)
      BY <1>1, <2>1
    <3>2. text[j - position] \in Bytes
      BY <3>1, ElementOfSeq
    <3> QED BY <2>1, <3>2
  <2>2. CASE ~(position < j /\ j <= end) /\ obj.size < j /\ j <= position
    BY <2>2, FilesAssumption
  <2>3. CASE ~(position < j /\ j <= end) /\ ~(obj.size < j /\ j <= position)
    <3>1. j \in 1 .. Len(obj.cells)
      BY <1>1, <2>3
    <3>2. grown[j] = obj.cells[j] /\ obj.cells[j] \in Bytes
      BY <1>1, <1>3, <3>1, ElementOfSeq
    <3> QED BY <2>3, <3>2
  <2> QED BY <2>1, <2>2, <2>3
<1> HIDE DEF end, grown, length, size, cell
<1>6. cells \in Seq(Bytes) /\ Len(cells) = length
  <2>1. \A j \in 1 .. length : cell(j) \in Bytes
    BY <1>5
  <2>2. cells \in Seq(Bytes)
    BY <1>2, <2>1, IsASeq
  <2>3. DOMAIN cells = 1 .. length
    OBVIOUS
  <2> HIDE DEF cells
  <2> QED BY <1>2, <2>2, <2>3, FunctionLength
<1>7. \A j \in 1 .. length : cells[j] = cell(j)
  OBVIOUS
<1> HIDE DEF cells
<1>8. new \in Object
  BY <1>2, <1>6 DEF Object
<1>9. /\ new.cells = cells /\ new.size = size /\ new.name = obj.name
      /\ new.linked = obj.linked /\ new.readonly = obj.readonly
      /\ new.references = obj.references
  BY DEF Object
<1> HIDE DEF new
<1>10. new.size <= Len(new.cells)
  BY <1>2, <1>6, <1>9
<1> QED BY <1>4, <1>5, <1>6, <1>7, <1>8, <1>9, <1>10 DEF end, length, size

(* A call that changes what one object holds.                              *)
LEMMA ObjectStep ==
  ASSUME TablesInv, NEW i \in Slots, objects[i] # NoObject,
         NEW obj \in Object, obj.size <= Len(obj.cells),
         obj.name = objects[i].name, obj.linked = objects[i].linked,
         obj.readonly = objects[i].readonly, obj.references = objects[i].references,
         objects' = [objects EXCEPT ![i] = obj],
         handles' \in [Fds -> Handle],
         \A d \in Fds :
           \/ handles'[d] = handles[d]
           \/ /\ handles[d] # NoHandle
              /\ handles'[d].object = handles[d].object
              /\ handles'[d].flags = handles[d].flags
  PROVE  TablesInv'
<1>1. objects \in [Slots -> Object]
  BY DEF TablesInv, TablesTypeOK
<1>2. TablesTypeOK'
  BY <1>1 DEF TablesTypeOK
<1>3. \A j \in Slots : objects'[j] = IF j = i THEN obj ELSE objects[j]
  BY <1>1
<1> QED BY <1>2, <1>3, ContentStep

LEMMA WriteKeeps ==
  ASSUME FilesInv, NEW d \in Fds, NEW text \in Seq(Bytes), Write(d, text)
  PROVE  FilesInv'
<1> DEFINE h == handles[d]
           at == IF "append" \in h.flags THEN objects[h.object].size ELSE h.position
<1>1. CASE \E e : Refused(e)
  BY <1>1, RefusedKeeps
<1>2. ASSUME h # NoHandle, NEW i, i = h.object, NEW position, position = at,
             Len(text) <= SizeMax - position,
             objects' = [objects EXCEPT ![i] = Filled(@, position, text)],
             handles' = [handles EXCEPT ![d].position = position + Len(text)],
             Returns(<<>>), UNCHANGED <<directories, openDirectories>>
      PROVE  FilesInv'
  <2>1. TablesInv /\ i \in Slots /\ objects[i] # NoObject
    BY <1>2, FilesParts, OpenedIsThere
  <2>2. /\ h \in Handle /\ objects[i] \in Object
        /\ objects[i].size <= Len(objects[i].cells)
        /\ handles \in [Fds -> Handle]
    BY <2>1 DEF TablesInv, TablesTypeOK, ObjectsInv
  <2>3. position \in Nat /\ Len(text) \in Nat /\ position + Len(text) \in 0 .. SizeMax
    <3>1. position \in Nat
      BY <1>2, <2>2 DEF Handle, Object
    <3>2. PICK n \in Nat : n = Len(text)
      BY LenProperties
    <3>3. n <= SizeMax - position /\ SizeMax \in Nat
      BY <1>2, <3>2, FilesAssumption
    <3>4. position + n \in 0 .. SizeMax
      BY <3>1, <3>3
    <3> QED BY <3>1, <3>2, <3>4
  <2>4. PICK obj \in Object :
          /\ obj = Filled(objects[i], position, text)
          /\ obj.size <= Len(obj.cells)
          /\ obj.name = objects[i].name /\ obj.linked = objects[i].linked
          /\ obj.readonly = objects[i].readonly /\ obj.references = objects[i].references
    BY <2>2, <2>3, FilledTyped
  <2>5. objects' = [objects EXCEPT ![i] = obj]
    BY <1>2, <2>4
  <2>6. handles' = [handles EXCEPT ![d] = [h EXCEPT !.position = position + Len(text)]]
    BY <1>2
  <2>7. /\ [h EXCEPT !.position = position + Len(text)] \in Handle
        /\ [h EXCEPT !.position = position + Len(text)].object = h.object
        /\ [h EXCEPT !.position = position + Len(text)].flags = h.flags
    BY <2>2, <2>3 DEF Handle
  <2>8. /\ handles' \in [Fds -> Handle]
        /\ \A e \in Fds : \/ handles'[e] = handles[e]
                          \/ /\ handles[e] # NoHandle
                             /\ handles'[e].object = handles[e].object
                             /\ handles'[e].flags = handles[e].flags
    BY <1>2, <2>2, <2>6, <2>7
  <2>9. TablesInv'
    BY <2>1, <2>4, <2>5, <2>8, ObjectStep
  <2>10. RestTypeOK'
    BY <1>2, ReturnsNothing, FilesParts DEF RestTypeOK
  <2> QED BY <2>9, <2>10, FilesPartsNext
<1> HIDE DEF at
<1>3. \/ \E e : Refused(e)
      \/ /\ h # NoHandle /\ Len(text) <= SizeMax - at
         /\ objects' = [objects EXCEPT ![h.object] = Filled(@, at, text)]
         /\ handles' = [handles EXCEPT ![d].position = at + Len(text)]
         /\ Returns(<<>>) /\ UNCHANGED <<directories, openDirectories>>
  BY DEF Write, at
<1> QED BY <1>1, <1>2, <1>3

LEMMA ReplaceKeeps ==
  ASSUME FilesInv, NEW raw \in RawPaths, NEW text \in Seq(Bytes), NEW own,
         ReplaceOwned(raw, text, own)
  PROVE  FilesInv'
<1> DEFINE found == Lookup(Normalized(raw))
<1>1. CASE \E e : Refused(e)
  BY <1>1, RefusedKeeps
<1>2. ASSUME found # {}, Len(text) <= SizeMax, NEW i, i = First(found),
             objects' = [objects EXCEPT ![i].cells = text, ![i].size = Len(text)],
             Returns(<<>>), UNCHANGED <<handles, directories, openDirectories>>
      PROVE  FilesInv'
  <2>1. TablesInv /\ i \in Slots /\ objects[i].linked
    BY <1>2, FilesParts, FoundIsLinked
  <2>2. objects[i] # NoObject
    BY <2>1 DEF NoObject
  <2>3. objects \in [Slots -> Object] /\ objects[i] \in Object /\ handles \in [Fds -> Handle]
    BY <2>1 DEF TablesInv, TablesTypeOK
  <2> DEFINE new == [objects[i] EXCEPT !.cells = text, !.size = Len(text)]
  <2>4. objects' = [objects EXCEPT ![i] = new]
    BY <1>2, <2>1, <2>3 DEF Object
  <2>5. /\ new \in Object /\ new.size <= Len(new.cells)
        /\ new.name = objects[i].name /\ new.linked = objects[i].linked
        /\ new.readonly = objects[i].readonly /\ new.references = objects[i].references
    <3>1. Len(text) \in 0 .. SizeMax
      BY <1>2, FilesAssumption
    <3>2. new \in Object
      BY <2>3, <3>1 DEF Object
    <3>3. /\ new.size = Len(text) /\ new.cells = text
          /\ new.name = objects[i].name /\ new.linked = objects[i].linked
          /\ new.readonly = objects[i].readonly /\ new.references = objects[i].references
      BY <2>3 DEF Object
    <3> HIDE DEF new
    <3> QED BY <3>1, <3>2, <3>3
  <2> HIDE DEF new
  <2>6. TablesInv'
    BY <1>2, <2>1, <2>2, <2>3, <2>4, <2>5, ObjectStep
  <2>7. RestTypeOK'
    BY <1>2, ReturnsNothing, FilesParts DEF RestTypeOK
  <2> QED BY <2>6, <2>7, FilesPartsNext
<1> QED BY <1>1, <1>2 DEF ReplaceOwned

LEMMA InitInv == Init => FilesInv
<1> SUFFICES ASSUME Init PROVE FilesInv
  OBVIOUS
<1>1. /\ \A i \in Slots : objects[i] = NoObject
      /\ \A d \in Fds : handles[d] = NoHandle
  BY DEF Init
<1>2. TypeOK
  <2>1. <<>> \in Seq(Bytes) /\ 0 \in 0 .. OpenMax
    BY FilesAssumption
  <2> QED BY <2>1, EmptyIsTyped DEF Init, TypeOK, TablesTypeOK
<1>3. /\ NoObject.size <= Len(NoObject.cells) /\ ~NoObject.readonly /\ ~NoObject.linked
      /\ NoObject.references = 0 /\ NoHandle.object = -1
  BY DEF NoObject, NoHandle
<1>4. ObjectsInv /\ HandlesInv
  BY <1>1, <1>3 DEF ObjectsInv, HandlesInv
<1>5. NamesDiffer
  BY <1>1, <1>3 DEF NamesDiffer
<1>6. SlotsOK
  <2> SUFFICES ASSUME NEW i \in Slots PROVE SlotOK(i)
    BY DEF SlotsOK
  <2>1. Users(i) = {}
    BY <1>1, <1>3, SlotsAreNumbers DEF Users
  <2>2. Cardinality(Users(i)) = 0
    BY <2>1, FS_EmptySet
  <2> QED BY <1>1, <1>3, <2>1, <2>2 DEF SlotOK
<1> QED BY <1>2, <1>4, <1>5, <1>6, DanglingParts DEF FilesInv, TablesInv, TypeOK

LEMMA CallKeeps == FilesInv /\ FileCall => FilesInv'
<1> SUFFICES ASSUME FilesInv, FileCall PROVE FilesInv'
  OBVIOUS
<1>1. CASE \E packet \in Packets : Mount(packet)
  BY <1>1, MountKeeps
<1>2. ASSUME NEW raw \in RawPaths,
             \/ Stat(raw) \/ Unlink(raw) \/ Output(raw)
             \/ \E flags \in FlagSets : Open(raw, flags)
             \/ \E text \in Texts, own \in BOOLEAN : ReplaceOwned(raw, text, own)
             \/ \E m \in AccessModes : Access(raw, m.write, m.execute)
      PROVE  FilesInv'
  <2>1. CASE \E flags \in FlagSets : Open(raw, flags)
    BY <2>1, OpenKeeps, FilesAssumption
  <2>2. CASE \E text \in Texts, own \in BOOLEAN : ReplaceOwned(raw, text, own)
    BY <2>2, ReplaceKeeps, FilesAssumption
  <2>3. CASE \E m \in AccessModes : Access(raw, m.write, m.execute)
    BY <2>3, AccessKeeps
  <2> QED BY <1>2, <2>1, <2>2, <2>3, StatKeeps, UnlinkKeeps, OutputKeeps
<1>3. ASSUME NEW d \in Fds,
             \/ Close(d) \/ Fstat(d)
             \/ \E count \in Counts : Read(d, count)
             \/ \E text \in Texts : Write(d, text)
             \/ \E offset \in Offsets, origin \in 0 .. 3 : Seek(d, offset, origin)
      PROVE  FilesInv'
  <2>1. CASE Fstat(d)
    BY <2>1, RefusedKeeps DEF Fstat
  <2>2. CASE \E count \in Counts : Read(d, count)
    BY <2>2, ReadKeeps, FilesAssumption
  <2>3. CASE \E text \in Texts : Write(d, text)
    BY <2>3, WriteKeeps, FilesAssumption
  <2>4. CASE \E offset \in Offsets, origin \in 0 .. 3 : Seek(d, offset, origin)
    BY <2>4, SeekKeeps, FilesAssumption
  <2> QED BY <1>3, <2>1, <2>2, <2>3, <2>4, CloseKeeps
<1> QED BY <1>1, <1>2, <1>3 DEF FileCall

LEMMA UnchangedKeeps == FilesInv /\ UNCHANGED fileVars => FilesInv'
<1>1. ASSUME FilesInv, UNCHANGED fileVars
      PROVE  FilesInv'
  <2>1. TablesInv'
    BY <1>1, TablesStay, FilesParts DEF fileVars
  <2>2. RestTypeOK'
    BY <1>1, FilesParts DEF RestTypeOK, fileVars
  <2> QED BY <2>1, <2>2, FilesPartsNext
<1> QED BY <1>1

LEMMA NextKeeps == FilesInv /\ [Next]_fileVars => FilesInv'
BY CallKeeps, UnchangedKeeps, DirectoryCloseKeeps, DirectoryOpenKeeps DEF Next

(* Open as newlib calls it.                                                *)
LEMMA PathCallKeeps == FilesInv /\ PathCall => FilesInv'
<1> SUFFICES ASSUME FilesInv, NEW raw \in RawPaths, NEW flags \in OpenModes,
                    SysOpen(raw, flags) \/ SysAccess(raw, flags)
             PROVE  FilesInv'
  BY DEF PathCall
<1>1. CASE SysOpen(raw, flags)
  <2>1. CASE Refused("EINVAL")
    BY <2>1, RefusedKeeps
  <2>2. CASE Open(raw, FileFlags(flags)) /\ FileFlags(flags) \in FlagSets
    BY <2>2, OpenKeeps, FilesAssumption
  <2> QED BY <1>1, <2>1, <2>2, ModesAssumption DEF SysOpen
<1>2. CASE SysAccess(raw, flags)
  <2>1. CASE Refused("EINVAL")
    BY <2>1, RefusedKeeps
  <2> QED BY <1>2, <2>1, AccessKeeps DEF SysAccess
<1> QED BY <1>1, <1>2

-----------------------------------------------------------------------------
(* The tables of a guest are at all times of their types (files.c).        *)
THEOREM FilesTyped == Spec => []TypeOK
<1>1. FilesInv => TypeOK
  BY DEF FilesInv
<1> QED BY <1>1, InitInv, NextKeeps, PTL DEF Spec

(* Whatever is opened, closed, unlinked, replaced and mounted, however     *)
(* often, an object has as many references as there are descriptors of it, *)
(* and is given up exactly when neither a name nor a descriptor is left    *)
(* (release of files.c).                                                   *)
THEOREM NothingDangles == Spec => []NoDangling
<1>1. FilesInv => NoDangling
  BY DEF FilesInv, TablesInv
<1> QED BY <1>1, InitInv, NextKeeps, PTL DEF Spec

-----------------------------------------------------------------------------
(* The input files of a job, call by call.                                 *)
Kept(i) == objects[i].readonly =>
             objects'[i] = [objects[i] EXCEPT !.references = objects'[i].references]

LEMMA SameIsKept ==
  ASSUME TablesInv, NEW i \in Slots, objects'[i] = objects[i]
  PROVE  Kept(i)
<1>1. objects[i] \in Object
  BY DEF TablesInv, TablesTypeOK
<1>2. objects[i] = [objects[i] EXCEPT !.references = objects[i].references]
  BY <1>1 DEF Object
<1> QED BY <1>2 DEF Kept

LEMMA WritableIsKept ==
  ASSUME NEW i \in Slots, ~objects[i].readonly
  PROVE  Kept(i)
BY DEF Kept

(* One object may change, and is no input file or loses nothing.           *)
LEMMA OneIsKept ==
  ASSUME TablesInv, NEW i \in Slots, NEW obj,
         objects' = [objects EXCEPT ![i] = obj],
         \/ ~objects[i].readonly
         \/ obj = [objects[i] EXCEPT !.references = obj.references]
  PROVE  \A j \in Slots : Kept(j)
<1> TAKE j \in Slots
<1>1. objects \in [Slots -> Object]
  BY DEF TablesInv, TablesTypeOK
<1>2. CASE j # i
  BY <1>1, <1>2, SameIsKept
<1>3. CASE j = i
  <2>1. objects'[i] = obj
    BY <1>1
  <2> QED BY <1>3, <2>1 DEF Kept
<1> QED BY <1>2, <1>3

LEMMA OpenKeepsInputs ==
  ASSUME TablesInv, NEW raw \in RawPaths, NEW flags \in SUBSET Flags, Open(raw, flags)
  PROVE  \A j \in Slots : Kept(j)
<1> DEFINE name == Normalized(raw)
           free == {i \in Slots : objects[i].name = NoName}
<1>1. CASE UNCHANGED objects
  BY <1>1, SameIsKept
<1>2. ASSUME NEW i \in Slots, ~objects[i].readonly, NEW obj, Opens(i, obj, flags)
      PROVE  \A j \in Slots : Kept(j)
  BY <1>2, OneIsKept DEF Opens
<1>3. ASSUME NEW i \in Slots, "write" \notin flags, ~BadFlags(flags),
             Opens(i, objects[i], flags)
      PROVE  \A j \in Slots : Kept(j)
  <2> DEFINE new == [objects[i] EXCEPT !.size = IF "trunc" \in flags THEN 0 ELSE @,
                                       !.references = @ + 1]
  <2>1. objects' = [objects EXCEPT ![i] = new]
    BY <1>3 DEF Opens
  <2>2. "trunc" \notin flags
    BY <1>3 DEF BadFlags
  <2>3. objects[i] \in Object
    BY DEF TablesInv, TablesTypeOK
  <2>4. new = [objects[i] EXCEPT !.references = objects[i].references + 1]
    BY <2>2, <2>3 DEF Object
  <2>5. new.references = objects[i].references + 1
    BY <2>3, <2>4 DEF Object
  <2> HIDE DEF new
  <2> QED BY <2>1, <2>4, <2>5, OneIsKept
<1>4. ASSUME NEW st, OpenError(name, flags, st) = "none", ~BadFlags(flags),
             Lookup(name) # {}, NEW i, i = First(Lookup(name)), Opens(i, objects[i], flags)
      PROVE  \A j \in Slots : Kept(j)
  <2>1. i \in Slots
    BY <1>4, FoundIsLinked
  <2>2. objects[i].readonly => "write" \notin flags
    BY <1>4, OpenErrorNone
  <2> QED BY <1>2, <1>3, <1>4, <2>1, <2>2
<1>5. ASSUME NEW st, OpenError(name, flags, st) = "none",
             Lookup(name) = {}, NEW i, i = First(free), NEW obj, Opens(i, obj, flags)
      PROVE  \A j \in Slots : Kept(j)
  <2>1. free # {} /\ free \in SUBSET Nat
    BY <1>5, OpenErrorNone, SlotsAreNumbers
  <2>2. i \in Slots /\ objects[i].name = NoName
    BY <1>5, <2>1, FirstIsLeast
  <2>3. ~objects[i].readonly
    BY <2>2 DEF TablesInv, ObjectsInv, NoObject
  <2> QED BY <1>2, <1>5, <2>2, <2>3
<1> QED BY <1>1, <1>4, <1>5 DEF Open, Refused, Fails

LEMMA CloseKeepsInputs ==
  ASSUME TablesInv, NEW d \in Fds, Close(d)
  PROVE  \A j \in Slots : Kept(j)
<1>1. CASE UNCHANGED objects
  BY <1>1, SameIsKept
<1>2. ASSUME handles[d] # NoHandle, NEW i, i = handles[d].object,
             NEW obj, obj = [objects[i] EXCEPT !.references = @ - 1],
             objects' = [objects EXCEPT ![i] = Released(obj)]
      PROVE  \A j \in Slots : Kept(j)
  <2>1. i \in Slots
    BY <1>2, OpenedIsThere
  <2>2. objects[i] \in Object /\ (objects[i].readonly => objects[i].linked)
    BY <2>1 DEF TablesInv, TablesTypeOK, ObjectsInv
  <2>3. /\ obj.linked = objects[i].linked
        /\ obj.references = objects[i].references - 1
    BY <1>2, <2>2 DEF Object
  <2>4. obj.linked => Released(obj) = [objects[i] EXCEPT !.references = Released(obj).references]
    BY <1>2, <2>3 DEF Released
  <2> QED BY <1>2, <2>1, <2>2, <2>3, <2>4, OneIsKept
<1> QED BY <1>1, <1>2 DEF Close, Refused, Fails

LEMMA WriteKeepsInputs ==
  ASSUME TablesInv, NEW d \in Fds, NEW text, Write(d, text)
  PROVE  \A j \in Slots : Kept(j)
<1>1. CASE UNCHANGED objects
  BY <1>1, SameIsKept
<1>2. ASSUME handles[d] # NoHandle, "write" \in handles[d].flags,
             NEW i, i = handles[d].object,
             NEW obj, objects' = [objects EXCEPT ![i] = obj]
      PROVE  \A j \in Slots : Kept(j)
  <2>1. i \in Slots /\ ~objects[i].readonly
    BY <1>2, OpenedIsThere DEF TablesInv, HandlesInv
  <2> QED BY <1>2, <2>1, OneIsKept
<1> DEFINE at == IF "append" \in handles[d].flags
                 THEN objects[handles[d].object].size ELSE handles[d].position
<1>3. \/ UNCHANGED objects
      \/ /\ handles[d] # NoHandle /\ "write" \in handles[d].flags
         /\ objects' = [objects EXCEPT ![handles[d].object] =
                          Filled(objects[handles[d].object], at, text)]
  BY DEF Write, Refused, Fails
<1> HIDE DEF at
<1> QED BY <1>1, <1>2, <1>3

LEMMA UnlinkKeepsInputs ==
  ASSUME TablesInv, NEW raw \in RawPaths, Unlink(raw)
  PROVE  \A j \in Slots : Kept(j)
<1> DEFINE found == Lookup(Normalized(raw))
<1>1. CASE UNCHANGED objects
  BY <1>1, SameIsKept
<1>2. ASSUME found # {}, NEW i, i = First(found), ~objects[i].readonly,
             NEW obj, objects' = [objects EXCEPT ![i] = obj]
      PROVE  \A j \in Slots : Kept(j)
  BY <1>2, FoundIsLinked, OneIsKept
<1> QED BY <1>1, <1>2 DEF Unlink, Refused, Fails

LEMMA ReplaceKeepsInputs ==
  ASSUME TablesInv, NEW raw \in RawPaths, NEW text, NEW own, ReplaceOwned(raw, text, own)
  PROVE  \A j \in Slots : Kept(j)
<1> DEFINE found == Lookup(Normalized(raw))
<1>1. CASE UNCHANGED objects
  BY <1>1, SameIsKept
<1>2. ASSUME found # {}, NEW i, i = First(found), ~objects[i].readonly,
             objects' = [objects EXCEPT ![i].cells = text, ![i].size = Len(text)]
      PROVE  \A j \in Slots : Kept(j)
  <2>1. i \in Slots
    BY <1>2, FoundIsLinked
  <2>2. objects \in [Slots -> Object] /\ objects[i] \in Object
    BY <2>1 DEF TablesInv, TablesTypeOK
  <2>3. objects' = [objects EXCEPT ![i] = [objects[i] EXCEPT !.cells = text, !.size = Len(text)]]
    BY <1>2, <2>1, <2>2 DEF Object
  <2> QED BY <1>2, <2>1, <2>3, OneIsKept
<1> QED BY <1>1, <1>2 DEF ReplaceOwned, Refused, Fails

InputsKept == Busy => \A j \in Slots : Kept(j)

LEMMA CallKeepsInputs == FilesInv /\ FileCall => InputsKept
<1> SUFFICES ASSUME FilesInv, FileCall PROVE InputsKept
  OBVIOUS
<1>1. TablesInv
  BY DEF FilesInv
<1>2. CASE UNCHANGED objects
  BY <1>1, <1>2, SameIsKept DEF InputsKept
<1>3. CASE \E packet \in Packets : Mount(packet)
  <2>1. ~Busy \/ UNCHANGED objects
    BY <1>3 DEF Mount, Refused, Fails
  <2> QED BY <1>2, <2>1 DEF InputsKept
<1>4. ASSUME NEW raw \in RawPaths,
             \/ Stat(raw) \/ Unlink(raw) \/ Output(raw)
             \/ \E flags \in FlagSets : Open(raw, flags)
             \/ \E text \in Texts, own \in BOOLEAN : ReplaceOwned(raw, text, own)
             \/ \E m \in AccessModes : Access(raw, m.write, m.execute)
      PROVE  InputsKept
  <2>1. CASE \E flags \in FlagSets : Open(raw, flags)
    BY <1>1, <2>1, OpenKeepsInputs, FilesAssumption DEF InputsKept
  <2>2. CASE \E text \in Texts, own \in BOOLEAN : ReplaceOwned(raw, text, own)
    BY <1>1, <2>2, ReplaceKeepsInputs DEF InputsKept
  <2>3. CASE Unlink(raw)
    BY <1>1, <2>3, UnlinkKeepsInputs DEF InputsKept
  <2>4. CASE Stat(raw) \/ Output(raw) \/ \E m \in AccessModes : Access(raw, m.write, m.execute)
    BY <1>2, <2>4 DEF Stat, Output, Access, Refused, Fails
  <2> QED BY <1>4, <2>1, <2>2, <2>3, <2>4
<1>5. ASSUME NEW d \in Fds,
             \/ Close(d) \/ Fstat(d)
             \/ \E count \in Counts : Read(d, count)
             \/ \E text \in Texts : Write(d, text)
             \/ \E offset \in Offsets, origin \in 0 .. 3 : Seek(d, offset, origin)
      PROVE  InputsKept
  <2>1. CASE Close(d)
    BY <1>1, <2>1, CloseKeepsInputs DEF InputsKept
  <2>2. CASE \E text \in Texts : Write(d, text)
    BY <1>1, <2>2, WriteKeepsInputs DEF InputsKept
  <2>3. CASE Fstat(d) \/ \E count \in Counts : Read(d, count)
    BY <1>2, <2>3 DEF Fstat, Read, Refused, Fails
  <2>4. CASE \E offset \in Offsets, origin \in 0 .. 3 : Seek(d, offset, origin)
    BY <1>2, <2>4 DEF Seek, Refused, Fails
  <2> QED BY <1>5, <2>1, <2>2, <2>3, <2>4
<1> QED BY <1>3, <1>4, <1>5 DEF FileCall

LEMMA NextKeepsInputs == FilesInv /\ [Next]_fileVars => InputsKept
<1>1. ASSUME FilesInv, UNCHANGED objects
      PROVE  InputsKept
  BY <1>1, SameIsKept DEF InputsKept, FilesInv
<1>2. ASSUME DirectoryClose
      PROVE  UNCHANGED objects
  BY <1>2 DEF DirectoryClose
<1>3. ASSUME NEW raw, DirectoryOpen(raw)
      PROVE  UNCHANGED objects
  BY <1>3 DEF DirectoryOpen, Refused, Fails
<1> QED BY <1>1, <1>2, <1>3, CallKeepsInputs DEF Next, fileVars

(* While a program has anything open, no call changes what an input file   *)
(* of its job is called and holds.                                         *)
THEOREM InputsAreKept == Spec => InputsStay
<1>1. ASSUME FilesInv, [Next]_fileVars
      PROVE  [Busy => \A i \in Slots :
                objects[i].readonly =>
                  objects'[i] = [objects[i] EXCEPT !.references = objects'[i].references]]_fileVars
  BY <1>1, NextKeepsInputs DEF InputsKept, Kept
<1>2. Spec => []FilesInv
  BY InitInv, NextKeeps, PTL DEF Spec
<1> QED BY <1>1, <1>2, PTL DEF Spec, InputsStay

-----------------------------------------------------------------------------
(* The break, in words of any width.                                       *)
LEMMA Residue ==
  ASSUME NEW m \in Nat \ {0}, NEW x \in 0 .. (m - 1)
  PROVE  x % m = x
OBVIOUS

LEMMA SbrkExact ==
  ASSUME heapUsed \in 0 .. HeapBytes, NEW increment \in Increments
  PROVE  LET sum == heapUsed + increment
         IN  /\ Moved(increment) = sum \/ sum \notin 0 .. HeapBytes
             /\ (IF increment >= 0 THEN Rises(increment) ELSE Falls(increment))
                  <=> sum \notin 0 .. HeapBytes
<1> DEFINE sum == heapUsed + increment
<1>1. /\ HalfRange \in Nat \ {0} /\ HeapBytes \in Nat /\ HeapBytes < HalfRange
      /\ increment \in Int /\ -HalfRange <= increment /\ increment < HalfRange
      /\ SizeT \in Nat \ {0} /\ SizeT = 2 * HalfRange
      /\ heapUsed \in Nat /\ heapUsed <= HeapBytes
  BY CallsAssumption DEF Increments, SizeT
<1>2. CASE increment >= 0
  <2>1. increment % SizeT = increment
    BY <1>1, <1>2, Residue
  <2>2. (HeapBytes - heapUsed) % SizeT = HeapBytes - heapUsed
    BY <1>1, Residue
  <2>3. Rises(increment) <=> sum \notin 0 .. HeapBytes
    BY <1>1, <1>2, <2>1, <2>2 DEF Rises
  <2>4. sum \in 0 .. HeapBytes => Moved(increment) = sum
    <3>1. sum \in 0 .. HeapBytes => sum % SizeT = sum
      BY <1>1, Residue
    <3> QED BY <1>2, <2>1, <3>1 DEF Moved
  <2> QED BY <1>2, <2>3, <2>4
<1>3. CASE increment < 0
  <2>1. (-(increment + 1)) % SizeT = -(increment + 1)
    BY <1>1, <1>3, Residue
  <2>2. (-(increment + 1) + 1) % SizeT = -(increment + 1) + 1
    BY <1>1, <1>3, Residue
  <2>3. Decrease(increment) = -increment
    BY <1>1, <2>1, <2>2 DEF Decrease
  <2>4. Falls(increment) <=> sum \notin 0 .. HeapBytes
    BY <1>1, <1>3, <2>3 DEF Falls
  <2>5. sum \in 0 .. HeapBytes => Moved(increment) = sum
    <3>1. heapUsed - Decrease(increment) = sum
      BY <1>1, <2>3
    <3>2. sum \in 0 .. HeapBytes => sum % SizeT = sum
      BY <1>1, Residue
    <3> QED BY <1>1, <1>3, <3>1, <3>2 DEF Moved
  <2> QED BY <1>1, <1>3, <2>4, <2>5
<1> QED BY <1>1, <1>2, <1>3

BreakInv == heapUsed \in 0 .. HeapBytes /\ BreakExact

LEMMA OtherCallsKeepBreak ==
  ASSUME BreakInv, UNCHANGED heapUsed, answer'.before = heapUsed, answer'.call # "sbrk"
  PROVE  BreakInv'
BY DEF BreakInv, BreakExact

LEMMA SbrkKeepsBreak ==
  ASSUME BreakInv, NEW increment \in Increments, Sbrk(increment)
  PROVE  BreakInv'
<1> DEFINE sum == heapUsed + increment
<1>1. /\ heapUsed \in 0 .. HeapBytes
      /\ Moved(increment) = sum \/ sum \notin 0 .. HeapBytes
      /\ (IF increment >= 0 THEN Rises(increment) ELSE Falls(increment))
           <=> sum \notin 0 .. HeapBytes
  BY SbrkExact DEF BreakInv
<1>2. CASE sum \in 0 .. HeapBytes
  <2>1. /\ answer' = [call |-> "sbrk", asked |-> increment, before |-> heapUsed,
                      value |-> heapUsed, errno |-> "none"]
        /\ heapUsed' = sum
    BY <1>1, <1>2 DEF Sbrk, Answers
  <2> QED BY <1>2, <2>1 DEF BreakInv, BreakExact
<1>3. CASE sum \notin 0 .. HeapBytes
  <2>1. /\ answer' = [call |-> "sbrk", asked |-> increment, before |-> heapUsed,
                      value |-> -1, errno |-> "ENOMEM"]
        /\ heapUsed' = heapUsed
    BY <1>1, <1>3 DEF Sbrk, Answers
  <2> QED BY <1>1, <1>3, <2>1 DEF BreakInv, BreakExact
<1> QED BY <1>2, <1>3

LEMMA ProcessKeepsBreak == BreakInv /\ ProcessCall => BreakInv'
<1> SUFFICES ASSUME BreakInv, ProcessCall PROVE BreakInv'
  OBVIOUS
<1> USE DEF Gives, Denies, Answers
<1>1. ASSUME NEW fd, StandardCall(fd)
      PROVE  UNCHANGED heapUsed /\ answer'.before = heapUsed /\ answer'.call # "sbrk"
  <2>1. CASE CloseStandard(fd)
    BY <2>1 DEF CloseStandard
  <2>2. CASE AskStream(fd)
    BY <2>2 DEF AskStream
  <2>3. CASE \E count \in StreamCounts : StandardRead(fd, count) \/ StandardWrite(fd, count)
    BY <2>3 DEF StandardRead, StandardWrite, Transfers
  <2> QED BY <1>1, <2>1, <2>2, <2>3 DEF StandardCall
<1>2. ASSUME NEW name, Sysconf(name)
      PROVE  UNCHANGED heapUsed /\ answer'.before = heapUsed /\ answer'.call # "sbrk"
  BY <1>2 DEF Sysconf
<1>3. ASSUME NEW there, NEW zone, Gettimeofday(there, zone)
      PROVE  UNCHANGED heapUsed /\ answer'.before = heapUsed /\ answer'.call # "sbrk"
  BY <1>3 DEF Gettimeofday
<1> QED BY <1>1, <1>2, <1>3, SbrkKeepsBreak, OtherCallsKeepBreak DEF ProcessCall

LEMMA CallsKeepBreak == BreakInv /\ [CallsNext]_<<fileVars, callVars>> => BreakInv'
<1>1. ASSUME BreakInv, UNCHANGED callVars
      PROVE  BreakInv'
  BY <1>1 DEF BreakInv, BreakExact, callVars
<1> QED BY <1>1, ProcessKeepsBreak DEF CallsNext

LEMMA CallsKeepFiles == FilesInv /\ [CallsNext]_<<fileVars, callVars>> => FilesInv'
<1>1. ASSUME FilesInv, UNCHANGED fileVars
      PROVE  FilesInv'
  BY <1>1, UnchangedKeeps
<1> QED BY <1>1, NextKeeps, PathCallKeeps DEF CallsNext

(* Words of any width, heaps of any size below half of what a word can     *)
(* tell, and every sequence of calls: _sbrk grants exactly what the heap   *)
(* has room for (syscalls.c).                                              *)
THEOREM BreakIsExact == CallsSpec => []BreakExact
<1>1. CallInit => BreakInv
  BY CallsAssumption DEF CallInit, BreakInv, BreakExact
<1>2. BreakInv => BreakExact
  BY DEF BreakInv
<1> QED BY <1>1, <1>2, CallsKeepBreak, PTL DEF CallsSpec

(* The same of the files' tables, with the flags newlib opens with         *)
(* (_open and access of syscalls.c beside the calls of files.c).           *)
THEOREM NothingDanglesInGuest == CallsSpec => [](TypeOK /\ NoDangling)
<1>1. FilesInv => TypeOK /\ NoDangling
  BY DEF FilesInv, TablesInv
<1> QED BY <1>1, InitInv, CallsKeepFiles, PTL DEF CallsSpec

-----------------------------------------------------------------------------
(* What the mapping hides.                                                 *)
LEMMA EmptyFunction ==
  ASSUME NEW f, f = [x \in {} |-> f[x]]
  PROVE  f = <<>>
<1>1. f \in [1 .. 0 -> {}]
  OBVIOUS
<1>2. f \in Seq({})
  BY <1>1, SeqDef
<1>3. Len(f) = 0
  BY <1>1, <1>2, LenProperties
<1> QED BY <1>2, <1>3, EmptySeq

TreeFacts ==
  /\ \A i \in Slots : objects[i].linked =>
       objects[i].name \in DOMAIN NamedFiles /\ NamedFiles[objects[i].name] = i
  /\ \A p \in DOMAIN NamedFiles :
       /\ p = objects[NamedFiles[p]].name
       /\ NamedFiles[p] = First(Lookup(p)) /\ Lookup(p) # {}
       /\ NamedFiles[p] \in Slots /\ objects[NamedFiles[p]].linked
  /\ \A p : p \in DOMAIN NamedFiles <=> Lookup(p) # {}

LEMMA TreeParts == TablesInv => TreeFacts
<1> SUFFICES ASSUME TablesInv PROVE TreeFacts
  OBVIOUS
<1>1. \A p : p \in DOMAIN NamedFiles <=> Lookup(p) # {}
  BY DEF NamedFiles, Lookup
<1>2. \A p \in DOMAIN NamedFiles : NamedFiles[p] = First(Lookup(p))
  BY DEF NamedFiles
<1>3. \A p \in DOMAIN NamedFiles :
        /\ NamedFiles[p] \in Slots /\ objects[NamedFiles[p]].linked
        /\ p = objects[NamedFiles[p]].name
  BY <1>1, <1>2, FoundIsLinked
<1>4. ASSUME NEW i \in Slots, objects[i].linked
      PROVE  objects[i].name \in DOMAIN NamedFiles /\ NamedFiles[objects[i].name] = i
  <2>1. objects[i].name \in DOMAIN NamedFiles
    BY <1>4 DEF NamedFiles
  <2> QED BY <1>3, <1>4, <2>1, DanglingParts DEF TablesInv, NamesDiffer
<1> QED BY <1>1, <1>2, <1>3, <1>4 DEF TreeFacts

LEMMA TreePartsNext == TablesInv' => TreeFacts'
BY TreeParts, PTL

LEMMA OpenParts ==
  ASSUME TablesInv
  PROVE  /\ DOMAIN OpenFiles = {e \in Fds : handles[e] # NoHandle}
         /\ \A d \in DOMAIN OpenFiles :
              /\ OpenFiles[d].file = handles[d].object
              /\ OpenFiles[d].position = handles[d].position
              /\ OpenFiles[d].flags = handles[d].flags
BY DEF OpenFiles

(* A call that leaves both tables is no step of the tree.                  *)
LEMMA StutterIsOther ==
  ASSUME UNCHANGED <<objects, handles>>
  PROVE  UNCHANGED <<NamedFiles, InputFiles, Contents, OpenFiles>>
BY DEF NamedFiles, InputFiles, Contents, OpenFiles, Lookup

LEMMA FailsIsOther ==
  ASSUME NEW e, Fails(e)
  PROVE  Tree!Other
<1>1. reply'.bytes = <<>>
  BY DEF Fails
<1> QED BY <1>1, StutterIsOther DEF Fails, Tree!Other

LEMMA EmptyIsOther ==
  ASSUME Returns(<<>>), UNCHANGED <<objects, handles>>
  PROVE  Tree!Other
<1>1. reply'.bytes = <<>>
  BY DEF Returns
<1> QED BY <1>1, StutterIsOther DEF Tree!Other

(* A file is in use exactly while its slot is.                             *)
Paths == {NamedFiles[p] : p \in DOMAIN NamedFiles}
InUse(f) == f \in Paths \cup {OpenFiles[d].file : d \in DOMAIN OpenFiles}
UseFacts == \A f \in Slots : InUse(f) <=> objects[f] # NoObject

LEMMA UseParts == TablesInv => UseFacts
<1> SUFFICES ASSUME TablesInv, NEW f \in Slots
             PROVE  InUse(f) <=> objects[f] # NoObject
  BY DEF UseFacts
<1>1. f \in Paths <=> objects[f].linked
  BY TreeParts DEF TreeFacts, Paths
<1>2. f \in {OpenFiles[d].file : d \in DOMAIN OpenFiles} <=> Users(f) # {}
  <2>1. \A d \in Fds : handles[d].object = f => handles[d] # NoHandle
    BY SlotsAreNumbers DEF NoHandle
  <2> QED BY <2>1, OpenParts DEF Users
<1>3. objects[f] = NoObject <=> Users(f) = {} /\ ~objects[f].linked
  BY DanglingParts DEF TablesInv, SlotsOK, SlotOK
<1> QED BY <1>1, <1>2, <1>3 DEF InUse

LEMMA UsePartsNext == TablesInv' => UseFacts'
BY UseParts, PTL

(* What a file holds is what its cells hold up to its size.                *)
LEMMA ContentParts ==
  ASSUME TablesInv, NEW i \in Slots
  PROVE  /\ Contents[i] = Held(objects[i])
         /\ Contents[i] \in Seq(Bytes) /\ Len(Contents[i]) = objects[i].size
         /\ \A j \in 1 .. objects[i].size : Contents[i][j] = objects[i].cells[j]
<1>1. /\ objects[i].cells \in Seq(Bytes) /\ objects[i].size \in Nat
      /\ objects[i].size <= Len(objects[i].cells) /\ Len(objects[i].cells) \in Nat
  BY DEF TablesInv, TablesTypeOK, ObjectsInv, Object
<1>2. \A k \in 1 .. objects[i].size : objects[i].cells[k] \in Bytes
  BY <1>1
<1>3. Contents[i] = SubSeq(objects[i].cells, 1, objects[i].size)
  BY DEF Contents, Held
<1>4. /\ SubSeq(objects[i].cells, 1, objects[i].size) \in Seq(Bytes)
      /\ Len(SubSeq(objects[i].cells, 1, objects[i].size)) = objects[i].size
      /\ \A j \in 1 .. objects[i].size :
           SubSeq(objects[i].cells, 1, objects[i].size)[j] = objects[i].cells[j]
  BY <1>1, <1>2, SubSeqProperties
<1> QED BY <1>3, <1>4 DEF Held

LEMMA NothingInside == Held(NoObject) = <<>>
BY SubSeqEmpty DEF NoObject, Held

(* Slots whose names and rights stay.                                      *)
LEMMA SameNames ==
  ASSUME \A i \in Slots : /\ objects'[i].linked = objects[i].linked
                          /\ objects[i].linked => objects'[i].name = objects[i].name
                          /\ objects'[i].readonly = objects[i].readonly
  PROVE  UNCHANGED <<NamedFiles, InputFiles>>
<1>1. \A p : Lookup(p)' = Lookup(p)
  BY DEF Lookup
<1>2. {objects'[i].name : i \in {j \in Slots : objects'[j].linked}} =
      {objects[i].name : i \in {j \in Slots : objects[j].linked}}
  OBVIOUS
<1>3. NamedFiles' = NamedFiles
  BY <1>1, <1>2 DEF NamedFiles
<1>4. InputFiles' = InputFiles
  BY DEF InputFiles
<1> QED BY <1>3, <1>4

(* A position that moves.                                                  *)
LEMMA MovesPosition ==
  ASSUME TablesInv, NEW d \in Fds, handles[d] # NoHandle, NEW position,
         handles' = [handles EXCEPT ![d].position = position]
  PROVE  OpenFiles' = [OpenFiles EXCEPT ![d].position = position]
<1>1. handles \in [Fds -> Handle]
  BY DEF TablesInv, TablesTypeOK
<1>2. handles' = [handles EXCEPT ![d] = [handles[d] EXCEPT !.position = position]]
  OBVIOUS
<1>3. /\ \A e \in Fds \ {d} : handles'[e] = handles[e]
      /\ handles'[d].object = handles[d].object
      /\ handles'[d].position = position
      /\ handles'[d].flags = handles[d].flags
  BY <1>1, <1>2 DEF Handle
<1>4. handles'[d] # NoHandle
  BY <1>3 DEF TablesInv, HandlesInv, NoHandle
<1>5. {e \in Fds : handles'[e] # NoHandle} = {e \in Fds : handles[e] # NoHandle}
  BY <1>3, <1>4
<1>6. OpenFiles[d] = [file |-> handles[d].object, position |-> handles[d].position,
                      flags |-> handles[d].flags]
  BY DEF OpenFiles
<1>7. [OpenFiles[d] EXCEPT !.position = position] =
        [file |-> handles[d].object, position |-> position, flags |-> handles[d].flags]
  BY <1>6
<1>8. \A e \in DOMAIN OpenFiles :
        [file |-> handles'[e].object, position |-> handles'[e].position,
         flags |-> handles'[e].flags] =
        [OpenFiles EXCEPT ![d] = [OpenFiles[d] EXCEPT !.position = position]][e]
  <2> TAKE e \in DOMAIN OpenFiles
  <2>1. CASE e = d
    BY <1>3, <1>7, <2>1
  <2>2. CASE e # d
    <3>1. e \in Fds /\ handles'[e] = handles[e]
      BY <1>3, <2>2, OpenParts
    <3>2. OpenFiles[e] = [file |-> handles[e].object, position |-> handles[e].position,
                          flags |-> handles[e].flags]
      BY DEF OpenFiles
    <3> QED BY <2>2, <3>1, <3>2
  <2> QED BY <2>1, <2>2
<1>9. OpenFiles' = [e \in DOMAIN OpenFiles |->
                      [file |-> handles'[e].object, position |-> handles'[e].position,
                       flags |-> handles'[e].flags]]
  BY <1>5 DEF OpenFiles
<1>10. [OpenFiles EXCEPT ![d].position = position] =
         [OpenFiles EXCEPT ![d] = [OpenFiles[d] EXCEPT !.position = position]]
  OBVIOUS
<1>11. [OpenFiles EXCEPT ![d] = [OpenFiles[d] EXCEPT !.position = position]] =
         [e \in DOMAIN OpenFiles |->
            [OpenFiles EXCEPT ![d] = [OpenFiles[d] EXCEPT !.position = position]][e]]
  OBVIOUS
<1> QED BY <1>8, <1>9, <1>10, <1>11

LEMMA SmallerLarger ==
  ASSUME NEW a \in Int, NEW b \in Int
  PROVE  /\ Tree!Min({a, b}) = IF a <= b THEN a ELSE b
         /\ Tree!Max({a, b}) = IF a <= b THEN b ELSE a
BY DEF Tree!Min, Tree!Max

-----------------------------------------------------------------------------
(* The calls that change neither table.                                    *)
LEMMA QuietCalls ==
  ASSUME NEW raw,
         \/ Stat(raw) \/ DirectoryOpen(raw)
         \/ \E write, execute : Access(raw, write, execute)
  PROVE  Tree!Other
<1>1. CASE \E e : Fails(e)
  BY <1>1, FailsIsOther
<1>2. CASE Returns(<<>>) /\ UNCHANGED <<objects, handles>>
  BY <1>2, EmptyIsOther
<1>3. CASE Stat(raw)
  BY <1>1, <1>3 DEF Stat, Refused
<1>4. CASE DirectoryOpen(raw)
  BY <1>1, <1>2, <1>4 DEF DirectoryOpen, Refused
<1>5. CASE \E write, execute : Access(raw, write, execute)
  BY <1>1, <1>5 DEF Access, Refused
<1> QED BY <1>3, <1>4, <1>5

LEMMA RefusedIsOther ==
  ASSUME NEW e, Refused(e)
  PROVE  Tree!Other
BY FailsIsOther DEF Refused

(* The name a call means, when it means one.                               *)
LEMMA NamedName ==
  ASSUME NEW raw \in RawPaths, PathError(Normalized(raw)) = "none"
  PROVE  Normalized(raw) \in Names
BY DEF PathError, Names

(* What is read of a file, counted from its position or up to an end.      *)
LEMMA ReadSpan ==
  ASSUME NEW cells \in Seq(Bytes), NEW size \in Nat, size <= Len(cells),
         NEW at \in Nat, NEW count \in Nat
  PROVE  LET left == IF at < size THEN size - at ELSE 0
             got == IF count < left THEN count ELSE left
             end == Tree!Min({at + count, size})
         IN  /\ Tree!Max({at, end}) = at + got
             /\ SubSeq(cells, at + 1, at + got) = SubSeq(SubSeq(cells, 1, size), at + 1, end)
<1> DEFINE left == IF at < size THEN size - at ELSE 0
           got == IF count < left THEN count ELSE left
           end == Tree!Min({at + count, size})
<1>1. end = (IF at + count <= size THEN at + count ELSE size)
  BY SmallerLarger
<1>2. got = IF at < size THEN (IF count < size - at THEN count ELSE size - at) ELSE 0
  OBVIOUS
<1> HIDE DEF got, left, end
<1>3. got \in Nat /\ end \in Nat
  BY <1>1, <1>2
<1>4. Tree!Max({at, end}) = at + got
  <2>1. Tree!Max({at, end}) = IF at <= end THEN end ELSE at
    <3>1. at \in Int /\ end \in Int
      BY <1>3
    <3> QED BY ONLY <3>1, SmallerLarger
  <2> QED BY <1>1, <1>2, <2>1
<1>5. SubSeq(cells, at + 1, at + got) = SubSeq(SubSeq(cells, 1, size), at + 1, end)
  <2>1. CASE got = 0
    <3>1. end <= at
      BY <1>1, <1>2, <2>1
    <3>2. SubSeq(cells, at + 1, at + got) = <<>>
      BY <2>1, SubSeqEmpty
    <3>3. SubSeq(SubSeq(cells, 1, size), at + 1, end) = <<>>
      BY <1>3, <3>1, SubSeqEmpty
    <3> QED BY <3>2, <3>3
  <2>2. CASE got # 0
    <3>1. at + got = end /\ at < end /\ end <= size
      BY <1>1, <1>2, <2>2
    <3>2. Len(cells) \in Nat
      OBVIOUS
    <3>3. PICK one, from : one = 1 /\ from = at + 1
      OBVIOUS
    <3>4. /\ one \in 1 .. Len(cells) /\ size \in 1 .. Len(cells)
          /\ from \in 1 .. size - one + 1 /\ end \in 1 .. size - one + 1
      BY <1>3, <3>1, <3>2, <3>3
    <3>5. SubSeq(SubSeq(cells, one, size), from, end) =
            SubSeq(cells, one + from - 1, one + end - 1)
      BY <3>4, SubSeqOfSubSeq
    <3>6. one + from - 1 = at + 1 /\ one + end - 1 = end
      BY <1>3, <3>3
    <3> QED BY <3>1, <3>3, <3>5, <3>6
  <2> QED BY <2>1, <2>2
<1> QED BY <1>4, <1>5 DEF got, left, end

LEMMA ReadIsRead ==
  ASSUME FilesInv, NEW d \in Fds, NEW count \in Counts, Read(d, count)
  PROVE  Tree!Other \/ Tree!Read(d, count)
<1> DEFINE h == handles[d]
           obj == objects[h.object]
           left == IF h.position < obj.size THEN obj.size - h.position ELSE 0
           got == IF count < left THEN count ELSE left
<1>1. CASE \E e : Refused(e)
  BY <1>1, RefusedIsOther
<1>2. CASE /\ h # NoHandle /\ "read" \in h.flags
           /\ Returns(SubSeq(obj.cells, h.position + 1, h.position + got))
           /\ handles' = [handles EXCEPT ![d].position = @ + got]
           /\ UNCHANGED <<objects, directories, openDirectories>>
  <2>1. TablesInv /\ h.object \in Slots
    BY <1>2, FilesParts, OpenedIsThere
  <2>2. h \in Handle /\ obj \in Object /\ obj.size <= Len(obj.cells)
    BY <2>1 DEF TablesInv, TablesTypeOK, ObjectsInv
  <2>3. /\ h.position \in Nat /\ obj.size \in Nat /\ count \in Nat
        /\ Len(obj.cells) \in Nat /\ obj.cells \in Seq(Bytes)
    BY <2>2, FilesAssumption DEF Handle, Object
  <2>4. /\ Contents[h.object] = Held(obj)
        /\ Contents[h.object] \in Seq(Bytes) /\ Len(Contents[h.object]) = obj.size
    BY <2>1, ContentParts
  <2>5. /\ d \in DOMAIN OpenFiles
        /\ OpenFiles[d].file = h.object /\ OpenFiles[d].position = h.position
        /\ OpenFiles[d].flags = h.flags
    BY <1>2, <2>1, OpenParts
  <2> DEFINE at == h.position
             end == Tree!Min({at + count, obj.size})
  <2>9. /\ Tree!Max({at, end}) = at + got
        /\ SubSeq(obj.cells, at + 1, at + got) =
             SubSeq(SubSeq(obj.cells, 1, obj.size), at + 1, end)
    BY <2>2, <2>3, ReadSpan, ZenonT(60)
  <2> HIDE DEF got, left, end
  <2>11. reply'.bytes = SubSeq(Contents[h.object], at + 1, end)
    <3>1. reply' = [failed |-> FALSE, bytes |-> SubSeq(obj.cells, at + 1, at + got)]
      BY <1>2 DEF Returns
    <3> QED BY <2>4, <2>9, <3>1 DEF Held
  <2>12. OpenFiles' = [OpenFiles EXCEPT ![d].position = at + got]
    <3>1. handles' = [handles EXCEPT ![d].position = at + got]
      BY <1>2
    <3> HIDE DEF at
    <3> QED BY <1>2, <2>1, <3>1, MovesPosition
  <2>13. UNCHANGED <<NamedFiles, InputFiles, Contents>>
    BY <1>2 DEF NamedFiles, InputFiles, Contents, Lookup
  <2>14. OpenFiles' = [OpenFiles EXCEPT ![d].position = Tree!Max({@, end})]
    BY <2>5, <2>9, <2>12
  <2>15. Tree!Read(d, count)
    BY <1>2, <2>4, <2>5, <2>11, <2>13, <2>14 DEF Tree!Read, end
  <2> QED BY <2>15
<1> QED BY <1>1, <1>2 DEF Read

LEMMA SeekIsSeek ==
  ASSUME FilesInv, NEW d \in Fds, NEW offset \in Offsets, NEW origin, Seek(d, offset, origin)
  PROVE  Tree!Other \/ Tree!Seek(d)
<1>1. CASE \E e : Refused(e)
  BY <1>1, RefusedIsOther
<1>2. ASSUME handles[d] # NoHandle, NEW base, offset >= -base, offset <= SizeMax - base,
             base \in {0, handles[d].position, objects[handles[d].object].size},
             handles' = [handles EXCEPT ![d].position = base + offset],
             Returns(<<>>), UNCHANGED <<objects, directories, openDirectories>>
      PROVE  Tree!Seek(d)
  <2>1. TablesInv /\ handles[d].object \in Slots
    BY <1>2, FilesParts, OpenedIsThere
  <2>2. /\ handles[d] \in Handle /\ objects[handles[d].object] \in Object
    BY <2>1 DEF TablesInv, TablesTypeOK
  <2>3. base + offset \in 0 .. SizeMax
    <3>1. handles[d].position \in Nat /\ objects[handles[d].object].size \in Nat
      BY <2>2 DEF Handle, Object
    <3>2. base \in Int
      BY <1>2, <3>1
    <3>3. offset \in Int /\ SizeMax \in Int
      BY FilesAssumption
    <3> QED BY <1>2, <3>2, <3>3
  <2>4. Len(Contents[handles[d].object]) = objects[handles[d].object].size
    BY <2>1, ContentParts
  <2>5. /\ d \in DOMAIN OpenFiles
        /\ OpenFiles[d].file = handles[d].object /\ OpenFiles[d].position = handles[d].position
    BY <1>2, <2>1, OpenParts
  <2>6. OpenFiles' = [OpenFiles EXCEPT ![d].position = base + offset]
    BY <1>2, <2>1, MovesPosition
  <2>7. UNCHANGED <<NamedFiles, InputFiles, Contents>>
    BY <1>2 DEF NamedFiles, InputFiles, Contents, Lookup
  <2>8. reply'.bytes = <<>>
    BY <1>2 DEF Returns
  <2>9. base \in {0, OpenFiles[d].position, Len(Contents[OpenFiles[d].file])}
    BY <1>2, <2>4, <2>5
  <2> QED BY <2>3, <2>5, <2>6, <2>7, <2>8, <2>9 DEF Tree!Seek
<1>3. \A origin_ \in 0 .. 2 :
        (CASE origin_ = 0 -> 0
           [] origin_ = 1 -> handles[d].position
           [] origin_ = 2 -> objects[handles[d].object].size)
          \in {0, handles[d].position, objects[handles[d].object].size}
  OBVIOUS
<1> QED BY <1>1, <1>2, <1>3 DEF Seek

LEMMA OutputIsOutput ==
  ASSUME FilesInv, NEW raw \in RawPaths, Output(raw)
  PROVE  Tree!Other \/ \E p \in Names : Tree!Output(p)
<1> DEFINE name == Normalized(raw)
<1>1. CASE \E e : Refused(e)
  BY <1>1, RefusedIsOther
<1>2. ASSUME PathError(name) = "none", Lookup(name) # {}, NEW i, i = First(Lookup(name)),
             Returns(SubSeq(objects[i].cells, 1, objects[i].size)),
             UNCHANGED <<objects, handles, directories, openDirectories>>
      PROVE  name \in Names /\ Tree!Output(name)
  <2>1. i \in Slots /\ TablesInv
    BY <1>2, FoundIsLinked, FilesParts
  <2>2. name \in DOMAIN NamedFiles /\ NamedFiles[name] = i
    BY <1>2, <2>1, TreeParts DEF TreeFacts
  <2>3. Contents[i] = SubSeq(objects[i].cells, 1, objects[i].size)
    BY <2>1, ContentParts DEF Held
  <2>4. reply'.bytes = Contents[NamedFiles[name]]
    BY <1>2, <2>2, <2>3 DEF Returns
  <2>5. name \in Names
    BY <1>2, NamedName
  <2> HIDE DEF name
  <2> QED BY <1>2, <2>2, <2>4, <2>5, StutterIsOther DEF Tree!Output
<1> QED BY <1>1, <1>2 DEF Output

(* What is written of the cells is what is written of the content.         *)
LEMMA WrittenSpan ==
  ASSUME NEW obj \in Object, obj.size <= Len(obj.cells), NEW text \in Seq(Bytes),
         NEW position \in Nat, position + Len(text) <= SizeMax,
         NEW new, new = Filled(obj, position, text)
  PROVE  Held(new) = Tree!Written(Held(obj), position, text)
<1> DEFINE end == position + Len(text)
           data == SubSeq(obj.cells, 1, obj.size)
           after == SubSeq(new.cells, 1, new.size)
           written == Tree!Written(data, position, text)
<1>1. /\ Len(text) \in Nat /\ end \in Nat /\ obj.size \in Nat
      /\ obj.cells \in Seq(Bytes) /\ Len(obj.cells) \in Nat
  BY DEF Object
<1>2. /\ new \in Object /\ new.size <= Len(new.cells)
      /\ new.size = IF end > obj.size THEN end ELSE obj.size
      /\ Len(new.cells) = IF end > Len(obj.cells) THEN end ELSE Len(obj.cells)
      /\ \A j \in 1 .. Len(new.cells) :
           new.cells[j] = IF position < j /\ j <= end THEN text[j - position]
                          ELSE IF obj.size < j /\ j <= position THEN Zero
                          ELSE obj.cells[j]
  BY FilledTyped
<1>3. /\ new.size \in Nat /\ new.cells \in Seq(Bytes) /\ Len(new.cells) \in Nat
  BY <1>2 DEF Object
<1>4. /\ data \in Seq(Bytes) /\ Len(data) = obj.size
      /\ \A j \in 1 .. obj.size : data[j] = obj.cells[j]
  <2>1. \A k \in 1 .. obj.size : obj.cells[k] \in Bytes
    BY <1>1
  <2> QED BY <1>1, <2>1, SubSeqProperties
<1>5. /\ after \in Seq(Bytes) /\ Len(after) = new.size
      /\ \A j \in 1 .. new.size : after[j] = new.cells[j]
  <2>1. \A k \in 1 .. new.size : new.cells[k] \in Bytes
    BY <1>2, <1>3
  <2> QED BY <1>3, <2>1, SubSeqProperties
<1> HIDE DEF end, data, after, written
<1>6. Tree!Max({Len(data), end}) = new.size
  <2>1. Len(data) \in Int /\ end \in Int
    BY <1>1, <1>4
  <2>2. Tree!Max({Len(data), end}) = IF Len(data) <= end THEN end ELSE Len(data)
    BY ONLY <2>1, SmallerLarger
  <2> QED BY <1>1, <1>2, <1>4, <2>2
<1>7. written = [j \in 1 .. Tree!Max({Len(data), end}) |->
                   IF position < j /\ j <= end THEN text[j - position]
                   ELSE IF j <= Len(data) THEN data[j] ELSE Zero]
  BY DEF Tree!Written, written, end
<1>8. written = [j \in 1 .. new.size |->
                   IF position < j /\ j <= end THEN text[j - position]
                   ELSE IF j <= Len(data) THEN data[j] ELSE Zero]
  BY <1>6, <1>7
<1>9. \A j \in 1 .. new.size :
        after[j] = IF position < j /\ j <= end THEN text[j - position]
                   ELSE IF j <= Len(data) THEN data[j] ELSE Zero
  <2> TAKE j \in 1 .. new.size
  <2>1. j \in 1 .. Len(new.cells) /\ after[j] = new.cells[j]
    BY <1>2, <1>3, <1>5
  <2>2. CASE position < j /\ j <= end
    BY <1>2, <2>1, <2>2
  <2>3. CASE ~(position < j /\ j <= end) /\ j <= obj.size
    BY <1>1, <1>2, <1>4, <2>1, <2>3
  <2>4. CASE ~(position < j /\ j <= end) /\ ~(j <= obj.size)
    BY <1>1, <1>2, <1>3, <1>4, <2>1, <2>4
  <2> QED BY <2>2, <2>3, <2>4
<1>10. after = [j \in 1 .. new.size |-> after[j]]
  <2>1. DOMAIN after = 1 .. new.size
    BY <1>5, LenProperties
  <2>2. after = [j \in DOMAIN after |-> after[j]]
    BY <1>5
  <2> QED BY <2>1, <2>2
<1>11. after = written
  BY <1>8, <1>9, <1>10
<1> QED BY <1>11 DEF after, written, data, Held

(* What one object holds changes.                                          *)
LEMMA ContentChanges ==
  ASSUME TablesInv, NEW i \in Slots, NEW obj,
         objects' = [objects EXCEPT ![i] = obj],
         obj.linked = objects[i].linked, obj.name = objects[i].name,
         obj.readonly = objects[i].readonly
  PROVE  /\ UNCHANGED <<NamedFiles, InputFiles>>
         /\ Contents' = [Contents EXCEPT ![i] = Held(obj)]
<1>1. \A j \in Slots : objects'[j] = IF j = i THEN obj ELSE objects[j]
  BY DEF TablesInv, TablesTypeOK
<1>2. UNCHANGED <<NamedFiles, InputFiles>>
  BY <1>1, SameNames
<1>3. Contents' = [Contents EXCEPT ![i] = Held(obj)]
  <2>1. \A j \in Slots : Held(objects'[j]) = IF j = i THEN Held(obj) ELSE Contents[j]
    BY <1>1 DEF Contents
  <2>2. Contents' = [j \in Slots |-> Held(objects'[j])]
    BY DEF Contents, Held
  <2>3. Contents' = [j \in Slots |-> IF j = i THEN Held(obj) ELSE Contents[j]]
    BY <2>1, <2>2
  <2>4. Contents = [j \in Slots |-> Contents[j]]
    BY DEF Contents
  <2>5. [j \in Slots |-> IF j = i THEN Held(obj) ELSE Contents[j]] =
          [Contents EXCEPT ![i] = Held(obj)]
    BY <2>4
  <2> QED BY <2>3, <2>5
<1> QED BY <1>2, <1>3

LEMMA WriteIsWrite ==
  ASSUME FilesInv, NEW d \in Fds, NEW text \in Texts, Write(d, text)
  PROVE  Tree!Other \/ Tree!Write(d, text)
<1> DEFINE h == handles[d]
           at == IF "append" \in h.flags THEN objects[h.object].size ELSE h.position
<1>1. CASE \E e : Refused(e)
  BY <1>1, RefusedIsOther
<1>2. ASSUME h # NoHandle, "write" \in h.flags, NEW i, i = h.object,
             NEW position, position = at, Len(text) <= SizeMax - position,
             NEW new, new = Filled(objects[i], position, text),
             objects' = [objects EXCEPT ![i] = new],
             handles' = [handles EXCEPT ![d].position = position + Len(text)],
             Returns(<<>>), UNCHANGED <<directories, openDirectories>>
      PROVE  Tree!Write(d, text)
  <2>1. TablesInv /\ i \in Slots /\ text \in Seq(Bytes)
    BY <1>2, FilesParts, OpenedIsThere, FilesAssumption
  <2>2. h \in Handle /\ objects[i] \in Object /\ objects[i].size <= Len(objects[i].cells)
    BY <2>1 DEF TablesInv, TablesTypeOK, ObjectsInv
  <2>3. position \in Nat /\ position + Len(text) <= SizeMax
    <3>1. position \in Nat
      BY <1>2, <2>2 DEF Handle, Object
    <3>2. Len(text) \in Nat /\ SizeMax \in Nat
      BY <2>1, FilesAssumption
    <3> QED BY <1>2, <3>1, <3>2
  <2>4. /\ new.linked = objects[i].linked /\ new.name = objects[i].name
        /\ new.readonly = objects[i].readonly
    <3>1. PICK old \in Object : old = objects[i] /\ old.size <= Len(old.cells)
      BY <2>2
    <3>2. new = Filled(old, position, text)
      BY <1>2, <3>1
    <3>3. new.linked = old.linked /\ new.name = old.name /\ new.readonly = old.readonly
      BY <2>1, <2>3, <3>1, <3>2, FilledTyped
    <3> QED BY <3>1, <3>3
  <2>5. Held(new) = Tree!Written(Contents[i], position, text)
    <3>1. Contents[i] = Held(objects[i])
      BY <2>1 DEF Contents
    <3>2. Held(new) =
            Tree!Written(Held(objects[i]), position, text)
      BY <1>2, <2>1, <2>2, <2>3, WrittenSpan
    <3> QED BY <3>1, <3>2
  <2>6. /\ d \in DOMAIN OpenFiles /\ OpenFiles[d].file = i
        /\ OpenFiles[d].position = h.position /\ OpenFiles[d].flags = h.flags
    BY <1>2, <2>1, OpenParts
  <2>7. position = IF "append" \in OpenFiles[d].flags THEN Len(Contents[OpenFiles[d].file])
                   ELSE OpenFiles[d].position
    BY <1>2, <2>1, <2>6, ContentParts
  <2>8. UNCHANGED <<NamedFiles, InputFiles>>
    BY <1>2, <2>1, <2>4, ContentChanges
  <2>9. Contents' = [Contents EXCEPT ![OpenFiles[d].file] = Tree!Written(@, position, text)]
    <3>1. Contents' = [Contents EXCEPT ![i] = Held(new)]
      <4>1. objects' = [objects EXCEPT ![i] = new]
        BY <1>2
      <4> QED BY ONLY <2>1, <2>4, <4>1, ContentChanges
    <3> QED BY <2>5, <2>6, <3>1
  <2>10. OpenFiles' = [OpenFiles EXCEPT ![d].position = position + Len(text)]
    BY <1>2, <2>1, MovesPosition
  <2>11. reply'.bytes = <<>>
    BY <1>2 DEF Returns
  <2> HIDE DEF at
  <2> QED BY <1>2, <2>3, <2>6, <2>7, <2>8, <2>9, <2>10, <2>11 DEF Tree!Write
<1> HIDE DEF at
<1>3. \/ \E e : Refused(e)
      \/ /\ h # NoHandle /\ "write" \in h.flags /\ Len(text) <= SizeMax - at
         /\ objects' = [objects EXCEPT ![h.object] = Filled(objects[h.object], at, text)]
         /\ handles' = [handles EXCEPT ![d].position = at + Len(text)]
         /\ Returns(<<>>) /\ UNCHANGED <<directories, openDirectories>>
  BY DEF Write, at
<1> QED BY <1>1, <1>2, <1>3

LEMMA ReplaceIsReplace ==
  ASSUME FilesInv, NEW raw \in RawPaths, NEW text \in Texts, NEW own,
         ReplaceOwned(raw, text, own)
  PROVE  Tree!Other \/ (Normalized(raw) \in Names /\ Tree!Replace(Normalized(raw), text))
<1> DEFINE name == Normalized(raw)
<1>1. CASE \E e : Refused(e)
  BY <1>1, RefusedIsOther
<1>2. ASSUME PathError(name) = "none", Lookup(name) # {}, Len(text) <= SizeMax,
             NEW i, i = First(Lookup(name)),
             ~objects[i].readonly, objects[i].references = 0,
             objects' = [objects EXCEPT ![i].cells = text, ![i].size = Len(text)],
             Returns(<<>>), UNCHANGED <<handles, directories, openDirectories>>
      PROVE  name \in Names /\ Tree!Replace(name, text)
  <2>1. TablesInv /\ i \in Slots /\ text \in Seq(Bytes)
    BY <1>2, FilesParts, FoundIsLinked, FilesAssumption
  <2>2. name \in DOMAIN NamedFiles /\ NamedFiles[name] = i
    BY <1>2, <2>1, TreeParts DEF TreeFacts
  <2>3. i \notin InputFiles /\ name \in Names
    BY <1>2, NamedName DEF InputFiles
  <2>4. i \notin {OpenFiles[d].file : d \in DOMAIN OpenFiles}
    <3>1. objects[i].references = Cardinality(Users(i))
      BY <2>1, DanglingParts DEF TablesInv, SlotsOK, SlotOK
    <3>2. Users(i) \in SUBSET Fds
      BY DEF Users
    <3>3. IsFiniteSet(Users(i))
      BY <3>2, UsersFinite
    <3>4. Users(i) = {}
      BY <1>2, <3>1, <3>3, FS_EmptySet
    <3> QED BY <2>1, <3>4, OpenParts DEF Users
  <2> DEFINE new == [objects[i] EXCEPT !.cells = text, !.size = Len(text)]
  <2>5. objects[i] \in Object /\ objects \in [Slots -> Object]
    BY <2>1 DEF TablesInv, TablesTypeOK
  <2>6. objects' = [objects EXCEPT ![i] = new]
    BY <1>2, <2>1, <2>5 DEF Object
  <2>7. /\ new.linked = objects[i].linked /\ new.name = objects[i].name
        /\ new.readonly = objects[i].readonly /\ new.cells = text /\ new.size = Len(text)
    BY <2>5 DEF Object
  <2> HIDE DEF new, name
  <2>8. Held(new) = text
    BY <2>1, <2>7, SubSeqFull DEF Held
  <2>9. /\ UNCHANGED <<NamedFiles, InputFiles>>
        /\ Contents' = [Contents EXCEPT ![i] = Held(new)]
    BY <2>1, <2>6, <2>7, ContentChanges
  <2>10. OpenFiles' = OpenFiles /\ reply'.bytes = <<>>
    BY <1>2 DEF OpenFiles, Returns
  <2> QED BY <1>2, <2>2, <2>3, <2>4, <2>8, <2>9, <2>10 DEF Tree!Replace, Tree!Opened
<1> QED BY <1>1, <1>2 DEF ReplaceOwned

(* The content of a file that is given up is gone, and no other.           *)
LEMMA ReleasedContents ==
  ASSUME TablesInv, TablesInv', NEW i \in Slots, NEW obj,
         obj.cells = objects[i].cells, obj.size = objects[i].size,
         objects' = [objects EXCEPT ![i] = Released(obj)]
  PROVE  Contents' = [f \in Slots |-> IF Tree!Kept(f) THEN Contents[f] ELSE <<>>]
<1>1. \A f \in Slots : Tree!Kept(f) <=> objects'[f] # NoObject
  BY UsePartsNext DEF UseFacts, InUse, Paths, Tree!Kept
<1>2. \A f \in Slots : objects'[f] = IF f = i THEN Released(obj) ELSE objects[f]
  BY DEF TablesInv, TablesTypeOK
<1>3. Held(obj) = Held(objects[i])
  BY DEF Held
<1>4. \A f \in Slots : Held(objects'[f]) = IF Tree!Kept(f) THEN Contents[f] ELSE <<>>
  <2> TAKE f \in Slots
  <2>1. Contents[f] = Held(objects[f])
    BY DEF Contents
  <2>2. CASE objects'[f] = NoObject
    BY <1>1, <2>2, NothingInside
  <2>3. CASE objects'[f] # NoObject
    <3>1. Held(objects'[f]) = Held(objects[f])
      <4>1. CASE f = i
        <5>1. objects'[f] = obj
          BY <1>2, <2>3, <4>1 DEF Released
        <5> QED BY <1>3, <4>1, <5>1
      <4>2. CASE f # i
        <5>1. objects'[f] = objects[f]
          BY <1>2, <4>2
        <5> QED BY <5>1
      <4> QED BY <4>1, <4>2
    <3> QED BY <1>1, <2>1, <2>3, <3>1
  <2> QED BY <2>2, <2>3
<1>5. Contents' = [f \in Slots |-> Held(objects'[f])]
  BY DEF Contents, Held
<1> QED BY <1>4, <1>5

LEMMA CloseIsClose ==
  ASSUME FilesInv, FilesInv', NEW d \in Fds, Close(d)
  PROVE  Tree!Other \/ Tree!Close(d)
<1>1. CASE \E e : Refused(e)
  BY <1>1, RefusedIsOther
<1>2. ASSUME handles[d] # NoHandle,
             handles' = [handles EXCEPT ![d] = NoHandle],
             Returns(<<>>), UNCHANGED <<directories, openDirectories>>,
             NEW i, i = handles[d].object,
             NEW obj, obj = [objects[i] EXCEPT !.references = @ - 1],
             objects' = [objects EXCEPT ![i] = Released(obj)]
      PROVE  Tree!Close(d)
  <2>1. TablesInv /\ TablesInv' /\ i \in Slots
    BY <1>2, FilesParts, FilesPartsNext, OpenedIsThere
  <2>2. /\ objects[i] \in Object /\ objects \in [Slots -> Object]
        /\ handles \in [Fds -> Handle]
        /\ objects[i].readonly => objects[i].linked
    BY <2>1 DEF TablesInv, TablesTypeOK, ObjectsInv
  <2>3. /\ obj.cells = objects[i].cells /\ obj.size = objects[i].size
        /\ obj.name = objects[i].name /\ obj.linked = objects[i].linked
        /\ obj.readonly = objects[i].readonly
    BY <1>2, <2>2 DEF Object
  <2>4. Contents' = [f \in Slots |-> IF Tree!Kept(f) THEN Contents[f] ELSE <<>>]
    BY <1>2, <2>1, <2>3, ReleasedContents
  <2>5. UNCHANGED <<NamedFiles, InputFiles>>
    <3>1. ASSUME NEW j \in Slots
          PROVE  /\ objects'[j].linked = objects[j].linked
                 /\ objects[j].linked => objects'[j].name = objects[j].name
                 /\ objects'[j].readonly = objects[j].readonly
      <4>1. CASE j # i
        BY <1>2, <2>2, <4>1
      <4>2. CASE j = i
        <5>1. objects'[j] = Released(obj)
          BY <1>2, <2>2, <4>2
        <5>2. ~NoObject.linked /\ ~NoObject.readonly
          BY DEF NoObject
        <5>3. objects[i].linked \in BOOLEAN /\ objects[i].readonly \in BOOLEAN
          BY <2>2 DEF Object
        <5>4. NoObject.linked = FALSE /\ NoObject.readonly = FALSE
          BY DEF NoObject
        <5>5. CASE ~obj.linked /\ obj.references = 0
          <6>1. objects'[j] = NoObject
            BY <5>1, <5>5 DEF Released
          <6>2. objects[i].linked = FALSE /\ objects[i].readonly = FALSE
            BY <2>2, <2>3, <5>3, <5>5
          <6> QED BY <4>2, <5>4, <6>1, <6>2
        <5>6. CASE ~(~obj.linked /\ obj.references = 0)
          <6>1. objects'[j] = obj
            BY <5>1, <5>6 DEF Released
          <6> QED BY <2>3, <4>2, <6>1
        <5> QED BY <5>5, <5>6
      <4> QED BY <4>1, <4>2
    <3> QED BY <3>1, SameNames
  <2>6. d \in DOMAIN OpenFiles
    BY <1>2, <2>1, OpenParts
  <2>7. OpenFiles' = [e \in DOMAIN OpenFiles \ {d} |-> OpenFiles[e]]
    <3>1. \A e \in Fds : handles'[e] = IF e = d THEN NoHandle ELSE handles[e]
      BY <1>2, <2>2
    <3>2. {e \in Fds : handles'[e] # NoHandle} = DOMAIN OpenFiles \ {d}
      BY <2>1, <3>1, OpenParts
    <3>3. OpenFiles' = [e \in DOMAIN OpenFiles \ {d} |->
                          [file |-> handles'[e].object, position |-> handles'[e].position,
                           flags |-> handles'[e].flags]]
      BY <3>2 DEF OpenFiles
    <3>4. \A e \in DOMAIN OpenFiles \ {d} :
            OpenFiles[e] = [file |-> handles'[e].object, position |-> handles'[e].position,
                            flags |-> handles'[e].flags]
      <4> TAKE e \in DOMAIN OpenFiles \ {d}
      <4>1. handles'[e] = handles[e]
        BY <2>1, <3>1, OpenParts
      <4>2. OpenFiles[e] = [file |-> handles[e].object, position |-> handles[e].position,
                            flags |-> handles[e].flags]
        BY DEF OpenFiles
      <4> QED BY <4>1, <4>2
    <3> QED BY <3>3, <3>4
  <2>8. reply'.bytes = <<>>
    BY <1>2 DEF Returns
  <2> QED BY <2>4, <2>5, <2>6, <2>7, <2>8 DEF Tree!Close
<1> QED BY <1>1, <1>2 DEF Close

LEMMA UnlinkIsUnlink ==
  ASSUME FilesInv, FilesInv', NEW raw \in RawPaths, Unlink(raw)
  PROVE  Tree!Other \/ (Normalized(raw) \in Names /\ Tree!Unlink(Normalized(raw)))
<1> DEFINE name == Normalized(raw)
<1>1. CASE \E e : Refused(e)
  BY <1>1, RefusedIsOther
<1>2. ASSUME PathError(name) = "none", Lookup(name) # {},
             NEW i, i = First(Lookup(name)), ~objects[i].readonly,
             NEW obj, obj = [objects[i] EXCEPT !.linked = FALSE],
             objects' = [objects EXCEPT ![i] = Released(obj)],
             Returns(<<>>), UNCHANGED <<handles, directories, openDirectories>>
      PROVE  name \in Names /\ Tree!Unlink(name)
  <2>1. /\ TablesInv /\ TablesInv' /\ i \in Slots /\ objects[i].linked
        /\ objects[i].name = name /\ name \in Names
    BY <1>2, NamedName, FilesParts, FilesPartsNext, FoundIsLinked
  <2> HIDE DEF name
  <2>2. objects[i] \in Object /\ objects \in [Slots -> Object]
    BY <2>1 DEF TablesInv, TablesTypeOK
  <2>3. /\ obj.cells = objects[i].cells /\ obj.size = objects[i].size
        /\ obj.linked = FALSE /\ obj.readonly = objects[i].readonly
    BY <1>2, <2>2 DEF Object
  <2>4. Contents' = [f \in Slots |-> IF Tree!Kept(f) THEN Contents[f] ELSE <<>>]
    BY <1>2, <2>1, <2>3, ReleasedContents
  <2>5. /\ \A j \in Slots \ {i} : objects'[j] = objects[j]
        /\ objects'[i] = Released(obj)
        /\ Released(obj).linked = FALSE /\ ~Released(obj).readonly
    <3>1. Released(obj) = NoObject \/ Released(obj) = obj
      BY DEF Released
    <3>2. NoObject.linked = FALSE /\ NoObject.readonly = FALSE
      BY DEF NoObject
    <3> QED BY <1>2, <2>1, <2>2, <2>3, <3>1, <3>2
  <2>6. name \in DOMAIN NamedFiles /\ NamedFiles[name] = i
    BY <1>2, <2>1, TreeParts DEF TreeFacts
  <2>7. i \notin InputFiles
    BY <1>2 DEF InputFiles
  <2>8. InputFiles' = InputFiles
    <3>1. \A j \in Slots : objects'[j].readonly <=> objects[j].readonly
      <4> TAKE j \in Slots
      <4>1. CASE j = i
        BY <1>2, <2>5, <4>1
      <4>2. CASE j # i
        BY <2>5, <4>2
      <4> QED BY <4>1, <4>2
    <3> QED BY <3>1 DEF InputFiles
  <2>9. \A p : Lookup(p)' = IF p = name THEN {} ELSE Lookup(p)
    <3>1. \A j \in Slots : objects[j].linked /\ objects[j].name = name => j = i
      BY <2>1, DanglingParts DEF TablesInv, NamesDiffer
    <3>2. Lookup(name)' = {}
      BY <2>5, <3>1 DEF Lookup
    <3>3. ASSUME NEW p, p # name
          PROVE  Lookup(p)' = Lookup(p)
      BY <2>1, <2>5, <3>3 DEF Lookup
    <3> QED BY <3>2, <3>3
  <2>10. NamedFiles' = [q \in DOMAIN NamedFiles \ {name} |-> NamedFiles[q]]
    <3>1. DOMAIN NamedFiles' = DOMAIN NamedFiles \ {name}
      <4>1. \A p : p \in DOMAIN NamedFiles' <=> Lookup(p)' # {}
        BY <2>1, TreePartsNext DEF TreeFacts
      <4>2. \A p : p \in DOMAIN NamedFiles <=> Lookup(p) # {}
        BY <2>1, TreeParts DEF TreeFacts
      <4> QED BY <2>9, <4>1, <4>2
    <3>2. NamedFiles' = [q \in DOMAIN NamedFiles' |-> First(Lookup(q)')]
      BY DEF NamedFiles, Lookup
    <3>3. \A q \in DOMAIN NamedFiles \ {name} : NamedFiles[q] = First(Lookup(q)')
      <4>1. \A q \in DOMAIN NamedFiles : NamedFiles[q] = First(Lookup(q))
        BY <2>1, TreeParts DEF TreeFacts
      <4> QED BY <2>9, <4>1
    <3> QED BY <3>1, <3>2, <3>3
  <2>11. OpenFiles' = OpenFiles /\ reply'.bytes = <<>>
    BY <1>2 DEF OpenFiles, Returns
  <2> QED BY <2>1, <2>4, <2>6, <2>7, <2>8, <2>10, <2>11 DEF Tree!Unlink
<1> QED BY <1>1, <1>2 DEF Unlink

(* What an open does to the descriptors: the lowest free one is given out. *)
OpensAt(d, i, flags) ==
  /\ d \in Fds \ DOMAIN OpenFiles
  /\ \A e \in Fds \ DOMAIN OpenFiles : d <= e
  /\ OpenFiles' = [e \in DOMAIN OpenFiles \cup {d} |->
                     IF e = d THEN [file |-> i, position |-> 0, flags |-> flags]
                              ELSE OpenFiles[e]]

LEMMA OpensDescriptor ==
  ASSUME TablesInv, NEW i \in Slots, NEW obj, NEW flags \in SUBSET Flags,
         \E d \in Fds : handles[d] = NoHandle, Opens(i, obj, flags)
  PROVE  \E d : OpensAt(d, i, flags)
<1> DEFINE fd == First({d \in Fds : handles[d] = NoHandle})
           handle == [object |-> i, position |-> 0, flags |-> flags]
<1>1. /\ fd \in Fds /\ handles[fd] = NoHandle
      /\ \A e \in Fds : handles[e] = NoHandle => fd <= e
  <2>1. {d \in Fds : handles[d] = NoHandle} \in SUBSET Nat
    BY DEF Fds
  <2> QED BY <2>1, FirstIsLeast
<1>2. handles' = [handles EXCEPT ![fd] = handle]
  BY DEF Opens
<1> HIDE DEF fd
<1>3. /\ handle.object = i /\ handle.position = 0 /\ handle.flags = flags
      /\ handle # NoHandle
  BY SlotsAreNumbers DEF NoHandle
<1> HIDE DEF handle
<1>4. \A e \in Fds : handles'[e] = IF e = fd THEN handle ELSE handles[e]
  BY <1>1, <1>2 DEF TablesInv, TablesTypeOK
<1>5. /\ fd \in Fds \ DOMAIN OpenFiles
      /\ \A e \in Fds \ DOMAIN OpenFiles : fd <= e
  BY <1>1, OpenParts
<1>6. {e \in Fds : handles'[e] # NoHandle} = DOMAIN OpenFiles \cup {fd}
  BY <1>1, <1>3, <1>4, OpenParts
<1>7. OpenFiles' = [e \in DOMAIN OpenFiles \cup {fd} |->
                      [file |-> handles'[e].object, position |-> handles'[e].position,
                       flags |-> handles'[e].flags]]
  BY <1>6 DEF OpenFiles
<1>8. \A e \in DOMAIN OpenFiles \cup {fd} :
        [file |-> handles'[e].object, position |-> handles'[e].position,
         flags |-> handles'[e].flags] =
        IF e = fd THEN [file |-> i, position |-> 0, flags |-> flags] ELSE OpenFiles[e]
  <2> TAKE e \in DOMAIN OpenFiles \cup {fd}
  <2>1. CASE e = fd
    BY <1>1, <1>3, <1>4, <2>1
  <2>2. CASE e # fd
    <3>1. e \in Fds /\ handles'[e] = handles[e]
      BY <1>4, <2>2, OpenParts
    <3>2. OpenFiles[e] = [file |-> handles[e].object, position |-> handles[e].position,
                          flags |-> handles[e].flags]
      BY <2>2 DEF OpenFiles
    <3> QED BY <2>2, <3>1, <3>2
  <2> QED BY <2>1, <2>2
<1>9. OpensAt(fd, i, flags)
  BY <1>5, <1>7, <1>8 DEF OpensAt
<1> QED BY <1>9

(* What an open does to the object: it is emptied, when that is asked for. *)
LEMMA OpensObject ==
  ASSUME TablesInv, NEW i \in Slots, NEW obj \in Object, NEW flags,
         obj.size <= Len(obj.cells), Opens(i, obj, flags)
  PROVE  /\ \A j \in Slots \ {i} : objects'[j] = objects[j]
         /\ objects' = [objects EXCEPT ![i] = objects'[i]]
         /\ objects'[i].name = obj.name /\ objects'[i].linked = obj.linked
         /\ objects'[i].readonly = obj.readonly
         /\ Held(objects'[i]) = IF "trunc" \in flags THEN <<>> ELSE Held(obj)
<1> DEFINE size == IF "trunc" \in flags THEN 0 ELSE obj.size
           opened == [obj EXCEPT !.size = size, !.references = obj.references + 1]
<1>1. objects' = [objects EXCEPT ![i] = opened]
  BY DEF Opens
<1>2. /\ opened.name = obj.name /\ opened.linked = obj.linked
      /\ opened.readonly = obj.readonly /\ opened.size = size
      /\ opened.cells = obj.cells
  BY DEF Object
<1> HIDE DEF opened
<1>3. Held(opened) = IF "trunc" \in flags THEN <<>> ELSE Held(obj)
  <2>1. CASE "trunc" \in flags
    BY <1>2, <2>1, SubSeqEmpty DEF Held, Object
  <2>2. CASE "trunc" \notin flags
    BY <1>2, <2>2 DEF Held
  <2> QED BY <2>1, <2>2
<1>4. objects'[i] = opened /\ \A j \in Slots \ {i} : objects'[j] = objects[j]
  BY <1>1 DEF TablesInv, TablesTypeOK
<1> QED BY <1>1, <1>2, <1>3, <1>4

(* A file there is, is opened.                                             *)
LEMMA OpensFound ==
  ASSUME TablesInv, NEW name, NEW flags \in SUBSET Flags, Lookup(name) # {},
         \E d \in Fds : handles[d] = NoHandle,
         ~({"create", "excl"} \subseteq flags),
         NEW i, i = First(Lookup(name)), objects[i].readonly => "write" \notin flags,
         Opens(i, objects[i], flags)
  PROVE  Tree!Open(name, flags)
<1>1. i \in Slots
  BY FoundIsLinked
<1>2. objects[i] \in Object /\ objects[i].size <= Len(objects[i].cells)
  BY <1>1 DEF TablesInv, TablesTypeOK, ObjectsInv
<1> PICK opened : opened = objects'[i]
  OBVIOUS
<1>3. /\ objects' = [objects EXCEPT ![i] = opened]
      /\ opened.name = objects[i].name /\ opened.linked = objects[i].linked
      /\ opened.readonly = objects[i].readonly
      /\ Held(opened) = IF "trunc" \in flags THEN <<>> ELSE Held(objects[i])
  BY <1>1, <1>2, OpensObject
<1>4. /\ UNCHANGED <<NamedFiles, InputFiles>>
      /\ Contents' = [Contents EXCEPT ![i] = Held(opened)]
  BY <1>1, <1>3, ContentChanges
<1>5. Contents' = IF "trunc" \in flags THEN [Contents EXCEPT ![i] = <<>>] ELSE Contents
  <2>1. Contents[i] = Held(objects[i]) /\ Contents = [j \in Slots |-> Contents[j]]
    BY <1>1 DEF Contents
  <2> QED BY <1>1, <1>3, <1>4, <2>1
<1>6. name \in DOMAIN NamedFiles /\ NamedFiles[name] = i
  BY <1>1, TreeParts DEF TreeFacts
<1>7. i \in InputFiles => "write" \notin flags
  BY DEF InputFiles
<1>8. PICK d : OpensAt(d, i, flags)
  BY <1>1, OpensDescriptor
<1>9. reply'.bytes = <<>>
  BY DEF Opens, Returns
<1> QED BY <1>1, <1>4, <1>5, <1>6, <1>7, <1>8, <1>9 DEF OpensAt, Tree!Open

(* A file is created in a slot that nothing uses.                          *)
LEMMA OpensNew ==
  ASSUME TablesInv, TablesInv', NEW name, NEW flags \in SUBSET Flags, Lookup(name) = {},
         \E d \in Fds : handles[d] = NoHandle, "create" \in flags,
         NEW i \in Slots, objects[i] = NoObject, NEW obj \in Object,
         obj.name = name, obj.linked, ~obj.readonly,
         obj.cells = NoObject.cells, obj.size = NoObject.size,
         Opens(i, obj, flags)
  PROVE  Tree!Open(name, flags)
<1>1. obj.size <= Len(obj.cells)
  BY DEF NoObject
<1>2. Held(obj) = <<>>
  <2>1. Held(obj) = Held(NoObject)
    BY DEF Held
  <2> QED BY <2>1, NothingInside
<1>3. /\ \A j \in Slots \ {i} : objects'[j] = objects[j]
      /\ objects'[i].name = obj.name /\ objects'[i].linked = obj.linked
      /\ objects'[i].readonly = obj.readonly
      /\ Held(objects'[i]) = IF "trunc" \in flags THEN <<>> ELSE Held(obj)
  BY <1>1, OpensObject
<1>4. /\ objects'[i].name = name /\ objects'[i].linked /\ ~objects'[i].readonly
      /\ Held(objects'[i]) = <<>>
  BY <1>2, <1>3
<1>5. /\ ~objects[i].linked /\ ~objects[i].readonly /\ Held(objects[i]) = <<>>
  <2>1. ~NoObject.linked /\ ~NoObject.readonly
    BY DEF NoObject
  <2> QED BY <2>1, NothingInside
<1>6. Contents[i] = <<>> /\ Contents' = Contents
  <2>1. \A j \in Slots : Held(objects'[j]) = Held(objects[j])
    BY <1>3, <1>4, <1>5
  <2>2. Contents' = [j \in Slots |-> Held(objects'[j])]
    BY DEF Contents, Held
  <2>3. Contents = [j \in Slots |-> Held(objects[j])]
    BY DEF Contents
  <2> QED BY <1>5, <2>1, <2>2, <2>3
<1>7. InputFiles' = InputFiles
  BY <1>3, <1>4, <1>5 DEF InputFiles
<1>8. i \notin Paths \cup {OpenFiles[d].file : d \in DOMAIN OpenFiles}
  BY UseParts DEF UseFacts, InUse
<1>9. name \notin DOMAIN NamedFiles
  BY TreeParts DEF TreeFacts
<1>10. \A p : Lookup(p)' = IF p = name THEN {i} ELSE Lookup(p)
  <2>1. \A j \in Slots : ~(objects[j].linked /\ objects[j].name = name)
    BY DEF Lookup
  <2>2. Lookup(name)' = {i}
    BY <1>3, <1>4, <2>1 DEF Lookup
  <2>3. ASSUME NEW p, p # name
        PROVE  Lookup(p)' = Lookup(p)
    BY <1>3, <1>4, <1>5, <2>3 DEF Lookup
  <2> QED BY <2>2, <2>3
<1>11. NamedFiles' = [q \in DOMAIN NamedFiles \cup {name} |->
                        IF q = name THEN i ELSE NamedFiles[q]]
  <2>1. DOMAIN NamedFiles' = DOMAIN NamedFiles \cup {name}
    <3>1. \A p : p \in DOMAIN NamedFiles' <=> Lookup(p)' # {}
      BY TreePartsNext DEF TreeFacts
    <3>2. \A p : p \in DOMAIN NamedFiles <=> Lookup(p) # {}
      BY TreeParts DEF TreeFacts
    <3> QED BY <1>10, <3>1, <3>2
  <2>2. NamedFiles' = [q \in DOMAIN NamedFiles' |-> First(Lookup(q)')]
    BY DEF NamedFiles, Lookup
  <2>3. \A q \in DOMAIN NamedFiles \cup {name} :
          First(Lookup(q)') = IF q = name THEN i ELSE NamedFiles[q]
    <3>1. \A q \in DOMAIN NamedFiles : NamedFiles[q] = First(Lookup(q))
      BY TreeParts DEF TreeFacts
    <3>2. First({i}) = i
      BY SlotsAreNumbers DEF First
    <3> QED BY <1>9, <1>10, <3>1, <3>2
  <2> QED BY <2>1, <2>2, <2>3
<1>12. PICK d : OpensAt(d, i, flags)
  BY OpensDescriptor
<1>13. reply'.bytes = <<>>
  BY DEF Opens, Returns
<1> QED BY <1>6, <1>7, <1>8, <1>9, <1>11, <1>12, <1>13
        DEF OpensAt, Paths, Tree!Open, Tree!Named, Tree!Opened

LEMMA OpenIsOpen ==
  ASSUME FilesInv, FilesInv', NEW raw \in RawPaths, NEW flags \in SUBSET Flags,
         Open(raw, flags)
  PROVE  Tree!Other \/ (Normalized(raw) \in Names /\ Tree!Open(Normalized(raw), flags))
<1> DEFINE name == Normalized(raw)
           free == {i \in Slots : objects[i].name = NoName}
<1>1. CASE \E e : Fails(e)
  BY <1>1, FailsIsOther
<1>2. ASSUME PathError(name) = "none", NEW st, OpenError(name, flags, st) = "none",
             Lookup(name) # {}, NEW i, i = First(Lookup(name)),
             Opens(i, objects[i], flags)
      PROVE  name \in Names /\ Tree!Open(name, flags)
  <2>1. /\ \E d \in Fds : handles[d] = NoHandle
        /\ ~({"create", "excl"} \subseteq flags)
        /\ objects[i].readonly => "write" \notin flags
    BY <1>2, OpenErrorNone
  <2>2. name \in Names /\ TablesInv
    BY <1>2, NamedName, FilesParts
  <2> HIDE DEF name
  <2> QED BY <1>2, <2>1, <2>2, OpensFound
<1>3. ASSUME PathError(name) = "none", NEW st, OpenError(name, flags, st) = "none",
             Lookup(name) = {}, NEW i, i = First(free),
             NEW obj, obj = [objects[i] EXCEPT !.name = name, !.linked = TRUE],
             Opens(i, obj, flags)
      PROVE  name \in Names /\ Tree!Open(name, flags)
  <2>1. /\ \E d \in Fds : handles[d] = NoHandle
        /\ "create" \in flags /\ free # {}
    BY <1>3, OpenErrorNone
  <2>2. name \in Names /\ name \in Seq(Components) /\ TablesInv /\ TablesInv'
    BY <1>3, NamedName, NormalizedTyped, FilesParts, FilesPartsNext
  <2>3. i \in Slots /\ objects[i] = NoObject
    <3>1. free \in SUBSET Nat
      BY SlotsAreNumbers
    <3>2. i \in Slots /\ objects[i].name = NoName
      BY <1>3, <2>1, <3>1, FirstIsLeast
    <3> QED BY <2>2, <3>2 DEF TablesInv, ObjectsInv
  <2> HIDE DEF name, free
  <2>4. /\ obj \in Object /\ obj.name = name /\ obj.linked /\ ~obj.readonly
        /\ obj.cells = NoObject.cells /\ obj.size = NoObject.size
    BY <1>3, <2>2, <2>3, EmptyIsTyped DEF Object, NoObject
  <2> QED BY <1>3, <2>1, <2>2, <2>3, <2>4, OpensNew
<1> QED BY <1>1, <1>2, <1>3 DEF Open, Refused

(* A mount replaces all files.                                             *)
LEMMA MountIsMount ==
  ASSUME FilesInv, FilesInv', NEW packet \in Packets, Mount(packet)
  PROVE  Tree!Other \/ Tree!Mount
<1> DEFINE files == packet.files
<1>1. CASE \E e : Refused(e)
  BY <1>1, RefusedIsOther
<1>2. CASE /\ ~Busy
           /\ objects' = Mounted(files)
           /\ Returns(<<>>)
           /\ UNCHANGED handles
  <2>1. TablesInv /\ TablesInv'
    BY FilesParts, FilesPartsNext
  <2>2. OpenFiles = <<>> /\ OpenFiles' = OpenFiles
    <3>1. {e \in Fds : handles[e] # NoHandle} = {}
      BY <1>2 DEF Busy
    <3>2. OpenFiles = [x \in {} |-> OpenFiles[x]]
      BY <3>1 DEF OpenFiles
    <3>3. OpenFiles = <<>>
      BY <3>2, EmptyFunction
    <3> QED BY <1>2, <3>3 DEF OpenFiles
  <2>3. ASSUME NEW i \in Slots
        PROVE  \/ objects'[i].linked /\ objects'[i].readonly
               \/ /\ ~objects'[i].linked /\ ~objects'[i].readonly
                  /\ Held(objects'[i]) = <<>>
    <3>1. CASE i < Len(files)
      BY <1>2, <3>1 DEF Mounted
    <3>2. CASE ~(i < Len(files))
      <4>1. objects'[i] = NoObject
        BY <1>2, <3>2 DEF Mounted
      <4>2. ~NoObject.linked /\ ~NoObject.readonly
        BY DEF NoObject
      <4> QED BY <4>1, <4>2, NothingInside
    <3> QED BY <3>1, <3>2
  <2>4. \A f : f \in {NamedFiles'[p] : p \in DOMAIN NamedFiles'} <=> f \in Slots /\ objects'[f].linked
    BY <2>1, TreePartsNext DEF TreeFacts
  <2>5. InputFiles' = {NamedFiles'[p] : p \in DOMAIN NamedFiles'}
    BY <2>3, <2>4 DEF InputFiles
  <2>6. \A p, q \in DOMAIN NamedFiles' : p # q => NamedFiles'[p] # NamedFiles'[q]
    BY <2>1, TreePartsNext DEF TreeFacts
  <2>7. \A f \in Slots \ InputFiles' : Contents'[f] = <<>>
    <3>1. Contents' = [j \in Slots |-> Held(objects'[j])]
      BY DEF Contents, Held
    <3> QED BY <2>3, <3>1 DEF InputFiles
  <2>8. reply'.bytes = <<>>
    BY <1>2 DEF Returns
  <2> QED BY <2>2, <2>5, <2>6, <2>7, <2>8 DEF Tree!Mount
<1> QED BY <1>1, <1>2 DEF Mount

-----------------------------------------------------------------------------
(* Nothing is there at first.                                              *)
LEMMA InitIsInit == Init => Tree!Init
<1> SUFFICES ASSUME Init PROVE Tree!Init
  OBVIOUS
<1>1. /\ \A i \in Slots : objects[i] = NoObject
      /\ \A d \in Fds : handles[d] = NoHandle
  BY DEF Init
<1>2. NoObject.linked = FALSE /\ NoObject.readonly = FALSE
  BY DEF NoObject
<1>3. NamedFiles = <<>>
  <2>1. {objects[i].name : i \in {j \in Slots : objects[j].linked}} = {}
    BY <1>1, <1>2
  <2>2. NamedFiles = [x \in {} |-> NamedFiles[x]]
    BY <2>1 DEF NamedFiles
  <2> QED BY <2>2, EmptyFunction
<1>4. OpenFiles = <<>>
  <2>1. {e \in Fds : handles[e] # NoHandle} = {}
    BY <1>1
  <2>2. OpenFiles = [x \in {} |-> OpenFiles[x]]
    BY <2>1 DEF OpenFiles
  <2> QED BY <2>2, EmptyFunction
<1>5. InputFiles = {}
  BY <1>1, <1>2 DEF InputFiles
<1>6. Contents = [f \in Slots |-> <<>>]
  <2>1. \A f \in Slots : Held(objects[f]) = <<>>
    BY <1>1, NothingInside
  <2> QED BY <2>1 DEF Contents
<1>7. reply.bytes = <<>>
  BY DEF Init
<1> QED BY <1>3, <1>4, <1>5, <1>6, <1>7 DEF Tree!Init

(* Every call is one step of the tree.                                     *)
LEMMA FileCallIsStep ==
  ASSUME FilesInv, FilesInv', FileCall
  PROVE  Tree!Next
<1>1. CASE \E packet \in Packets : Mount(packet)
  BY <1>1, MountIsMount DEF Tree!Next
<1>2. ASSUME NEW raw \in RawPaths,
             \/ Stat(raw) \/ Unlink(raw) \/ Output(raw)
             \/ \E flags \in FlagSets : Open(raw, flags)
             \/ \E text \in Texts, own \in BOOLEAN : ReplaceOwned(raw, text, own)
             \/ \E m \in AccessModes : Access(raw, m.write, m.execute)
      PROVE  Tree!Next
  <2>1. CASE Stat(raw) \/ \E m \in AccessModes : Access(raw, m.write, m.execute)
    BY <2>1, QuietCalls DEF Tree!Next
  <2>2. CASE Unlink(raw)
    BY <2>2, UnlinkIsUnlink DEF Tree!Next
  <2>3. CASE Output(raw)
    BY <2>3, OutputIsOutput DEF Tree!Next
  <2>4. CASE \E flags \in FlagSets : Open(raw, flags)
    <3>1. PICK flags \in FlagSets : Open(raw, flags)
      BY <2>4
    <3>2. flags \in SUBSET Flags
      BY FilesAssumption
    <3> QED BY <3>1, <3>2, OpenIsOpen DEF Tree!Next
  <2>5. CASE \E text \in Texts, own \in BOOLEAN : ReplaceOwned(raw, text, own)
    BY <2>5, ReplaceIsReplace DEF Tree!Next
  <2> QED BY <1>2, <2>1, <2>2, <2>3, <2>4, <2>5
<1>3. ASSUME NEW d \in Fds,
             \/ Close(d) \/ Fstat(d)
             \/ \E count \in Counts : Read(d, count)
             \/ \E text \in Texts : Write(d, text)
             \/ \E offset \in Offsets, origin \in 0 .. 3 : Seek(d, offset, origin)
      PROVE  Tree!Next
  <2>1. CASE Fstat(d)
    BY <2>1, RefusedIsOther DEF Fstat, Tree!Next
  <2>2. CASE Close(d)
    BY <2>2, CloseIsClose DEF Tree!Next
  <2>3. CASE \E count \in Counts : Read(d, count)
    BY <2>3, ReadIsRead DEF Tree!Next
  <2>4. CASE \E text \in Texts : Write(d, text)
    BY <2>4, WriteIsWrite DEF Tree!Next
  <2>5. CASE \E offset \in Offsets, origin \in 0 .. 3 : Seek(d, offset, origin)
    BY <2>5, SeekIsSeek DEF Tree!Next
  <2> QED BY <1>3, <2>1, <2>2, <2>3, <2>4, <2>5
<1> QED BY <1>1, <1>2, <1>3 DEF FileCall

LEMMA NextIsStep ==
  FilesInv /\ FilesInv' /\ [Next]_fileVars => [Tree!Next]_(Tree!treeVars)
<1>1. ASSUME UNCHANGED fileVars
      PROVE  UNCHANGED Tree!treeVars
  BY <1>1, StutterIsOther DEF fileVars, Tree!treeVars
<1>2. ASSUME DirectoryClose
      PROVE  Tree!Next
  BY <1>2, EmptyIsOther DEF DirectoryClose, Tree!Next
<1>3. ASSUME NEW raw \in RawPaths, DirectoryOpen(raw)
      PROVE  Tree!Next
  BY <1>3, QuietCalls DEF Tree!Next
<1> QED BY <1>1, <1>2, <1>3, FileCallIsStep DEF Next

(* The calls newlib makes on the way.                                      *)
LEMMA PathCallIsStep ==
  ASSUME FilesInv, FilesInv', PathCall
  PROVE  Tree!Next
<1> SUFFICES ASSUME NEW raw \in RawPaths, NEW flags \in OpenModes,
                    SysOpen(raw, flags) \/ SysAccess(raw, flags)
             PROVE  Tree!Next
  BY DEF PathCall
<1>1. CASE Refused("EINVAL")
  BY <1>1, RefusedIsOther DEF Tree!Next
<1>2. CASE Open(raw, FileFlags(flags)) /\ FileFlags(flags) \in FlagSets
  <2>1. FileFlags(flags) \in SUBSET Flags
    BY <1>2, FilesAssumption
  <2> QED BY <1>2, <2>1, OpenIsOpen DEF Tree!Next
<1>3. CASE \E write, execute : Access(raw, write, execute)
  BY <1>3, QuietCalls DEF Tree!Next
<1> QED BY <1>1, <1>2, <1>3, ModesAssumption DEF SysOpen, SysAccess

LEMMA CallsAreSteps ==
  FilesInv /\ FilesInv' /\ [CallsNext]_<<fileVars, callVars>>
    => [Tree!Next]_(Tree!treeVars)
<1>1. ASSUME UNCHANGED fileVars
      PROVE  UNCHANGED Tree!treeVars
  BY <1>1, StutterIsOther DEF fileVars, Tree!treeVars
<1> QED BY <1>1, NextIsStep, PathCallIsStep DEF CallsNext

(* The tables, counts and buffers of files.c, of whatever sizes, implement *)
(* the tree of files of doc/gcc_space.md: every call is one step of the    *)
(* tree, or one that it does not see.                                      *)
THEOREM FilesImplementTree == Spec => ImplementsTree
BY InitInv, NextKeeps, InitIsInit, NextIsStep, PTL DEF Spec, ImplementsTree, Tree!Spec

(* So do the files behind the calls newlib makes (syscalls.c).             *)
THEOREM GuestImplementsTree == CallsSpec => ImplementsTree
BY InitInv, CallsKeepFiles, InitIsInit, CallsAreSteps, PTL
   DEF CallsSpec, ImplementsTree, Tree!Spec

-----------------------------------------------------------------------------
(* A prefix, cell by cell.                                                 *)
LEMMA PrefixIs ==
  ASSUME NEW s \in Seq(Components), NEW t \in Seq(Components)
  PROVE  IsPrefix(s, t) <=> Len(s) <= Len(t) /\ \A k \in 1 .. Len(s) : s[k] = t[k]
<1>1. PICK n : n = Len(s)
  OBVIOUS
<1>2. n \in Nat /\ Len(t) \in Nat
  BY <1>1, LenProperties
<1> SUFFICES ASSUME n <= Len(t)
             PROVE  SubSeq(s, 1, n) = SubSeq(t, 1, n) <=> \A k \in 1 .. n : s[k] = t[k]
  BY <1>1 DEF IsPrefix
<1>3. PICK a, b : a = SubSeq(s, 1, n) /\ b = SubSeq(t, 1, n)
  OBVIOUS
<1>4. /\ \A k \in 1 .. n : s[k] \in Components
      /\ \A k \in 1 .. n : t[k] \in Components
  BY <1>1, <1>2, ElementOfSeq
<1>5. n - 1 + 1 = n /\ (1 <= n \/ n = 0)
  BY <1>2
<1>6. /\ a \in Seq(Components) /\ Len(a) = n /\ \A k \in 1 .. n : a[k] = s[k]
  <2>1. /\ a \in Seq(Components) /\ Len(a) = IF 1 <= n THEN n - 1 + 1 ELSE 0
        /\ \A k \in 1 .. n - 1 + 1 : a[k] = s[1 + k - 1]
    BY <1>2, <1>3, <1>4, SubSeqProperties
  <2>2. \A k \in 1 .. n : 1 + k - 1 = k
    BY <1>2
  <2> QED BY <1>5, <2>1, <2>2
<1>7. /\ b \in Seq(Components) /\ Len(b) = n /\ \A k \in 1 .. n : b[k] = t[k]
  <2>1. /\ b \in Seq(Components) /\ Len(b) = IF 1 <= n THEN n - 1 + 1 ELSE 0
        /\ \A k \in 1 .. n - 1 + 1 : b[k] = t[1 + k - 1]
    BY <1>2, <1>3, <1>4, SubSeqProperties
  <2>2. \A k \in 1 .. n : 1 + k - 1 = k
    BY <1>2
  <2> QED BY <1>5, <2>1, <2>2
<1>8. a = b <=> \A k \in 1 .. n : a[k] = b[k]
  BY <1>6, <1>7, SeqEqual
<1> QED BY <1>3, <1>6, <1>7, <1>8

(* The objects that a directory leads to have a component more than it.    *)
NamesTyped == \A i \in Slots : objects[i].name \in Seq(Components)

LEMMA ChildIsLonger ==
  ASSUME NamesTyped, NEW base \in Seq(Components), NEW i \in Slots, IsChild(base, i)
  PROVE  /\ Len(base) + 1 <= Len(objects[i].name) /\ Len(base) \in Nat
         /\ Len(objects[i].name) \in Nat
         /\ Part(base, i) \in Components
         /\ \A k \in 1 .. Len(base) : base[k] = objects[i].name[k]
<1>1. PICK name \in Seq(Components) : name = objects[i].name
  BY DEF NamesTyped
<1>2. PICK n : n = Len(base)
  OBVIOUS
<1>3. n \in Nat /\ Len(name) \in Nat
  BY <1>2, LenProperties
<1>4. /\ n <= Len(name) /\ \A k \in 1 .. n : base[k] = name[k]
      /\ base # name
  BY <1>1, <1>2, PrefixIs DEF IsChild, IsStrictPrefix
<1>5. n # Len(name)
  <2> SUFFICES ASSUME n = Len(name) PROVE base = name
    BY <1>4
  <2> QED BY <1>2, <1>4, SeqEqual
<1>6. n + 1 \in 1 .. Len(name)
  BY <1>3, <1>4, <1>5
<1>7. name[n + 1] \in Components
  BY <1>6, ElementOfSeq
<1> QED BY <1>1, <1>2, <1>3, <1>4, <1>6, <1>7 DEF Part

(* Nobody shares the component of a file that nothing lies below.          *)
LEMMA PlainIsAlone ==
  ASSUME NamesTyped, NamesDiffer, NEW base \in Seq(Components),
         NEW i \in Slots, Plain(i), IsChild(base, i), Len(objects[i].name) = Len(base) + 1,
         NEW j \in Slots, IsChild(base, j), j # i
  PROVE  Part(base, j) # Part(base, i)
<1> SUFFICES ASSUME Part(base, j) = Part(base, i) PROVE FALSE
  OBVIOUS
<1>1. PICK mine \in Seq(Components), other \in Seq(Components) :
        mine = objects[i].name /\ other = objects[j].name
  BY DEF NamesTyped
<1>2. PICK n \in Nat : n = Len(base)
  BY LenProperties
<1>3. /\ Len(mine) = n + 1 /\ n + 1 <= Len(other)
      /\ \A k \in 1 .. n : base[k] = mine[k]
      /\ \A k \in 1 .. n : base[k] = other[k]
  BY <1>1, <1>2, ChildIsLonger
<1>4. mine[n + 1] = other[n + 1]
  BY <1>1, <1>2 DEF Part
<1>5. \A k \in 1 .. n + 1 : mine[k] = other[k]
  <2>1. \A k \in 1 .. n + 1 : k \in 1 .. n \/ k = n + 1
    OBVIOUS
  <2> QED BY <1>3, <1>4, <2>1
<1>6. IsPrefix(mine, other)
  BY <1>3, <1>5, PrefixIs
<1>7. objects[i].linked /\ objects[j].linked
  BY DEF IsChild
<1>8. mine # other
  BY <1>1, <1>7 DEF NamesDiffer
<1>9. j \in Below(objects[i].name)
  BY <1>1, <1>6, <1>7, <1>8 DEF Below, IsStrictPrefix
<1> QED BY <1>9 DEF Plain

-----------------------------------------------------------------------------
(* What a scan has returned.                                               *)
Once(seen, name) == \E k \in DOMAIN seen : /\ seen[k].name = name
                                           /\ \A j \in DOMAIN seen : seen[j].name = name => j = k
Never(seen, name) == \A k \in DOMAIN seen : seen[k].name # name

Entry == [name : Components, directory : BOOLEAN]

LEMMA OneMore ==
  ASSUME NEW seen \in Seq(Entry), NEW entry \in Entry, NEW name
  PROVE  /\ Append(seen, entry) \in Seq(Entry)
         /\ Never(seen, name) /\ entry.name = name => Once(Append(seen, entry), name)
         /\ Once(seen, name) /\ entry.name # name => Once(Append(seen, entry), name)
         /\ Never(seen, name) /\ entry.name # name => Never(Append(seen, entry), name)
<1>1. PICK n \in Nat : n = Len(seen)
  BY LenProperties
<1>2. PICK next : next = Append(seen, entry)
  OBVIOUS
<1>3. /\ next \in Seq(Entry) /\ DOMAIN seen = 1 .. n /\ DOMAIN next = 1 .. n + 1
      /\ next[n + 1] = entry /\ \A k \in 1 .. n : next[k] = seen[k]
  BY <1>1, <1>2, AppendProperties, LenProperties
<1>4. \A k : k \in 1 .. n + 1 <=> k \in 1 .. n \/ k = n + 1
  OBVIOUS
<1>5. n + 1 \notin 1 .. n
  OBVIOUS
<1> QED BY <1>2, <1>3, <1>4, <1>5 DEF Once, Never

LEMMA OnceIsOne ==
  ASSUME NEW r \in Readers, NEW name, Once(scan[r].seen, name)
  PROVE  ReturnedTimes(r, name) = 1
<1>1. PICK k \in DOMAIN scan[r].seen :
        /\ scan[r].seen[k].name = name
        /\ \A j \in DOMAIN scan[r].seen : scan[r].seen[j].name = name => j = k
  BY DEF Once
<1>2. {j \in DOMAIN scan[r].seen : scan[r].seen[j].name = name} = {k}
  BY <1>1
<1> QED BY <1>2, FS_Singleton DEF ReturnedTimes

LEMMA NeverIsNone ==
  ASSUME NEW r \in Readers, NEW name, Never(scan[r].seen, name)
  PROVE  ReturnedTimes(r, name) = 0
<1>1. {j \in DOMAIN scan[r].seen : scan[r].seen[j].name = name} = {}
  BY DEF Never
<1> QED BY <1>1, FS_EmptySet DEF ReturnedTimes

-----------------------------------------------------------------------------
(* What a scan has returned when it is at a cursor: the listed slots before *)
(* it, each once.                                                          *)
Exact(base, cursor, seen) ==
  /\ \A k \in DOMAIN seen :
       \E i \in Slots : i < cursor /\ Listed(base, i) /\ Part(base, i) = seen[k].name
  /\ \A i \in Slots : i < cursor /\ Listed(base, i) => Once(seen, Part(base, i))

(* The same of files that have been there all the time, whatever became of *)
(* the others.                                                             *)
EntryOf(base, i) == IsChild(base, i) /\ Len(objects[i].name) = Len(base) + 1

KeptExact(base, cursor, seen, kept) ==
  \A i \in kept : /\ Plain(i)
                  /\ EntryOf(base, i) => IF i < cursor THEN Once(seen, Part(base, i))
                                         ELSE Never(seen, Part(base, i))

LEMMA ListedOnce ==
  ASSUME NEW base, NEW i \in Slots, NEW j \in Slots, Listed(base, i), Listed(base, j),
         Part(base, i) = Part(base, j)
  PROVE  i = j
<1>1. i \in Nat /\ j \in Nat
  BY SlotsAreNumbers
<1>2. CASE i < j
  BY <1>1, <1>2 DEF Listed
<1>3. CASE j < i
  BY <1>1, <1>3 DEF Listed
<1> QED BY <1>1, <1>2, <1>3

LEMMA HasListed ==
  ASSUME NEW base, NEW i \in Slots, IsChild(base, i)
  PROVE  \E j \in Slots : Listed(base, j) /\ Part(base, j) = Part(base, i)
<1> DEFINE same == {j \in Slots : IsChild(base, j) /\ Part(base, j) = Part(base, i)}
<1>1. same \in SUBSET Nat /\ same # {}
  BY SlotsAreNumbers
<1>2. PICK m \in same : \A n \in same : m <= n
  BY <1>1, LeastNumber
<1>3. ASSUME NEW j \in 0 .. (m - 1), IsChild(base, j), Part(base, j) = Part(base, m)
      PROVE  FALSE
  <2>1. m \in Slots
    BY <1>2
  <2>2. j \in Slots /\ j < m
    BY <2>1, FilesAssumption DEF Slots
  <2>3. j \in same
    BY <1>2, <1>3, <2>2
  <2> QED BY <1>2, <2>1, <2>2, <2>3, SlotsAreNumbers
<1>4. Listed(base, m)
  BY <1>2, <1>3 DEF Listed
<1> QED BY <1>2, <1>4

LEMMA PlainIsListed ==
  ASSUME NamesTyped, NamesDiffer, NEW base \in Seq(Components),
         NEW i \in Slots, Plain(i), EntryOf(base, i)
  PROVE  Listed(base, i)
<1>1. ASSUME NEW j \in 0 .. (i - 1), IsChild(base, j)
      PROVE  Part(base, j) # Part(base, i)
  <2>1. j \in Slots /\ j # i
    BY FilesAssumption DEF Slots
  <2> QED BY <1>1, <2>1, PlainIsAlone DEF EntryOf
<1> QED BY <1>1 DEF Listed, EntryOf

(* readdir finds a slot: the scan is exact after it.                       *)
LEMMA ExactGrows ==
  ASSUME NEW base, NEW cursor \in Int, NEW seen \in Seq(Entry), NEW entry \in Entry,
         NEW i \in Slots, cursor <= i, Listed(base, i), entry.name = Part(base, i),
         \A j \in Slots : j >= cursor /\ Listed(base, j) => i <= j,
         Exact(base, cursor, seen)
  PROVE  Exact(base, i + 1, Append(seen, entry))
<1>1. \A j \in Slots : j \in Int
  BY SlotsAreNumbers
<1>2. Never(seen, Part(base, i))
  <2> SUFFICES ASSUME NEW k \in DOMAIN seen, seen[k].name = Part(base, i) PROVE FALSE
    BY DEF Never
  <2>1. PICK j \in Slots : j < cursor /\ Listed(base, j) /\ Part(base, j) = seen[k].name
    BY DEF Exact
  <2>2. j = i
    BY <2>1, ListedOnce
  <2> QED BY <1>1, <2>1, <2>2
<1>3. ASSUME NEW j \in Slots, j < i + 1, Listed(base, j)
      PROVE  Once(Append(seen, entry), Part(base, j))
  <2>1. CASE j = i
    BY <1>2, <2>1, OneMore
  <2>2. CASE j # i
    <3>1. j < cursor
      BY <1>1, <1>3, <2>2
    <3>2. Once(seen, Part(base, j))
      BY <1>3, <3>1 DEF Exact
    <3>3. entry.name # Part(base, j)
      BY <1>3, <2>2, ListedOnce
    <3> QED BY <3>2, <3>3, OneMore
  <2> QED BY <2>1, <2>2
<1>4. ASSUME NEW k \in DOMAIN Append(seen, entry)
      PROVE  \E j \in Slots : /\ j < i + 1 /\ Listed(base, j)
                              /\ Part(base, j) = Append(seen, entry)[k].name
  <2>1. PICK n \in Nat : n = Len(seen)
    BY LenProperties
  <2>2. PICK next : next = Append(seen, entry)
    OBVIOUS
  <2>3. /\ DOMAIN seen = 1 .. n /\ DOMAIN next = 1 .. n + 1
        /\ next[n + 1] = entry /\ \A m \in 1 .. n : next[m] = seen[m]
    BY <2>1, <2>2, AppendProperties, LenProperties
  <2>4. k \in 1 .. n \/ k = n + 1
    BY <1>4, <2>2, <2>3
  <2>5. CASE k = n + 1
    BY <1>1, <2>2, <2>3, <2>5
  <2>6. CASE k \in 1 .. n
    <3>1. PICK j \in Slots : j < cursor /\ Listed(base, j) /\ Part(base, j) = seen[k].name
      BY <2>3, <2>6 DEF Exact
    <3>2. j < i + 1
      BY <1>1, <3>1
    <3> QED BY <2>2, <2>3, <2>6, <3>1, <3>2
  <2> QED BY <2>4, <2>5, <2>6
<1> QED BY <1>3, <1>4 DEF Exact

LEMMA KeptGrows ==
  ASSUME NamesTyped, NamesDiffer, NEW base \in Seq(Components), NEW cursor \in Int,
         NEW seen \in Seq(Entry), NEW entry \in Entry, NEW kept \in SUBSET Slots,
         NEW i \in Slots, cursor <= i, Listed(base, i), entry.name = Part(base, i),
         \A j \in Slots : j >= cursor /\ Listed(base, j) => i <= j,
         KeptExact(base, cursor, seen, kept)
  PROVE  KeptExact(base, i + 1, Append(seen, entry), kept)
<1> SUFFICES ASSUME NEW j \in kept
             PROVE  /\ Plain(j)
                    /\ EntryOf(base, j) =>
                         IF j < i + 1 THEN Once(Append(seen, entry), Part(base, j))
                         ELSE Never(Append(seen, entry), Part(base, j))
  BY DEF KeptExact
<1>1. Plain(j) /\ j \in Slots /\ j \in Int /\ i \in Int
  BY SlotsAreNumbers DEF KeptExact
<1> SUFFICES ASSUME EntryOf(base, j)
             PROVE  IF j < i + 1 THEN Once(Append(seen, entry), Part(base, j))
                    ELSE Never(Append(seen, entry), Part(base, j))
  BY <1>1
<1>2. /\ j < cursor => Once(seen, Part(base, j))
      /\ ~(j < cursor) => Never(seen, Part(base, j))
  BY DEF KeptExact
<1>3. Listed(base, j)
  BY <1>1, PlainIsListed
<1>4. j # i => entry.name # Part(base, j)
  BY <1>3, ListedOnce
<1>5. CASE j < cursor
  BY <1>1, <1>2, <1>4, <1>5, OneMore
<1>6. CASE j = i
  BY <1>1, <1>2, <1>6, OneMore
<1>7. CASE ~(j < cursor) /\ j # i
  <2>1. ~(j < i + 1)
    BY <1>1, <1>3, <1>7
  <2> QED BY <1>2, <1>4, <1>7, <2>1, OneMore
<1> QED BY <1>5, <1>6, <1>7

(* readdir finds nothing any more.                                         *)
LEMMA ExactEnds ==
  ASSUME NEW base, NEW cursor \in 0 .. FilesMax, NEW seen,
         \A j \in Slots : j >= cursor => ~Listed(base, j),
         Exact(base, cursor, seen)
  PROVE  Exact(base, FilesMax, seen)
<1>1. \A j \in Slots : j \in Int /\ j < FilesMax
  BY FilesAssumption DEF Slots
<1>2. \A j \in Slots : Listed(base, j) => j < cursor
  BY <1>1, FilesAssumption
<1> QED BY <1>1, <1>2 DEF Exact

LEMMA KeptEnds ==
  ASSUME NamesTyped, NamesDiffer, NEW base \in Seq(Components),
         NEW cursor \in 0 .. FilesMax, NEW seen, NEW kept \in SUBSET Slots,
         \A j \in Slots : j >= cursor => ~Listed(base, j),
         KeptExact(base, cursor, seen, kept)
  PROVE  KeptExact(base, FilesMax, seen, kept)
<1>1. \A j \in Slots : j \in Int /\ j < FilesMax
  BY FilesAssumption DEF Slots
<1>2. ASSUME NEW j \in kept, EntryOf(base, j)
      PROVE  Once(seen, Part(base, j))
  <2>1. Listed(base, j)
    BY <1>2, PlainIsListed DEF KeptExact
  <2>2. j < cursor
    BY <1>1, <2>1, FilesAssumption
  <2> QED BY <1>2, <2>2 DEF KeptExact
<1> QED BY <1>1, <1>2 DEF KeptExact

(* A scan that begins.                                                     *)
LEMMA ScanBegins ==
  ASSUME NEW base
  PROVE  /\ Exact(base, 0, <<>>)
         /\ KeptExact(base, 0, <<>>, {i \in Slots : Plain(i)})
<1>1. DOMAIN <<>> = {}
  OBVIOUS
<1>2. \A i \in Slots : ~(i < 0)
  BY SlotsAreNumbers
<1> QED BY <1>1, <1>2 DEF Exact, KeptExact, Never

-----------------------------------------------------------------------------
(* The invariant of the streams.                                           *)
Streams == [path : RawPaths, cursor : 0 .. FilesMax] \cup {NoStream}
Scans == [seen : Seq(Entry), ended : BOOLEAN, calm : BOOLEAN, kept : SUBSET Slots]

ScanOK(stream, s) ==
  stream # NoStream =>
    /\ s.ended => stream.cursor = FilesMax
    /\ s.calm => Exact(Normalized(stream.path), stream.cursor, s.seen)
    /\ KeptExact(Normalized(stream.path), stream.cursor, s.seen, s.kept)

StreamsTypeOK == streams \in [Readers -> Streams] /\ scan \in [Readers -> Scans]

StreamsInv == StreamsTypeOK /\ \A r \in Readers : ScanOK(streams[r], scan[r])

LEMMA ScanStays ==
  ASSUME NEW x, NEW y, objects' = objects
  PROVE  ScanOK(x, y)' <=> ScanOK(x, y)
BY DEF ScanOK, Exact, KeptExact, EntryOf, IsChild, Part, Listed, Plain, Below

(* One stream changes and no object does.                                  *)
LEMMA OneStreamKeeps ==
  ASSUME StreamsInv, NEW r \in Readers, NEW x \in Streams, NEW y \in Scans, ScanOK(x, y),
         streams' = [streams EXCEPT ![r] = x], scan' = [scan EXCEPT ![r] = y],
         objects' = objects
  PROVE  StreamsInv'
<1>1. StreamsTypeOK'
  BY DEF StreamsInv, StreamsTypeOK
<1>2. ASSUME NEW q \in Readers
      PROVE  ScanOK(streams[q], scan[q])'
  <2>1. PICK u, v : u = streams'[q] /\ v = scan'[q]
    OBVIOUS
  <2>2. ScanOK(u, v)
    <3>1. CASE q = r
      BY <2>1, <3>1 DEF StreamsInv, StreamsTypeOK
    <3>2. CASE q # r
      BY <2>1, <3>2 DEF StreamsInv, StreamsTypeOK
    <3> QED BY <3>1, <3>2
  <2>3. ScanOK(u, v)'
    BY <2>2, ScanStays
  <2> QED BY <2>1, <2>3
<1> QED BY <1>1, <1>2 DEF StreamsInv

LEMMA AllStreamsKept ==
  ASSUME StreamsInv, UNCHANGED <<objects, streams, scan>>
  PROVE  StreamsInv'
<1>1. StreamsTypeOK'
  BY DEF StreamsInv, StreamsTypeOK
<1>2. ASSUME NEW q \in Readers
      PROVE  ScanOK(streams[q], scan[q])'
  <2>1. PICK u, v : u = streams[q] /\ v = scan[q]
    OBVIOUS
  <2>2. ScanOK(u, v)'
    BY <2>1, ScanStays DEF StreamsInv
  <2> QED BY <2>1, <2>2
<1> QED BY <1>1, <1>2 DEF StreamsInv

(* The files change under a scan.                                          *)
LEMMA ScanObserved ==
  ASSUME NEW x, NEW y, NEW z, ScanOK(x, y),
         z.seen = y.seen, z.ended = y.ended, y.kept \subseteq Slots,
         z.calm => /\ y.calm
                   /\ \A i \in Slots : /\ objects'[i].name = objects[i].name
                                       /\ objects'[i].linked = objects[i].linked,
         \A i \in z.kept : /\ i \in y.kept
                           /\ objects'[i].name = objects[i].name
                           /\ Plain(i)'
  PROVE  ScanOK(x, z)'
<1> SUFFICES ASSUME x # NoStream PROVE ScanOK(x, z)'
  BY DEF ScanOK
<1>1. PICK base : base = Normalized(x.path)
  OBVIOUS
<1>2. z.ended => x.cursor = FilesMax
  BY DEF ScanOK
<1>3. ASSUME z.calm PROVE Exact(base, x.cursor, z.seen)'
  <2>1. Exact(base, x.cursor, y.seen)
    BY <1>1, <1>3 DEF ScanOK
  <2>2. \A i \in Slots : /\ IsChild(base, i)' <=> IsChild(base, i)
                         /\ Part(base, i)' = Part(base, i)
    BY <1>3 DEF IsChild, Part
  <2>3. \A i \in Slots : 0 .. (i - 1) \subseteq Slots
    BY FilesAssumption DEF Slots
  <2>4. \A i \in Slots : Listed(base, i)' <=> Listed(base, i)
    BY <2>2, <2>3 DEF Listed
  <2> QED BY <2>1, <2>2, <2>4 DEF Exact
<1>4. KeptExact(base, x.cursor, z.seen, z.kept)'
  <2> SUFFICES ASSUME NEW i \in z.kept
               PROVE  /\ Plain(i)'
                      /\ EntryOf(base, i)' =>
                           IF i < x.cursor THEN Once(z.seen, Part(base, i)')
                           ELSE Never(z.seen, Part(base, i)')
    BY DEF KeptExact
  <2>1. /\ i \in y.kept /\ i \in Slots
        /\ objects'[i].name = objects[i].name
        /\ Plain(i)'
    OBVIOUS
  <2>2. KeptExact(base, x.cursor, y.seen, y.kept)
    BY <1>1 DEF ScanOK
  <2>3. Plain(i)
    BY <2>1, <2>2 DEF KeptExact
  <2>4. Part(base, i)' = Part(base, i) /\ (EntryOf(base, i)' => EntryOf(base, i))
    BY <2>1, <2>3 DEF Part, EntryOf, IsChild, Plain
  <2> QED BY <2>1, <2>2, <2>4 DEF KeptExact
<1> QED BY <1>1, <1>2, <1>3, <1>4 DEF ScanOK

LEMMA FilesKeepStreams ==
  ASSUME StreamsInv, Observed, UNCHANGED streams
  PROVE  StreamsInv'
<1> DEFINE same == \A i \in Slots : /\ objects'[i].name = objects[i].name
                                    /\ objects'[i].linked = objects[i].linked
           left(s) == {i \in s.kept : objects'[i].name = objects[i].name /\ Plain(i)'}
<1>1. ASSUME NEW r \in Readers
      PROVE  /\ scan'[r] \in Scans
             /\ scan'[r].seen = scan[r].seen /\ scan'[r].ended = scan[r].ended
             /\ scan'[r].calm => scan[r].calm /\ same
             /\ scan'[r].kept = left(scan[r])
             /\ scan[r].kept \subseteq Slots
  <2>1. PICK s \in Scans : s = scan[r]
    BY DEF StreamsInv, StreamsTypeOK
  <2>2. PICK b \in BOOLEAN : b <=> same
    OBVIOUS
  <2>3. PICK k \in SUBSET Slots : k = left(s)
    BY <2>1 DEF Scans
  <2>4. scan'[r] = [s EXCEPT !.calm = s.calm /\ b, !.kept = k]
    <3>1. scan'[r] = [s EXCEPT !.calm = s.calm /\ same, !.kept = left(s)]
      BY <2>1 DEF Observed
    <3>2. (s.calm /\ same) = (s.calm /\ b)
      BY <2>2
    <3> QED BY <2>3, <3>1, <3>2, Zenon
  <2> HIDE DEF same, left
  <2>5. (s.calm /\ b) \in BOOLEAN
    OBVIOUS
  <2>6. /\ scan'[r] \in Scans
        /\ scan'[r].seen = s.seen /\ scan'[r].ended = s.ended
        /\ scan'[r].calm = (s.calm /\ b)
        /\ scan'[r].kept = k
    <3>1. PICK c \in BOOLEAN : c = (s.calm /\ b)
      BY <2>5
    <3>2. scan'[r] = [s EXCEPT !.calm = c, !.kept = k]
      BY <2>4, <3>1
    <3>3. /\ scan'[r] \in Scans
          /\ scan'[r].seen = s.seen /\ scan'[r].ended = s.ended
          /\ scan'[r].calm = c
          /\ scan'[r].kept = k
      BY <3>2 DEF Scans
    <3> QED BY <3>1, <3>3, Zenon
  <2>7. s.kept \subseteq Slots
    BY DEF Scans
  <2> QED BY <2>1, <2>2, <2>3, <2>6, <2>7
<1>2. StreamsTypeOK'
  <2>1. scan' \in [Readers -> Scans]
    <3>1. DOMAIN scan' = Readers /\ scan' = [r \in Readers |-> scan'[r]]
      BY DEF Observed
    <3> QED BY <1>1, <3>1
  <2> QED BY <2>1 DEF StreamsInv, StreamsTypeOK
<1>3. ASSUME NEW r \in Readers
      PROVE  ScanOK(streams[r], scan[r])'
  <2>1. PICK x, y, z : x = streams[r] /\ y = scan[r] /\ z = scan'[r]
    OBVIOUS
  <2>2. ScanOK(x, y)
    BY <2>1 DEF StreamsInv
  <2>3. ScanOK(x, z)'
    BY <1>1, <2>1, <2>2, ScanObserved
  <2> QED BY <2>1, <2>3
<1> QED BY <1>2, <1>3 DEF StreamsInv

-----------------------------------------------------------------------------
(* readdir.                                                                *)
LEMMA ReaddirKeeps ==
  ASSUME FilesInv, StreamsInv, NEW r \in Readers, Readdir(r)
  PROVE  FilesInv' /\ StreamsInv'
<1>1. PICK x \in Streams, y \in Scans : x = streams[r] /\ y = scan[r] /\ ScanOK(x, y)
  BY DEF StreamsInv, StreamsTypeOK
<1>2. x # NoStream /\ x \in [path : RawPaths, cursor : 0 .. FilesMax]
  BY <1>1 DEF Readdir, Streams
<1>3. PICK base \in Seq(Components) : base = Normalized(x.path)
  BY <1>2, NormalizedTyped
<1>4. PICK cursor \in 0 .. FilesMax : cursor = x.cursor
  BY <1>2
<1>5. NamesTyped /\ NamesDiffer /\ directories \in Tables
  BY FilesParts, DanglingParts DEF TablesInv, TablesTypeOK, Object, NamesTyped, RestTypeOK
<1>6. UNCHANGED <<objects, handles, openDirectories>>
  BY DEF Readdir
<1>7. /\ y.calm => Exact(base, cursor, y.seen)
      /\ KeptExact(base, cursor, y.seen, y.kept)
  BY <1>1, <1>2, <1>3, <1>4 DEF ScanOK
<1>8. y.seen \in Seq(Entry) /\ y.kept \in SUBSET Slots
  BY DEF Scans
<1> DEFINE listed == {i \in Slots : i >= cursor /\ Listed(base, i)}
<1>9. CASE listed = {}
  <2>1. /\ streams' = [streams EXCEPT ![r].cursor = FilesMax]
        /\ scan' = [scan EXCEPT ![r].ended = TRUE]
        /\ UNCHANGED directories
        /\ Returns(<<>>)
    BY <1>1, <1>3, <1>4, <1>9 DEF Readdir
  <2>2. FilesInv'
    <3>1. TablesInv'
      BY <1>6, FilesParts, TablesStay
    <3>2. RestTypeOK'
      BY <1>6, <2>1, FilesParts, ReturnsNothing DEF RestTypeOK
    <3> QED BY <3>1, <3>2, FilesPartsNext
  <2>3. PICK u, v : u = [x EXCEPT !.cursor = FilesMax] /\ v = [y EXCEPT !.ended = TRUE]
    OBVIOUS
  <2>4. u \in Streams /\ u.path = x.path /\ u.cursor = FilesMax
    BY <1>2, <2>3, FilesAssumption DEF Streams
  <2>5. v \in Scans /\ v.seen = y.seen /\ v.calm = y.calm /\ v.kept = y.kept
    BY <2>3 DEF Scans
  <2>6. \A j \in Slots : j >= cursor => ~Listed(base, j)
    BY <1>9
  <2>7. Exact(base, cursor, y.seen) => Exact(base, FilesMax, y.seen)
    BY <2>6, ExactEnds
  <2>8. KeptExact(base, FilesMax, y.seen, y.kept)
    BY <1>5, <1>7, <1>8, <2>6, KeptEnds
  <2>9. ScanOK(u, v)
    BY <1>3, <1>7, <2>4, <2>5, <2>7, <2>8 DEF ScanOK
  <2>10. streams' = [streams EXCEPT ![r] = u] /\ scan' = [scan EXCEPT ![r] = v]
    BY <1>1, <2>1, <2>3
  <2> QED BY <1>6, <2>2, <2>4, <2>5, <2>9, <2>10, OneStreamKeeps
<1>10. CASE listed # {}
  <2>1. PICK i : i = First(listed)
    OBVIOUS
  <2>2. i \in listed /\ \A j \in listed : i <= j
    <3>1. listed \in SUBSET Nat
      BY SlotsAreNumbers
    <3> QED BY <1>10, <2>1, <3>1, FirstIsLeast
  <2>3. i \in Slots /\ cursor <= i /\ Listed(base, i) /\ IsChild(base, i)
    BY <2>2, SlotsAreNumbers DEF Listed
  <2>4. \A j \in Slots : j >= cursor /\ Listed(base, j) => i <= j
    BY <2>2
  <2>5. PICK entry : entry = [name |-> Part(base, i),
                              directory |-> Len(objects[i].name) > Len(base) + 1]
    OBVIOUS
  <2>6. Part(base, i) \in Components
    BY <1>5, <2>3, ChildIsLonger
  <2>7. entry \in Entry /\ entry.name = Part(base, i)
    BY <2>5, <2>6 DEF Entry
  <2> DEFINE numbers == IF entry.directory THEN InodeOutcomes(Append(base, entry.name))
                 ELSE {[errno |-> "none", inode |-> i + 1, table |-> directories]}
  <2>8. PICK o \in numbers :
          /\ directories' = o.table
          /\ \/ Fails(o.errno) /\ UNCHANGED <<streams, scan>>
             \/ /\ streams' = [streams EXCEPT ![r].cursor = i + 1]
                /\ scan' = [scan EXCEPT ![r].seen = Append(@, entry)]
                /\ Returns(<<>>)
    BY <1>1, <1>3, <1>4, <1>10, <2>1, <2>5 DEF Readdir, CursorAfter
  <2>9. directories' \in Tables
    <3>1. Append(base, entry.name) \in Seq(Components)
      BY <2>6, <2>7, AppendProperties
    <3>2. o.table = directories \/ o \in InodeOutcomes(Append(base, entry.name))
      OBVIOUS
    <3> QED BY <1>5, <2>8, <3>1, <3>2, InodeTables
  <2>10. CASE Fails(o.errno) /\ UNCHANGED <<streams, scan>>
    BY <1>6, <2>9, <2>10, FailsKeeps, AllStreamsKept
  <2>11. CASE /\ streams' = [streams EXCEPT ![r].cursor = i + 1]
              /\ scan' = [scan EXCEPT ![r].seen = Append(@, entry)]
              /\ Returns(<<>>)
    <3>1. FilesInv'
      <4>1. TablesInv'
        BY <1>6, FilesParts, TablesStay
      <4>2. RestTypeOK'
        BY <1>6, <2>9, <2>11, FilesParts, ReturnsNothing DEF RestTypeOK
      <4> QED BY <4>1, <4>2, FilesPartsNext
    <3>2. PICK more : more = Append(y.seen, entry)
      OBVIOUS
    <3>3. more \in Seq(Entry)
      BY <1>8, <2>7, <3>2, AppendProperties
    <3>4. PICK u, v : u = [x EXCEPT !.cursor = i + 1] /\ v = [y EXCEPT !.seen = more]
      OBVIOUS
    <3>5. u \in Streams /\ u.path = x.path /\ u.cursor = i + 1
      <4>1. i + 1 \in 0 .. FilesMax
        BY <2>3, FilesAssumption DEF Slots
      <4> QED BY <1>2, <3>4, <4>1 DEF Streams
    <3>6. v \in Scans /\ v.seen = more /\ v.calm = y.calm /\ v.kept = y.kept
          /\ v.ended = y.ended
      BY <3>3, <3>4 DEF Scans
    <3>7. cursor \in Int /\ cursor # FilesMax
      BY <2>3, FilesAssumption DEF Slots
    <3>8. Exact(base, cursor, y.seen) => Exact(base, i + 1, more)
      BY <1>8, <2>3, <2>4, <2>7, <3>2, <3>7, ExactGrows
    <3>9. KeptExact(base, i + 1, more, y.kept)
      BY <1>5, <1>7, <1>8, <2>3, <2>4, <2>7, <3>2, <3>7, KeptGrows
    <3>10. ~v.ended
      BY <1>1, <1>2, <1>4, <3>6, <3>7 DEF ScanOK
    <3>11. ScanOK(u, v)
      BY <1>3, <1>7, <3>5, <3>6, <3>8, <3>9, <3>10 DEF ScanOK
    <3>12. streams' = [streams EXCEPT ![r] = u] /\ scan' = [scan EXCEPT ![r] = v]
      BY <1>1, <2>11, <3>2, <3>4
    <3> QED BY <1>6, <3>1, <3>5, <3>6, <3>11, <3>12, OneStreamKeeps
  <2> QED BY <2>8, <2>10, <2>11
<1> QED BY <1>9, <1>10

LEMMA BeginsTyped == NewScan \in Scans /\ NoScan \in Scans
<1>1. <<>> \in Seq(Entry)
  OBVIOUS
<1> QED BY <1>1 DEF NewScan, NoScan, Scans

LEMMA BeginsOK ==
  ASSUME NEW path
  PROVE  ScanOK([path |-> path, cursor |-> 0], NewScan)
BY ScanBegins DEF ScanOK, NewScan

LEMMA NoScanOK ==
  ASSUME NEW x
  PROVE  ScanOK(x, NoScan)
BY DEF ScanOK, NoScan, KeptExact

LEMMA OpendirKeeps ==
  ASSUME FilesInv, StreamsInv, NEW r \in Readers, NEW raw \in RawPaths, Opendir(r, raw)
  PROVE  FilesInv' /\ StreamsInv'
<1>1. CASE Refused("ENOMEM") /\ UNCHANGED <<streams, scan>>
  <2>1. FilesInv'
    BY <1>1, RefusedKeeps
  <2> QED BY <1>1, <2>1, AllStreamsKept DEF Refused, Fails
<1>2. ASSUME DirectoryOpen(raw),
             IF reply'.failed
             THEN UNCHANGED <<streams, scan>>
             ELSE /\ streams' = [streams EXCEPT ![r] = [path |-> raw, cursor |-> 0]]
                  /\ scan' = [scan EXCEPT ![r] = NewScan]
      PROVE  FilesInv' /\ StreamsInv'
  <2>1. FilesInv'
    BY <1>2, DirectoryOpenKeeps
  <2>2. objects' = objects
    BY <1>2 DEF DirectoryOpen, Refused, Fails
  <2>3. CASE UNCHANGED <<streams, scan>>
    BY <2>1, <2>2, <2>3, AllStreamsKept
  <2>4. CASE /\ streams' = [streams EXCEPT ![r] = [path |-> raw, cursor |-> 0]]
             /\ scan' = [scan EXCEPT ![r] = NewScan]
    <3>1. [path |-> raw, cursor |-> 0] \in Streams
      BY FilesAssumption DEF Streams
    <3> QED BY <2>1, <2>2, <2>4, <3>1, BeginsTyped, BeginsOK, OneStreamKeeps
  <2> QED BY <1>2, <2>3, <2>4
<1> QED BY <1>1, <1>2 DEF Opendir

LEMMA ClosedirKeeps ==
  ASSUME FilesInv, StreamsInv, NEW r \in Readers, Closedir(r)
  PROVE  FilesInv' /\ StreamsInv'
<1>1. FilesInv'
  BY DirectoryCloseKeeps DEF Closedir
<1>2. objects' = objects
  BY DEF Closedir, DirectoryClose
<1>3. NoStream \in Streams
  BY DEF Streams
<1> QED BY <1>1, <1>2, <1>3, BeginsTyped, NoScanOK, OneStreamKeeps DEF Closedir

LEMMA RewinddirKeeps ==
  ASSUME FilesInv, StreamsInv, NEW r \in Readers, Rewinddir(r)
  PROVE  FilesInv' /\ StreamsInv'
<1>1. FilesInv' /\ objects' = objects
  BY UnchangedKeeps DEF Rewinddir, fileVars
<1>2. PICK x : x = [path |-> streams[r].path, cursor |-> 0]
  OBVIOUS
<1>3. streams[r] \in [path : RawPaths, cursor : 0 .. FilesMax]
  BY DEF Rewinddir, StreamsInv, StreamsTypeOK, Streams
<1>4. x \in Streams /\ [streams[r] EXCEPT !.cursor = 0] = x
  BY <1>2, <1>3, FilesAssumption DEF Streams
<1>5. ScanOK(x, NewScan)
  BY <1>2, BeginsOK
<1>6. streams' = [streams EXCEPT ![r] = x] /\ scan' = [scan EXCEPT ![r] = NewScan]
  BY <1>4 DEF Rewinddir
<1> QED BY <1>1, <1>4, <1>5, <1>6, BeginsTyped, OneStreamKeeps

LEMMA SeekdirKeeps ==
  ASSUME FilesInv, StreamsInv, NEW r \in Readers, NEW position \in Int, Seekdir(r, position)
  PROVE  FilesInv' /\ StreamsInv'
<1>1. FilesInv' /\ objects' = objects
  BY UnchangedKeeps DEF Seekdir, fileVars
<1>2. CASE UNCHANGED <<streams, scan>>
  BY <1>1, <1>2, AllStreamsKept
<1>3. ASSUME ~(position < 0 \/ position > FilesMax),
             streams' = [streams EXCEPT ![r].cursor = position],
             scan' = [scan EXCEPT ![r] = NoScan]
      PROVE  StreamsInv'
  <2>1. streams[r] \in [path : RawPaths, cursor : 0 .. FilesMax]
    BY DEF Seekdir, StreamsInv, StreamsTypeOK, Streams
  <2>2. PICK x : x = [streams[r] EXCEPT !.cursor = position]
    OBVIOUS
  <2>3. x \in Streams
    BY <1>3, <2>1, <2>2, FilesAssumption DEF Streams
  <2>4. streams' = [streams EXCEPT ![r] = x]
    BY <1>3, <2>2
  <2> QED BY <1>1, <1>3, <2>3, <2>4, BeginsTyped, NoScanOK, OneStreamKeeps
<1> QED BY <1>1, <1>2, <1>3 DEF Seekdir

DirInv == FilesInv /\ StreamsInv

LEMMA DirInitInv == DirInit => DirInv
<1> SUFFICES ASSUME DirInit PROVE DirInv
  OBVIOUS
<1>1. FilesInv
  BY InitInv DEF DirInit
<1>2. StreamsTypeOK
  BY BeginsTyped DEF DirInit, StreamsTypeOK, Streams
<1>3. \A r \in Readers : ScanOK(streams[r], scan[r])
  BY DEF DirInit, ScanOK
<1> QED BY <1>1, <1>2, <1>3 DEF DirInv, StreamsInv

LEMMA DirNextKeeps == DirInv /\ [DirNext]_dirVars => DirInv'
<1> SUFFICES ASSUME FilesInv, StreamsInv, [DirNext]_dirVars
             PROVE  FilesInv' /\ StreamsInv'
  BY DEF DirInv
<1>1. CASE Files
  BY <1>1, CallKeeps, FilesKeepStreams DEF Files
<1>2. ASSUME NEW r \in Readers, NEW position \in -1 .. (FilesMax + 1), Seekdir(r, position)
      PROVE  FilesInv' /\ StreamsInv'
  BY <1>2, SeekdirKeeps, FilesAssumption
<1>3. CASE UNCHANGED dirVars
  <2>1. UNCHANGED fileVars /\ UNCHANGED <<objects, streams, scan>>
    BY <1>3 DEF dirVars, fileVars
  <2> QED BY <2>1, UnchangedKeeps, AllStreamsKept
<1> QED BY <1>1, <1>2, <1>3, ReaddirKeeps, ClosedirKeeps, RewinddirKeeps, OpendirKeeps
        DEF DirNext

-----------------------------------------------------------------------------
LEMMA DirInvExact == DirInv => ScanIsExact
<1> SUFFICES ASSUME DirInv PROVE ScanIsExact
  OBVIOUS
<1> SUFFICES ASSUME NEW r \in Readers, NEW base, base = Normalized(streams[r].path),
                    streams[r] # NoStream, scan[r].calm
             PROVE  /\ \A k \in DOMAIN scan[r].seen :
                         \E i \in Slots : IsChild(base, i) /\ scan[r].seen[k].name = Part(base, i)
                    /\ \A i \in Slots : IsChild(base, i) =>
                         /\ ReturnedTimes(r, Part(base, i)) <= 1
                         /\ scan[r].ended => ReturnedTimes(r, Part(base, i)) = 1
  BY DEF ScanIsExact
<1>1. PICK cursor, seen : cursor = streams[r].cursor /\ seen = scan[r].seen
  OBVIOUS
<1>2. Exact(base, cursor, seen) /\ (scan[r].ended => cursor = FilesMax)
  BY <1>1 DEF DirInv, StreamsInv, ScanOK
<1>3. \A k \in DOMAIN seen : \E i \in Slots : IsChild(base, i) /\ seen[k].name = Part(base, i)
  BY <1>2 DEF Exact, Listed
<1>4. ASSUME NEW i \in Slots, IsChild(base, i)
      PROVE  /\ ReturnedTimes(r, Part(base, i)) <= 1
             /\ scan[r].ended => ReturnedTimes(r, Part(base, i)) = 1
  <2>1. PICK j \in Slots : Listed(base, j) /\ Part(base, j) = Part(base, i)
    BY <1>4, HasListed
  <2>2. CASE j < cursor
    BY <1>1, <1>2, <2>1, <2>2, OnceIsOne DEF Exact
  <2>3. CASE ~(j < cursor)
    <3>1. Never(seen, Part(base, i))
      BY <1>2, <2>1, <2>3, ListedOnce DEF Exact, Never
    <3>2. ~scan[r].ended
      BY <1>2, <2>3, FilesAssumption DEF Slots
    <3> QED BY <1>1, <3>1, <3>2, NeverIsNone
  <2> QED BY <2>2, <2>3
<1> QED BY <1>1, <1>3, <1>4

LEMMA DirInvKept == DirInv => FilesSeenOnce
<1> SUFFICES ASSUME DirInv, NEW r \in Readers, NEW base, base = Normalized(streams[r].path),
                    streams[r] # NoStream, scan[r].ended,
                    NEW i \in scan[r].kept, EntryOf(base, i)
             PROVE  ReturnedTimes(r, Part(base, i)) = 1
  BY DEF FilesSeenOnce, EntryOf
<1>1. PICK cursor, seen : cursor = streams[r].cursor /\ seen = scan[r].seen
  OBVIOUS
<1>2. KeptExact(base, cursor, seen, scan[r].kept) /\ cursor = FilesMax
  BY <1>1 DEF DirInv, StreamsInv, ScanOK
<1>3. i \in Slots
  BY DEF DirInv, StreamsInv, StreamsTypeOK, Scans
<1>4. i < cursor
  BY <1>2, <1>3, FilesAssumption DEF Slots
<1> QED BY <1>1, <1>2, <1>4, OnceIsOne DEF KeptExact

LEMMA DirsInvariant == DirSpec => []DirInv
BY DirInitInv, DirNextKeeps, PTL DEF DirSpec

(* A scan that no change of a name disturbs returns every entry of its     *)
(* directory once, and nothing else: however many slots lie between two    *)
(* files of one subdirectory, and wherever calls that fail come in between *)
(* (cs_gcc_fs_directory_next in runtime/gcc/files.c).                      *)
THEOREM ScansAreExact == DirSpec => []ScanIsExact
BY DirsInvariant, DirInvExact, PTL

(* A file that is there from the start of a scan to its end is returned    *)
(* once, whatever else is opened, created and unlinked in between          *)
(* (readdir in runtime/gcc/directories.c keeps a cursor, not a list).      *)
THEOREM KeptFilesSeenOnce == DirSpec => []FilesSeenOnce
BY DirsInvariant, DirInvKept, PTL
=============================================================================
