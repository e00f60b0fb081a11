--------------------------- MODULE SectionLayout ---------------------------
(***************************************************************************)
(* The data of a copy program (runtime/gcc/copy_link.c, data_directive,    *)
(* layout_data and pack_data).  Directives fill a staging area in the      *)
(* order of the text, switching between sections as they like; fragments   *)
(* remember which run of staged cells belongs where in which section; when *)
(* the text ends every section gets a base, the pointers are resolved and  *)
(* the fragments are moved to their final places.  A pointer takes a cell. *)
(***************************************************************************)
EXTENDS Integers, Sequences, FiniteSets, SequencesExt

CONSTANTS SectionNames,  \* names, and Kind of each: 0 code, 1 data, 2 zeros, 3 dropped
          Kind,
          Labels,
          First,         \* the cell that data starts at
          Capacity,      \* cells for data, half of the memory
          Depth,         \* entries of section_stack
          Counts, Alignments,
          MaxDirectives  \* bound of the model: directives of a text

ASSUME LayoutAssumption ==
  /\ Kind \in [SectionNames -> 0 .. 3]
  /\ {".text", ".bss"} \subseteq SectionNames /\ Kind[".text"] = 0 /\ Kind[".bss"] = 2
  /\ First \in Nat /\ Capacity \in Nat /\ First <= Capacity /\ Depth \in Nat
  /\ Counts \subseteq Nat /\ Alignments \subseteq Nat \ {0}

VARIABLES sections,   \* [name, position, alignment, base], in order of appearance
          active, previous, previousValid,
          stack,
          fragments,  \* [staging, offset, count, section], in order
          cursor,     \* the next cell of the staging area
          area,       \* the cells of the memory, data and stack half
          labels,     \* label -> [section, address] or the undefined Nowhere
          relocations,\* [at, label], in order
          step,         \* "read", "relocate", "pack", "done", "refused"
          content,    \* history: the cells that each section was given
          used        \* how many directives were read

layoutVars == <<sections, active, previous, previousValid, stack, fragments, cursor, area,
                labels, relocations, step, content, used>>

Nowhere == [section |-> 0, address |-> 0]
Pointer(l) == [pointer |-> l]
Cell(v) == [value |-> v]
Zero == Cell(0)

NewSection(n) == [name |-> n, position |-> 0, alignment |-> 1, base |-> 0]

LayoutInit ==
  /\ sections = <<NewSection(".text")>>
  /\ active = 1 /\ previous = 1 /\ previousValid = FALSE
  /\ stack = <<>> /\ fragments = <<>> /\ cursor = First
  /\ area = [a \in 0 .. 2 * Capacity - 1 |-> Zero]
  /\ labels = [l \in Labels |-> Nowhere]
  /\ relocations = <<>> /\ step = "read" /\ used = 0
  /\ content = [n \in SectionNames |-> <<>>]

KindOf(i) == Kind[sections[i].name]
OfData(i) == KindOf(i) \in {1, 2}

Reads == /\ step = "read" /\ used < MaxDirectives
         /\ used' = used + 1
Keep == UNCHANGED <<area, labels, relocations, content>>
KeepPlace == UNCHANGED <<active, previous, previousValid, stack>>

(* A directive that data_directive refuses ends the link.                  *)
Rejects == /\ step' = "refused"
           /\ UNCHANGED <<sections, active, previous, previousValid, stack, fragments,
                          cursor, area, labels, relocations, content>>

-----------------------------------------------------------------------------
(* select_section finds the section or makes it.                           *)
IndexOf(n) ==
  IF \E i \in DOMAIN sections : sections[i].name = n
  THEN CHOOSE i \in DOMAIN sections : sections[i].name = n
  ELSE Len(sections) + 1

WithSection(n) ==
  IF IndexOf(n) > Len(sections) THEN Append(sections, NewSection(n)) ELSE sections

Enters(n) == /\ sections' = WithSection(n)
             /\ previous' = active /\ previousValid' = TRUE
             /\ active' = IndexOf(n)

Section(n) == /\ Reads /\ Enters(n)
              /\ UNCHANGED <<stack, fragments, cursor, step>> /\ Keep

PushSection(n) ==
  /\ Reads
  /\ IF Len(stack) = Depth THEN Rejects
     ELSE /\ Enters(n)
          /\ stack' = Append(stack, active)
          /\ UNCHANGED <<fragments, cursor, step>> /\ Keep

Return(i) == /\ previous' = active /\ previousValid' = TRUE
             /\ active' = i
             /\ UNCHANGED <<sections, fragments, cursor, step>> /\ Keep

PopSection == /\ Reads
              /\ IF stack = <<>> THEN Rejects
                 ELSE Return(Last(stack)) /\ stack' = Front(stack)

Previous == /\ Reads
            /\ IF ~previousValid THEN Rejects
               ELSE Return(previous) /\ UNCHANGED stack

-----------------------------------------------------------------------------
Room(count) == count <= Capacity - cursor

(* data_reserve of section i at an offset: the cells follow the last       *)
(* fragment, or begin a new one.                                           *)
Follows(i, offset) ==
  /\ fragments # <<>>
  /\ Last(fragments).section = i
  /\ Last(fragments).staging + Last(fragments).count = cursor
  /\ Last(fragments).offset + Last(fragments).count = offset

Fragmented(i, offset, count) ==
  IF count = 0 THEN fragments
  ELSE IF Follows(i, offset)
       THEN [fragments EXCEPT ![Len(fragments)].count = @ + count]
       ELSE Append(fragments, [staging |-> cursor, offset |-> offset,
                               count |-> count, section |-> i])

(* The padding of data_align and then the cells, as two calls of           *)
(* data_reserve would leave them.                                          *)
Padding(position, alignment) == (-position) % alignment

Reserved(all, i, alignment, cells) ==
  LET p == all[i].position
      pad == Padding(p, alignment)
      n == pad + Len(cells)
  IN  /\ sections' = [all EXCEPT ![i].position = p + n,
                                 ![i].alignment = IF alignment > @ THEN alignment ELSE @]
      /\ fragments' = Fragmented(i, p, n)
      /\ cursor' = cursor + n
      /\ area' = [a \in DOMAIN area |->
                    IF a \in cursor + pad .. cursor + n - 1
                    THEN cells[a - cursor - pad + 1] ELSE area[a]]
      /\ content' = [content EXCEPT ![all[i].name] =
                       @ \o [k \in 1 .. pad |-> Zero] \o cells]

Zeros(n) == [k \in 1 .. n |-> Zero]

(* What a directive may stage in the active section: a number of its own,  *)
(* zeros, padding, and pointers, which are resolved later.                 *)
Put(alignment, cells) ==
     IF ~OfData(active) \/ ~Room(Padding(sections[active].position, alignment) + Len(cells))
     THEN Rejects
     ELSE /\ Reserved(sections, active, alignment, cells)
          /\ KeepPlace /\ UNCHANGED <<labels, relocations, step>>

Number == /\ Reads
          /\ IF KindOf(active) = 2 THEN Rejects
             ELSE Put(1, <<Cell(used + 1)>>)
Space(n) == Reads /\ Put(1, Zeros(n))
Align(a) == /\ Reads /\ OfData(active)
            /\ IF a > Capacity THEN Rejects ELSE Put(a, <<>>)

Address(l) ==
  /\ Reads
  /\ IF KindOf(active) # 1 \/ ~Room(1) THEN Rejects
     ELSE /\ Reserved(sections, active, 1, <<Pointer(l)>>)
          /\ relocations' = Append(relocations, [at |-> cursor, label |-> l])
          /\ KeepPlace /\ UNCHANGED <<labels, step>>

(* A label of data is the place that its section has come to.              *)
Label(l) ==
  /\ Reads /\ KindOf(active) # 0
  /\ IF labels[l] # Nowhere \/ ~OfData(active) THEN Rejects
     ELSE /\ labels' = [labels EXCEPT ![l] = [section |-> active,
                                              address |-> sections[active].position]]
          /\ KeepPlace
          /\ UNCHANGED <<sections, fragments, cursor, area, relocations, step, content>>

(* .comm: aligned zeros of .bss, which does not become the active section. *)
CommonBlock(l, n, a) ==
  LET all == WithSection(".bss")
      i == IndexOf(".bss")
      p == all[i].position
  IN  /\ Reads
      /\ IF labels[l] # Nowhere \/ a > Capacity \/ ~Room(Padding(p, a) + n) THEN Rejects
         ELSE /\ Reserved(all, i, a, Zeros(n))
              /\ labels' = [labels EXCEPT ![l] = [section |-> i, address |-> p + Padding(p, a)]]
              /\ KeepPlace /\ UNCHANGED <<relocations, step>>

-----------------------------------------------------------------------------
Aligned(c, alignment) == c + Padding(c, alignment)

(* layout_data: the sections of data one after the other.                  *)
Laid(laid, s) ==
  LET base == Aligned(laid.end, s.alignment)
  IN  IF Kind[s.name] \notin {1, 2} THEN [laid EXCEPT !.all = Append(@, s)]
      ELSE [all |-> Append(laid.all, [s EXCEPT !.base = base]), end |-> base + s.position]

LaidOut ==
  LET laid[k \in 0 .. Len(sections)] ==
        IF k = 0 THEN [all |-> <<>>, end |-> First] ELSE Laid(laid[k - 1], sections[k])
  IN  laid[Len(sections)]

Layout ==
  /\ step = "read"
  /\ IF stack # <<>> \/ LaidOut.end > Capacity THEN Rejects
     ELSE /\ sections' = LaidOut.all
          /\ labels' = [l \in Labels |->
                          IF labels[l] = Nowhere THEN Nowhere
                          ELSE [labels[l] EXCEPT !.address =
                                  @ + LaidOut.all[labels[l].section].base]]
          /\ step' = "relocate"
          /\ KeepPlace /\ UNCHANGED <<fragments, cursor, area, relocations, content>>
  /\ UNCHANGED used

(* The pointers are written one after the other, d cells behind their      *)
(* places.                                                                 *)
RelocatedBy(d) ==
  LET written[k \in 0 .. Len(relocations)] ==
        IF k = 0 THEN area
        ELSE [written[k - 1] EXCEPT ![relocations[k].at + d] =
                Cell(labels[relocations[k].label].address)]
  IN  written[Len(relocations)]

RelocatedLate == RelocatedBy(1)  \* mutant: the cell behind is written

Relocated == RelocatedBy(0)

Relocate == /\ step = "relocate"
            /\ IF \E k \in DOMAIN relocations : labels[relocations[k].label] = Nowhere
               THEN Rejects
               ELSE /\ step' = "pack" /\ area' = Relocated
                    /\ UNCHANGED <<sections, active, previous, previousValid, stack,
                                   fragments, cursor, labels, relocations, content>>
            /\ UNCHANGED used

(* pack_data: the other half of the memory holds the result for a while.   *)
Moved(ar, f) ==
  LET to == Capacity + sections[f.section].base + f.offset
  IN  [a \in DOMAIN ar |-> IF a \in to .. to + f.count - 1
                           THEN ar[f.staging + (a - to)] ELSE ar[a]]

Packed ==
  LET moved[k \in 0 .. Len(fragments)] ==
        IF k = 0 THEN [a \in DOMAIN area |-> IF a < Capacity THEN area[a] ELSE Zero]
        ELSE Moved(moved[k - 1], fragments[k])
  IN  moved[Len(fragments)]

Pack == /\ step = "pack" /\ step' = "done"
        /\ area' = [a \in DOMAIN area |->
                      IF a < Capacity THEN Packed[Capacity + a] ELSE Zero]
        /\ UNCHANGED <<sections, active, previous, previousValid, stack, fragments,
                       cursor, labels, relocations, content, used>>

LayoutNext ==
  \/ \E n \in SectionNames : Section(n) \/ PushSection(n)
  \/ PopSection \/ Previous \/ Number
  \/ \E n \in Counts : Space(n)
  \/ \E a \in Alignments : Align(a)
  \/ \E l \in Labels : \/ Address(l) \/ Label(l)
                       \/ \E n \in Counts, a \in Alignments : CommonBlock(l, n, a)
  \/ Layout \/ Relocate \/ Pack

LayoutSpec == LayoutInit /\ [][LayoutNext]_layoutVars

-----------------------------------------------------------------------------
DataSections == {i \in DOMAIN sections : OfData(i)}
Final(c) == IF "pointer" \in DOMAIN c THEN Cell(labels[c.pointer].address) ELSE c

(* In the image every section of data has an aligned place of its own with *)
(* all that the text put into it, in order, pointers resolved; the stack's *)
(* half, borrowed for the move, is left empty.                             *)
DataPlaced ==
  step = "done" =>
    /\ \A i \in DataSections :
         /\ sections[i].base % sections[i].alignment = 0
         /\ sections[i].base >= First
         /\ sections[i].base + sections[i].position <= Capacity
         /\ \A k \in 1 .. sections[i].position :
              area[sections[i].base + k - 1] = Final(content[sections[i].name][k])
    /\ \A i, j \in DataSections :
         i < j => sections[i].base + sections[i].position <= sections[j].base
    /\ \A a \in Capacity .. 2 * Capacity - 1 : area[a] = Zero
=============================================================================
