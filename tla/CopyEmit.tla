------------------------------ MODULE CopyEmit ------------------------------
(***************************************************************************)
(* The emitter of runtime/gcc/copy_emit.c: it fills layers of rows, each   *)
(* as long as the processor, in an image.  At run time one layer at a time *)
(* is copied over the processor at 0, whose last row copies the next one.  *)
(*                                                                         *)
(* A program under construction is a record: the rows of every layer, the  *)
(* positions outside them that hold 1, the layer and the slot where the    *)
(* next row goes, and the end of the last layer.  A call that is refused   *)
(* gives the program back with ok = FALSE.                                 *)
(***************************************************************************)
EXTENDS SpaceBits, SequencesExt, TLC, Functions

CONSTANTS WordBits,   \* the bits of a word, 32 in the code
          CodeBegin, CodeLimit  \* where the layers may lie

SpaceBound == 2 ^ AddressSize  \* space_bits
ImageBits == SpaceSize         \* bytes*8
LastSlot == ProcessorN - 1     \* the row that loads the next layer
FirstSlot == 3                 \* the rows before are the channels' and row 0

Fits(at, width, limit) == at <= limit /\ width <= limit - at

Overlaps(a, an, b, bn) == a < b + bn /\ b < a + an

(* row_valid                                                               *)
RowValid(row) == /\ row.n < 2 ^ NSize
                 /\ Fits(row.dst, row.n, SpaceBound) /\ row.dst < SpaceBound
                 /\ Fits(row.src, row.n, SpaceBound) /\ row.src < SpaceBound

Copy(n, dst, src) == [n |-> n, dst |-> dst, src |-> src]
Jump(target) == Copy(ProcessorBits, 0, target)

EmptyLayer == [i \in Slots |-> NoRow]

(* The conditions of cs_copy_image_init on a layer.                        *)
LayerValid(at) == at % 8 = 0 /\ Fits(at, ProcessorBits, ImageBits)

Refused(p) == [p EXCEPT !.ok = FALSE]

(* cs_copy_program_init                                                    *)
Program ==
  [rows |-> CodeBegin :> EmptyLayer, bits |-> {},
   layer |-> CodeBegin, slot |-> FirstSlot, end |-> CodeBegin + ProcessorBits,
   ok |-> /\ CodeBegin >= ProcessorBits /\ CodeLimit <= ImageBits
          /\ Fits(CodeBegin, ProcessorBits, CodeLimit)
          /\ ProcessorBits < 2 ^ NSize /\ LayerValid(CodeBegin)]

(* cs_copy_constant *)
Constant(p, at, width, value) ==
  IF p.ok /\ width > 0 /\ Fits(at, width, ImageBits)
  THEN [p EXCEPT !.bits = WithField(@, at, width, value)] ELSE Refused(p)

(* cs_copy_row, in a layer of the program *)
SetRow(p, layer, slot, row) ==
  IF p.ok /\ RowValid(row) THEN [p EXCEPT !.rows[layer][slot] = row] ELSE Refused(p)

(* cs_copy_program_next: a new layer, which the current one loads.         *)
NextLayer(p) ==
  IF /\ p.ok /\ Fits(p.end, ProcessorBits, CodeLimit)
     /\ RowValid(Jump(p.end)) /\ LayerValid(p.end)
  THEN [p EXCEPT !.rows = (p.end :> EmptyLayer) @@
                            [@ EXCEPT ![p.layer][LastSlot] = Jump(p.end)],
                 !.layer = p.end, !.slot = FirstSlot, !.end = @ + ProcessorBits]
  ELSE Refused(p)

(* room: count rows that must be in one layer.                             *)
Room(p, count) == IF p.slot <= LastSlot - count THEN p ELSE NextLayer(p)

(* cs_copy_emit; the last slot is kept for the jump.                       *)
EmitHere(p, row) ==
  IF p.ok /\ p.slot < LastSlot /\ RowValid(row)
  THEN [p EXCEPT !.rows[p.layer][p.slot] = row, !.slot = @ + 1] ELSE Refused(p)

(* Rows one after the other, with cs_copy_emit.                            *)
EmitRows(p, rows) ==
  IF p.ok /\ p.slot + Len(rows) <= LastSlot /\ \A k \in DOMAIN rows : RowValid(rows[k])
  THEN [p EXCEPT !.rows[p.layer] = [i \in Slots |->
                   IF i - p.slot + 1 \in DOMAIN rows THEN rows[i - p.slot + 1] ELSE @[i]],
                 !.slot = @ + Len(rows)]
  ELSE Refused(p)

(* cs_copy_program_emit *)
Emit(p, row) == IF p.ok /\ RowValid(row) THEN EmitHere(Room(p, 1), row) ELSE Refused(p)

EmitAll(p, rows) == FoldLeft(Emit, p, rows)

(* cs_copy_program_patch_jump *)
PatchJump(p, layer, target) ==
  IF p.ok /\ {layer, target} \subseteq DOMAIN p.rows
  THEN SetRow(p, layer, LastSlot, Jump(target)) ELSE Refused(p)
-----------------------------------------------------------------------------
(* Templates run in the copy of the layer at 0: the source of the row that *)
(* will be in a slot.                                                      *)
SourceField(slot) == SrcAt(slot)
DestinationField(slot) == DstAt(slot)

Truth(op) == CASE op = "and" -> 8 [] op = "or" -> 14 [] op = "xor" -> 6

(* The eight entries of the adder's or the subtracter's table: the bit of  *)
(* the result, and above it the carry or the borrow.                       *)
Entry(op, a, b, c) ==
  IF op = "add" THEN a + b + c ELSE ((a - b - c) % 2) + (IF a < b + c THEN 2 ELSE 0)

TableValue(op) ==
  LET entries == [i \in 0 .. 7 |->
        Entry(op, i % 2, (i \div 2) % 2, i \div 4) * 4 ^ i]
  IN  FoldFunctionOnSet(LAMBDA x, y : x + y, 0, entries, 0 .. 7)

(* Operands are apart: scratch bits from everything, and the destination   *)
(* from a word it is not.                                                  *)
Apart(ranges, words, destination) ==
  /\ \A i, j \in DOMAIN ranges :
       i < j /\ (i \notin words \/ j \notin words) =>
         ~Overlaps(ranges[i][1], ranges[i][2], ranges[j][1], ranges[j][2])
  /\ \A i \in words : ranges[i][1] # destination =>
       ~Overlaps(destination, WordBits, ranges[i][1], WordBits)

OutsideCode(p, ranges) ==
  \A i \in DOMAIN ranges :
    /\ Fits(ranges[i][1], ranges[i][2], SpaceBound)
    /\ ~Overlaps(ranges[i][1], ranges[i][2], p.layer, ProcessorBits)
    /\ ~Overlaps(ranges[i][1], ranges[i][2], 0, ProcessorBits)
    /\ ~Overlaps(ranges[i][1], ranges[i][2], CodeBegin, CodeLimit - CodeBegin)

(* add_valid, with the program's check against the layers' range.          *)
ArithmeticValid(p, dst, left, right, table, temporary, carry) ==
  LET ranges == << <<dst, WordBits>>, <<left, WordBits>>, <<right, WordBits>>,
                   <<table, 16>>, <<temporary, 2>>, <<carry, 1>> >>
  IN  /\ AddressSize >= 5 /\ table % 16 = 0
      /\ OutsideCode(p, ranges) /\ Apart(ranges, 1 .. 3, dst)
      /\ Fits(table, 16, ImageBits) /\ Fits(carry, 1, ImageBits)

ArithmeticRows == 1 + 6 * WordBits

(* The rows of arithmetic32 from slot on: carry is reset, and for each bit *)
(* three copies address the row that reads the table.                      *)
ArithmeticCode(slot, dst, left, right, table, temporary, carry) ==
  [k \in 1 .. ArithmeticRows |->
     LET bit == (k - 2) \div 6
         field == SourceField(slot + 1 + 6 * bit + 3)
     IN  CASE k = 1 -> Copy(1, carry, table)
           [] k > 1 /\ (k - 2) % 6 = 0 -> Copy(1, field + 1, left + bit)
           [] k > 1 /\ (k - 2) % 6 = 1 -> Copy(1, field + 2, right + bit)
           [] k > 1 /\ (k - 2) % 6 = 2 -> Copy(1, field + 3, carry)
           [] k > 1 /\ (k - 2) % 6 = 3 -> Copy(2, temporary, table)
           [] k > 1 /\ (k - 2) % 6 = 4 -> Copy(1, dst + bit, temporary)
           [] OTHER -> Copy(1, carry, temporary + 1)]

(* Mutant: the slot is read before room is made.                           *)
ArithmeticStale(p, op, dst, left, right, table, temporary, carry) ==
  IF p.ok /\ ArithmeticValid(p, dst, left, right, table, temporary, carry)
  THEN LET filled == Constant(Constant(Room(p, ArithmeticRows), table, 16, TableValue(op)),
                              carry, 1, 0)
       IN  EmitRows(filled,
                    ArithmeticCode(p.slot, dst, left, right, table, temporary, carry))
  ELSE Refused(p)

(* program_arithmetic32: cs_copy_program_add32 and cs_copy_program_sub32.  *)
Arithmetic(p, op, dst, left, right, table, temporary, carry) ==
  IF p.ok /\ ArithmeticValid(p, dst, left, right, table, temporary, carry)
  THEN LET q == Room(p, ArithmeticRows)
           filled == Constant(Constant(q, table, 16, TableValue(op)), carry, 1, 0)
       IN  EmitRows(filled,
                    ArithmeticCode(q.slot, dst, left, right, table, temporary, carry))
  ELSE Refused(p)

(* bits_valid, with the program's check against the layers' range.         *)
BitsValid(p, dst, left, right, table) ==
  LET ranges == << <<dst, WordBits>>, <<left, WordBits>>, <<right, WordBits>>, <<table, 4>> >>
  IN  /\ table % 4 = 0 /\ Fits(table, 4, ImageBits)
      /\ OutsideCode(p, ranges) /\ Apart(ranges, 1 .. 3, dst)

(* The rows of cs_copy_bits32 from slot on.                                *)
BitsCode(slot, dst, left, right, table) ==
  [k \in 1 .. 3 * WordBits |->
     LET bit == (k - 1) \div 3
         field == SourceField(slot + 3 * bit + 2)
     IN  CASE (k - 1) % 3 = 0 -> Copy(1, field, left + bit)
           [] (k - 1) % 3 = 1 -> Copy(1, field + 1, right + bit)
           [] OTHER -> Copy(1, dst + bit, table)]

(* cs_copy_program_bits32 *)
Bits(p, op, dst, left, right, table) ==
  IF p.ok /\ BitsValid(p, dst, left, right, table)
  THEN LET q == Room(p, 3 * WordBits)
       IN  EmitRows(Constant(q, table, 4, Truth(op)),
                    BitsCode(q.slot, dst, left, right, table))
  ELSE Refused(p)

(* cs_copy_program_finish: the last layer loads an empty one, and row 255  *)
(* of the processor at 0 the first layer of the program.                   *)
FinishValid(p, zero) ==
  /\ p.ok /\ LayerValid(zero)
  /\ ~Overlaps(zero, ProcessorBits, 0, ProcessorBits)
  /\ ~Overlaps(zero, ProcessorBits, CodeBegin, CodeLimit - CodeBegin)
  /\ p.bits \cap (zero .. (zero + ProcessorBits - 1)) = {}

Finished(p, zero) ==
  IF FinishValid(p, zero)
  THEN LET q == SetRow(p, p.layer, LastSlot, Jump(zero))
       IN  [q EXCEPT !.rows =
                 (0 :> [EmptyLayer EXCEPT ![LastSlot] = Jump(CodeBegin)]) @@ @]
  ELSE Refused(p)
-----------------------------------------------------------------------------
(* The image: the bits of the rows and of the constants (field).           *)
RowBits(layer, slot, row) ==
  WithField(WithField(WithField({}, layer + NAt(slot), NSize, row.n),
                      layer + DstAt(slot), AddressSize, row.dst),
            layer + SrcAt(slot), AddressSize, row.src)

Image(p) ==
  p.bits \cup UNION {RowBits(l, i, p.rows[l][i]) : l \in DOMAIN p.rows, i \in Slots}

-----------------------------------------------------------------------------
(***************************************************************************)
(* Programs made with the calls of copy_emit.h, put into the space and run *)
(* on the machine of space.c: every tick carries out the rows of the layer *)
(* at 0 in their order, and its last row loads the next layer.             *)
(***************************************************************************)
CONSTANTS Words,                    \* the addresses of the words
          Ops, Operands,            \* what is called, on <<destination, left, right>>
          OpTables,                 \* the table the caller has reserved for each
          Temporary, Carry,
          Zeros,                    \* layers offered to end the program
          Inputs,                   \* words given to a run
          MaxCalls                  \* bound: calls that build the program

VARIABLES program, calls,
          space,                    \* the space of the machine, when it runs
          started, current,         \* which layer has been copied to 0
          blocks, follows           \* what the caller has asked for, layer by layer

copyVars == <<program, calls, space, started, current, blocks, follows>>

ProgramInit == /\ program = Program /\ program.ok
               /\ calls = 0 /\ space = {} /\ started = FALSE /\ current = 0
               /\ blocks = <<>> /\ follows = <<>>

(* The caller goes on with its program.                                    *)
Building == ~started /\ 0 \notin DOMAIN program.rows /\ calls < MaxCalls

(* The call's result, and in which layer its rows went.                    *)
Built(q, ops) ==
  /\ calls' = calls + 1
  /\ IF q.ok
     THEN /\ program' = q
          /\ blocks' = [l \in DOMAIN q.rows |->
                          (IF l \in DOMAIN blocks THEN blocks[l] ELSE <<>>)
                          \o (IF l = q.layer THEN ops ELSE <<>>)]
          /\ follows' = IF q.layer = program.layer THEN follows
                        ELSE [l \in DOMAIN follows \cup {program.layer} |->
                                IF l = program.layer THEN q.layer ELSE follows[l]]
     ELSE UNCHANGED <<program, blocks, follows>>
  /\ UNCHANGED <<space, started, current>>

Called(op, dst, left, right) ==
  CASE op \in {"add", "sub"} ->
         Arithmetic(program, op, dst, left, right, OpTables[op], Temporary, Carry)
    [] op \in {"and", "or", "xor"} -> Bits(program, op, dst, left, right, OpTables[op])
    [] op = "mov" -> Emit(program, Copy(WordBits, dst, left))

Operate ==
  /\ Building
  /\ \E op \in Ops, o \in Operands :
       /\ op = "mov" => o[1] \in Words
       /\ \E q \in {Called(op, o[1], o[2], o[3])} :
            Built(q, <<[op |-> op, dst |-> o[1], left |-> o[2], right |-> o[3]]>>)

(* The caller begins a layer, as at a label.                               *)
BeginLayer == Building /\ \E q \in {NextLayer(program)} : Built(q, <<>>)

(* A jump of a layer that has been left is set.                            *)
Patch ==
  /\ Building
  /\ calls' = calls + 1
  /\ \E from, to \in DOMAIN program.rows :
       /\ from # program.layer
       /\ program' = PatchJump(program, from, to)
       /\ follows' = [follows EXCEPT ![from] = to]
  /\ UNCHANGED <<space, started, current, blocks>>

Finish ==
  /\ ~started /\ 0 \notin DOMAIN program.rows
  /\ \E zero \in Zeros :
       LET q == Finished(program, zero)
       IN  /\ q.ok
           /\ program' = q
           /\ blocks' = [l \in DOMAIN q.rows |->
                           IF l \in DOMAIN blocks THEN blocks[l] ELSE <<>>]
           /\ follows' = [l \in DOMAIN q.rows |-> IF l = 0 THEN CodeBegin
                            ELSE IF l = program.layer THEN zero ELSE follows[l]]
  /\ UNCHANGED <<calls, space, started, current>>

(* The image is loaded, with values in the words.                          *)
Load ==
  /\ ~started /\ 0 \in DOMAIN program.rows
  /\ started' = TRUE
  /\ \E m \in Inputs :
       space' = Image(program) \cup
                UNION {WithField({}, w, WordBits, m[w]) : w \in Words}
  /\ UNCHANGED <<program, calls, current, blocks, follows>>

(* space_step: every row as the space holds it when its turn comes, here   *)
(* quarter by quarter.                                                     *)
CarryRow(S, i) ==
  IF Argument(S, NAt(i), NSize) = 0 THEN S ELSE Copied(S, Decoded(S, i))

Quarter(S, q) ==
  LET first == (q * ProcessorN) \div 4
      last == ((q + 1) * ProcessorN) \div 4 - 1
  IN  FoldLeft(CarryRow, S, [k \in 1 .. (last - first + 1) |-> first + k - 1])

Idle == \A i \in Slots : Argument(space, NAt(i), NSize) = 0

RunLayer ==
  /\ started /\ ~Idle
  /\ current' = Decoded(space, LastSlot).src
  /\ \E one \in {Quarter(space, 0)} : \E two \in {Quarter(one, 1)} :
     \E three \in {Quarter(two, 2)} : space' = Quarter(three, 3)
  /\ UNCHANGED <<program, calls, started, blocks, follows>>

ProgramNext == Operate \/ BeginLayer \/ Patch \/ Finish \/ Load \/ RunLayer
ProgramSpec == ProgramInit /\ [][ProgramNext]_copyVars
-----------------------------------------------------------------------------
(* The words of the space.                                                 *)
Memory == [w \in Words |-> Argument(space, w, WordBits)]

Promise == INSTANCE LayerMachine
             WITH WordSize <- 2 ^ WordBits, Boot <- 0, running <- started,
                  at <- current, memory <- Memory

(* A program does what was asked for: run on the machine, row by row, with *)
(* rows that rewrite the sources of later rows, every layer does its       *)
(* operations on the words as one step, in the order of the calls, and the *)
(* next layer is the one that was asked for last.                          *)
Implements == Promise!Spec
=============================================================================
