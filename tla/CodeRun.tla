------------------------------- MODULE CodeRun -------------------------------
(***************************************************************************)
(* The code runtime/gcc/copy_link.c generates for the instructions of the  *)
(* copy target, and its runs.  An instruction is a sequence of steps, each *)
(* of which Do turns into rows and layers with the emitter's calls.  The   *)
(* addresses are the code's; a word has WordBits bits and a byte a quarter *)
(* of them.                                                                *)
(***************************************************************************)
EXTENDS CopyEmit

CONSTANTS ByteShift,    \* log2 of the bits of a byte, 3 in the code
          MemoryBytes,  \* the size of data and stack
          DataBegin,    \* where they lie in the space
          JumpCapacity  \* CS_COPY_JUMP_CAPACITY

REG_BASE == 32768
CONSTANT_BASE == 24576
ADD_TABLE == 33792
SUB_TABLE == 33808
AND_TABLE == 33824
OR_TABLE == 33828
XOR_TABLE == 33832
TEMPORARY == 33840
CARRY == 33842
SHIFT_WORD == 33856
SHIFT_COUNT == 33888
SHIFT_PAIR == 33894
SHIFT_ZERO == 33896
CMP_EQ == 33900
CMP_LTU == 33901
CMP_LTS == 33902
CMP_LEU == 33903
CMP_LES == 33904
CMP_SIGN == 33905
EQ_TABLE == 33920
LT_TABLE == 33928
BRANCH_TABLE == 60032
MUL_LEFT == 34240
MUL_RIGHT == 34272
MUL_ACC == 34304
MUL_ADDEND == 34336
MUL_MARKER == 34368
MUL_STOP == 34400
DIV_NUM == 34528
DIV_DEN == 34560
DIV_REM == 34592
DIV_QUO == 34624
DIV_MARK == 34656
DIV_OVERFLOW == 34688
DIV_STOP == 34689
DIV_FLAGS == 34690
DIV_REDUCE == 34695
DIV_NUM_SIGN == 34696
DIV_DEN_SIGN == 34697
DIV_SIGN == 34698
MEM_ADDRESS == 34720
MEM_FLAGS == 34752
MEM_VALID == 34757
MEM_BIT_ADDRESS == 34784
STACK_VALUE == 34816

Top == WordBits - 1
WordLimit == 2 ^ WordBits
ConstantAt(value) == CONSTANT_BASE + 32 * value
-----------------------------------------------------------------------------
(* Labels: of the code around, and in the n-th instruction.                *)
Fault == <<0, "fault">>
Taken == <<0, "taken">>
End == <<0, "end">>

(* The steps: a row; a lookup in a truth table; a sum or a difference; a   *)
(* constant of the pool; a constant of the image; a new layer, also under  *)
(* a label; a jump; a jump taken when a flag is set, or is not; a row the  *)
(* word at from gives the source, or the destination, of.                  *)
Put(n, dst, src) == [do |-> "row", row |-> Copy(n, dst, src)]
Move(dst, src) == Put(WordBits, dst, src)
Look(dst, table, inputs) ==
  [do |-> "look", dst |-> dst, table |-> table, inputs |-> inputs]
Sum(op, dst, left, right) ==
  [do |-> "sum", op |-> op, dst |-> dst, left |-> left, right |-> right]
Logic(op, dst, left, right) ==
  [do |-> "logic", op |-> op, dst |-> dst, left |-> left, right |-> right]
Pool(value) == [do |-> "pool", value |-> value]
Set(at, width, value) == [do |-> "set", at |-> at, width |-> width, value |-> value]
Layer(label) == [do |-> "layer", label |-> label]
Go(label) == [do |-> "go", label |-> label]
If(label, flag, inverted) ==
  [do |-> "if", label |-> label, flag |-> flag, inverted |-> inverted]
Pointed(row, store) == [do |-> "pointed", row |-> row, store |-> store]

Code == [p |-> Program, labels |-> <<>>, jumps |-> <<>>]

In(c, p) == [c EXCEPT !.p = p]

(* lookup: the rows that address a row and that row are in one layer.      *)
LookUp(p, step) ==
  LET k == Len(step.inputs)
      q == Room(p, k + 1)
      field == SourceField(q.slot + k)
  IN  EmitAll(q, [i \in 1 .. k |-> Copy(1, field + i - 1, step.inputs[i])]
                 \o <<Copy(1, step.dst, step.table)>>)

(* jump: the layer left is patched when all labels are known.              *)
Leave(c, jump) ==
  [c EXCEPT !.p = IF Len(c.jumps) < JumpCapacity THEN NextLayer(c.p) ELSE Refused(c.p),
            !.jumps = Append(@, jump)]

(* conditional_jump: the flag selects one of two layers' addresses, which  *)
(* becomes the source of the last row.                                     *)
Branch(c, step) ==
  LET p == Room(c.p, 2)
      table == BRANCH_TABLE + 64 * Len(c.jumps)
      q == EmitAll(p, <<Copy(1, SourceField(p.slot + 1) + 5, step.flag),
                        Copy(AddressSize, SourceField(LastSlot), table)>>)
  IN  Leave(In(c, q), [layer |-> q.layer, label |-> step.label, table |-> table,
                       inverted |-> step.inverted, fallthrough |-> q.end])

(* The end of memory_access.                                               *)
Point(p, step) ==
  LET q == Room(p, 2)
      field == IF step.store THEN DestinationField(q.slot + 1) ELSE SourceField(q.slot + 1)
  IN  EmitAll(q, <<Copy(AddressSize, field, MEM_BIT_ADDRESS), step.row>>)

(* A stage of shift32: a bit of the count selects one of a pair.           *)
Select(p, step) ==
  LET q == Room(p, 4)
  IN  EmitAll(q, <<Copy(1, SHIFT_PAIR, step.bits[1]), Copy(1, SHIFT_PAIR + 1, step.bits[2]),
                   Copy(1, SourceField(q.slot + 3), step.count),
                   Copy(1, step.dst, SHIFT_PAIR)>>)

Labelled(c, label) == [c EXCEPT !.labels = (label :> c.p.layer) @@ @]

Do(c, s) ==
  CASE s.do = "row"   -> In(c, Emit(c.p, s.row))
    [] s.do = "look"  -> In(c, LookUp(c.p, s))
    [] s.do = "sum"   ->
         In(c, Arithmetic(c.p, s.op, s.dst, s.left, s.right,
                          IF s.op = "add" THEN ADD_TABLE ELSE SUB_TABLE, TEMPORARY, CARRY))
    [] s.do = "logic" ->
         In(c, Bits(c.p, s.op, s.dst, s.left, s.right,
                    CASE s.op = "and" -> AND_TABLE [] s.op = "or" -> OR_TABLE
                      [] s.op = "xor" -> XOR_TABLE))
    [] s.do = "pool"  -> In(c, Constant(c.p, ConstantAt(s.value), WordBits, s.value))
    [] s.do = "set"   -> In(c, Constant(c.p, s.at, s.width, s.value))
    [] s.do = "layer" -> Labelled(In(c, NextLayer(c.p)), s.label)
    [] s.do = "go"    -> Leave(c, [layer |-> c.p.layer, label |-> s.label, table |-> 0])
    [] s.do = "if"    -> Branch(c, s)
    [] s.do = "pair"  -> In(c, Select(c.p, s))
    [] s.do = "pointed" -> In(c, Point(c.p, s))

(* The jumps, once every label has its address (the end of link_image).    *)
Resolve(c, j) ==
  LET target == c.labels[j.label]
      first == IF j.inverted THEN target ELSE j.fallthrough
      second == IF j.inverted THEN j.fallthrough ELSE target
  IN  IF j.table = 0 THEN In(c, PatchJump(c.p, j.layer, target))
      ELSE In(c, Constant(Constant(c.p, j.table, AddressSize, first),
                          j.table + 32, AddressSize, second))

(* What link_image puts into the image first.                              *)
Tables ==
  <<Set(EQ_TABLE, 8, 144), Set(LT_TABLE, 8, 212), Set(XOR_TABLE, 4, 6),
    Set(AND_TABLE, 4, 8), Set(OR_TABLE, 4, 14)>>
-----------------------------------------------------------------------------
ForBits(f(_)) == FlattenSeq([i \in 1 .. WordBits |-> f(i - 1)])

(* compare32 *)
Compare(left, right) ==
  <<Put(1, CMP_EQ, EQ_TABLE + 7), Put(1, CMP_LTU, EQ_TABLE)>>
  \o ForBits(LAMBDA b :
       <<Look(CMP_LTU, LT_TABLE, <<left + b, right + b, CMP_LTU>>),
         Look(CMP_EQ, EQ_TABLE, <<left + b, right + b, CMP_EQ>>)>>)
  \o <<Look(CMP_SIGN, XOR_TABLE, <<left + Top, right + Top>>),
       Look(CMP_LTS, XOR_TABLE, <<CMP_SIGN, CMP_LTU>>),
       Look(CMP_LEU, OR_TABLE, <<CMP_LTU, CMP_EQ>>),
       Look(CMP_LES, OR_TABLE, <<CMP_LTS, CMP_EQ>>)>>

(* Mutant: the lowest bit is replaced before the word has moved.           *)
DoubledLate(word, lowest) == <<Put(1, word, lowest), Put(Top, word + 1, word)>>

(* A word moved up or down by one bit, within its layer's rows.            *)
Doubled(word, lowest) == <<Put(Top, word + 1, word), Put(1, word, lowest)>>
Halved(word, highest) == <<Put(Top, word, word + 1), Put(1, word + Top, highest)>>

(* multiply32 *)
Multiply(n, dst, src) ==
  <<Pool(0), Pool(1), Move(MUL_LEFT, dst), Move(MUL_RIGHT, src),
    Move(MUL_ACC, ConstantAt(0)), Move(MUL_MARKER, ConstantAt(1)), Layer(<<n, "loop">>)>>
  \o ForBits(LAMBDA b : <<Look(MUL_ADDEND + b, AND_TABLE, <<MUL_LEFT + b, MUL_RIGHT>>)>>)
  \o <<Sum("add", MUL_ACC, MUL_ACC, MUL_ADDEND), Put(1, MUL_STOP, MUL_MARKER + Top)>>
  \o Doubled(MUL_LEFT, ConstantAt(0)) \o Halved(MUL_RIGHT, ConstantAt(0))
  \o Doubled(MUL_MARKER, ConstantAt(0))
  \o <<If(<<n, "loop">>, MUL_STOP, TRUE), Move(dst, MUL_ACC)>>

(* absolute32 *)
Absolute(label, value, sign) ==
  <<If(label, sign, TRUE), Sum("sub", value, ConstantAt(0), value), Layer(label)>>

(* The remainder, one bit longer than a word, is not below the divisor.    *)
Reduce == <<Look(DIV_REDUCE, XOR_TABLE, <<CMP_LTU, ConstantAt(1)>>),
            Look(DIV_REDUCE, OR_TABLE, <<DIV_REDUCE, DIV_OVERFLOW>>)>>

(* Mutant: a quotient by zero takes the sign of its operands.              *)
ResultSignAlways(remainder) ==
  IF remainder THEN <<Put(1, DIV_SIGN, DIV_NUM_SIGN)>>
  ELSE <<Look(DIV_SIGN, XOR_TABLE, <<DIV_NUM_SIGN, DIV_DEN_SIGN>>)>>

(* The sign of the result; a quotient by zero keeps all its ones.          *)
ResultSign(remainder) ==
  IF remainder THEN <<Put(1, DIV_SIGN, DIV_NUM_SIGN)>>
  ELSE <<Look(DIV_SIGN, XOR_TABLE, <<DIV_NUM_SIGN, DIV_DEN_SIGN>>)>>
       \o Compare(DIV_DEN, ConstantAt(0))
       \o <<Look(DIV_DEN_SIGN, XOR_TABLE, <<CMP_EQ, ConstantAt(1)>>),
            Look(DIV_SIGN, AND_TABLE, <<DIV_SIGN, DIV_DEN_SIGN>>)>>

(* divide32 *)
Divide(n, dst, src, signed, remainder) ==
  LET result == IF remainder THEN DIV_REM ELSE DIV_QUO
  IN  <<Pool(0), Pool(1), Put(5, DIV_FLAGS, CMP_EQ), Move(DIV_NUM, dst), Move(DIV_DEN, src),
        Put(1, DIV_NUM_SIGN, DIV_NUM + Top), Put(1, DIV_DEN_SIGN, DIV_DEN + Top)>>
      \o (IF signed THEN Absolute(<<n, "num">>, DIV_NUM, DIV_NUM_SIGN)
                         \o Absolute(<<n, "den">>, DIV_DEN, DIV_DEN_SIGN) ELSE <<>>)
      \o <<Move(DIV_REM, ConstantAt(0)), Move(DIV_QUO, ConstantAt(0)),
           Move(DIV_MARK, ConstantAt(1)), Layer(<<n, "loop">>),
           Put(1, DIV_OVERFLOW, DIV_REM + Top)>>
      \o Doubled(DIV_REM, DIV_NUM + Top) \o Doubled(DIV_NUM, ConstantAt(0))
      \o Doubled(DIV_QUO, ConstantAt(0))
      \o Compare(DIV_REM, DIV_DEN) \o Reduce
      \o <<If(<<n, "skip">>, DIV_REDUCE, TRUE), Sum("sub", DIV_REM, DIV_REM, DIV_DEN),
           Put(1, DIV_QUO, ConstantAt(1)), Layer(<<n, "skip">>),
           Put(1, DIV_STOP, DIV_MARK + Top)>>
      \o Doubled(DIV_MARK, ConstantAt(0)) \o <<If(<<n, "loop">>, DIV_STOP, TRUE)>>
      \o (IF signed THEN ResultSign(remainder) \o Absolute(<<n, "sign">>, result, DIV_SIGN)
                    ELSE <<>>)
      \o <<Move(dst, result), Put(5, CMP_EQ, DIV_FLAGS)>>

(* shift32: a stage for every bit of the count, which selects between each *)
(* bit and the one 2^stage away.                                           *)
Selected(right, arithmetic, bit, step) ==
  IF right THEN IF bit + step < WordBits THEN SHIFT_WORD + bit + step
                ELSE IF arithmetic THEN SHIFT_WORD + Top ELSE SHIFT_ZERO
  ELSE IF bit >= step THEN SHIFT_WORD + bit - step ELSE SHIFT_ZERO

CountBits == CHOOSE k \in 0 .. WordBits : 2 ^ k = WordBits

Shift(right, arithmetic, dst, count) ==
  <<Put(CountBits, SHIFT_COUNT, count)>>
  \o FlattenSeq([s \in 1 .. CountBits |->
       <<Move(SHIFT_WORD, dst)>>
       \o ForBits(LAMBDA b :
            <<[do |-> "pair", dst |-> dst + b, count |-> SHIFT_COUNT + s - 1,
               bits |-> <<SHIFT_WORD + b, Selected(right, arithmetic, b, 2 ^ (s - 1))>>]>>)])

AddressBits == CHOOSE k \in 0 .. 30 : 2 ^ k = MemoryBytes

(* memory_access: an address past the end goes to the fault's layer.       *)
Access(store, width, value, base, offset) ==
  LET limit == MemoryBytes - width \div 2 ^ ByteShift
      row == IF store THEN Copy(width, DataBegin, value) ELSE Copy(width, value, DataBegin)
  IN  <<Move(MEM_ADDRESS, base)>>
      \o (IF offset = 0 THEN <<>>
          ELSE <<Pool(offset), Sum("add", MEM_ADDRESS, MEM_ADDRESS, ConstantAt(offset))>>)
      \o <<Pool(limit), Put(5, MEM_FLAGS, CMP_EQ)>>
      \o Compare(MEM_ADDRESS, ConstantAt(limit))
      \o <<Put(1, MEM_VALID, CMP_LEU), Put(5, CMP_EQ, MEM_FLAGS),
           If(Fault, MEM_VALID, TRUE), Set(MEM_BIT_ADDRESS, AddressSize, DataBegin),
           Put(AddressBits, MEM_BIT_ADDRESS + ByteShift, MEM_ADDRESS)>>
      \o (IF store \/ width = WordBits THEN <<>>
          ELSE <<Pool(0), Put(WordBits - width, value + width, ConstantAt(0))>>)
      \o <<Pointed(row, store)>>

(* stack *)
WordBytes == WordBits \div 2 ^ ByteShift

Push(pointer, value) ==
  <<Pool(WordBytes), Move(STACK_VALUE, value),
    Sum("sub", pointer, pointer, ConstantAt(WordBytes))>>
  \o Access(TRUE, WordBits, STACK_VALUE, pointer, 0)

Pop(pointer, value) ==
  <<Pool(WordBytes)>> \o Access(FALSE, WordBits, STACK_VALUE, pointer, 0)
  \o <<Sum("add", pointer, pointer, ConstantAt(WordBytes)), Move(value, STACK_VALUE)>>

(* zex and sex *)
Extend(signed, width, dst, src) ==
  <<Put(width, dst, src)>>
  \o (IF signed THEN [b \in 1 .. (WordBits - width) |->
                        Put(1, dst + width + b - 1, dst + width - 1)]
      ELSE <<Pool(0), Put(WordBits - width, dst + width, ConstantAt(0))>>)

Part(size) == CASE size = "b" -> WordBits \div 4 [] size = "s" -> WordBits \div 2
                [] size = "l" -> WordBits

(* branch: the flag of each condition, and whether it is inverted.         *)
Condition(name) ==
  CASE name = "eq"  -> <<CMP_EQ, FALSE>>  [] name = "ne"  -> <<CMP_EQ, TRUE>>
    [] name = "lt"  -> <<CMP_LTS, FALSE>> [] name = "ge"  -> <<CMP_LTS, TRUE>>
    [] name = "le"  -> <<CMP_LES, FALSE>> [] name = "gt"  -> <<CMP_LES, TRUE>>
    [] name = "ltu" -> <<CMP_LTU, FALSE>> [] name = "geu" -> <<CMP_LTU, TRUE>>
    [] name = "leu" -> <<CMP_LEU, FALSE>> [] name = "gtu" -> <<CMP_LEU, TRUE>>

(* instruction, and branch; a is the first register, b the second.         *)
Instruction(n, i, a, b) ==
  CASE i[1] = "mov" -> <<Move(a, b)>>
    [] i[1] = "inc" -> <<Pool(i[2]), Sum("add", a, a, ConstantAt(i[2]))>>
    [] i[1] = "dec" -> <<Pool(i[2]), Sum("sub", a, a, ConstantAt(i[2]))>>
    [] i[1] \in {"add", "sub"} -> <<Sum(i[1], a, a, b)>>
    [] i[1] \in {"and", "or", "xor"} -> <<Logic(i[1], a, a, b)>>
    [] i[1] = "neg" -> <<Pool(0), Sum("sub", a, ConstantAt(0), b)>>
    [] i[1] = "not" -> <<Pool(WordLimit - 1), Logic("xor", a, b, ConstantAt(WordLimit - 1))>>
    [] i[1] = "zex" -> Extend(FALSE, Part(i[2]), a, b)
    [] i[1] = "sex" -> Extend(TRUE, Part(i[2]), a, b)
    [] i[1] = "cmp" -> Compare(a, b)
    [] i[1] = "mul" -> Multiply(n, a, b)
    [] i[1] \in {"udiv", "umod"} -> Divide(n, a, b, FALSE, i[1] = "umod")
    [] i[1] \in {"div", "mod"} -> Divide(n, a, b, TRUE, i[1] = "mod")
    [] i[1] = "ashl" -> Shift(FALSE, FALSE, a, b)
    [] i[1] = "lshr" -> Shift(TRUE, FALSE, a, b)
    [] i[1] = "ashr" -> Shift(TRUE, TRUE, a, b)
    [] i[1] = "ld" -> Access(FALSE, Part(i[2]), a, b, i[3])
    [] i[1] = "st" -> Access(TRUE, Part(i[2]), b, a, i[3])
    [] i[1] = "push" -> Push(a, b)
    [] i[1] = "pop" -> Pop(a, b)
    [] i[1] = "branch" -> LET c == Condition(i[2]) IN <<If(i[3], c[1], c[2])>>

-----------------------------------------------------------------------------
(***************************************************************************)
(* Runs of that code.  The machine is the one of space.c, met with rows    *)
(* already decoded: the layer at 0 is carried out in its order, a row      *)
(* whose destination lies in the processor rewrites a field of a later     *)
(* row, and the last row loads a layer.  Against it stands what each       *)
(* instruction of the target means for registers, flags and memory.        *)
(***************************************************************************)
CONSTANTS Cases,      \* <<instructions, first and second register>>
          Starts,     \* rows emitted before, which move the layers' ends
          InputValues, FlagSets, MemoryBits  \* what a run may find

VARIABLES case,           \* one of the cases, and how many rows come before
          steps, code,    \* what remains to be generated, and the code so far
          given,          \* what a run was given
          running,
          rows,           \* the processor
          bits,           \* the other positions that hold 1
          loaded,         \* the layer that was copied to 0
          ticks           \* how many layers have run

runVars == <<case, steps, code, given, running, rows, bits, loaded, ticks>>

Flags == {CMP_EQ, CMP_LTU, CMP_LTS, CMP_LEU, CMP_LES}
Registers == {REG_BASE + 32 * k : k \in 1 .. 4}
DataBits == MemoryBytes * 2 ^ ByteShift

(* The instructions after some rows, and layers where a run ends.          *)
Steps(c, start) ==
  [k \in 1 .. start |-> Put(1, SHIFT_ZERO, SHIFT_ZERO)]
  \o FlattenSeq([k \in DOMAIN c[1] |-> Instruction(k, c[1][k], c[2], c[3])])
  \o <<Go(End), Layer(Taken), Layer(Fault), Layer(End)>>

Ends == {End, Taken, Fault}
Halted == running /\ \E l \in Ends : loaded = code.labels[l]

(* Registers, flags and memory as the space holds them.                    *)
Held(v) ==
  UNION {WithField({}, r, WordBits, v.regs[r]) : r \in Registers} \cup v.flags
  \cup {DataBegin + b : b \in v.memory}

Visible(S) ==
  {b \in S : \/ b \in Flags
             \/ \E r \in Registers : b \in r .. (r + WordBits - 1)
             \/ b >= DataBegin}

NotGiven == [regs |-> <<>>, flags |-> {}, memory |-> {}, out |-> End]

Init == /\ case \in Cases \X Starts
        /\ steps = Tables \o Steps(case[1], case[2]) /\ code = Code
        /\ given = NotGiven /\ running = FALSE
        /\ rows = EmptyLayer /\ bits = {} /\ loaded = 0 /\ ticks = 0

(* The linker generates the next step.                                     *)
Link == /\ steps # <<>>
        /\ steps' = Tail(steps)
        /\ code' = Do(code, Head(steps))
        /\ UNCHANGED <<case, given, running, rows, bits, loaded, ticks>>

(* All labels are known, and a jump is given its layer.                    *)
Bind == /\ steps = <<>> /\ code.jumps # <<>>
        /\ code' = [Resolve(code, Head(code.jumps)) EXCEPT !.jumps = Tail(@)]
        /\ UNCHANGED <<case, steps, given, running, rows, bits, loaded, ticks>>

(* The image is complete, and is loaded with the values of a run.          *)
Start ==
  /\ steps = <<>> /\ code.jumps = <<>> /\ ~running /\ code.p.ok
  /\ \E x, y \in InputValues, f \in FlagSets, m \in MemoryBits :
       given' = [regs |-> [r \in Registers |->
                   CASE r = case[1][2] -> x
                     [] r = case[1][3] /\ r # case[1][2] -> y [] OTHER -> 5],
                 flags |-> f, memory |-> m, out |-> End]
  /\ running' = TRUE
  /\ bits' = code.p.bits \cup Held(given')
  /\ rows' = code.p.rows[CodeBegin] /\ loaded' = CodeBegin
  /\ UNCHANGED <<case, steps, code, ticks>>

(* The number v put into the w bits of the number x from bit k on.         *)
Patched(x, k, w, v) ==
  LET old == (x \div 2 ^ k) % 2 ^ w IN x + (v - old) * 2 ^ k

(* A row rewrites a field of a row.                                        *)
Rewrite(R, S, row) ==
  LET j == row.dst \div InstructionSize
      at == row.dst % InstructionSize
      v == Argument(S, row.src, row.n)
  IN  IF at >= NSize + AddressSize
      THEN [R EXCEPT ![j].src = Patched(@, at - NSize - AddressSize, row.n, v)]
      ELSE [R EXCEPT ![j].dst = Patched(@, at - NSize, row.n, v)]

Carry1(st, i) ==
  LET row == st.rows[i]
  IN  IF row.n = 0 THEN st
      ELSE IF row.dst < ProcessorBits THEN [st EXCEPT !.rows = Rewrite(@, st.bits, row)]
      ELSE [st EXCEPT !.bits = Copied(@, row)]

Pass(st, first, last) ==
  FoldLeft(Carry1, st, [k \in 1 .. (last - first + 1) |-> first + k - 1])

(* All the rows, in two halves, and then the last one.                     *)
Tick ==
  /\ running /\ ~Halted
  /\ \E middle \in {Pass([rows |-> rows, bits |-> bits], 0, LastSlot \div 2)} :
     \E st \in {Pass(middle, LastSlot \div 2 + 1, LastSlot - 1)} :
       /\ bits' = st.bits
       /\ loaded' = st.rows[LastSlot].src
       /\ rows' = code.p.rows[loaded']
  /\ ticks' = ticks + 1
  /\ UNCHANGED <<case, steps, code, given, running>>

Next == Link \/ Bind \/ Start \/ Tick
Spec == Init /\ [][Next]_runVars
-----------------------------------------------------------------------------
Signed(x) == IF x >= 2 ^ Top THEN x - WordLimit ELSE x
Magnitude(x) == IF x < 0 THEN -x ELSE x
Word(x) == x % WordLimit

(* The bit function f on words x and y.                                    *)
Bitwise(f(_, _), x, y) ==
  LET bit(v, b) == (v \div 2 ^ b) % 2
  IN  FoldFunctionOnSet(LAMBDA u, v : u + v, 0,
        [b \in 0 .. Top |-> f(bit(x, b), bit(y, b)) * 2 ^ b], 0 .. Top)

(* What an instruction makes of two words.  A division by zero has a       *)
(* quotient of ones and the dividend as its remainder.                     *)
Result(i, x, y) ==
  LET count == y % WordBits
      size == 2 ^ Part(i[2])
      negative == (Signed(x) < 0) # (Signed(y) < 0)
      quotient == Magnitude(Signed(x)) \div Magnitude(Signed(y))
  IN  CASE i[1] = "mov" -> y
        [] i[1] = "add" -> Word(x + y)      [] i[1] = "sub" -> Word(x - y)
        [] i[1] = "inc" -> Word(x + i[2])   [] i[1] = "dec" -> Word(x - i[2])
        [] i[1] = "neg" -> Word(-y)         [] i[1] = "not" -> WordLimit - 1 - y
        [] i[1] = "and" -> Bitwise(LAMBDA u, v : u * v, x, y)
        [] i[1] = "or"  -> Bitwise(LAMBDA u, v : u + v - u * v, x, y)
        [] i[1] = "xor" -> Bitwise(LAMBDA u, v : (u + v) % 2, x, y)
        [] i[1] = "zex" -> y % size
        [] i[1] = "sex" -> IF y % size >= size \div 2
                           THEN Word((y % size) - size) ELSE y % size
        [] i[1] = "mul" -> Word(x * y)
        [] i[1] = "udiv" -> IF y = 0 THEN WordLimit - 1 ELSE x \div y
        [] i[1] = "umod" -> IF y = 0 THEN x ELSE x % y
        [] i[1] = "div" -> IF y = 0 THEN WordLimit - 1
                           ELSE Word(IF negative THEN -quotient ELSE quotient)
        [] i[1] = "mod" -> IF y = 0 THEN x
                           ELSE Word(Signed(x) - Signed(y) *
                                     (IF negative THEN -quotient ELSE quotient))
        [] i[1] = "ashl" -> Word(x * 2 ^ count)
        [] i[1] = "lshr" -> x \div 2 ^ count
        [] i[1] = "ashr" -> Word(Signed(x) \div 2 ^ count)

Holds(name, f) ==
  CASE name = "eq" -> CMP_EQ \in f   [] name = "ne" -> CMP_EQ \notin f
    [] name = "lt" -> CMP_LTS \in f  [] name = "ge" -> CMP_LTS \notin f
    [] name = "le" -> CMP_LES \in f  [] name = "gt" -> CMP_LES \notin f
    [] name = "ltu" -> CMP_LTU \in f [] name = "geu" -> CMP_LTU \notin f
    [] name = "leu" -> CMP_LEU \in f [] name = "gtu" -> CMP_LEU \notin f

(* The flags after a comparison.                                           *)
Compared(x, y) ==
  {f \in Flags : CASE f = CMP_EQ -> x = y
                   [] f = CMP_LTU -> x < y   [] f = CMP_LTS -> Signed(x) < Signed(y)
                   [] f = CMP_LEU -> x <= y  [] f = CMP_LES -> Signed(x) <= Signed(y)}

(* Memory is bytes, the lowest bit first; no access goes past the end.     *)
Within(address, size) == address + size \div 2 ^ ByteShift <= MemoryBytes

Loaded(v, register, size, address) ==
  IF Within(address, size)
  THEN [v EXCEPT !.regs[register] = Argument(v.memory, address * 2 ^ ByteShift, size)]
  ELSE [v EXCEPT !.out = Fault]

Stored(v, size, address, value) ==
  IF Within(address, size)
  THEN [v EXCEPT !.memory = WithField(@, address * 2 ^ ByteShift, size, value)]
  ELSE [v EXCEPT !.out = Fault]

Meant(v, i, a, b) ==
  LET x == v.regs[a]
      y == v.regs[b]
  IN  CASE v.out # End -> v
        [] v.out = End /\ i[1] = "cmp" -> [v EXCEPT !.flags = Compared(x, y)]
        [] v.out = End /\ i[1] = "branch" ->
             IF Holds(i[2], v.flags) THEN [v EXCEPT !.out = i[3]] ELSE v
        [] v.out = End /\ i[1] = "ld" -> Loaded(v, a, Part(i[2]), Word(y + i[3]))
        [] v.out = End /\ i[1] = "st" -> Stored(v, Part(i[2]), Word(x + i[3]), y)
        [] v.out = End /\ i[1] = "push" ->
             Stored([v EXCEPT !.regs[a] = Word(x - WordBytes)],
                    WordBits, Word(x - WordBytes), y)
        [] v.out = End /\ i[1] = "pop" ->
             LET w == [v EXCEPT !.regs[a] = Word(x + WordBytes)]
             IN  IF Within(x, WordBits) THEN Loaded(w, b, WordBits, x)
                 ELSE [v EXCEPT !.out = Fault]
        [] OTHER -> [v EXCEPT !.regs[a] = Result(i, x, y)]

Meaning == FoldLeft(LAMBDA v, i : Meant(v, i, case[1][2], case[1][3]), given, case[1][1])

(* A run ends where and with what its instructions mean: the result in its *)
(* register for every pair of values, negative and zero divisors included, *)
(* every other register, the flags and the memory as they were, a store in *)
(* its bytes only, and the fault for an access past the end of memory and  *)
(* for no other, wherever in a layer the code begins.                      *)
Computed ==
  Halted => /\ Visible(bits) = Held(Meaning)
            /\ loaded = code.labels[Meaning.out]

(* Every instruction can be linked, and its loops end: a run takes no more *)
(* ticks than if each of its layers ran once per bit of a word.            *)
EndsInTime == /\ code.p.ok
              /\ running => ticks <= WordBits * Cardinality(DOMAIN code.p.rows)
=============================================================================
