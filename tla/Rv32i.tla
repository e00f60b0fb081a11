------------------------------- MODULE Rv32i -------------------------------
(***************************************************************************)
(* The base integer instructions of RISC-V with 32-bit registers, by their *)
(* names, as the architecture defines them: what one does to the program   *)
(* counter, the registers and memory, and when it traps.  FENCE, which     *)
(* orders nothing here, and the system instructions are left out.          *)
(***************************************************************************)
EXTENDS Words, Sequences

(* name -> opcode, and where the format has them funct3 and funct7.        *)
Encoding ==
  LET a(op) == <<op>>
      b(op, f3) == <<op, f3>>
      c(op, f3, f7) == <<op, f3, f7>>
  IN  [lui |-> a(55), auipc |-> a(23), jal |-> a(111), jalr |-> b(103, 0),
       beq |-> b(99, 0), bne |-> b(99, 1), blt |-> b(99, 4), bge |-> b(99, 5),
       bltu |-> b(99, 6), bgeu |-> b(99, 7),
       lb |-> b(3, 0), lh |-> b(3, 1), lw |-> b(3, 2), lbu |-> b(3, 4), lhu |-> b(3, 5),
       sb |-> b(35, 0), sh |-> b(35, 1), sw |-> b(35, 2),
       addi |-> b(19, 0), slti |-> b(19, 2), sltiu |-> b(19, 3), xori |-> b(19, 4),
       ori |-> b(19, 6), andi |-> b(19, 7),
       slli |-> c(19, 1, 0), srli |-> c(19, 5, 0), srai |-> c(19, 5, 32),
       add |-> c(51, 0, 0), sub |-> c(51, 0, 32), sll |-> c(51, 1, 0), slt |-> c(51, 2, 0),
       sltu |-> c(51, 3, 0), xor |-> c(51, 4, 0), srl |-> c(51, 5, 0), sra |-> c(51, 5, 32),
       or |-> c(51, 6, 0), and |-> c(51, 7, 0)]

Part(insn, lo, hi) == Value(Slice(insn, lo, hi))

Names(insn) ==
  {name \in DOMAIN Encoding :
     LET e == Encoding[name]
     IN  /\ Part(insn, 0, 6) = e[1]
         /\ Len(e) > 1 => Part(insn, 12, 14) = e[2]
         /\ Len(e) > 2 => Part(insn, 25, 31) = e[3]}

(* The bit of the immediate that each bit of the instruction is.           *)
Gathered(insn, place(_), sign) ==
  LET word == {place(i) : i \in {j \in insn : j > 6}} \ {-1}
  IN  IF 31 \in insn THEN word \cup sign .. 31 ELSE word

ImmI(insn) == Gathered(insn, LAMBDA i : IF i > 19 THEN i - 20 ELSE -1, 11)
ImmS(insn) == Gathered(insn, LAMBDA i : IF i > 24 THEN i - 20 ELSE IF i < 12 THEN i - 7 ELSE -1, 11)
ImmB(insn) ==
  Gathered(insn, LAMBDA i : CASE i = 31 -> 12 [] i = 7 -> 11 [] i \in 25 .. 30 -> i - 20
                              [] i \in 8 .. 11 -> i - 7 [] OTHER -> -1, 12)
ImmU(insn) == {i \in insn : i > 11}
ImmJ(insn) ==
  Gathered(insn, LAMBDA i : CASE i = 31 -> 20 [] i \in 12 .. 19 -> i [] i = 20 -> 11
                              [] i \in 21 .. 30 -> i - 20 [] OTHER -> -1, 20)
-----------------------------------------------------------------------------
(* A machine is [pc, regs, mem]: registers 0 .. 31, x0 always 0, and bytes *)
(* from address 0 on.                                                      *)
Bytes(m, address, k) == UNION {{8 * j + i : i \in m.mem[Value(address) + j]} : j \in 0 .. k - 1}

Reads(m, address, k) == address \subseteq 0 .. 29 /\ Value(address) + k - 1 \in DOMAIN m.mem

(* Loads and stores are aligned here, or they trap.                        *)
Good(m, address, k) == Reads(m, address, k) /\ Value(address) % k = 0

Below32(a, b) == \E i \in b \ a : \A j \in 0 .. 31 : j > i => (j \in a <=> j \in b)
Flip(a) == IF 31 \in a THEN a \ {31} ELSE a \cup {31}
Less(a, b) == Below32(Flip(a), Flip(b))
Right(a, k, fill) == {i \in 0 .. 31 : IF i + k > 31 THEN fill ELSE i + k \in a}

(* What is computed from the registers and an immediate.                   *)
Computes(name, x, y) ==
  LET k == Value({i \in y : i < 5})
  IN  CASE name \in {"add", "addi"} -> Plus(x, y)
        [] name = "sub" -> Plus(x, Plus(Not(y), {0}))
        [] name \in {"sll", "slli"} -> {i + k : i \in {j \in x : j + k < 32}}
        [] name \in {"slt", "slti"} -> Truth(Less(x, y))
        [] name \in {"sltu", "sltiu"} -> Truth(Below32(x, y))
        [] name \in {"xor", "xori"} -> (x \cup y) \ (x \cap y)
        [] name \in {"srl", "srli"} -> Right(x, k, FALSE)
        [] name \in {"sra", "srai"} -> Right(x, k, 31 \in x)
        [] name \in {"or", "ori"} -> x \cup y
        [] name \in {"and", "andi"} -> x \cap y

Branches(name, x, y) ==
  CASE name = "beq" -> x = y [] name = "bne" -> x # y
    [] name = "blt" -> Less(x, y) [] name = "bge" -> ~Less(x, y)
    [] name = "bltu" -> Below32(x, y) [] name = "bgeu" -> ~Below32(x, y)

Size(name) == CASE name \in {"lb", "lbu", "sb"} -> 1 [] name \in {"lh", "lhu", "sh"} -> 2
                [] name \in {"lw", "sw"} -> 4
Loads == {"lb", "lh", "lw", "lbu", "lhu"}
Stores == {"sb", "sh", "sw"}

Fetched(m) == Bytes(m, m.pc, 4)

(* The instruction at the program counter traps, or is none.               *)
Traps(m) ==
  \/ ~Reads(m, m.pc, 4)
  \/ LET insn == Fetched(m)
         x == m.regs[Part(insn, 15, 19)]
     IN  \/ Names(insn) = {}
         \/ \E name \in Names(insn) :
              \/ name \in Loads /\ ~Good(m, Plus(x, ImmI(insn)), Size(name))
              \/ name \in Stores /\ ~Good(m, Plus(x, ImmS(insn)), Size(name))

(* The machine after an instruction that does not trap.                    *)
After(m) ==
  LET insn == Fetched(m)
      name == CHOOSE n \in Names(insn) : TRUE
      x == m.regs[Part(insn, 15, 19)]
      y == m.regs[Part(insn, 20, 24)]
      next == Plus(m.pc, {2})
      op == Encoding[name][1]
      result ==
        CASE name = "lui" -> ImmU(insn) [] name = "auipc" -> Plus(m.pc, ImmU(insn))
          [] name \in {"jal", "jalr"} -> next
          [] name \in Loads ->
               LET loaded == Bytes(m, Plus(x, ImmI(insn)), Size(name))
                   top == 8 * Size(name) - 1
               IN  IF name \in {"lb", "lh"} /\ top \in loaded THEN loaded \cup top .. 31 ELSE loaded
          [] op = 19 -> Computes(name, x, ImmI(insn))
          [] op = 51 -> Computes(name, x, y)
          [] OTHER -> {}
      writes == IF name \in Stores \/ op = 99 THEN {} ELSE {Part(insn, 7, 11)} \ {0}
      store == Value(Plus(x, ImmS(insn)))
  IN  [pc |-> CASE name = "jal" -> Plus(m.pc, ImmJ(insn))
                [] name = "jalr" -> Plus(x, ImmI(insn)) \ {0}
                [] op = 99 /\ Branches(name, x, y) -> Plus(m.pc, ImmB(insn))
                [] OTHER -> next,
       regs |-> [r \in 0 .. 31 |-> IF r \in writes THEN result ELSE m.regs[r]],
       mem |-> IF name \notin Stores THEN m.mem
               ELSE [at \in DOMAIN m.mem |->
                       IF at - store \in 0 .. Size(name) - 1
                       THEN {i - 8 * (at - store) : i \in {j \in y : j \div 8 = at - store}}
                       ELSE m.mem[at]]]
=============================================================================
