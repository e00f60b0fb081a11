---------------------------- MODULE LegacyGuest -----------------------------
(***************************************************************************)
(* The space of the legacy machine (legacy/src/vm/space.c and space.h): a  *)
(* set of the places that hold 1, numbered from the most significant bit   *)
(* of the first byte on.  Layers of instructions are at its front, above   *)
(* them the registers through which the host and the machine talk, and at  *)
(* fixed places the state of a guest.                                      *)
(***************************************************************************)
EXTENDS Words, Sequences

CONSTANTS SpaceBytes, \* of the space
          ProcessorN  \* slots of a layer

SpaceBits == 8 * SpaceBytes

(* The width of an address covers the space, in whole bytes.               *)
AddrBits == CHOOSE w \in {8, 16, 24} : SpaceBits <= 2 ^ w /\ (w = 8 \/ SpaceBits > 2 ^ (w - 8))
InstrBits == 3 * AddrBits
ProcessorBits == ProcessorN * InstrBits

OffDst == AddrBits
OffSrc == 2 * AddrBits

GuestPc == 4096
GuestRegs == 4608
GuestMemory == 8192
MmioGuard == 5632
-----------------------------------------------------------------------------
Cells(at, w) == at .. at + w - 1

(* Numbers lie with their most significant bit first.                      *)
Uint(ones, at, w) == MapThenSumSet(LAMBDA i : 2 ^ (at + w - 1 - i), {i \in Cells(at, w) : i \in ones})
UintOnes(at, w, v) == {i \in Cells(at, w) : (v \div 2 ^ (at + w - 1 - i)) % 2 = 1}

(* What a copy promises: the bits of the source as they were.              *)
Copied(ones, n, src, dst) ==
  {i \in ones : i < dst \/ dst + n <= i}
  \cup {i + dst - src : i \in {j \in ones : src <= j /\ j < src + n}}

(* k bytes as a word, the lowest byte first.                               *)
LeAt(at, v) == at + 8 * (v \div 8) + 7 - (v % 8)
Le(ones, at, k) == {v \in 0 .. 8 * k - 1 : LeAt(at, v) \in ones}
WithLe(ones, at, k, word) ==
  {i \in ones : i < at \/ at + 8 * k <= i} \cup {LeAt(at, v) : v \in {u \in word : u < 8 * k}}
-----------------------------------------------------------------------------
(* The registers behind the layer and the guest's state, in their order.   *)
MmioFields ==
  <<"in_req", "in_done", "in_eof", "in_err", "in_dst", "in_len", "in_got",
    "out_req", "out_done", "out_err", "out_src", "out_len", "out_got",
    "halt", "in_src_mode", "in_src_addr", "in_src_end",
    "load_req", "load_done", "load_err", "load_src", "load_bits",
    "wd_enable", "wd_fired", "wd_limit", "wd_ticks",
    "ch_req", "ch_done", "ch_err", "ch_op", "ch_a", "ch_b", "ch_c", "ch_abi_version">>

Numbers == {"in_dst", "in_len", "in_got", "out_src", "out_len", "out_got", "in_src_addr", "in_src_end",
            "load_src", "load_bits", "wd_limit", "wd_ticks", "ch_a", "ch_b", "ch_c"}

MmioSize(name) ==
  IF name \in Numbers THEN AddrBits ELSE IF name \in {"ch_op", "ch_abi_version"} THEN 8 ELSE 1

MmioBase == IF ProcessorBits < MmioGuard THEN MmioGuard ELSE ProcessorBits
MmioStart(i) == MmioBase + MapThenSumSet(LAMBDA j : MmioSize(MmioFields[j]), 1 .. i - 1)
MmioEnd == MmioStart(Len(MmioFields) + 1)
WorkspaceBase == ((MmioEnd + 7) \div 8) * 8

Mmio == [name \in {MmioFields[i] : i \in DOMAIN MmioFields} |->
           [at |-> MmioStart(CHOOSE j \in DOMAIN MmioFields : MmioFields[j] = name), size |-> MmioSize(name)]]

Field(ones, name) == Uint(ones, Mmio[name].at, Mmio[name].size)
Flag(ones, name) == Mmio[name].at \in ones

(* The registers in the domain of to hold other values.                    *)
WithFields(ones, to) ==
  (ones \ UNION {Cells(Mmio[f].at, Mmio[f].size) : f \in DOMAIN to})
  \cup UNION {UintOnes(Mmio[f].at, Mmio[f].size, to[f]) : f \in DOMAIN to}

(* vm_init leaves a space of zeros with the version of the interface, and  *)
(* refuses one that the layer or the registers do not fit.                 *)
Fresh == WithFields({}, [ch_abi_version |-> 1])

(* The guest's program counter and registers must be clear of the layer,   *)
(* which vm_init does not ask for.                                         *)
ASSUME SpaceAssumption ==
  /\ SpaceBytes \in Nat \ {0} /\ ProcessorN \in Nat \ {0}
  /\ ProcessorBits <= SpaceBits /\ WorkspaceBase <= SpaceBits /\ SpaceBits < 2 ^ 22
  /\ ProcessorBits <= GuestPc
-----------------------------------------------------------------------------
SlotAt(i) == i * InstrBits
Instruction(ones, i) ==
  [n |-> Uint(ones, SlotAt(i), AddrBits), dst |-> Uint(ones, SlotAt(i) + OffDst, AddrBits),
   src |-> Uint(ones, SlotAt(i) + OffSrc, AddrBits)]
InstructionOnes(at, n, dst, src) ==
  UintOnes(at, AddrBits, n) \cup UintOnes(at + OffDst, AddrBits, dst)
  \cup UintOnes(at + OffSrc, AddrBits, src)

(* Mutant: the layer is copied before its address is put into the copy.    *)
LoadSlotFirst == ProcessorN - 2

(* vm_build_boot_loader_layer: the pointer is in the first slot, the slot  *)
(* before the last puts it into the last, and the last copies a layer.     *)
LoadSlot == ProcessorN - 1
PatchSlot == (2 * ProcessorN - 3) - LoadSlot
BootLayer(pointer) ==
  InstructionOnes(SlotAt(0), 0, pointer, 0)
  \cup InstructionOnes(SlotAt(PatchSlot), AddrBits, SlotAt(LoadSlot) + OffSrc, SlotAt(0) + OffDst)
  \cup InstructionOnes(SlotAt(LoadSlot), ProcessorBits, 0, 0)

-----------------------------------------------------------------------------
(***************************************************************************)
(* One instruction of the guest that lives in the space of the legacy      *)
(* machine (legacy/src/vm/rv32.c), and the record that it leaves.          *)
(***************************************************************************)
Number(word, lo, hi) == Value(Slice(word, lo, hi))

Opcode(insn) == Number(insn, 0, 6)
Rd(insn) == Number(insn, 7, 11)
Funct3(insn) == Number(insn, 12, 14)
Rs1(insn) == Number(insn, 15, 19)
Rs2(insn) == Number(insn, 20, 24)
Funct7(insn) == Number(insn, 25, 31)

Register(ones, r) == Le(ones, GuestRegs + 32 * r, 4)

(* The immediate of each opcode's format.                                  *)
ImmOf(insn) ==
  LET at(lo, hi, to) == Up(Slice(insn, lo, hi), to)
  IN  CASE Opcode(insn) \in {55, 23} -> insn \ 0 .. 11
        [] Opcode(insn) \in {19, 3, 103} -> Signed(Slice(insn, 20, 31), 12)
        [] Opcode(insn) = 35 -> Signed(at(7, 11, 0) \cup at(25, 31, 5), 12)
        [] Opcode(insn) = 99 ->
             Signed(at(31, 31, 12) \cup at(7, 7, 11) \cup at(25, 30, 5) \cup at(8, 11, 1), 13)
        [] Opcode(insn) = 111 ->
             Signed(at(31, 31, 20) \cup at(12, 19, 12) \cup at(20, 20, 11) \cup at(21, 30, 1), 21)
        [] OTHER -> {}

(* Mutant: a right shift of a negative number brings in zeros.             *)
AluLogical(f3, alternate, a, b) ==
  LET shift == Number(b, 0, 4)
  IN  CASE f3 = 0 -> IF alternate THEN Minus(a, b) ELSE Plus(a, b)
        [] f3 = 1 -> Up(a, shift)
        [] f3 = 2 -> Truth(BelowSigned(a, b))
        [] f3 = 3 -> Truth(Below(a, b))
        [] f3 = 4 -> Xor(a, b)
        [] f3 = 5 -> Down(a, shift)
        [] f3 = 6 -> a \cup b
        [] f3 = 7 -> a \cap b

Alu(f3, alternate, a, b) ==
  LET shift == Number(b, 0, 4)
  IN  CASE f3 = 0 -> IF alternate THEN Minus(a, b) ELSE Plus(a, b)
        [] f3 = 1 -> Up(a, shift)
        [] f3 = 2 -> Truth(BelowSigned(a, b))
        [] f3 = 3 -> Truth(Below(a, b))
        [] f3 = 4 -> Xor(a, b)
        [] f3 = 5 -> IF alternate THEN Signed(Down(a, shift), 32 - shift) ELSE Down(a, shift)
        [] f3 = 6 -> a \cup b
        [] f3 = 7 -> a \cap b

(* LUI and AUIPC.                                                          *)
Upper(op, pc, imm) == IF op = 55 THEN imm ELSE Plus(pc, imm)

(* Opcodes and functions the guest knows.                                  *)
Supported(insn) ==
  LET f3 == Funct3(insn)
      f7 == Funct7(insn)
  IN  CASE Opcode(insn) \in {55, 23, 111} -> TRUE
        [] Opcode(insn) = 19 -> f3 \in {1, 5} => f7 = 0 \/ (f7 = 32 /\ f3 = 5)
        [] Opcode(insn) = 51 -> f7 = 0 \/ (f7 = 32 /\ f3 \in {0, 5})
        [] Opcode(insn) = 3 -> f3 \in {0, 1, 2, 4, 5}
        [] Opcode(insn) = 35 -> f3 \in {0, 1, 2}
        [] Opcode(insn) = 99 -> f3 \notin {2, 3}
        [] Opcode(insn) = 103 -> f3 = 0
        [] OTHER -> FALSE

Width(f3) == 2 ^ (f3 % 4)
Taken(f3, a, b) ==
  LET less == CASE f3 \in {0, 1} -> a = b
                [] f3 \in {4, 5} -> BelowSigned(a, b)
                [] f3 \in {6, 7} -> Below(a, b)
  IN  IF f3 % 2 = 0 THEN less ELSE ~less

(* k bytes of guest memory from the address in a word on.                  *)
InMemory(address, k) ==
  address \subseteq 0 .. 19 /\ GuestMemory + 8 * Value(address) + 8 * k <= SpaceBits
MemoryAt(address) == GuestMemory + 8 * Value(address)

(* rv32_addr_check looks at the alignment first.                           *)
Access(address, k) ==
  IF \E i \in address \cap {0, 1} : 2 ^ i < k THEN "align"
  ELSE IF InMemory(address, k) THEN "none" ELSE "bounds"
-----------------------------------------------------------------------------
(* A record of the trace is nine words, in the order of rv_trace_record_t. *)
TraceWords == <<"step", "pc", "instr", "imm", "rd_value", "mem_addr", "mem_value", "meta", "flags">>
RecordBytes == 4 * Len(TraceWords)
NoRecord == [w \in {TraceWords[i] : i \in DOMAIN TraceWords} |-> {}]

Reason(name) == CASE name = "none" -> 0 [] name = "halt" -> 1 [] name = "unsupported" -> 2
                  [] name = "align" -> 3 [] name = "bounds" -> 4

(* What of the instruction a record tells: registers only where the format *)
(* has them.                                                               *)
Meta(insn) ==
  LET has(set, word) == IF Opcode(insn) \in set THEN word ELSE {}
  IN  has({55, 23, 19, 51, 3, 35, 99, 111, 103}, Slice(insn, 0, 6))
      \cup has({19, 51, 3, 35, 99, 103}, Up(Slice(insn, 12, 14), 7))
      \cup has({19, 51}, Up(Slice(insn, 25, 31), 10))
      \cup has({55, 23, 19, 51, 3, 111, 103}, Up(Slice(insn, 7, 11), 17))
      \cup has({19, 51, 3, 35, 99, 103}, Up(Slice(insn, 15, 19), 22))
      \cup has({51, 35, 99}, Up(Slice(insn, 20, 24), 27))

Flags(rd, stores, width, reason) ==
  (IF rd THEN {0} ELSE {}) \cup (IF stores THEN {1} ELSE {}) \cup (IF reason # "none" THEN {2} ELSE {})
  \cup Up(OfNumber(width), 8) \cup Up(OfNumber(Reason(reason)), 16)
-----------------------------------------------------------------------------
(* The guest goes no further: the space is as it was, up to the halt that  *)
(* rv32_guest_stop asks for.                                               *)
Stops(ones, steps, rec, width, reason) ==
  [space |-> WithFields(ones, [halt |-> 1]), steps |-> steps, reason |-> reason,
   rec |-> [rec EXCEPT !.step = OfNumber(steps), !.flags = Flags(FALSE, FALSE, width, reason)]]

(* Mutant: a register that is always 0 is written all the same.            *)
GoesZero(ones, steps, rec, rd, width, next) ==
  LET written == WithLe(ones, GuestRegs + 32 * rd, 4, rec.rd_value)
  IN  [space |-> WithLe(written, GuestPc, 4, next), steps |-> steps, reason |-> "none",
       rec |-> [rec EXCEPT !.flags = Flags(rd # 0, FALSE, width, "none")]]

(* A register is written, unless it is x0, and then the program counter    *)
(* and x0 (rv32_guest_commit).                                             *)
Goes(ones, steps, rec, rd, width, next) ==
  LET written == IF rd = 0 THEN ones ELSE WithLe(ones, GuestRegs + 32 * rd, 4, rec.rd_value)
  IN  [space |-> WithLe(WithLe(written, GuestPc, 4, next), GuestRegs, 4, {}),
       steps |-> steps, reason |-> "none",
       rec |-> [rec EXCEPT !.flags = Flags(rd # 0, FALSE, width, "none")]]

LoadedWord(ones, address, f3) ==
  LET k == Width(f3)
      word == Le(ones, MemoryAt(address), k)
  IN  IF f3 \in {0, 1} THEN Signed(word, 8 * k) ELSE word

(* What an instruction that is there does, when there are steps of them.   *)
Executed(ones, pc, insn, steps) ==
  LET op == Opcode(insn)
      f3 == Funct3(insn)
      a == Register(ones, Rs1(insn))
      b == Register(ones, Rs2(insn))
      imm == ImmOf(insn)
      next == Plus(pc, {2})
      address == Plus(a, imm)
      width == Width(f3)
      rec == [NoRecord EXCEPT !.step = OfNumber(steps), !.pc = pc, !.instr = insn,
                !.imm = imm, !.meta = Meta(insn)]
      gives(word, w, to) == Goes(ones, steps, [rec EXCEPT !.rd_value = word], Rd(insn), w, to)
  IN  IF ~Supported(insn) THEN Stops(ones, steps, rec, 0, "unsupported")
      ELSE CASE op \in {55, 23} -> gives(Upper(op, pc, imm), 0, next)
             [] op = 19 -> gives(Alu(f3, f3 = 5 /\ Funct7(insn) = 32, a, imm), 0, next)
             [] op = 51 -> gives(Alu(f3, Funct7(insn) = 32, a, b), 0, next)
             [] op = 3 ->
                  IF Access(address, width) # "none"
                  THEN Stops(ones, steps, rec, width, Access(address, width))
                  ELSE gives(LoadedWord(ones, address, f3), width, next)
             [] op = 35 ->
                  IF Access(address, width) # "none"
                  THEN Stops(ones, steps, rec, width, Access(address, width))
                  ELSE [Goes(WithLe(ones, MemoryAt(address), width, b), steps,
                             [rec EXCEPT !.mem_addr = address, !.mem_value = b], 0, width, next)
                        EXCEPT !.rec.flags = Flags(FALSE, TRUE, width, "none")]
             [] op = 99 -> Goes(ones, steps, rec, 0, 0,
                                IF Taken(f3, a, b) THEN Plus(pc, imm) ELSE next)
             [] op = 111 -> gives(next, 0, Plus(pc, imm))
             [] op = 103 -> gives(next, 0, Plus(a, imm) \ {0})

(* rv32_guest_step: an instruction of zeros halts and, like one that is    *)
(* not in memory, is not counted.                                          *)
GuestResult(ones, steps) ==
  LET pc == Le(ones, GuestPc, 4)
      insn == Le(ones, MemoryAt(pc), 4)
      rec == [NoRecord EXCEPT !.pc = pc]
  IN  IF ~InMemory(pc, 4) THEN Stops(ones, steps, rec, 0, "bounds")
      ELSE IF insn = {} THEN Stops(ones, steps, rec, 0, "halt")
      ELSE Executed(ones, pc, insn, steps + 1)
=============================================================================
