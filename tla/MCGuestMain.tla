----------------------------- MODULE MCGuestMain -----------------------------
(* Packets back to back, damaged, cut short and too long are read by the   *)
(* calls of job.h alone; a few command lines run a whole guest, whose      *)
(* program writes texts that look like headers up to the capture limit.    *)
(* Beside them the legacy machine goes through its scenarios.              *)
EXTENDS GuestMain, LegacyMachine

MCBlobs == {<<7>>, <<7, 8>>}
MCJobs == {j \in [argv : {<<<<5>>>>, <<<<5, 6>>>>, <<<<5>>, <<>>>>, <<<<6>>, <<5>>>>},
                  blob : MCBlobs] : Len(Packet(j.argv, j.blob)) <= JobMax}

MCLong == Packet(<<<<5, 6>>, <<5, 6>>, <<5, 6>>, <<5, 6>>>>, <<7, 8>>)
MCBad == {<<9, 0, 1, 7>>,           \* no arguments
          <<9, 1, 1, 0, 7>>,        \* no program name
          <<9, 1, 1, 3, 5, 5, 5, 7>>, \* too long an argument
          <<9, 1, 2, 1, 0, 7, 8>>,  \* NUL in an argument
          <<9, 1, 1, 1, 5, 8>>,     \* no files in the blob
          <<9, 6, 1, 1, 5, 1, 5, 1, 5, 7>>, \* too many arguments
          <<9, 1, 5, 1, 5, 7>>,     \* a blob that is cut short
          <<9, 1, 0, 1, 5, 7>>,     \* a cell too many
          <<8, 1, 1, 1, 5, 7>>,     \* another magic
          <<9, 1>>, MCLong}

MCGood == {Packet(j.argv, j.blob) : j \in MCJobs}
MCPackets == MCBad \cup {Packet(<<<<5>>, <<>>>>, b) : b \in MCBlobs}
MCCalls == {p \o <<9, 1, 1, 1, 5, 7>> : p \in MCGood \cup MCBad}

(* Command lines: options are arguments of one cell.                       *)
MCOption ==
  LET o(opt, good, dash) == [opt |-> opt, good |-> good, dash |-> dash]
      all == [n \in 20 .. 36 |->
        CASE n = 20 -> o("result", TRUE, FALSE)  [] n = 21 -> o("result", FALSE, FALSE)
          [] n = 22 -> o("result", TRUE, TRUE)   [] n = 23 -> o("copy", TRUE, FALSE)
          [] n = 24 -> o("copy", TRUE, TRUE)     [] n = 25 -> o("program", TRUE, FALSE)
          [] n = 26 -> o("program", FALSE, FALSE) [] n = 27 -> o("entry", TRUE, FALSE)
          [] n = 28 -> o("entry", FALSE, FALSE)  [] n = 29 -> o("argument", TRUE, FALSE)
          [] n = 30 -> o("argument", FALSE, FALSE) [] n = 31 -> o("memory", TRUE, FALSE)
          [] n = 32 -> o("memory", FALSE, FALSE) [] n = 33 -> o("object", TRUE, FALSE)
          [] n = 34 -> o("library", TRUE, FALSE) [] n = 35 -> o("library", FALSE, FALSE)
          [] OTHER -> o("alone", TRUE, FALSE)]
  IN  [a \in {<<n>> : n \in DOMAIN all} |-> all[a[1]]]

MCLines ==
  {<<>>, <<20>>, <<21>>, <<22, 5>>, <<20, 27>>, <<24>>, <<26>>, <<5, 20>>, <<23, 27, 29, 5>>}
  \cup {<<23, n>> : n \in 27 .. 36} \cup {<<25, n, n, 5>> : n \in 27 .. 36}
  \cup {<<25, 34, 36, 33>>, <<25, 5, 27>>}
MCRuns == {Packet(<<<<5>>>> \o [at \in DOMAIN l |-> <<l[at]>>], <<7>>) : l \in MCLines}
MCStreams == MCCalls \cup MCRuns \cup {<<9, 2>>}

MCTexts == {<<9>>, <<0, 1>>}
MCMissing == <<3>>
MCLowering == <<4>>
MCInvalid == <<2>>
MCFiles == {<<>>, <<9, 0>>}
MCImages == {<<1, 1, 1>>}

-----------------------------------------------------------------------------
(* Scenarios for the legacy machine: programs for its guest, a host that   *)
(* asks for everything while a guest counts, layers and devices.  The      *)
(* space is that of the smallest guest that is worth while: 76 bytes       *)
(* above its fixed place.                                                  *)
(* Instructions of each format.                                            *)
MCR(f7, rs2, rs1, f3, rd) ==
  OfNumber(51) \cup Up(OfNumber(rd), 7) \cup Up(OfNumber(f3), 12) \cup Up(OfNumber(rs1), 15)
  \cup Up(OfNumber(rs2), 20) \cup Up(OfNumber(f7), 25)
MCI(op, imm, rs1, f3, rd) ==
  OfNumber(op) \cup Up(OfNumber(rd), 7) \cup Up(OfNumber(f3), 12) \cup Up(OfNumber(rs1), 15)
  \cup Up(OfNumber(imm), 20)
MCS(imm, rs2, rs1, f3) ==
  OfNumber(35) \cup Up(OfNumber(imm % 32), 7) \cup Up(OfNumber(f3), 12) \cup Up(OfNumber(rs1), 15)
  \cup Up(OfNumber(rs2), 20) \cup Up(OfNumber(imm \div 32), 25)
(* Forward by 8, if taken.                                                 *)
MCB(f3, rs2, rs1) == (MCS(8, rs2, rs1, f3) \ 0 .. 6) \cup OfNumber(99)
(* Back or forward by few bytes.                                           *)
MCJ(rd, bits) == OfNumber(111) \cup Up(OfNumber(rd), 7) \cup bits
MCU(op, top, rd) == OfNumber(op) \cup Up(OfNumber(rd), 7) \cup top

MCAddi(rd, rs1, imm) == MCI(19, imm, rs1, 0, rd)

(* Two registers are loaded from behind the program.                       *)
MCLw(rd, at) == MCI(3, at, 0, 2, rd)
MCWith(body, x, y) ==
  LET at == 4 * (Len(body) + 3)
  IN  <<MCLw(1, at), MCLw(2, at + 4)>> \o body \o <<{}, x, y>>

MCPairs == <<<<{31}, {0}>>, <<0 .. 30, {0, 1, 2, 3, 4}>>, <<0 .. 31, {0, 5}>>, <<{2, 31}, {2, 31}>>>>

MCAlus == <<MCR(0, 2, 1, 0, 3), MCR(32, 2, 1, 0, 4), MCR(0, 2, 1, 1, 5), MCR(0, 2, 1, 2, 6),
            MCR(0, 2, 1, 3, 7), MCR(0, 2, 1, 4, 8), MCR(0, 2, 1, 5, 9), MCR(32, 2, 1, 5, 10),
            MCR(0, 2, 1, 6, 11), MCR(0, 2, 1, 7, 0)>>
MCImms == <<MCI(19, 4095, 1, 0, 3), MCI(19, 4000, 1, 2, 4), MCI(19, 4000, 1, 3, 5), MCI(19, 2047, 1, 4, 6),
            MCI(19, 2048, 1, 6, 7), MCI(19, 2049, 1, 7, 8), MCI(19, 31, 1, 1, 9), MCI(19, 3, 1, 5, 10),
            MCI(19, 1024 + 3, 1, 5, 11)>>
MCMemories == <<MCS(60, 1, 0, 0), MCS(62, 1, 0, 1), MCS(64, 2, 0, 2), MCI(3, 60, 0, 0, 3), MCI(3, 62, 0, 1, 4),
                MCI(3, 67, 0, 4, 5), MCI(3, 66, 0, 5, 6), MCI(3, 64, 0, 2, 0)>>
MCBranches == <<MCB(0, 2, 1), MCAddi(3, 3, 1), MCB(1, 2, 1), MCAddi(3, 3, 2), MCB(4, 2, 1), MCAddi(3, 3, 4),
                MCB(5, 2, 1), MCAddi(3, 3, 8), MCB(6, 2, 1), MCAddi(3, 3, 16), MCB(7, 2, 1), MCAddi(3, 3, 32)>>
MCJumps == <<MCU(55, {12, 31}, 3), MCU(23, {13, 30}, 4), MCJ(5, {23}), {}, MCI(103, 33, 0, 0, 6), {}, MCAddi(0, 0, 5)>>

MCBodies == <<MCAlus, MCImms, MCMemories, MCBranches>>
MCSingles == <<OfNumber(15), OfNumber(115), MCI(3, 2, 0, 2, 1), MCI(3, 1, 0, 5, 1), MCI(3, 76, 0, 0, 1),
               MCS(4094, 0, 0, 2), MCS(3, 0, 0, 1), MCS(2047, 0, 0, 0), MCI(3, 0, 0, 3, 1), MCS(0, 0, 0, 3),
               MCR(1, 2, 1, 0, 3), MCI(19, 32 + 1024, 1, 1, 2), MCI(19, 2048, 0, 5, 2), MCI(103, 0, 0, 1, 1),
               MCB(2, 0, 0), MCJ(0, {22, 31} \cup 12 .. 19), MCI(103, 77, 0, 0, 1)>>
MCPrograms ==
  [k \in 1 .. 16 |-> LET p == MCPairs[((k - 1) % 4) + 1] IN MCWith(MCBodies[(k + 3) \div 4], p[1], p[2])]
  \o <<MCWith(MCJumps, {}, {})>> \o [k \in DOMAIN MCSingles |-> <<MCSingles[k]>>]

(* What the host asks for.                                                 *)
MCAsk(op, a, b, c) == [ch_req |-> 1, ch_op |-> op, ch_a |-> a, ch_b |-> b, ch_c |-> c]
MCLoad(p) == MCAsk(7, WorkspaceBase, 0, 32 * Len(p))
MCStaged(words) == {WorkspaceBase + one : one \in WordsOnes(words)}
MCScenario(staged, boot, asks, life) == [staged |-> staged, boot |-> boot, asks |-> asks, life |-> life]

MCExecutions ==
  [k \in DOMAIN MCPrograms |->
     MCScenario(MCStaged(MCPrograms[k]), -1, <<{MCLoad(MCPrograms[k])}, {MCAsk(8, 0, 0, 18)}>>, 20)]

(* A guest that counts for ever, and everything the host may ask then.     *)
MCCounter == <<MCAddi(1, 1, 1), MCS(12, 1, 0, 2), MCJ(0, {31} \cup 22 .. 30 \cup 12 .. 20)>>
MCHigh == WorkspaceBase + 1024
MCAsks ==
  {MCLoad(MCCounter), MCAsk(7, WorkspaceBase, 0, 4096), MCAsk(1, 0, 0, 0), MCAsk(2, 0, 0, 2), MCAsk(4, 0, 0, 0),
   MCAsk(8, 0, 0, 0), MCAsk(8, 0, 0, 1), MCAsk(9, 0, 0, 3), MCAsk(6, 0, 0, 0), MCAsk(12, WorkspaceBase, 64, 32),
   MCAsk(12, WorkspaceBase, 600, 32), MCAsk(11, 96, MCHigh, 32), MCAsk(11, 600, MCHigh, 32), MCAsk(10, MCHigh, 0, 0),
   MCAsk(10, 8000, 0, 0), MCAsk(13, MCHigh, 0, 0), MCAsk(13, 8792, 0, 0), MCAsk(14, 36, MCHigh, 288),
   MCAsk(14, 36, MCHigh, 999), MCAsk(0, 0, 0, 0), MCAsk(77, 0, 0, 0)}
MCTalks ==
  <<MCScenario(MCStaged(MCCounter), -1,
     <<{MCLoad(MCCounter), MCAsk(8, 0, 0, 4)}, {MCAsk(8, 0, 0, 4), MCAsk(2, 0, 0, 3)}, MCAsks,
       {MCAsk(8, 0, 0, 2), MCAsk(9, 0, 0, 3), MCAsk(4, 0, 0, 0), MCAsk(1, 0, 0, 0), MCLoad(MCCounter)}>>, 6)>>

(* Layers in the workspace: one that copies a register of the guest, one   *)
(* that leaves the space, one that halts the machine.                      *)
MCLayer(at, rows) ==
  UNION {InstructionOnes(at + (r - 1) * InstrBits, rows[r][1], rows[r][2], rows[r][3]) : r \in DOMAIN rows}
MCLayers ==
  <<MCLayer(MCHigh, <<<<0, 0, 0>>, <<32, GuestRegs + 32, WorkspaceBase>>, <<16, SlotAt(2), MCHigh>>>>),
   MCLayer(MCHigh, <<<<8, SpaceBits - 8, 0>>, <<8, SpaceBits, 0>>>>),
   MCLayer(MCHigh, <<<<8, 0, SpaceBits - 4>>>>),
   MCLayer(MCHigh, <<<<1, Mmio["halt"].at, 15>>>>)>>
MCBoots == [k \in DOMAIN MCLayers |-> MCScenario(MCLayers[k], MCHigh, <<>>, 3)]
MCDevices ==
  [k \in DOMAIN MCLayers |-> MCScenario(MCLayers[k] \cup MCStaged(MCCounter), -1,
     <<{MCAsk(3, MCHigh, ProcessorBits, 0), MCAsk(3, 0, ProcessorBits, 0),
        [load_req |-> 1, load_src |-> MCHigh, load_bits |-> ProcessorBits],
        [load_req |-> 1, load_src |-> MCHigh, load_bits |-> 8]},
       {[in_req |-> 1, in_dst |-> MCHigh, in_len |-> 16], [in_req |-> 1, in_dst |-> MCHigh, in_len |-> 9],
        [in_req |-> 1, in_dst |-> SpaceBits, in_len |-> 16],
        [in_req |-> 1, in_dst |-> GuestMemory, in_len |-> 32, in_src_mode |-> 1,
         in_src_addr |-> WorkspaceBase, in_src_end |-> WorkspaceBase + 40],
        MCAsk(5, WorkspaceBase, 4, 0), MCAsk(5, WorkspaceBase + 1, 4, 0), MCAsk(5, WorkspaceBase, 9999, 0),
        [out_req |-> 1, out_src |-> WorkspaceBase, out_len |-> 24], [out_req |-> 1, out_src |-> 3, out_len |-> 24],
        MCLoad(MCCounter)},
       {[in_req |-> 1], MCAsk(8, 0, 0, 3)}>>, 4)]

MCNothing == MCScenario({}, -1, <<>>, 0)
MCScenarios == {MCNothing} \cup Range(MCExecutions \o MCTalks \o MCBoots \o MCDevices)
-----------------------------------------------------------------------------
(* A scenario without life leaves the machine out, and the others leave    *)
(* out the guest.                                                          *)
MCInit == GuestInit /\ IF stream = <<9, 2>> THEN MachineInit ELSE MachineStarts(MCNothing)
MCNext ==
  \/ /\ plan.life = 0 /\ UNCHANGED machineVars
     /\ \/ stream \in MCCalls /\ Next /\ UNCHANGED <<answerVars, mainVars>>
        \/ stream \notin MCCalls /\ GuestNext
  \/ plan.life > 0 /\ MachineNext /\ UNCHANGED guestVars
MCSpec == MCInit /\ [][MCNext]_<<guestVars, machineVars>>
=============================================================================
