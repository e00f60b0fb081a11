--------------------------- MODULE LegacyMachine ---------------------------
(***************************************************************************)
(* The legacy machine (legacy/src/vm/space.c) and a host that talks to it  *)
(* through its registers.  A tick serves what was asked for, counts for    *)
(* the watchdog, lets the guest do an instruction and executes the slots   *)
(* of the layer, one after another.                                        *)
(***************************************************************************)
EXTENDS LegacyGuest, SequencesExt

CONSTANTS Scenarios,     \* [staged, boot, asks, life]: ones in the workspace,
                         \* the address of a layer to boot (-1: none), for each
                         \* request of the host the registers it may set, and
                         \* the ticks that are looked at
          Feed,          \* bytes the input has
          TraceCapacity  \* records of the trace

ASSUME MachineAssumption == Feed \in Nat /\ TraceCapacity \in Nat

VARIABLES space,
          plan,    \* of the scenario, what is left of it
          phase,   \* the part of a tick that is next; "rest" between ticks
          slot,    \* that is executed next
          guest,   \* [loaded, running, steps, reason]
          trace, dropped,
          ticks,   \* tick_counter
          fault,   \* last_err.kind
          fed, printed,  \* bytes taken from the input; written
          base,    \* the guest as a load left it, none once something else wrote to it
          armed    \* the steps and the limit when the watchdog was armed

machineVars == <<space, plan, phase, slot, guest, trace, dropped, ticks, fault,
                 fed, printed, base, armed>>
streamVars == <<fed, printed>>
traceVars == <<trace, dropped>>

NotArmed == [at |-> 0, limit |-> -1]

(* The registers and the memory of the guest.                              *)
GuestView(ones) ==
  {i \in ones : GuestMemory <= i \/ (GuestRegs <= i /\ i < GuestRegs + 1024)}
NoView == {-1}

(* Whatever writes to the guest, the guest apart, ends the record of it.   *)
Touches == base' = IF GuestView(space') = GuestView(space) THEN base ELSE NoView

MachineStarts(s) ==
  /\ space = Fresh \cup s.staged \cup (IF s.boot >= 0 THEN BootLayer(s.boot) ELSE {})
  /\ plan = [boot |-> s.boot, asks |-> s.asks, life |-> s.life]
  /\ phase = "rest" /\ slot = 0
  /\ guest = [loaded |-> FALSE, running |-> FALSE, steps |-> 0, reason |-> "none"]
  /\ trace = <<>> /\ dropped = 0 /\ ticks = 0 /\ fault = "none"
  /\ fed = 0 /\ printed = 0 /\ base = NoView /\ armed = NotArmed
MachineInit == \E s \in Scenarios : MachineStarts(s)
-----------------------------------------------------------------------------
(* Between ticks the host writes registers, but waits for the channel.     *)
Ask == /\ phase = "rest" /\ plan.asks # <<>> /\ ~Flag(space, "ch_req")
       /\ \E to \in Head(plan.asks) : space' = WithFields(space, to)
       /\ plan' = [plan EXCEPT !.asks = Tail(@)]
       /\ UNCHANGED <<phase, slot, guest, traceVars, ticks, fault, streamVars, base, armed>>

(* A tick serves what is asked for, in this order; the rest it passes by.  *)
Services == <<"out", "in", "load", "channel">>
Request == [out |-> "out_req", in |-> "in_req", load |-> "load_req", channel |-> "ch_req"]

Due(ones, after) ==
  LET due == {i \in after + 1 .. Len(Services) : Flag(ones, Request[Services[i]])}
  IN  IF due = {} THEN "watchdog" ELSE Services[CHOOSE i \in due : \A j \in due : i <= j]

(* vm_run, or a caller of its own, goes on to the next tick.               *)
Begins == /\ phase = "rest" /\ ticks < plan.life
          /\ phase' = Due(space, 0) /\ fault' = "none" /\ slot' = 0
          /\ UNCHANGED <<space, plan, guest, traceVars, ticks, streamVars, base, armed>>

(* What a service leaves has put space' in its place.                      *)
Served(i) ==
  /\ phase' = Due(space', i)
  /\ UNCHANGED <<plan, slot, ticks, fault>>

Unaligned(at, len) == at % 8 # 0 \/ len % 8 # 0

(* All that is asked for is written, or a part when the stream breaks off. *)
ServiceOut ==
  LET at == Field(space, "out_src")
      len == Field(space, "out_len")
      done(err, got) == WithFields(space, [out_done |-> 1, out_err |-> err, out_got |-> got, out_req |-> 0])
  IN  /\ phase = "out"
      /\ IF Unaligned(at, len) \/ at + len > SpaceBits
         THEN space' = done(1, 0) /\ UNCHANGED printed
         ELSE \E put \in 0 .. len \div 8 :
                /\ space' = done(IF 8 * put # len THEN 1 ELSE 0, 8 * put)
                /\ printed' = printed + put
      /\ Served(1) /\ Touches
      /\ UNCHANGED <<guest, traceVars, fed, armed>>

(* Bytes of the input, of which two kinds are told apart.                  *)
FeedByte(k) == IF k % 2 = 0 THEN {7} ELSE {0, 7}
FeedOnes(at, got) == UNION {{at + 8 * j + b : b \in FeedByte(fed + j)} : j \in 0 .. got - 1}

ServiceIn ==
  LET dst == Field(space, "in_dst")
      len == Field(space, "in_len")
      from == Field(space, "in_src_addr")
      end == Field(space, "in_src_end")
      cleared == WithFields(space, [in_done |-> 0, in_eof |-> 0, in_err |-> 0, in_got |-> 0])
      done(ones) == WithFields(ones, [in_done |-> 1, in_req |-> 0])
      got == IF len \div 8 < Feed - fed THEN len \div 8 ELSE Feed - fed
  IN  /\ phase = "in"
      /\ IF Unaligned(dst, len) \/ dst + len > SpaceBits
         THEN space' = done(WithFields(cleared, [in_err |-> 1])) /\ UNCHANGED fed
         ELSE IF Flag(space, "in_src_mode")
         THEN /\ space' = done(IF from + len > end \/ from >= end
                               THEN WithFields(cleared, [in_eof |-> 1])
                               ELSE WithFields(Copied(cleared, len, from, dst),
                                               [in_got |-> len, in_src_addr |-> from + len]))
              /\ UNCHANGED fed
         ELSE /\ LET read == (cleared \ Cells(dst, 8 * got)) \cup FeedOnes(dst, got)
                     told == IF got = 0 /\ len # 0 THEN [in_eof |-> 1, in_got |-> 0] ELSE [in_got |-> 8 * got]
                 IN  space' = done(WithFields(read, told))
              /\ fed' = fed + got
      /\ Served(2) /\ Touches
      /\ UNCHANGED <<guest, traceVars, printed, armed>>

(* A layer of the right size that lies above the registers.                *)
GoodLayer(src, n) == n = ProcessorBits /\ src + n <= SpaceBits /\ src >= WorkspaceBase

ServiceLoader ==
  LET src == Field(space, "load_src")
      good == GoodLayer(src, Field(space, "load_bits"))
      loaded == IF good THEN Copied(space, ProcessorBits, src, 0) ELSE space
  IN  /\ phase = "load"
      /\ space' = WithFields(loaded, [load_done |-> 1, load_err |-> IF good THEN 0 ELSE 1, load_req |-> 0])
      /\ Served(3) /\ Touches
      /\ UNCHANGED <<guest, traceVars, streamVars, armed>>
-----------------------------------------------------------------------------
(* The channel: an operation and up to three numbers; what is refused has  *)
(* an error, most often with its kind where the last number was.           *)
Bounds == 1
Alignment == 2
Protocol == 3

Asked(op) == phase = "channel" /\ Field(space, "ch_op") = op
A == Field(space, "ch_a")
B == Field(space, "ch_b")
C == Field(space, "ch_c")

(* An answer starts from registers that tell of none; what is copied over  *)
(* them then stays, done and request apart.                                *)
Cleared == WithFields(space, [ch_done |-> 0, ch_err |-> 0])
Accepts(ones) == space' = WithFields(ones, [ch_done |-> 1, ch_req |-> 0])
Refuses(kind) == space' = WithFields(space, [ch_done |-> 1, ch_err |-> 1, ch_req |-> 0, ch_c |-> kind])

Lasting == UNCHANGED <<guest, traceVars, streamVars, armed>>

Arm(limit) == armed' = IF limit > 0 THEN [at |-> guest.steps, limit |-> limit] ELSE NotArmed
Watched(limit, on) == [wd_limit |-> limit, wd_ticks |-> 0, wd_fired |-> 0, wd_enable |-> on]

Nop == Asked(0) /\ Accepts(Cleared) /\ Touches /\ Lasting

Stop == Asked(1) /\ Accepts(WithFields(Cleared, [halt |-> 1])) /\ Touches /\ Lasting

StepBudget == /\ Asked(2) /\ Accepts(WithFields(Cleared, Watched(C, 1))) /\ Arm(C)
              /\ Touches /\ UNCHANGED <<guest, traceVars, streamVars>>

(* A layer that is refused has no kind of error.                           *)
LoadImage == /\ Asked(3)
             /\ IF GoodLayer(A, B) THEN Accepts(Copied(Cleared, B, A, 0))
                ELSE space' = WithFields(space, [ch_done |-> 1, ch_err |-> 1, ch_req |-> 0])
             /\ Touches /\ Lasting

LoadAck == /\ Asked(4)
           /\ Accepts(WithFields(Cleared, [wd_enable |-> 0, wd_fired |-> 0, wd_ticks |-> 0]))
           /\ armed' = NotArmed
           /\ Touches /\ UNCHANGED <<guest, traceVars, streamVars>>

(* A write that breaks off has written a part, and is refused.             *)
IoWrite ==
  /\ Asked(5)
  /\ IF A % 8 # 0 \/ A + 8 * B > SpaceBits
     THEN Refuses(IF A % 8 # 0 THEN Alignment ELSE Bounds) /\ UNCHANGED printed
     ELSE \/ Accepts(Cleared) /\ printed' = printed + B
          \/ Refuses(Protocol) /\ \E put \in 0 .. B - 1 : printed' = printed + put
  /\ Touches /\ UNCHANGED <<guest, traceVars, fed, armed>>

(* The first bit of the second number tells whether the machine halts; the *)
(* error told is that of this tick, which has had none yet.                *)
Status ==
  LET top == 2 ^ (AddrBits - 1)
  IN  /\ Asked(6)
      /\ Accepts(WithFields(Cleared, [ch_a |-> ticks, ch_c |-> 0,
                                    ch_b |-> (B % top) + (IF Flag(space, "halt") THEN top ELSE 0)]))
      /\ Touches /\ Lasting

Within(src, dst, n) == src + n <= SpaceBits /\ dst + n <= SpaceBits

(* Mutant: the old guest is gone before the new one is looked at.          *)
LoadCodeEarly ==
  /\ Asked(7)
  /\ IF ~Within(A, GuestMemory + B, C)
     THEN Refuses(Bounds) /\ UNCHANGED base
     ELSE /\ Accepts(WithLe(WithFields(Copied(Cleared, C, A, GuestMemory + B), [halt |-> 0]), GuestPc, 4, {}))
          /\ base' = GuestView(space')
  /\ guest' = [loaded |-> TRUE, running |-> FALSE, steps |-> 0, reason |-> "none"]
  /\ trace' = <<>> /\ dropped' = 0 /\ armed' = NotArmed
  /\ UNCHANGED streamVars

LoadCode ==
  /\ Asked(7)
  /\ IF ~Within(A, GuestMemory + B, C)
     THEN Refuses(Bounds) /\ UNCHANGED <<guest, traceVars, base, armed>>
     ELSE /\ Accepts(WithLe(WithFields(Copied(Cleared, C, A, GuestMemory + B), [halt |-> 0]), GuestPc, 4, {}))
          /\ guest' = [loaded |-> TRUE, running |-> FALSE, steps |-> 0, reason |-> "none"]
          /\ trace' = <<>> /\ dropped' = 0 /\ armed' = NotArmed
          /\ base' = GuestView(space')
  /\ UNCHANGED streamVars

(* RUN and STEP are one: so many ticks, this one among them.               *)
RunGuest ==
  /\ Asked(8) \/ Asked(9)
  /\ IF ~guest.loaded THEN Refuses(Protocol) /\ UNCHANGED <<guest, armed>>
     ELSE /\ Accepts(WithFields(Cleared, Watched(C, IF C > 0 THEN 1 ELSE 0) @@ [halt |-> 0]))
          /\ guest' = [guest EXCEPT !.running = C > 0, !.reason = "none"]
          /\ Arm(C)
  /\ Touches /\ UNCHANGED <<traceVars, streamVars>>

Copies(op, n, src, dst) ==
  /\ Asked(op)
  /\ IF Within(src, dst, n) THEN Accepts(Copied(Cleared, n, src, dst)) ELSE Refuses(Bounds)
  /\ Touches /\ Lasting

ReadRegs == Copies(10, 1024, GuestRegs, A)
ReadMem == Copies(11, C, GuestMemory + A, B)
WriteMem == Copies(12, C, A, GuestMemory + B)

(* Words in the order of memory, from byte 0 of what the host gets.        *)
WordsOnes(words) == UNION {{LeAt(32 * (i - 1), v) : v \in words[i]} : i \in DOMAIN words}
RecordOnes(rec) == WordsOnes([i \in DOMAIN TraceWords |-> rec[TraceWords[i]]])
TraceOnes == UNION {{8 * RecordBytes * (k - 1) + i : i \in RecordOnes(trace[k])} : k \in DOMAIN trace}

(* n bits from bit at of the host's memory, to the byte that dst is in.    *)
Given(ones, at, n, dst) ==
  LET to == dst - (dst % 8)
  IN  (Cleared \ Cells(to, n)) \cup {i + to - at : i \in {j \in ones : at <= j /\ j < at + n}}

TraceInfo ==
  LET info == <<OfNumber(1), OfNumber(RecordBytes), OfNumber(Len(trace)),
                OfNumber(RecordBytes * Len(trace)), OfNumber(dropped)>>
  IN  /\ Asked(13)
      /\ IF A + 160 <= SpaceBits THEN Accepts(Given(WordsOnes(info), 0, 160, A)) ELSE Refuses(Bounds)
      /\ Touches /\ Lasting

TraceRead ==
  /\ Asked(14)
  /\ IF C % 8 = 0 /\ B + C <= SpaceBits /\ 8 * A + C <= 8 * RecordBytes * Len(trace)
     THEN Accepts(Given(TraceOnes, 8 * A, C, B)) ELSE Refuses(Bounds)
  /\ Touches /\ Lasting

Unknown == phase = "channel" /\ Field(space, "ch_op") > 14 /\ Refuses(Protocol) /\ Touches /\ Lasting

Channel ==
  /\ \/ Nop \/ Stop \/ StepBudget \/ LoadImage \/ LoadAck \/ IoWrite \/ Status
     \/ LoadCode \/ RunGuest \/ ReadRegs \/ ReadMem \/ WriteMem \/ TraceInfo \/ TraceRead \/ Unknown
  /\ Served(4)
-----------------------------------------------------------------------------
(* Mutant: the watchdog lets one more tick pass.                           *)
BarksLate(count, limit) == limit > 0 /\ count > limit

Barks(count, limit) == limit > 0 /\ count >= limit

EndsTick == phase' = "rest" /\ ticks' = ticks + 1

(* The watchdog counts, and a machine that halts does no more this tick.   *)
Watchdog ==
  LET count == Field(space, "wd_ticks") + 1
      counted == WithFields(space, [wd_ticks |-> count])
  IN  /\ phase = "watchdog"
      /\ space' = IF ~Flag(space, "wd_enable") THEN space
                  ELSE IF Barks(count, Field(space, "wd_limit"))
                  THEN WithFields(counted, [wd_fired |-> 1, halt |-> 1]) ELSE counted
      /\ IF Flag(space', "halt") THEN EndsTick /\ guest' = [guest EXCEPT !.running = FALSE]
         ELSE /\ phase' = IF guest.running THEN "guest" ELSE "slots"
              /\ UNCHANGED <<ticks, guest>>
      /\ Touches
      /\ UNCHANGED <<plan, slot, fault, traceVars, streamVars, armed>>

(* rv32_trace_append *)
Traced(rec) == IF Len(trace) < TraceCapacity THEN trace' = Append(trace, rec) /\ UNCHANGED dropped
               ELSE dropped' = dropped + 1 /\ UNCHANGED trace

(* rv32_guest_step is done, and r came of it.                              *)
Stepped(r) ==
  /\ space' = r.space
  /\ guest' = [guest EXCEPT !.steps = r.steps, !.running = r.reason = "none", !.reason = r.reason]
  /\ Traced(r.rec)
  /\ IF r.reason = "none" THEN phase' = "slots" /\ UNCHANGED ticks ELSE EndsTick
  /\ UNCHANGED <<plan, slot, fault, streamVars, base, armed>>
GuestStep == phase = "guest" /\ Stepped(GuestResult(space, guest.steps))

(* The instruction of a slot as it is now; one that leaves the space ends  *)
(* the machine, and the tick does not count.                               *)
Slot ==
  LET ins == Instruction(space, slot)
      last == slot = ProcessorN - 1
      bad == IF ins.src + ins.n > SpaceBits THEN "source"
             ELSE IF ins.dst + ins.n > SpaceBits THEN "destination" ELSE "none"
  IN  /\ phase = "slots"
      /\ IF ins.n > 0 /\ bad # "none"
         THEN phase' = "failed" /\ fault' = bad /\ UNCHANGED <<space, slot, ticks>>
         ELSE /\ space' = IF ins.n = 0 THEN space ELSE Copied(space, ins.n, ins.src, ins.dst)
              /\ slot' = IF last THEN 0 ELSE slot + 1
              /\ IF last THEN EndsTick ELSE UNCHANGED <<phase, ticks>>
              /\ UNCHANGED fault
      /\ Touches
      /\ UNCHANGED <<plan, guest, traceVars, streamVars, armed>>

MachineNext == \/ Ask \/ Begins \/ ServiceOut \/ ServiceIn \/ ServiceLoader \/ Channel
               \/ Watchdog \/ GuestStep \/ Slot
MachineSpec == MachineInit /\ [][MachineNext]_machineVars
-----------------------------------------------------------------------------
(* A guest does fewer instructions than the ticks its watchdog was armed   *)
(* with, whatever is asked for, loaded or stopped in between (a load or an *)
(* acknowledgement disarms it).                                            *)
StaysInBudget == armed.limit > 0 => guest.steps - armed.at < armed.limit

(* Who knows the guest as it was loaded and reads its trace knows it as it *)
(* is, unless records were dropped or others have written to it.           *)
Replayed(ones, rec) ==
  LET set == IF 0 \in rec.flags THEN WithLe(ones, GuestRegs + 32 * Number(rec.meta, 17, 21), 4, rec.rd_value)
             ELSE ones
  IN  IF 1 \in rec.flags
      THEN WithLe(set, MemoryAt(rec.mem_addr), Number(rec.flags, 8, 15), rec.mem_value) ELSE set
TraceReplays ==
  base # NoView /\ dropped = 0 => FoldLeft(Replayed, base, trace) = GuestView(space)

(* An instruction that does not stop the guest does what the architecture  *)
(* says, and one that does stop it is a trap there, or left out of it.     *)
Isa == INSTANCE Rv32i
IsaMachine(ones) ==
  [pc |-> Le(ones, GuestPc, 4), regs |-> [r \in 0 .. 31 |-> Register(ones, r)],
   mem |-> [at \in 0 .. (SpaceBits - GuestMemory) \div 8 - 1 |-> Le(ones, GuestMemory + 8 * at, 1)]]
AgreesWithIsa ==
  [][phase = "guest" =>
       LET before == IsaMachine(space)
       IN  IF guest'.running THEN ~Isa!Traps(before) /\ IsaMachine(space') = Isa!After(before)
           ELSE Isa!Traps(before) /\ GuestView(space') = GuestView(space)]_machineVars

(* An operation of the channel that is refused leaves everything but its   *)
(* own answer as it was; a write that broke off may have written a part,   *)
(* and never all.                                                          *)
RefusedLeaves ==
  [][phase = "channel" /\ Flag(space', "ch_err") =>
       /\ LET answer == [ch_done |-> 0, ch_err |-> 0, ch_req |-> 0, ch_c |-> 0]
          IN  WithFields(space', answer) = WithFields(space, answer)
       /\ UNCHANGED <<guest, traceVars, fed, armed>>
       /\ printed' = printed \/ (Asked(5) /\ printed' < printed + B)]_machineVars

(* The layer that boots has after one tick, as its header says, loaded the *)
(* layer its first slot points to.                                         *)
BootLoads ==
  plan.boot >= 0 /\ ticks = 1 /\ phase = "rest" =>
    \A i \in Cells(0, ProcessorBits) : i \in space <=> plan.boot + i \in space
=============================================================================
