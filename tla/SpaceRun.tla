------------------------------- MODULE SpaceRun -------------------------------
(***************************************************************************)
(* The space machine: space_init, space_step and the loop of space_run     *)
(* (src/space.c, src/space_run.c), with the two FILE streams it serves.    *)
(* A step is one channel, one instruction, or one test of the loop.  The   *)
(* environment decides how much a stream delivers or accepts, when it      *)
(* fails and when more input arrives.                                      *)
(***************************************************************************)
EXTENDS SpaceBits

CONSTANTS Files,      \* images a caller may load: records [bytes, ones]
          Input,      \* the bytes the input stream will ever hold
          OutputSize, \* how many bytes the output device accepts
          Limits,     \* tick limits a caller may pass
          NoLimit,    \* no limit
          MaxTicks    \* the largest tick count (UINT64_MAX)

ASSUME RunAssumption ==
  /\ Files \subseteq [bytes : Nat, ones : SUBSET Positions]
  /\ Input \in Seq(Byte)
  /\ OutputSize \in Nat /\ MaxTicks \in Nat
  /\ Limits \subseteq 0 .. MaxTicks /\ NoLimit \notin Limits

VARIABLES space,      \* the positions of the space that hold 1
          processor,  \* the decoded instructions, kept between ticks
          pc,         \* "ready", "loop", "out", "in", "compute", "return"
          slot,       \* the instruction computation has come to
          ticks,      \* result.ticks
          limit,      \* *limit, or NoLimit
          reason,     \* result.reason
          arrived,    \* how many bytes the input stream holds by now
          taken,      \* how many of them have been read
          output,     \* the bytes written
          before      \* the space and the streams when the tick began

machine == <<space, processor, pc, slot, ticks, limit, reason>>
streams == <<arrived, taken, output>>
vars == <<space, processor, pc, slot, ticks, limit, reason,
          arrived, taken, output, before>>

(* space_read_processor: every instruction is decoded into the array, whose *)
(* elements hold numbers.                                                  *)
ReadRows == [i \in Slots |-> Decoded(space, i)]
ReadProcessor == processor' \in {ReadRows} \cap [Slots -> Row]

Now == [space |-> space, taken |-> taken, output |-> output]

Init == /\ space = {}
        /\ processor = [i \in Slots |-> NoRow]
        /\ pc = "ready" /\ slot = 0
        /\ ticks = 0 /\ limit = NoLimit /\ reason = "idle"
        /\ arrived \in 0 .. Len(Input)
        /\ taken = 0 /\ output = <<>>
        /\ before = Now
-----------------------------------------------------------------------------
(* space_init: an image that does not fit is rejected, and a shorter one   *)
(* is followed by zeros.  Loads after a stream has moved are left out: the  *)
(* bound FreshStreams.                                                     *)
FreshStreams == taken = 0 /\ output = <<>>

Load == /\ pc = "ready" /\ FreshStreams
        /\ \E f \in Files :
             space' = IF f.bytes > SpaceBytes THEN space ELSE f.ones
        /\ UNCHANGED <<processor, pc, slot, ticks, limit, reason, streams, before>>

(* A call of space_run goes on with the space as it is.                    *)
Call == /\ pc = "ready"
        /\ \E l \in Limits \cup {NoLimit} : limit' = l
        /\ ticks' = 0
        /\ reason' = "idle"
        /\ pc' = "loop"
        /\ UNCHANGED <<space, processor, slot, streams, before>>

(* Mutant: the limit is reported whatever the processor holds.             *)
AtLimitBlindly ==
  /\ pc = "loop"
  /\ limit # NoLimit /\ ticks = limit
  /\ ReadProcessor
  /\ reason' = "limit"
  /\ pc' = "return"
  /\ UNCHANGED <<space, slot, ticks, limit, streams, before>>

(* The loop has reached its limit: an idle processor takes precedence.     *)
AtLimit == /\ pc = "loop"
           /\ limit # NoLimit /\ ticks = limit
           /\ ReadProcessor
           /\ reason' = IF Active(ReadRows) THEN "limit" ELSE "idle"
           /\ pc' = "return"
           /\ UNCHANGED <<space, slot, ticks, limit, streams, before>>

(* space_step: space_active reads all instructions; channels reads the two *)
(* channel instructions again, before anything has changed them.           *)
StartTick == /\ pc = "loop"
             /\ ~(limit # NoLimit /\ ticks = limit)
             /\ ReadProcessor
             /\ pc' = IF Active(ReadRows) THEN "out" ELSE "return"
             /\ before' = Now
             /\ UNCHANGED <<space, slot, ticks, limit, reason, streams>>

(* channel(out, 2, 1): the status is an error unless all bytes are written. *)
Written(row, k) ==
  /\ output' = output \o BytesAt(space, row.dst, k)
  /\ space' = WithStatus(space, OutSlot, k, 8 * k # row.n)

OutChannel ==
  /\ pc = "out"
  /\ LET row == processor[OutSlot] IN
       \/ row.n = 0 /\ UNCHANGED <<space, output>>
       \/ /\ row.n # 0 /\ ~ChannelRange(row)
          /\ space' = WithStatus(space, OutSlot, 0, TRUE)
          /\ UNCHANGED output
       \/ /\ row.n # 0 /\ ChannelRange(row)
          /\ \E k \in 0 .. (row.n \div 8) :
               /\ Len(output) + k <= OutputSize
               /\ Written(row, k)
  /\ pc' = "in"
  /\ UNCHANGED <<processor, slot, ticks, limit, reason, arrived, taken, before>>

(* Mutant: the status is written before the data arrives.                  *)
ReceivedLate(row, k, failed) ==
  /\ taken' = taken + k
  /\ space' = WithBytes(WithStatus(space, InSlot, k, failed),
                        row.dst, SubSeq(Input, taken + 1, taken + k))

(* channel(in, 1, 0): clearerr lets a stream that was at its end deliver   *)
(* what has arrived since; a short read is the end or an error.            *)
Received(row, k, failed) ==
  /\ taken' = taken + k
  /\ space' = WithStatus(WithBytes(space, row.dst,
                                   SubSeq(Input, taken + 1, taken + k)),
                         InSlot, k, failed)

InChannel ==
  /\ pc = "in"
  /\ LET row == processor[InSlot]
         wanted == row.n \div 8
     IN
       \/ row.n = 0 /\ UNCHANGED <<space, taken>>
       \/ /\ row.n # 0 /\ ~ChannelRange(row)
          /\ space' = WithStatus(space, InSlot, 0, TRUE)
          /\ UNCHANGED taken
       \/ /\ row.n # 0 /\ ChannelRange(row)
          /\ \/ arrived - taken >= wanted /\ Received(row, wanted, FALSE)
             \/ arrived - taken < wanted /\ Received(row, arrived - taken, FALSE)
             \/ \E k \in 0 .. (wanted - 1) :
                  k <= arrived - taken /\ Received(row, k, TRUE)
  /\ pc' = "compute"
  /\ slot' = 0
  /\ UNCHANGED <<processor, ticks, limit, reason, arrived, output, before>>

(* Mutant: an instruction is carried out as it was when the tick began.    *)
FetchStale == /\ pc = "compute" /\ slot < ProcessorN
              /\ slot # InSlot /\ slot # OutSlot
              /\ processor' = processor

(* computation, one instruction at a time, read when its turn comes.       *)
Fetch == /\ pc = "compute" /\ slot < ProcessorN
         /\ slot # InSlot /\ slot # OutSlot
         /\ \E row \in {Decoded(space, slot)} \cap Row :
              processor' = [processor EXCEPT ![slot] = row]

SkipChannel == /\ pc = "compute"
               /\ slot = InSlot \/ slot = OutSlot
               /\ slot' = slot + 1
               /\ UNCHANGED <<space, processor, pc, ticks, limit, reason,
                              streams, before>>

Nothing == /\ Fetch
           /\ processor'[slot].n = 0
           /\ slot' = slot + 1
           /\ UNCHANGED <<space, pc, ticks, limit, reason, streams, before>>

Copy == /\ Fetch
        /\ LET row == processor'[slot]
           IN  /\ row.n # 0 /\ InRange(row)
               /\ space' = Copied(space, row)
        /\ slot' = slot + 1
        /\ UNCHANGED <<pc, ticks, limit, reason, streams, before>>

(* An invalid range ends the run; the copies before it remain.             *)
Fault == /\ Fetch
         /\ processor'[slot].n # 0 /\ ~InRange(processor'[slot])
         /\ reason' = "error"
         /\ pc' = "return"
         /\ before' = Now
         /\ UNCHANGED <<space, slot, ticks, limit, streams>>

(* Mutant: the count stops one short of its largest value.                 *)
EndTickShort ==
  /\ pc = "compute" /\ slot = ProcessorN
  /\ ticks' = IF ticks + 1 # MaxTicks THEN ticks + 1 ELSE ticks
  /\ pc' = "loop"
  /\ before' = Now
  /\ UNCHANGED <<space, processor, slot, limit, reason, streams>>

(* The tick is complete; the count stops at its largest value.             *)
EndTick == /\ pc = "compute" /\ slot = ProcessorN
           /\ ticks' = IF ticks # MaxTicks THEN ticks + 1 ELSE ticks
           /\ pc' = "loop"
           /\ before' = Now
           /\ UNCHANGED <<space, processor, slot, limit, reason, streams>>

(* space_run reads the instructions once more for its caller.              *)
Return == /\ pc = "return"
          /\ ReadProcessor
          /\ pc' = "ready"
          /\ UNCHANGED <<space, slot, ticks, limit, reason, streams, before>>

(* More bytes arrive on the input stream.                                  *)
Arrive == /\ arrived < Len(Input)
          /\ arrived' = arrived + 1
          /\ UNCHANGED <<machine, taken, output, before>>

Machine == \/ AtLimit \/ StartTick \/ OutChannel \/ InChannel
           \/ SkipChannel \/ Nothing \/ Copy \/ Fault \/ EndTick \/ Return

Next == Load \/ Call \/ Machine \/ Arrive

(* The machine is one thread that never waits but for the streams, which   *)
(* always answer; callers and senders need not do anything.                *)
Spec == Init /\ [][Next]_vars /\ WF_vars(Machine)
-----------------------------------------------------------------------------
TypeOK == /\ space \subseteq Positions
          /\ processor \in [Slots -> Row]
          /\ pc \in {"ready", "loop", "out", "in", "compute", "return"}
          /\ slot \in 0 .. ProcessorN
          /\ ticks \in 0 .. MaxTicks
          /\ limit \in Limits \cup {NoLimit}
          /\ reason \in {"idle", "limit", "error"}
          /\ arrived \in 0 .. Len(Input) /\ taken \in 0 .. arrived
          /\ output \in Seq(Byte)
          /\ before \in [space : SUBSET Positions, taken : Nat, output : Seq(Byte)]

InTick == pc \in {"out", "in", "compute"}

(* A tick is atomic: whatever the loops of space.c keep in `processor'     *)
(* between reads, however runs are divided into calls of space_run, and    *)
(* wherever an invalid instruction stops it, the machine does nothing but  *)
(* whole ticks of the space and the streams.                               *)
Ticks == INSTANCE SpaceTick WITH
           space <- IF InTick THEN before.space ELSE space,
           taken <- IF InTick THEN before.taken ELSE taken,
           output <- IF InTick THEN before.output ELSE output,
           Images <- {f.ones : f \in Files}

ImplementsTicks == Ticks!Spec

(* A finished call reports the truth about the space it leaves: idle when  *)
(* no instruction has a length, the limit only when it is reached with     *)
(* something left to do, an error only at an instruction whose range is    *)
(* invalid; and the instructions it hands out are those of the space.      *)
ReasonIsTrue ==
  pc = "return" =>
    /\ reason = "idle" => ~Active(ReadRows)
    /\ reason = "limit" => Active(ReadRows) /\ ticks = limit
    /\ reason = "error" => /\ slot \in Slots \ {InSlot, OutSlot}
                           /\ ReadRows[slot].n # 0
                           /\ ~InRange(ReadRows[slot])
                           /\ limit # NoLimit => ticks < limit

(* The read of this tick lies over the status field of instruction i.      *)
ReadCovers(i) ==
  LET row == processor[InSlot]
  IN  /\ row.n # 0 /\ ChannelRange(row)
      /\ row.dst < SrcAt(i) + AddressSize /\ SrcAt(i) < row.dst + row.n

(* When the instructions of a tick begin, both statuses say exactly what   *)
(* the channels of this tick did: a status never loses its top bits, and   *)
(* data read over PROCESSOR never replaces the status of the read itself.  *)
StatusesArrive ==
  (pc = "compute" /\ slot = 0) =>
    LET input  == processor[InSlot]
        out    == processor[OutSlot]
        told   == Decoded(space, InSlot).src
        got    == 8 * (taken - before.taken)
        put    == 8 * (Len(output) - Len(before.output))
    IN  /\ input.n # 0 => /\ told \div 2 = got
                          /\ got = input.n => told % 2 = 0
                          /\ ~ChannelRange(input) => told % 2 = 1
        /\ out.n # 0 /\ ~ReadCovers(OutSlot) =>
             Decoded(space, OutSlot).src = 2 * put + (IF put = out.n THEN 0 ELSE 1)

(* The bytes a tick took from the input are in the space, in order, before *)
(* any instruction of that tick runs; only the status of the read itself   *)
(* may lie over them.                                                      *)
InputLands ==
  (pc = "compute" /\ slot = 0) =>
    LET at == processor[InSlot].dst
        status == SrcAt(InSlot) .. (SrcAt(InSlot) + AddressSize - 1)
    IN  \A k \in 1 .. (taken - before.taken), b \in 0 .. 7 :
          at + 8 * (k - 1) + b \notin status =>
            (at + 8 * (k - 1) + b \in space <=> b \in Input[before.taken + k])

(* A run with a limit ends, whatever the program does.                     *)
LimitedRunsEnd == (pc = "loop" /\ limit # NoLimit) ~> (pc = "ready")
=============================================================================
