----------------------------- MODULE GuestCalls -----------------------------
(***************************************************************************)
(* The calls newlib makes for a guest (runtime/gcc/syscalls.c): the break  *)
(* of its heap, the three standard streams, which are closed one by one,   *)
(* and its clock, beside the calls that go on to the files.                *)
(***************************************************************************)
EXTENDS GuestFiles

CONSTANTS HalfRange,  \* PTRDIFF_MAX + 1; size_t has twice as many values
          HeapBytes,  \* CS_GCC_HEAP_BYTES
          ClockMax,   \* UINT64_MAX
          Descriptors, OpenModes, Questions, StreamCounts  \* what callers pass

ASSUME CallsAssumption ==
  /\ HalfRange \in Nat \ {0} /\ HeapBytes \in 0 .. (HalfRange - 1)
  /\ ClockMax \in Nat /\ Descriptors \subseteq Int /\ StreamCounts \subseteq Nat

VARIABLES heapUsed,  \* bytes below the break
          standard,  \* the standard streams that are open
          clock,     \* logical_microseconds
          answer     \* the last call: [call, asked, before, value, errno]

callVars == <<heapUsed, standard, clock, answer>>

SizeT == 2 * HalfRange
Increments == -HalfRange .. (HalfRange - 1)

Answers(call, asked, value, errno) ==
  answer' = [call |-> call, asked |-> asked, before |-> heapUsed,
             value |-> value, errno |-> errno]

Gives(call, value) == Answers(call, 0, value, "none")
Denies(call, errno) == Answers(call, 0, -1, errno)

CallInit == /\ heapUsed = 0 /\ standard = 0 .. 2 /\ clock = 0
            /\ answer = [call |-> "none", asked |-> 0, before |-> 0, value |-> 0,
                         errno |-> "none"]

-----------------------------------------------------------------------------
Rises(increment) == increment % SizeT > (HeapBytes - heapUsed) % SizeT

(* -(increment + 1) is there for every ptrdiff_t.                          *)
Decrease(increment) == (((-(increment + 1)) % SizeT) + 1) % SizeT

(* Mutant: the new break is asked whether it is below the heap's start.    *)
FallsBelow(increment) == (heapUsed - Decrease(increment)) % SizeT < 0

Falls(increment) == Decrease(increment) > heapUsed

Moved(increment) == IF increment >= 0
                    THEN (heapUsed + (increment % SizeT)) % SizeT
                    ELSE (heapUsed - Decrease(increment)) % SizeT

(* _sbrk                                                                   *)
Sbrk(increment) ==
  /\ IF IF increment >= 0 THEN Rises(increment) ELSE Falls(increment)
     THEN Answers("sbrk", increment, -1, "ENOMEM") /\ UNCHANGED heapUsed
     ELSE /\ Answers("sbrk", increment, heapUsed, "none")
          /\ heapUsed' = Moved(increment)
  /\ UNCHANGED <<standard, clock>>

ValidStream(fd) == fd \in standard

(* _read and _write of a standard stream; what the input gives, and        *)
(* whether the capture of the output has room and memory, is left open.    *)
Transfers(call, fd, fds, count, outcomes, errors) ==
  /\ IF ~(fd \in fds /\ ValidStream(fd)) THEN Denies(call, "EBADF")
     ELSE IF count > SizeMax THEN Denies(call, "EINVAL")
     ELSE \/ \E value \in outcomes : Gives(call, value)
          \/ \E errno \in errors : Denies(call, errno)
  /\ UNCHANGED <<heapUsed, standard, clock>>

StandardRead(fd, count) == Transfers("read", fd, {0}, count, 0 .. count, {"EIO"})
StandardWrite(fd, count) ==
  Transfers("write", fd, {1, 2}, count, {count}, {"EFBIG", "ENOMEM"})

CloseStandard(fd) ==
  /\ IF ValidStream(fd) THEN standard' = standard \ {fd} /\ Gives("close", 0)
     ELSE UNCHANGED standard /\ Denies("close", "EBADF")
  /\ UNCHANGED <<heapUsed, clock>>

(* _fstat, _isatty and _lseek of a standard stream; _isatty says no.       *)
AskStream(fd) ==
  /\ \/ IF ValidStream(fd) THEN Gives("fstat", 0) ELSE Denies("fstat", "EBADF")
     \/ Answers("isatty", 0, 0, IF ValidStream(fd) THEN "ENOTTY" ELSE "EBADF")
     \/ Denies("lseek", IF ValidStream(fd) THEN "ESPIPE" ELSE "EBADF")
  /\ UNCHANGED <<heapUsed, standard, clock>>

StandardCall(fd) ==
  \/ CloseStandard(fd) \/ AskStream(fd)
  \/ \E count \in StreamCounts : StandardRead(fd, count) \/ StandardWrite(fd, count)

-----------------------------------------------------------------------------
(* sysconf, of which only the free pages change; a page has Page bytes.    *)
Page == 4
Sysconf(name) ==
  /\ CASE name = "avphys" -> Gives("sysconf", (HeapBytes - heapUsed) \div Page)
       [] name = "constant" -> Gives("sysconf", 1)
       [] OTHER -> Denies("sysconf", "EINVAL")
  /\ UNCHANGED <<heapUsed, standard, clock>>

(* _gettimeofday: a clock of calls, which ends rather than begin again.    *)
Gettimeofday(there, zone) ==
  /\ IF ~there THEN Denies("time", "EFAULT") /\ UNCHANGED clock
     ELSE IF zone THEN Denies("time", "EINVAL") /\ UNCHANGED clock
     ELSE IF clock = ClockMax THEN Denies("time", "EOVERFLOW") /\ UNCHANGED clock
     ELSE Gives("time", clock) /\ clock' = clock + 1
  /\ UNCHANGED <<heapUsed, standard>>

ProcessCall == \/ \E increment \in Increments : Sbrk(increment)
               \/ \E fd \in Descriptors \ Fds : StandardCall(fd)
               \/ \E name \in Questions : Sysconf(name)
               \/ \E there, zone \in BOOLEAN : Gettimeofday(there, zone)

-----------------------------------------------------------------------------
(* _open: the flags of fcntl as those of files.h.                          *)
Mode(flags) == IF {"wronly", "rdwr"} \subseteq flags THEN {}
               ELSE IF "wronly" \in flags THEN {"write"}
               ELSE IF "rdwr" \in flags THEN {"read", "write"} ELSE {"read"}

FileFlags(flags) == Mode(flags) \cup (flags \cap {"create", "excl", "trunc", "append"})

(* What _open asks of the files is among what programs ask of them.        *)
ASSUME ModesAssumption ==
  \A flags \in OpenModes :
    "other" \in flags \/ Mode(flags) = {} \/ FileFlags(flags) \in FlagSets

SysOpen(raw, flags) ==
  IF "other" \in flags \/ Mode(flags) = {} THEN Refused("EINVAL")
  ELSE Open(raw, FileFlags(flags))

(* access looks at two of the bits of its mode and knows a third.          *)
SysAccess(raw, mode) ==
  IF "other" \in mode THEN Refused("EINVAL")
  ELSE Access(raw, "write" \in mode, "execute" \in mode)

PathCall == \E raw \in RawPaths, flags \in OpenModes : SysOpen(raw, flags) \/ SysAccess(raw, flags)

(* The files and the process of one guest.                                 *)
CallsNext == \/ (Next \/ PathCall) /\ UNCHANGED callVars
             \/ ProcessCall /\ UNCHANGED fileVars

CallsSpec == Init /\ CallInit /\ [][CallsNext]_<<fileVars, callVars>>

-----------------------------------------------------------------------------
(* However a program raises and lowers its break, and whatever its words   *)
(* can hold, a request is granted exactly if the sum, taken in the         *)
(* integers, lies in the heap; the break is then that sum, the old break   *)
(* is what the program gets, and after a refusal it is where it was.       *)
BreakExact ==
  LET sum == answer.before + answer.asked
  IN  IF answer.call = "sbrk" /\ sum \in 0 .. HeapBytes
      THEN heapUsed = sum /\ answer.value = answer.before
      ELSE heapUsed = answer.before /\ (answer.call = "sbrk" => answer.value = -1)
=============================================================================
