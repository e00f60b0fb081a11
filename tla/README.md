# Copy Space: a TLA+ development

Copy Space (`src/`) is a machine that can do one thing: copy bits. Its memory is
a bit string, the *space*; the beginning of the space, PROCESSOR, holds
`PROCESSOR_N` instructions (n, dst, src), each of which copies n bits. A tick
carries out all of them in order, the second and third being the input and the
output channel. Programs modify themselves by copying over PROCESSOR. On top of
this machine the repository builds RV32I processors, a C compiler, a Forth and a
port of GCC: its guest programs get their files and arguments in packets, and its
*copy target* links assembler text into layers of copy instructions. Beside it
stands the former implementation, the legacy machine, with registers, devices
and an RV32I guest of its own.

The modules here model the machine and its start image, the GCC runtime (files,
directories, system calls, jobs, options, answers), the emitter and the linker of
the copy target, the preprocessor of the C compiler, and the legacy machine.
Paths below are relative to `src/`; `copy_link.c` and its like are in
`runtime/gcc/`, `preprocess_*.h` in `runtime/copy_c/`, `legacy/` is
`legacy/src/vm/`.

## Inventory

| component | state | operations | talks to | what is hard |
|---|---|---|---|---|
| bit copy `src/bitcopy.c` | none beyond a call: pointers, counters, the memory | `bitcpy` with eight paths | called by every copy of the machine | overlap in both directions, masks of partial bytes, unsigned counters, reading one byte ahead |
| space machine `src/space.c`, `space_run.c` | the space, the tick being run, both channels | `space_init`, `space_step`, `space_run`, `space_active` | `bitcpy`; standard input and output | code that changes itself inside a tick, input that comes late, statuses written into the running program, limits |
| instruction fields `src/space.c:40-66` | none | `get_argument` | fetch of every instruction | a word packed of four bytes, a fifth byte, the end of the space |
| core start image `src/core.c`, `core.h` | an image inside the space | `core_init`, then ticks of the machine | runs on the machine; input records | partial and failed reads, layout without overlap, restarting |
| guest files `files.c` | table of objects, of descriptors, of directory numbers, count of open directories | 15 calls `cs_gcc_fs_*` | job (mount), directories, response (output) | unlinked but open files, slots used again, gaps, input files that may not change, tables at their limit |
| guest directories `directories.c` | path and cursor of each stream | `opendir` … `seekdir` | guest files | files come and go between two `readdir` |
| guest job `job.c` | the packet read so far, arguments | `cs_gcc_job_read`, `_decode`, `_release` | reads the machine's input, mounts guest files | delivery in parts, damaged packets, replacing files as a whole |
| guest response `response.c`, `main.c` | captured streams, output file, options | `__wrap_main`, `cs_gcc_capture_write`, `cs_gcc_finish`, `cs_gcc_response`, `_decode` | job, guest files, the machine's output, the host | an answer that breaks off, two streams with one limit, failures while finishing, options in every order |
| system calls `syscalls.c` | heap break, mask of standard streams, clock | newlib's `_sbrk`, `_read`, `_close` … | guest files, response | sums at the limits of `ptrdiff_t` and the heap; which call reaches what |
| copy emitter `copy_emit.c` | an image: layers, the slot reached | `cs_copy_program_init`, `_emit`, `_add32` …, `_finish` | called by the linker; its image runs on the machine | rows that rewrite later rows of the running layer, layers that fill up, operands inside the code |
| copy linker `copy_link.c` | labels, aliases, jumps, sections, fragments, units, names | `cs_copy_link_program`, `_objects`, `_archives_alloc` | emitter; called by `lower_copy` | loops made of rewritten rows, signs and flags kept across an instruction, aliases in circles, staged data, strength of names, closure of archives |
| copy_c compiler `preprocess_*.h`, `input_files.h` | macros, waiting tokens, groups, open files, roots | `cc_preprocess_macros`, `cc_pp_directive`, `cc_pp_rescan`, `cc_pp_eval` … | bundles that a host packs | calls that span lines, directives and files; painting; conditions cut by includes |
| legacy system `legacy/` | space, registers, guest, trace, watchdog | `vm_init`, `vm_tick`, `vm_run`, `rv32_guest_step`, `bitcpy`, `vm_build_boot_loader_layer` | a host that sets registers; standard input and output | operations refused half-way, a watchdog armed twice, self-patching boot layer, RV32I semantics |
| RV32I `modules/*.py` | images | generators, loader, bulk schedule | run on the machine | order inside a layer, loading over oneself |
| emulator command, assembler, trace | symbol table | text to image | — | parsing |
| runtimes, targets, scripts, third party, docs | — | — | — | not part of the running system |

`PROJECT.json` lists for each component the files, modules and status, and under
`hazards` the places at which the code could go wrong in a way a test hardly
reaches, with the properties that watch them.

## Modules

    SnapshotCopy  <--implements--  BitCopy       FieldRead     (MCBits)
                                                 BitsProofs
    SpaceTick     <--implements--  SpaceRun      SpaceRunProofs
                                   SpaceRun EXTENDS SpaceBits;  CoreBoot EXTENDS SpaceRun
    FileTree      <--implements--  GuestFiles    GuestDirs, GuestCalls EXTEND GuestFiles
                                                 GuestFilesProofs
                                   GuestMain EXTENDS GuestJob, GuestResponse
                                                 GuestMainProofs
    LayerMachine  <--implements--  CopyEmit EXTENDS SpaceBits
                                   CodeRun EXTENDS CopyEmit
                                   LinkProgram      LinkProgramProofs
                                   SectionLayout    SectionLayoutProofs
    UnitClosure   <--implements--  ObjectBind     ObjectBindProofs
                                   Preprocess EXTENDS MacroExpand EXTENDS ConditionValue
                                   PreprocessStandard EXTENDS Preprocess
    Rv32i         <--is obeyed by- LegacyMachine EXTENDS LegacyGuest
                                   LegacyCopy;   Words is what Rv32i and LegacyGuest share

`MC*` modules give the constants their values and compose the models that one
run takes together; an operator that a mutant of `PROJECT.json` substitutes is
marked `Mutant` and stands before the definition it changes.

### The machine

**BitCopy** is one call of `bitcpy`. A pointer is a byte and the place of a bit
in it; `mem` gives every bit of two arrays an identity, so that a bit that is
lost, doubled or moved one place is seen. One action is one iteration of a loop
or one block that ends in a return: `Head`, `Move`, `Tail` for
equally aligned ranges, `Shift`, `ShiftTail` for others, `Forward` and `Backward`
for the bitwise loop. **SnapshotCopy** is what the caller wants: in one step
the destination becomes what the source was.

**SpaceBits** holds the layout of a space (`space.h`), reading and writing its
fields, copies, ranges, and statuses; a space is the set of the positions that
hold 1. **SpaceRun** is the machine: `Load`, `Call` of `space_run` with or
without limit, `StartTick`, then one action per slot: `Fetch` reads an
instruction from the space as it is *now*, `InChannel` and `OutChannel` transfer,
`Copy` or `Fault` or `Nothing` finish a slot, `EndTick` counts, `Return` reports.
`Arrive` is the sender of the input, at any moment. **SpaceTick** is the
abstract space: a step is a whole tick. Copies are the abstract ones, which is
what the theorems on `BitCopy` allow; fields are read as values, which is what
those on `FieldRead` allow.

**FieldRead** is `get_argument` on bytes: the packed word, the reversal of its
bits with masks and shifts, the fifth byte, and the bitwise path near the end. A
word is the set of its bits that are 1.

**CoreBoot** computes the image of `core_init` from the macros of `core.h` and
lets `SpaceRun` execute it. It adds no action to the machine except that input
arrives in parts.

### The GCC runtime

**GuestFiles** has one action per `cs_gcc_fs_*` call; each action holds all
outcomes of the call in the order of the code's checks, and an allocation may
fail whenever the code makes one. `Grown` fills new memory with `Junk`, so that
a byte the code forgot to clear is visible. **FileTree** is the promise: names,
contents, positions; no slots, reference counts or buffers. The refinement maps
`tree` to the slot a name is found in and `content` to the first `size` cells.
**GuestDirs** adds `opendir` … `seekdir`; `scan` is a history variable that
records what a stream returned and what stayed unchanged meanwhile.
**GuestCalls** is `syscalls.c`: the break and the clock, the mask of the standard
streams, and which call goes on to the files, with sums in words that tell
2 `HalfRange` values apart: `ptrdiff_t` reaches from -`HalfRange` to `HalfRange` - 1. Whether a transfer through a stream succeeds is left
open there; `GuestResponse` models the capture.

**GuestJob** splits `cs_gcc_job_read` at every call of the reader: its header,
each argument's length and each argument, and the decoding run when the cells
they wait for have come; `Deliver` gives any part of them, `Break` is a reader
that fails. `DecodeOwned` is `cs_gcc_job_decode` on a packet the caller has.
**GuestResponse** is the program's output until it exits, `cs_gcc_finish`, the
sending loop (whose parts never cross the end of one of the four blocks) and the
host's decoder. **GuestMain** composes both into `__wrap_main`: the job is read,
`--space-…` options are taken from the front of the arguments, one action each, with
their tables' limits and their refusals, the program runs with the arguments that
are left, and the answer is given. In all three, the magic and each 32-bit word are
one cell; the byte order within a word, in which nothing can be interleaved or cut
by these functions with another result than a short read, is abstracted.

### The copy target

**CopyEmit** translates `copy_emit.c`: a program is its layers' rows, the constants
of the image, and the layer and slot reached; each operator is one function with
its checks, in order, and sets `ok` to FALSE where the code returns an error.
Its last part lets a caller build any program of a few calls, puts its image
into a space and runs it row by row. **LayerMachine** is the promise: blocks of
operations on words, one block per step. The refinement maps the space to the
words' values at the end of each layer.

**CodeRun** is the code that `copy_link.c` generates for each instruction
(`compare32`, `multiply32`, `divide32`, `shift32`, `memory_access`, `stack` …), as
sequences of emitter calls at the code's own addresses. Its second part runs that code on
decoded layers, from every input, against `Meaning`, which says in integers what an
instruction is for. A word has `WordBits` bits and a byte a quarter of them, so that all
values can be tried.

**LinkProgram** is `link_image` in program mode: labels, aliases, weak names, jumps,
branches and the comparison each must stand behind (`compared`, which a label outside
`Locals` resets), calls and returns, the capacities for calls and jumps, the patching of
jumps when the text has ended; it then runs the layers beside the text they were made of. **SectionLayout** is the data: staging,
sections and their stack, fragments, bases, relocations, and the packing that borrows
the stack's half. **ObjectBind** is separate linking: scanning of units, the winner of
each name, the two passes (measuring and writing) that rewrite the units into one text,
commons, weak imports; and then the image linker's own binding of that text, so that
what is checked is where a name finally leads. Its archive part adds the members of
archives, pass after pass; **UnitClosure** is the promise: units are added for a strong
use that nothing defines, in any order, until there is none.

### The preprocessor

**ConditionValue** is the evaluation of `#if` by precedence climbing: values of
`Width` bits, signed or unsigned, operands that are read but not evaluated.
**MacroExpand** holds the macros: definitions, arguments as they are viewed, `#`, `##`,
`__VA_OPT__`, hiding, rescanning, and queries like `__has_include`. **Preprocess** is the
reader: a line at a time from a bundle of files, tokens that wait in a list until a
directive or the end of a file, groups, includes, `#pragma once`. **PreprocessStandard** is
an independent statement of what C demands, written on nested groups and a stack of open
replacements with painted names; nothing in it waits or is flushed. It reuses from the model
what is the same in both: reading a definition, `#`, `##`, arguments' views, and the search of
a file.

### The legacy machine

**LegacyGuest** is its layout, its registers and one `rv32_guest_step`,
**LegacyMachine** `vm_tick` in its order (output, input, loader, channel, watchdog, guest,
slots), each stage an action, with every operation of the channel and a host (`Ask`, external)
that sets registers between ticks. A write that the stream takes in part is refused although some of it
is printed (`space.c:408-412`), which `RefusedLeaves` allows for and bounds. **Rv32i** states the base instruction set from its formats,
with another decoding than the code's; `AgreesWithIsa` compares every step. Neither side traps a
jump to a misaligned address. Copies between slots are the promised ones, for `BootLoads` too;
**LegacyCopy** models `bitcpy.c` itself, a bit being the set of source bits it is the *or* of, and
shows that it makes other copies (`legacy_copy`).

## Runs

Models that share no state stand in one run where this asks for no more than either alone;
the `MC` module's comment says how they are put together, and no property looks across.

| run | question | instance | states |
|---|---|---|---|
| `bits` | Does `bitcpy` copy exactly the range, also where it overlaps itself, and does `get_argument` read exactly the field, neither touching a byte of no concern? | every call on two arrays of 3 bytes; every field of 1 to 31 bits in 7 bytes | 309629 |
| `space_run` | Does the loop do whole ticks, with true statuses and reasons, while programs rewrite themselves and input arrives at any time? | 16 bytes, 4 slots, limits 0 to 2 and none | 85640 |
| `core_boot` | Does the start image load records on the machine itself and end? | 2^18 bits, 4 slots, two records in parts | 10032 |
| `guest_files` | Are the file calls a tree of names and contents, whatever allocation fails, and is the break exact? | 2 slots, 2 descriptors, sizes to 2; 5-bit sizes, 13 bytes of heap | 100071 |
| `guest_dirs` | Does a directory scan return what stays, once, while files come and go? | 3 slots, 1 stream | 92638 |
| `guest_main` | Does a guest read its packets, run what its options ask for and answer with one whole response; does the legacy guest obey RV32I and its host's budget? | packets to 14 cells, capture of 3; programs of every format, hosts of three requests | 246374 |
| `link_code` | Does generated code compute what instructions mean, do jumps and calls lead where the text says, do rows do what blocks mean? | 4-bit words, 8 bytes of memory, texts of 5 statements, 3 emitter calls | 406467 |
| `link_units` | Do names lead to what defines them, is no legal set of units refused, does data lie where pointers point? | 3 units of 18, members of archives, 5 directives | 362043 |
| `preprocess` | Is the output, and each condition's value, what the standard says? | bundles of few tokens, 5-bit words | 297393 |
| `subdir_twice` | *violation*: is a subdirectory returned once? | 2 slots | to the first, 2839 |
| `dir_taken` | *violation*: does a directory keep its name? | 3 directories, a table of 2 | to the first, 20 |
| `legacy_copy` | *violation*: does the legacy `bitcpy` copy the bits asked for? | 40 bytes, 16 starts, 5 lengths | to the first, 5440 |

Why the bounds are enough:

* `bits`: with three bytes there is a partial byte at both ends and a whole
  one between them, so that each path runs and overlaps in both directions, one
  iteration being more than the last. Seven bytes of a space have positions with and without
  four bytes behind them, and every offset with both; what is done to a word is done to each
  of its bits, so an image with a single 1 reveals any bit that is lost or moved. The
  theorems hold for every size and content.
* `space_run`: four slots are the least the code accepts; the
  images are chosen so that each instruction writes each other kind of slot, the
  one running included, and 2 ticks let the effect show; one has an idle channel at an
  address that is no byte's. `MaxTicks` stands for
  `UINT64_MAX`, where the code stops counting, so that runs without limit pass it;
  `OutputSize` is what the output takes before it fails.
* `core_boot`: `core_configuration_valid` needs 2^18 bits here. The first record
  is a program that uses the copy of the core to load the second; `Waiting` lets
  input stand just before and at the end of each record.
* `guest_files`: two slots suffice for a name that is unlinked, its slot still
  open, and the same name in another slot. Size 2 (`SizeMax`, for `INT_MAX`)
  makes seeking past the end, gaps, and both overflows happen. `HalfRange` 16 gives
  `size_t` 5 bits and the heap 13 of the 32 addresses they reach, so that every increment, negative and wrapping
  ones included, is asked for.
* `guest_dirs`: three slots let a directory have two files and leave gaps, in
  each order of slots. Successful mounts and contents, covered by `guest_files`, are left
  out of this run.
* `guest_main`: `JobMax` is just below the longest packet that can be written, so
  that the limit is met in the middle of a packet; packets are damaged in eleven ways. Two
  texts fit the capture, a third does not, and neither does a message. Every option comes
  once good and once bad, alone and twice, with tables of one entry. The legacy part has one
  program per format and per trap, with the operands at which signs and carries matter; a
  host that, with a counting guest, asks for every operation with good and bad arguments
  in each order of three; layers that leave the space or halt; devices with good and bad
  requests. 1100 bytes put 76 bytes of guest memory behind its fixed place, `ProcessorN` 3 is the
  least the boot layer can have, and `TraceCapacity` 12 is passed by a run of 18 ticks.
  `CHECK_DEADLOCK FALSE`: guests exit.
* `link_code`: words of four bits reach every sign, overflow and division; eight bytes of
  memory leave addresses past it; layers of 32 rows put a layer's end into every longer
  instruction, and `Starts` moves it. Texts of five statements over three labels, one of them local, and layers that
  two statements fill hold every pair of jump, call, alias and label in either order, and a comparison and a branch with
  a label of either sort between them. `CallRoom` 2 is passed by three calls; `JumpRoom` 10 is passed when the text has ended,
  by the jumps of the handlers (while it is read five statements cannot fill it before the calls run out; the theorem has
  that case). Three
  calls of the emitter fill one layer and begin the next. `CHECK_DEADLOCK FALSE`: runs end.
* `link_units`: up to three units out of eighteen that hold each strength and each mistake, in every
  order; up to three archive members out of eight, and four that need each other in a chain; `Capacity`
  10 is filled by five directives. `CHECK_DEADLOCK FALSE`: links end.
* `preprocess`: bundles of a few kinds, each over few tokens but every arrangement of them: definitions that
  may be refused; macros that name each other with a directive inside or between their calls; strings of what a call
  comes to, so that its white space is spelt; nested groups; files that
  include files; conditions of up to four operators. Words of 5 bits (4 for `int`, 3 for a byte)
  wrap and sign-extend. `CHECK_DEADLOCK FALSE`: preprocessing ends.

What the properties mean is said in the modules, before each of them. Every
property of a passing run fails under the mutant `PROJECT.json` names for it,
each a plausible mistake in that code.

**Fairness.** `BitCopy` assumes weak fairness of its only process, a function
that is called and runs. `SpaceRun` and `CoreBoot` assume it of `Machine`, the
steps within a call, because the emulator is a loop that nothing blocks: its
reads return at the end of what has arrived. The caller (`Call`, `Load`) and the
sender of input (`Arrive`) are never assumed to act. `ObjectBind` assumes it of the linker, a
function that runs once it is called (`Ends`). The other modules
state safety only and assume nothing; that generated loops end is the safety property
`EndsInTime`, which bounds their ticks.

## Findings

* `subdir_twice`: `doc/gcc_space.md:96-97` promises that a repeated implicit
  subdirectory is returned once. `cs_gcc_fs_directory_next` finds repetitions by
  looking at the lower slots *as they are now* (`files.c:287`). If the file
  because of which `d` was returned is unlinked before the next `readdir`, and
  another file of `d` lies in a higher slot, `d` is returned again.
* `dir_taken`: `tests/fixtures/gcc/files.c:49` expects `open` of a directory to
  fail with `EISDIR`. `files.c:130` makes the check only if `cs_gcc_fs_stat`
  succeeds, which needs a number for the directory; when the table of numbers is
  full or `malloc` fails, the check is skipped and `open` with `CREATE`
  makes a file of the directory's name.
* `legacy_copy`: `legacy/src/vm/bitcpy.c:1` says "copy bits MSB-first with overlap-safe
  fallback". Between different offsets in a byte the head byte is made with
  `src[0] << (8 - d) | src[1] >> d` also where the source starts earlier in its byte than
  the destination and `src[0] >> d` is needed; and from 64 bits on, words loaded on a
  little-endian host are shifted as if their first byte were the highest.

All three were met while modelling. Everything else that was written down as a
property holds.

While reading, without a run of its own:

* In the shifted loop of `bitcpy`, `src_mod` is never zero, so the
  test `if (src_mod)` before the second half of a byte is always true.
* `##` with an empty left operand loses the white space before it
  (`preprocess_macros.h:441`; `doc/linux_copy.md:1608-1609` speaks of keeping it), and takes that of the right
  operand. A string can spell it: with `f(x,y)` for `a x##y`, `g(z)` for `#z` and `h(z)` for `g(z)`, `h(f(,b))` is `"ab"`
  and not `"a b"`. `PutsOutStandard` compares spellings, strings included, and leaves out the bundles in
  which a string is made after white space was lost in this way (`lost`, `exempt`); `preprocess` has some (`Joining`), and
  with them the property fails if `Loses` is taken from it.
* `isatty` of a descriptor from 3 on answers `EBADF`, also for an open file, where POSIX has `ENOTTY`.
* The operation STATUS of the legacy channel always answers that there was no error:
  accepting a request clears the flag that it then reads.
* The legacy RUN and STEP count the tick in which they are served, so a limit of n lets
  n − 1 instructions run, and STEP of one tick none; `StaysInBudget` is stated accordingly.

## Proofs

All are checked by TLAPS with no step left open, for every value of the constants. They
assume only what the modules assume of these:

* `BytesAssumption`, `MemAssumption`: sizes and initial contents have their type.
* `ConfigAssumption`: what `space_configuration_valid` demands. `RunAssumption`,
  `FieldAssumption`: images lie in their space, fields have 1 to 31 bits.
* `FilesAssumption`: there is a slot, and a descriptor past the standard streams.
  `PathsAssumption`: paths are given by their components, and the names in a packet that is
  valid are normalized and distinct, which is what `cc_files_decode`
  (`runtime/copy_c/input_files.h`) accepts.
* `CallsAssumption`: the heap is less than half of what a word can tell, as every object of C is. `ModesAssumption`:
  what `_open` asks of the files is among what programs ask of them.
* `JobAssumption`, `ResponseAssumption`: cells are numbers and limits are natural. `SenderAssumption`:
  what jobs a sender may mean, which are those within the limits of `cs_gcc_job_decode`, with
  a first argument that is not empty and no NUL in any.
* `ObjectAssumption`, `ArchiveAssumption`: there are finitely many names; units and members are sequences of
  statements, an alias names a target; at least one unit is given and at most
  `MaxObjects`, as `copy_link.c:1662` and `1825` demand before anything else.
* `TextAssumption`: what the statements of a text are; the handlers' labels have no name that a text could
  use (`internal_label`), a layer has room for a branch, and the tables of calls and jumps have room for one.
* `MainAssumption`: the empty text is no option, as every `strncmp` of `main.c:136-172`
  compares a prefix that is not empty.

None bounds a table, a limit, a packet or the number of steps.

* **BitsProofs** — of `BitCopy`, for arrays of any length and every call within them.
  `TypeCorrect` (counters never go below zero, pointers stay in their array),
  `InBounds`, `Snapshots`, `NeverStrays`, and `Implements`: every behaviour is one
  of `SnapshotCopy`. The property wanted says what memory is at the end; the
  inductive invariant says what it is in between, statement by statement: which
  offsets of the destination hold the source's bits (`Filled`), all other bits
  being those before the call. That the source of the next bit is still unfilled
  follows from the direction of the loop, or from the ranges not overlapping,
  which is why the test in `UsesFallback` is written as it is.
  Of `FieldRead`, for every space, position, width up to 31 and
  content. `Reads`: the value is the field; `Inside`: no byte past the space is
  read; `FieldTypeCorrect`. The invariant describes `value` bit by bit: after i
  rounds of the loop, or after packing, reversing and shifting, bit j is the bit
  at + j of the space for j below i, or below 32 minus the offset. The reversal
  is proved once as a lemma about `ReversedBits`: bit b goes to 8 (b ÷ 8) + 7 - b % 8.
* **SpaceRunProofs** — for every layout, program, input and limit. `TypeCorrect`:
  no copy, status or input byte is put outside the space. `TrueReason`: a reason
  that `space_run` reports is not contradicted by the space it leaves. The
  invariant adds what a run knows before it ends (`RunInv`): nothing has gone
  wrong yet, and the ticks it has made are at most its limit, inside a tick
  below it. Most of the work is that channels and copies that pass their range
  checks, and the statuses of those that do not, stay inside.
  `MachineImplementsTicks` is the refinement of `SpaceTick`. Its invariant (`TickInv`)
  says of every point inside a tick how it came about from the space the tick began
  with: what OUT has sent and left (`OutDone`), what IN has taken from there (`InDone`),
  and that computation up to a slot is `After` of the turns before it. The last action of a
  tick then is `Tick`, all others stutter. `InputIsThere` and `StatusesTold` follow from
  the same invariant; the second needs that a number written into a field is read back
  (`ArgumentIs`, by induction over its bits), and that 16 times the bytes sent fits, where
  powers of two are counted as subsets (library fact `FS_SUBSET`).
* **GuestFilesProofs** — `FilesTyped`, `NothingDangles`: reference counts are exact, no name
  has two slots, and an object is there as long as a name or a descriptor is.
  The invariant (`TablesInv`) adds what the counts rest on: a
  free slot is clean, a free descriptor too, and no descriptor that may write stands for an
  input file. With it `InputsAreKept`: while anything is open, input files stay.
  `BreakIsExact`: `_sbrk` grants an increment exactly if the heap has room, however
  the unsigned sums wrap. `NothingDanglesInGuest` says it again of a guest that calls
  through newlib.
  Its second part is about what the tables stand for. `FilesImplementTree`, `GuestImplementsTree`: each of the calls is
  one step of `FileTree` or one that it does not see, with the invariant of the tables as the only thing
  known of the slots. `ScansAreExact` and `KeptFilesSeenOnce` hold for any number of slots and
  streams: a stream at a cursor has returned what is listed in the slots before it, each once (`Exact`), and of
  the files that have been there all along, whatever the others do, exactly those before it (`KeptExact`).
  That `Exact` is claimed only while no name changes is the finding `subdir_twice`.
* **GuestMainProofs** — `AnswersAreWhole`, `CodesAreTold`: what was sent and what is left are together
  the one answer that the end of the program fixed (`SentInv`), and a packet of which a part is missing cannot be
  decoded. `GuestRunsAsAsked`: the options taken are the leading ones of the job, none refused, and
  the tables count them (`OptionsInv`); so a program runs exactly with what `Proper` allows.
  `GuestAnswersWhole` carries the answer over to the composed guest. `JobIsOnePacket`, `GuestTakesOnePacket`:
  while a call gathers cells, the packet is the piece of the stream that it took (`CallInv`), and an accepted
  packet decodes to the same arguments and files by itself (`OwnedInv`). `GoodJobsAreTaken`, `GuestTakesGoodJobs`
  are the converse: the packet of a good job can be decoded (`GoodJobDecodes`), and while the stream holds such
  a packet where a call began, what the call has and what it still wants end together where the packet
  says (`OnTrack`). So no limit is met, and the reader leaves off exactly at the last cell.
* **ObjectBindProofs** — `SelectionIsClosure`: for units, archives and names of any number, the selection of
  members is a behaviour of `UnitClosure`. The invariant (`ClosureInv`) says that `defined` and `wanted`
  are what the units so far define and use, and that a pass which has added nothing has passed over
  no member that is needed; so the pass that ends the selection has seen each spare member against the final units.
  `UsesBindRight`, `ArchivesBindRight`: in a linked text every use reaches the definition its units call for. The
  invariant (`LinkInv`) knows which units were scanned and that the text is a list, in some order and each once
  (`Lists`), of the statements that are left of the units rewritten so far (`Family`); the finished text also
  has the merged commons and the weak imports (`Whole`). From it follows who defines a name of the
  text (`MakersAre`): its own unit, the winner (`PublicIsWinner`) or a merged common; and that the image linker's passes over
  the aliases never move what is placed (`Kept`). That the text has each statement at most once is
  what `NeverSpuriouslyRefused` and `ArchivesNeverSpurious` need: two definitions of a name come
  from one unit, which has only one (`DefinedOnce`), and each use has a definition, or is weak (`UseHas`), and is
  placed by the first pass over the aliases (`TargetPlaced`).
* **SectionLayoutProofs** — `DataIsPlaced`: for every text, any number of sections and any memory, the image has
  each section of data at an aligned place of its own, whole, in order, with its pointers resolved. The invariant
  (`LayoutInv`) follows the data through the staging area: while the text is read, each cell of a section lies in one
  of its fragments and the area holds it there (`Staged`), and the pointers still to be resolved are those listed
  (`Listed`); `layout_data` gives the sections places one after the other (`Based`); after relocation the area holds
  the resolved cells (`Resolved`); and no two fragments are moved to one place (`Meet`). `pack_data` gathers them in
  the other half of the memory, so that what is still to be moved is not touched.
* **LinkProgramProofs** — `ProgramInStep`: for every text, any names and aliases, any depth of calls, layers of any
  room and any capacity for calls and jumps, the layers do what the text does, event by event. The invariant (`LinkInv`)
  has a part for each phase. While the text is read (`Built`), every statement has a point of the
  layers at which it was begun and, if it does something, a place where its rows stand; from a point one comes
  to the rows of the next statement that does something, at once or over one layer that only leads on (`Onto`). The labels and
  aliases are those of the text, each given once (`Named`). The passes over the aliases
  give each name what it stands for in the end (`KnownIs`, by induction over the passes), so that every jump of the image leads where its name does (`Image`, `FinishKeeps`). A run is then at
  the start, at or before the rows of what the text does next, in the middle of a call, or in one of the handlers'
  layers (`Where`), and each frame is the layer at which the text goes on after that call (`Framed`). One lemma for each of these
  places shows both that the event is the text's and where the step leads.
  `ProgramRefuses`: a text without a meaning is refused, and no other that the tables which are not modelled have
  room for. While it is read, the linker has taken down
  just what decides that (`Counts`: each name by its kind, how many calls and jumps there are and where they lead, whether the next
  operation is reached and a comparison precedes it); every statement is answered by those tables (`StatementAnswers`), and is refused
  exactly when it spoils the text (`WellMore`). When the text has ended, a name is resolved if and only if what it stands for is known
  (`ResolvedIs`): each pass resolves one more alias or none is left that can be, so as many passes as there are aliases
  are enough (`Settles`), and a circle is never resolved.

Four of these proofs corrected the model. The first draft of `SpaceTick` could not make a tick in which a
channel without work stands at an address that is no byte's, though `channel()` returns
before it looks at it: the step that had to be proved was false. And the invariant of
`GuestFiles` asked which names a packet may hold, which `PathsAssumption` now states.
In `ObjectBind`, the cases of `Priority` overlapped for a name that a unit defines both strongly and as a common, where
`object_winner` takes the first. And `NeverSpurious` was false as it stood: an entry that is an alias
of a missing weak name is refused (`copy_link.c:1245`), so `Harmless` now asks that the entry is code.
`MCLinkUnits` has such a unit since.

Only model-checked: liveness (`LimitedRunsEnd`, `BootEnds`, `Ends`, and that `bitcpy`
returns), since TLAPS does not reason about fairness here; the refinement of
`LayerMachine`; `RecordsStart`, whose image is data; what rows compute (`CodeRun`);
the legacy machine; and everything about the preprocessor, whose modules are recursive
and use `Bitwise`, and which is therefore outside the prover's reach. What a recursive
definition computes for every input is proved only where the induction could be put as a statement about a set of
numbers (lemma `Induction`, with the least counterexample): the library's schemes take an
operator as a parameter.

## Not modelled

The reasons stand in `PROJECT.json` beside each component. The RV32I generators make
images of millions of bits; the order that `rv32i_bulk.py` gives to a tick and the checks of
`rv32i_stream.py` are worth stating and are first in the plan. The compiler proper is a Forth program. Headers,
scripts and vendored code are not the running system.

Within modelled components:

* Files: null pointers (`EFAULT`), byte lengths of names and paths
  (`ENAMETOOLONG` is modelled by a number of components, `ERANGE` of `readdir` not
  at all), the decoder of the input files' blob in `GuestFiles` (accepted or not).
* System calls: `getcwd`, `getpid`, `kill` and the C++ hooks keep no state and are left out.
* Jobs: `lower_copy` ends with an image or a message; what it calls is `ObjectBind` and `LinkProgram`.
* Linker: the spelling of operands, strings and numbers, numeric labels, and the parsing of archives'
  headers; a unit is a sequence of statements. Of the capacities of `link_image`, those for calls
  (`CS_COPY_CALL_CAPACITY`) and jumps (`CS_COPY_JUMP_CAPACITY`) are in `LinkProgram` and that of the memory in
  `SectionLayout`; a full table of labels (`CS_COPY_LABEL_CAPACITY`, `copy_link.c:128`, `152`, which also holds
  names that are only used and the linker's own; the table of aliases, `502`, never fills first), of sections, relocations, symbols or
  constants, and an image without room for another layer also refuse a text, and no module has them. An operation of
  `LinkProgram` is one without jumps of its own; those of loads, stores, products and quotients, which take room in the same
  table of jumps, are in `CodeRun`.
  Nor has `ObjectBind` the capacity of its table of names (`copy_link.c:1355`), the length of a name (`1352`)
  and of one that a unit's number is put before (`1485`). `CodeRun`, `LinkProgram` and `SectionLayout` are three
  views of one function: what rows compute, where control goes, and where data lies. They meet in the
  statements' order, which each follows, but no run executes all three at once.
* Preprocessor: source that is no bundle, the splicing of lines, `integer64_fold.h`, the sizes of the
  tables, the spelling of header names, and the two functions that only tests call. Calls whose arguments
  leave the replacement they began in are left out of the comparison (`exempt`): the standard leaves open what is hidden there.
  So are strings of white space that `##` lost (see Findings).
* Legacy: failures of `stdin` itself (`ferror`), the checks of `invariants.c` and the hooks, both for debugging;
  that a layer reaches over the guest's fixed place, which `vm_init` does not ask and `SpaceAssumption`
  excludes; image makers, proof tools and the Forth around it.

## Plan

Done: bit copy, machine, fields (with proofs); start image; files, directories, system calls;
job, options, response and their composition; emitter; linker (code, control, data, units,
archives); preprocessor; legacy machine, guest and copy.

To come, most important first:

1. `BulkSchedule` — `modules/rv32i_bulk.py`: the levels `_level` assigns to the
   copies of a block; running layer by layer must equal running in order.
2. `StreamLoader` — `modules/rv32i_stream.py`: a program that is cut short, or whose header is
   wrong, is never entered; on the machine of `SpaceRun`. What it loads never meets what it runs in.
3. Code, control and data of one small text linked and run together.
4. `assembler.c`, if symbols and addresses show anything worth stating.

`StaysInBudget` of `LegacyMachine` is no theorem: layers and the host may write
the registers of the watchdog, and it holds of the programs that the run takes.
