------------------------------ MODULE GuestJob ------------------------------
(***************************************************************************)
(* How a guest receives its job (runtime/gcc/job.c): a packet of arguments *)
(* and input files, read from a stream that delivers it in parts, decoded  *)
(* and mounted.  A packet is a sequence of cells; the eight bytes of magic *)
(* and every 32-bit word take one cell each.                               *)
(***************************************************************************)
EXTENDS Integers, Sequences, SequencesExt

CONSTANTS Magic,      \* the cell that starts a packet
          ArgMax,     \* how many arguments a job may have
          LengthMax,  \* the length of an argument
          JobMax,     \* CS_GCC_JOB_MAX
          Blobs,      \* the input files that cc_files_decode accepts
          Jobs,       \* jobs as a sender means them: [argv, blob]
          Streams,    \* what the input stream may hold
          Packets     \* packets handed to cs_gcc_job_decode itself

ASSUME JobAssumption ==
  /\ Magic \in Nat /\ ArgMax \in Nat /\ LengthMax \in Nat /\ JobMax \in Nat
  /\ Blobs \subseteq Seq(Nat) /\ Streams \subseteq Seq(Nat) /\ Packets \subseteq Seq(Nat)
  /\ Jobs \subseteq [argv : Seq(Seq(Nat)), blob : Blobs]

Nul == 0
HeaderCells == 3
None == <<>>     \* NULL: neither a packet nor an argv is empty

VARIABLES stream,   \* the cells of the input stream
          pos,      \* how many of them have been read
          start,    \* how many had been read when the last call began
          packet,   \* the cells of the call in progress, or of the last one
          stage,    \* what is being read: "idle" when no call runs
          want,     \* the cells that read_exact still needs
          i,        \* arguments read so far
          error,    \* errno of the last call; "none" after a release
          job,      \* argv, or None
          storage,  \* the packet that the caller owns, or None
          mounted,  \* the input files
          busy      \* whether a program holds a file or directory open

caller == <<stream, job, storage, mounted, busy>>
vars == <<stream, pos, start, packet, stage, want, i, error, job, storage, mounted, busy>>

Argc(p) == p[2]
FileCells(p) == p[3]

Init == /\ stream \in Streams /\ pos = 0 /\ start = 0
        /\ packet = <<>> /\ stage = "idle" /\ want = 0 /\ i = 0 /\ error = "none"
        /\ job = None /\ storage = None /\ mounted = <<>> /\ busy = FALSE
-----------------------------------------------------------------------------
Fails(e) == stage' = "idle" /\ error' = e /\ want' = 0

(* append: room for extra cells, which are then read.                      *)
Wants(next, extra) ==
  \/ extra > JobMax - Len(packet) /\ Fails("EFBIG")
  \/ extra \in 1 .. (JobMax - Len(packet)) /\ Fails("ENOMEM")
  \/ /\ extra <= JobMax - Len(packet)
     /\ stage' = next /\ want' = extra
     /\ UNCHANGED error

(* cs_gcc_job_read begins.  A call for a job that is still there is        *)
(* refused; the storage is checked likewise.                               *)
Read == /\ stage = "idle"
        /\ IF job # None \/ storage # None
           THEN Fails("EINVAL") /\ UNCHANGED <<packet, start>>
           ELSE /\ packet' = <<>> /\ start' = pos
                /\ \/ Fails("ENOMEM")
                   \/ stage' = "header" /\ want' = HeaderCells /\ UNCHANGED error
        /\ i' = 0
        /\ UNCHANGED <<pos, caller>>

(* read_exact: the reader delivers some of the cells.                      *)
Deliver == /\ want > 0
           /\ \E k \in 1 .. want :
                /\ pos + k <= Len(stream)
                /\ packet' = packet \o SubSeq(stream, pos + 1, pos + k)
                /\ pos' = pos + k /\ want' = want - k
           /\ UNCHANGED <<start, stage, i, error, caller>>

(* The reader is at its end, fails, or claims more than it was asked for.  *)
Break == /\ want > 0 /\ Fails("EIO")
         /\ UNCHANGED <<pos, start, packet, i, caller>>

Header == /\ stage = "header" /\ want = 0
          /\ IF packet[1] # Magic \/ Argc(packet) \notin 1 .. ArgMax
             THEN Fails("EINVAL") ELSE Wants("length", 1)
          /\ UNCHANGED <<pos, start, packet, i, caller>>

(* Mutant: the longest argument is refused.                                *)
LengthShort ==
  /\ stage = "length" /\ want = 0
  /\ IF Last(packet) >= LengthMax THEN Fails("EINVAL") ELSE Wants("argument", Last(packet))
  /\ UNCHANGED <<pos, start, packet, i, caller>>

Length == /\ stage = "length" /\ want = 0
          /\ IF Last(packet) > LengthMax
             THEN Fails("EINVAL") ELSE Wants("argument", Last(packet))
          /\ UNCHANGED <<pos, start, packet, i, caller>>

Argument == /\ stage = "argument" /\ want = 0
            /\ i' = i + 1
            /\ IF i + 1 < Argc(packet)
               THEN Wants("length", 1) ELSE Wants("files", FileCells(packet))
            /\ UNCHANGED <<pos, start, packet, caller>>

(* Where each argument of p ends, or -1 from the first one that is refused. *)
Ends(p) ==
  LET end == Len(p) - FileCells(p)
      ends[k \in 0 .. Argc(p)] ==
        IF k = 0 THEN HeaderCells
        ELSE IF ends[k - 1] = -1 \/ end - ends[k - 1] < 1 THEN -1
        ELSE LET at == ends[k - 1] + 1
                 text == SubSeq(p, at + 1, at + p[at])
             IN  IF \/ p[at] > LengthMax \/ p[at] > end - at
                    \/ k = 1 /\ p[at] = 0
                    \/ \E c \in 1 .. Len(text) : text[c] = Nul
                 THEN -1 ELSE at + p[at]
  IN  ends

Decodable(p) ==
  /\ Len(p) \in HeaderCells .. JobMax
  /\ p[1] = Magic /\ Argc(p) \in 1 .. ArgMax
  /\ FileCells(p) <= Len(p) - HeaderCells
  /\ Ends(p)[Argc(p)] = Len(p) - FileCells(p)

(* Mutant: the NUL that ends an argument replaces its last byte.           *)
ArgvCut(p) == [k \in 1 .. Argc(p) |->
                 IF p[Ends(p)[k - 1] + 1] = 0 THEN <<>>
                 ELSE Append(SubSeq(p, Ends(p)[k - 1] + 2, Ends(p)[k] - 1), Nul)]

Argv(p) == [k \in 1 .. Argc(p) |-> SubSeq(p, Ends(p)[k - 1] + 2, Ends(p)[k])]
Blob(p) == SubSeq(p, Len(p) - FileCells(p) + 1, Len(p))

(* cs_gcc_fs_mount: it succeeds as a whole or changes nothing.             *)
Mounts(blob) ==
  IF busy THEN error' = "EBUSY" /\ UNCHANGED mounted
  ELSE IF blob \notin Blobs THEN error' = "EINVAL" /\ UNCHANGED mounted
  ELSE \/ error' = "ENOMEM" /\ UNCHANGED mounted
       \/ error' = "none" /\ mounted' = blob

(* cs_gcc_job_decode: nothing is changed before the whole packet is known  *)
(* to be good and memory for its arguments is there.                       *)
Decodes(p) ==
  \/ ~Decodable(p) /\ error' = "EINVAL" /\ UNCHANGED <<job, mounted>>
  \/ Decodable(p) /\ error' = "ENOMEM" /\ UNCHANGED <<job, mounted>>
  \/ /\ Decodable(p) /\ Mounts(Blob(p))
     /\ job' = IF error' = "none" THEN Argv(p) ELSE None

(* cs_gcc_job_read ends: the caller gets the packet, or it is freed.       *)
Decode == /\ stage = "files" /\ want = 0
          /\ Decodes(packet)
          /\ storage' = IF error' = "none" THEN packet ELSE None
          /\ stage' = "idle"
          /\ UNCHANGED <<stream, pos, start, packet, want, i, busy>>

(* A packet that its owner has already.                                    *)
DecodeOwned == /\ stage = "idle" /\ storage = None
               /\ \E p \in Packets :
                    /\ packet' = p
                    /\ IF job # None THEN error' = "EINVAL" /\ UNCHANGED <<job, mounted>>
                       ELSE Decodes(p)
               /\ start' = -1
               /\ UNCHANGED <<stream, pos, stage, want, i, storage, busy>>

(* The caller releases its arguments and keeps the packet for itself.      *)
Release == /\ stage = "idle" /\ job # None
           /\ job' = None /\ storage' = None /\ error' = "none"
           /\ UNCHANGED <<stream, pos, start, packet, stage, want, i, mounted, busy>>

(* Programs open and close files between the calls.                        *)
Program == /\ stage = "idle" /\ busy' = ~busy
           /\ UNCHANGED <<stream, pos, start, packet, stage, want, i, error,
                          job, storage, mounted>>

Next == \/ Read \/ Deliver \/ Break \/ Header \/ Length \/ Argument \/ Decode
        \/ DecodeOwned \/ Release \/ Program

Spec == Init /\ [][Next]_vars
-----------------------------------------------------------------------------
(* The packet of a job, as a sender writes it.                             *)
Packet(argv, blob) ==
  <<Magic, Len(argv), Len(blob)>>
  \o FlattenSeq([k \in 1 .. Len(argv) |-> <<Len(argv[k])>> \o argv[k]])
  \o blob

(* What a sender may ask for: every limit is kept and no argument has a    *)
(* NUL, the first one is not empty.                                        *)
ASSUME SenderAssumption ==
  \A j \in Jobs :
    /\ Len(j.argv) \in 1 .. ArgMax /\ j.argv[1] # <<>>
    /\ \A k \in DOMAIN j.argv :
         /\ Len(j.argv[k]) <= LengthMax
         /\ \A c \in DOMAIN j.argv[k] : j.argv[k][c] # Nul
    /\ Len(Packet(j.argv, j.blob)) <= JobMax

(* A job that was read is one whole packet: its arguments and the mounted  *)
(* files make up the storage, and exactly these cells were taken from the  *)
(* stream, so that the next job begins where this one ended.               *)
OnePacket ==
  stage = "idle" /\ storage # None =>
    /\ storage = Packet(job, mounted)
    /\ storage = SubSeq(stream, start + 1, pos)

(* A job that its sender wrote well is refused only for want of memory, of *)
(* input, or of files that nobody holds.                                   *)
GoodJobsPass ==
  stage = "idle" /\ job = None /\ error \in {"EINVAL", "EFBIG"} =>
    \A j \in Jobs :
      IF start = -1 THEN packet # Packet(j.argv, j.blob)
      ELSE ~IsPrefix(Packet(j.argv, j.blob), SubSeq(stream, start + 1, Len(stream)))
=============================================================================
