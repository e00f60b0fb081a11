--------------------------- MODULE GuestResponse ---------------------------
(***************************************************************************)
(* How a guest gives its answer (runtime/gcc/response.c and cs_gcc_finish  *)
(* of runtime/gcc/main.c): what the program writes to its two streams is   *)
(* captured, and when it exits one packet with its status, both streams    *)
(* and its output file is sent in parts to a host that decodes it.  Cells  *)
(* are bytes; the magic and every 32-bit word take one cell each.          *)
(***************************************************************************)
EXTENDS Integers, Sequences, SequencesExt

CONSTANTS AnswerMagic,   \* the cell that starts a packet
          CaptureLimit,  \* CAPTURE_LIMIT
          Texts,         \* what a program writes at once
          Missing,       \* the message of a missing output file
          Lowering,      \* the message of a lowering that failed
          Statuses,      \* the statuses a program exits with
          Files,         \* contents of the output file
          Images         \* what a lowering puts in its place

ASSUME ResponseAssumption ==
  /\ AnswerMagic \in Nat /\ CaptureLimit \in Nat /\ Statuses \subseteq Nat
  /\ Texts \cup Files \cup Images \cup {Missing, Lowering} \subseteq Seq(Nat)

AnswerCells == 5
NoFile == <<-1>>
Refused == 126

VARIABLES captured,  \* streams[0] and streams[1]
          output,    \* whether an output file was asked for, and whether its
                     \* lowering was: [asked, lower]
          file,      \* the contents of that file, or NoFile
          status,    \* the status the program has come to
          pc,        \* "program", "finish", "lower", "respond", "send", "exited"
          left,      \* what send still has to write
          sent,      \* what the host has received
          code       \* the code the guest exits with

answerVars == <<captured, output, file, status, pc, left, sent, code>>

AnswerInit ==
  /\ captured = [fd \in 1 .. 2 |-> <<>>]
  /\ output \in [asked : BOOLEAN, lower : BOOLEAN]
  /\ file = NoFile
  /\ status = 0 /\ pc = "program"
  /\ left = <<>> /\ sent = <<>> /\ code = 0

(* What cs_gcc_capture_write has room for.                                 *)
Room(fd) == CaptureLimit - (Len(captured[1]) + Len(captured[2]))

(* cs_gcc_capture_write: all of the text or, without room or memory, none. *)
Captures(fd, text) ==
  \/ Len(text) <= Room(fd) /\ captured' = [captured EXCEPT ![fd] = @ \o text]
  \/ UNCHANGED captured

Write == /\ pc = "program"
         /\ \E fd \in 1 .. 2, text \in Texts : Captures(fd, text)
         /\ UNCHANGED <<output, file, status, pc, left, sent, code>>

(* The program makes or removes its output file.                           *)
MakeFile == /\ pc = "program"
            /\ file' \in Files \cup {NoFile}
            /\ UNCHANGED <<captured, output, status, pc, left, sent, code>>

Exit == /\ pc = "program"
        /\ status' \in Statuses
        /\ pc' = "finish"
        /\ UNCHANGED <<captured, output, file, left, sent, code>>

(* cs_gcc_finish: an output file that is not there is a failure.           *)
Finish ==
  /\ pc = "finish"
  /\ IF status = 0 /\ output.asked /\ file = NoFile
     THEN /\ Captures(2, Missing)
          /\ status' = Refused /\ output' = [output EXCEPT !.asked = FALSE]
          /\ pc' = "respond"
     ELSE /\ pc' = IF status = 0 /\ output.asked /\ output.lower
                   THEN "lower" ELSE "respond"
          /\ UNCHANGED <<captured, status, output>>
  /\ UNCHANGED <<file, left, sent, code>>

(* lower_copy: the assembler text is replaced by an image, or stays.       *)
Lower == /\ pc = "lower"
         /\ \/ /\ file' \in Images
               /\ UNCHANGED <<captured, status>>
            \/ /\ Captures(2, Lowering)
               /\ status' = Refused
               /\ UNCHANGED file
         /\ pc' = "respond"
         /\ UNCHANGED <<output, left, sent, code>>

AnswerHeader(s, out, err, f) == <<AnswerMagic, s, Len(out), Len(err), Len(f)>>

Answer(s, out, err, f) == AnswerHeader(s, out, err, f) \o out \o err \o f

(* Mutant: the file is sent for every status.                              *)
AnswerFileAlways == IF output.asked /\ file # NoFile THEN file ELSE <<>>

(* The file goes with a success only.                                      *)
AnswerFile == IF status = 0 /\ output.asked THEN file ELSE <<>>

Respond == /\ pc = "respond"
           /\ left' = Answer(status, captured[1], captured[2], AnswerFile)
           /\ pc' = "send"
           /\ UNCHANGED <<captured, output, file, status, sent, code>>

(* send: the writer takes some of the cells, or fails; the four calls are  *)
(* one loop, a part of which never crosses from one block to the next.     *)
Boundary(k) ==
  LET at == Len(sent) + k
  IN  \A edge \in {AnswerCells, AnswerCells + Len(captured[1]),
                   AnswerCells + Len(captured[1]) + Len(captured[2])} :
        ~(Len(sent) < edge /\ edge < at)

Send == /\ pc = "send" /\ left # <<>>
        /\ \E k \in 1 .. Len(left) :
             /\ Boundary(k)
             /\ sent' = sent \o SubSeq(left, 1, k)
             /\ left' = SubSeq(left, k + 1, Len(left))
        /\ UNCHANGED <<captured, output, file, status, pc, code>>

SendFails == /\ pc = "send" /\ left # <<>>
             /\ pc' = "exited" /\ code' = Refused
             /\ UNCHANGED <<captured, output, file, status, left, sent>>

Sent == /\ pc = "send" /\ left = <<>>
        /\ pc' = "exited" /\ code' = status
        /\ UNCHANGED <<captured, output, file, status, left, sent>>

AnswerNext == \/ Write \/ MakeFile \/ Exit \/ Finish \/ Lower
              \/ Respond \/ Send \/ SendFails \/ Sent

AnswerSpec == AnswerInit /\ [][AnswerNext]_answerVars

(* Mutant: cells after the packet are not looked at.                       *)
AnswerDecodableLoose(p) ==
  /\ Len(p) >= AnswerCells /\ p[1] = AnswerMagic
  /\ p[3] <= CaptureLimit /\ p[4] <= CaptureLimit - p[3]
  /\ p[2] = 0 \/ p[5] = 0

(* cs_gcc_response_decode accepts p.                                       *)
AnswerDecodable(p) ==
  /\ Len(p) >= AnswerCells /\ p[1] = AnswerMagic
  /\ p[3] <= Len(p) - AnswerCells /\ p[3] <= CaptureLimit
  /\ p[4] <= Len(p) - AnswerCells - p[3] /\ p[4] <= CaptureLimit - p[3]
  /\ p[5] = Len(p) - AnswerCells - p[3] - p[4]
  /\ p[2] = 0 \/ p[5] = 0

Decoded(p) ==
  LET out == AnswerCells + 1
      err == out + p[3]
      f == err + p[4]
  IN  [status |-> p[2], out |-> SubSeq(p, out, err - 1),
       err |-> SubSeq(p, err, f - 1), file |-> SubSeq(p, f, f + p[5] - 1)]

-----------------------------------------------------------------------------
(* A host that decodes what it has received, at any moment and however the *)
(* writer cut it, either refuses it or has the whole answer: the status,   *)
(* both streams as the program wrote them, and the file of a success.      *)
WholeOrNothing ==
  AnswerDecodable(sent) =>
    /\ pc \in {"send", "exited"} /\ left = <<>>
    /\ Decoded(sent) = [status |-> status, out |-> captured[1], err |-> captured[2],
                        file |-> IF status = 0 /\ output.asked THEN file ELSE <<>>]

(* The host can decode every answer that the guest believes delivered, and *)
(* the guest's own exit code is that of the answer.                        *)
ExitTells ==
  pc = "exited" /\ code # Refused => AnswerDecodable(sent) /\ Decoded(sent).status = code
=============================================================================
