---------------------------- MODULE GuestMainProofs ----------------------------
(***************************************************************************)
(* For packets and captures of every size, every command line and every    *)
(* way the streams are cut.                                                *)
(***************************************************************************)
EXTENDS GuestMain, FiniteSetTheorems, SequenceTheorems, WellFoundedInduction, TLAPS

-----------------------------------------------------------------------------
(* The part in the middle of three.                                        *)
LEMMA MiddlePart ==
  ASSUME NEW S, NEW a \in Seq(S), NEW b \in Seq(S), NEW c \in Seq(S)
  PROVE  SubSeq(a \o b \o c, Len(a) + 1, Len(a) + Len(b)) = b
<1> DEFINE all == a \o b \o c
           part == SubSeq(all, Len(a) + 1, Len(a) + Len(b))
<1>1. /\ Len(a) \in Nat /\ Len(b) \in Nat /\ Len(c) \in Nat
      /\ all \in Seq(S) /\ Len(all) = Len(a) + Len(b) + Len(c)
      /\ \A k \in 1 .. Len(b) : all[Len(a) + k] = b[k]
  BY ConcatProperties, LenProperties
<1> HIDE DEF all
<1>2. \A k \in Len(a) + 1 .. Len(a) + Len(b) : all[k] \in S
  BY <1>1, ElementOfSeq
<1>3. /\ part \in Seq(S) /\ Len(part) = Len(b)
      /\ \A k \in 1 .. Len(b) : part[k] = all[Len(a) + k]
  <2>1. /\ part \in Seq(S)
        /\ Len(part) = IF Len(a) + 1 <= Len(a) + Len(b)
                       THEN Len(a) + Len(b) - (Len(a) + 1) + 1 ELSE 0
        /\ \A k \in 1 .. Len(a) + Len(b) - (Len(a) + 1) + 1 : part[k] = all[Len(a) + 1 + k - 1]
    BY <1>1, <1>2, SubSeqProperties
  <2> HIDE DEF part
  <2>2. Len(a) + Len(b) - (Len(a) + 1) + 1 = Len(b)
    BY <1>1
  <2>3. Len(part) = Len(b)
    BY <1>1, <2>1
  <2>4. ASSUME NEW k \in 1 .. Len(b)
        PROVE  part[k] = all[Len(a) + k]
    <3>1. k \in 1 .. Len(a) + Len(b) - (Len(a) + 1) + 1
      BY <2>2
    <3>2. Len(a) + 1 + k - 1 = Len(a) + k
      BY <1>1
    <3> QED BY <2>1, <3>1, <3>2
  <2> QED BY <2>1, <2>3, <2>4
<1> HIDE DEF part
<1>4. part = b
  BY <1>1, <1>3, SeqEqual
<1> QED BY <1>4 DEF part, all

-----------------------------------------------------------------------------
(* The packet of an answer: the host that has all of it decodes it, and a  *)
(* host that has a part of it does not.                                    *)
Cells == Seq(Nat)

(* What is joined: its length, and the cells of the first part.            *)
LEMMA Joined ==
  ASSUME NEW s \in Cells, NEW t \in Cells
  PROVE  /\ s \o t \in Cells /\ Len(s \o t) = Len(s) + Len(t)
         /\ Len(s) \in Nat /\ Len(t) \in Nat
         /\ \A k \in 1 .. Len(s) : (s \o t)[k] = s[k]
BY ConcatProperties, LenProperties DEF Cells

LEMMA JoinedThrice ==
  ASSUME NEW a \in Cells, NEW b \in Cells, NEW c \in Cells
  PROVE  (a \o b) \o c = a \o (b \o c)
<1>1. a \in Seq(Nat) /\ b \in Seq(Nat) /\ c \in Seq(Nat)
  BY DEF Cells
<1> QED BY <1>1, ConcatAssociative, SMTT(60)

LEMMA JoinedHeader ==
  ASSUME NEW s \in Cells, NEW t \in Cells, Len(s) >= AnswerCells
  PROVE  /\ Len(s \o t) >= AnswerCells
         /\ (s \o t)[1] = s[1] /\ (s \o t)[2] = s[2] /\ (s \o t)[3] = s[3]
         /\ (s \o t)[4] = s[4] /\ (s \o t)[5] = s[5]
<1>1. /\ Len(s) \in Nat /\ Len(t) \in Nat /\ Len(s \o t) = Len(s) + Len(t)
      /\ \A k \in 1 .. Len(s) : (s \o t)[k] = s[k]
  BY Joined
<1>2. {1, 2, 3, 4, 5} \subseteq 1 .. Len(s)
  BY <1>1 DEF AnswerCells
<1> QED BY <1>1, <1>2 DEF AnswerCells

Sized(p, s, out, err, f) ==
  /\ p \in Cells /\ Len(p) = AnswerCells + Len(out) + Len(err) + Len(f)
  /\ p[1] = AnswerMagic /\ p[2] = s /\ p[3] = Len(out)
  /\ p[4] = Len(err) /\ p[5] = Len(f)

LEMMA AnswerParts ==
  ASSUME NEW s \in Nat, NEW out \in Cells, NEW err \in Cells, NEW f \in Cells
  PROVE  Sized(Answer(s, out, err, f), s, out, err, f)
<1>1. /\ Len(out) \in Nat /\ Len(err) \in Nat /\ Len(f) \in Nat /\ AnswerMagic \in Nat
  BY ResponseAssumption, LenProperties DEF Cells
<1>2. PICK h : h = AnswerHeader(s, out, err, f)
  OBVIOUS
<1>3. /\ h \in Cells /\ Len(h) = AnswerCells
      /\ h[1] = AnswerMagic /\ h[2] = s /\ h[3] = Len(out) /\ h[4] = Len(err) /\ h[5] = Len(f)
  BY <1>1, <1>2 DEF AnswerHeader, AnswerCells, Cells
<1>4. PICK a : a = h \o out
  OBVIOUS
<1>5. a \in Cells /\ Len(a) = Len(h) + Len(out)
  BY <1>3, <1>4, Joined
<1>6. PICK b : b = a \o err
  OBVIOUS
<1>7. b \in Cells /\ Len(b) = Len(a) + Len(err)
  BY <1>5, <1>6, Joined
<1>8. PICK p : p = b \o f
  OBVIOUS
<1>9. p \in Cells /\ Len(p) = Len(b) + Len(f)
  BY <1>7, <1>8, Joined
<1>10. Len(h) >= AnswerCells /\ Len(a) >= AnswerCells /\ Len(b) >= AnswerCells
  BY <1>1, <1>3, <1>5, <1>7 DEF AnswerCells
<1>11. a[1] = h[1] /\ a[2] = h[2] /\ a[3] = h[3] /\ a[4] = h[4] /\ a[5] = h[5]
  BY <1>3, <1>4, <1>10, JoinedHeader
<1>12. b[1] = a[1] /\ b[2] = a[2] /\ b[3] = a[3] /\ b[4] = a[4] /\ b[5] = a[5]
  BY <1>5, <1>6, <1>10, JoinedHeader
<1>13. p[1] = b[1] /\ p[2] = b[2] /\ p[3] = b[3] /\ p[4] = b[4] /\ p[5] = b[5]
  BY <1>7, <1>8, <1>10, JoinedHeader
<1>14. Len(p) = AnswerCells + Len(out) + Len(err) + Len(f)
  BY <1>1, <1>3, <1>5, <1>7, <1>9
<1>15. Sized(p, s, out, err, f)
  BY <1>3, <1>9, <1>11, <1>12, <1>13, <1>14 DEF Sized
<1>16. p = Answer(s, out, err, f)
  BY <1>2, <1>4, <1>6, <1>8 DEF Answer
<1> QED BY <1>15, <1>16

LEMMA WholeDecodes ==
  ASSUME NEW s \in Nat, NEW out \in Cells, NEW err \in Cells, NEW f \in Cells,
         Len(out) + Len(err) <= CaptureLimit, s = 0 \/ f = <<>>
  PROVE  /\ AnswerDecodable(Answer(s, out, err, f))
         /\ Decoded(Answer(s, out, err, f)) =
              [status |-> s, out |-> out, err |-> err, file |-> f]
<1> PICK p : p = Answer(s, out, err, f)
  OBVIOUS
<1> SUFFICES /\ AnswerDecodable(p)
             /\ Decoded(p) = [status |-> s, out |-> out, err |-> err, file |-> f]
  OBVIOUS
<1>a. Sized(p, s, out, err, f)
  BY AnswerParts
<1>1. /\ p \in Cells /\ Len(p) = AnswerCells + Len(out) + Len(err) + Len(f)
      /\ p[1] = AnswerMagic /\ p[2] = s /\ p[3] = Len(out)
      /\ p[4] = Len(err) /\ p[5] = Len(f)
  BY <1>a DEF Sized
<1>2. /\ Len(out) \in Nat /\ Len(err) \in Nat /\ Len(f) \in Nat /\ CaptureLimit \in Nat
  BY ResponseAssumption, LenProperties DEF Cells
<1>3. Len(f) = 0 \/ s = 0
  OBVIOUS
<1>4. AnswerDecodable(p)
  BY <1>1, <1>2, <1>3, SMTT(60) DEF AnswerDecodable, AnswerCells
<1>5. PICK h : h = AnswerHeader(s, out, err, f)
  OBVIOUS
<1>6. h \in Cells /\ Len(h) = AnswerCells
  BY <1>2, <1>5, ResponseAssumption DEF AnswerHeader, AnswerCells, Cells
<1>7. p = h \o out \o err \o f
  BY <1>5 DEF Answer
<1>8. PICK a : a = h \o out
  OBVIOUS
<1>9. a \in Cells /\ Len(a) = AnswerCells + Len(out)
  BY <1>6, <1>8, Joined
<1>10. PICK b : b = a \o err
  OBVIOUS
<1>11. b \in Cells /\ Len(b) = AnswerCells + Len(out) + Len(err)
  <2>1. b \in Cells /\ Len(b) = Len(a) + Len(err)
    BY <1>9, <1>10, Joined
  <2> QED BY <1>9, <2>1
<1>12. p = b \o f
  BY <1>7, <1>8, <1>10
<1>13. SubSeq(p, AnswerCells + 1, AnswerCells + Len(out)) = out
  <2>1. PICK rest : rest = err \o f
    OBVIOUS
  <2>2. rest \in Cells
    BY <2>1, Joined
  <2>3. (a \o err) \o f = a \o (err \o f)
    BY <1>9, JoinedThrice
  <2>4. SubSeq(h \o out \o rest, Len(h) + 1, Len(h) + Len(out)) = out
    BY <1>6, <2>2, MiddlePart DEF Cells
  <2> QED BY <1>6, <1>8, <1>10, <1>12, <2>1, <2>3, <2>4
<1>14. SubSeq(p, AnswerCells + Len(out) + 1, AnswerCells + Len(out) + Len(err)) = err
  <2>1. SubSeq(a \o err \o f, Len(a) + 1, Len(a) + Len(err)) = err
    BY <1>9, MiddlePart DEF Cells
  <2> QED BY <1>9, <1>10, <1>12, <2>1
<1>15. SubSeq(p, AnswerCells + Len(out) + Len(err) + 1,
                 AnswerCells + Len(out) + Len(err) + Len(f)) = f
  <2>1. p \o <<>> = p /\ <<>> \in Cells
    BY <1>1, ConcatEmptySeq DEF Cells
  <2>2. SubSeq(b \o f \o <<>>, Len(b) + 1, Len(b) + Len(f)) = f
    BY <1>11, <2>1, MiddlePart, SMTT(60) DEF Cells
  <2> QED BY <1>11, <1>12, <2>1, <2>2
<1>16. /\ (AnswerCells + 1 + Len(out)) - 1 = AnswerCells + Len(out)
       /\ (AnswerCells + 1 + Len(out) + Len(err)) - 1 = AnswerCells + Len(out) + Len(err)
       /\ AnswerCells + 1 + Len(out) = AnswerCells + Len(out) + 1
       /\ AnswerCells + 1 + Len(out) + Len(err) = AnswerCells + Len(out) + Len(err) + 1
       /\ AnswerCells + 1 + Len(out) + Len(err) + (Len(f) - 1)
            = AnswerCells + Len(out) + Len(err) + Len(f)
  BY <1>2 DEF AnswerCells
<1>17. Decoded(p) = [status |-> s,
                        out |-> SubSeq(p, AnswerCells + 1, (AnswerCells + 1 + Len(out)) - 1),
                        err |-> SubSeq(p, AnswerCells + 1 + Len(out),
                                          (AnswerCells + 1 + Len(out) + Len(err)) - 1),
                        file |-> SubSeq(p, AnswerCells + 1 + Len(out) + Len(err),
                                           AnswerCells + 1 + Len(out) + Len(err) + (Len(f) - 1))]
  <2>1. Decoded(p) = [status |-> p[2],
                      out |-> SubSeq(p, AnswerCells + 1, (AnswerCells + 1 + p[3]) - 1),
                      err |-> SubSeq(p, AnswerCells + 1 + p[3], (AnswerCells + 1 + p[3] + p[4]) - 1),
                      file |-> SubSeq(p, AnswerCells + 1 + p[3] + p[4],
                                         AnswerCells + 1 + p[3] + p[4] + (p[5] - 1))]
    BY DEF Decoded
  <2> QED BY <1>1, <2>1
<1>18. Decoded(p) = [status |-> s, out |-> out, err |-> err, file |-> f]
  BY <1>13, <1>14, <1>15, <1>16, <1>17
<1> QED BY <1>4, <1>18

LEMMA PartDoesNot ==
  ASSUME NEW s \in Nat, NEW out \in Cells, NEW err \in Cells, NEW f \in Cells,
         NEW p \in Cells, NEW q \in Cells, p \o q = Answer(s, out, err, f),
         AnswerDecodable(p)
  PROVE  q = <<>>
<1>1. PICK all : all = p \o q
  OBVIOUS
<1>2. /\ Len(all) = AnswerCells + Len(out) + Len(err) + Len(f)
      /\ all[3] = Len(out) /\ all[4] = Len(err) /\ all[5] = Len(f)
  <2>1. Sized(all, s, out, err, f)
    BY <1>1, AnswerParts
  <2> QED BY <2>1 DEF Sized
<1>3. /\ Len(p) \in Nat /\ Len(q) \in Nat /\ Len(all) = Len(p) + Len(q)
      /\ all[3] = p[3] /\ all[4] = p[4] /\ all[5] = p[5]
  <2>1. Len(p) >= AnswerCells
    BY DEF AnswerDecodable
  <2> QED BY <1>1, <2>1, Joined, JoinedHeader
<1>4. /\ Len(out) \in Nat /\ Len(err) \in Nat /\ Len(f) \in Nat
  BY LenProperties DEF Cells
<1>5. /\ p[3] = Len(out) /\ p[4] = Len(err) /\ p[5] = Len(f)
      /\ p[5] = Len(p) - AnswerCells - p[3] - p[4]
  BY <1>2, <1>3 DEF AnswerDecodable
<1>6. Len(q) = 0
  BY <1>2, <1>3, <1>4, <1>5 DEF AnswerCells
<1> QED BY <1>6, EmptySeq DEF Cells

-----------------------------------------------------------------------------
(* The inductive invariant of an answer: what has been sent and what is    *)
(* left are together the answer of the program's end.                      *)
CapturedInv == /\ captured \in [1 .. 2 -> Cells]
               /\ Len(captured[1]) + Len(captured[2]) <= CaptureLimit

AnswerTypeOK ==
  /\ output \in [asked : BOOLEAN, lower : BOOLEAN]
  /\ file \in Cells \cup {NoFile}
  /\ status \in Nat /\ code \in Nat
  /\ pc \in {"program", "finish", "lower", "respond", "send", "exited"}
  /\ left \in Cells /\ sent \in Cells

(* A success that is past the end of its program has the file it was asked *)
(* for.                                                                    *)
FileInv == /\ pc = "lower" => file # NoFile
           /\ pc \in {"respond", "send", "exited"} /\ status = 0 /\ output.asked
                => file # NoFile

SentInv ==
  /\ pc \in {"program", "finish", "lower", "respond"} => left = <<>> /\ sent = <<>>
  /\ pc \in {"send", "exited"} =>
       sent \o left = Answer(status, captured[1], captured[2], AnswerFile)
  /\ pc = "exited" /\ code # Refused => left = <<>> /\ code = status

AnswerInv == CapturedInv /\ AnswerTypeOK /\ FileInv /\ SentInv

(* What has room goes in.                                                  *)
LEMMA Within ==
  ASSUME NEW a \in Nat, NEW b \in Nat, NEW c \in Nat, NEW max \in Nat, c <= max - (a + b)
  PROVE  (a + c) + b <= max /\ a + (b + c) <= max
OBVIOUS

LEMMA CapturesKeep ==
  ASSUME CapturedInv, NEW fd \in 1 .. 2, NEW text \in Cells, Captures(fd, text)
  PROVE  CapturedInv'
<1>1. CASE UNCHANGED captured
  BY <1>1 DEF CapturedInv
<1>2. CASE Len(text) <= Room(fd) /\ captured' = [captured EXCEPT ![fd] = @ \o text]
  <2>1. captured[fd] \o text \in Cells /\ Len(captured[fd] \o text) = Len(captured[fd]) + Len(text)
    BY Joined DEF CapturedInv
  <2>2. /\ Len(captured[1]) \in Nat /\ Len(captured[2]) \in Nat /\ Len(text) \in Nat
        /\ CaptureLimit \in Nat
    BY ResponseAssumption, LenProperties DEF CapturedInv, Cells
  <2>3. /\ captured' \in [1 .. 2 -> Cells]
        /\ Len(captured'[fd]) = Len(captured[fd]) + Len(text)
        /\ \A other \in 1 .. 2 : other # fd => captured'[other] = captured[other]
    BY <1>2, <2>1 DEF CapturedInv
  <2>4. Len(text) <= CaptureLimit - (Len(captured[1]) + Len(captured[2]))
    BY <1>2 DEF Room
  <2>5. Len(captured'[1]) + Len(captured'[2]) <= CaptureLimit
    <3>1. CASE fd = 1
      <4>1. Len(captured'[1]) = Len(captured[1]) + Len(text) /\ captured'[2] = captured[2]
        BY <2>3, <3>1
      <4>2. (Len(captured[1]) + Len(text)) + Len(captured[2]) <= CaptureLimit
        BY <2>2, <2>4, Within
      <4> QED BY <4>1, <4>2
    <3>2. CASE fd = 2
      <4>1. Len(captured'[2]) = Len(captured[2]) + Len(text) /\ captured'[1] = captured[1]
        BY <2>3, <3>2
      <4>2. Len(captured[1]) + (Len(captured[2]) + Len(text)) <= CaptureLimit
        BY <2>2, <2>4, Within
      <4>3. Len(captured'[1]) = Len(captured[1])
        BY <4>1
      <4> QED BY <4>1, <4>2, <4>3
    <3>3. fd = 1 \/ fd = 2
      OBVIOUS
    <3> QED BY <3>1, <3>2, <3>3, Zenon
  <2> QED BY <2>3, <2>5 DEF CapturedInv
<1> QED BY <1>1, <1>2 DEF Captures

LEMMA NoFileIsNone == NoFile \notin Cells
<1>1. ASSUME NoFile \in Cells PROVE FALSE
  <2>1. 1 \in 1 .. Len(NoFile) /\ NoFile[1] = -1
    BY DEF NoFile
  <2>2. NoFile[1] \in Nat
    BY <1>1, <2>1, ElementOfSeq DEF Cells
  <2> QED BY <2>1, <2>2
<1> QED BY <1>1

LEMMA MessagesAreCells ==
  /\ Texts \subseteq Cells /\ Files \subseteq Cells /\ Images \subseteq Cells
  /\ Missing \in Cells /\ Lowering \in Cells
BY ResponseAssumption DEF Cells

LEMMA FileIsCells ==
  ASSUME AnswerTypeOK, FileInv, pc \in {"respond", "send", "exited"}
  PROVE  AnswerFile \in Cells /\ (status = 0 \/ AnswerFile = <<>>)
<1>1. <<>> \in Cells
  BY DEF Cells
<1> QED BY <1>1 DEF AnswerTypeOK, FileInv, AnswerFile

-----------------------------------------------------------------------------
(* Every step of an answer keeps it.                                       *)
LEMMA RunningKeeps ==
  ASSUME AnswerInv, Write \/ MakeFile \/ Exit
  PROVE  AnswerInv'
<1>1. CASE Write
  <2>1. CapturedInv'
    BY <1>1, CapturesKeep, MessagesAreCells DEF Write, AnswerInv
  <2> QED BY <1>1, <2>1 DEF Write, AnswerInv, AnswerTypeOK, FileInv, SentInv
<1>2. CASE MakeFile
  <2>1. file' \in Cells \cup {NoFile}
    BY <1>2, MessagesAreCells DEF MakeFile
  <2> QED BY <1>2, <2>1 DEF MakeFile, AnswerInv, CapturedInv, AnswerTypeOK, FileInv, SentInv
<1>3. CASE Exit
  <2>1. status' \in Nat
    BY <1>3, ResponseAssumption DEF Exit
  <2> QED BY <1>3, <2>1 DEF Exit, AnswerInv, CapturedInv, AnswerTypeOK, FileInv, SentInv
<1> QED BY <1>1, <1>2, <1>3

LEMMA FinishKeeps ==
  ASSUME AnswerInv, Finish
  PROVE  AnswerInv'
<1>1. CASE status = 0 /\ output.asked /\ file = NoFile
  <2>1. CapturedInv'
    BY <1>1, CapturesKeep, MessagesAreCells DEF Finish, AnswerInv
  <2>2. /\ output' = [output EXCEPT !.asked = FALSE] /\ status' = Refused /\ pc' = "respond"
        /\ UNCHANGED <<file, left, sent, code>> /\ pc = "finish"
    BY <1>1 DEF Finish
  <2>3. output'.asked = FALSE /\ output' \in [asked : BOOLEAN, lower : BOOLEAN]
    BY <2>2 DEF AnswerInv, AnswerTypeOK
  <2> QED BY <2>1, <2>2, <2>3 DEF AnswerInv, AnswerTypeOK, FileInv, SentInv, Refused
<1>2. CASE ~(status = 0 /\ output.asked /\ file = NoFile)
  <2>1. /\ pc' = IF status = 0 /\ output.asked /\ output.lower THEN "lower" ELSE "respond"
        /\ pc = "finish" /\ UNCHANGED <<captured, status, output, file, left, sent, code>>
    BY <1>2 DEF Finish
  <2>2. pc' \in {"lower", "respond"} /\ (pc' = "lower" => status = 0 /\ output.asked)
    BY <2>1
  <2> QED BY <1>2, <2>1, <2>2 DEF AnswerInv, CapturedInv, AnswerTypeOK, FileInv, SentInv
<1> QED BY <1>1, <1>2

LEMMA LowerKeeps ==
  ASSUME AnswerInv, Lower
  PROVE  AnswerInv'
<1>1. /\ pc = "lower" /\ pc' = "respond" /\ UNCHANGED <<output, left, sent, code>>
  BY DEF Lower
<1>2. CASE file' \in Images /\ UNCHANGED <<captured, status>>
  <2>1. file' \in Cells /\ file' # NoFile
    BY <1>2, MessagesAreCells, NoFileIsNone
  <2> QED BY <1>1, <1>2, <2>1 DEF AnswerInv, CapturedInv, AnswerTypeOK, FileInv, SentInv
<1>3. CASE Captures(2, Lowering) /\ status' = Refused /\ UNCHANGED file
  <2>1. CapturedInv'
    BY <1>3, CapturesKeep, MessagesAreCells DEF AnswerInv
  <2> QED BY <1>1, <1>3, <2>1 DEF AnswerInv, AnswerTypeOK, FileInv, SentInv, Refused
<1> QED BY <1>2, <1>3 DEF Lower

LEMMA RespondKeeps ==
  ASSUME AnswerInv, Respond
  PROVE  AnswerInv'
<1> DEFINE whole == Answer(status, captured[1], captured[2], AnswerFile)
<1>1. /\ pc = "respond" /\ pc' = "send" /\ left' = whole
      /\ UNCHANGED <<captured, output, file, status, sent, code>>
  BY DEF Respond
<1>2. whole \in Cells
  <2>1. /\ captured[1] \in Cells /\ captured[2] \in Cells /\ status \in Nat
        /\ AnswerFile \in Cells
    BY <1>1, FileIsCells DEF AnswerInv, CapturedInv, AnswerTypeOK
  <2>2. PICK s \in Nat, out \in Cells, err \in Cells, f \in Cells :
          s = status /\ out = captured[1] /\ err = captured[2] /\ f = AnswerFile
    BY <2>1
  <2>3. Answer(s, out, err, f) \in Cells
    BY AnswerParts DEF Sized
  <2> QED BY <2>2, <2>3
<1>3. sent' \o left' = whole
  <2>1. sent' = <<>>
    BY <1>1 DEF AnswerInv, SentInv
  <2> HIDE DEF whole
  <2> QED BY <1>1, <1>2, <2>1, ConcatEmptySeq DEF Cells
<1>4. whole = Answer(status', captured'[1], captured'[2], AnswerFile')
  BY <1>1 DEF AnswerFile
<1>5. SentInv'
  BY <1>1, <1>3, <1>4 DEF SentInv
<1> HIDE DEF whole
<1> QED BY <1>1, <1>2, <1>5 DEF AnswerInv, CapturedInv, AnswerTypeOK, FileInv

(* However the writer cuts what is left, together it stays the same.       *)
LEMMA SendKeeps ==
  ASSUME AnswerInv, Send
  PROVE  AnswerInv'
<1>1. PICK k \in 1 .. Len(left) : /\ sent' = sent \o SubSeq(left, 1, k)
                                  /\ left' = SubSeq(left, k + 1, Len(left))
  BY DEF Send
<1>2. /\ pc = "send" /\ UNCHANGED <<captured, output, file, status, pc, code>>
  BY DEF Send
<1>3. /\ left \in Cells /\ sent \in Cells /\ Len(left) \in Nat
      /\ \A n \in 1 .. Len(left) : left[n] \in Nat
  BY LenProperties, ElementOfSeq DEF AnswerInv, AnswerTypeOK, Cells
<1>4. SubSeq(left, 1, k) \in Cells /\ left' \in Cells
  BY <1>1, <1>3, SubSeqProperties DEF Cells
<1>5. SubSeq(left, 1, k) \o left' = left
  <2>1. /\ 1 \in 1 .. Len(left) + 1 /\ k \in 1 - 1 .. Len(left) /\ Len(left) \in k .. Len(left)
    BY <1>3
  <2>2. SubSeq(left, 1, k) \o SubSeq(left, k + 1, Len(left)) = SubSeq(left, 1, Len(left))
    BY <1>3, <2>1, ConcatAdjacentSubSeq DEF Cells
  <2>3. SubSeq(left, 1, Len(left)) = left
    BY <1>3, SubSeqFull DEF Cells
  <2> QED BY <1>1, <2>2, <2>3
<1>6. sent' \in Cells
  BY <1>1, <1>3, <1>4, Joined
<1>7. sent' \o left' = sent \o left
  <2>1. (sent \o SubSeq(left, 1, k)) \o left' = sent \o (SubSeq(left, 1, k) \o left')
    BY <1>3, <1>4, JoinedThrice
  <2> QED BY <1>1, <1>5, <2>1
<1>8. SentInv'
  <2>1. AnswerFile' = AnswerFile
    BY <1>2 DEF AnswerFile
  <2> QED BY <1>2, <1>7, <2>1 DEF AnswerInv, SentInv
<1> QED BY <1>2, <1>4, <1>6, <1>8 DEF AnswerInv, CapturedInv, AnswerTypeOK, FileInv

LEMMA EndKeeps ==
  ASSUME AnswerInv, SendFails \/ Sent
  PROVE  AnswerInv'
<1>1. /\ pc = "send" /\ pc' = "exited"
      /\ UNCHANGED <<captured, output, file, status, left, sent>>
      /\ code' = Refused \/ (code' = status /\ left = <<>>)
  BY DEF SendFails, Sent
<1>2. AnswerFile' = AnswerFile
  BY <1>1 DEF AnswerFile
<1>3. code' \in Nat
  BY <1>1 DEF AnswerInv, AnswerTypeOK, Refused
<1> QED BY <1>1, <1>2, <1>3 DEF AnswerInv, CapturedInv, AnswerTypeOK, FileInv, SentInv

LEMMA AnswerNextKeeps == AnswerInv /\ AnswerNext => AnswerInv'
BY RunningKeeps, FinishKeeps, LowerKeeps, RespondKeeps, SendKeeps, EndKeeps DEF AnswerNext

LEMMA AnswerStays == AnswerInv /\ UNCHANGED answerVars => AnswerInv'
BY DEF AnswerInv, CapturedInv, AnswerTypeOK, FileInv, SentInv, AnswerFile, answerVars

LEMMA AnswerStarts == AnswerInit => AnswerInv
<1> SUFFICES ASSUME AnswerInit PROVE AnswerInv
  OBVIOUS
<1>1. <<>> \in Cells
  BY DEF Cells
<1>2. CapturedInv
  BY <1>1, ResponseAssumption DEF AnswerInit, CapturedInv
<1> QED BY <1>1, <1>2 DEF AnswerInit, AnswerInv, AnswerTypeOK, FileInv, SentInv

-----------------------------------------------------------------------------
(* What the invariant says of the host.                                    *)
LEMMA DecodesWhole ==
  ASSUME AnswerInv, AnswerDecodable(sent)
  PROVE  /\ pc \in {"send", "exited"} /\ left = <<>>
         /\ Decoded(sent) = [status |-> status, out |-> captured[1], err |-> captured[2],
                             file |-> AnswerFile]
<1>1. pc \in {"send", "exited"}
  <2>1. Len(sent) >= AnswerCells
    BY DEF AnswerDecodable
  <2>2. sent # <<>>
    BY <2>1 DEF AnswerCells
  <2> QED BY <2>2 DEF AnswerInv, AnswerTypeOK, SentInv
<1>2. /\ captured[1] \in Cells /\ captured[2] \in Cells /\ status \in Nat
      /\ AnswerFile \in Cells /\ sent \in Cells /\ left \in Cells
      /\ Len(captured[1]) + Len(captured[2]) <= CaptureLimit
      /\ status = 0 \/ AnswerFile = <<>>
  BY <1>1, FileIsCells DEF AnswerInv, CapturedInv, AnswerTypeOK
<1>3. sent \o left = Answer(status, captured[1], captured[2], AnswerFile)
  BY <1>1 DEF AnswerInv, SentInv
<1>4. left = <<>>
  BY <1>2, <1>3, PartDoesNot
<1>5. sent = Answer(status, captured[1], captured[2], AnswerFile)
  BY <1>2, <1>3, <1>4, ConcatEmptySeq DEF Cells
<1>6. PICK whole : whole = Answer(status, captured[1], captured[2], AnswerFile)
  OBVIOUS
<1>7. Decoded(whole) = [status |-> status, out |-> captured[1], err |-> captured[2],
                        file |-> AnswerFile]
  <2>1. PICK s \in Nat, out \in Cells, err \in Cells, f \in Cells :
          s = status /\ out = captured[1] /\ err = captured[2] /\ f = AnswerFile
    BY <1>2
  <2>2. Len(out) + Len(err) <= CaptureLimit /\ (s = 0 \/ f = <<>>)
    BY <1>2, <2>1
  <2>3. Decoded(Answer(s, out, err, f)) = [status |-> s, out |-> out, err |-> err, file |-> f]
    BY <2>2, WholeDecodes
  <2> QED BY <1>6, <2>1, <2>3
<1>8. sent = whole
  BY <1>5, <1>6
<1> QED BY <1>1, <1>4, <1>7, <1>8

LEMMA InvIsWhole == AnswerInv => WholeOrNothing
BY DecodesWhole DEF WholeOrNothing, AnswerFile

LEMMA InvTells == AnswerInv => ExitTells
<1> SUFFICES ASSUME AnswerInv, pc = "exited", code # Refused
             PROVE  AnswerDecodable(sent) /\ Decoded(sent).status = code
  BY DEF ExitTells
<1>1. /\ captured[1] \in Cells /\ captured[2] \in Cells /\ status \in Nat
      /\ AnswerFile \in Cells /\ sent \in Cells
      /\ Len(captured[1]) + Len(captured[2]) <= CaptureLimit
      /\ status = 0 \/ AnswerFile = <<>>
  BY FileIsCells DEF AnswerInv, CapturedInv, AnswerTypeOK
<1>2. left = <<>> /\ code = status
  BY DEF AnswerInv, SentInv
<1>3. sent \o left = Answer(status, captured[1], captured[2], AnswerFile)
  BY DEF AnswerInv, SentInv
<1>4. sent = Answer(status, captured[1], captured[2], AnswerFile)
  BY <1>1, <1>2, <1>3, ConcatEmptySeq DEF Cells
<1>5. PICK whole : whole = Answer(status, captured[1], captured[2], AnswerFile)
  OBVIOUS
<1>6. /\ AnswerDecodable(whole)
      /\ Decoded(whole) = [status |-> status, out |-> captured[1], err |-> captured[2],
                           file |-> AnswerFile]
  <2>1. PICK s \in Nat, out \in Cells, err \in Cells, f \in Cells :
          s = status /\ out = captured[1] /\ err = captured[2] /\ f = AnswerFile
    BY <1>1
  <2>2. Len(out) + Len(err) <= CaptureLimit /\ (s = 0 \/ f = <<>>)
    BY <1>1, <2>1
  <2>3. /\ AnswerDecodable(Answer(s, out, err, f))
        /\ Decoded(Answer(s, out, err, f)) = [status |-> s, out |-> out, err |-> err, file |-> f]
    BY <2>2, WholeDecodes
  <2> QED BY <1>5, <2>1, <2>3
<1>7. sent = whole
  BY <1>4, <1>5
<1> QED BY <1>2, <1>6, <1>7

(* Whatever a program writes, and however the writer cuts the packet or    *)
(* fails, a host that decodes has the whole answer (response.c).           *)
THEOREM AnswersAreWhole == AnswerSpec => []WholeOrNothing
BY AnswerStarts, AnswerNextKeeps, AnswerStays, InvIsWhole, PTL DEF AnswerSpec

(* An exit code other than that of a failed answer is that of an answer    *)
(* which the host can decode (cs_gcc_finish of main.c).                    *)
THEOREM CodesAreTold == AnswerSpec => []ExitTells
BY AnswerStarts, AnswerNextKeeps, AnswerStays, InvTells, PTL DEF AnswerSpec

-----------------------------------------------------------------------------
(* Induction over the numbers, as a fact about sets of them.               *)
LessThan == {r \in Nat \X Nat : r[1] < r[2]}

(* A set of numbers has a smallest one.                                    *)
LEMMA LeastNumber ==
  ASSUME NEW S \in SUBSET Nat, S # {}
  PROVE  \E m \in S : \A n \in S : m <= n
<1>1. OpToRel(<, Nat) = LessThan
  BY DEF OpToRel, LessThan
<1>2. IsWellFoundedOn(LessThan, Nat)
  BY <1>1, NatLessThanWellFounded
<1>3. PICK m \in S : \A n \in S : ~(<<n, m>> \in LessThan)
  BY <1>2, WFMin
<1>4. \A n \in S : ~(n < m)
  BY <1>3 DEF LessThan
<1> QED BY <1>4

-----------------------------------------------------------------------------
(* The options in front of a command line.                                 *)
IsLeading(j, at) == OptionOf(j[at]).opt \in Leading

IsRun(j, k) == /\ \A at \in 3 .. k : IsLeading(j, at)
               /\ k < 2 \/ k = Len(j) \/ ~IsLeading(j, k + 1)
               /\ Len(j) > 1 => k > 1

(* They end somewhere, at the end of the line at the latest.               *)
LEMMA RunExists ==
  ASSUME NEW j, Len(j) \in Nat, Len(j) >= 1
  PROVE  \E k \in 1 .. Len(j) : IsRun(j, k)
<1>1. PICK n : n = Len(j)
  OBVIOUS
<1>2. n \in Nat /\ n >= 1
  BY <1>1
<1>3. CASE n = 1
  BY <1>1, <1>3 DEF IsRun
<1>4. CASE n > 1
  <2> DEFINE Stops == {k \in 2 .. n : k = n \/ ~IsLeading(j, k + 1)}
  <2>1. Stops \in SUBSET Nat /\ Stops # {}
    <3>1. n \in Stops
      BY <1>2, <1>4
    <3>2. Stops \in SUBSET Nat
      BY <1>2
    <3> QED BY ONLY <3>1, <3>2
  <2>2. PICK k \in Stops : \A other \in Stops : k <= other
    <3>1. PICK S \in SUBSET Nat : S = Stops /\ S # {}
      BY ONLY <2>1
    <3>2. \E k \in S : \A other \in S : k <= other
      BY ONLY <3>1, LeastNumber
    <3> QED BY ONLY <3>1, <3>2
  <2>3. k \in 2 .. n /\ (k = n \/ ~IsLeading(j, k + 1))
    OBVIOUS
  <2>4. ASSUME NEW at \in 3 .. k PROVE IsLeading(j, at)
    <3>1. at - 1 \in 2 .. n /\ at - 1 # n /\ (at - 1) + 1 = at /\ ~(k <= at - 1)
      BY <1>2, <2>3
    <3>2. at - 1 \notin Stops
      BY <2>2, <3>1
    <3> QED BY <3>1, <3>2
  <2> QED BY <1>1, <1>2, <2>3, <2>4 DEF IsRun
<1> QED BY <1>2, <1>3, <1>4

(* They end once: what takes options one by one, as long as they are       *)
(* options, comes to Run.                                                  *)
LEMMA RunIsRun ==
  ASSUME NEW j, Len(j) \in Nat, Len(j) >= 1
  PROVE  Run(j) \in 1 .. Len(j) /\ IsRun(j, Run(j))
<1>1. \E k \in 1 .. Len(j) : IsRun(j, k)
  BY RunExists
<1>2. Run(j) = CHOOSE k \in 1 .. Len(j) : IsRun(j, k)
  BY DEF Run, IsRun, IsLeading
<1> QED BY <1>1, <1>2

LEMMA RunIsOne ==
  ASSUME NEW j, Len(j) \in Nat, NEW k \in 1 .. Len(j), NEW m \in 1 .. Len(j),
         IsRun(j, k), IsRun(j, m)
  PROVE  ~(k < m)
<1> SUFFICES ASSUME k < m PROVE FALSE
  OBVIOUS
<1>1. PICK n \in Nat : n = Len(j)
  OBVIOUS
<1>2. k >= 2 /\ k < n
  BY <1>1 DEF IsRun
<1>3. ~IsLeading(j, k + 1)
  BY <1>1, <1>2 DEF IsRun
<1>4. k + 1 \in 3 .. m
  BY <1>2
<1> QED BY <1>3, <1>4 DEF IsRun

LEMMA RunIs ==
  ASSUME NEW j, Len(j) \in Nat, NEW k \in 1 .. Len(j), IsRun(j, k)
  PROVE  Run(j) = k
<1>1. Run(j) \in 1 .. Len(j) /\ IsRun(j, Run(j))
  BY RunIsRun
<1>2. ~(k < Run(j)) /\ ~(Run(j) < k)
  BY <1>1, RunIsOne
<1> QED BY <1>1, <1>2

(* Run is not before the options that were taken already.                  *)
LEMMA RunBeyond ==
  ASSUME NEW j, Len(j) \in Nat, NEW k \in 2 .. Len(j), \A at \in 3 .. k : IsLeading(j, at)
  PROVE  Run(j) \in k .. Len(j)
<1>1. PICK n \in Nat : n = Len(j)
  OBVIOUS
<1>2. PICK m : m = Run(j)
  OBVIOUS
<1>3. m \in 1 .. n /\ IsRun(j, m) /\ n > 1
  BY <1>1, <1>2, RunIsRun
<1>4. ~(m < k)
  <2> SUFFICES ASSUME m < k PROVE FALSE
    OBVIOUS
  <2>1. m >= 2 /\ m < n
    BY <1>1, <1>3 DEF IsRun
  <2>2. ~IsLeading(j, m + 1)
    BY <1>1, <1>3, <2>1 DEF IsRun
  <2>3. m + 1 \in 3 .. k
    BY <1>1, <1>3, <2>1
  <2> QED BY <2>2, <2>3
<1> QED BY <1>1, <1>2, <1>3, <1>4

(* Cardinalities of the options of a kind.                                 *)
Seen(j, k, what) == {at \in 3 .. k : OptionOf(j[at]).opt \in what}

LEMMA SeenIsFinite ==
  ASSUME NEW j, NEW k \in Nat, NEW what
  PROVE  IsFiniteSet(Seen(j, k, what)) /\ Cardinality(Seen(j, k, what)) \in Nat
<1>1. IsFiniteSet(3 .. k)
  BY FS_Interval
<1>2. Seen(j, k, what) \in SUBSET (3 .. k)
  BY DEF Seen
<1>3. IsFiniteSet(Seen(j, k, what))
  BY <1>1, <1>2, FS_Subset
<1> QED BY <1>3, FS_CardinalityType

(* One option more: it counts for its own kind.                            *)
LEMMA SeenMore ==
  ASSUME NEW j, NEW k \in Nat, k >= 2, NEW what
  PROVE  /\ OptionOf(j[k + 1]).opt \in what =>
              /\ Seen(j, k + 1, what) = Seen(j, k, what) \cup {k + 1}
              /\ Cardinality(Seen(j, k + 1, what)) = Cardinality(Seen(j, k, what)) + 1
         /\ OptionOf(j[k + 1]).opt \notin what => Seen(j, k + 1, what) = Seen(j, k, what)
<1>1. \A at : at \in 3 .. k + 1 <=> at \in 3 .. k \/ at = k + 1
  OBVIOUS
<1>2. ASSUME OptionOf(j[k + 1]).opt \in what
      PROVE  /\ Seen(j, k + 1, what) = Seen(j, k, what) \cup {k + 1}
             /\ Cardinality(Seen(j, k + 1, what)) = Cardinality(Seen(j, k, what)) + 1
  <2>1. Seen(j, k + 1, what) = Seen(j, k, what) \cup {k + 1}
    BY <1>1, <1>2 DEF Seen
  <2>2. k + 1 \notin Seen(j, k, what)
    BY DEF Seen
  <2> QED BY <2>1, <2>2, SeenIsFinite, FS_AddElement
<1>3. ASSUME OptionOf(j[k + 1]).opt \notin what
      PROVE  Seen(j, k + 1, what) = Seen(j, k, what)
  BY <1>1, <1>3 DEF Seen
<1> QED BY <1>2, <1>3

LEMMA SeenGrows ==
  ASSUME NEW j, NEW k \in Nat, NEW m \in Nat, k <= m, NEW what
  PROVE  /\ Seen(j, k, what) \subseteq Seen(j, m, what)
         /\ Cardinality(Seen(j, k, what)) <= Cardinality(Seen(j, m, what))
<1>1. Seen(j, k, what) \subseteq Seen(j, m, what)
  BY DEF Seen
<1> QED BY <1>1, SeenIsFinite, FS_Subset

(* The first argument may be the option that asks for a file.              *)
FirstOf(j) == IF Len(j) > 1 THEN OptionOf(j[2]) ELSE OptionOf(None)

(* The part of Proper about the options behind a first one that asks for   *)
(* a copy or a program.                                                    *)
ProperUpTo(j, k) ==
  /\ \A at \in 3 .. k : OptionOf(j[at]).good
  /\ Cardinality(Seen(j, k, {"argument"})) <= ArgumentMax
  /\ Cardinality(Seen(j, k, {"object"})) <= ObjectMax
  /\ Cardinality(Seen(j, k, {"library"})) <= 1
  /\ Cardinality(Seen(j, k, {"alone"})) <= 1
  /\ FirstOf(j).opt = "copy" => Seen(j, k, Leading \ {"entry", "argument"}) = {}

LEMMA ProperIs ==
  ASSUME NEW j
  PROVE  /\ FirstOf(j).opt = "result" => (Proper(j) <=> FirstOf(j).good)
         /\ FirstOf(j).opt \in {"copy", "program"} =>
              (Proper(j) <=> /\ FirstOf(j).good /\ ~FirstOf(j).dash
                             /\ ProperUpTo(j, Run(j)))
         /\ FirstOf(j).opt \notin {"result", "copy", "program"} => Proper(j)
<1>1. PICK first : first = FirstOf(j)
  OBVIOUS
<1>2. Proper(j) =
       CASE first.opt = "result" -> first.good
        [] first.opt \in {"copy", "program"} ->
             /\ first.good /\ ~first.dash
             /\ \A at \in 3 .. Run(j) : OptionOf(j[at]).good
             /\ Cardinality(Opts(j, {"argument"})) <= ArgumentMax
             /\ Cardinality(Opts(j, {"object"})) <= ObjectMax
             /\ \A o \in {"library", "alone"} : Cardinality(Opts(j, {o})) <= 1
             /\ first.opt = "copy" => Opts(j, Leading \ {"entry", "argument"}) = {}
        [] OTHER -> TRUE
  BY <1>1 DEF Proper, FirstOf
<1>3. \A what : Opts(j, what) = Seen(j, Run(j), what)
  BY DEF Opts, Seen
<1>4. (\A o \in {"library", "alone"} : Cardinality(Opts(j, {o})) <= 1)
        <=> /\ Cardinality(Opts(j, {"library"})) <= 1
            /\ Cardinality(Opts(j, {"alone"})) <= 1
  OBVIOUS
<1>5. ASSUME first.opt \in {"copy", "program"}
      PROVE  Proper(j) <=> /\ first.good /\ ~first.dash /\ ProperUpTo(j, Run(j))
  <2>1. Proper(j) <=>
             /\ first.good /\ ~first.dash
             /\ \A at \in 3 .. Run(j) : OptionOf(j[at]).good
             /\ Cardinality(Opts(j, {"argument"})) <= ArgumentMax
             /\ Cardinality(Opts(j, {"object"})) <= ObjectMax
             /\ \A o \in {"library", "alone"} : Cardinality(Opts(j, {o})) <= 1
             /\ first.opt = "copy" => Opts(j, Leading \ {"entry", "argument"}) = {}
    BY <1>2, <1>5
  <2> QED BY <1>1, <1>3, <1>4, <2>1 DEF ProperUpTo
<1> QED BY <1>1, <1>2, <1>5

-----------------------------------------------------------------------------
(* The inductive invariant of a guest.                                     *)
Strings(j) == {j[k] : k \in DOMAIN j}
IsLine(j) == j \in Seq(Strings(j)) /\ Len(j) \in Nat /\ Len(j) >= 1

JobInv == /\ job = None \/ IsLine(job)
          /\ error # "none" => job = None

ReadInv == main = "read" => /\ consumed = 1 /\ chosen = Nothing
                            /\ output = [asked |-> FALSE, lower |-> FALSE]

(* The options that were taken are the first ones of Run, none of them     *)
(* refused, and are what chosen says.                                      *)
OptionsInv ==
  main = "options" =>
    /\ IsLine(job) /\ Len(job) > 1
    /\ FirstOf(job).opt \in {"copy", "program"}
    /\ FirstOf(job).good /\ ~FirstOf(job).dash
    /\ consumed \in 2 .. Len(job)
    /\ \A at \in 3 .. consumed : IsLeading(job, at)
    /\ ProperUpTo(job, consumed)
    /\ chosen = [mode |-> FirstOf(job).opt,
                 arguments |-> Cardinality(Seen(job, consumed, {"argument"})),
                 objects |-> Cardinality(Seen(job, consumed, {"object"})),
                 library |-> Seen(job, consumed, {"library"}) # {},
                 alone |-> Seen(job, consumed, {"alone"}) # {}]

EndsInv == /\ main = "run" => IsLine(job) /\ Proper(job) /\ args = Left(job)
           /\ main = "failed" => /\ job = None \/ ~Proper(job)
                                 /\ status = NotRun /\ pc # "program"

(* The output file is the one that the first option asks for.              *)
OutputInv ==
  /\ output.asked => /\ IsLine(job) /\ ~FirstOf(job).dash
                     /\ FirstOf(job).opt \in {"result", "copy", "program"}
  /\ output.lower => IsLine(job) /\ FirstOf(job).opt \in {"copy", "program"}
  /\ pc = "lower" => output.lower /\ status = 0
  /\ file \in Files \cup {NoFile} \/ output.lower

MainTypeOK == /\ main \in {"read", "options", "run", "failed"}
              /\ main \in {"read", "options"} => pc = "program"

MainInv == JobInv /\ MainTypeOK /\ ReadInv /\ OptionsInv /\ EndsInv /\ OutputInv

LEMMA NoneIsNoOption ==
  OptionOf(None) = [opt |-> "none", good |-> TRUE, dash |-> FALSE]
BY MainAssumption DEF OptionOf

LEMMA GoodIsBoolean == \A a : OptionOf(a).good \in BOOLEAN /\ OptionOf(a).dash \in BOOLEAN
BY MainAssumption DEF OptionOf

LEMMA LineIsThere == \A j : IsLine(j) => j # None
BY DEF IsLine, None

(* A packet that can be decoded has arguments.                             *)
LEMMA ArgvIsLine ==
  ASSUME NEW p, Decodable(p)
  PROVE  IsLine(Argv(p))
<1>1. PICK n : n = Argc(p)
  OBVIOUS
<1>2. n \in Nat /\ n >= 1
  BY <1>1, JobAssumption DEF Decodable
<1>3. PICK j : j = Argv(p)
  OBVIOUS
<1>4. j = [k \in 1 .. n |-> SubSeq(p, Ends(p)[k - 1] + 2, Ends(p)[k])]
  BY <1>1, <1>3 DEF Argv
<1>5. /\ DOMAIN j = 1 .. n
      /\ j \in [1 .. n -> Strings(j)]
  BY <1>4 DEF Strings
<1>6. j \in Seq(Strings(j)) /\ Len(j) = n
  BY <1>2, <1>5, SeqDef, LenProperties
<1> QED BY <1>2, <1>3, <1>6 DEF IsLine

LEMMA FirstIs == First = FirstOf(job)
BY DEF First, FirstOf

-----------------------------------------------------------------------------
(* Every step of a guest keeps it.                                         *)
LEMMA ReadJobKeeps ==
  ASSUME MainInv, ReadJob
  PROVE  MainInv'
<1>1. /\ main = "read" /\ job = None /\ error = "none"
      /\ UNCHANGED <<answerVars, mainVars>>
  BY DEF ReadJob
<1>2. JobInv'
  <2>1. CASE UNCHANGED job
    BY <1>1, <2>1 DEF JobInv
  <2>2. CASE Decode
    <3>1. \/ job' = None
          \/ error' = "none" /\ Decodable(packet) /\ job' = Argv(packet)
      BY <1>1, <2>2 DEF Decode, Decodes
    <3> QED BY <3>1, ArgvIsLine DEF JobInv
  <2> QED BY <2>1, <2>2
        DEF ReadJob, Read, Deliver, Break, Header, Length, Argument, caller
<1> QED BY <1>1, <1>2 DEF MainInv, MainTypeOK, ReadInv, OptionsInv, EndsInv, OutputInv,
                          answerVars, mainVars

LEMMA RefuseKeeps ==
  ASSUME MainInv, Refuse
  PROVE  MainInv'
<1>1. /\ main = "read" /\ job = None
      /\ main' = "failed" /\ status' = NotRun /\ pc' = "finish"
      /\ UNCHANGED <<jobVars, output, file>>
  BY DEF Refuse, Fails125, MainInv, JobInv
<1>2. job' = job /\ error' = error
  BY <1>1 DEF jobVars, vars
<1> QED BY <1>1, <1>2 DEF MainInv, JobInv, MainTypeOK, ReadInv, OptionsInv, EndsInv, OutputInv

LEMMA AnswersKeep ==
  ASSUME MainInv, Answers
  PROVE  MainInv'
<1>1. /\ main \in {"run", "failed"} /\ AnswerNext
      /\ UNCHANGED <<main, consumed, chosen, args, job, error>>
  BY DEF Answers, jobVars, vars, mainVars
<1>2. main = "failed" => status' = status /\ pc' # "program"
  BY <1>1 DEF AnswerNext, Write, MakeFile, Exit, Finish, Lower, Respond, Send, SendFails, Sent,
              MainInv, EndsInv, OutputInv, NotRun
<1>3. OutputInv'
  <2>1. CASE Finish
    <3>1. CASE status = 0 /\ output.asked /\ file = NoFile
      <4>1. /\ output' = [output EXCEPT !.asked = FALSE] /\ file' = file /\ pc' = "respond"
        BY <2>1, <3>1 DEF Finish
      <4> QED BY <1>1, <3>1, <4>1 DEF MainInv, OutputInv
    <3>2. CASE ~(status = 0 /\ output.asked /\ file = NoFile)
      <4>1. /\ pc' = IF status = 0 /\ output.asked /\ output.lower THEN "lower" ELSE "respond"
            /\ UNCHANGED <<output, file, status>>
        BY <2>1, <3>2 DEF Finish
      <4> QED BY <1>1, <3>2, <4>1 DEF MainInv, OutputInv
    <3> QED BY <3>1, <3>2
  <2>2. CASE Lower
    BY <1>1, <2>2 DEF MainInv, OutputInv, Lower
  <2>3. CASE MakeFile
    BY <1>1, <2>3 DEF MainInv, OutputInv, MakeFile
  <2>4. CASE Write \/ Exit \/ Respond \/ Send \/ SendFails \/ Sent
    <3>1. UNCHANGED <<output, file>> /\ pc' # "lower"
      BY <2>4 DEF Write, Exit, Respond, Send, SendFails, Sent
    <3> QED BY <1>1, <3>1 DEF MainInv, OutputInv
  <2> QED BY <1>1, <2>1, <2>2, <2>3, <2>4 DEF AnswerNext
<1> QED BY <1>1, <1>2, <1>3 DEF MainInv, JobInv, MainTypeOK, ReadInv, OptionsInv, EndsInv

(* The first argument without its option is what Left says.                *)
LEMMA SecondRemoved ==
  ASSUME NEW j, IsLine(j), Len(j) > 1
  PROVE  RemoveAt(j, 2) = <<j[1]>> \o SubSeq(j, 3, Len(j))
<1>1. PICK first : first = SubSeq(j, 1, 1)
  OBVIOUS
<1>2. 1 \in DOMAIN j /\ DOMAIN j = 1 .. Len(j)
  BY LenProperties DEF IsLine
<1>3. j[1] \in Strings(j)
  BY <1>2 DEF Strings
<1>4. /\ first \in Seq(Strings(j)) /\ Len(first) = 1 /\ first[1] = j[1]
  <2>1. /\ first \in Seq(Strings(j))
        /\ Len(first) = IF 1 <= 1 THEN 1 - 1 + 1 ELSE 0
        /\ \A k \in 1 .. 1 - 1 + 1 : first[k] = j[1 + k - 1]
    BY <1>1, <1>3, SubSeqProperties DEF IsLine
  <2> QED BY <2>1
<1>5. first = <<j[1]>>
  <2>1. <<j[1]>> \in Seq(Strings(j)) /\ Len(<<j[1]>>) = 1
    BY <1>3
  <2>2. \A k \in 1 .. 1 : first[k] = <<j[1]>>[k]
    BY <1>4
  <2> QED BY <1>4, <2>1, <2>2, SeqEqual
<1>6. RemoveAt(j, 2) = SubSeq(j, 1, 2 - 1) \o SubSeq(j, 2 + 1, Len(j))
  BY DEF RemoveAt
<1> QED BY <1>1, <1>5, <1>6

LEMMA NothingSeen ==
  ASSUME NEW j, NEW what
  PROVE  Seen(j, 2, what) = {} /\ Cardinality(Seen(j, 2, what)) = 0
<1>1. Seen(j, 2, what) = {}
  BY DEF Seen
<1> QED BY <1>1, FS_EmptySet

LEMMA BeginKeeps ==
  ASSUME MainInv, Begin
  PROVE  MainInv'
<1>1. /\ main = "read" /\ job # None /\ IsLine(job)
      /\ UNCHANGED jobVars /\ First = FirstOf(job)
  BY FirstIs DEF Begin, MainInv, JobInv
<1>2. job' = job /\ error' = error
  BY <1>1 DEF jobVars, vars
<1>3. /\ pc = "program" /\ consumed = 1 /\ chosen = Nothing
      /\ output = [asked |-> FALSE, lower |-> FALSE]
      /\ file \in Files \cup {NoFile}
  BY <1>1 DEF MainInv, MainTypeOK, ReadInv, OutputInv
<1>4. JobInv'
  BY <1>2 DEF MainInv, JobInv
<1>5. First.opt # "none" => Len(job) > 1
  BY <1>1, NoneIsNoOption DEF FirstOf
<1>6. CASE Fails125 /\ UNCHANGED output /\ ~Proper(job)
  <2>1. /\ main' = "failed" /\ status' = NotRun /\ pc' = "finish" /\ file' = file
    BY <1>6 DEF Fails125
  <2> QED BY <1>2, <1>3, <1>4, <1>6, <2>1
          DEF MainInv, MainTypeOK, ReadInv, OptionsInv, EndsInv, OutputInv
<1>7. CASE /\ First.opt \in {"copy", "program"} /\ First.good /\ ~First.dash
           /\ main' = "options" /\ consumed' = 2
           /\ chosen' = [chosen EXCEPT !.mode = First.opt]
           /\ output' = [asked |-> TRUE, lower |-> TRUE]
           /\ UNCHANGED <<file, pc>>
  <2>1. Len(job) > 1 /\ Len(job) \in Nat
    BY <1>1, <1>5, <1>7 DEF IsLine
  <2>2. /\ 2 \in 2 .. Len(job) /\ \A at \in 3 .. 2 : FALSE
    BY <2>1
  <2>3. ProperUpTo(job, 2)
    BY <2>2, NothingSeen, MainAssumption DEF ProperUpTo
  <2>4. chosen' = [mode |-> First.opt, arguments |-> 0, objects |-> 0,
                   library |-> FALSE, alone |-> FALSE]
    BY <1>3, <1>7 DEF Nothing
  <2>5. chosen' = [mode |-> FirstOf(job).opt,
                   arguments |-> Cardinality(Seen(job, 2, {"argument"})),
                   objects |-> Cardinality(Seen(job, 2, {"object"})),
                   library |-> Seen(job, 2, {"library"}) # {},
                   alone |-> Seen(job, 2, {"alone"}) # {}]
    <3>1. \A what : Seen(job, 2, what) = {} /\ Cardinality(Seen(job, 2, what)) = 0
      BY NothingSeen
    <3>2. /\ (Seen(job, 2, {"library"}) # {}) = FALSE
          /\ (Seen(job, 2, {"alone"}) # {}) = FALSE
      BY <3>1
    <3>3. /\ Cardinality(Seen(job, 2, {"argument"})) = 0
          /\ Cardinality(Seen(job, 2, {"object"})) = 0
      BY <3>1
    <3> QED BY <1>1, <2>4, <3>2, <3>3
  <2>6. OptionsInv'
    BY <1>1, <1>2, <1>7, <2>1, <2>2, <2>3, <2>5 DEF OptionsInv
  <2>7. OutputInv'
    BY <1>1, <1>2, <1>3, <1>7 DEF OutputInv
  <2> QED BY <1>3, <1>4, <1>7, <2>6, <2>7 DEF MainInv, MainTypeOK, ReadInv, EndsInv
<1>8. CASE /\ First.opt = "result" /\ First.good /\ Runs(RemoveAt(job, 2))
           /\ output' = [asked |-> ~First.dash, lower |-> FALSE]
  <2>1. /\ main' = "run" /\ args' = RemoveAt(job, 2) /\ UNCHANGED <<file, pc, status>>
    BY <1>8 DEF Runs
  <2>2. Proper(job)
    BY <1>1, <1>8, ProperIs
  <2>3. RemoveAt(job, 2) = Left(job)
    <3>1. Len(job) > 1
      BY <1>5, <1>8
    <3>2. RemoveAt(job, 2) = <<job[1]>> \o SubSeq(job, 3, Len(job))
      BY <1>1, <3>1, SecondRemoved
    <3> QED BY <1>1, <1>8, <3>1, <3>2 DEF Left, FirstOf
  <2>4. OutputInv'
    BY <1>1, <1>2, <1>3, <1>8, <2>1 DEF OutputInv
  <2> QED BY <1>1, <1>2, <1>4, <2>1, <2>2, <2>3, <2>4
          DEF MainInv, MainTypeOK, ReadInv, OptionsInv, EndsInv
<1>9. CASE /\ First.opt \notin {"result", "copy", "program"}
           /\ Runs(job) /\ UNCHANGED output
  <2>1. /\ main' = "run" /\ args' = job /\ UNCHANGED <<file, pc, status>>
    BY <1>9 DEF Runs
  <2>2. Proper(job)
    BY <1>1, <1>9, ProperIs
  <2>3. job = Left(job)
    BY <1>1, <1>9 DEF Left, FirstOf
  <2>4. OutputInv'
    BY <1>1, <1>2, <1>3, <1>9, <2>1 DEF OutputInv
  <2> QED BY <1>1, <1>2, <1>4, <2>1, <2>2, <2>3, <2>4
          DEF MainInv, MainTypeOK, ReadInv, OptionsInv, EndsInv
<1>10. First.opt \in {"copy", "program"} /\ (~First.good \/ First.dash) => ~Proper(job)
  BY <1>1, ProperIs
<1>11. First.opt = "result" /\ ~First.good => ~Proper(job)
  BY <1>1, ProperIs
<1>12. First.good \in BOOLEAN /\ First.dash \in BOOLEAN
  BY GoodIsBoolean DEF First
<1> QED BY <1>6, <1>7, <1>8, <1>9, <1>10, <1>11, <1>12 DEF Begin

LEMMA ReadyKeeps ==
  ASSUME MainInv, Ready
  PROVE  MainInv'
<1>1. /\ main = "options" /\ Here.opt \notin Leading
      /\ Runs(<<job[1]>> \o SubSeq(job, consumed + 1, Len(job)))
      /\ UNCHANGED <<output, job, error>>
  BY DEF Ready, jobVars, vars
<1>2. /\ IsLine(job) /\ Len(job) > 1 /\ Len(job) \in Nat
      /\ FirstOf(job).opt \in {"copy", "program"}
      /\ FirstOf(job).good /\ ~FirstOf(job).dash
      /\ consumed \in 2 .. Len(job)
      /\ \A at \in 3 .. consumed : IsLeading(job, at)
      /\ ProperUpTo(job, consumed)
  BY <1>1 DEF MainInv, OptionsInv, IsLine
<1>3. consumed = Len(job) \/ ~IsLeading(job, consumed + 1)
  BY <1>1, <1>2 DEF Here, IsLeading
<1>4. Run(job) = consumed
  <2>1. consumed \in 1 .. Len(job) /\ consumed > 1
    BY <1>2
  <2> QED BY <1>2, <1>3, <2>1, RunIs DEF IsRun
<1>5. Proper(job)
  BY <1>2, <1>4, ProperIs
<1>6. /\ main' = "run" /\ args' = <<job[1]>> \o SubSeq(job, consumed + 1, Len(job))
      /\ UNCHANGED <<file, pc, status>>
  BY <1>1 DEF Runs
<1>7. args' = Left(job)
  BY <1>2, <1>4, <1>6 DEF Left, FirstOf
<1> QED BY <1>1, <1>2, <1>5, <1>6, <1>7
        DEF MainInv, JobInv, MainTypeOK, ReadInv, OptionsInv, EndsInv, OutputInv

(* An option is refused as soon as the line up to it is not proper.        *)
TakenAsSeen(j, k, c) ==
  c = [mode |-> FirstOf(j).opt,
       arguments |-> Cardinality(Seen(j, k, {"argument"})),
       objects |-> Cardinality(Seen(j, k, {"object"})),
       library |-> Seen(j, k, {"library"}) # {},
       alone |-> Seen(j, k, {"alone"}) # {}]

(* The second of a kind that may come once makes two.                      *)
LEMMA OnceIsEnough ==
  ASSUME NEW j, NEW k \in Nat, k >= 2, NEW what, OptionOf(j[k + 1]).opt \in what,
         Cardinality(Seen(j, k, what)) <= 1
  PROVE  Cardinality(Seen(j, k + 1, what)) <= 1 <=> Seen(j, k, what) = {}
<1>1. PICK n \in Nat : n = Cardinality(Seen(j, k, what))
  BY SeenIsFinite
<1>2. n = 0 <=> Seen(j, k, what) = {}
  BY <1>1, SeenIsFinite, FS_EmptySet
<1>3. Cardinality(Seen(j, k + 1, what)) = n + 1
  BY <1>1, SeenMore
<1> QED BY <1>2, <1>3

(* What is one too many for a prefix is so for the whole line.             *)
LEMMA PrefixProper ==
  ASSUME NEW j, NEW k \in Nat, NEW m \in Nat, k <= m, ProperUpTo(j, m)
  PROVE  ProperUpTo(j, k)
<1>1. /\ ArgumentMax \in Nat /\ ObjectMax \in Nat
      /\ \A what : /\ Cardinality(Seen(j, k, what)) \in Nat
                   /\ Cardinality(Seen(j, m, what)) \in Nat
                   /\ Cardinality(Seen(j, k, what)) <= Cardinality(Seen(j, m, what))
                   /\ Seen(j, k, what) \subseteq Seen(j, m, what)
  BY MainAssumption, SeenIsFinite, SeenGrows
<1>2. \A at \in 3 .. k : OptionOf(j[at]).good
  BY DEF ProperUpTo
<1>3. /\ Cardinality(Seen(j, k, {"argument"})) <= ArgumentMax
      /\ Cardinality(Seen(j, k, {"object"})) <= ObjectMax
      /\ Cardinality(Seen(j, k, {"library"})) <= 1
      /\ Cardinality(Seen(j, k, {"alone"})) <= 1
  BY <1>1 DEF ProperUpTo
<1>4. FirstOf(j).opt = "copy" => Seen(j, k, Leading \ {"entry", "argument"}) = {}
  BY <1>1 DEF ProperUpTo
<1> QED BY <1>2, <1>3, <1>4 DEF ProperUpTo

(* The code refuses an option exactly if the line up to it is not proper.  *)
LEMMA RefusedIsImproper ==
  ASSUME NEW j, NEW k \in Nat, k >= 2, IsLeading(j, k + 1),
         FirstOf(j).opt \in {"copy", "program"}, ProperUpTo(j, k), TakenAsSeen(j, k, chosen)
  PROVE  RefusedOption(OptionOf(j[k + 1])) <=> ~ProperUpTo(j, k + 1)
<1>1. PICK o : o = OptionOf(j[k + 1])
  OBVIOUS
<1>2. o.opt \in Leading
  BY <1>1 DEF IsLeading
<1>3. /\ chosen.mode = FirstOf(j).opt
      /\ chosen.arguments = Cardinality(Seen(j, k, {"argument"}))
      /\ chosen.objects = Cardinality(Seen(j, k, {"object"}))
      /\ chosen.library = (Seen(j, k, {"library"}) # {})
      /\ chosen.alone = (Seen(j, k, {"alone"}) # {})
  BY DEF TakenAsSeen
<1>4. (\A at \in 3 .. k + 1 : OptionOf(j[at]).good) <=> o.good
  <2>1. \A at : at \in 3 .. k + 1 <=> at \in 3 .. k \/ at = k + 1
    OBVIOUS
  <2> QED BY <1>1, <2>1 DEF ProperUpTo
<1>5. Cardinality(Seen(j, k + 1, {"argument"})) <= ArgumentMax
        <=> ~(o.opt = "argument" /\ chosen.arguments = ArgumentMax)
  <2>1. PICK n \in Nat : n = Cardinality(Seen(j, k, {"argument"}))
    BY SeenIsFinite
  <2>2. n <= ArgumentMax /\ ArgumentMax \in Nat
    BY <2>1, MainAssumption DEF ProperUpTo
  <2>3. CASE o.opt = "argument"
    <3>1. Cardinality(Seen(j, k + 1, {"argument"})) = n + 1
      BY <1>1, <2>1, <2>3, SeenMore
    <3> QED BY <1>3, <2>1, <2>2, <2>3, <3>1
  <2>4. CASE o.opt # "argument"
    <3>1. Seen(j, k + 1, {"argument"}) = Seen(j, k, {"argument"})
      BY <1>1, <2>4, SeenMore
    <3> QED BY <2>4, <3>1 DEF ProperUpTo
  <2> QED BY <2>3, <2>4
<1>6. Cardinality(Seen(j, k + 1, {"object"})) <= ObjectMax
        <=> ~(o.opt = "object" /\ chosen.objects = ObjectMax)
  <2>1. PICK n \in Nat : n = Cardinality(Seen(j, k, {"object"}))
    BY SeenIsFinite
  <2>2. n <= ObjectMax /\ ObjectMax \in Nat
    BY <2>1, MainAssumption DEF ProperUpTo
  <2>3. CASE o.opt = "object"
    <3>1. Cardinality(Seen(j, k + 1, {"object"})) = n + 1
      BY <1>1, <2>1, <2>3, SeenMore
    <3> QED BY <1>3, <2>1, <2>2, <2>3, <3>1
  <2>4. CASE o.opt # "object"
    <3>1. Seen(j, k + 1, {"object"}) = Seen(j, k, {"object"})
      BY <1>1, <2>4, SeenMore
    <3> QED BY <2>4, <3>1 DEF ProperUpTo
  <2> QED BY <2>3, <2>4
<1>7. Cardinality(Seen(j, k + 1, {"library"})) <= 1 <=> ~(o.opt = "library" /\ chosen.library)
  <2>1. CASE o.opt = "library"
    <3>1. Cardinality(Seen(j, k + 1, {"library"})) <= 1 <=> Seen(j, k, {"library"}) = {}
      BY <1>1, <2>1, OnceIsEnough DEF ProperUpTo
    <3> QED BY <1>3, <2>1, <3>1
  <2>2. CASE o.opt # "library"
    <3>1. Seen(j, k + 1, {"library"}) = Seen(j, k, {"library"})
      BY <1>1, <2>2, SeenMore
    <3> QED BY <2>2, <3>1 DEF ProperUpTo
  <2> QED BY <2>1, <2>2
<1>8. Cardinality(Seen(j, k + 1, {"alone"})) <= 1 <=> ~(o.opt = "alone" /\ chosen.alone)
  <2>1. CASE o.opt = "alone"
    <3>1. Cardinality(Seen(j, k + 1, {"alone"})) <= 1 <=> Seen(j, k, {"alone"}) = {}
      BY <1>1, <2>1, OnceIsEnough DEF ProperUpTo
    <3> QED BY <1>3, <2>1, <3>1
  <2>2. CASE o.opt # "alone"
    <3>1. Seen(j, k + 1, {"alone"}) = Seen(j, k, {"alone"})
      BY <1>1, <2>2, SeenMore
    <3> QED BY <2>2, <3>1 DEF ProperUpTo
  <2> QED BY <2>1, <2>2
<1>9. (FirstOf(j).opt = "copy" => Seen(j, k + 1, Leading \ {"entry", "argument"}) = {})
        <=> ~(o.opt \notin {"entry", "argument"} /\ chosen.mode # "program")
  <2>1. PICK what : what = Leading \ {"entry", "argument"}
    OBVIOUS
  <2>2. CASE o.opt \in what
    <3>1. k + 1 \in Seen(j, k + 1, what)
      BY <1>1, <2>2 DEF Seen
    <3> QED BY <1>2, <1>3, <2>1, <2>2, <3>1
  <2>3. CASE o.opt \notin what
    <3>1. Seen(j, k + 1, what) = Seen(j, k, what)
      BY <1>1, <2>3, SeenMore
    <3> QED BY <1>2, <2>1, <2>3, <3>1 DEF ProperUpTo
  <2> QED BY <2>2, <2>3
<1> QED BY <1>1, <1>4, <1>5, <1>6, <1>7, <1>8, <1>9 DEF RefusedOption, ProperUpTo

LEMMA TakeKeeps ==
  ASSUME MainInv, Take
  PROVE  MainInv'
<1>1. /\ main = "options" /\ Here.opt \in Leading /\ UNCHANGED <<job, error>>
  BY DEF Take, jobVars, vars
<1>2. /\ IsLine(job) /\ Len(job) > 1 /\ Len(job) \in Nat
      /\ FirstOf(job).opt \in {"copy", "program"}
      /\ FirstOf(job).good /\ ~FirstOf(job).dash
      /\ consumed \in 2 .. Len(job)
      /\ \A at \in 3 .. consumed : IsLeading(job, at)
      /\ ProperUpTo(job, consumed) /\ TakenAsSeen(job, consumed, chosen)
  BY <1>1 DEF MainInv, OptionsInv, IsLine, TakenAsSeen
<1>3. consumed \in Nat /\ consumed >= 2 /\ consumed + 1 \in Nat
  BY <1>2
<1>4. consumed < Len(job)
  <2>1. "none" \notin Leading
    BY DEF Leading
  <2> QED BY <1>1, <2>1, NoneIsNoOption DEF Here
<1>5. Here = OptionOf(job[consumed + 1]) /\ IsLeading(job, consumed + 1)
  BY <1>1, <1>4 DEF Here, IsLeading
<1>6. consumed + 1 \in 2 .. Len(job)
  BY <1>2, <1>3, <1>4
<1>7. \A at \in 3 .. consumed + 1 : IsLeading(job, at)
  <2>1. \A at : at \in 3 .. consumed + 1 => at \in 3 .. consumed \/ at = consumed + 1
    BY <1>3
  <2> QED BY <1>2, <1>5, <2>1
<1>8. RefusedOption(Here) <=> ~ProperUpTo(job, consumed + 1)
  BY <1>2, <1>3, <1>5, RefusedIsImproper
<1>9. CASE RefusedOption(Here)
  <2>1. /\ main' = "failed" /\ status' = NotRun /\ pc' = "finish" /\ UNCHANGED <<file, output>>
    BY <1>9 DEF Take, Fails125
  <2>2. ~Proper(job)
    <3>1. Run(job) \in consumed + 1 .. Len(job)
      BY <1>2, <1>6, <1>7, RunBeyond
    <3>2. Run(job) \in Nat /\ consumed + 1 <= Run(job)
      BY <1>3, <3>1
    <3>3. ~ProperUpTo(job, Run(job))
      BY <1>3, <1>8, <1>9, <3>2, PrefixProper
    <3> QED BY <1>2, <3>3, ProperIs
  <2> QED BY <1>1, <2>1, <2>2
          DEF MainInv, JobInv, MainTypeOK, ReadInv, OptionsInv, EndsInv, OutputInv
<1>10. CASE ~RefusedOption(Here)
  <2>1. /\ consumed' = consumed + 1
        /\ chosen' = [chosen EXCEPT
             !.arguments = @ + (IF Here.opt = "argument" THEN 1 ELSE 0),
             !.objects = @ + (IF Here.opt = "object" THEN 1 ELSE 0),
             !.library = @ \/ Here.opt = "library",
             !.alone = @ \/ Here.opt = "alone"]
        /\ UNCHANGED <<main, args, answerVars>>
    BY <1>10 DEF Take
  <2>2. PICK o : o = Here
    OBVIOUS
  <2>3. chosen' = [mode |-> FirstOf(job).opt,
                   arguments |-> Cardinality(Seen(job, consumed, {"argument"}))
                                   + (IF o.opt = "argument" THEN 1 ELSE 0),
                   objects |-> Cardinality(Seen(job, consumed, {"object"}))
                                 + (IF o.opt = "object" THEN 1 ELSE 0),
                   library |-> Seen(job, consumed, {"library"}) # {} \/ o.opt = "library",
                   alone |-> Seen(job, consumed, {"alone"}) # {} \/ o.opt = "alone"]
    BY <1>2, <2>1, <2>2, ZenonT(60) DEF TakenAsSeen
  <2>4. ASSUME NEW what
        PROVE  Cardinality(Seen(job, consumed + 1, {what}))
                 = Cardinality(Seen(job, consumed, {what})) + (IF o.opt = what THEN 1 ELSE 0)
    <3>1. PICK n \in Nat : n = Cardinality(Seen(job, consumed, {what}))
      BY <1>3, SeenIsFinite
    <3>2. CASE o.opt = what
      <4>1. Cardinality(Seen(job, consumed + 1, {what})) = n + 1
        BY <1>3, <1>5, <2>2, <3>1, <3>2, SeenMore
      <4> QED BY <3>1, <3>2, <4>1
    <3>3. CASE o.opt # what
      <4>1. Seen(job, consumed + 1, {what}) = Seen(job, consumed, {what})
        BY <1>3, <1>5, <2>2, <3>3, SeenMore
      <4>2. Cardinality(Seen(job, consumed + 1, {what})) = n
        BY <3>1, <4>1
      <4>3. n + 0 = n
        OBVIOUS
      <4> QED BY <3>1, <3>3, <4>2, <4>3
    <3> QED BY <3>2, <3>3
  <2>5. ASSUME NEW what
        PROVE  (Seen(job, consumed + 1, {what}) # {})
                 = (Seen(job, consumed, {what}) # {} \/ o.opt = what)
    <3>1. CASE o.opt = what
      <4>1. Seen(job, consumed + 1, {what}) = Seen(job, consumed, {what}) \cup {consumed + 1}
        BY <1>3, <1>5, <2>2, <3>1, SeenMore, SMTT(60)
      <4> QED BY <3>1, <4>1
    <3>2. CASE o.opt # what
      <4>1. Seen(job, consumed + 1, {what}) = Seen(job, consumed, {what})
        BY <1>3, <1>5, <2>2, <3>2, SeenMore
      <4> QED BY <3>2, <4>1
    <3> QED BY <3>1, <3>2
  <2>6. TakenAsSeen(job, consumed + 1, chosen')
    BY <2>3, <2>4, <2>5 DEF TakenAsSeen
  <2>7. OptionsInv'
    BY <1>1, <1>2, <1>6, <1>7, <1>8, <1>10, <2>1, <2>6 DEF OptionsInv, TakenAsSeen
  <2> QED BY <1>1, <2>1, <2>7
          DEF MainInv, JobInv, MainTypeOK, ReadInv, EndsInv, OutputInv, answerVars
<1> QED BY <1>9, <1>10

(* What a guest does before its program runs leaves the answer alone, but  *)
(* for the message about a bad job and the end without a program.          *)
LEMMA BeforeKeeps ==
  ASSUME AnswerInv, MainInv, Refuse \/ Begin \/ Take \/ Ready
  PROVE  AnswerInv'
<1>1. pc = "program"
  BY DEF Refuse, Begin, Take, Ready, MainInv, MainTypeOK
<1>2. left = <<>> /\ sent = <<>>
  BY <1>1 DEF AnswerInv, SentInv
<1>3. Invalid \in Cells /\ NotRun \in Nat
  BY MainAssumption DEF Cells, NotRun
<1>4. output' \in [asked : BOOLEAN, lower : BOOLEAN]
  <2>1. First.dash \in BOOLEAN
    BY GoodIsBoolean DEF First
  <2>2. (~First.dash) \in BOOLEAN
    BY <2>1
  <2>3. \/ output' = output
        \/ output' = [asked |-> TRUE, lower |-> TRUE]
        \/ output' = [asked |-> ~First.dash, lower |-> FALSE]
    BY DEF Refuse, Begin, Take, Ready, answerVars
  <2>4. CASE output' = [asked |-> ~First.dash, lower |-> FALSE]
    <3>1. PICK asked \in BOOLEAN : asked = ~First.dash
      BY <2>2
    <3>2. [asked |-> asked, lower |-> FALSE] \in [asked : BOOLEAN, lower : BOOLEAN]
      OBVIOUS
    <3> QED BY <2>4, <3>1, <3>2, Zenon
  <2>5. CASE output' = output
    BY <2>5 DEF AnswerInv, AnswerTypeOK
  <2>6. CASE output' = [asked |-> TRUE, lower |-> TRUE]
    BY <2>6
  <2> QED BY <2>3, <2>4, <2>5, <2>6, Zenon
<1>5. /\ UNCHANGED captured \/ Captures(2, Invalid)
      /\ \/ UNCHANGED <<pc, status>>
         \/ pc' = "finish" /\ status' = NotRun
      /\ UNCHANGED <<file, left, sent, code>>
  BY DEF Refuse, Begin, Take, Ready, Fails125, Runs, answerVars
<1>6. CapturedInv'
  <2>1. CASE UNCHANGED captured
    BY <2>1 DEF AnswerInv, CapturedInv
  <2>2. CASE Captures(2, Invalid)
    BY <1>3, <2>2, CapturesKeep DEF AnswerInv
  <2> QED BY <1>5, <2>1, <2>2
<1>7. AnswerTypeOK' /\ FileInv' /\ SentInv'
  BY <1>1, <1>2, <1>3, <1>4, <1>5 DEF AnswerInv, AnswerTypeOK, FileInv, SentInv
<1> QED BY <1>6, <1>7 DEF AnswerInv

GuestInv == AnswerInv /\ MainInv

LEMMA GuestStarts == GuestInit => GuestInv
<1> SUFFICES ASSUME GuestInit PROVE GuestInv
  OBVIOUS
<1>1. AnswerInv
  BY AnswerStarts DEF GuestInit
<1>2. MainInv
  BY DEF GuestInit, Init, AnswerInit, MainInv, JobInv, MainTypeOK, ReadInv, OptionsInv,
         EndsInv, OutputInv
<1> QED BY <1>1, <1>2 DEF GuestInv

LEMMA GuestNextKeeps == GuestInv /\ GuestNext => GuestInv'
<1> SUFFICES ASSUME AnswerInv, MainInv, GuestNext PROVE AnswerInv' /\ MainInv'
  BY DEF GuestInv
<1>1. CASE ReadJob
  BY <1>1, ReadJobKeeps, AnswerStays DEF ReadJob
<1>2. CASE Refuse
  BY <1>2, RefuseKeeps, BeforeKeeps
<1>3. CASE Begin
  BY <1>3, BeginKeeps, BeforeKeeps
<1>4. CASE Take
  BY <1>4, TakeKeeps, BeforeKeeps
<1>5. CASE Ready
  BY <1>5, ReadyKeeps, BeforeKeeps
<1>6. CASE Answers
  BY <1>6, AnswersKeep, AnswerNextKeeps DEF Answers
<1> QED BY <1>1, <1>2, <1>3, <1>4, <1>5, <1>6 DEF GuestNext

LEMMA GuestStays == GuestInv /\ UNCHANGED guestVars => GuestInv'
<1> SUFFICES ASSUME AnswerInv, MainInv, UNCHANGED guestVars PROVE AnswerInv' /\ MainInv'
  BY DEF GuestInv
<1>1. UNCHANGED answerVars
  BY DEF guestVars
<1> QED BY <1>1, AnswerStays DEF guestVars, jobVars, vars, answerVars, mainVars, MainInv,
      JobInv, MainTypeOK, ReadInv, OptionsInv, EndsInv, OutputInv

LEMMA InvRuns == GuestInv => RunsAsAsked
<1> SUFFICES ASSUME AnswerInv, MainInv PROVE RunsAsAsked
  BY DEF GuestInv
<1>1. /\ main = "run" => job # None /\ Proper(job) /\ args = Left(job)
      /\ main = "failed" => job = None \/ ~Proper(job)
  BY LineIsThere DEF MainInv, EndsInv
<1>2. ASSUME AnswerDecodable(sent)
      PROVE  /\ main = "failed" => Decoded(sent).status = NotRun
             /\ Decoded(sent).file # <<>> =>
                  /\ main = "run" /\ Decoded(sent).status = 0
                  /\ OptionOf(job[2]).opt \in {"result", "copy", "program"}
                  /\ ~OptionOf(job[2]).dash
                  /\ Decoded(sent).file \in Images \ Files =>
                       OptionOf(job[2]).opt \in {"copy", "program"}
  <2>1. /\ pc \in {"send", "exited"}
        /\ Decoded(sent) = [status |-> status, out |-> captured[1], err |-> captured[2],
                            file |-> AnswerFile]
    BY <1>2, DecodesWhole
  <2>2. Decoded(sent).status = status /\ Decoded(sent).file = AnswerFile
    BY <2>1
  <2>3. main = "failed" => Decoded(sent).status = NotRun
    BY <2>2 DEF MainInv, EndsInv
  <2>4. ASSUME AnswerFile # <<>>
        PROVE  /\ main = "run" /\ status = 0
               /\ OptionOf(job[2]).opt \in {"result", "copy", "program"}
               /\ ~OptionOf(job[2]).dash
               /\ AnswerFile \in Images \ Files => OptionOf(job[2]).opt \in {"copy", "program"}
    <3>1. status = 0 /\ output.asked /\ AnswerFile = file
      BY <2>4 DEF AnswerFile
    <3>2. main = "run"
      BY <2>1, <3>1 DEF MainInv, MainTypeOK, EndsInv, NotRun
    <3>3. FirstOf(job).opt \in {"result", "copy", "program"} /\ ~FirstOf(job).dash
      BY <3>1 DEF MainInv, OutputInv
    <3>4. FirstOf(job) = OptionOf(job[2])
      BY <3>3, NoneIsNoOption DEF FirstOf
    <3>5. ASSUME file \in Images \ Files PROVE FirstOf(job).opt \in {"copy", "program"}
      <4>1. file # NoFile
        BY <3>5, NoFileIsNone, MessagesAreCells
      <4> QED BY <3>5, <4>1 DEF MainInv, OutputInv
    <3> QED BY <3>1, <3>2, <3>3, <3>4, <3>5
  <2> QED BY <2>2, <2>3, <2>4
<1> QED BY <1>1, <1>2 DEF RunsAsAsked

(* A program runs only with a job that was read and with options that are  *)
(* all allowed, any other guest answers 125 (__wrap_main of main.c).       *)
THEOREM GuestRunsAsAsked == GuestSpec => []RunsAsAsked
BY GuestStarts, GuestNextKeeps, GuestStays, InvRuns, PTL DEF GuestSpec

(* The answer of a whole guest, with or without a program that ran, keeps  *)
(* what AnswersAreWhole and CodesAreTold say of an answer by itself.       *)
THEOREM GuestAnswersWhole == GuestSpec => [](WholeOrNothing /\ ExitTells)
<1>1. GuestInv => WholeOrNothing /\ ExitTells
  BY InvIsWhole, InvTells DEF GuestInv
<1> QED BY <1>1, GuestStarts, GuestNextKeeps, GuestStays, PTL DEF GuestSpec

-----------------------------------------------------------------------------
(* A job that is read: one packet, all of it.                              *)
LEMMA Induction ==
  ASSUME NEW S, 0 \in S, \A n \in Nat : n \in S => n + 1 \in S
  PROVE  Nat \subseteq S
<1> SUFFICES ASSUME Nat \ S # {} PROVE FALSE
  OBVIOUS
<1>1. PICK m \in Nat \ S : \A n \in Nat \ S : m <= n
  BY LeastNumber
<1>2. m # 0 /\ m - 1 \in Nat /\ (m - 1) + 1 = m /\ ~(m <= m - 1)
  BY <1>1
<1>3. m - 1 \in S
  BY <1>1, <1>2
<1> QED BY <1>1, <1>2, <1>3

(* The loop of cs_gcc_job_decode over the arguments.                       *)
EndStep(p, before, k) ==
  IF before = -1 \/ Len(p) - FileCells(p) - before < 1 THEN -1
  ELSE LET at == before + 1
           text == SubSeq(p, at + 1, at + p[at])
       IN  IF \/ p[at] > LengthMax \/ p[at] > Len(p) - FileCells(p) - at
              \/ k = 1 /\ p[at] = 0
              \/ \E c \in 1 .. Len(text) : text[c] = Nul
           THEN -1 ELSE at + p[at]

IsEnds(p, n, ends) ==
  ends = [k \in 0 .. n |-> IF k = 0 THEN HeaderCells ELSE EndStep(p, ends[k - 1], k)]

LEMMA EndsExist ==
  ASSUME NEW p, NEW n \in Nat
  PROVE  \E ends : IsEnds(p, n, ends)
<1> DEFINE S == {m \in Nat : \E ends : IsEnds(p, m, ends)}
<1>1. 0 \in S
  <2>1. IsEnds(p, 0, [k \in 0 .. 0 |-> HeaderCells])
    BY DEF IsEnds
  <2> QED BY <2>1
<1>2. ASSUME NEW m \in Nat, m \in S
      PROVE  m + 1 \in S
  <2>1. PICK ends : IsEnds(p, m, ends)
    BY <1>2
  <2> DEFINE next == [k \in 0 .. (m + 1) |->
                        IF k = m + 1 THEN EndStep(p, ends[m], k) ELSE ends[k]]
  <2>2. \A k \in 0 .. (m + 1) :
          next[k] = IF k = 0 THEN HeaderCells ELSE EndStep(p, next[k - 1], k)
    <3> TAKE k \in 0 .. (m + 1)
    <3>1. CASE k = m + 1
      BY <3>1
    <3>2. CASE k # m + 1 /\ k # 0
      <4>1. k \in 0 .. m /\ k - 1 \in 0 .. m
        BY <3>2
      <4>2. next[k] = ends[k] /\ next[k - 1] = ends[k - 1]
        BY <4>1
      <4> QED BY <2>1, <3>2, <4>1, <4>2 DEF IsEnds
    <3>3. CASE k = 0
      BY <2>1, <3>3 DEF IsEnds
    <3> QED BY <3>1, <3>2, <3>3
  <2>3. IsEnds(p, m + 1, next)
    BY <2>2 DEF IsEnds
  <2> QED BY <2>3
<1> HIDE DEF S
<1>3. Nat \subseteq S
  BY <1>1, <1>2, Induction
<1> QED BY <1>3 DEF S

LEMMA EndsAre ==
  ASSUME NEW p, Argc(p) \in Nat
  PROVE  IsEnds(p, Argc(p), Ends(p))
<1>1. Ends(p) = CHOOSE ends : IsEnds(p, Argc(p), ends)
  BY DEF Ends, IsEnds, EndStep
<1> QED BY <1>1, EndsExist

(* The parts of a sequence, one behind the other.                          *)
IsFlat(s, n, flat) == flat = [k \in 1 .. n |-> IF k = 1 THEN s[k] ELSE flat[k - 1] \o s[k]]

LEMMA FlatExists ==
  ASSUME NEW s, NEW n \in Nat
  PROVE  \E flat : IsFlat(s, n, flat)
<1> DEFINE S == {m \in Nat : \E flat : IsFlat(s, m, flat)}
<1>1. 0 \in S
  <2>1. IsFlat(s, 0, [k \in 1 .. 0 |-> s])
    BY DEF IsFlat
  <2> QED BY <2>1
<1>2. ASSUME NEW m \in Nat, m \in S
      PROVE  m + 1 \in S
  <2>1. PICK flat : IsFlat(s, m, flat)
    BY <1>2
  <2> DEFINE next == [k \in 1 .. (m + 1) |->
                        IF k # m + 1 THEN flat[k] ELSE IF k = 1 THEN s[k] ELSE flat[m] \o s[k]]
  <2>2. \A k \in 1 .. (m + 1) : next[k] = IF k = 1 THEN s[k] ELSE next[k - 1] \o s[k]
    <3> TAKE k \in 1 .. (m + 1)
    <3>1. CASE k = m + 1
      BY <3>1
    <3>2. CASE k # m + 1 /\ k # 1
      <4>1. k \in 1 .. m /\ k - 1 \in 1 .. m
        BY <3>2
      <4>2. next[k] = flat[k] /\ next[k - 1] = flat[k - 1]
        BY <4>1
      <4> QED BY <2>1, <3>2, <4>1, <4>2 DEF IsFlat
    <3>3. CASE k # m + 1 /\ k = 1
      BY <2>1, <3>3 DEF IsFlat
    <3> QED BY <3>1, <3>2, <3>3
  <2>3. IsFlat(s, m + 1, next)
    BY <2>2 DEF IsFlat
  <2> QED BY <2>3
<1> HIDE DEF S
<1>3. Nat \subseteq S
  BY <1>1, <1>2, Induction
<1> QED BY <1>3 DEF S

LEMMA FlattenIs ==
  ASSUME NEW s, NEW n \in Nat, Len(s) = n, n >= 1
  PROVE  \E flat : IsFlat(s, n, flat) /\ FlattenSeq(s) = flat[n]
<1> DEFINE flat == CHOOSE f : IsFlat(s, n, f)
<1>1. IsFlat(s, n, flat)
  BY FlatExists
<1>2. FlattenSeq(s) = flat[n]
  BY DEF FlattenSeq, IsFlat
<1> HIDE DEF flat
<1> QED BY <1>1, <1>2

(* In a packet that is good no end is refused, and they grow to the files. *)
GoodEnds(p, n, end, e) ==
  /\ e[0] = HeaderCells /\ e[n] = end
  /\ \A k \in 0 .. n : e[k] \in HeaderCells .. end
  /\ \A k \in 1 .. n : /\ e[k - 1] + 1 \in HeaderCells + 1 .. end
                       /\ p[e[k - 1] + 1] \in Nat
                       /\ e[k] = e[k - 1] + 1 + p[e[k - 1] + 1]

LEMMA StepOfEnds ==
  ASSUME NEW p \in Cells, NEW end \in Nat, end <= Len(p), end = Len(p) - FileCells(p),
         NEW before, NEW k, EndStep(p, before, k) # -1
  PROVE  /\ before # -1
         /\ before \in HeaderCells .. end =>
              /\ before + 1 \in HeaderCells + 1 .. end /\ p[before + 1] \in Nat
              /\ EndStep(p, before, k) = before + 1 + p[before + 1]
              /\ EndStep(p, before, k) \in HeaderCells .. end
<1>1. /\ before # -1 /\ ~(end - before < 1)
      /\ ~(p[before + 1] > end - (before + 1))
      /\ EndStep(p, before, k) = (before + 1) + p[before + 1]
  BY DEF EndStep
<1>2. ASSUME before \in HeaderCells .. end
      PROVE  /\ before + 1 \in HeaderCells + 1 .. end /\ p[before + 1] \in Nat
             /\ EndStep(p, before, k) = before + 1 + p[before + 1]
             /\ EndStep(p, before, k) \in HeaderCells .. end
  <2>1. before \in Nat /\ before + 1 \in HeaderCells + 1 .. end /\ Len(p) \in Nat
    BY <1>1, <1>2, LenProperties DEF HeaderCells, Cells
  <2>2. before + 1 \in 1 .. Len(p)
    BY <2>1 DEF HeaderCells
  <2>3. p[before + 1] \in Nat
    BY <2>2, ElementOfSeq DEF Cells
  <2> QED BY <1>1, <2>1, <2>3 DEF HeaderCells
<1> QED BY <1>1, <1>2

LEMMA EndsAreGood ==
  ASSUME NEW p \in Cells, Decodable(p)
  PROVE  /\ Argc(p) \in Nat /\ Argc(p) >= 1 /\ FileCells(p) \in Nat
         /\ Len(p) - FileCells(p) \in HeaderCells .. Len(p)
         /\ GoodEnds(p, Argc(p), Len(p) - FileCells(p), Ends(p))
<1>1. Len(p) \in Nat /\ Len(p) >= HeaderCells /\ Argc(p) \in 1 .. ArgMax /\ ArgMax \in Nat
      /\ FileCells(p) <= Len(p) - HeaderCells
  BY JobAssumption, LenProperties DEF Decodable, Cells, HeaderCells
<1>2. PICK n : n = Argc(p)
  OBVIOUS
<1>3. n \in Nat /\ n >= 1
  BY <1>1, <1>2
<1>4. FileCells(p) \in Nat
  <2>1. 3 \in 1 .. Len(p)
    BY <1>1 DEF HeaderCells
  <2> QED BY <2>1, ElementOfSeq DEF FileCells, Cells
<1>5. PICK end : end = Len(p) - FileCells(p)
  OBVIOUS
<1>6. end \in HeaderCells .. Len(p) /\ end \in Nat
  BY <1>1, <1>4, <1>5 DEF HeaderCells
<1>7. PICK e : e = Ends(p)
  OBVIOUS
<1>8. IsEnds(p, n, e)
  BY <1>2, <1>3, <1>7, EndsAre
<1>9. e[n] = end
  BY <1>2, <1>5, <1>7 DEF Decodable
<1>10. /\ e[0] = HeaderCells
       /\ \A k \in 1 .. n : e[k] = EndStep(p, e[k - 1], k)
  <2>1. 0 \in 0 .. n /\ \A k \in 1 .. n : k \in 0 .. n /\ k # 0
    BY <1>3
  <2> QED BY <1>8, <2>1 DEF IsEnds
<1>11. \A k \in 0 .. n : e[n - k] # -1
  <2> DEFINE S == {k \in Nat : k <= n => e[n - k] # -1}
  <2>1. 0 \in S
    <3>1. e[n - 0] # -1
      BY <1>3, <1>6, <1>9 DEF HeaderCells
    <3> QED BY <3>1
  <2>2. ASSUME NEW k \in Nat, k \in S
        PROVE  k + 1 \in S
    <3> SUFFICES ASSUME k + 1 <= n PROVE e[n - (k + 1)] # -1
      OBVIOUS
    <3>1. n - k \in 1 .. n /\ (n - k) - 1 = n - (k + 1)
      BY <1>3
    <3>2. e[n - k] # -1
      BY <1>3, <2>2
    <3>3. EndStep(p, e[n - (k + 1)], n - k) # -1
      BY <1>10, <3>1, <3>2
    <3> QED BY <3>3 DEF EndStep
  <2> HIDE DEF S
  <2>3. Nat \subseteq S
    BY <2>1, <2>2, Induction
  <2> QED BY <1>3, <2>3 DEF S
<1>12. \A k \in 0 .. n : e[k] # -1
  <2> TAKE k \in 0 .. n
  <2>1. n - k \in 0 .. n /\ n - (n - k) = k
    BY <1>3
  <2> QED BY <1>11, <2>1
<1>13. \A k \in 1 .. n : EndStep(p, e[k - 1], k) # -1
  <2> TAKE k \in 1 .. n
  <2>1. k \in 0 .. n
    BY <1>3
  <2> QED BY <1>10, <1>12, <2>1
<1>14. \A k \in 0 .. n : e[k] \in HeaderCells .. end
  <2> DEFINE S == {k \in Nat : k <= n => e[k] \in HeaderCells .. end}
  <2>1. 0 \in S
    BY <1>6, <1>10 DEF HeaderCells
  <2>2. ASSUME NEW k \in Nat, k \in S
        PROVE  k + 1 \in S
    <3> SUFFICES ASSUME k + 1 <= n PROVE e[k + 1] \in HeaderCells .. end
      OBVIOUS
    <3>1. k + 1 \in 1 .. n /\ (k + 1) - 1 = k
      BY <1>3
    <3>2. e[k] \in HeaderCells .. end
      BY <1>3, <2>2
    <3>3. EndStep(p, e[k], k + 1) # -1 /\ e[k + 1] = EndStep(p, e[k], k + 1)
      BY <1>10, <1>13, <3>1
    <3>4. end <= Len(p)
      BY <1>1, <1>6
    <3> QED BY <1>5, <1>6, <3>2, <3>3, <3>4, StepOfEnds
  <2> HIDE DEF S
  <2>3. Nat \subseteq S
    BY <2>1, <2>2, Induction
  <2> QED BY <2>3 DEF S
<1>15. ASSUME NEW k \in 1 .. n
       PROVE  /\ e[k - 1] + 1 \in HeaderCells + 1 .. end
              /\ p[e[k - 1] + 1] \in Nat
              /\ e[k] = e[k - 1] + 1 + p[e[k - 1] + 1]
  <2>1. k - 1 \in 0 .. n
    BY <1>3
  <2>2. e[k - 1] \in HeaderCells .. end
    BY <1>14, <2>1
  <2>3. EndStep(p, e[k - 1], k) # -1 /\ e[k] = EndStep(p, e[k - 1], k)
    BY <1>10, <1>13
  <2>4. end <= Len(p)
    BY <1>1, <1>6
  <2> QED BY <1>5, <1>6, <2>2, <2>3, <2>4, StepOfEnds
<1>16. GoodEnds(p, n, end, e)
  BY <1>9, <1>10, <1>14, <1>15 DEF GoodEnds
<1> QED BY <1>2, <1>3, <1>4, <1>5, <1>6, <1>7, <1>16

(* Adjacent parts of a packet make one part.                               *)
LEMMA Adjacent ==
  ASSUME NEW p \in Cells, NEW m \in Nat, NEW k \in Nat, NEW n \in Nat,
         1 <= m, m <= k + 1, k <= n, n <= Len(p)
  PROVE  SubSeq(p, m, k) \o SubSeq(p, k + 1, n) = SubSeq(p, m, n)
<1>1. Len(p) \in Nat
  BY LenProperties DEF Cells
<1>2. m \in 1 .. Len(p) + 1 /\ k \in m - 1 .. Len(p) /\ n \in k .. Len(p)
  BY <1>1
<1> QED BY <1>2, ConcatAdjacentSubSeq DEF Cells

LEMMA PartOf ==
  ASSUME NEW p \in Cells, NEW m \in Nat, NEW n \in Nat, 1 <= m, m <= n + 1, n <= Len(p)
  PROVE  /\ SubSeq(p, m, n) \in Cells /\ Len(SubSeq(p, m, n)) = n - m + 1
         /\ \A k \in 1 .. n - m + 1 : SubSeq(p, m, n)[k] = p[m + k - 1]
<1>1. Len(p) \in Nat
  BY LenProperties DEF Cells
<1>2. \A k \in m .. n : p[k] \in Nat
  BY <1>1, ElementOfSeq DEF Cells
<1>3. /\ SubSeq(p, m, n) \in Seq(Nat)
      /\ Len(SubSeq(p, m, n)) = IF m <= n THEN n - m + 1 ELSE 0
      /\ \A k \in 1 .. n - m + 1 : SubSeq(p, m, n)[k] = p[m + k - 1]
  BY <1>2, SubSeqProperties
<1>4. m <= n \/ n - m + 1 = 0
  OBVIOUS
<1> QED BY <1>3, <1>4 DEF Cells

LEMMA OneCell ==
  ASSUME NEW p \in Cells, NEW at \in Nat, 1 <= at, at <= Len(p)
  PROVE  SubSeq(p, at, at) = <<p[at]>>
<1>1. PICK one : one = SubSeq(p, at, at)
  OBVIOUS
<1>2. one \in Cells /\ Len(one) = at - at + 1 /\ \A k \in 1 .. at - at + 1 : one[k] = p[at + k - 1]
  <2>1. at <= at + 1
    OBVIOUS
  <2> QED BY <1>1, <2>1, PartOf
<1>3. at - at + 1 = 1 /\ at + 1 - 1 = at
  OBVIOUS
<1>4. Len(one) = 1 /\ one[1] = p[at]
  BY <1>2, <1>3
<1>5. p[at] \in Nat
  BY ElementOfSeq, LenProperties DEF Cells
<1>6. <<p[at]>> \in Cells /\ Len(<<p[at]>>) = 1
  BY <1>5 DEF Cells
<1>7. one = <<p[at]>>
  BY <1>2, <1>4, <1>6, SeqEqual DEF Cells
<1> QED BY <1>1, <1>7

LEMMA HeadCells ==
  ASSUME NEW p \in Cells, Len(p) >= HeaderCells
  PROVE  SubSeq(p, 1, HeaderCells) = <<p[1], p[2], p[3]>>
<1>1. PICK h : h = SubSeq(p, 1, 3)
  OBVIOUS
<1>2. Len(p) \in Nat /\ p[1] \in Nat /\ p[2] \in Nat /\ p[3] \in Nat
  BY ElementOfSeq, LenProperties DEF Cells, HeaderCells
<1>3. h \in Cells /\ Len(h) = 3 - 1 + 1 /\ \A k \in 1 .. 3 - 1 + 1 : h[k] = p[1 + k - 1]
  BY <1>1, <1>2, PartOf DEF HeaderCells
<1>4. Len(h) = 3 /\ h[1] = p[1] /\ h[2] = p[2] /\ h[3] = p[3]
  BY <1>3
<1>5. /\ <<p[1], p[2], p[3]>> \in Cells /\ Len(<<p[1], p[2], p[3]>>) = 3
      /\ \A k \in 1 .. 3 : h[k] = <<p[1], p[2], p[3]>>[k]
  BY <1>2, <1>4 DEF Cells
<1>6. h = <<p[1], p[2], p[3]>>
  BY <1>3, <1>4, <1>5, SeqEqual DEF Cells
<1> QED BY <1>1, <1>6 DEF HeaderCells

(* A packet that is good is the packet of its arguments and files.         *)
LEMMA DecodedIsPacket ==
  ASSUME NEW p \in Cells, Decodable(p)
  PROVE  p = Packet(Argv(p), Blob(p))
<1>1. PICK n, end, e : n = Argc(p) /\ end = Len(p) - FileCells(p) /\ e = Ends(p)
  OBVIOUS
<1>2. /\ n \in Nat /\ n >= 1 /\ FileCells(p) \in Nat /\ Len(p) \in Nat
      /\ end \in HeaderCells .. Len(p) /\ end \in Nat /\ GoodEnds(p, n, end, e)
  <2>1. /\ n \in Nat /\ n >= 1 /\ FileCells(p) \in Nat /\ Len(p) \in Nat
        /\ end \in HeaderCells .. Len(p) /\ GoodEnds(p, n, end, e)
    BY <1>1, EndsAreGood, LenProperties DEF Cells
  <2> QED BY <2>1 DEF HeaderCells
<1>3. PICK argv, blob : argv = Argv(p) /\ blob = Blob(p)
  OBVIOUS
<1>4. argv = [k \in 1 .. n |-> SubSeq(p, e[k - 1] + 2, e[k])]
  BY <1>1, <1>3 DEF Argv
<1>5. ASSUME NEW k \in 1 .. n
      PROVE  <<Len(argv[k])>> \o argv[k] = SubSeq(p, e[k - 1] + 1, e[k])
  <2>1. PICK at : at = e[k - 1] + 1
    OBVIOUS
  <2>2. /\ at \in Nat /\ 1 <= at /\ at <= end /\ p[at] \in Nat /\ e[k] = at + p[at]
        /\ e[k] <= end /\ e[k] \in Nat
    <3>1. k \in 0 .. n
      BY <1>2
    <3>2. e[k] \in HeaderCells .. end
      BY <1>2, <3>1 DEF GoodEnds
    <3>3. at \in HeaderCells + 1 .. end /\ p[at] \in Nat /\ e[k] = at + p[at]
      BY <1>2, <2>1 DEF GoodEnds
    <3> QED BY <1>2, <3>2, <3>3 DEF HeaderCells
  <2>3. argv[k] = SubSeq(p, at + 1, e[k])
    <3>1. e[k - 1] + 2 = at + 1
      <4>1. k - 1 \in 0 .. n
        BY <1>2
      <4>2. e[k - 1] \in HeaderCells .. end
        BY <1>2, <4>1 DEF GoodEnds
      <4> QED BY <1>2, <2>1, <4>2 DEF HeaderCells
    <3> QED BY <1>4, <3>1
  <2>4. end <= Len(p)
    BY <1>2
  <2>5. Len(argv[k]) = p[at]
    <3>1. Len(SubSeq(p, at + 1, e[k])) = e[k] - (at + 1) + 1
      BY <1>2, <2>2, <2>4, PartOf
    <3>2. e[k] - (at + 1) + 1 = p[at]
      BY <2>2
    <3> QED BY <2>3, <3>1, <3>2
  <2>6. SubSeq(p, at, at) = <<p[at]>>
    BY <1>2, <2>2, <2>4, OneCell
  <2>7. SubSeq(p, at, at) \o SubSeq(p, at + 1, e[k]) = SubSeq(p, at, e[k])
    <3>1. PICK to : to = e[k]
      OBVIOUS
    <3>2. to \in Nat /\ at <= at + 1 /\ at <= to /\ to <= Len(p)
      BY <1>2, <2>2, <2>4, <3>1
    <3>3. SubSeq(p, at, at) \o SubSeq(p, at + 1, to) = SubSeq(p, at, to)
      BY <2>2, <3>2, Adjacent
    <3> QED BY <3>1, <3>3
  <2> QED BY <2>1, <2>3, <2>5, <2>6, <2>7
<1>6. Len(argv) = n
  BY <1>2, <1>4
<1>7. PICK parts : parts = [k \in 1 .. n |-> SubSeq(p, e[k - 1] + 1, e[k])]
  OBVIOUS
<1>8. Len(parts) = n
  BY <1>2, <1>7
<1>9. parts = [k \in 1 .. Len(argv) |-> <<Len(argv[k])>> \o argv[k]]
  BY <1>5, <1>6, <1>7
<1>10. PICK flat : IsFlat(parts, n, flat) /\ FlattenSeq(parts) = flat[n]
  BY <1>2, <1>8, FlattenIs
<1>11. flat[n] = SubSeq(p, HeaderCells + 1, end)
  <2> DEFINE S == {k \in Nat : k + 1 <= n => flat[k + 1] = SubSeq(p, HeaderCells + 1, e[k + 1])}
  <2>1. 0 \in S
    <3>1. flat[1] = parts[1] /\ parts[1] = SubSeq(p, e[0] + 1, e[1])
      <4>1. 1 \in 1 .. n /\ 1 - 1 = 0
        BY <1>2
      <4>2. flat[1] = parts[1]
        BY <1>10, <4>1 DEF IsFlat
      <4>3. parts[1] = SubSeq(p, e[1 - 1] + 1, e[1])
        BY <1>7, <4>1
      <4> QED BY <4>1, <4>2, <4>3
    <3>2. e[0] = HeaderCells
      BY <1>2 DEF GoodEnds
    <3> QED BY <3>1, <3>2
  <2>2. ASSUME NEW k \in Nat, k \in S
        PROVE  k + 1 \in S
    <3> SUFFICES ASSUME (k + 1) + 1 <= n
                 PROVE  flat[(k + 1) + 1] = SubSeq(p, HeaderCells + 1, e[(k + 1) + 1])
      OBVIOUS
    <3>1. PICK m \in Nat : m = k + 1
      OBVIOUS
    <3>2. m >= 1 /\ m + 1 \in 1 .. n /\ m + 1 # 1 /\ (m + 1) - 1 = m /\ m \in 0 .. n /\ m + 1 \in 0 .. n
      BY <1>2, <3>1
    <3>3. flat[m] = SubSeq(p, HeaderCells + 1, e[m])
      BY <1>2, <2>2, <3>1
    <3>4. flat[m + 1] = flat[m] \o parts[m + 1]
      BY <1>10, <3>2 DEF IsFlat
    <3>5. parts[m + 1] = SubSeq(p, e[m] + 1, e[m + 1])
      BY <1>7, <3>2
    <3>6. PICK from, to : from = e[m] /\ to = e[m + 1]
      OBVIOUS
    <3>7. from \in HeaderCells .. end /\ to \in HeaderCells .. end /\ from <= to
      <4>1. from \in HeaderCells .. end /\ to \in HeaderCells .. end
        BY <1>2, <3>2, <3>6 DEF GoodEnds
      <4>2. /\ e[(m + 1) - 1] + 1 \in HeaderCells + 1 .. end
            /\ p[e[(m + 1) - 1] + 1] \in Nat
            /\ e[m + 1] = e[(m + 1) - 1] + 1 + p[e[(m + 1) - 1] + 1]
        BY <1>2, <3>2 DEF GoodEnds
      <4>3. p[from + 1] \in Nat /\ to = from + 1 + p[from + 1]
        BY <3>2, <3>6, <4>2
      <4> QED BY <1>2, <4>1, <4>3 DEF HeaderCells
    <3>8. SubSeq(p, HeaderCells + 1, from) \o SubSeq(p, from + 1, to) = SubSeq(p, HeaderCells + 1, to)
      BY <1>2, <3>7, Adjacent DEF HeaderCells
    <3> QED BY <3>1, <3>3, <3>4, <3>5, <3>6, <3>8
  <2> HIDE DEF S
  <2>3. Nat \subseteq S
    BY <2>1, <2>2, Induction
  <2>4. n - 1 \in S /\ (n - 1) + 1 = n
    BY <1>2, <2>3
  <2>5. flat[n] = SubSeq(p, HeaderCells + 1, e[n])
    BY <1>2, <2>4 DEF S
  <2> QED BY <1>2, <2>5 DEF GoodEnds
<1>12. blob = SubSeq(p, end + 1, Len(p)) /\ Len(blob) = FileCells(p)
  <2>1. blob = SubSeq(p, end + 1, Len(p))
    BY <1>1, <1>3 DEF Blob
  <2>2. Len(SubSeq(p, end + 1, Len(p))) = Len(p) - (end + 1) + 1
    BY <1>2, PartOf
  <2>3. Len(p) - (end + 1) + 1 = FileCells(p)
    BY <1>1, <1>2
  <2> QED BY <2>1, <2>2, <2>3
<1>13. SubSeq(p, 1, HeaderCells) = <<Magic, Len(argv), Len(blob)>>
  <2>1. SubSeq(p, 1, HeaderCells) = <<p[1], p[2], p[3]>>
    BY HeadCells DEF Decodable
  <2>2. p[1] = Magic /\ p[2] = n /\ p[3] = FileCells(p)
    BY <1>1 DEF Decodable, Argc, FileCells
  <2> QED BY <1>6, <1>12, <2>1, <2>2
<1>14. (SubSeq(p, 1, HeaderCells) \o SubSeq(p, HeaderCells + 1, end)) \o SubSeq(p, end + 1, Len(p)) = p
  <2>1. SubSeq(p, 1, HeaderCells) \o SubSeq(p, HeaderCells + 1, end) = SubSeq(p, 1, end)
    BY <1>2, Adjacent DEF HeaderCells
  <2>2. SubSeq(p, 1, end) \o SubSeq(p, end + 1, Len(p)) = SubSeq(p, 1, Len(p))
    <3>1. PICK len \in Nat : len = Len(p)
      BY <1>2
    <3>2. 1 <= end + 1 /\ end <= len /\ len <= Len(p)
      BY <1>2, <3>1
    <3>3. SubSeq(p, 1, end) \o SubSeq(p, end + 1, len) = SubSeq(p, 1, len)
      BY <1>2, <3>2, Adjacent
    <3> QED BY <3>1, <3>3
  <2>3. SubSeq(p, 1, Len(p)) = p
    BY SubSeqFull DEF Cells
  <2> QED BY <2>1, <2>2, <2>3
<1>15. FlattenSeq(parts) = SubSeq(p, HeaderCells + 1, end)
  BY <1>10, <1>11
<1>16. Packet(argv, blob) = <<Magic, Len(argv), Len(blob)>> \o FlattenSeq(parts) \o blob
  BY <1>9 DEF Packet
<1>17. Packet(argv, blob) = p
  BY <1>12, <1>13, <1>14, <1>15, <1>16
<1> QED BY <1>3, <1>17

(* The inductive invariant of a job: what a call has gathered is what it   *)
(* took from the stream, and the caller owns one whole packet or none.     *)
CallInv ==
  /\ stream \in Cells /\ pos \in 0 .. Len(stream) /\ want \in Nat
  /\ want > 0 => stage # "idle"
  /\ stage # "idle" => /\ job = None /\ storage = None
                       /\ start \in 0 .. pos
                       /\ packet = SubSeq(stream, start + 1, pos)
                       /\ Len(packet) + want >= HeaderCells

OwnedInv ==
  storage # None => /\ stage = "idle" /\ Decodable(storage)
                    /\ job = Argv(storage) /\ mounted = Blob(storage)
                    /\ start \in 0 .. pos
                    /\ storage = SubSeq(stream, start + 1, pos)

PacketInv == CallInv /\ OwnedInv

LEMMA TakenIsCells ==
  ASSUME PacketInv, start \in 0 .. pos
  PROVE  SubSeq(stream, start + 1, pos) \in Cells
<1>1. Len(stream) \in Nat
  BY LenProperties DEF PacketInv, CallInv, Cells
<1>2. start + 1 \in Nat /\ pos \in Nat /\ start + 1 <= pos + 1 /\ 1 <= start + 1 /\ pos <= Len(stream)
  BY <1>1 DEF PacketInv, CallInv
<1> QED BY <1>2, PartOf DEF PacketInv, CallInv

(* A step that makes room, or ends the call.                               *)
LEMMA WantsKeeps ==
  ASSUME PacketInv, stage # "idle", want = 0, NEW next, next # "idle", NEW extra \in Nat,
         Wants(next, extra), UNCHANGED <<pos, start, packet, caller>>
  PROVE  PacketInv'
<1>1. /\ UNCHANGED <<pos, start, packet, stream, job, storage, mounted>>
      /\ \/ stage' = "idle" /\ want' = 0
         \/ stage' = next /\ want' = extra
  BY DEF Wants, Fails, caller
<1>2. Len(packet) \in Nat
  BY TakenIsCells, LenProperties DEF PacketInv, CallInv, Cells
<1>3. Len(packet) + extra >= HeaderCells
  BY <1>2 DEF PacketInv, CallInv, HeaderCells
<1> QED BY <1>1, <1>3 DEF PacketInv, CallInv, OwnedInv

LEMMA FailsKeeps ==
  ASSUME PacketInv, NEW e, Fails(e), stage # "idle", UNCHANGED <<pos, start, packet, caller>>
  PROVE  PacketInv'
BY DEF PacketInv, CallInv, OwnedInv, Fails, caller

LEMMA LastIsNumber ==
  ASSUME PacketInv, stage # "idle", want = 0
  PROVE  Last(packet) \in Nat /\ FileCells(packet) \in Nat
<1>1. packet \in Cells /\ Len(packet) \in Nat /\ Len(packet) >= HeaderCells
  <2>1. start \in 0 .. pos /\ packet = SubSeq(stream, start + 1, pos)
        /\ Len(packet) + want >= HeaderCells
    BY DEF PacketInv, CallInv
  <2>2. packet \in Cells
    BY <2>1, TakenIsCells
  <2> QED BY <2>1, <2>2, LenProperties DEF Cells, HeaderCells
<1>2. Len(packet) \in 1 .. Len(packet) /\ 3 \in 1 .. Len(packet)
  BY <1>1 DEF HeaderCells
<1> QED BY <1>1, <1>2, ElementOfSeq DEF Last, FileCells, Cells

LEMMA DeliverKeeps ==
  ASSUME PacketInv, Deliver
  PROVE  PacketInv'
<1>1. PICK k \in 1 .. want : /\ pos + k <= Len(stream)
                             /\ packet' = packet \o SubSeq(stream, pos + 1, pos + k)
                             /\ pos' = pos + k /\ want' = want - k
  BY DEF Deliver
<1>2. /\ UNCHANGED <<start, stage, stream, job, storage, mounted>> /\ want > 0
  BY DEF Deliver, caller
<1>3. /\ stream \in Cells /\ Len(stream) \in Nat /\ pos \in Nat /\ want \in Nat
      /\ stage # "idle" /\ job = None /\ storage = None
      /\ start \in 0 .. pos /\ packet = SubSeq(stream, start + 1, pos)
      /\ Len(packet) + want >= HeaderCells /\ packet \in Cells
  <2>1. /\ stream \in Cells /\ pos \in 0 .. Len(stream) /\ want \in Nat
        /\ stage # "idle" /\ job = None /\ storage = None
        /\ start \in 0 .. pos /\ packet = SubSeq(stream, start + 1, pos)
        /\ Len(packet) + want >= HeaderCells
    BY <1>2 DEF PacketInv, CallInv
  <2>2. packet \in Cells
    BY <2>1, TakenIsCells
  <2>3. Len(stream) \in Nat
    BY <2>1, LenProperties DEF Cells
  <2> QED BY <2>1, <2>2, <2>3
<1>4. packet' = SubSeq(stream, start + 1, pos + k)
  <2>1. PICK m, n : m = start + 1 /\ n = pos + k
    OBVIOUS
  <2>2. m \in Nat /\ n \in Nat /\ 1 <= m /\ m <= pos + 1 /\ pos <= n /\ n <= Len(stream)
    BY <1>1, <1>3, <2>1
  <2>3. SubSeq(stream, m, pos) \o SubSeq(stream, pos + 1, n) = SubSeq(stream, m, n)
    BY <1>3, <2>2, Adjacent
  <2> QED BY <1>1, <1>3, <2>1, <2>3
<1>5. Len(packet') = Len(packet) + k
  <2>1. PICK part : part = SubSeq(stream, pos + 1, pos + k)
    OBVIOUS
  <2>2. part \in Cells /\ Len(part) = (pos + k) - (pos + 1) + 1
    <3>1. /\ pos + 1 \in Nat /\ pos + k \in Nat /\ 1 <= pos + 1
          /\ pos + 1 <= (pos + k) + 1 /\ pos + k <= Len(stream)
      BY <1>1, <1>3
    <3> QED BY <1>3, <2>1, <3>1, PartOf
  <2>3. Len(part) = k
    BY <1>3, <2>2
  <2>4. Len(packet \o part) = Len(packet) + Len(part)
    BY <1>3, <2>2, Joined
  <2> QED BY <1>1, <2>1, <2>3, <2>4
<1>6. Len(packet') + want' >= HeaderCells
  <2>1. Len(packet) \in Nat
    BY <1>3, LenProperties DEF Cells
  <2> QED BY <1>1, <1>3, <1>5, <2>1 DEF HeaderCells
<1>7. pos' \in 0 .. Len(stream) /\ start \in 0 .. pos' /\ want' \in Nat
  BY <1>1, <1>3
<1> QED BY <1>1, <1>2, <1>3, <1>4, <1>6, <1>7 DEF PacketInv, CallInv, OwnedInv

LEMMA DecodeKeeps ==
  ASSUME PacketInv, Decode
  PROVE  PacketInv'
<1>1. /\ stage = "files" /\ want = 0 /\ Decodes(packet)
      /\ storage' = IF error' = "none" THEN packet ELSE None
      /\ stage' = "idle" /\ UNCHANGED <<stream, pos, start, packet, want>>
  BY DEF Decode
<1>2. CASE error' # "none"
  BY <1>1, <1>2 DEF PacketInv, CallInv, OwnedInv
<1>3. CASE error' = "none"
  <2>1. Decodable(packet) /\ job' = Argv(packet) /\ mounted' = Blob(packet)
    BY <1>1, <1>3 DEF Decodes, Mounts
  <2> QED BY <1>1, <1>3, <2>1 DEF PacketInv, CallInv, OwnedInv
<1> QED BY <1>2, <1>3

LEMMA ReadKeeps ==
  ASSUME PacketInv, Read
  PROVE  PacketInv'
<1>1. /\ stage = "idle" /\ UNCHANGED <<pos, stream, job, storage, mounted>>
  BY DEF Read, caller
<1>2. CASE job # None \/ storage # None
  BY <1>1, <1>2 DEF Read, Fails, PacketInv, CallInv, OwnedInv
<1>3. CASE ~(job # None \/ storage # None)
  <2>1. packet' = <<>> /\ start' = pos
        /\ (Fails("ENOMEM") \/ (stage' = "header" /\ want' = HeaderCells))
    BY <1>3 DEF Read
  <2>2. pos \in Nat /\ pos \in 0 .. pos /\ SubSeq(stream, pos + 1, pos) = <<>>
    <3>1. pos \in Nat
      BY DEF PacketInv, CallInv
    <3> QED BY <3>1, SubSeqEmpty
  <2>3. Len(<<>>) = 0
    OBVIOUS
  <2> QED BY <1>1, <1>3, <2>1, <2>2, <2>3 DEF Fails, PacketInv, CallInv, OwnedInv, HeaderCells
<1> QED BY <1>2, <1>3

LEMMA PacketNextKeeps == PacketInv /\ Next => PacketInv'
<1> SUFFICES ASSUME PacketInv, Next PROVE PacketInv'
  OBVIOUS
<1>1. CASE Read
  BY <1>1, ReadKeeps
<1>2. CASE Deliver
  BY <1>2, DeliverKeeps
<1>3. CASE Break
  BY <1>3, FailsKeeps DEF Break, PacketInv, CallInv
<1>4. CASE Header
  <2>1. CASE Wants("length", 1)
    BY <1>4, <2>1, WantsKeeps DEF Header
  <2>2. CASE Fails("EINVAL")
    BY <1>4, <2>2, FailsKeeps DEF Header
  <2> QED BY <1>4, <2>1, <2>2 DEF Header
<1>5. CASE Length
  <2>1. CASE Wants("argument", Last(packet))
    BY <1>5, <2>1, WantsKeeps, LastIsNumber DEF Length
  <2>2. CASE Fails("EINVAL")
    BY <1>5, <2>2, FailsKeeps DEF Length
  <2> QED BY <1>5, <2>1, <2>2 DEF Length
<1>6. CASE Argument
  <2>1. CASE Wants("length", 1)
    BY <1>6, <2>1, WantsKeeps DEF Argument
  <2>2. CASE Wants("files", FileCells(packet))
    BY <1>6, <2>2, WantsKeeps, LastIsNumber DEF Argument
  <2> QED BY <1>6, <2>1, <2>2 DEF Argument
<1>7. CASE Decode
  BY <1>7, DecodeKeeps
<1>8. CASE DecodeOwned
  BY <1>8 DEF DecodeOwned, PacketInv, CallInv, OwnedInv
<1>9. CASE Release
  BY <1>9 DEF Release, PacketInv, CallInv, OwnedInv
<1>10. CASE Program
  BY <1>10 DEF Program, PacketInv, CallInv, OwnedInv
<1> QED BY <1>1, <1>2, <1>3, <1>4, <1>5, <1>6, <1>7, <1>8, <1>9, <1>10 DEF Next

LEMMA PacketStays == PacketInv /\ UNCHANGED vars => PacketInv'
BY DEF PacketInv, CallInv, OwnedInv, vars

LEMMA PacketStarts == Init => PacketInv
<1> SUFFICES ASSUME Init PROVE PacketInv
  OBVIOUS
<1>1. stream \in Cells
  BY JobAssumption DEF Init, Cells
<1>2. Len(stream) \in Nat /\ 0 \in 0 .. Len(stream)
  BY <1>1, LenProperties DEF Cells
<1> QED BY <1>1, <1>2 DEF Init, PacketInv, CallInv, OwnedInv

LEMMA InvIsPacket == PacketInv => OnePacket
<1> SUFFICES ASSUME PacketInv, storage # None
             PROVE  /\ storage = Packet(job, mounted)
                    /\ storage = SubSeq(stream, start + 1, pos)
  BY DEF OnePacket
<1>1. /\ Decodable(storage) /\ job = Argv(storage) /\ mounted = Blob(storage)
      /\ start \in 0 .. pos /\ storage = SubSeq(stream, start + 1, pos)
  BY DEF PacketInv, OwnedInv
<1>2. storage \in Cells
  BY <1>1, TakenIsCells
<1>3. storage = Packet(Argv(storage), Blob(storage))
  BY <1>1, <1>2, DecodedIsPacket
<1> QED BY <1>1, <1>3

(* A job that was read is one whole packet and nothing more of the stream, *)
(* whatever the stream holds and however it is delivered (cs_gcc_job_read  *)
(* of job.c).                                                              *)
THEOREM JobIsOnePacket == Spec => []OnePacket
BY PacketStarts, PacketNextKeeps, PacketStays, InvIsPacket, PTL DEF Spec

(* So it is for the job of a whole guest.                                  *)
THEOREM GuestTakesOnePacket == GuestSpec => []OnePacket
<1>1. GuestInit => PacketInv
  BY PacketStarts DEF GuestInit
<1>2. [GuestNext]_guestVars => Next \/ UNCHANGED vars
  BY DEF GuestNext, ReadJob, Refuse, Begin, Take, Ready, Answers, Next, guestVars, jobVars
<1>3. PacketInv /\ [GuestNext]_guestVars => PacketInv'
  BY <1>2, PacketNextKeeps, PacketStays
<1> QED BY <1>1, <1>3, InvIsPacket, PTL DEF GuestSpec

-----------------------------------------------------------------------------
(* Parts that are put one behind the other: each is found where the ones   *)
(* before it end.                                                          *)
StartsAs(a, b) == /\ a \in Cells /\ b \in Cells /\ Len(a) <= Len(b)
                  /\ \A c \in 1 .. Len(a) : b[c] = a[c]

LEMMA Grows ==
  ASSUME NEW n \in Nat, NEW s, NEW g, g[0] = <<>>,
         \A k \in 1 .. n : s[k] \in Cells /\ g[k] = g[k - 1] \o s[k]
  PROVE  \A m \in 0 .. n : \A k \in 0 .. m : StartsAs(g[k], g[m])
<1> DEFINE S == {m \in Nat : m <= n => \A k \in 0 .. m : StartsAs(g[k], g[m])}
<1>1. 0 \in S
  <2>1. StartsAs(<<>>, <<>>)
    BY DEF Cells, StartsAs
  <2>2. \A k \in 0 .. 0 : g[k] = <<>>
    OBVIOUS
  <2> QED BY <2>1, <2>2
<1>2. ASSUME NEW m \in Nat, m \in S
      PROVE  m + 1 \in S
  <2> SUFFICES ASSUME m + 1 <= n, NEW k \in 0 .. (m + 1) PROVE StartsAs(g[k], g[m + 1])
    OBVIOUS
  <2>1. PICK a, b, next, from : a = g[m] /\ b = s[m + 1] /\ next = g[m + 1] /\ from = g[k]
    OBVIOUS
  <2>2. a \in Cells /\ b \in Cells /\ next = a \o b
    <3>1. m + 1 \in 1 .. n /\ (m + 1) - 1 = m /\ m <= n /\ m \in 0 .. m
      OBVIOUS
    <3>2. StartsAs(g[m], g[m])
      BY <1>2, <3>1
    <3> QED BY <2>1, <3>1, <3>2 DEF StartsAs
  <2>3. /\ next \in Cells /\ Len(next) = Len(a) + Len(b) /\ Len(a) \in Nat /\ Len(b) \in Nat
        /\ \A c \in 1 .. Len(a) : next[c] = a[c]
    BY <2>2, Joined
  <2>4. CASE k = m + 1
    <3>1. Len(next) \in Int
      BY <2>3
    <3>2. StartsAs(next, next)
      BY <2>3, <3>1 DEF StartsAs
    <3>3. g[k] = next /\ g[m + 1] = next
      BY <2>1, <2>4
    <3> QED BY ONLY <3>2, <3>3
  <2>5. CASE k # m + 1
    <3>1. StartsAs(from, a)
      BY <1>2, <2>1, <2>5
    <3>2. Len(from) \in Nat
      BY <3>1, LenProperties DEF StartsAs, Cells
    <3>3. StartsAs(from, next)
      BY <2>3, <3>1, <3>2 DEF StartsAs
    <3> QED BY <2>1, <3>3
  <2> QED BY <2>4, <2>5
<1> HIDE DEF S
<1>3. Nat \subseteq S
  BY <1>1, <1>2, Induction
<1> QED BY <1>3 DEF S

(* The packet of a job, and where each of its arguments ends.              *)
Shape(p, argv, blob, e) ==
  /\ p \in Cells /\ Len(p) = e[Len(argv)] + Len(blob)
  /\ p[1] = Magic /\ p[2] = Len(argv) /\ p[3] = Len(blob)
  /\ e[0] = HeaderCells
  /\ \A k \in 0 .. Len(argv) : e[k] \in HeaderCells .. e[Len(argv)]
  /\ \A k \in 1 .. Len(argv) :
       /\ e[k] = e[k - 1] + 1 + Len(argv[k]) /\ p[e[k - 1] + 1] = Len(argv[k])
       /\ \A c \in 1 .. Len(argv[k]) : p[e[k - 1] + 1 + c] = argv[k][c]
  /\ SubSeq(p, e[Len(argv)] + 1, Len(p)) = blob

LEMMA JoinedEnd ==
  ASSUME NEW s \in Cells, NEW t \in Cells
  PROVE  /\ \A k \in 1 .. Len(t) : (s \o t)[Len(s) + k] = t[k]
         /\ SubSeq(s \o t, Len(s) + 1, Len(s) + Len(t)) = t
<1>1. PICK m, n, u : /\ m \in Nat /\ n \in Nat
                     /\ m = Len(s) /\ n = Len(t) /\ u = s \o t
  BY LenProperties DEF Cells
<1>2. u \in Cells /\ Len(u) = m + n /\ \A k \in 1 .. m + n : u[k] = IF k <= m THEN s[k] ELSE t[k - m]
  BY <1>1, ConcatProperties DEF Cells
<1>3. \A k \in 1 .. n : u[m + k] = t[k]
  <2> TAKE k \in 1 .. n
  <2>1. m + k \in 1 .. m + n /\ ~(m + k <= m) /\ (m + k) - m = k
    BY <1>1
  <2> QED BY <1>2, <2>1
<1>4. SubSeq(u, m + 1, m + n) = t
  <2>1. PICK part, from, to : part = SubSeq(u, from, to) /\ from = m + 1 /\ to = m + n
    OBVIOUS
  <2>2. /\ part \in Cells /\ Len(part) = to - from + 1
        /\ \A k \in 1 .. to - from + 1 : part[k] = u[from + k - 1]
    <3>1. from \in Nat /\ to \in Nat /\ 1 <= from /\ from <= to + 1 /\ to <= Len(u)
      BY <1>1, <1>2, <2>1
    <3>2. u \in Cells /\ part = SubSeq(u, from, to)
      BY <1>2, <2>1
    <3> QED BY ONLY <3>1, <3>2, PartOf
  <2>3. to - from + 1 = n /\ \A k \in 1 .. n : from + k - 1 = m + k
    BY <1>1, <2>1
  <2>4. Len(part) = n /\ \A k \in 1 .. n : part[k] = t[k]
    BY <1>3, <2>2, <2>3
  <2>5. part = t
    BY <1>1, <2>2, <2>4, SeqEqual DEF Cells
  <2> QED BY <2>1, <2>5
<1> QED BY <1>1, <1>3, <1>4

LEMMA PacketShape ==
  ASSUME NEW argv \in Seq(Cells), Len(argv) >= 1, NEW blob \in Cells
  PROVE  \E e : Shape(Packet(argv, blob), argv, blob, e)
<1>1. PICK n \in Nat : n = Len(argv) /\ n >= 1
  BY LenProperties
<1>2. PICK s : s = [k \in 1 .. n |-> <<Len(argv[k])>> \o argv[k]]
  OBVIOUS
<1>3. \A k \in 1 .. n : argv[k] \in Cells /\ Len(argv[k]) \in Nat
  <2>1. \A k \in 1 .. n : argv[k] \in Cells
    BY <1>1, ElementOfSeq
  <2> QED BY <2>1, LenProperties DEF Cells
<1>4. ASSUME NEW k \in 1 .. n
      PROVE  /\ s[k] \in Cells /\ Len(s[k]) = 1 + Len(argv[k]) /\ s[k][1] = Len(argv[k])
             /\ \A c \in 1 .. Len(argv[k]) : s[k][1 + c] = argv[k][c]
  <2>1. PICK len \in Nat, text \in Cells : len = Len(argv[k]) /\ text = argv[k]
    BY <1>3
  <2>2. PICK one \in Cells : one = <<len>> /\ Len(one) = 1 /\ one[1] = len
    <3>1. <<len>> \in Cells /\ Len(<<len>>) = 1 /\ <<len>>[1] = len
      BY DEF Cells
    <3> QED BY ONLY <3>1
  <2>3. /\ one \o text \in Cells /\ Len(one \o text) = Len(one) + Len(text)
        /\ \A c \in 1 .. Len(one) : (one \o text)[c] = one[c]
    BY Joined
  <2>4. \A c \in 1 .. Len(text) : (one \o text)[Len(one) + c] = text[c]
    BY JoinedEnd
  <2>5. s[k] = one \o text
    BY <1>2, <2>1, <2>2
  <2> QED BY <2>1, <2>2, <2>3, <2>4, <2>5
<1>5. PICK flat : IsFlat(s, n, flat) /\ FlattenSeq(s) = flat[n]
  <2>1. Len(s) = n
    BY <1>2
  <2> QED BY <1>1, <2>1, FlattenIs
<1>6. PICK g : g = [k \in 0 .. n |-> IF k = 0 THEN <<>> ELSE flat[k]]
  OBVIOUS
<1>7. g[0] = <<>> /\ g[n] = flat[n]
  BY <1>1, <1>6
<1>8. ASSUME NEW k \in 1 .. n
      PROVE  g[k] = g[k - 1] \o s[k]
  <2>1. k \in 0 .. n /\ k # 0 /\ k - 1 \in 0 .. n
    BY <1>1
  <2>2. g[k] = flat[k] /\ g[k - 1] = IF k - 1 = 0 THEN <<>> ELSE flat[k - 1]
    BY <1>6, <2>1
  <2>3. CASE k = 1
    <3>1. flat[k] = s[k] /\ g[k - 1] = <<>>
      BY <1>5, <2>2, <2>3 DEF IsFlat
    <3>2. <<>> \o s[k] = s[k]
      BY <1>4, ConcatEmptySeq DEF Cells
    <3> QED BY <2>2, <3>1, <3>2
  <2>4. CASE k # 1
    <3>1. flat[k] = flat[k - 1] \o s[k]
      BY <1>5, <2>4 DEF IsFlat
    <3>2. g[k - 1] = flat[k - 1]
      BY <2>1, <2>2, <2>4
    <3> QED BY <2>2, <3>1, <3>2
  <2> QED BY <2>3, <2>4
<1>9. \A k \in 0 .. n : StartsAs(g[k], g[n])
  <2>1. \A m \in 0 .. n : \A k \in 0 .. m : StartsAs(g[k], g[m])
    BY <1>4, <1>7, <1>8, Grows
  <2>2. n \in 0 .. n
    OBVIOUS
  <2> QED BY <2>1, <2>2
<1>10. PICK all \in Cells : all = g[n] /\ all = FlattenSeq(s)
  <2>1. n \in 0 .. n
    OBVIOUS
  <2> QED BY <1>5, <1>7, <1>9, <2>1 DEF StartsAs
<1>11. PICK h \in Cells : h = <<Magic, n, Len(blob)>> /\ Len(h) = HeaderCells
                          /\ h[1] = Magic /\ h[2] = n /\ h[3] = Len(blob)
  <2>1. PICK m, b : m \in Nat /\ b \in Nat /\ m = Magic /\ b = Len(blob)
    BY JobAssumption, LenProperties DEF Cells
  <2>2. /\ <<m, n, b>> \in Cells /\ Len(<<m, n, b>>) = HeaderCells
        /\ <<m, n, b>>[1] = m /\ <<m, n, b>>[2] = n /\ <<m, n, b>>[3] = b
    BY <2>1 DEF Cells, HeaderCells
  <2> QED BY <2>1, <2>2
<1>12. PICK body \in Cells : /\ body = h \o all /\ Len(body) = HeaderCells + Len(all)
                             /\ \A c \in 1 .. 3 : body[c] = h[c]
                             /\ \A c \in 1 .. Len(all) : body[HeaderCells + c] = all[c]
  <2>1. /\ h \o all \in Cells /\ Len(h \o all) = Len(h) + Len(all)
        /\ \A c \in 1 .. Len(h) : (h \o all)[c] = h[c]
    BY Joined
  <2>2. \A c \in 1 .. Len(all) : (h \o all)[Len(h) + c] = all[c]
    BY JoinedEnd
  <2>3. Len(h) = HeaderCells /\ HeaderCells = 3
    BY <1>11 DEF HeaderCells
  <2>4. PICK both : both = h \o all
    OBVIOUS
  <2>5. /\ both \in Cells /\ Len(both) = HeaderCells + Len(all)
        /\ \A c \in 1 .. 3 : both[c] = h[c]
        /\ \A c \in 1 .. Len(all) : both[HeaderCells + c] = all[c]
    BY <2>1, <2>2, <2>3, <2>4
  <2> QED BY <2>4, <2>5
<1>13. PICK p \in Cells : /\ p = body \o blob /\ Len(p) = Len(body) + Len(blob)
                          /\ \A c \in 1 .. Len(body) : p[c] = body[c]
                          /\ SubSeq(p, Len(body) + 1, Len(p)) = blob
  <2>1. /\ body \o blob \in Cells /\ Len(body \o blob) = Len(body) + Len(blob)
        /\ \A c \in 1 .. Len(body) : (body \o blob)[c] = body[c]
    BY Joined
  <2>2. SubSeq(body \o blob, Len(body) + 1, Len(body) + Len(blob)) = blob
    BY JoinedEnd
  <2> QED BY <2>1, <2>2
<1>14. p = Packet(argv, blob)
  <2>1. Packet(argv, blob) = <<Magic, n, Len(blob)>> \o FlattenSeq(s) \o blob
    BY <1>1, <1>2 DEF Packet
  <2> QED BY <1>10, <1>11, <1>12, <1>13, <2>1
<1>15. PICK e : e = [k \in 0 .. n |-> HeaderCells + Len(g[k])]
  OBVIOUS
<1>16. Len(all) \in Nat /\ Len(body) = HeaderCells + Len(all) /\ Len(blob) \in Nat
  BY <1>12, LenProperties DEF Cells
<1>17. e[0] = HeaderCells /\ e[n] = HeaderCells + Len(all)
  <2>1. 0 \in 0 .. n /\ n \in 0 .. n
    OBVIOUS
  <2>2. e[0] = HeaderCells + Len(g[0])
    BY <1>15, <2>1
  <2>3. e[n] = HeaderCells + Len(g[n])
    BY <1>15, <2>1
  <2>4. Len(g[0]) = 0
    BY <1>7
  <2>5. HeaderCells + 0 = HeaderCells
    BY DEF HeaderCells
  <2>6. e[n] = HeaderCells + Len(all)
    BY <1>10, <2>3
  <2> QED BY <2>2, <2>4, <2>5, <2>6
<1>18. ASSUME NEW k \in 0 .. n
       PROVE  /\ Len(g[k]) \in Nat /\ Len(g[k]) <= Len(all) /\ e[k] = HeaderCells + Len(g[k])
              /\ e[k] \in HeaderCells .. e[n]
  <2>1. Len(g[k]) \in Nat /\ Len(g[k]) <= Len(all) /\ e[k] = HeaderCells + Len(g[k])
    BY <1>9, <1>10, <1>15, LenProperties DEF StartsAs, Cells
  <2> QED BY <1>16, <1>17, <2>1 DEF HeaderCells
<1>19. ASSUME NEW k \in 1 .. n
       PROVE  /\ e[k] = e[k - 1] + 1 + Len(argv[k]) /\ p[e[k - 1] + 1] = Len(argv[k])
              /\ \A c \in 1 .. Len(argv[k]) : p[e[k - 1] + 1 + c] = argv[k][c]
  <2>1. k \in 0 .. n /\ k - 1 \in 0 .. n
    BY <1>1
  <2>2. PICK from \in Cells, part \in Cells, to \in Cells :
          from = g[k - 1] /\ part = s[k] /\ to = g[k] /\ to = from \o part
    <3>1. g[k - 1] \in Cells /\ g[k] \in Cells
      BY <1>9, <2>1 DEF StartsAs
    <3>2. s[k] \in Cells /\ g[k] = g[k - 1] \o s[k]
      BY <1>4, <1>8
    <3> QED BY <3>1, <3>2
  <2>3. PICK a \in Nat, b \in Nat, len \in Nat : a = Len(from) /\ b = Len(part) /\ len = Len(argv[k])
    BY <1>3, LenProperties DEF Cells
  <2>4. b = 1 + len /\ part[1] = len /\ \A c \in 1 .. len : part[1 + c] = argv[k][c]
    BY <1>4, <2>2, <2>3
  <2>5. Len(to) = a + b /\ \A c \in 1 .. b : to[a + c] = part[c]
    <3>1. Len(from \o part) = Len(from) + Len(part)
      BY Joined
    <3>2. \A c \in 1 .. Len(part) : (from \o part)[Len(from) + c] = part[c]
      BY JoinedEnd
    <3> QED BY <2>2, <2>3, <3>1, <3>2
  <2>6. e[k - 1] = HeaderCells + a /\ e[k] = HeaderCells + (a + b)
    BY <1>18, <2>1, <2>2, <2>3, <2>5
  <2>7. ASSUME NEW c \in 1 .. b PROVE p[HeaderCells + (a + c)] = part[c]
    <3>1. PICK x \in Nat : x = a + c /\ x \in 1 .. (a + b)
      OBVIOUS
    <3>2. to[x] = part[c]
      BY <2>5, <3>1
    <3>3. StartsAs(to, all)
      BY <1>9, <1>10, <2>1, <2>2
    <3>4. all[x] = to[x] /\ x \in 1 .. Len(all)
      BY <1>16, <2>5, <3>1, <3>3 DEF StartsAs
    <3>5. HeaderCells + x \in 1 .. Len(body) /\ body[HeaderCells + x] = all[x]
      BY <1>12, <1>16, <3>1, <3>4 DEF HeaderCells
    <3>6. p[HeaderCells + x] = all[x]
      BY <1>13, <3>5
    <3> QED BY <3>1, <3>2, <3>4, <3>6
  <2>8. e[k] = e[k - 1] + 1 + len
    <3>1. HeaderCells + (a + b) = (HeaderCells + a) + 1 + len
      BY <2>4 DEF HeaderCells
    <3> QED BY <2>6, <3>1
  <2>9. p[e[k - 1] + 1] = len
    <3>1. p[HeaderCells + (a + 1)] = part[1]
      BY <2>4, <2>7
    <3>2. HeaderCells + (a + 1) = e[k - 1] + 1
      BY <2>6 DEF HeaderCells
    <3> QED BY <2>4, <3>1, <3>2
  <2>10. ASSUME NEW c \in 1 .. len PROVE p[e[k - 1] + 1 + c] = argv[k][c]
    <3>1. PICK d \in Nat : d = 1 + c /\ d \in 1 .. b
      BY <2>4
    <3>2. p[HeaderCells + (a + d)] = part[d]
      BY <2>7, <3>1
    <3>3. HeaderCells + (a + d) = e[k - 1] + 1 + c
      BY <2>6, <3>1 DEF HeaderCells
    <3> QED BY <2>4, <3>1, <3>2, <3>3
  <2> QED BY <2>3, <2>8, <2>9, <2>10
<1>20. p[1] = Magic /\ p[2] = n /\ p[3] = Len(blob)
  <2>1. 1 \in 1 .. Len(body) /\ 2 \in 1 .. Len(body) /\ 3 \in 1 .. Len(body)
    BY <1>16 DEF HeaderCells
  <2> QED BY <1>11, <1>12, <1>13, <2>1
<1>21. Len(p) = e[n] + Len(blob) /\ SubSeq(p, e[n] + 1, Len(p)) = blob
  BY <1>13, <1>16, <1>17
<1>22. \A k \in 0 .. n : e[k] \in HeaderCells .. e[n]
  BY <1>18
<1>23. Shape(p, argv, blob, e)
  BY <1>1, <1>17, <1>19, <1>20, <1>21, <1>22 DEF Shape
<1> QED BY <1>14, <1>23

(* What a sender may ask for can be decoded.                               *)
LEMMA GoodJobDecodes ==
  ASSUME NEW j \in Jobs
  PROVE  LET p == Packet(j.argv, j.blob)
         IN  p \in Cells /\ Decodable(p) /\ Blob(p) \in Blobs
<1>1. PICK argv \in Seq(Cells), blob \in Blobs : argv = j.argv /\ blob = j.blob
  BY JobAssumption DEF Cells
<1>2. blob \in Cells
  BY JobAssumption DEF Cells
<1>3. PICK n \in Nat : n = Len(argv) /\ n \in 1 .. ArgMax /\ n >= 1
  BY <1>1, SenderAssumption, LenProperties
<1>4. \A k \in 1 .. n : k \in DOMAIN argv /\ argv[k] \in Cells /\ Len(argv[k]) \in Nat
  <2>1. \A k \in 1 .. n : k \in DOMAIN argv /\ argv[k] \in Cells
    BY <1>3, ElementOfSeq, LenProperties
  <2> QED BY <2>1, LenProperties DEF Cells
<1>5. /\ argv[1] # <<>>
      /\ \A k \in 1 .. n : /\ Len(argv[k]) <= LengthMax
                           /\ \A c \in 1 .. Len(argv[k]) : argv[k][c] # Nul
  <2>1. /\ argv[1] # <<>>
        /\ \A k \in DOMAIN argv : /\ Len(argv[k]) <= LengthMax
                                  /\ \A c \in DOMAIN argv[k] : argv[k][c] # Nul
    BY <1>1, SenderAssumption
  <2>2. \A k \in 1 .. n : DOMAIN argv[k] = 1 .. Len(argv[k])
    BY <1>4, LenProperties DEF Cells
  <2> QED BY <1>4, <2>1, <2>2
<1>6. PICK p : p = Packet(argv, blob)
  OBVIOUS
<1>7. PICK e : Shape(p, argv, blob, e)
  BY <1>2, <1>3, <1>6, PacketShape
<1>8. PICK end, files : end = e[n] /\ files = Len(blob) /\ end \in Nat /\ files \in Nat
  <2>1. n \in 0 .. n
    OBVIOUS
  <2>2. e[n] \in HeaderCells .. e[n]
    BY <1>3, <1>7, <2>1 DEF Shape
  <2>3. e[n] \in Nat
    BY <2>2 DEF HeaderCells
  <2> QED BY <1>2, <2>3, LenProperties DEF Cells
<1>9. /\ p \in Cells /\ Len(p) = end + files /\ Len(p) \in Nat
      /\ p[1] = Magic /\ Argc(p) = n /\ FileCells(p) = files
      /\ SubSeq(p, end + 1, Len(p)) = blob /\ end >= HeaderCells
  <2>1. /\ p \in Cells /\ Len(p) = end + files /\ p[1] = Magic /\ p[2] = n /\ p[3] = files
        /\ SubSeq(p, end + 1, Len(p)) = blob
    BY <1>3, <1>7, <1>8 DEF Shape
  <2>2. e[n] \in HeaderCells .. e[n]
    <3>1. n \in 0 .. n
      OBVIOUS
    <3> QED BY <1>3, <1>7, <3>1 DEF Shape
  <2> QED BY <1>8, <2>1, <2>2 DEF Argc, FileCells, HeaderCells
<1>10. Len(p) - FileCells(p) = end
  BY <1>8, <1>9
<1>11. ASSUME NEW k \in 1 .. n
       PROVE  EndStep(p, e[k - 1], k) = e[k]
  <2>1. PICK before, at, len : before = e[k - 1] /\ at = before + 1 /\ len = Len(argv[k])
    OBVIOUS
  <2>2. /\ before \in HeaderCells .. end /\ e[k] \in HeaderCells .. end
        /\ e[k] = at + len /\ p[at] = len /\ \A c \in 1 .. len : p[at + c] = argv[k][c]
    <3>1. k - 1 \in 0 .. n /\ k \in 0 .. n
      BY <1>3
    <3>2. \A m \in 0 .. n : e[m] \in HeaderCells .. end
      BY <1>3, <1>7, <1>8 DEF Shape
    <3>3. /\ e[k] = e[k - 1] + 1 + Len(argv[k]) /\ p[e[k - 1] + 1] = Len(argv[k])
          /\ \A c \in 1 .. Len(argv[k]) : p[e[k - 1] + 1 + c] = argv[k][c]
      BY <1>3, <1>7 DEF Shape
    <3>4. /\ e[k] = at + len /\ p[at] = len /\ \A c \in 1 .. len : p[at + c] = argv[k][c]
      BY ONLY <2>1, <3>3
    <3>5. before \in HeaderCells .. end /\ e[k] \in HeaderCells .. end
      BY ONLY <2>1, <3>1, <3>2
    <3> QED BY ONLY <3>4, <3>5
  <2>3. len \in Nat /\ before \in Nat /\ at \in Nat /\ before >= HeaderCells
    <3>1. before \in HeaderCells .. end
      BY <2>2
    <3>2. before \in Nat /\ before >= HeaderCells
      BY <1>8, <3>1 DEF HeaderCells
    <3>3. len \in Nat
      BY <1>4, <2>1
    <3>4. at = before + 1
      BY <2>1
    <3> QED BY <3>2, <3>3, <3>4
  <2>4. ~(before = -1 \/ end - before < 1)
    <3>1. PICK to : to = e[k] /\ to = at + len /\ to \in HeaderCells .. end
      BY <2>2
    <3>2. at = before + 1
      BY <2>1
    <3>3. at <= end
      BY <1>8, <2>3, <3>1 DEF HeaderCells
    <3> QED BY <1>8, <2>3, <3>2, <3>3
  <2>5. ~(p[at] > LengthMax) /\ ~(p[at] > end - at)
    <3>1. len <= LengthMax /\ LengthMax \in Nat
      BY <1>5, <2>1, JobAssumption
    <3>2. len <= end - at
      BY <1>8, <2>2, <2>3
    <3> QED BY <1>8, <2>2, <2>3, <3>1, <3>2
  <2>6. ~(k = 1 /\ p[at] = 0)
    <3> SUFFICES ASSUME k = 1, len = 0 PROVE FALSE
      BY <2>2
    <3>1. argv[1] \in Cells /\ Len(argv[1]) = 0
      BY <1>4, <2>1
    <3> QED BY <1>5, <3>1, EmptySeq DEF Cells
  <2>7. PICK text : text = SubSeq(p, at + 1, at + p[at])
    OBVIOUS
  <2>8. ~(\E c \in 1 .. Len(text) : text[c] = Nul)
    <3>1. PICK from, to : from = at + 1 /\ to = at + len /\ from \in Nat /\ to \in Nat
      BY <2>3
    <3>2. 1 <= from /\ from <= to + 1 /\ to <= Len(p)
      <4>1. at + len = e[k] /\ e[k] \in HeaderCells .. end
        BY <2>2
      <4>2. to \in HeaderCells .. end
        BY <3>1, <4>1
      <4>3. to <= end
        BY <1>8, <4>2 DEF HeaderCells
      <4>4. end <= Len(p) /\ Len(p) \in Nat
        BY <1>8, <1>9
      <4>5. from = at + 1 /\ to = at + len
        BY <3>1
      <4> QED BY <1>8, <2>3, <3>1, <4>3, <4>4, <4>5
    <3>3. /\ Len(SubSeq(p, from, to)) = to - from + 1
          /\ \A c \in 1 .. to - from + 1 : SubSeq(p, from, to)[c] = p[from + c - 1]
      <4>1. p \in Cells
        BY <1>9
      <4> QED BY ONLY <3>1, <3>2, <4>1, PartOf
    <3>4. to - from + 1 = len /\ \A c \in 1 .. len : from + c - 1 = at + c
      BY <2>3, <3>1
    <3>5. text = SubSeq(p, from, to)
      BY <2>2, <2>7, <3>1
    <3>6. Len(text) = len /\ \A c \in 1 .. len : text[c] = p[at + c]
      BY <3>3, <3>4, <3>5
    <3>7. \A c \in 1 .. len : argv[k][c] # Nul
      BY <1>5, <2>1
    <3> QED BY <2>2, <3>6, <3>7
  <2>9. EndStep(p, before, k) = at + p[at]
    BY <1>10, <2>1, <2>4, <2>5, <2>6, <2>7, <2>8 DEF EndStep
  <2> QED BY <2>1, <2>2, <2>9
<1>12. PICK f : f = Ends(p) /\ IsEnds(p, n, f)
  BY <1>9, EndsAre
<1>13. f[n] = e[n]
  <2> DEFINE S == {k \in Nat : k <= n => f[k] = e[k]}
  <2>1. 0 \in S
    <3>1. 0 \in 0 .. n
      BY <1>3
    <3>2. f[0] = HeaderCells
      BY <1>12, <3>1 DEF IsEnds
    <3>3. e[0] = HeaderCells
      BY <1>7 DEF Shape
    <3> QED BY <3>2, <3>3
  <2>2. ASSUME NEW k \in Nat, k \in S
        PROVE  k + 1 \in S
    <3> SUFFICES ASSUME k + 1 <= n PROVE f[k + 1] = e[k + 1]
      OBVIOUS
    <3>1. PICK m \in Nat : m = k + 1 /\ m \in 0 .. n /\ m # 0 /\ m - 1 = k /\ m \in 1 .. n
      OBVIOUS
    <3>2. f[m] = EndStep(p, f[m - 1], m)
      BY <1>12, <3>1 DEF IsEnds
    <3>3. f[m - 1] = e[m - 1]
      BY <2>2, <3>1
    <3>4. f[m] = e[m]
      BY <1>11, <3>1, <3>2, <3>3
    <3> QED BY <3>1, <3>4
  <2> HIDE DEF S
  <2>3. Nat \subseteq S
    BY <2>1, <2>2, Induction
  <2> QED BY <2>3 DEF S
<1>14. Decodable(p)
  <2>1. Len(p) \in HeaderCells .. JobMax
    <3>1. Len(p) <= JobMax /\ JobMax \in Nat
      BY <1>1, <1>6, SenderAssumption, JobAssumption
    <3>2. Len(p) >= HeaderCells /\ HeaderCells \in Nat
      BY <1>8, <1>9 DEF HeaderCells
    <3> QED BY <1>9, <3>1, <3>2
  <2>2. FileCells(p) <= Len(p) - HeaderCells
    BY <1>8, <1>9 DEF HeaderCells
  <2> QED BY <1>3, <1>8, <1>9, <1>10, <1>12, <1>13, <2>1, <2>2 DEF Decodable
<1>15. Blob(p) = blob
  BY <1>9, <1>10 DEF Blob
<1> QED BY <1>1, <1>6, <1>9, <1>14, <1>15

(* The inductive invariant of good jobs.  While the stream holds a good    *)
(* packet where the call began, the call is where that packet says, and    *)
(* the next end of what it wants is an end in the packet.                  *)
Good(p) == p \in Cells /\ Decodable(p) /\ Blob(p) \in Blobs

Ahead(p) == /\ start + Len(p) <= Len(stream)
             /\ \A k \in 1 .. Len(p) : stream[start + k] = p[k]

Goal == (pos - start) + want

OnTrack(p) ==
  \/ stage = "header" /\ i = 0 /\ Goal = HeaderCells
  \/ stage = "length" /\ i \in 0 .. Argc(p) - 1 /\ Goal = Ends(p)[i] + 1
  \/ stage = "argument" /\ i \in 0 .. Argc(p) - 1 /\ Goal = Ends(p)[i + 1]
  \/ stage = "files" /\ Goal = Len(p)

TurnedDown == stage = "idle" /\ job = None /\ error \in {"EINVAL", "EFBIG"}

Passes(p) ==
  /\ stage # "idle" /\ Ahead(p) => OnTrack(p)
  /\ TurnedDown => IF start = -1 THEN packet # p ELSE ~Ahead(p)

PassInv == start \in -1 .. pos /\ \A p : Good(p) => Passes(p)

(* An argument of a packet that is good is not too long.                   *)
LEMMA LengthsAllowed ==
  ASSUME NEW p \in Cells, Decodable(p)
  PROVE  \A k \in 1 .. Argc(p) : p[Ends(p)[k - 1] + 1] <= LengthMax
<1>1. PICK n, end, e : n = Argc(p) /\ end = Len(p) - FileCells(p) /\ e = Ends(p)
  OBVIOUS
<1>2. /\ n \in Nat /\ GoodEnds(p, n, end, e) /\ LengthMax \in Nat
      /\ \A k \in 0 .. n : e[k] # -1
  <2>1. n \in Nat /\ GoodEnds(p, n, end, e) /\ LengthMax \in Nat
    BY <1>1, EndsAreGood, JobAssumption
  <2> QED BY <2>1 DEF GoodEnds, HeaderCells
<1>3. IsEnds(p, n, e)
  BY <1>1, <1>2, EndsAre
<1> SUFFICES ASSUME NEW k \in 1 .. n PROVE p[e[k - 1] + 1] <= LengthMax
  BY <1>1
<1>4. e[k] = EndStep(p, e[k - 1], k) /\ e[k] # -1
  <2>1. k \in 0 .. n /\ k # 0
    BY <1>2
  <2>2. e[k] = IF k = 0 THEN HeaderCells ELSE EndStep(p, e[k - 1], k)
    BY <1>3, <2>1 DEF IsEnds
  <2> QED BY <1>2, <2>1, <2>2
<1>5. ~(p[e[k - 1] + 1] > LengthMax)
  BY <1>4 DEF EndStep
<1>6. p[e[k - 1] + 1] \in Nat
  BY <1>2 DEF GoodEnds
<1> QED BY <1>2, <1>5, <1>6

(* What a call has gathered is the beginning of what lies ahead.           *)
LEMMA GatheredIs ==
  ASSUME PacketInv, stage # "idle", NEW p \in Cells, Ahead(p), pos - start <= Len(p)
  PROVE  /\ packet \in Cells /\ Len(packet) = pos - start /\ pos - start \in Nat
         /\ \A k \in 1 .. pos - start : packet[k] = p[k]
<1>1. /\ stream \in Cells /\ pos \in 0 .. Len(stream) /\ start \in 0 .. pos
      /\ packet = SubSeq(stream, start + 1, pos) /\ Len(p) \in Nat /\ Len(stream) \in Nat
  BY LenProperties DEF PacketInv, CallInv, Cells
<1>2. PICK from, to : from = start + 1 /\ to = pos
  OBVIOUS
<1>3. from \in Nat /\ to \in Nat /\ 1 <= from /\ from <= to + 1 /\ to <= Len(stream)
  BY <1>1, <1>2
<1>4. /\ packet \in Cells /\ Len(packet) = to - from + 1
      /\ \A k \in 1 .. to - from + 1 : packet[k] = stream[from + k - 1]
  BY <1>1, <1>2, <1>3, PartOf
<1>5. to - from + 1 = pos - start /\ pos - start \in Nat
  BY <1>1, <1>2
<1>6. ASSUME NEW k \in 1 .. pos - start PROVE packet[k] = p[k]
  <2>1. from + k - 1 = start + k /\ k \in 1 .. Len(p)
    BY <1>1, <1>2, <1>5
  <2>2. packet[k] = stream[from + k - 1]
    BY <1>4, <1>5
  <2> QED BY <2>1, <2>2 DEF Ahead
<1> QED BY <1>4, <1>5, <1>6

(* The call is at an end that the packet has, and all it wanted is there.  *)
Standing(p, n, end, e) ==
  /\ Len(p) \in Nat /\ Len(p) <= JobMax /\ JobMax \in Nat
  /\ n = Argc(p) /\ e = Ends(p) /\ n \in 1 .. ArgMax /\ ArgMax \in Nat
  /\ end \in Nat /\ FileCells(p) \in Nat /\ end = Len(p) - FileCells(p) /\ end >= HeaderCells
  /\ p[1] = Magic /\ GoodEnds(p, n, end, e)

LEMMA Stands ==
  ASSUME NEW p, Good(p)
  PROVE  \E n, end, e : Standing(p, n, end, e)
<1>1. p \in Cells /\ Decodable(p)
  BY DEF Good
<1>2. PICK n, end, e : n = Argc(p) /\ end = Len(p) - FileCells(p) /\ e = Ends(p)
  OBVIOUS
<1>3. /\ FileCells(p) \in Nat /\ end \in HeaderCells .. Len(p) /\ GoodEnds(p, n, end, e)
  BY <1>1, <1>2, EndsAreGood
<1>4. Len(p) \in Nat /\ Len(p) <= JobMax /\ JobMax \in Nat /\ ArgMax \in Nat
      /\ n \in 1 .. ArgMax /\ p[1] = Magic
  BY <1>1, <1>2, JobAssumption, LenProperties DEF Decodable, Cells
<1>5. end \in Nat /\ end >= HeaderCells
  BY <1>3, <1>4 DEF HeaderCells
<1> QED BY <1>2, <1>3, <1>4, <1>5 DEF Standing

(* On track, what is wanted lies within the packet.                        *)
LEMMA GoalWithin ==
  ASSUME PacketInv, stage # "idle", NEW p, Good(p), Ahead(p), OnTrack(p)
  PROVE  Goal \in HeaderCells .. Len(p) /\ pos - start \in Nat /\ pos - start <= Len(p)
         /\ want \in Nat
<1>1. PICK n, end, e : Standing(p, n, end, e)
  BY Stands
<1>2. pos - start \in Nat /\ want \in Nat
  BY LenProperties DEF PacketInv, CallInv, Cells
<1>3. PICK goal : goal = Goal
  OBVIOUS
<1>4. goal \in HeaderCells .. Len(p)
  <2>1. CASE goal = HeaderCells
    BY <1>1, <2>1 DEF Standing, HeaderCells
  <2>2. CASE i \in 0 .. n - 1 /\ goal = e[i] + 1
    <3>1. PICK k : k = i + 1 /\ k \in 1 .. n /\ k - 1 = i
      BY <1>1, <2>2 DEF Standing
    <3>2. e[k - 1] + 1 \in HeaderCells + 1 .. end
      BY <1>1, <3>1 DEF Standing, GoodEnds
    <3>3. goal \in HeaderCells + 1 .. end
      BY <2>2, <3>1, <3>2
    <3> QED BY <1>1, <3>3 DEF Standing, HeaderCells
  <2>3. CASE i \in 0 .. n - 1 /\ goal = e[i + 1]
    <3>1. i + 1 \in 0 .. n
      BY <1>1, <2>3 DEF Standing
    <3>2. goal \in HeaderCells .. end
      BY <1>1, <2>3, <3>1 DEF Standing, GoodEnds
    <3> QED BY <1>1, <3>2 DEF Standing, HeaderCells
  <2>4. CASE goal = Len(p)
    BY <1>1, <2>4 DEF Standing, HeaderCells
  <2>5. n = Argc(p) /\ e = Ends(p)
    BY <1>1 DEF Standing
  <2> QED BY <1>3, <2>1, <2>2, <2>3, <2>4, <2>5 DEF OnTrack
<1>5. pos - start <= goal
  BY <1>2, <1>3 DEF Goal
<1>6. Len(p) \in Nat
  BY <1>1 DEF Standing
<1>7. pos - start <= Len(p)
  BY <1>2, <1>4, <1>5, <1>6 DEF HeaderCells
<1> QED BY <1>2, <1>3, <1>4, <1>7

(* A step that makes room for the next part of a good packet: the part is  *)
(* there, so that only memory can be wanting.                              *)
LEMMA WantsPasses ==
  ASSUME PacketInv, stage # "idle", want = 0, NEW p, Good(p), NEW next, next # "idle",
         NEW extra \in Nat, Wants(next, extra), UNCHANGED <<pos, start, packet, caller>>,
         Ahead(p) => /\ Len(packet) \in Nat /\ Len(packet) + extra <= JobMax
                     /\ stage' = next /\ want' = extra => OnTrack(p)'
  PROVE  Passes(p)'
<1>1. /\ Ahead(p)' = Ahead(p) /\ start \in 0 .. pos /\ pos \in Nat /\ start' = start
  BY LenProperties DEF Ahead, caller, PacketInv, CallInv, Cells
<1>2. start # -1
  BY <1>1
<1>3. CASE extra > JobMax - Len(packet) /\ Fails("EFBIG")
  <2>1. ~Ahead(p)
    <3> SUFFICES ASSUME Ahead(p) PROVE FALSE
      OBVIOUS
    <3>1. Len(packet) \in Nat /\ Len(packet) + extra <= JobMax /\ JobMax \in Nat
      BY JobAssumption
    <3> QED BY <1>3, <3>1
  <2> QED BY <1>1, <1>2, <1>3, <2>1 DEF Passes, Fails
<1>4. CASE Fails("ENOMEM")
  BY <1>4 DEF Passes, Fails, TurnedDown
<1>5. CASE stage' = next /\ want' = extra
  BY <1>1, <1>5 DEF Passes, TurnedDown
<1> QED BY <1>3, <1>4, <1>5 DEF Wants

(* A call that turns something down has no good packet before it.          *)
LEMMA FailsPasses ==
  ASSUME PacketInv, stage # "idle", NEW p, NEW e, Fails(e), UNCHANGED <<pos, start, packet, caller>>,
         e \in {"EINVAL", "EFBIG"} => ~Ahead(p)
  PROVE  Passes(p)'
<1>1. Ahead(p)' = Ahead(p) /\ start \in 0 .. pos /\ pos \in Nat /\ start' = start
  BY LenProperties DEF Ahead, caller, PacketInv, CallInv, Cells
<1>2. start # -1 /\ stage' = "idle" /\ error' = e
  BY <1>1 DEF Fails
<1> QED BY <1>1, <1>2 DEF Passes, TurnedDown

LEMMA HeaderPasses ==
  ASSUME PacketInv, Header, NEW p, Good(p), Passes(p)
  PROVE  Passes(p)'
<1>1. PICK n, end, e : Standing(p, n, end, e)
  BY Stands
<1>2. stage = "header" /\ want = 0 /\ UNCHANGED <<pos, start, packet, i, caller>>
  BY DEF Header
<1>3. ASSUME Ahead(p)
      PROVE  /\ pos - start = HeaderCells /\ i = 0 /\ Len(packet) = HeaderCells
             /\ packet[1] = Magic /\ Argc(packet) = n
  <2>1. OnTrack(p)
    BY <1>2, <1>3 DEF Passes
  <2>2. i = 0 /\ Goal = HeaderCells
    BY <1>2, <2>1 DEF OnTrack
  <2>3. pos - start \in Nat /\ pos - start <= Len(p)
    BY <1>2, <1>3, <2>1, GoalWithin
  <2>4. pos - start = HeaderCells
    BY <1>2, <2>2, <2>3 DEF Goal, HeaderCells
  <2>5. Len(packet) = pos - start /\ \A k \in 1 .. pos - start : packet[k] = p[k]
    BY <1>2, <1>3, <2>3, GatheredIs DEF Good
  <2>6. packet[1] = p[1] /\ packet[2] = p[2]
    BY <2>4, <2>5 DEF HeaderCells
  <2> QED BY <1>1, <2>2, <2>4, <2>5, <2>6 DEF Standing, Argc
<1>4. CASE Fails("EINVAL") /\ (packet[1] # Magic \/ Argc(packet) \notin 1 .. ArgMax)
  <2>1. ~Ahead(p)
    BY <1>1, <1>3, <1>4 DEF Standing
  <2> QED BY <1>2, <1>4, <2>1, FailsPasses
<1>5. CASE Wants("length", 1)
  <2>1. ASSUME Ahead(p) PROVE Len(packet) \in Nat /\ Len(packet) + 1 <= JobMax
    <3>1. 1 \in 1 .. n /\ 1 - 1 = 0 /\ 0 + 1 = 1
      BY <1>1 DEF Standing
    <3>2. e[0] + 1 \in HeaderCells + 1 .. end /\ e[0] = HeaderCells
      BY <1>1, <3>1 DEF Standing, GoodEnds
    <3>3. HeaderCells + 1 <= end
      BY <3>2 DEF HeaderCells
    <3>4. Len(packet) = HeaderCells
      BY <1>3, <2>1
    <3>5. end \in Nat /\ end <= JobMax /\ JobMax \in Nat
      BY <1>1 DEF Standing
    <3> QED BY <3>3, <3>4, <3>5 DEF HeaderCells
  <2>2. ASSUME Ahead(p), stage' = "length", want' = 1 PROVE OnTrack(p)'
    <3>1. i' = 0 /\ pos' - start' = HeaderCells /\ want' = 1
      BY <1>2, <1>3, <2>2
    <3>2. e[0] = HeaderCells /\ n = Argc(p) /\ e = Ends(p) /\ 0 \in 0 .. n - 1
      BY <1>1 DEF Standing, GoodEnds
    <3> QED BY <2>2, <3>1, <3>2 DEF OnTrack, Goal
  <2> QED BY <1>2, <1>5, <2>1, <2>2, WantsPasses
<1> QED BY <1>4, <1>5 DEF Header

LEMMA LengthPasses ==
  ASSUME PacketInv, Length, NEW p, Good(p), Passes(p)
  PROVE  Passes(p)'
<1>1. PICK n, end, e : Standing(p, n, end, e)
  BY Stands
<1>2. stage = "length" /\ want = 0 /\ UNCHANGED <<pos, start, packet, i, caller>>
  BY DEF Length
<1>3. ASSUME Ahead(p)
      PROVE  /\ i \in 0 .. n - 1 /\ i + 1 \in 1 .. n /\ (i + 1) - 1 = i
             /\ Len(packet) = pos - start /\ pos - start \in Nat
             /\ Last(packet) = p[e[i] + 1] /\ Last(packet) <= LengthMax
             /\ pos - start + Last(packet) = e[i + 1] /\ e[i + 1] \in HeaderCells .. end
  <2>1. OnTrack(p)
    BY <1>2, <1>3 DEF Passes
  <2>2. i \in 0 .. n - 1 /\ Goal = e[i] + 1
    BY <1>1, <1>2, <2>1 DEF OnTrack, Standing
  <2>3. Goal \in HeaderCells .. Len(p) /\ pos - start \in Nat /\ pos - start <= Len(p)
    BY <1>2, <1>3, <2>1, GoalWithin
  <2>4. pos - start = Goal /\ pos - start >= HeaderCells
    BY <1>2, <2>3 DEF Goal, HeaderCells
  <2>5. Len(packet) = pos - start /\ \A k \in 1 .. pos - start : packet[k] = p[k]
    BY <1>2, <1>3, <2>3, GatheredIs DEF Good
  <2>6. packet[pos - start] = p[pos - start]
    BY <2>3, <2>4, <2>5 DEF HeaderCells
  <2>7. Last(packet) = p[e[i] + 1]
    BY <2>2, <2>4, <2>5, <2>6 DEF Last
  <2>8. PICK k : k = i + 1 /\ k \in 1 .. n /\ k - 1 = i
    BY <1>1, <2>2 DEF Standing
  <2>9. /\ k \in 0 .. n /\ e[k] = e[k - 1] + 1 + p[e[k - 1] + 1] /\ e[k] \in HeaderCells .. end
    <3>1. k \in 0 .. n
      BY <1>1, <2>8 DEF Standing
    <3> QED BY <1>1, <2>8, <3>1 DEF Standing, GoodEnds
  <2>10. p[e[k - 1] + 1] <= LengthMax
    BY <1>1, <2>8, LengthsAllowed DEF Standing, Good
  <2> QED BY <2>2, <2>3, <2>4, <2>5, <2>7, <2>8, <2>9, <2>10
<1>4. Last(packet) \in Nat /\ LengthMax \in Nat
  BY <1>2, LastIsNumber, JobAssumption
<1>5. CASE Fails("EINVAL") /\ Last(packet) > LengthMax
  <2>1. ~Ahead(p)
    BY <1>3, <1>4, <1>5
  <2> QED BY <1>2, <1>5, <2>1, FailsPasses
<1>6. CASE Wants("argument", Last(packet))
  <2>1. ASSUME Ahead(p) PROVE Len(packet) \in Nat /\ Len(packet) + Last(packet) <= JobMax
    <3>1. /\ Len(packet) = pos - start /\ pos - start \in Nat
          /\ pos - start + Last(packet) = e[i + 1] /\ e[i + 1] \in HeaderCells .. end
      BY <1>3, <2>1
    <3>2. end <= JobMax /\ end \in Nat /\ JobMax \in Nat
      BY <1>1 DEF Standing
    <3> QED BY <3>1, <3>2 DEF HeaderCells
  <2>2. ASSUME Ahead(p), stage' = "argument", want' = Last(packet) PROVE OnTrack(p)'
    <3>1. /\ i' \in 0 .. n - 1 /\ (pos' - start') + want' = e[i' + 1]
      BY <1>2, <1>3, <2>2
    <3>2. n = Argc(p) /\ e = Ends(p)
      BY <1>1 DEF Standing
    <3> QED BY <2>2, <3>1, <3>2 DEF OnTrack, Goal
  <2> QED BY <1>2, <1>4, <1>6, <2>1, <2>2, WantsPasses
<1> QED BY <1>5, <1>6 DEF Length

LEMMA ArgumentPasses ==
  ASSUME PacketInv, Argument, NEW p, Good(p), Passes(p)
  PROVE  Passes(p)'
<1>1. PICK n, end, e : Standing(p, n, end, e)
  BY Stands
<1>2. /\ stage = "argument" /\ want = 0 /\ i' = i + 1
      /\ UNCHANGED <<pos, start, packet, caller>>
  BY DEF Argument
<1>3. ASSUME Ahead(p)
      PROVE  /\ i \in 0 .. n - 1 /\ i + 1 \in 1 .. n
             /\ Len(packet) = pos - start /\ pos - start \in Nat /\ pos - start = e[i + 1]
             /\ Argc(packet) = n /\ FileCells(packet) = FileCells(p)
  <2>1. OnTrack(p)
    BY <1>2, <1>3 DEF Passes
  <2>2. i \in 0 .. n - 1 /\ Goal = e[i + 1]
    BY <1>1, <1>2, <2>1 DEF OnTrack, Standing
  <2>3. Goal \in HeaderCells .. Len(p) /\ pos - start \in Nat /\ pos - start <= Len(p)
    BY <1>2, <1>3, <2>1, GoalWithin
  <2>4. pos - start = Goal /\ pos - start >= HeaderCells
    BY <1>2, <2>3 DEF Goal, HeaderCells
  <2>5. Len(packet) = pos - start /\ \A k \in 1 .. pos - start : packet[k] = p[k]
    BY <1>2, <1>3, <2>3, GatheredIs DEF Good
  <2>6. packet[2] = p[2] /\ packet[3] = p[3]
    BY <2>3, <2>4, <2>5 DEF HeaderCells
  <2>7. i + 1 \in 1 .. n
    BY <1>1, <2>2 DEF Standing
  <2> QED BY <1>1, <2>2, <2>3, <2>4, <2>5, <2>6, <2>7 DEF Standing, Argc, FileCells
<1>4. FileCells(packet) \in Nat
  BY <1>2, LastIsNumber
<1>5. CASE i + 1 < Argc(packet) /\ Wants("length", 1)
  <2>1. ASSUME Ahead(p)
        PROVE  /\ i + 1 \in 0 .. n - 1 /\ e[i + 1] + 1 \in HeaderCells + 1 .. end
    <3>1. i + 1 \in 1 .. n /\ i + 1 < n /\ n \in Nat
      BY <1>1, <1>3, <1>5, <2>1 DEF Standing
    <3>2. PICK k : k = i + 2 /\ k \in 1 .. n /\ k - 1 = i + 1
      BY <1>3, <2>1, <3>1
    <3>3. e[k - 1] + 1 \in HeaderCells + 1 .. end
      BY <1>1, <3>2 DEF Standing, GoodEnds
    <3> QED BY <3>1, <3>2, <3>3
  <2>2. ASSUME Ahead(p) PROVE Len(packet) \in Nat /\ Len(packet) + 1 <= JobMax
    <3>1. Len(packet) \in Nat /\ Len(packet) = e[i + 1]
      BY <1>3, <2>2
    <3>2. e[i + 1] + 1 <= end
      BY <2>1, <2>2 DEF HeaderCells
    <3>3. end <= JobMax /\ end \in Nat /\ JobMax \in Nat
      BY <1>1 DEF Standing
    <3> QED BY <3>1, <3>2, <3>3
  <2>3. ASSUME Ahead(p), stage' = "length", want' = 1 PROVE OnTrack(p)'
    <3>1. i' \in 0 .. n - 1 /\ (pos' - start') + want' = e[i'] + 1
      BY <1>2, <1>3, <2>1, <2>3
    <3>2. n = Argc(p) /\ e = Ends(p)
      BY <1>1 DEF Standing
    <3> QED BY <2>3, <3>1, <3>2 DEF OnTrack, Goal
  <2> QED BY <1>2, <1>5, <2>2, <2>3, WantsPasses
<1>6. CASE ~(i + 1 < Argc(packet)) /\ Wants("files", FileCells(packet))
  <2>1. ASSUME Ahead(p)
        PROVE  (pos - start) + FileCells(packet) = Len(p) /\ Len(packet) = pos - start
               /\ pos - start \in Nat
    <3>1. i + 1 = n
      BY <1>1, <1>3, <1>6, <2>1 DEF Standing
    <3>2. e[n] = end /\ end = Len(p) - FileCells(p) /\ end \in Nat
          /\ FileCells(p) \in Nat /\ Len(p) \in Nat
      BY <1>1 DEF Standing, GoodEnds
    <3>3. pos - start = end /\ FileCells(packet) = FileCells(p) /\ Len(packet) = pos - start
      BY <1>3, <2>1, <3>1, <3>2
    <3> QED BY <3>2, <3>3
  <2>2. ASSUME Ahead(p) PROVE Len(packet) \in Nat /\ Len(packet) + FileCells(packet) <= JobMax
    <3>1. Len(p) <= JobMax
      BY <1>1 DEF Standing
    <3> QED BY <2>1, <2>2, <3>1
  <2>3. ASSUME Ahead(p), stage' = "files", want' = FileCells(packet) PROVE OnTrack(p)'
    <3>1. (pos' - start') + want' = Len(p)
      BY <1>2, <2>1, <2>3
    <3> QED BY <2>3, <3>1 DEF OnTrack, Goal
  <2> QED BY <1>2, <1>4, <1>6, <2>2, <2>3, WantsPasses
<1> QED BY <1>5, <1>6 DEF Argument

(* Cells that are delivered change nothing of where a call will be.        *)
LEMMA DeliverPasses ==
  ASSUME PacketInv, Deliver, NEW p, Good(p), Passes(p)
  PROVE  Passes(p)'
<1>1. /\ \E k \in 1 .. want : pos' = pos + k /\ want' = want - k
      /\ UNCHANGED <<start, stage, i, error, stream, job>> /\ want > 0
  BY DEF Deliver, caller
<1>2. stage # "idle" /\ pos \in Nat /\ want \in Nat /\ start \in Nat
  BY <1>1, LenProperties DEF PacketInv, CallInv, Cells
<1>3. Goal' = Goal
  <2>1. PICK k \in 1 .. want : pos' = pos + k /\ want' = want - k
    BY <1>1
  <2> QED BY <1>1, <1>2, <2>1 DEF Goal
<1>4. Ahead(p)' = Ahead(p)
  BY <1>1 DEF Ahead
<1> QED BY <1>1, <1>2, <1>3, <1>4 DEF Passes, OnTrack, TurnedDown

(* What cs_gcc_job_decode makes of a good packet.                          *)
LEMMA DecodesGood ==
  ASSUME NEW p, Good(p), Decodes(p)
  PROVE  error' \notin {"EINVAL", "EFBIG"}
<1>1. Decodable(p) /\ Blob(p) \in Blobs
  BY DEF Good
<1>2. error' = "ENOMEM" \/ Mounts(Blob(p))
  BY <1>1 DEF Decodes
<1> QED BY <1>1, <1>2 DEF Mounts

LEMMA DecodePasses ==
  ASSUME PacketInv, Decode, NEW p, Good(p), Passes(p)
  PROVE  Passes(p)'
<1>1. /\ stage = "files" /\ want = 0 /\ Decodes(packet) /\ stage' = "idle"
      /\ UNCHANGED <<stream, pos, start, packet>>
  BY DEF Decode
<1>2. start \in 0 .. pos /\ pos \in Nat
  BY <1>1, LenProperties DEF PacketInv, CallInv, Cells
<1>3. ASSUME Ahead(p) PROVE packet = p
  <2>1. OnTrack(p)
    BY <1>1, <1>3 DEF Passes
  <2>2. Goal = Len(p) /\ p \in Cells
    BY <1>1, <2>1 DEF OnTrack, Good
  <2>3. pos - start \in Nat /\ pos - start <= Len(p)
    BY <1>1, <1>3, <2>1, GoalWithin
  <2>4. pos - start = Len(p)
    BY <1>1, <2>2, <2>3 DEF Goal
  <2>5. packet \in Cells /\ Len(packet) = Len(p) /\ \A k \in 1 .. Len(p) : packet[k] = p[k]
    BY <1>1, <1>3, <2>2, <2>3, <2>4, GatheredIs
  <2> QED BY <2>2, <2>5, SeqEqual DEF Cells
<1>4. Ahead(p) => error' \notin {"EINVAL", "EFBIG"}
  BY <1>1, <1>3, DecodesGood
<1>5. Ahead(p)' = Ahead(p) /\ start' # -1
  BY <1>1, <1>2 DEF Ahead
<1> QED BY <1>1, <1>4, <1>5 DEF Passes, TurnedDown

LEMMA ReadPasses ==
  ASSUME PacketInv, Read, NEW p, Good(p), Passes(p)
  PROVE  Passes(p)'
<1>1. stage = "idle" /\ i' = 0 /\ UNCHANGED <<pos, stream, job, storage, mounted>>
  BY DEF Read, caller
<1>2. CASE job # None \/ storage # None
  <2>1. job # None
    <3> SUFFICES ASSUME storage # None PROVE job # None
      BY <1>2
    <3>1. Decodable(storage) /\ job = Argv(storage) /\ storage \in Cells
      <4>1. /\ Decodable(storage) /\ job = Argv(storage)
            /\ start \in 0 .. pos /\ storage = SubSeq(stream, start + 1, pos)
        BY DEF PacketInv, OwnedInv
      <4> QED BY <4>1, TakenIsCells
    <3>2. PICK n \in Nat : n = Argc(storage) /\ n >= 1
      BY <3>1, EndsAreGood
    <3>3. 1 \in DOMAIN job
      BY <3>1, <3>2 DEF Argv
    <3>4. DOMAIN None = {}
      BY DEF None
    <3> QED BY <3>3, <3>4
  <2>2. job' # None /\ stage' = "idle"
    BY <1>1, <1>2, <2>1 DEF Read, Fails
  <2> QED BY <2>2 DEF Passes, TurnedDown
<1>3. CASE ~(job # None \/ storage # None)
  <2>1. start' = pos /\ (Fails("ENOMEM") \/ (stage' = "header" /\ want' = HeaderCells))
    BY <1>3 DEF Read
  <2>2. CASE Fails("ENOMEM")
    BY <2>2 DEF Passes, TurnedDown, Fails
  <2>3. CASE stage' = "header" /\ want' = HeaderCells
    <3>1. pos \in Nat
      BY LenProperties DEF PacketInv, CallInv, Cells
    <3>2. Goal' = HeaderCells
      BY <1>1, <2>1, <2>3, <3>1 DEF Goal, HeaderCells
    <3> QED BY <1>1, <2>3, <3>2 DEF Passes, TurnedDown, OnTrack
  <2> QED BY <2>1, <2>2, <2>3
<1> QED BY <1>2, <1>3

LEMMA DecodeOwnedPasses ==
  ASSUME DecodeOwned, NEW p, Good(p)
  PROVE  Passes(p)'
<1>1. /\ stage' = "idle" /\ start' = -1
      /\ \/ job # None /\ UNCHANGED job
         \/ Decodes(packet')
  BY DEF DecodeOwned
<1>2. packet' = p /\ Decodes(packet') => error' \notin {"EINVAL", "EFBIG"}
  BY DecodesGood
<1>3. TurnedDown' => packet' # p
  BY <1>1, <1>2 DEF TurnedDown
<1> QED BY <1>1, <1>3 DEF Passes

LEMMA PassNextKeeps == PacketInv /\ PassInv /\ Next => PassInv'
<1> SUFFICES ASSUME PacketInv, PassInv, Next
             PROVE  (start \in -1 .. pos)' /\ \A p : Good(p) => Passes(p)'
  BY DEF PassInv, Good
<1>12. (start \in -1 .. pos)'
  <2>1. start \in -1 .. pos /\ pos \in Nat
    BY LenProperties DEF PassInv, PacketInv, CallInv, Cells
  <2>2. start' = start \/ start' = pos \/ start' = -1
    BY DEF Next, Read, Deliver, Break, Header, Length, Argument, Decode, DecodeOwned, Release, Program
  <2>3. pos' = pos \/ \E k \in 1 .. want : pos' = pos + k
    BY DEF Next, Read, Deliver, Break, Header, Length, Argument, Decode, DecodeOwned, Release, Program
  <2>4. pos' \in Nat /\ pos <= pos'
    BY <2>1, <2>3 DEF PacketInv, CallInv
  <2> QED BY <2>1, <2>2, <2>4
<1> SUFFICES ASSUME NEW p, Good(p) PROVE Passes(p)'
  BY <1>12
<1>1. Passes(p)
  BY DEF PassInv
<1>2. CASE Read
  BY <1>1, <1>2, ReadPasses
<1>3. CASE Deliver
  BY <1>1, <1>3, DeliverPasses
<1>4. CASE Break
  <2>1. Fails("EIO") /\ UNCHANGED <<pos, start, packet, caller>> /\ stage # "idle"
    BY <1>4 DEF Break, PacketInv, CallInv
  <2> QED BY <2>1, FailsPasses
<1>5. CASE Header
  BY <1>1, <1>5, HeaderPasses
<1>6. CASE Length
  BY <1>1, <1>6, LengthPasses
<1>7. CASE Argument
  BY <1>1, <1>7, ArgumentPasses
<1>8. CASE Decode
  BY <1>1, <1>8, DecodePasses
<1>9. CASE DecodeOwned
  BY <1>9, DecodeOwnedPasses
<1>10. CASE Release
  BY <1>10 DEF Release, Passes, TurnedDown
<1>11. CASE Program
  BY <1>1, <1>11 DEF Program, Passes, TurnedDown, Ahead
<1> QED BY <1>2, <1>3, <1>4, <1>5, <1>6, <1>7, <1>8, <1>9, <1>10, <1>11 DEF Next

LEMMA PassStays == PassInv /\ UNCHANGED vars => PassInv'
<1> SUFFICES ASSUME PassInv, UNCHANGED vars, NEW p, Good(p) PROVE Passes(p)'
  BY DEF PassInv, Good, vars
<1> QED BY DEF PassInv, Passes, TurnedDown, OnTrack, Goal, Ahead, vars

LEMMA PassStarts == Init => PassInv
BY DEF Init, PassInv, Passes, TurnedDown

LEMMA InvPasses == PacketInv /\ PassInv => GoodJobsPass
<1> SUFFICES ASSUME PacketInv, PassInv, TurnedDown, NEW j \in Jobs
             PROVE  IF start = -1 THEN packet # Packet(j.argv, j.blob)
                    ELSE ~IsPrefix(Packet(j.argv, j.blob), SubSeq(stream, start + 1, Len(stream)))
  BY DEF GoodJobsPass, TurnedDown
<1>1. PICK p : p = Packet(j.argv, j.blob) /\ Good(p)
  BY GoodJobDecodes DEF Good
<1>2. IF start = -1 THEN packet # p ELSE ~Ahead(p)
  BY <1>1 DEF PassInv, Passes
<1>3. ASSUME start # -1, IsPrefix(p, SubSeq(stream, start + 1, Len(stream)))
      PROVE  Ahead(p)
  <2>1. p \in Cells /\ stream \in Cells /\ Len(p) \in Nat /\ Len(stream) \in Nat
        /\ start \in Nat /\ start <= Len(stream)
    BY <1>1, <1>3, LenProperties DEF Good, PassInv, PacketInv, CallInv, Cells
  <2>2. PICK from, to, s : from = start + 1 /\ to = Len(stream) /\ s = SubSeq(stream, from, to)
    OBVIOUS
  <2>3. /\ s \in Cells /\ Len(s) = to - from + 1
        /\ \A k \in 1 .. to - from + 1 : s[k] = stream[from + k - 1]
    <3>1. from \in Nat /\ to \in Nat /\ 1 <= from /\ from <= to + 1 /\ to <= Len(stream)
      BY <2>1, <2>2
    <3> QED BY <2>1, <2>2, <3>1, PartOf
  <2>4. Len(p) <= Len(s) /\ SubSeq(p, 1, Len(p)) = SubSeq(s, 1, Len(p))
    BY <1>3, <2>2 DEF IsPrefix
  <2>5. start + Len(p) <= Len(stream)
    BY <2>1, <2>2, <2>3, <2>4
  <2>6. ASSUME NEW k \in 1 .. Len(p) PROVE stream[start + k] = p[k]
    <3>1. PICK len \in Nat : len = Len(p) /\ 1 <= len + 1 /\ len <= Len(s)
      BY <2>1, <2>4
    <3>2. len - 1 + 1 = len /\ 1 + k - 1 = k
      BY <3>1
    <3>3. SubSeq(p, 1, len)[k] = p[1 + k - 1]
      BY <2>1, <3>1, <3>2, PartOf
    <3>4. SubSeq(s, 1, len)[k] = s[1 + k - 1]
      BY <2>3, <3>1, <3>2, PartOf
    <3>5. s[k] = stream[from + k - 1] /\ from + k - 1 = start + k
      BY <2>1, <2>2, <2>3, <2>4
    <3> QED BY <2>4, <3>1, <3>2, <3>3, <3>4, <3>5
  <2> QED BY <2>5, <2>6 DEF Ahead
<1> QED BY <1>1, <1>2, <1>3

(* A job that its sender wrote well is turned down only for want of        *)
(* memory, of input, or of files that nobody holds: whatever the jobs, the *)
(* limits and the stream, and in whatever parts it is delivered            *)
(* (cs_gcc_job_read and cs_gcc_job_decode of job.c).                       *)
THEOREM GoodJobsAreTaken == Spec => []GoodJobsPass
<1>1. Init => PacketInv /\ PassInv
  BY PacketStarts, PassStarts
<1>2. PacketInv /\ PassInv /\ [Next]_vars => (PacketInv /\ PassInv)'
  BY PacketNextKeeps, PacketStays, PassNextKeeps, PassStays
<1> QED BY <1>1, <1>2, InvPasses, PTL DEF Spec

(* So it is for the job of a whole guest.                                  *)
THEOREM GuestTakesGoodJobs == GuestSpec => []GoodJobsPass
<1>1. GuestInit => PacketInv /\ PassInv
  BY PacketStarts, PassStarts DEF GuestInit
<1>2. [GuestNext]_guestVars => Next \/ UNCHANGED vars
  BY DEF GuestNext, ReadJob, Refuse, Begin, Take, Ready, Answers, Next, guestVars, jobVars
<1>3. PacketInv /\ PassInv /\ [GuestNext]_guestVars => (PacketInv /\ PassInv)'
  BY <1>2, PacketNextKeeps, PacketStays, PassNextKeeps, PassStays
<1> QED BY <1>1, <1>3, InvPasses, PTL DEF GuestSpec
=============================================================================
