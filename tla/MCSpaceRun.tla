----------------------------- MODULE MCSpaceRun -----------------------------
(* A space of 16 bytes with four instructions: rows of 20 bits, PROCESSOR  *)
(* in bits 0..79, data in bits 80..127.                                    *)
EXTENDS SpaceRun

R(n, dst, src) == [n |-> n, dst |-> dst, src |-> src]

(* The image with the instructions rows and the ones of data.              *)
Put(S, i, row) ==
  WithField(WithField(WithField(S, NAt(i), NSize, row.n),
                      DstAt(i), AddressSize, row.dst),
            SrcAt(i), AddressSize, row.src)

Image(r0, r1, r2, r3, data) ==
  [bytes |-> 16, ones |-> Put(Put(Put(Put(data, 0, r0), 1, r1), 2, r2), 3, r3)]

None == R(0, 0, 0)
Idle == R(0, 83, 0)  \* nothing to do, at no byte's address
Data == {81, 84, 90, 99, 103, 110}

(* Data that is an instruction: slot 3 clears the length of slot 0.        *)
ClearFirst == {p + 20 : p \in Put({}, 3, R(6, 0, 120))}

MCFiles == {
  \* nothing to do, and a file that does not fit
  [bytes |-> 0, ones |-> {}], [bytes |-> 17, ones |-> {0}],
  \* pipe the input to the output
  Image(None, R(16, 80, 0), R(16, 80, 0), None, Data),
  \* copy data, then the status of the read; overlap
  Image(R(8, 96, 80), R(8, 80, 0), None, R(7, 104, 33), Data),
  Image(R(30, 85, 80), Idle, Idle, R(30, 80, 85), Data),
  \* read over the status of the read and over the next instruction
  Image(None, R(16, 32, 0), None, None, {}),
  \* read over the first instruction and the length of the read
  Image(None, R(24, 0, 0), R(8, 104, 0), None, Data),
  \* patch the last instruction, which then clears the first
  Image(R(20, 60, 80), None, None, None, ClearFirst),
  \* clear the length of OUT after its first tick
  Image(None, None, R(24, 40, 0), R(6, 40, 120), Data),
  \* ranges the channels reject, and an invalid copy after a valid one
  Image(None, R(4, 80, 0), R(16, 120, 0), None, Data),
  Image(R(12, 100, 80), None, R(8, 80, 0), R(20, 120, 60), Data)}

MCInput == <<{4, 6, 7}, {0, 1, 2}>>
=============================================================================
