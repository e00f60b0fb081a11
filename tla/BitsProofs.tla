----------------------------- MODULE BitsProofs -----------------------------
(***************************************************************************)
(* The two ways in which the code touches bits.                            *)
(*                                                                         *)
(* For arrays of any length and any contents: bitcpy moves the bits the    *)
(* source held at the call, touches no other bit and no other byte, and    *)
(* each of its steps is a step or a stutter of the one-step copy.          *)
(*                                                                         *)
(* get_argument reads the field it is asked for, and nothing past the end  *)
(* of the space, for a space of any size, any contents, any offset and any *)
(* width up to 31.                                                         *)
(***************************************************************************)
EXTENDS BitCopy, FieldRead, TLAPS

(* In m the offsets in D of the call c, and only they, have received their *)
(* final bit.                                                              *)
FilledIn(m, c, D) ==
  \A a \in Org : \A p \in Pos :
    m[a][p] = IF a = c.do /\ p - c.d \in D
              THEN InitialMem[c.so][c.s + (p - c.d)]
              ELSE InitialMem[a][p]

Filled(D) == FilledIn(mem, call, D)

(* How far the destination has come, in bits.                              *)
Off == d - call.d

CallInv ==
  pc \in {"call", "head", "aligned"} =>
    n = call.n /\ s = call.s /\ d = call.d

StartInv == pc \in {"call", "head"} => Filled({})

LoopInv ==
  pc \in {"forward", "backward"} =>
    /\ Off >= 0 /\ s - call.s = Off /\ n = call.n - Off
    /\ len <= n
    /\ pc = "forward" <=> d < s
    /\ back = "done" => len = n
    /\ Overlapping(call) => Off = 0 /\ back = "done"
    /\ back = "aligned" => /\ Off = 0 /\ call.n >= 8
                           /\ d % 8 # 0 /\ len = 8 - (d % 8)
    /\ Filled(IF pc = "forward"
              THEN 0 .. (Off + i - 1)
              ELSE (0 .. (Off - 1)) \cup ((Off + i) .. (Off + len - 1)))

AlignedInv ==
  pc = "aligned" =>
    /\ ~Overlapping(call) /\ call.n >= 8
    /\ d % 8 # 0 /\ len = 8 - (d % 8)
    /\ Filled(0 .. (len - 1))

ShiftInv ==
  pc = "shift" =>
    /\ ~Overlapping(call)
    /\ Off >= 0 /\ s - call.s = Off /\ n = call.n - Off
    /\ 8 * dst = d /\ src = s \div 8
    /\ Filled(0 .. (Off - 1))

HeadInv ==
  pc = "head" =>
    /\ ~Overlapping(call) /\ call.n >= 8
    /\ s % 8 = d % 8 /\ d % 8 # 0
    /\ src = s \div 8 /\ dst = d \div 8

MoveInv ==
  pc \in {"move", "tail"} =>
    /\ ~Overlapping(call)
    /\ 8 * dst >= call.d /\ 8 * src - call.s = 8 * dst - call.d
    /\ n = call.n - (8 * dst - call.d)
    /\ pc = "tail" => n < 8
    /\ Filled(0 .. (8 * dst - call.d - 1))

DoneInv == pc = "done" => Filled(0 .. (call.n - 1))

(* Which offsets are filled is known at each statement; that the source of *)
(* the next bit is still unfilled is what makes the copy a snapshot.       *)
IInv == /\ TypeOK /\ StaysInBounds
        /\ CallInv /\ StartInv /\ LoopInv /\ AlignedInv
        /\ ShiftInv /\ HeadInv /\ MoveInv /\ DoneInv
-----------------------------------------------------------------------------
(* Bytes and bits: the arithmetic of >> 3 and & 7.                         *)
LEMMA ByteArithmetic ==
  \A x \in Nat : /\ x \div 8 \in Nat /\ x % 8 \in 0 .. 7
                 /\ x = 8 * (x \div 8) + (x % 8)
  BY SMT

(* The whole bytes of a number of bits.                                    *)
LEMMA WholeBytes ==
  ASSUME NEW m \in Nat
  PROVE  8 * (m \div 8) \in Nat /\ 8 * (m \div 8) <= m
<1> DEFINE q == m \div 8
           r == m % 8
<1>1. q \in Nat /\ r \in Nat /\ m = 8 * q + r
  BY ByteArithmetic
<1> HIDE DEF q, r
<1>2. 8 * q \in Nat /\ 8 * q <= m
  BY <1>1
<1> QED BY <1>2 DEF q

LEMMA Cancel ==
  ASSUME NEW x \in Nat, 8 * x <= 8 * Bytes
  PROVE  x \in 0 .. Bytes
  BY BytesAssumption

LEMMA LastByte ==
  ASSUME NEW x \in Nat, x % 8 # 0
  PROVE  (x + 7) \div 8 = x \div 8 + 1
  BY SMT

LEMMA InPos ==
  ASSUME NEW x \in Nat, NEW y \in Nat, x < y, y <= 8 * Bytes
  PROVE  x \in Pos
  BY BytesAssumption DEF Pos

LEMMA InBytes ==
  ASSUME NEW x \in Nat, x <= 8 * Bytes
  PROVE  x \div 8 \in 0 .. Bytes
  BY BytesAssumption

(* What the fields of a call are.                                          *)
LEMMA CallType ==
  ASSUME NEW c \in Calls
  PROVE  /\ c.n \in Nat /\ c.s \in Nat /\ c.d \in Nat
         /\ c.so \in Org /\ c.do \in Org
         /\ c.s + c.n <= 8 * Bytes /\ c.d + c.n <= 8 * Bytes
  BY BytesAssumption DEF Calls

(* A write keeps the type of the arrays (bit_set_ptr, memmove, *dst = ...). *)
LEMMA MovedType ==
  ASSUME NEW c \in Calls, NEW m \in [Org -> [Pos -> Content]],
         NEW k \in Nat, NEW q \in Nat, NEW p \in Nat,
         q + k <= 8 * Bytes
  PROVE  Moved(m, c, k, q, p) \in [Org -> [Pos -> Content]]
<1> DEFINE new == [b \in Pos |-> IF p <= b /\ b < p + k
                                 THEN m[c.so][q + (b - p)] ELSE m[c.do][b]]
<1>1. new \in [Pos -> Content]
  <2>1. ASSUME NEW b \in Pos, p <= b, b < p + k
        PROVE  m[c.so][q + (b - p)] \in Content
    <3>1. q + (b - p) \in Pos
      BY <2>1, BytesAssumption DEF Pos
    <3> QED BY <3>1, CallType
  <2>2. ASSUME NEW b \in Pos
        PROVE  m[c.do][b] \in Content
    BY CallType
  <2> QED BY <2>1, <2>2
<1> QED BY <1>1 DEF Moved

(* A write of k bits whose source bits are still unfilled fills exactly    *)
(* their offsets.                                                          *)
LEMMA MovedFills ==
  ASSUME NEW c \in Calls, NEW m \in [Org -> [Pos -> Content]],
         NEW k \in Nat, NEW q \in Nat, NEW p \in Nat,
         NEW D, NEW E, FilledIn(m, c, D),
         p >= c.d, p + k <= c.d + c.n, q - c.s = p - c.d,
         c.so = c.do => \A j \in Nat : j < k => (q + j) - c.d \notin D,
         \A x \in Int : x \in E <=> \/ x \in D
                                    \/ p - c.d <= x /\ x < (p - c.d) + k
  PROVE  FilledIn(Moved(m, c, k, q, p), c, E)
<1> DEFINE m2 == Moved(m, c, k, q, p)
<1> SUFFICES ASSUME NEW a \in Org, NEW b \in Pos
             PROVE  m2[a][b] = IF a = c.do /\ b - c.d \in E
                               THEN InitialMem[c.so][c.s + (b - c.d)]
                               ELSE InitialMem[a][b]
  BY DEF FilledIn
<1>0. b \in Nat /\ b - c.d \in Int
  BY CallType DEF Pos
<1>1. CASE a # c.do
  <2>1. m2[a] = m[a]
    BY <1>1, CallType DEF Moved
  <2> QED BY <1>1, <2>1 DEF FilledIn
<1>2. CASE a = c.do /\ p <= b /\ b < p + k
  <2> DEFINE j == b - p
  <2>1. j \in Nat /\ j < k /\ q + j = c.s + (b - c.d) /\ q + j \in Pos
    <3>1. /\ c.n \in Nat /\ c.s \in Nat /\ c.d \in Nat
          /\ c.s + c.n <= 8 * Bytes
      BY CallType
    <3>2. j \in Nat /\ j < k
      BY <1>2, <1>0
    <3>3. q + j = c.s + (b - c.d)
      BY <3>1, <1>0
    <3>4. q + j >= 0 /\ q + j < c.s + c.n
      BY <3>1, <3>2
    <3> HIDE DEF j
    <3>5. q + j \in Pos
      BY <3>1, <3>2, <3>4, InPos
    <3> QED BY <3>2, <3>3, <3>5
  <2>2. m2[a][b] = m[c.so][q + j]
    BY <1>2, CallType DEF Moved
  <2>3. m[c.so][q + j] = InitialMem[c.so][q + j]
    BY <2>1, CallType DEF FilledIn
  <2>4. b - c.d \in E
    BY <1>2, <1>0, CallType
  <2> QED BY <1>2, <2>1, <2>2, <2>3, <2>4
<1>3. CASE a = c.do /\ ~(p <= b /\ b < p + k)
  <2>1. m2[a][b] = m[a][b]
    BY <1>3, CallType DEF Moved
  <2>2. b - c.d \in E <=> b - c.d \in D
    BY <1>3, <1>0, CallType
  <2> QED BY <1>3, <2>1, <2>2 DEF FilledIn
<1> QED BY <1>1, <1>2, <1>3

(* Filled depends only on which offsets are in the set.                    *)
LEMMA SameFilled ==
  ASSUME NEW c \in Calls, NEW m, NEW D, NEW E, FilledIn(m, c, D),
         \A x \in Int : x \in D <=> x \in E
  PROVE  FilledIn(m, c, E)
<1>1. \A p \in Pos : p - c.d \in Int
  BY CallType DEF Pos
<1> QED BY <1>1 DEF FilledIn

(* The bytes of a part of a range are bytes of the range.                  *)
LEMMA BytesWithin ==
  ASSUME NEW a, NEW p \in Nat, NEW k \in Nat, NEW q \in Nat, NEW l \in Nat,
         q <= p, p + k <= q + l
  PROVE  BytesOf(a, p, k) \subseteq BytesOf(a, q, l)
  BY DEF BytesOf

(* The bytes of a range are pairs of the array and an index.               *)
LEMMA BytesType ==
  ASSUME NEW a \in Org, NEW p \in Nat, NEW k \in Nat
  PROVE  BytesOf(a, p, k) \subseteq Org \X Nat
<1>1. \A b \in p .. (p + k - 1) : b \div 8 \in Nat
  BY ByteArithmetic
<1> QED BY <1>1 DEF BytesOf
-----------------------------------------------------------------------------
LEMMA InitIInv == Init => IInv
<1> SUFFICES ASSUME Init PROVE IInv
  OBVIOUS
<1> USE DEF Init
<1>1. TypeOK
  BY MemAssumption, BytesAssumption, CallType DEF TypeOK, Labels, Calls
<1>2. Filled({})
  BY DEF Filled, FilledIn
<1>3. StaysInBounds
  BY DEF StaysInBounds
<1> QED BY <1>1, <1>2, <1>3
           DEF IInv, CallInv, StartInv, LoopInv, AlignedInv, ShiftInv,
               HeadInv, MoveInv, DoneInv

(* Before the arrays are touched: the early returns and the choice of path. *)
LEMMA ChoicePreserves ==
  ASSUME IInv, Nothing \/ ByBits \/ ByBytes
  PROVE  IInv'
<1> USE DEF IInv, CallInv, StartInv
<1>1. /\ call \in Calls /\ call' = call /\ mem' = mem /\ touched' = touched
      /\ pc = "call" /\ n = call.n /\ s = call.s /\ d = call.d
      /\ n' = n /\ s' = s /\ d' = d
      /\ FilledIn(mem, call, {})
  BY DEF Nothing, ByBits, ByBytes, TypeOK, Filled
<1>2. /\ call.n \in Nat /\ call.s \in Nat /\ call.d \in Nat
      /\ call.s + call.n <= 8 * Bytes /\ call.d + call.n <= 8 * Bytes
  BY <1>1, CallType
<1>3. StaysInBounds'
  BY <1>1 DEF StaysInBounds, BytesOf
<1>4. CASE Nothing
  <2>1. TypeOK'
    BY <1>4 DEF Nothing, TypeOK, Labels
  <2>2. FilledIn(mem, call, 0 .. (call.n - 1))
    <3>1. CASE call.n = 0
      BY <3>1, <1>1, SameFilled
    <3>2. CASE SamePlace(call)
      BY <3>2, <1>1, <1>2 DEF FilledIn, SamePlace, Pos
    <3> QED BY <3>1, <3>2, <1>1, <1>4 DEF Nothing
  <2>3. DoneInv'
    BY <2>2, <1>1 DEF DoneInv, Filled
  <2> QED BY <1>3, <1>4, <2>1, <2>3
             DEF Nothing, LoopInv, AlignedInv, ShiftInv, HeadInv, MoveInv
<1>5. CASE ByBits
  <2>1. TypeOK'
    BY <1>5, <1>1, <1>2 DEF ByBits, Fallback, TypeOK, Labels
  <2>2. /\ len' = n /\ back' = "done"
        /\ pc' = IF d < s THEN "forward" ELSE "backward"
        /\ i' = IF d < s THEN 0 ELSE n
    BY <1>5 DEF ByBits, Fallback
  <2>3. Filled(IF pc = "forward" THEN 0 .. (Off + i - 1)
               ELSE (0 .. (Off - 1)) \cup ((Off + i) .. (Off + len - 1)))'
    <3>1. CASE d < s
      <4>1. FilledIn(mem, call, 0 .. (d - call.d + 0 - 1))
        BY <1>1, <1>2, SameFilled
      <4> QED BY <4>1, <3>1, <2>2, <1>1 DEF Filled, Off
    <3>2. CASE ~(d < s)
      <4>1. FilledIn(mem, call, (0 .. (d - call.d - 1)) \cup ((d - call.d + n) .. (d - call.d + n - 1)))
        BY <1>1, <1>2, SameFilled
      <4> QED BY <4>1, <3>2, <2>2, <1>1 DEF Filled, Off
    <3> QED BY <3>1, <3>2
  <2>4. LoopInv'
    BY <2>2, <2>3, <1>1, <1>2 DEF LoopInv, Off
  <2> QED BY <1>1, <1>3, <1>5, <2>1, <2>2, <2>4
             DEF AlignedInv, ShiftInv, HeadInv, MoveInv, DoneInv
<1>6. CASE ByBytes
  <2>1. /\ ~Overlapping(call) /\ call.n >= 8
        /\ src' = s \div 8 /\ dst' = d \div 8
    BY <1>6, <1>1, <1>2 DEF ByBytes, UsesFallback
  <2>2. /\ s \div 8 \in Nat /\ s % 8 \in 0 .. 7 /\ s = 8 * (s \div 8) + (s % 8)
        /\ d \div 8 \in Nat /\ d % 8 \in 0 .. 7 /\ d = 8 * (d \div 8) + (d % 8)
    BY <1>1, <1>2, ByteArithmetic
  <2>3. s \div 8 \in 0 .. Bytes /\ d \div 8 \in 0 .. Bytes
    <3>1. s \in Nat /\ d \in Nat /\ s <= 8 * Bytes /\ d <= 8 * Bytes
      BY <1>1, <1>2, BytesAssumption
    <3> QED BY <3>1, InBytes
  <2>4. CASE pc' = "head" \/ pc' = "move"
    <3>1. s % 8 = d % 8 /\ pc' = (IF d % 8 = 0 THEN "move" ELSE "head")
          /\ UNCHANGED <<len, i, back>>
      BY <1>6, <2>4 DEF ByBytes, Fallback
    <3>2. TypeOK'
      BY <1>1, <2>1, <2>3, <2>4, <3>1 DEF TypeOK, Labels
    <3>3. HeadInv' /\ StartInv'
      BY <1>1, <2>1, <3>1 DEF HeadInv, Filled
    <3>4. ASSUME pc' = "move" PROVE FilledIn(mem, call, 0 .. (8 * dst' - call.d - 1))
      <4>1. 8 * dst' - call.d = 0
        BY <3>1, <3>4, <2>1, <2>2, <1>1
      <4> QED BY <4>1, <1>1, SameFilled
    <3>5. ASSUME pc' = "move"
          PROVE  /\ 8 * dst' >= call.d /\ 8 * src' - call.s = 8 * dst' - call.d
                 /\ n' = call.n - (8 * dst' - call.d)
      <4>1. d % 8 = 0 /\ s % 8 = 0
        BY <3>1, <3>5
      <4>2. 8 * dst' = call.d /\ 8 * src' = call.s
        BY <4>1, <2>1, <2>2, <1>1
      <4> QED BY <4>2, <1>1, <1>2
    <3>6. MoveInv'
      BY <1>1, <2>1, <2>4, <3>4, <3>5 DEF MoveInv, Filled
    <3> QED BY <1>1, <1>3, <2>4, <3>2, <3>3, <3>6
               DEF LoopInv, AlignedInv, ShiftInv, DoneInv
  <2>5. CASE pc' \in {"forward", "backward"}
    <3> DEFINE head == 8 - (d % 8)
    <3>1. /\ d % 8 # 0 /\ len' = head /\ back' = "aligned"
          /\ pc' = IF d < s THEN "forward" ELSE "backward"
          /\ i' = IF d < s THEN 0 ELSE head
      <4>1. /\ d % 8 # 0 
            /\ Fallback(IF head > n THEN n ELSE head, s, d, "aligned")
        BY <1>6, <2>5, <1>1 DEF ByBytes
      <4>2. ~(head > n)
        BY <2>1, <2>2, <1>1, <1>2
      <4>3. Fallback(head, s, d, "aligned")
        BY <4>1, <4>2
      <4> QED BY <4>1, <4>3 DEF Fallback
    <3>2. head \in 1 .. 7
      BY <3>1, <2>2
    <3> HIDE DEF head
    <3>3. TypeOK'
      BY <1>1, <1>2, <2>1, <2>3, <3>1, <3>2, BytesAssumption DEF TypeOK, Labels
    <3>4. Filled(IF pc = "forward" THEN 0 .. (Off + i - 1)
                 ELSE (0 .. (Off - 1)) \cup ((Off + i) .. (Off + len - 1)))'
      <4>1. CASE d < s
        <5>1. FilledIn(mem, call, 0 .. (d - call.d + 0 - 1))
          BY <1>1, <1>2, SameFilled
        <5> QED BY <5>1, <4>1, <3>1, <1>1 DEF Filled, Off
      <4>2. CASE ~(d < s)
        <5>1. FilledIn(mem, call, (0 .. (d - call.d - 1)) \cup
                                  ((d - call.d + head) .. (d - call.d + head - 1)))
          BY <1>1, <1>2, <3>2, SameFilled
        <5> QED BY <5>1, <4>2, <3>1, <1>1 DEF Filled, Off
      <4> QED BY <4>1, <4>2
    <3>5. LoopInv'
      BY <3>1, <3>2, <3>4, <2>1, <1>1, <1>2 DEF LoopInv, Off, head
    <3> QED BY <1>1, <1>3, <2>5, <3>3, <3>5
               DEF AlignedInv, ShiftInv, HeadInv, MoveInv, DoneInv
  <2>6. CASE pc' = "shift"
    <3>1. s % 8 # d % 8 /\ d % 8 = 0 /\ UNCHANGED <<len, i, back>>
      BY <1>6, <2>6 DEF ByBytes, Fallback
    <3>2. TypeOK'
      BY <1>1, <2>1, <2>3, <2>6, <3>1 DEF TypeOK, Labels
    <3>3. FilledIn(mem, call, 0 .. (d - call.d - 1))
      BY <1>1, <1>2, SameFilled
    <3>4. ShiftInv'
      <4>1. 8 * dst' = d
        BY <2>1, <2>2, <3>1
      <4>2. d' - call.d = 0 /\ s' - call.s = 0
        BY <1>1, <1>2
      <4>3. n' = call.n - (d' - call.d)
        BY <4>2, <1>1, <1>2
      <4> QED BY <1>1, <2>1, <3>3, <4>1, <4>2, <4>3 DEF ShiftInv, Filled, Off
    <3> QED BY <1>1, <1>3, <2>6, <3>2, <3>4
               DEF LoopInv, AlignedInv, HeadInv, MoveInv, DoneInv
  <2> QED BY <1>6, <2>4, <2>5, <2>6 DEF ByBytes, Fallback
<1> QED BY <1>4, <1>5, <1>6

(* What every write inside the ranges keeps.                               *)
LEMMA WriteKeeps ==
  ASSUME TypeOK, StaysInBounds, call' = call,
         NEW k \in Nat, NEW q \in Nat, NEW p \in Nat, Write(k, q, p),
         call.s <= q, q + k <= call.s + call.n,
         call.d <= p, p + k <= call.d + call.n
  PROVE  /\ mem' \in [Org -> [Pos -> Content]]
         /\ touched' \subseteq Org \X Nat
         /\ StaysInBounds'
<1>1. /\ call.n \in Nat /\ call.s \in Nat /\ call.d \in Nat
      /\ call.so \in Org /\ call.do \in Org
      /\ call.s + call.n <= 8 * Bytes
  BY CallType DEF TypeOK
<1>2. q + k <= 8 * Bytes
  BY <1>1, BytesAssumption
<1>3. mem' \in [Org -> [Pos -> Content]]
  BY <1>2, MovedType DEF Write, TypeOK
<1>4. touched' \subseteq Org \X Nat
  BY <1>1, BytesType DEF Write, TypeOK
<1>5. /\ BytesOf(call.so, q, k) \subseteq BytesOf(call.so, call.s, call.n)
      /\ BytesOf(call.do, p, k) \subseteq BytesOf(call.do, call.d, call.n)
  BY <1>1, BytesWithin
<1>6. StaysInBounds'
  BY <1>5 DEF StaysInBounds, Write, BytesOf
<1> QED BY <1>3, <1>4, <1>6

(* One turn of a fallback loop: its source bit is still the caller's.      *)
LEMMA LoopPreserves ==
  ASSUME IInv, Forward \/ Backward
  PROVE  IInv'
<1> USE DEF IInv
<1> DEFINE j == IF pc = "forward" THEN i ELSE i - 1
<1>1. /\ call \in Calls /\ call' = call /\ pc' = pc
      /\ n' = n /\ s' = s /\ d' = d /\ len' = len /\ back' = back
      /\ src' = src /\ dst' = dst
      /\ pc \in {"forward", "backward"}
      /\ i \in 0 .. len /\ len \in Nat
      /\ s \in Nat /\ d \in Nat /\ n \in Nat
      /\ mem \in [Org -> [Pos -> Content]]
  BY DEF Forward, Backward, TypeOK
<1>2. /\ call.n \in Nat /\ call.s \in Nat /\ call.d \in Nat
  BY <1>1, CallType
<1>3. /\ Off >= 0 /\ Off \in Int /\ s - call.s = Off /\ n = call.n - Off /\ len <= n
      /\ pc = "forward" <=> d < s
      /\ Overlapping(call) => Off = 0
  BY <1>1, <1>2 DEF LoopInv, Off
<1>4. /\ j \in Nat /\ j < len
      /\ i' = IF pc = "forward" THEN i + 1 ELSE i - 1
  BY <1>1 DEF Forward, Backward
<1>5. mem' = Moved(mem, call, 1, s + j, d + j) /\ Write(1, s + j, d + j)
  <2>1. CASE pc = "forward"
    BY <2>1 DEF Forward, Backward, Write
  <2>2. CASE pc = "backward"
    <3>1. s + i - 1 = s + j /\ d + i - 1 = d + j
      BY <2>2, <1>1
    <3> QED BY <2>2, <3>1 DEF Forward, Backward, Write
  <2> QED BY <2>1, <2>2, <1>1
<1>6. /\ i' \in 0 .. len
      /\ j \in Int /\ s + j \in Nat /\ d + j \in Nat
      /\ (d + j) - call.d = Off + j /\ (s + j) - call.s = Off + j
      /\ call.s <= s + j /\ s + j + 1 <= call.s + call.n
      /\ call.d <= d + j /\ d + j + 1 <= call.d + call.n
  BY <1>1, <1>2, <1>3, <1>4 DEF Off
<1>a. (s + j) - call.s = (d + j) - call.d
  BY <1>6
<1>7. /\ mem' \in [Org -> [Pos -> Content]]
      /\ touched' \subseteq Org \X Nat
      /\ StaysInBounds'
  BY <1>1, <1>5, <1>6, WriteKeeps
<1>8. TypeOK'
  BY <1>1, <1>6, <1>7 DEF TypeOK, Labels
<1>9. Filled(IF pc = "forward" THEN 0 .. (Off + i - 1)
             ELSE (0 .. (Off - 1)) \cup ((Off + i) .. (Off + len - 1)))'
  <2> HIDE DEF j
  <2>1. CASE pc = "forward"
    <3>1. j = i /\ i' = i + 1
      BY <2>1, <1>4 DEF j
    <3>2. FilledIn(mem, call, 0 .. (Off + i - 1))
      BY <2>1 DEF LoopInv, Filled
    <3>3. ASSUME call.so = call.do, NEW e \in Nat, e < 1
          PROVE  (s + j + e) - call.d \notin 0 .. (Off + i - 1)
      <4>1. e = 0
        BY <3>3
      <4>2. d < s
        BY <2>1, <1>3
      <4> QED BY <4>1, <4>2, <3>1, <1>1, <1>2, <1>6 DEF Off
    <3>4. \A x \in Int : x \in 0 .. (Off + i) <=>
                         \/ x \in 0 .. (Off + i - 1)
                         \/ (d + j) - call.d <= x /\ x < ((d + j) - call.d) + 1
      BY <3>1, <1>1, <1>3, <1>6
    <3>5. FilledIn(Moved(mem, call, 1, s + j, d + j), call, 0 .. (Off + i))
      BY <3>2, <3>3, <3>4, <1>1, <1>6, <1>a, MovedFills
    <3>6. Off + i = (d' - call'.d) + i' - 1
      BY <3>1, <1>1, <1>2 DEF Off
    <3> QED BY <3>5, <3>6, <2>1, <1>1, <1>5 DEF Filled, Off
  <2>2. CASE pc = "backward"
    <3>1. j = i - 1 /\ i' = i - 1 /\ i \in Nat
      BY <2>2, <1>1, <1>4 DEF j
    <3> DEFINE D == (0 .. (Off - 1)) \cup ((Off + i) .. (Off + len - 1))
               E == (0 .. (Off - 1)) \cup ((Off + (i - 1)) .. (Off + len - 1))
    <3>2. FilledIn(mem, call, D)
      BY <2>2 DEF LoopInv, Filled
    <3>3. ASSUME call.so = call.do, NEW e \in Nat, e < 1
          PROVE  (s + j + e) - call.d \notin D
      <4>1. e = 0
        BY <3>3
      <4>2. ~(d < s)
        BY <2>2, <1>3
      <4>3. (s + j + e) - call.d \notin (Off + i) .. (Off + len - 1)
        BY <4>1, <4>2, <3>1, <1>1, <1>2, <1>6 DEF Off
      <4>4. (s + j + e) - call.d \notin 0 .. (Off - 1)
        <5>1. CASE Off = 0
          BY <5>1
        <5>2. CASE ~Overlapping(call)
          <6>1. \/ call.s >= call.d + call.n
                \/ call.d >= call.s + call.n
            BY <5>2, <3>3, <1>2 DEF Overlapping
          <6> QED BY <6>1, <4>1, <3>1, <1>1, <1>2, <1>3, <1>4, <1>6 DEF Off
        <5> QED BY <5>1, <5>2, <1>3
      <4> QED BY <4>3, <4>4
    <3>4. \A x \in Int : x \in E <=>
                         \/ x \in D
                         \/ (d + j) - call.d <= x /\ x < ((d + j) - call.d) + 1
      BY <3>1, <1>1, <1>3, <1>4, <1>6
    <3>5. FilledIn(Moved(mem, call, 1, s + j, d + j), call, E)
      <4> HIDE DEF D, E
      <4> QED BY <3>2, <3>3, <3>4, <1>1, <1>6, <1>a, MovedFills
    <3> QED BY <3>1, <3>5, <2>2, <1>1, <1>5 DEF Filled, Off
  <2> QED BY <2>1, <2>2, <1>1
<1>10. LoopInv'
  BY <1>1, <1>9 DEF LoopInv, Off
<1> QED BY <1>1, <1>7, <1>8, <1>10
           DEF CallInv, StartInv, AlignedInv, ShiftInv, HeadInv, MoveInv, DoneInv

(* The end of a fallback loop hands over to the label it returns to.       *)
LEMMA ReturnPreserves ==
  ASSUME IInv, Return
  PROVE  IInv'
<1> USE DEF IInv
<1>1. /\ call \in Calls /\ call' = call /\ pc' = back /\ mem' = mem
      /\ n' = n /\ s' = s /\ d' = d /\ len' = len /\ touched' = touched
      /\ pc \in {"forward", "backward"} /\ back \in {"aligned", "done"}
      /\ i \in 0 .. len /\ len \in Nat /\ s \in Nat /\ d \in Nat /\ n \in Nat
      /\ IF pc = "forward" THEN i >= len ELSE i = 0
  BY DEF Return, TypeOK
<1>2. call.n \in Nat /\ call.s \in Nat /\ call.d \in Nat
  BY <1>1, CallType
<1>3. /\ Off >= 0 /\ Off \in Int /\ s - call.s = Off /\ n = call.n - Off
      /\ back = "done" => len = n
      /\ Overlapping(call) => back = "done"
      /\ back = "aligned" => /\ Off = 0 /\ call.n >= 8
                             /\ d % 8 # 0 /\ len = 8 - (d % 8)
  BY <1>1, <1>2 DEF LoopInv, Off
<1>4. FilledIn(mem, call, 0 .. (Off + len - 1))
  <2>1. CASE pc = "forward"
    <3>1. FilledIn(mem, call, 0 .. (Off + i - 1)) /\ i = len
      BY <2>1, <1>1 DEF LoopInv, Filled
    <3> QED BY <3>1
  <2>2. CASE pc = "backward"
    <3>1. FilledIn(mem, call, (0 .. (Off - 1)) \cup ((Off + i) .. (Off + len - 1))) /\ i = 0
      BY <2>2, <1>1 DEF LoopInv, Filled
    <3>2. \A x \in Int : x \in (0 .. (Off - 1)) \cup ((Off + i) .. (Off + len - 1))
                         <=> x \in 0 .. (Off + len - 1)
      BY <3>1, <1>1, <1>3
    <3> QED BY <3>1, <3>2, <1>1, SameFilled
  <2> QED BY <2>1, <2>2, <1>1
<1>5. TypeOK' /\ StaysInBounds'
  BY <1>1 DEF Return, TypeOK, Labels, StaysInBounds, BytesOf
<1>6. CASE back = "done"
  <2>1. Off + len - 1 = call.n - 1
    BY <1>6, <1>1, <1>2, <1>3
  <2>2. DoneInv'
    BY <1>4, <2>1, <1>1 DEF DoneInv, Filled
  <2> QED BY <1>1, <1>5, <1>6, <2>2
             DEF CallInv, StartInv, LoopInv, AlignedInv, ShiftInv, HeadInv, MoveInv
<1>7. CASE back = "aligned"
  <2>1. Off = 0 /\ n = call.n /\ s = call.s /\ d = call.d
    BY <1>7, <1>1, <1>2, <1>3 DEF Off
  <2>2. Off + len - 1 = len - 1
    BY <2>1, <1>1
  <2>3. AlignedInv' /\ CallInv'
    BY <1>4, <2>1, <2>2, <1>1, <1>3, <1>7 DEF AlignedInv, CallInv, Filled
  <2> QED BY <1>1, <1>5, <1>7, <2>3
             DEF StartInv, LoopInv, ShiftInv, HeadInv, MoveInv, DoneInv
<1> QED BY <1>1, <1>6, <1>7

(* Different offsets: the destination is aligned, the loop can begin.      *)
LEMMA AlignedPreserves ==
  ASSUME IInv, Aligned
  PROVE  IInv'
<1> USE DEF IInv
<1>1. /\ call \in Calls /\ call' = call /\ pc = "aligned" /\ pc' = "shift"
      /\ mem' = mem /\ touched' = touched /\ UNCHANGED <<len, i, back>>
      /\ n = call.n /\ s = call.s /\ d = call.d
      /\ n' = n - len /\ s' = s + len /\ d' = d + len
      /\ src' = (s + len) \div 8 /\ dst' = (d + len) \div 8
      /\ ~Overlapping(call) /\ call.n >= 8
      /\ d % 8 # 0 /\ len = 8 - (d % 8)
      /\ FilledIn(mem, call, 0 .. (len - 1))
  BY DEF Aligned, CallInv, AlignedInv, Filled, TypeOK
<1>2. /\ call.n \in Nat /\ call.s \in Nat /\ call.d \in Nat
      /\ call.s + call.n <= 8 * Bytes /\ call.d + call.n <= 8 * Bytes
  BY <1>1, CallType
<1>d. d \in Nat /\ s \in Nat /\ n \in Nat
  BY <1>1, <1>2
<1>3. d % 8 \in 0 .. 7 /\ d = 8 * (d \div 8) + (d % 8) /\ d \div 8 \in Nat
  BY <1>d, ByteArithmetic
<1>4. len \in 1 .. 7 /\ d + len = 8 * ((d \div 8) + 1)
  <2>1. len = 8 - (d % 8) /\ d % 8 # 0
    BY <1>1
  <2> QED BY <2>1, <1>3, <1>d
<1>5. (d + len) \div 8 = (d \div 8) + 1
  BY <1>3, <1>4
<1>6. /\ s' \in Nat /\ d' \in Nat /\ n' \in Nat
      /\ s' <= 8 * Bytes /\ d' <= 8 * Bytes /\ n' <= 8 * Bytes
  <2>1. /\ s' = s + len /\ d' = d + len /\ n' = n - len
        /\ n >= 8 /\ s + n <= 8 * Bytes /\ d + n <= 8 * Bytes
    BY <1>1, <1>2
  <2> QED BY <2>1, <1>4, <1>d, BytesAssumption
<1>7. src' \in 0 .. Bytes /\ dst' \in 0 .. Bytes
  <2>1. src' = s' \div 8 /\ dst' = d' \div 8
    BY <1>1
  <2> QED BY <2>1, <1>6, InBytes
<1>8. TypeOK'
  <2>1. n' \in 0 .. 8 * Bytes /\ s' \in 0 .. 8 * Bytes /\ d' \in 0 .. 8 * Bytes
    BY <1>6, BytesAssumption
  <2> QED BY <2>1, <1>7 DEF TypeOK, Labels, Aligned
<1>9. StaysInBounds'
  BY <1>1 DEF StaysInBounds, BytesOf
<1>10. /\ 8 * dst' = d' /\ d' - call.d = len /\ s' - call.s = len
       /\ n' = call.n - len
  <2>1. 8 * dst' = d'
    BY <1>1, <1>4, <1>5
  <2>2. /\ d' = call.d + len /\ s' = call.s + len /\ n' = call.n - len
        /\ call' = call
    BY <1>1
  <2> QED BY <2>1, <2>2, <1>2, <1>4
<1>11. ShiftInv'
  BY <1>1, <1>4, <1>10 DEF ShiftInv, Off, Filled
<1> QED BY <1>1, <1>8, <1>9, <1>11
           DEF CallInv, StartInv, LoopInv, AlignedInv, HeadInv, MoveInv, DoneInv

(* The bits an append writes, in numbers.                                  *)
LEMMA Append ==
  ASSUME NEW c \in Calls, NEW m \in [Org -> [Pos -> Content]],
         NEW k \in Nat, NEW e \in Nat, e + k <= c.n
  PROVE  ~Overlapping(c) /\ FilledIn(m, c, 0 .. (e - 1))
         => /\ FilledIn(Moved(m, c, k, c.s + e, c.d + e), c, 0 .. (e + k - 1))
            /\ Moved(m, c, k, c.s + e, c.d + e) \in [Org -> [Pos -> Content]]
<1>1. /\ c.n \in Nat /\ c.s \in Nat /\ c.d \in Nat
      /\ c.s + c.n <= 8 * Bytes
  BY CallType
<1>2. /\ c.s + e \in Nat /\ c.d + e \in Nat
      /\ c.d + e >= c.d /\ (c.d + e) + k <= c.d + c.n
      /\ (c.s + e) - c.s = (c.d + e) - c.d
      /\ (c.d + e) - c.d = e
  BY <1>1
<1>3. \A x \in Int : x \in 0 .. (e + k - 1) <=>
                     \/ x \in 0 .. (e - 1)
                     \/ e <= x /\ x < e + k
  OBVIOUS
<1>4. ASSUME ~Overlapping(c), c.so = c.do, NEW j \in Nat, j < k
      PROVE  (c.s + e + j) - c.d \notin 0 .. (e - 1)
  <2>1. c.s >= c.d + c.n \/ c.d >= c.s + c.n
    BY <1>1, <1>4 DEF Overlapping
  <2> QED BY <2>1, <1>1, <1>4
<1>5. (c.s + e) + k <= 8 * Bytes
  BY <1>1, BytesAssumption
<1>6. HAVE ~Overlapping(c) /\ FilledIn(m, c, 0 .. (e - 1))
<1>7. FilledIn(Moved(m, c, k, c.s + e, c.d + e), c, 0 .. (e + k - 1))
  BY <1>2, <1>3, <1>4, <1>6, MovedFills
<1> QED BY <1>2, <1>5, <1>7, MovedType

(* One byte of the shifted loop.                                           *)
LEMMA ShiftPreserves ==
  ASSUME IInv, Shift
  PROVE  IInv'
<1>1. /\ call \in Calls /\ call' = call /\ pc = "shift" /\ pc' = "shift"
      /\ UNCHANGED <<len, i, back>>
      /\ ~Overlapping(call) /\ mem \in [Org -> [Pos -> Content]]
  BY DEF Shift, ShiftInv, TypeOK, IInv
<1>2. /\ call.n \in Nat /\ call.s \in Nat /\ call.d \in Nat
      /\ call.so \in Org /\ call.do \in Org
      /\ call.s + call.n <= 8 * Bytes /\ call.d + call.n <= 8 * Bytes
  BY <1>1, CallType
<1>3. /\ Off \in Nat /\ Off + 8 <= call.n
      /\ s = call.s + Off /\ d = call.d + Off /\ n = call.n - Off
  <2>1. /\ s \in Nat /\ d \in Nat /\ n \in Nat /\ n >= 8
        /\ s - call.s = Off /\ n = call.n - Off /\ Off >= 0
    BY <1>1 DEF Shift, ShiftInv, TypeOK, IInv
  <2> QED BY <2>1, <1>2 DEF Off
<1>4. /\ src = s \div 8 /\ 8 * dst = d /\ dst \in Nat
      /\ FilledIn(mem, call, 0 .. (Off - 1))
  BY <1>1 DEF ShiftInv, IInv, TypeOK, Filled
<1> HIDE DEF Off
<1>5. s \in Nat /\ d \in Nat
  BY <1>2, <1>3
<1>6. /\ s % 8 \in 0 .. 7 /\ s \div 8 \in Nat
      /\ s = 8 * (s \div 8) + (s % 8)
  BY <1>5, ByteArithmetic
<1>7. 8 * src + (s % 8) = s
  BY <1>4, <1>6
<1>8. mem' = Moved(mem, call, 8, call.s + Off, call.d + Off)
  BY <1>3, <1>4, <1>7 DEF Shift
<1>9. /\ FilledIn(mem', call, 0 .. (Off + 8 - 1))
      /\ mem' \in [Org -> [Pos -> Content]]
  BY <1>1, <1>3, <1>4, <1>8, Append
<1>10. /\ s' = s + 8 /\ d' = d + 8 /\ n' = n - 8
       /\ src' = src + 1 /\ dst' = dst + 1
  BY DEF Shift
<1>11. /\ s' \in Nat /\ d' \in Nat /\ n' \in Nat
       /\ s' <= 8 * Bytes /\ d' <= 8 * Bytes /\ n' <= 8 * Bytes
  BY <1>2, <1>3, <1>10, BytesAssumption
<1>12. src' = s' \div 8 /\ 8 * dst' = d' /\ dst' = d' \div 8
  <2>1. s' = 8 * (s \div 8 + 1) + (s % 8)
    BY <1>6, <1>10
  <2>2. s' \div 8 = s \div 8 + 1
    BY <2>1, <1>6
  <2>3. 8 * dst' = d'
    BY <1>4, <1>10
  <2> QED BY <2>2, <2>3, <1>4, <1>10
<1>13. ShiftReads \cup {<<call.do, dst>>} \subseteq
         BytesOf(call.so, call.s, call.n) \cup BytesOf(call.do, call.d, call.n)
  <2>0. /\ s \in call.s .. (call.s + call.n - 1)
        /\ s + 7 \in call.s .. (call.s + call.n - 1)
        /\ d \in call.d .. (call.d + call.n - 1)
    BY <1>2, <1>3
  <2>1. <<call.so, src>> \in BytesOf(call.so, call.s, call.n)
    BY <2>0, <1>4 DEF BytesOf
  <2>2. s % 8 # 0 => <<call.so, src + 1>> \in BytesOf(call.so, call.s, call.n)
    <3>1. s % 8 # 0 => (s + 7) \div 8 = src + 1
      BY <1>4, <1>5, LastByte
    <3> QED BY <2>0, <3>1 DEF BytesOf
  <2>3. <<call.do, dst>> \in BytesOf(call.do, call.d, call.n)
    <3>1. d \div 8 = dst
      BY <1>4, <1>5
    <3> QED BY <2>0, <3>1 DEF BytesOf
  <2> QED BY <2>1, <2>2, <2>3 DEF ShiftReads
<1>14. StaysInBounds'
  <2>1. touched' = touched \cup ShiftReads \cup {<<call.do, dst>>}
    BY DEF Shift
  <2> QED BY <2>1, <1>1, <1>13 DEF StaysInBounds, BytesOf, IInv
<1>15. touched' \subseteq Org \X Nat
  <2>1. src \in Nat /\ dst \in Nat
    BY <1>4, <1>6
  <2> QED BY <2>1, <1>2 DEF Shift, ShiftReads, TypeOK, IInv
<1>16. TypeOK'
  <2>1. src' \in 0 .. Bytes /\ dst' \in 0 .. Bytes
    BY <1>11, <1>12, InBytes
  <2>2. n' \in 0 .. 8 * Bytes /\ s' \in 0 .. 8 * Bytes /\ d' \in 0 .. 8 * Bytes
    BY <1>11, BytesAssumption
  <2> QED BY <2>1, <2>2, <1>9, <1>15 DEF TypeOK, Shift, IInv
<1>17. ShiftInv'
  <2>1. Off' = Off + 8 /\ s' - call.s = Off' /\ n' = call.n - Off' /\ Off' >= 0
    BY <1>1, <1>2, <1>3, <1>10 DEF Off
  <2>2. FilledIn(mem', call, 0 .. (Off' - 1))
    <3>1. Off' - 1 = Off + 8 - 1
      BY <2>1, <1>3
    <3> QED BY <3>1, <1>9
  <2> QED BY <2>1, <2>2, <1>1, <1>12 DEF ShiftInv, Filled
<1> QED BY <1>1, <1>14, <1>16, <1>17
           DEF CallInv, StartInv, LoopInv, AlignedInv, HeadInv, MoveInv, DoneInv, IInv

(* The last bits of the shifted path go through the fallback.              *)
LEMMA ShiftTailPreserves ==
  ASSUME IInv, ShiftTail
  PROVE  IInv'
<1>1. /\ call \in Calls /\ call' = call /\ pc = "shift"
      /\ UNCHANGED <<mem, call, n, s, d, src, dst, touched>>
      /\ ~Overlapping(call)
  BY DEF ShiftTail, ShiftInv, TypeOK, IInv
<1>2. call.n \in Nat /\ call.s \in Nat /\ call.d \in Nat
  BY <1>1, CallType
<1>3. /\ Off >= 0 /\ Off \in Int /\ s - call.s = Off /\ n = call.n - Off
      /\ n \in Nat /\ s \in Nat /\ d \in Nat /\ n <= 8 * Bytes
      /\ FilledIn(mem, call, 0 .. (Off - 1))
  BY <1>1, <1>2, BytesAssumption DEF ShiftInv, IInv, TypeOK, Filled, Off
<1>4. StaysInBounds'
  BY <1>1 DEF StaysInBounds, BytesOf, IInv
<1>5. CASE n # 0
  <2>1. /\ len' = n /\ back' = "done"
        /\ pc' = IF d < s THEN "forward" ELSE "backward"
        /\ i' = IF d < s THEN 0 ELSE n
    BY <1>5 DEF ShiftTail, Fallback
  <2>2. TypeOK'
    <3>1. len' \in 0 .. 8 * Bytes /\ i' \in 0 .. len'
      BY <2>1, <1>3, BytesAssumption
    <3> QED BY <3>1, <2>1, <1>1 DEF TypeOK, Labels, IInv
  <2>3. Filled(IF pc = "forward" THEN 0 .. (Off + i - 1)
               ELSE (0 .. (Off - 1)) \cup ((Off + i) .. (Off + len - 1)))'
    <3>1. CASE d < s
      <4>1. Off' + i' - 1 = Off - 1
        BY <3>1, <2>1, <1>1, <1>3 DEF Off
      <4> QED BY <4>1, <3>1, <2>1, <1>1, <1>3 DEF Filled
    <3>2. CASE ~(d < s)
      <4>1. \A x \in Int : x \in 0 .. (Off - 1) <=>
              x \in (0 .. (Off - 1)) \cup ((Off + n) .. (Off + n - 1))
        BY <1>3
      <4>2. FilledIn(mem, call, (0 .. (Off - 1)) \cup ((Off + n) .. (Off + n - 1)))
        BY <4>1, <1>1, <1>3, SameFilled
      <4>3. Off' = Off /\ i' = n /\ len' = n /\ pc' # "forward"
        BY <3>2, <2>1, <1>1 DEF Off
      <4> QED BY <4>2, <4>3, <1>1 DEF Filled
    <3> QED BY <3>1, <3>2
  <2>4. LoopInv'
    BY <2>1, <2>3, <1>1, <1>3 DEF LoopInv, Off
  <2> QED BY <1>1, <1>4, <2>1, <2>2, <2>4
             DEF IInv, CallInv, StartInv, AlignedInv, ShiftInv, HeadInv,
                 MoveInv, DoneInv
<1>6. CASE n = 0
  <2>1. pc' = "done" /\ UNCHANGED <<len, i, back>>
    BY <1>6 DEF ShiftTail
  <2>2. TypeOK'
    BY <2>1, <1>1 DEF TypeOK, Labels, IInv
  <2>3. Off - 1 = call.n - 1
    BY <1>6, <1>2, <1>3
  <2>4. DoneInv'
    BY <2>1, <2>3, <1>1, <1>3 DEF DoneInv, Filled
  <2> QED BY <1>1, <1>4, <2>1, <2>2, <2>4
             DEF IInv, CallInv, StartInv, LoopInv, AlignedInv, ShiftInv,
                 HeadInv, MoveInv
<1> QED BY <1>5, <1>6

(* Same offset: the masked head byte.                                      *)
LEMMA HeadPreserves ==
  ASSUME IInv, Head
  PROVE  IInv'
<1>1. /\ call \in Calls /\ call' = call /\ pc = "head" /\ pc' = "move"
      /\ UNCHANGED <<s, d, len, i, back>>
      /\ ~Overlapping(call) /\ mem \in [Org -> [Pos -> Content]]
      /\ FilledIn(mem, call, {})
  BY DEF Head, HeadInv, StartInv, TypeOK, IInv, Filled
<1>2. /\ call.n \in Nat /\ call.s \in Nat /\ call.d \in Nat
      /\ call.s + call.n <= 8 * Bytes /\ call.d + call.n <= 8 * Bytes
  BY <1>1, CallType
<1>3. /\ n = call.n /\ s = call.s /\ d = call.d /\ call.n >= 8
      /\ s % 8 = d % 8 /\ d % 8 # 0 /\ src = s \div 8 /\ dst = d \div 8
  BY <1>1 DEF HeadInv, CallInv, IInv
<1>4. s \in Nat /\ d \in Nat
  BY <1>2, <1>3
<1>5. /\ s % 8 \in 0 .. 7 /\ s \div 8 \in Nat /\ s = 8 * (s \div 8) + (s % 8)
      /\ d % 8 \in 0 .. 7 /\ d \div 8 \in Nat /\ d = 8 * (d \div 8) + (d % 8)
  BY <1>4, ByteArithmetic
<1>6. /\ 8 * src + (d % 8) = call.s /\ 8 * dst + (d % 8) = call.d
      /\ HeadBits = 8 - (d % 8) /\ HeadBits \in 1 .. 7
  BY <1>2, <1>3, <1>5 DEF HeadBits
<1> DEFINE h == HeadBits
<1>7. Write(h, call.s + 0, call.d + 0)
  BY <1>2, <1>6 DEF Head
<1>8. h \in Nat /\ h <= call.n /\ 0 + h <= call.n
  BY <1>3, <1>6, <1>2
<1>9. /\ n' = call.n - h /\ src' = src + 1 /\ dst' = dst + 1
  BY <1>3 DEF Head
<1> HIDE DEF h
<1>10. /\ mem' \in [Org -> [Pos -> Content]]
       /\ touched' \subseteq Org \X Nat
       /\ StaysInBounds'
  <2>1. /\ call.s + 0 \in Nat /\ call.d + 0 \in Nat
        /\ call.s <= call.s + 0 /\ call.s + 0 + h <= call.s + call.n
        /\ call.d <= call.d + 0 /\ call.d + 0 + h <= call.d + call.n
    BY <1>2, <1>8
  <2> QED BY <2>1, <1>1, <1>7, <1>8, WriteKeeps DEF IInv
<1>11. FilledIn(mem', call, 0 .. (0 + h - 1))
  <2>1. FilledIn(mem, call, 0 .. (0 - 1))
    BY <1>1, SameFilled
  <2>2. mem' = Moved(mem, call, h, call.s + 0, call.d + 0)
    BY <1>7 DEF Write
  <2> QED BY <2>1, <2>2, <1>1, <1>8, Append
<1>12. 8 * dst' = call.d + h /\ 8 * src' = call.s + h
  BY <1>2, <1>3, <1>5, <1>6, <1>9 DEF h
<1>13. src' \in 0 .. Bytes /\ dst' \in 0 .. Bytes /\ n' \in 0 .. 8 * Bytes
  BY <1>2, <1>3, <1>5, <1>8, <1>9, <1>12, BytesAssumption
<1>14. TypeOK'
  BY <1>1, <1>10, <1>13 DEF TypeOK, Labels, IInv
<1>15. MoveInv'
  <2>1. 8 * dst' - call.d = h /\ 8 * src' - call.s = h /\ 8 * dst' >= call.d
    BY <1>12, <1>2, <1>8
  <2>2. 0 + h - 1 = 8 * dst' - call.d - 1
    BY <2>1, <1>8
  <2> QED BY <2>1, <2>2, <1>1, <1>9, <1>11 DEF MoveInv, Filled
<1> QED BY <1>1, <1>10, <1>14, <1>15
           DEF CallInv, StartInv, LoopInv, AlignedInv, ShiftInv, HeadInv, DoneInv, IInv

(* The memmove of whole bytes, and the masked tail byte.                   *)
LEMMA MovePreserves ==
  ASSUME IInv, Move \/ Tail
  PROVE  IInv'
<1> DEFINE e == 8 * dst - call.d
           k == IF pc = "move" THEN 8 * (n \div 8) ELSE n
<1>1. /\ call \in Calls /\ call' = call /\ pc \in {"move", "tail"}
      /\ UNCHANGED <<s, d, len, i, back>>
      /\ ~Overlapping(call) /\ mem \in [Org -> [Pos -> Content]]
      /\ pc' = IF pc = "move" THEN "tail" ELSE "done"
  BY DEF Move, Tail, MoveInv, TypeOK, IInv
<1>2. /\ call.n \in Nat /\ call.s \in Nat /\ call.d \in Nat
      /\ call.s + call.n <= 8 * Bytes /\ call.d + call.n <= 8 * Bytes
  BY <1>1, CallType
<1>3. /\ 8 * dst >= call.d /\ 8 * src - call.s = e /\ n = call.n - e
      /\ pc = "tail" => n < 8
      /\ FilledIn(mem, call, 0 .. (e - 1))
      /\ n \in Nat /\ src \in Nat /\ dst \in Nat
  BY <1>1 DEF MoveInv, TypeOK, IInv, Filled
<1>4. e \in Nat /\ 8 * src = call.s + e /\ 8 * dst = call.d + e
  BY <1>2, <1>3
<1>5. n % 8 \in 0 .. 7 /\ n \div 8 \in Nat /\ n = 8 * (n \div 8) + (n % 8)
  BY <1>3, ByteArithmetic
<1>6. k \in Nat /\ k <= n
  <2>1. n \in Nat /\ 8 * (n \div 8) \in Nat /\ 8 * (n \div 8) <= n
    BY <1>3, WholeBytes
  <2>2. CASE pc = "move"
    BY <2>1, <2>2
  <2>3. CASE pc # "move"
    BY <2>1, <2>3
  <2> QED BY <2>2, <2>3
<1>7. k # 0 => Write(k, 8 * src, 8 * dst)
  BY <1>1, <1>5 DEF Move, Tail
<1>8. k = 0 => UNCHANGED <<mem, touched>>
  BY <1>1, <1>5 DEF Move, Tail
<1>m. pc = "move" => /\ n' = n - k /\ k = 8 * (n \div 8)
                      /\ src' = src + (n \div 8) /\ dst' = dst + (n \div 8)
  BY <1>1 DEF Move, Tail
<1>n. /\ n = call.n - e /\ n \in Nat /\ src \in Nat /\ dst \in Nat
      /\ FilledIn(mem, call, 0 .. (e - 1))
  BY <1>3
<1>t. pc = "tail" => k = n /\ UNCHANGED <<n, src, dst>>
  BY <1>1 DEF Move, Tail
<1> HIDE DEF e, k
<1>9. e + k <= call.n
  BY <1>2, <1>n, <1>4, <1>6
<1>10. FilledIn(mem', call, 0 .. (e + k - 1))
  <2>1. CASE k = 0
    <3>1. e + k - 1 = e - 1
      BY <2>1, <1>4
    <3> QED BY <3>1, <2>1, <1>3, <1>8
  <2>2. CASE k # 0
    <3>1. mem' = Moved(mem, call, k, call.s + e, call.d + e)
      BY <2>2, <1>4, <1>7 DEF Write
    <3> QED BY <3>1, <1>1, <1>3, <1>4, <1>6, <1>9, Append
  <2> QED BY <2>1, <2>2
<1>11. /\ mem' \in [Org -> [Pos -> Content]]
       /\ touched' \subseteq Org \X Nat
       /\ StaysInBounds'
  <2>1. CASE k = 0
    BY <2>1, <1>1, <1>8 DEF TypeOK, StaysInBounds, BytesOf, IInv
  <2>2. CASE k # 0
    <3>1. /\ 8 * src \in Nat /\ 8 * dst \in Nat
          /\ call.s <= 8 * src /\ 8 * src + k <= call.s + call.n
          /\ call.d <= 8 * dst /\ 8 * dst + k <= call.d + call.n
      BY <1>2, <1>4, <1>6, <1>9
    <3> QED BY <3>1, <2>2, <1>1, <1>6, <1>7, WriteKeeps DEF IInv
  <2> QED BY <2>1, <2>2
<1>12. CASE pc = "move"
  <2> DEFINE w == n \div 8
             r == n % 8
  <2>1. /\ n' = n - k /\ k = 8 * w
        /\ src' = src + w /\ dst' = dst + w
    BY <1>12, <1>m
  <2>a. w \in Nat /\ r \in 0 .. 7 /\ n = 8 * w + r
    BY <1>5
  <2> HIDE DEF w, r
  <2>b. n \in Nat /\ src \in Nat /\ dst \in Nat /\ n = call.n - e
    BY <1>n
  <2>c. src' \in Nat /\ dst' \in Nat
    BY <2>1, <2>a, <2>b
  <2>2. 8 * dst' = call.d + (e + k) /\ 8 * src' = call.s + (e + k)
    <3>1. 8 * dst' = 8 * dst + k /\ 8 * src' = 8 * src + k
      BY <2>1, <2>a, <2>b
    <3> QED BY <3>1, <1>2, <1>4, <1>6
  <2>3. n' < 8 /\ n' = call.n - (e + k) /\ n' \in Nat
    <3>1. n' = r
      BY <2>1, <2>a, <2>b
    <3>2. n' < 8 /\ n' \in Nat
      BY <3>1, <2>a
    <3> QED BY <3>2, <2>1, <2>b, <1>2, <1>4, <1>6
  <2>4. src' \in 0 .. Bytes /\ dst' \in 0 .. Bytes /\ n' \in 0 .. 8 * Bytes
    <3>1. 8 * dst' <= 8 * Bytes /\ 8 * src' <= 8 * Bytes
      BY <2>2, <1>2, <1>4, <1>6, <1>9, BytesAssumption
    <3>2. n' <= 8 * Bytes
      BY <2>3, <1>2, <1>4, <1>6, BytesAssumption
    <3>3. src' \in 0 .. Bytes /\ dst' \in 0 .. Bytes
      BY <3>1, <2>c, Cancel
    <3>4. n' \in 0 .. 8 * Bytes
      BY <3>2, <2>3, BytesAssumption
    <3> QED BY <3>3, <3>4
  <2>5. TypeOK'
    BY <2>4, <1>11, <1>12, <1>1 DEF TypeOK, Labels, IInv
  <2>6. 8 * dst' - call.d = e + k /\ 8 * src' - call.s = e + k /\ 8 * dst' >= call.d
    BY <2>2, <1>2, <1>4, <1>6
  <2>7. MoveInv'
    <3>1. e + k - 1 = 8 * dst' - call.d - 1
      BY <2>2, <1>2, <1>4, <1>6
    <3> QED BY <3>1, <2>3, <2>6, <1>1, <1>10, <1>12 DEF MoveInv, Filled
  <2> QED BY <2>5, <2>7, <1>1, <1>11, <1>12
             DEF CallInv, StartInv, LoopInv, AlignedInv, ShiftInv, HeadInv,
                 DoneInv, IInv
<1>13. CASE pc = "tail"
  <2>1. UNCHANGED <<n, src, dst>> /\ k = n
    BY <1>13, <1>t
  <2>2. TypeOK'
    BY <2>1, <1>11, <1>13, <1>1 DEF TypeOK, Labels, IInv
  <2>3. e + k - 1 = call.n - 1
    <3>1. n = call.n - e /\ k = n
      BY <2>1, <1>n
    <3> QED BY <3>1, <1>2, <1>4, <1>6
  <2>4. DoneInv'
    BY <2>3, <1>1, <1>10 DEF DoneInv, Filled
  <2> QED BY <2>2, <2>4, <1>1, <1>11, <1>13
             DEF CallInv, StartInv, LoopInv, AlignedInv, ShiftInv, HeadInv,
                 MoveInv, IInv
<1> QED BY <1>1, <1>12, <1>13

LEMMA StutterPreserves ==
  ASSUME IInv, UNCHANGED vars
  PROVE  IInv'
<1> USE DEF vars
<1>1. TypeOK' /\ StaysInBounds'
  BY DEF IInv, TypeOK, StaysInBounds, BytesOf
<1>2. CallInv' /\ StartInv' /\ LoopInv' /\ AlignedInv'
  BY DEF IInv, CallInv, StartInv, LoopInv, AlignedInv, Filled, Off
<1>3. ShiftInv' /\ HeadInv' /\ MoveInv' /\ DoneInv'
  BY DEF IInv, ShiftInv, HeadInv, MoveInv, DoneInv, Filled, Off
<1> QED BY <1>1, <1>2, <1>3 DEF IInv

LEMMA Inductive == Spec => []IInv
<1>1. IInv /\ [Next]_vars => IInv'
  <2> SUFFICES ASSUME IInv, [Next]_vars PROVE IInv'
    OBVIOUS
  <2>1. CASE Nothing \/ ByBits \/ ByBytes
    BY <2>1, ChoicePreserves
  <2>2. CASE Forward \/ Backward
    BY <2>2, LoopPreserves
  <2>3. CASE Return
    BY <2>3, ReturnPreserves
  <2>4. CASE Head
    BY <2>4, HeadPreserves
  <2>5. CASE Move \/ Tail
    BY <2>5, MovePreserves
  <2>6. CASE Aligned
    BY <2>6, AlignedPreserves
  <2>7. CASE Shift
    BY <2>7, ShiftPreserves
  <2>8. CASE ShiftTail
    BY <2>8, ShiftTailPreserves
  <2>9. CASE UNCHANGED vars
    BY <2>9, StutterPreserves
  <2> QED BY <2>1, <2>2, <2>3, <2>4, <2>5, <2>6, <2>7, <2>8, <2>9 DEF Next, Done
<1> QED BY InitIInv, <1>1, PTL DEF Spec
-----------------------------------------------------------------------------
(* Every variable keeps its type on every path, whatever the arrays hold:  *)
(* the size_t counters of bitcpy never wrap.                               *)
THEOREM TypeCorrect == Spec => []TypeOK
<1>1. IInv => TypeOK
  BY DEF IInv
<1> QED BY <1>1, Inductive, PTL

(* bitcpy touches only bytes that hold a bit of one of its ranges.         *)
THEOREM InBounds == Spec => []StaysInBounds
<1>1. IInv => StaysInBounds
  BY DEF IInv
<1> QED BY <1>1, Inductive, PTL

(* The filled destination is the destination of the one-step copy.         *)
LEMMA FilledIsCopied ==
  ASSUME NEW c \in Calls, NEW m \in [Org -> [Pos -> Content]],
         FilledIn(m, c, 0 .. (c.n - 1))
  PROVE  m = Snapshot!Copied(InitialMem, c)
<1> DEFINE f == [p \in Pos |-> IF c.d <= p /\ p < c.d + c.n
                               THEN InitialMem[c.so][c.s + (p - c.d)]
                               ELSE InitialMem[c.do][p]]
<1>1. /\ c.n \in Nat /\ c.d \in Nat /\ c.do \in Org
  BY CallType
<1>2. Snapshot!Copied(InitialMem, c) = [InitialMem EXCEPT ![c.do] = f]
  <2>1. DOMAIN InitialMem[c.do] = Pos
    BY <1>1, MemAssumption
  <2> QED BY <2>1 DEF Snapshot!Copied
<1>3. ASSUME NEW p \in Pos
      PROVE  p - c.d \in 0 .. (c.n - 1) <=> c.d <= p /\ p < c.d + c.n
  BY <1>1 DEF Pos
<1>4. m[c.do] = f
  <2>1. m[c.do] \in [Pos -> Content]
    BY <1>1
  <2>2. \A p \in Pos : m[c.do][p] = f[p]
    BY <1>1, <1>3 DEF FilledIn
  <2> QED BY <2>1, <2>2
<1>5. \A a \in Org : a # c.do => m[a] = InitialMem[a]
  <2> SUFFICES ASSUME NEW a \in Org, a # c.do PROVE m[a] = InitialMem[a]
    OBVIOUS
  <2>1. m[a] \in [Pos -> Content] /\ InitialMem[a] \in [Pos -> Content]
    BY MemAssumption
  <2>2. \A p \in Pos : m[a][p] = InitialMem[a][p]
    BY DEF FilledIn
  <2> QED BY <2>1, <2>2
<1> HIDE DEF f
<1> QED BY <1>1, <1>2, <1>4, <1>5, MemAssumption

(* When bitcpy returns, the destination holds the bits the source range    *)
(* held at the call, and nothing else has changed.                         *)
THEOREM Snapshots == Spec => []CopiesSnapshot
<1>1. IInv => CopiesSnapshot
  BY FilledIsCopied DEF IInv, DoneInv, TypeOK, Filled, CopiesSnapshot
<1> QED BY <1>1, Inductive, PTL

(* A memory filled only at offsets of the call holds, bit by bit, the      *)
(* caller's content or the final one.                                      *)
LEMMA FilledIsClean ==
  ASSUME TypeOK, NEW D, D \subseteq 0 .. (call.n - 1), Filled(D)
  PROVE  NoStrayBit
<1> SUFFICES ASSUME NEW a \in Org, NEW p \in Pos
             PROVE  mem[a][p] \in {InitialMem[a][p],
                                   Snapshot!Copied(InitialMem, call)[a][p]}
  BY DEF NoStrayBit
<1>1. /\ call \in Calls /\ call.n \in Nat /\ call.d \in Nat /\ call.do \in Org
  BY CallType DEF TypeOK
<1>2. CASE a = call.do /\ p - call.d \in D
  <2>1. mem[a][p] = InitialMem[call.so][call.s + (p - call.d)]
    BY <1>2 DEF Filled, FilledIn
  <2>2. call.d <= p /\ p < call.d + call.n
    <3>1. p - call.d \in 0 .. (call.n - 1)
      BY <1>2
    <3> QED BY <3>1, <1>1 DEF Pos
  <2>3. DOMAIN InitialMem[call.do] = Pos
    BY <1>1, MemAssumption
  <2>4. Snapshot!Copied(InitialMem, call)[a][p]
          = InitialMem[call.so][call.s + (p - call.d)]
    BY <1>1, <1>2, <2>2, <2>3, MemAssumption DEF Snapshot!Copied
  <2> QED BY <2>1, <2>4
<1>3. CASE ~(a = call.do /\ p - call.d \in D)
  BY <1>3 DEF Filled, FilledIn
<1> QED BY <1>2, <1>3

(* No statement of bitcpy, on any path, disturbs a bit outside the         *)
(* destination or leaves in it anything but an old or a final bit.         *)
THEOREM NeverStrays == Spec => []NoStrayBit
<1>1. IInv => NoStrayBit
  <2> SUFFICES ASSUME IInv PROVE NoStrayBit
    OBVIOUS
  <2>1. TypeOK /\ call.n \in Nat /\ call.d \in Nat /\ call.s \in Nat
    BY CallType DEF IInv, TypeOK
  <2>2. CASE pc \in {"call", "head"}
    BY <2>1, <2>2, FilledIsClean DEF IInv, StartInv
  <2>3. CASE pc \in {"forward", "backward"}
    <3> DEFINE D == IF pc = "forward"
                    THEN 0 .. (Off + i - 1)
                    ELSE (0 .. (Off - 1)) \cup ((Off + i) .. (Off + len - 1))
    <3>1. Filled(D)
      BY <2>3 DEF IInv, LoopInv
    <3>2. /\ Off \in Nat /\ n = call.n - Off /\ len <= n
          /\ i \in 0 .. len /\ len \in Nat
      BY <2>1, <2>3 DEF IInv, LoopInv, TypeOK, Off
    <3>3. D \subseteq 0 .. (call.n - 1)
      BY <3>2, <2>1
    <3> HIDE DEF D
    <3> QED BY <3>1, <3>3, <2>1, FilledIsClean
  <2>4. CASE pc = "aligned"
    <3>1. Filled(0 .. (len - 1)) /\ len = 8 - (d % 8) /\ d % 8 # 0 /\ call.n >= 8
      BY <2>4 DEF IInv, AlignedInv
    <3>2. d % 8 \in 0 .. 7
      BY <2>4, <2>1, ByteArithmetic DEF IInv, CallInv
    <3>3. 0 .. (len - 1) \subseteq 0 .. (call.n - 1)
      BY <3>1, <3>2, <2>1
    <3> QED BY <3>1, <3>3, <2>1, FilledIsClean
  <2>5. CASE pc = "shift"
    <3>1. /\ Filled(0 .. (Off - 1)) /\ Off \in Int /\ n = call.n - Off /\ n \in Nat
      BY <2>1, <2>5 DEF IInv, ShiftInv, TypeOK, Off
    <3>2. 0 .. (Off - 1) \subseteq 0 .. (call.n - 1)
      BY <3>1, <2>1
    <3> QED BY <3>1, <3>2, <2>1, FilledIsClean
  <2>6. CASE pc \in {"move", "tail"}
    <3> DEFINE e == 8 * dst - call.d
    <3>1. Filled(0 .. (e - 1)) /\ e \in Int /\ n = call.n - e /\ n \in Nat
      BY <2>1, <2>6 DEF IInv, MoveInv, TypeOK
    <3> HIDE DEF e
    <3>2. 0 .. (e - 1) \subseteq 0 .. (call.n - 1)
      BY <3>1, <2>1
    <3> QED BY <3>1, <3>2, <2>1, FilledIsClean
  <2>7. CASE pc = "done"
    BY <2>1, <2>7, FilledIsClean DEF IInv, DoneInv
  <2> QED BY <2>1, <2>2, <2>3, <2>4, <2>5, <2>6, <2>7 DEF TypeOK, Labels
<1> QED BY <1>1, Inductive, PTL

(* Each statement of bitcpy is a step or a stutter of the one-step copy of *)
(* the bits the source held at the call (the safety part of                *)
(* ImplementsSnapshot).                                                    *)
THEOREM Implements ==
  Spec => Snapshot!Init /\ [][Snapshot!Copy]_(Snapshot!snapshotVars)
<1>1. Init => Snapshot!Init
  BY DEF Init, Snapshot!Init
<1>2. IInv /\ IInv' /\ [Next]_vars => [Snapshot!Copy]_(Snapshot!snapshotVars)
  <2> SUFFICES ASSUME IInv, IInv', [Next]_vars
               PROVE  [Snapshot!Copy]_(Snapshot!snapshotVars)
    OBVIOUS
  <2>1. call' = call /\ (pc = "done" => UNCHANGED vars)
    BY DEF Next, vars, Nothing, ByBits, ByBytes, Forward, Backward, Return,
           Head, Move, Tail, Aligned, Shift, ShiftTail, Done
  <2>2. CASE pc = "done"
    BY <2>1, <2>2 DEF Snapshot!snapshotVars, vars
  <2>3. CASE pc # "done" /\ pc' # "done"
    BY <2>1, <2>3 DEF Snapshot!snapshotVars
  <2>4. CASE pc # "done" /\ pc' = "done"
    <3>1. FilledIn(mem', call, 0 .. (call.n - 1))
      BY <2>1, <2>4 DEF IInv, DoneInv, Filled
    <3>2. mem' \in [Org -> [Pos -> Content]] /\ call \in Calls
      BY DEF IInv, TypeOK
    <3>3. mem' = Snapshot!Copied(InitialMem, call)
      BY <3>1, <3>2, FilledIsCopied
    <3> QED BY <2>1, <2>4, <3>3 DEF Snapshot!Copy
  <2> QED BY <2>2, <2>3, <2>4
<1> QED BY <1>1, <1>2, Inductive, PTL DEF Spec
-----------------------------------------------------------------------------
(* get_argument.                                                           *)

(* The bit that a swap of neighbouring groups of k bits brings to b.       *)
Partner(b, k) == IF (b \div k) % 2 = 0 THEN b + k ELSE b - k

LEMMA ShiftedLeft ==
  ASSUME NEW w \in Word, NEW k \in Nat, NEW b \in Int
  PROVE  b \in ShiftLeft(w, k) <=> b \in 0 .. 31 /\ b - k \in w
  BY DEF ShiftLeft, Word

LEMMA ShiftedRight ==
  ASSUME NEW w \in Word, NEW k \in Nat, NEW b \in Int
  PROVE  b \in ShiftRight(w, k) <=> b \in 0 .. 31 /\ b + k \in w
  BY DEF ShiftRight, Word

LEMMA WordsStay ==
  ASSUME NEW w \in Word, NEW k \in Nat
  PROVE  ShiftLeft(w, k) \in Word /\ ShiftRight(w, k) \in Word /\ Swapped(w, k) \in Word
  BY DEF ShiftLeft, ShiftRight, Swapped, Word

LEMMA SwappedBits ==
  ASSUME NEW w \in Word, NEW b \in 0 .. 31, NEW k \in {1, 2, 4}
  PROVE  b \in Swapped(w, k) <=> Partner(b, k) \in w
<1>1. b \in Int /\ k \in Nat
  OBVIOUS
<1>0. w \cap Low(k) \in Word
  BY DEF Word
<1>2. b \in Swapped(w, k) <=> \/ b - k \in w /\ b - k \in Low(k)
                              \/ b + k \in w /\ b \in Low(k)
  BY <1>0, <1>1, ShiftedLeft, ShiftedRight DEF Swapped
<1>3. b - k \in w => (b - k \in Low(k) <=> (b \div k) % 2 # 0)
  <2>1. b - k \in w => b - k \in 0 .. 31
    BY DEF Word
  <2>2. CASE k = 1
    BY <2>1, <2>2 DEF Low
  <2>3. CASE k = 2
    BY <2>1, <2>3 DEF Low
  <2>4. CASE k = 4
    BY <2>1, <2>4 DEF Low
  <2> QED BY <2>2, <2>3, <2>4
<1>4. b \in Low(k) <=> (b \div k) % 2 = 0
  BY DEF Low
<1> QED BY <1>2, <1>3, <1>4 DEF Partner

(* Where the three swaps bring each bit from.                              *)
Mirror(b) == 8 * (b \div 8) + (7 - (b % 8))

LEMMA Mirrored ==
  ASSUME NEW b \in 0 .. 31
  PROVE  /\ Partner(b, 4) \in 0 .. 31
         /\ Partner(Partner(b, 4), 2) \in 0 .. 31
         /\ Partner(Partner(Partner(b, 4), 2), 1) = Mirror(b)
         /\ Mirror(b) \in 0 .. 31
  BY SMTT(60) DEF Partner, Mirror

LEMMA ReversedWord ==
  ASSUME NEW w \in Word, NEW b \in 0 .. 31
  PROVE  b \in ReversedBits(w) <=> Mirror(b) \in w
<1>1. Swapped(w, 1) \in Word /\ Swapped(Swapped(w, 1), 2) \in Word
  BY WordsStay
<1>2. b \in ReversedBits(w) <=> Partner(b, 4) \in Swapped(Swapped(w, 1), 2)
  BY <1>1, SwappedBits DEF ReversedBits
<1>3. Partner(b, 4) \in Swapped(Swapped(w, 1), 2)
        <=> Partner(Partner(b, 4), 2) \in Swapped(w, 1)
  BY <1>1, Mirrored, SwappedBits
<1>4. Partner(Partner(b, 4), 2) \in Swapped(w, 1)
        <=> Partner(Partner(Partner(b, 4), 2), 1) \in w
  BY Mirrored, SwappedBits
<1> QED BY <1>2, <1>3, <1>4, Mirrored

LEMMA ReversedType ==
  ASSUME NEW w \in Word
  PROVE  ReversedBits(w) \in Word
  BY WordsStay DEF ReversedBits
-----------------------------------------------------------------------------
Field(m) == {j \in 0 .. (m - 1) : at + j \in space}

(* What is known at each statement.                                        *)
Progress ==
  /\ step = "bits" => value = Field(bit)
  /\ step = "pack" => ~NearEnd
  /\ step = "fifth" => ~NearEnd /\ value = Field(32 - Offset)
  /\ step = "done" => value = Field(width)
  /\ step \in {"call", "pack"} => bit = 0 /\ value = {}

FieldInv == FieldTypeOK /\ Progress /\ ReadsInside

(* The byte and the offset of the field.                                   *)
LEMMA Place ==
  ASSUME FieldTypeOK
  PROVE  /\ Byte \in Nat /\ Offset \in 0 .. 7 /\ at = 8 * Byte + Offset
         /\ at \in Nat /\ width \in 1 .. 31 /\ SpaceBytes \in Nat
         /\ at + width <= 8 * SpaceBytes
  BY FieldAssumption DEF FieldTypeOK, Byte, Offset

(* Each bit of a byte is one position.                                     *)
LEMMA ByteBits ==
  ASSUME NEW S, NEW j \in Nat, NEW b \in 0 .. 7
  PROVE  7 - b \in ByteAt(S, j) <=> 8 * j + b \in S
  BY DEF ByteAt

LEMMA ByteWord ==
  ASSUME NEW S, NEW j \in Nat
  PROVE  ByteAt(S, j) \in Word /\ \A b \in ByteAt(S, j) : b \in 0 .. 7
  BY DEF ByteAt, Word

(* The bits of four packed bytes, once they are reversed, are in order.    *)
LEMMA PackedBits ==
  ASSUME NEW S, NEW j \in Nat,
         NEW w, w = UNION {ShiftLeft(ByteAt(S, j + k), 8 * k) : k \in 0 .. 3}
  PROVE  w \in Word /\ \A b \in 0 .. 31 : b \in ReversedBits(w) <=> 8 * j + b \in S
<1>1. w \in Word
  BY DEF ShiftLeft, Word
<1>2. ASSUME NEW x \in 0 .. 31
      PROVE  x \in w <=> x % 8 \in ByteAt(S, j + x \div 8)
  <2>1. \A k \in 0 .. 3 : x \in ShiftLeft(ByteAt(S, j + k), 8 * k)
                            <=> x - 8 * k \in ByteAt(S, j + k)
    <3> SUFFICES ASSUME NEW k \in 0 .. 3
                 PROVE  x \in ShiftLeft(ByteAt(S, j + k), 8 * k)
                          <=> x - 8 * k \in ByteAt(S, j + k)
      OBVIOUS
    <3>1. ByteAt(S, j + k) \in Word /\ 8 * k \in Nat /\ x \in Int
      BY ByteWord
    <3> QED BY <3>1, ShiftedLeft
  <2>2. \A k \in 0 .. 3 : x - 8 * k \in 0 .. 7 => k = x \div 8 /\ x - 8 * k = x % 8
    BY SMT
  <2>3. x \div 8 \in 0 .. 3 /\ x - 8 * (x \div 8) = x % 8
    BY SMT
  <2>4. \A k \in 0 .. 3 : \A b \in ByteAt(S, j + k) : b \in 0 .. 7
    BY ByteWord
  <2>5. x \in w <=> \E k \in 0 .. 3 : x - 8 * k \in ByteAt(S, j + k)
    BY <2>1
  <2> QED BY <2>2, <2>3, <2>4, <2>5
<1>3. ASSUME NEW b \in 0 .. 31
      PROVE  b \in ReversedBits(w) <=> 8 * j + b \in S
  <2> DEFINE q == b \div 8
             r == b % 8
  <2>1. q \in 0 .. 3 /\ r \in 0 .. 7 /\ b = 8 * q + r
    BY SMT
  <2>2. Mirror(b) = 8 * q + (7 - r)
    BY DEF Mirror
  <2> HIDE DEF q, r
  <2>3. Mirror(b) \in 0 .. 31 /\ Mirror(b) % 8 = 7 - r /\ Mirror(b) \div 8 = q
    BY <2>1, <2>2
  <2>4. Mirror(b) \in w <=> 7 - r \in ByteAt(S, j + q)
    BY <2>3, <1>2
  <2>5. 7 - r \in ByteAt(S, j + q) <=> 8 * (j + q) + r \in S
    BY <2>1, ByteBits
  <2>6. 8 * (j + q) + r = 8 * j + b
    BY <2>1
  <2> QED BY <1>1, <2>4, <2>5, <2>6, ReversedWord
<1> QED BY <1>1, <1>3

(* The fifth byte, reversed, holds its bits in order and nothing else.     *)
LEMMA FifthBits ==
  ASSUME NEW S, NEW j \in Nat, NEW b \in 0 .. 31
  PROVE  b \in ReversedBits(ByteAt(S, j)) <=> b < 8 /\ 8 * j + b \in S
<1>1. ByteAt(S, j) \in Word /\ \A x \in ByteAt(S, j) : x \in 0 .. 7
  BY ByteWord
<1>2. b \in ReversedBits(ByteAt(S, j)) <=> Mirror(b) \in ByteAt(S, j)
  BY <1>1, ReversedWord
<1>3. CASE b < 8
  <2>1. Mirror(b) = 7 - b /\ b \in 0 .. 7
    BY <1>3 DEF Mirror
  <2> QED BY <2>1, <1>2, <1>3, ByteBits
<1>4. CASE b >= 8
  <2>1. Mirror(b) \notin 0 .. 7
    BY <1>4 DEF Mirror
  <2> QED BY <2>1, <1>1, <1>2, <1>4
<1> QED BY <1>3, <1>4
-----------------------------------------------------------------------------
LEMMA InitFieldInv == FieldInit => FieldInv
  BY FieldAssumption DEF FieldInit, FieldInv, FieldTypeOK, Progress, ReadsInside, Word, Positions

(* The loop near the end of the space.                                     *)
LEMMA BitPreserves ==
  ASSUME FieldInv, Bit
  PROVE  FieldInv'
<1> DEFINE q == (at + bit) \div 8
           r == (at + bit) % 8
<1>1. /\ FieldTypeOK /\ bit \in Nat /\ bit < width /\ bit' = bit + 1 /\ step = "bits" /\ step' = step
      /\ UNCHANGED <<space, at, width, packed>>
      /\ value \in Word /\ value = Field(bit) /\ reads \subseteq 0 .. (SpaceBytes - 1)
  BY DEF FieldInv, FieldTypeOK, Progress, ReadsInside, Bit
<1>2. /\ at \in Nat /\ width \in 1 .. 31 /\ SpaceBytes \in Nat /\ at + width <= 8 * SpaceBytes
  BY <1>1, Place
<1>3. q \in Nat /\ r \in 0 .. 7 /\ at + bit = 8 * q + r
  BY <1>1, <1>2
<1>4. /\ value' = value \cup (IF 7 - r \in ByteAt(space, q) THEN {bit} ELSE {})
      /\ reads' = reads \cup {q}
  BY DEF Bit
<1> HIDE DEF q, r
<1>5. q \in 0 .. (SpaceBytes - 1)
  BY <1>1, <1>2, <1>3
<1>6. 7 - r \in ByteAt(space, q) <=> at + bit \in space
  BY <1>3, ByteBits
<1>7. value' = Field(bit + 1)
  BY <1>1, <1>2, <1>4, <1>6 DEF Field
<1>8. value' \in Word /\ reads' \subseteq 0 .. (SpaceBytes - 1) /\ bit' \in 0 .. width
  BY <1>1, <1>2, <1>4, <1>5 DEF Word
<1>9. FieldTypeOK'
  BY <1>1, <1>2, <1>8 DEF FieldTypeOK
<1>10. Progress'
  BY <1>1, <1>7 DEF Progress, Field
<1> QED BY <1>8, <1>9, <1>10, <1>1 DEF FieldInv, ReadsInside

(* The packed word.                                                        *)
LEMMA PackPreserves ==
  ASSUME FieldInv, Pack
  PROVE  FieldInv'
<1>1. /\ FieldTypeOK /\ ~NearEnd /\ reads \subseteq 0 .. (SpaceBytes - 1)
      /\ UNCHANGED <<space, at, width, bit>> /\ step' = "fifth"
      /\ packed' = UNION {ShiftLeft(ByteAt(space, Byte + k), 8 * k) : k \in 0 .. 3}
      /\ value' = ShiftRight(ReversedBits(packed'), Offset)
      /\ reads' = reads \cup (Byte .. (Byte + 3))
  BY DEF FieldInv, Progress, ReadsInside, Pack
<1>2. /\ Byte \in Nat /\ Offset \in 0 .. 7 /\ at = 8 * Byte + Offset
      /\ at \in Nat /\ SpaceBytes \in Nat
  BY <1>1, Place
<1>3. /\ packed' \in Word
      /\ \A b \in 0 .. 31 : b \in ReversedBits(packed') <=> 8 * Byte + b \in space
  BY <1>1, <1>2, PackedBits
<1>4. ReversedBits(packed') \in Word
  BY <1>3, ReversedType
<1>5. value' \in Word /\ \A b \in 0 .. 31 :
        b \in value' <=> b + Offset \in ReversedBits(packed')
  <2>1. Offset \in Nat
    BY <1>2
  <2>2. ShiftRight(ReversedBits(packed'), Offset) \in Word
    BY <1>4, <2>1, WordsStay
  <2>3. value' \in Word
    BY <1>1, <2>2
  <2>4. ASSUME NEW b \in 0 .. 31
        PROVE  b \in value' <=> b + Offset \in ReversedBits(packed')
    <3>1. b \in Int /\ Offset \in Nat
      BY <1>2
    <3>2. b \in ShiftRight(ReversedBits(packed'), Offset)
            <=> b \in 0 .. 31 /\ b + Offset \in ReversedBits(packed')
      BY <3>1, <1>4, ShiftedRight
    <3> QED BY <3>2, <1>1
  <2> QED BY <2>3, <2>4
<1>6. value' = Field(32 - Offset)
  <2>1. ASSUME NEW b \in 0 .. 31
        PROVE  b \in value' <=> b + Offset <= 31 /\ at + b \in space
    <3>1. b + Offset \in ReversedBits(packed') => b + Offset \in 0 .. 31
      BY <1>4 DEF Word
    <3>2. b + Offset \in 0 .. 31 =>
            (b + Offset \in ReversedBits(packed') <=> 8 * Byte + (b + Offset) \in space)
      BY <1>3
    <3>3. 8 * Byte + (b + Offset) = at + b /\ b + Offset >= 0
      BY <1>2
    <3> QED BY <3>1, <3>2, <3>3, <1>2, <1>5
  <2>2. \A b \in value' : b \in 0 .. 31
    BY <1>5 DEF Word
  <2> QED BY <2>1, <2>2, <1>2 DEF Field
<1>7. reads' \subseteq 0 .. (SpaceBytes - 1)
  BY <1>1, <1>2 DEF NearEnd
<1>8. FieldTypeOK'
  BY <1>1, <1>3, <1>5, <1>7, <1>2 DEF FieldTypeOK
<1>9. Progress'
  BY <1>1, <1>6 DEF Progress, Field, NearEnd, Byte, Offset
<1> QED BY <1>1, <1>7, <1>8, <1>9 DEF FieldInv, ReadsInside

(* The fifth byte, and the mask.                                           *)
LEMMA FifthPreserves ==
  ASSUME FieldInv, Fifth
  PROVE  FieldInv'
<1> DEFINE fifth == ShiftLeft(ReversedBits(ByteAt(space, Byte + 4)), 32 - Offset)
           all == IF width + Offset > 32 THEN value \cup fifth ELSE value
<1>1. /\ FieldTypeOK /\ ~NearEnd /\ reads \subseteq 0 .. (SpaceBytes - 1)
      /\ value \in Word /\ value = Field(32 - Offset)
      /\ UNCHANGED <<space, at, width, bit, packed>> /\ step' = "done"
      /\ value' = all \cap (0 .. (width - 1))
      /\ reads' = IF width + Offset > 32 THEN reads \cup {Byte + 4} ELSE reads
  BY DEF FieldInv, FieldTypeOK, Progress, ReadsInside, Fifth, Reaches
<1>2. /\ Byte \in Nat /\ Offset \in 0 .. 7 /\ at = 8 * Byte + Offset
      /\ at \in Nat /\ width \in 1 .. 31 /\ SpaceBytes \in Nat
      /\ at + width <= 8 * SpaceBytes
  BY <1>1, Place
<1>3. ASSUME NEW b \in 0 .. 31
      PROVE  b \in fifth <=> b >= 32 - Offset /\ at + b \in space
  <2>1. Byte + 4 \in Nat /\ 32 - Offset \in Nat /\ b - (32 - Offset) \in Int
    BY <1>2
  <2>2. ByteAt(space, Byte + 4) \in Word
    BY <2>1, ByteWord
  <2>3. ReversedBits(ByteAt(space, Byte + 4)) \in Word
    BY <2>2, ReversedType
  <2>4. b \in fifth <=> b - (32 - Offset) \in ReversedBits(ByteAt(space, Byte + 4))
    BY <2>1, <2>3, ShiftedLeft
  <2>5. b - (32 - Offset) \in ReversedBits(ByteAt(space, Byte + 4))
          => b - (32 - Offset) \in 0 .. 31
    BY <2>3 DEF Word
  <2>6. b - (32 - Offset) \in 0 .. 31 =>
          (b - (32 - Offset) \in ReversedBits(ByteAt(space, Byte + 4))
             <=> b - (32 - Offset) < 8 /\ 8 * (Byte + 4) + (b - (32 - Offset)) \in space)
    BY <2>1, FifthBits
  <2>7. /\ 8 * (Byte + 4) + (b - (32 - Offset)) = at + b
        /\ b - (32 - Offset) < 8
        /\ b - (32 - Offset) \in 0 .. 31 <=> b >= 32 - Offset
    BY <1>2
  <2> QED BY <2>4, <2>5, <2>6, <2>7
<1> HIDE DEF fifth
<1>4. value' = Field(width)
  <2>1. ASSUME NEW b \in 0 .. (width - 1)
        PROVE  b \in all <=> at + b \in space
    <3>1. b \in value <=> b <= 31 - Offset /\ at + b \in space
      BY <1>1, <1>2 DEF Field
    <3>2. b \in 0 .. 31
      BY <1>2
    <3> QED BY <3>1, <3>2, <1>2, <1>3
  <2> HIDE DEF all
  <2> QED BY <2>1, <1>1, <1>2 DEF Field
<1>5. value' \in Word
  BY <1>1, <1>2 DEF Word
<1>6. reads' \subseteq 0 .. (SpaceBytes - 1)
  <2>1. width + Offset > 32 => Byte + 4 < SpaceBytes
    BY <1>2
  <2> QED BY <2>1, <1>1, <1>2
<1>7. FieldTypeOK'
  BY <1>1, <1>2, <1>5, <1>6 DEF FieldTypeOK
<1>8. Progress'
  BY <1>1, <1>4 DEF Progress, Field
<1> QED BY <1>1, <1>6, <1>7, <1>8 DEF FieldInv, ReadsInside

LEMMA FieldInductive == FieldSpec => []FieldInv
<1>1. FieldInv /\ [FieldNext]_fieldVars => FieldInv'
  <2> SUFFICES ASSUME FieldInv, [FieldNext]_fieldVars PROVE FieldInv'
    OBVIOUS
  <2>1. CASE Start
    <3>1. Field(0) = {}
      BY DEF Field
    <3> QED BY <3>1, <2>1
            DEF Start, FieldInv, FieldTypeOK, Progress, ReadsInside, Field, NearEnd, Byte
  <2>2. CASE Bit
    BY <2>2, BitPreserves
  <2>3. CASE BitsDone
    <3>1. bit = width
      BY <2>3 DEF BitsDone, FieldInv, FieldTypeOK
    <3> QED BY <3>1, <2>3
            DEF BitsDone, FieldInv, FieldTypeOK, Progress, ReadsInside, Field
  <2>4. CASE Pack
    BY <2>4, PackPreserves
  <2>5. CASE Fifth
    BY <2>5, FifthPreserves
  <2>6. CASE FieldDone \/ UNCHANGED fieldVars
    BY <2>6 DEF FieldDone, fieldVars, FieldInv, FieldTypeOK, Progress, ReadsInside, Field,
                NearEnd, Byte, Offset
  <2> QED BY <2>1, <2>2, <2>3, <2>4, <2>5, <2>6 DEF FieldNext
<1> QED BY InitFieldInv, <1>1, PTL DEF FieldSpec
-----------------------------------------------------------------------------
(* Words of the field reader stay words.                                   *)
THEOREM FieldTypeCorrect == FieldSpec => []FieldTypeOK
<1>1. FieldInv => FieldTypeOK
  BY DEF FieldInv
<1> QED BY <1>1, FieldInductive, PTL

(* get_argument returns the field, on both its paths: the reversed word    *)
(* and the fifth byte give the same number as reading bit by bit.          *)
THEOREM Reads == FieldSpec => []ReadsField
<1>1. FieldInv => ReadsField
  BY DEF FieldInv, Progress, ReadsField, Field
<1> QED BY <1>1, FieldInductive, PTL

(* get_argument never reads past the end of the space.                     *)
THEOREM Inside == FieldSpec => []ReadsInside
<1>1. FieldInv => ReadsInside
  BY DEF FieldInv
<1> QED BY <1>1, FieldInductive, PTL
=============================================================================
