------------------------------- MODULE Words -------------------------------
(***************************************************************************)
(* Words of 32 bits, each the set of the places that hold 1, place i being *)
(* of weight 2^i.                                                          *)
(***************************************************************************)
EXTENDS Integers, FiniteSets, FiniteSetsExt

Places == 0 .. 31
Word == SUBSET Places

(* The number in a word of few places, and the word of a number.           *)
Value(w) == MapThenSumSet(LAMBDA i : 2 ^ i, w)
OfNumber(n) == {i \in 0 .. 30 : (n \div 2 ^ i) % 2 = 1}

(* The places lo .. hi of w, moved to the bottom; and back up.             *)
Slice(w, lo, hi) == {i - lo : i \in {j \in w : lo <= j /\ j <= hi}}
Up(w, k) == {i \in Places : i - k \in w}
Down(w, k) == {i \in Places : i + k \in w}

(* A number of k places, as a word that keeps its sign.                    *)
Signed(w, k) == IF k - 1 \in w THEN w \cup k .. 31 ELSE w

Not(w) == Places \ w
Xor(a, b) == (a \ b) \cup (b \ a)

(* a + b + one: a place is carried into when one below it makes a carry    *)
(* and none in between stops it.                                           *)
Sum(a, b, one) ==
  LET carry(i) == \/ one /\ \A k \in 0 .. i - 1 : k \in a \cup b
                  \/ \E j \in a \cap b : j < i /\ \A k \in j + 1 .. i - 1 : k \in a \cup b
  IN  {i \in Places : (i \in Xor(a, b)) # carry(i)}

Plus(a, b) == Sum(a, b, FALSE)
Minus(a, b) == Sum(a, Not(b), TRUE)

Below(a, b) == a # b /\ \E i \in b \ a : \A j \in a \ b : j < i
BelowSigned(a, b) == Below(Xor(a, {31}), Xor(b, {31}))

Truth(p) == IF p THEN {0} ELSE {}
=============================================================================
