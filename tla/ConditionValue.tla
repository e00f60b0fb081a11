--------------------------- MODULE ConditionValue ---------------------------
(***************************************************************************)
(* The value of an #if line (runtime/copy_c/preprocess_condition.h): the   *)
(* compiler climbs the precedences of C over the tokens that the line      *)
(* expands to, with 64-bit values that are signed or unsigned.  What is    *)
(* not evaluated, a branch not chosen or the right of a decided && or ||,  *)
(* is read all the same, with values of 0.  Tokens are their spellings.    *)
(***************************************************************************)
EXTENDS Integers, Sequences, FiniteSets, SequencesExt, Bitwise

CONSTANTS Width,       \* 64
          IntWidth,    \* 32
          ByteWidth,   \* 8
          NestMax,     \* 64: nested calls of cc_pp_unary and cc_pp_evaluate
          Numbers,     \* spelling -> [radix, digits, suffix]
          Characters,  \* spelling of a character -> [bytes, wide]
          Names        \* the identifiers

Top == 2^Width - 1
Signed(bits) == IF bits >= 2^(Width - 1) THEN bits - 2^Width ELSE bits
Extended(bits, width) ==
  LET low == bits % 2^width
  IN  IF low >= 2^(width - 1) THEN (low - 2^width) + 2^Width ELSE low

Value(bits, unsign) == [bits |-> bits, unsign |-> unsign]
Zero == Value(0, FALSE)

(* e: the reader's place among toks, the depth, and the value so far;      *)
(* queries are the built-in names that are still defined.                  *)
Start(toks, queries) ==
  [toks |-> toks, queries |-> queries, at |-> 1, depth |-> 0, failed |-> FALSE, v |-> Zero]

Current(e) == IF e.at <= Len(e.toks) THEN e.toks[e.at] ELSE ""
Fail(e) == [e EXCEPT !.failed = TRUE]
Advance(e) == [e EXCEPT !.at = @ + 1]

(* One u at most, one l or two alike beside each other.                    *)
SuffixFits(suffix) ==
  LET longs == {i \in DOMAIN suffix : suffix[i] # "u"}
  IN  /\ Cardinality(DOMAIN suffix \ longs) <= 1
      /\ \/ Cardinality(longs) <= 1
         \/ \E i \in longs : longs = {i, i + 1} /\ suffix[i] = suffix[i + 1]

NumberValue(n) ==
  LET bits == FoldLeft(LAMBDA b, d : IF b < 0 \/ b > (Top - d) \div n.radix THEN -1
                                     ELSE b * n.radix + d, 0, n.digits)
  IN  [ok |-> bits >= 0 /\ n.digits # <<>> /\ SuffixFits(n.suffix),
       v |-> Value(bits, "u" \in ToSet(n.suffix) \/ bits >= 2^(Width - 1))]

CharacterValue(c) ==
  LET bits == IF c.wide THEN c.bytes[Len(c.bytes)]
              ELSE FoldLeft(LAMBDA b, d : (b * 2^ByteWidth + d) % 2^Width, 0, c.bytes)
      width == IF ~c.wide /\ Len(c.bytes) = 1 THEN ByteWidth ELSE IntWidth
  IN  [ok |-> c.bytes # <<>>,
       v |-> IF c.bytes = <<>> THEN Zero ELSE Value(Extended(bits, width), FALSE)]

(* cc_pp_constant: what is left of the names is 0.                         *)
Constant(e) ==
  LET t == Current(e)
      c == IF t \in DOMAIN Numbers THEN NumberValue(Numbers[t])
           ELSE IF t \in DOMAIN Characters THEN CharacterValue(Characters[t])
           ELSE [ok |-> t \in Names \ e.queries, v |-> Zero]
  IN  IF c.ok THEN [e EXCEPT !.v = c.v] ELSE Fail([e EXCEPT !.v = Zero])

Levels == << {","}, {"?"}, {"||"}, {"&&"}, {"|"}, {"^"}, {"&"}, {"==", "!="},
             {"<", "<=", ">", ">="}, {"<<", ">>"}, {"+", "-"}, {"*", "/", "%"} >>

Precedence(t) == IF \E p \in DOMAIN Levels : t \in Levels[p]
                 THEN CHOOSE p \in DOMAIN Levels : t \in Levels[p] ELSE 0

Bit(b) == IF b THEN 1 ELSE 0
Abs(n) == IF n < 0 THEN -n ELSE n
Quotient(a, b) == IF (a < 0) = (b < 0) THEN Abs(a) \div Abs(b) ELSE -(Abs(a) \div Abs(b))

(* The operations that do not fail.                                        *)
Bits(op, a, b, unsign) ==
  LET x == IF unsign THEN a.bits ELSE Signed(a.bits)
      y == IF unsign THEN b.bits ELSE Signed(b.bits)
  IN CASE op = "+" -> a.bits + b.bits
       [] op = "-" -> a.bits - b.bits
       [] op = "*" -> a.bits * b.bits
       [] op = "&" -> a.bits & b.bits
       [] op = "|" -> a.bits | b.bits
       [] op = "^" -> a.bits ^^ b.bits
       [] op = "&&" -> Bit(a.bits # 0 /\ b.bits # 0)
       [] op = "||" -> Bit(a.bits # 0 \/ b.bits # 0)
       [] op = "==" -> Bit(a.bits = b.bits)
       [] op = "!=" -> Bit(a.bits # b.bits)
       [] op = "<"  -> Bit(x < y)
       [] op = "<=" -> Bit(x <= y)
       [] op = ">"  -> Bit(x > y)
       [] op = ">=" -> Bit(x >= y)
       [] op = "<<" -> a.bits * 2^b.bits
       [] op = ">>" -> (IF a.unsign THEN a.bits ELSE Signed(a.bits)) \div 2^b.bits
       [] op = "/"  -> Quotient(x, y)
       [] op = "%"  -> x - y * Quotient(x, y)

Faulty(op, a, b) ==
  \/ op \in {"<<", ">>"} /\ b.bits >= Width
  \/ op \in {"/", "%"} /\ \/ b.bits = 0
                          \/ ~a.unsign /\ ~b.unsign /\ a.bits = 2^(Width - 1) /\ b.bits = Top

(* cc_pp_binary, with the right operand in e.                              *)
Binary(op, a, e, run) ==
  LET b == e.v
      unsign == a.unsign \/ b.unsign
      result == CASE Precedence(op) \in {3, 4, 8, 9} -> FALSE
                  [] op \in Levels[10] -> a.unsign
                  [] OTHER -> unsign
  IN  IF op = "," THEN e
      ELSE IF ~run THEN [e EXCEPT !.v = Value(0, result)]
      ELSE IF Faulty(op, a, b) THEN Fail(e)
      ELSE [e EXCEPT !.v = Value(Bits(op, a, b, unsign) % 2^Width, result)]

Prefix(op, v, run) ==
  CASE op = "!" -> Value(Bit(run /\ v.bits = 0), FALSE)
    [] op = "-" /\ run -> [v EXCEPT !.bits = (-@) % 2^Width]
    [] op = "~" /\ run -> [v EXCEPT !.bits = Top - @]
    [] OTHER -> v

(* Mutant: the right of && is evaluated whatever the left is.              *)
RightRunsAnd(op, v, run) == run /\ ~(op = "||" /\ v.bits # 0)

(* Whether the right of an operator is evaluated.                          *)
RightRuns(op, v, run) == run /\ ~(op = "&&" /\ v.bits = 0) /\ ~(op = "||" /\ v.bits # 0)

RECURSIVE Evaluate(_, _, _), Climb(_, _, _), Unary(_, _)

Unary(e, run) ==
  LET t == Current(e)
      deep == [e EXCEPT !.depth = @ + 1]
      inner == IF t = "(" THEN Evaluate(Advance(deep), 1, run) ELSE Unary(Advance(deep), run)
      constant == Constant(deep)
      r == IF t = "(" THEN IF Current(inner) = ")" THEN Advance(inner) ELSE Fail(inner)
           ELSE IF t \in {"+", "-", "!", "~"} THEN [inner EXCEPT !.v = Prefix(t, @, run)]
           ELSE Advance([constant EXCEPT !.v.bits = IF run THEN @ ELSE 0])
  IN  IF e.depth = NestMax THEN Fail([e EXCEPT !.v = Zero]) ELSE [r EXCEPT !.depth = e.depth]

Evaluate(e, minimum, run) ==
  IF e.depth = NestMax THEN Fail([e EXCEPT !.v = Zero])
  ELSE [Climb(Unary([e EXCEPT !.depth = @ + 1], run), minimum, run) EXCEPT !.depth = e.depth]

(* The operators that follow, as long as they bind as minimum or stronger. *)
Climb(e, minimum, run) ==
  LET op == Current(e)
      priority == Precedence(op)
      chosen == e.v.bits # 0
      first == Evaluate(Advance(e), 1, run /\ chosen)
      second == Evaluate(Advance(first), priority, run /\ ~chosen)
      right == Evaluate(Advance(e), priority + 1, RightRuns(op, e.v, run))
  IN  IF e.failed \/ priority < minimum THEN e
      ELSE IF op # "?" THEN Climb(Binary(op, e.v, right, run), minimum, run)
      ELSE IF Current(Advance(e)) = ":" \/ Current(first) # ":" THEN Fail(e)
      ELSE Climb([second EXCEPT !.v = Value(IF chosen THEN first.v.bits ELSE second.v.bits,
                                            first.v.unsign \/ second.v.unsign)], minimum, run)

(* The end of cc_pp_condition_line_run: the value of the whole line.       *)
Result(e) == [ok |-> ~e.failed /\ e.at > Len(e.toks), truth |-> e.v.bits # 0, v |-> e.v]
Condition(toks, queries) == Result(Evaluate(Start(toks, queries), 1, TRUE))

-----------------------------------------------------------------------------
(* C's meaning of the line, by what binds weakest in it: integers that a   *)
(* type holds, [u, n], or [u, err] where C gives none.                     *)

(* Nesting before each token; what is between ? and : is nested too.       *)
Open == {"(", "?"}
Depths(s) ==
  LET before(set, i) == Cardinality({j \in 1 .. i - 1 : s[j] \in set})
  IN  [i \in 1 .. Len(s) + 1 |-> before(Open, i) - before({")", ":"}, i)]

Operand(t) == t \in DOMAIN Numbers \cup DOMAIN Characters \cup Names

(* The operators of s outside everything: after an operand, not before it. *)
Operators(s) ==
  LET d == Depths(s)
  IN  {i \in 2 .. Len(s) - 1 : /\ d[i] = 0 /\ Precedence(s[i]) # 0
                               /\ (Operand(s[i - 1]) \/ s[i - 1] = ")")}

Fit(u, n) == [u |-> u, err |-> FALSE,
              n |-> IF u THEN n % 2^Width
                    ELSE ((n + 2^(Width - 1)) % 2^Width) - 2^(Width - 1)]
Error(u) == [u |-> u, err |-> TRUE, n |-> 0]
Converted(x, u) == Fit(u, x.n).n

Plain(t) ==
  LET c == Constant(Start(<<t>>, {})).v
  IN  Fit(c.unsign, IF c.unsign THEN c.bits ELSE Signed(c.bits))

Combined(op, x, y) ==
  LET u == x.u \/ y.u
      a == Converted(x, u)
      b == Converted(y, u)
      q == Abs(a) \div Abs(b)
      quotient == IF (a < 0) = (b < 0) THEN q ELSE -q
      p == x.n % 2^Width
      r == y.n % 2^Width
  IN CASE op = "&&" -> IF ~x.err /\ x.n = 0 THEN Fit(FALSE, 0)
                       ELSE IF x.err \/ y.err THEN Error(FALSE) ELSE Fit(FALSE, Bit(y.n # 0))
       [] op = "||" -> IF ~x.err /\ x.n # 0 THEN Fit(FALSE, 1)
                       ELSE IF x.err \/ y.err THEN Error(FALSE) ELSE Fit(FALSE, Bit(y.n # 0))
       [] op = "," -> IF x.err THEN Error(y.u) ELSE y
       [] op \in {"<<", ">>"} ->
            IF x.err \/ y.err \/ r >= Width THEN Error(x.u)
            ELSE Fit(x.u, IF op = "<<" THEN x.n * 2^r ELSE x.n \div 2^r)
       [] op \in {"==", "!=", "<", "<=", ">", ">="} ->
            IF x.err \/ y.err THEN Error(FALSE)
            ELSE Fit(FALSE, Bit(\/ a = b /\ op \in {"==", "<=", ">="}
                                \/ a < b /\ op \in {"<", "<=", "!="}
                                \/ a > b /\ op \in {">", ">=", "!="}))
       [] OTHER ->
            IF x.err \/ y.err THEN Error(u)
            ELSE IF op \in {"/", "%"}
            THEN IF b = 0 \/ (quotient = 2^(Width - 1) /\ ~u) THEN Error(u)
                 ELSE Fit(u, IF op = "/" THEN quotient ELSE a - b * quotient)
            ELSE Fit(u, CASE op = "+" -> a + b [] op = "-" -> a - b [] op = "*" -> a * b
                          [] op = "&" -> p & r
                          [] op = "|" -> p | r
                          [] op = "^" -> p ^^ r)

RECURSIVE Meaning(_)
(* <<>> where s is no expression, <<value>> otherwise.                     *)
Meaning(s) ==
  LET ops == Operators(s)
      weakest == {i \in ops : \A j \in ops : Precedence(s[i]) <= Precedence(s[j])}
      last == CHOOSE i \in weakest : \A j \in weakest : j <= i
      query == CHOOSE i \in weakest : \A j \in weakest : i <= j
      d == Depths(s)
      colon == CHOOSE i \in query .. Len(s) : d[i + 1] = 0 /\ \A j \in query .. i - 1 : d[j + 1] # 0
      first(i) == Meaning(SubSeq(s, 1, i - 1))
      rest(i) == Meaning(SubSeq(s, i + 1, Len(s)))
      middle == Meaning(SubSeq(s, query + 1, colon - 1))
      inner == rest(1)
  IN  IF s = <<>> \/ \E i \in DOMAIN d : d[i] < 0 \/ d[Len(d)] # 0 THEN <<>>
      ELSE IF weakest # {} /\ s[query] = "?"
      THEN IF ~(s[colon] = ":" /\ first(query) # <<>> /\ middle # <<>> /\ rest(colon) # <<>>) THEN <<>>
           ELSE LET c == first(query)[1]
                    u == middle[1].u \/ rest(colon)[1].u
                    x == IF c.n # 0 THEN middle[1] ELSE rest(colon)[1]
                IN  IF c.err \/ x.err THEN <<Error(u)>> ELSE <<Fit(u, x.n)>>
      ELSE IF weakest # {}
      THEN IF first(last) = <<>> \/ rest(last) = <<>> THEN <<>>
           ELSE <<Combined(s[last], first(last)[1], rest(last)[1])>>
      ELSE IF s[1] \in {"+", "-", "!", "~"}
      THEN IF inner = <<>> THEN <<>>
           ELSE LET x == inner[1]
                IN  IF x.err THEN <<Error(x.u /\ s[1] # "!")>>
                    ELSE <<CASE s[1] = "+" -> x
                             [] s[1] = "-" -> Fit(x.u, -x.n)
                             [] s[1] = "~" -> Fit(x.u, -1 - x.n)
                             [] s[1] = "!" -> Fit(FALSE, Bit(x.n = 0))>>
      ELSE IF s[1] = "(" THEN IF s[Len(s)] = ")" THEN Meaning(SubSeq(s, 2, Len(s) - 1)) ELSE <<>>
      ELSE IF Len(s) = 1 /\ Operand(s[1]) THEN <<Plain(s[1])>> ELSE <<>>

(* A line has the value that C gives it, and is refused exactly when C     *)
(* gives it none: what is not evaluated may divide by zero, and still      *)
(* lends its type.                                                         *)
Agrees(toks) ==
  LET alike(c, m) == /\ c.ok <=> (m # <<>> /\ ~m[1].err)
                     /\ c.ok => c.v = Value(m[1].n % 2^Width, m[1].u)
  IN  alike(Condition(toks, {}), Meaning(toks))
=============================================================================
