---------------------------- MODULE LayerMachine ----------------------------
(***************************************************************************)
(* What a copy program means: blocks of operations on words, each block    *)
(* with the block that follows it.  The machine carries out one block in a *)
(* step, and stops when there is no next block.                            *)
(***************************************************************************)
EXTENDS Integers, Sequences, SequencesExt

CONSTANTS Words,     \* the words a program works on
          WordSize,  \* how many values a word has
          Boot       \* where a run begins

VARIABLES blocks,    \* the operations of every block
          follows,   \* the block after each block
          running, at,
          memory     \* the values of the words

machineVars == <<blocks, follows, running, at, memory>>

Bit(value, i) == (value \div 2 ^ i) % 2

Bitwise2(f(_, _), x, y) ==
  LET low[k \in Nat] == IF 2 ^ k >= WordSize THEN 0
                        ELSE 2 ^ k * f(Bit(x, k), Bit(y, k)) + low[k + 1]
  IN  low[0]

Value(op, x, y) ==
  CASE op = "add" -> (x + y) % WordSize
    [] op = "sub" -> (x - y) % WordSize
    [] op = "and" -> Bitwise2(LAMBDA a, b : a * b, x, y)
    [] op = "or"  -> Bitwise2(LAMBDA a, b : a + b - a * b, x, y)
    [] op = "xor" -> Bitwise2(LAMBDA a, b : (a + b) % 2, x, y)
    [] op = "mov" -> x

Apply(m, o) == [m EXCEPT ![o.dst] = Value(o.op, m[o.left], m[o.right])]

Init == blocks = <<>> /\ follows = <<>> /\ running = FALSE
        /\ at = Boot /\ memory = [w \in Words |-> 0]

(* The program grows, or one of its jumps is set.                          *)
Build == ~running /\ blocks' # <<>> /\ UNCHANGED <<running, at, memory>>

Start == ~running /\ running' = TRUE /\ memory' \in [Words -> 0 .. (WordSize - 1)]
         /\ UNCHANGED <<blocks, follows, at>>

Step == /\ running /\ at \in DOMAIN follows
        /\ memory' = FoldLeft(Apply, memory, blocks[at])
        /\ at' = follows[at]
        /\ UNCHANGED <<blocks, follows, running>>

Next == Build \/ Start \/ Step
Spec == Init /\ [][Next]_machineVars
=============================================================================
