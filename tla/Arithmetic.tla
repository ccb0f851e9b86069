----------------------------- MODULE Arithmetic ------------------------------
(***************************************************************************)
(* The arithmetic of the operators that vm_binary_op! passes on to Rust.   *)
(* Integers have IntBits bits in two's complement, 64 in the program; an   *)
(* operation that overflows panics, as in the builds that the repository   *)
(* tests.  Floats are whole numbers, rounded towards zero and cut off at   *)
(* an infinity, with one more value that is not a number.                  *)
(***************************************************************************)
EXTENDS Integers, Bitwise

CONSTANT IntBits

ASSUME ArithmeticAssumption == IntBits \in 1..30

LeastInt == -(2 ^ (IntBits - 1))
Ints == LeastInt..(2 ^ (IntBits - 1) - 1)

Unsigned(n) == n % (2 ^ IntBits)
SignedInt(n) == LET m == Unsigned(n) IN IF m \in Ints THEN m ELSE m - 2 ^ IntBits

AbsInt(n) == IF n < 0 THEN -n ELSE n
Truncated(a, b) ==
    LET q == AbsInt(a) \div AbsInt(b) IN IF (a < 0) # (b < 0) THEN -q ELSE q

IntOperation(op, a, b) ==
    CASE op = "+" -> a + b
      [] op = "-" -> a - b
      [] op = "*" -> a * b
      [] op = "/" -> Truncated(a, b)
      [] op = "%" -> a - b * Truncated(a, b)
      [] op = "<<" -> SignedInt(a * 2 ^ b)
      [] op = ">>" -> a \div 2 ^ b
      [] op = "&" -> SignedInt(Unsigned(a) & Unsigned(b))
      [] op = "^" -> SignedInt(Unsigned(a) ^^ Unsigned(b))
      [] op = "|" -> SignedInt(Unsigned(a) | Unsigned(b))

IntPanics(op, a, b) ==
    CASE op \in {"/", "%"} -> b = 0 \/ (a = LeastInt /\ b = -1)
      [] op \in {"<<", ">>"} -> b \notin 0..(IntBits - 1)
      [] OTHER -> IntOperation(op, a, b) \notin Ints

Infinity == 5003
NotANumber == 10007

Clipped(n) == IF n > Infinity THEN Infinity ELSE IF n < -Infinity THEN -Infinity ELSE n

FloatOperation(op, a, b) ==
    CASE NotANumber \in {a, b} -> NotANumber
      [] NotANumber \notin {a, b} /\ op \in {"/", "%"} /\ b = 0 ->
            IF op = "%" \/ a = 0 THEN NotANumber ELSE IF a > 0 THEN Infinity ELSE -Infinity
      [] OTHER -> Clipped(IntOperation(op, a, b))

FloatLess(a, b) == NotANumber \notin {a, b} /\ a < b
==============================================================================
