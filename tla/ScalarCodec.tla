---------------------------- MODULE ScalarCodec ----------------------------
(***************************************************************************)
(* The scalars of a struct payload (payload_codec.cpp) and of ROS fields   *)
(* (generic_message_bridge.cpp): conversions between fields, wire values   *)
(* and bytes.  A double is a rational <<n, d>> with d > 0, or NonFinite;   *)
(* an integer that becomes a double loses its last digits past Precision.  *)
(* float32 is taken as precise as float64.                                 *)
(***************************************************************************)
EXTENDS Integers, Sequences

CONSTANTS Precision,   \* integers up to it are exact in a double (2^53)
          NonFinite    \* an infinity or a NaN

ASSUME PrecisionAssumption == Precision \in Nat

Byte == 256

\* Types: kind, size in bytes, and the range of an integer.
IntType(size, signed) ==
    LET m == Byte ^ size IN
    [kind |-> "int", size |-> size,
     lo |-> IF signed THEN -(m \div 2) ELSE 0, hi |-> IF signed THEN m \div 2 - 1 ELSE m - 1]
Bool == [kind |-> "bool", size |-> 1, lo |-> 0, hi |-> 1]
FloatType(size) == [kind |-> "float", size |-> size, lo |-> 0, hi |-> 0]
IsIntType(t) == t.kind = "int" /\ t.lo \in Int /\ t.hi \in Int /\ t.lo <= t.hi

Failed == [ok |-> FALSE, value |-> 0]
Good(v) == [ok |-> TRUE, value |-> v]

\* static_cast<double> of an integer: past Precision only even numbers remain
\* (the next power of two is not reached).
Double(v) ==
    IF v \in -Precision..Precision \/ v % 2 = 0 THEN <<v, 1>>
    ELSE <<IF v % 4 = 1 THEN v - 1 ELSE v + 1, 1>>

\* std::round: halves away from zero.
Round(x) == IF x[1] >= 0 THEN (2 * x[1] + x[2]) \div (2 * x[2])
                         ELSE -((x[2] - 2 * x[1]) \div (2 * x[2]))

CheckedFixed(x, t) ==
    IF x = NonFinite THEN Failed
    ELSE IF Round(x) < t.lo \/ Round(x) >= t.hi + 1 THEN Failed ELSE Good(Round(x))

CheckedExact(v, t) == IF v < t.lo \/ v > t.hi THEN Failed ELSE Good(v)

Truth(b) == Good(IF b THEN 1 ELSE 0)

\* A number to a wire value of type t...
CoerceOutgoing(x, t) ==
    CASE t.kind = "bool"  -> Truth(x = NonFinite \/ x[1] # 0)
      [] t.kind = "int"   -> CheckedFixed(x, t)
      [] t.kind = "float" -> Good(x)

CoerceOutgoingInteger(v, t) ==
    CASE t.kind = "bool"  -> Truth(v # 0)
      [] t.kind = "int"   -> CheckedExact(v, t)
      [] t.kind = "float" -> Good(Double(v))

\* ...and back.
CoerceIncoming(w, t) == IF t.kind = "float" THEN w ELSE Double(w)
CoerceIncomingInteger(w, t) == IF t.kind = "float" THEN Failed ELSE Good(w)

\* ROS fields are read and written by the same conversions.  Fields of other
\* types (kind "other") are refused.
ReadNumeric(v, t) == IF t.kind = "other" THEN Failed ELSE Good(CoerceIncoming(v, t))
ReadInteger(v, t) == CoerceIncomingInteger(v, t)
WriteNumeric(x, t) == IF t.kind = "other" THEN Failed ELSE CoerceOutgoing(x, t)
WriteInteger(v, t) == IF t.kind = "other" THEN Failed ELSE CoerceOutgoingInteger(v, t)

\* Two's complement in a word of m values.
Raw(w, m) == w % m
Value(r, m, signed) == IF signed /\ 2 * r >= m THEN r - m ELSE r

\* Little-endian bytes.  The bytes of a float are a copy of it.
PackValue(w, t) ==
    [i \in 1..t.size |-> IF t.kind = "float" THEN <<i, w>>
                         ELSE (Raw(w, Byte ^ t.size) \div Byte ^ (i - 1)) % Byte]

UnpackValue(bytes, t) ==
    LET Sum[i \in 0..t.size] == IF i = 0 THEN 0 ELSE Sum[i - 1] + bytes[i] * Byte ^ (i - 1) IN
    CASE t.kind = "float" -> bytes[1][2]
      [] t.kind = "bool"  -> IF Sum[1] # 0 THEN 1 ELSE 0
      [] t.kind = "int"   -> Value(Sum[t.size], Byte ^ t.size, t.lo < 0)

=============================================================================
