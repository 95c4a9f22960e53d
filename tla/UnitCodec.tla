------------------------------- MODULE UnitCodec -------------------------------
(***************************************************************************)
(* What generated code computes with: expressions over the members of a    *)
(* unit, and the integer codecs of the runtime.                            *)
(***************************************************************************)
EXTENDS UnitAst

CONSTANTS
    Base        \* number of values of a byte

ASSUME BaseAssumption == Base \in Nat /\ Base > 1

Byte == 0..(Base - 1)
Widths == {1, 2, 4, 8}

\* Number of values of an unsigned integer of w bytes.
Modulus(w) ==
    LET m2 == Base * Base
        m4 == m2 * m2
    IN CASE w = 1 -> Base [] w = 2 -> m2 [] w = 4 -> m4 [] w = 8 -> m4 * m4

(***************************************************************************)
(* C++ arithmetic.  The result of + or - on unsigned operands of at most w *)
(* bytes is an int when they are narrower than one, 4 bytes, and wraps     *)
(* otherwise.  An assignment to an unsigned member of w bytes takes the    *)
(* value modulo its width, negative ones too.  size_t has 8 bytes, and     *)
(* static_cast<ssize_t> turns its upper half negative.                     *)
(***************************************************************************)
Wider(w, x) == IF w < x THEN x ELSE w
Arith(n, w) == IF w < 4 THEN n ELSE n % Modulus(w)
Widened(n, w) == n
Truncated(n, w) == n % Modulus(w)
SizeT(n) == Truncated(n, 8)
Signed(n) == IF 2 * n < Modulus(8) THEN n ELSE n - Modulus(8)

(***************************************************************************)
(* What the generated C++ computes for an expression of the three shapes   *)
(* that lengths, &parse attributes and switches have: a constant, `self.a' *)
(* and `self.a - (self.b + self.c)', over members v of the widths w.       *)
(***************************************************************************)
Eval(e, v, w) ==
    CASE e.op = "const" -> e.val
      [] e.op = "self"  -> v[e.a]
      [] e.op = "rest"  -> LET sum == Wider(w[e.b], w[e.c])
                           IN Arith(v[e.a] - Arith(v[e.b] + v[e.c], sum), Wider(w[e.a], sum))

(***************************************************************************)
(* The integer codecs of parsing/util.h and serializing/util.h.  The host is*)
(* little-endian: an integer in memory is its bytes, lowest first, and the *)
(* "big" variants swap the bytes.                                          *)
(***************************************************************************)
Swap(s) == [k \in 1..Len(s) |-> s[Len(s) + 1 - k]]

Host(s) ==
    CASE Len(s) = 1 -> s[1]
      [] Len(s) = 2 -> s[1] + Base * s[2]
      [] Len(s) = 4 -> s[1] + Base * (s[2] + Base * (s[3] + Base * s[4]))
      [] Len(s) = 8 -> s[1] + Base * (s[2] + Base * (s[3] + Base * (s[4]
                            + Base * (s[5] + Base * (s[6] + Base * (s[7]
                            + Base * s[8]))))))

ParseIntUnswapped(order, s) == Host(s)
ParseInt(order, s) == Host(IF order = "big" THEN Swap(s) ELSE s)

\* serializeInt*: n modulo the width, as bytes.
HostBytes(n, w) ==
    LET q1 == n \div Base   q2 == q1 \div Base   q3 == q2 \div Base   q4 == q3 \div Base
        q5 == q4 \div Base  q6 == q5 \div Base   q7 == q6 \div Base
        d(q) == q % Base
    IN CASE w = 1 -> <<d(n)>>
         [] w = 2 -> <<d(n), d(q1)>>
         [] w = 4 -> <<d(n), d(q1), d(q2), d(q3)>>
         [] w = 8 -> <<d(n), d(q1), d(q2), d(q3), d(q4), d(q5), d(q6), d(q7)>>

SerializeIntUnswapped(order, n, w) == HostBytes(n, w)
SerializeInt(order, n, w) ==
    IF order = "big" THEN Swap(HostBytes(n, w)) ELSE HostBytes(n, w)

\* A unit's members are partial functions of their names.
NoMembers == [i \in {} |-> 0]

\* The function f with f[i] = x added or replaced.
Put(f, i, x) == [j \in DOMAIN f \cup {i} |-> IF j = i THEN x ELSE f[j]]

\* s[from+1 .. from+n] as a sequence: n bytes at offset from.
Slice(s, from, n) == [k \in 1..n |-> s[from + k]]
================================================================================
