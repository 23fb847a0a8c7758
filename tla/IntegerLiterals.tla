-------------------------- MODULE IntegerLiterals --------------------------
(***************************************************************************)
(* parse_int<Base>: the text of a token as an integer.  The value is       *)
(* summed up from a table of the powers of the base, entered at the place  *)
(* where the number of digits says the first digit belongs.  Numbers are   *)
(* Width bits wide.                                                        *)
(***************************************************************************)
EXTENDS Operations

CONSTANTS
  Width,      \* of token.ival: 64 in the source
  Max_Digits  \* max_digits64: the digits of the largest number, for each base

Bases == {2, 6, 8, 10, 16}

ASSUME MaxDigitsAssumption ==
  \A b \in Bases : b ^ Max_Digits[b] >= 2 ^ Width /\ b ^ (Max_Digits[b] - 1) < 2 ^ Width

VARIABLES
  text,       \* token.sval
  base,       \* the template parameter
  s,          \* the part not yet read
  place,      \* i in the source: the place in Powers_Lookup
  ival,       \* token.ival
  byte_size,  \* token.byte_size
  parse       \* "idle" before a call, "strip" and "digits" in it, "true" and
              \* "false" when it returns, "undefined" after a read outside the table

intVars == <<text, base, s, place, ival, byte_size, parse>>

\* The digits, of which a base uses the first ones.  Any other character but
\* the underscore has a value no base reaches.
Digits_In_Order == <<"0", "1", "2", "3", "4", "5", "6", "7", "8", "9",
                     "a", "b", "c", "d", "e", "f">>
Value(c) ==
  IF \E n \in DOMAIN Digits_In_Order : Digits_In_Order[n] = c
  THEN (CHOOSE n \in DOMAIN Digits_In_Order : Digits_In_Order[n] = c) - 1
  ELSE 36

pow(x, n) == x ^ n % 2 ^ Width
Powers_Lookup == <<>> \o [n \in 1 .. Max_Digits[base] |-> pow(base, Max_Digits[base] - n)]

Count(q, c) == Cardinality({n \in DOMAIN q : q[n] = c})
Suffix(q, n) == SubSeq(q, Len(q) - n + 1, Len(q))
Without_Suffix(q, n) == SubSeq(q, 1, Len(q) - n)
Marked(q, n) == Len(q) >= n /\ q[Len(q) - n + 1] \in {"i", "u"}

Init_Int ==
  /\ text = <<>> /\ base = 10 /\ s = <<>>
  /\ place = 0 /\ ival = 0 /\ byte_size = 0
  /\ parse = "idle"

\* The call of parse_int<b> for a token.
Call_parse_int(q, b) ==
  /\ text' = q /\ base' = b /\ s' = q
  /\ parse' = "strip"

\* Without the prefix, the leading zeros and the underscores among them.
Significant(b, t) ==
  LET q == IF b # 10 THEN SubSeq(t, 3, Len(t)) ELSE t
      first == {n \in DOMAIN q : q[n] \notin {"0", "_"}}
  IN IF first = {} THEN <<>>
     ELSE SubSeq(q, CHOOSE n \in first : \A m \in first : n <= m, Len(q))

\* The size that the type gives, -1 for what looks like a type and is none.
Suffix_Size(q) ==
  IF Marked(q, 2) THEN IF Suffix(q, 1) = <<"8">> THEN 1 ELSE -1
  ELSE IF Marked(q, 3)
       THEN CASE Suffix(q, 2) = <<"1", "6">> -> 2
              [] Suffix(q, 2) = <<"3", "2">> -> 4
              [] Suffix(q, 2) = <<"6", "4">> -> 8
              [] OTHER -> -1
  ELSE 0

Unmarked(q) == Without_Suffix(q, IF Marked(q, 2) THEN 2 ELSE IF Marked(q, 3) THEN 3 ELSE 0)

\* A plausible slip: underscores count as digits.
Strip_Uncounted ==
  /\ parse = "strip"
  /\ LET q == Significant(base, text)
         size == Suffix_Size(q)
     IN IF size < 0 THEN parse' = "false" /\ s' = q /\ UNCHANGED <<byte_size, place, ival>>
        ELSE /\ parse' = "digits"
             /\ byte_size' = IF size > 0 THEN size ELSE byte_size
             /\ s' = Unmarked(q)
             /\ place' = Max_Digits[base] - Len(Unmarked(q))
             /\ ival' = 0
  /\ UNCHANGED <<text, base>>

\* The prefix, the leading zeros and the type are taken off.  The underscores
\* are counted before the type is.
Strip ==
  /\ parse = "strip"
  /\ LET q == Significant(base, text)
         size == Suffix_Size(q)
     IN IF size < 0 THEN parse' = "false" /\ s' = q /\ UNCHANGED <<byte_size, place, ival>>
        ELSE /\ parse' = "digits"
             /\ byte_size' = IF size > 0 THEN size ELSE byte_size
             /\ s' = Unmarked(q)
             /\ place' = Max_Digits[base] - Len(Unmarked(q)) + Count(q, "_")
             /\ ival' = 0
  /\ UNCHANGED <<text, base>>

\* The table is read at a place counted without a sign: with too many digits
\* it wraps, and is outside.
Add_Digit ==
  /\ parse = "digits" /\ s # <<>>
  /\ IF Head(s) = "_" THEN s' = Tail(s) /\ UNCHANGED <<place, ival, parse>>
     ELSE IF Value(Head(s)) >= base THEN parse' = "false" /\ UNCHANGED <<s, place, ival>>
     ELSE IF place \notin 0 .. Max_Digits[base] - 1
          THEN parse' = "undefined" /\ UNCHANGED <<s, place, ival>>
     ELSE /\ ival' = (ival + At(Powers_Lookup, place) * Value(Head(s))) % 2 ^ Width
          /\ place' = place + 1
          /\ s' = Tail(s)
          /\ UNCHANGED parse
  /\ UNCHANGED <<text, base, byte_size>>

Return_True ==
  /\ parse = "digits" /\ s = <<>>
  /\ parse' = "true"
  /\ UNCHANGED <<text, base, s, place, ival, byte_size>>

parse_int == Strip \/ Add_Digit \/ Return_True
=============================================================================
