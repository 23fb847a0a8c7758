------------------------------ MODULE Strings ------------------------------
(***************************************************************************)
(* parse_stringlike, which decodes the text between the quotes of a        *)
(* literal, escape sequences and runes included, and its two users.        *)
(* extract_strings enters the texts of the string tokens into the table of *)
(* strings, which gives equal texts one id; translate_operation then makes *)
(* numbers of the character tokens.  Characters are bytes.                 *)
(***************************************************************************)
EXTENDS Operations, Bitwise, SequencesExt

CONSTANT Programs  \* the texts of the string and of the character tokens

VARIABLES
  tokens,          \* the texts of the string tokens, in order
  chars,           \* the texts of the character tokens, in order
  i, next_escaped,
  s,               \* the text decoded so far
  value,           \* the number decoded so far: op.ival and offset
  strings,         \* the table: texts, in the order of their ids
  ivals,           \* token.ival of the string tokens done
  cvals,           \* op.ival of the character tokens done
  failed,          \* Compilation_Failed
  outcome          \* "running", "returned", "exit" after a message

vars == <<tokens, chars, i, next_escaped, s, value, strings, ivals, cvals, failed, outcome>>
table == <<tokens, chars, strings, ivals, cvals>>

Backslash == 92
Hex_Digit(c) == c \in 48 .. 57 \cup 65 .. 70 \cup 97 .. 102
Hex(c) == IF c <= 57 THEN c - 48 ELSE IF c <= 70 THEN c - 55 ELSE c - 87

\* The escapes of one character: 0 " ' e n r t.
Escape == (48 :> 0) @@ (34 :> 34) @@ (39 :> 39) @@ (101 :> 27) @@ (110 :> 10)
          @@ (114 :> 13) @@ (116 :> 9)
Long_Escape == {117, 85, 120}  \* u U x

\* encode_rune.  A char keeps the low byte.
Rune_Max == <<2 ^ 7 - 1, 2 ^ 11 - 1, 2 ^ 16 - 1>>
Byte(n) == n % 256
\* A plausible slip: seven bits are kept instead of six.
Tail_Byte_Wide(r) == 128 | (Byte(r) & 127)

Tail_Byte(r) == 128 | (Byte(r) & 63)
encode_rune(r) ==
  IF r < Rune_Max[1] THEN <<r>>
  ELSE IF r < Rune_Max[2] THEN <<192 | Byte(r \div 2 ^ 6), Tail_Byte(r)>>
  ELSE IF r < Rune_Max[3]
       THEN <<224 | Byte(r \div 2 ^ 12), Tail_Byte(r \div 2 ^ 6), Tail_Byte(r)>>
  ELSE <<240 | Byte(r \div 2 ^ 18), Tail_Byte(r \div 2 ^ 12), Tail_Byte(r \div 2 ^ 6),
         Tail_Byte(r)>>

\* The number that the length digits after the place k spell.
Digits_Value(q, k, length) ==
  LET h[n \in 0 .. length] == IF n = 0 THEN 0 ELSE h[n - 1] * 16 + Hex(At(q, k + n))
  IN h[length]

-----------------------------------------------------------------------------
\* op.ival by its bytes, the lowest first.
No_Value == [ival |-> <<0, 0, 0, 0, 0, 0, 0, 0>>, offset |-> 0]

\* A plausible slip: every byte is put into the lowest place.
Shifted_Nowhere(c, offset) ==
  [n \in 1 .. 8 |-> IF n = 1 THEN c ELSE IF c >= 128 THEN 255 ELSE 0]

\* c << 8 * offset, with a signed c and the shift one of an int: its count is
\* taken modulo the width of an int, as the instruction does, and the sign is
\* extended to the bytes above.
Shifted(c, offset) ==
  LET place == (offset % 4) + 1
  IN [n \in 1 .. 8 |-> IF n = place THEN c ELSE IF n > place /\ c >= 128 THEN 255 ELSE 0]

Too_Long(v) == v.offset > 8

\* The accumulator of a character token.  After it has returned false it is
\* not called again.
Or_Byte(v, c) ==
  IF Too_Long(v) THEN v
  ELSE [ival |-> <<>> \o [n \in 1 .. 8 |-> v.ival[n] | Shifted(c, v.offset)[n]],
        offset |-> v.offset + 1]

-----------------------------------------------------------------------------
Init ==
  /\ \E p \in Programs : tokens = p[1] /\ chars = p[2]
  /\ i = 0 /\ next_escaped = FALSE /\ s = <<>> /\ value = No_Value
  /\ strings = <<>>
  /\ ivals = <<>> /\ cvals = <<>>
  /\ failed = FALSE
  /\ outcome = "running"

\* The tokens are decoded one after the other, the strings before the rest.
In_String == Len(ivals) < Len(tokens)
In_Char == ~In_String /\ Len(cvals) < Len(chars)
sequence ==
  IF In_String THEN tokens[Len(ivals) + 1]
  ELSE IF In_Char THEN chars[Len(cvals) + 1] ELSE <<>>

Decoding == outcome = "running" /\ i < Len(sequence)
V == At(sequence, i)
Escaped == Decoding /\ next_escaped /\ V # Backslash

\* The accumulator is given bytes, and the decoding goes on after `taken`
\* more characters unless it has had enough.
Accumulate(bytes, taken, complain) ==
  LET v == IF In_Char THEN FoldLeft(Or_Byte, value, bytes) ELSE value
  IN /\ s' = IF In_String THEN s \o bytes ELSE s
     /\ value' = v
     /\ i' = IF Too_Long(v) THEN Len(sequence) ELSE i + 1 + taken
     /\ next_escaped' = FALSE
     /\ failed' = (failed \/ complain \/ Too_Long(v))
     /\ UNCHANGED <<table, outcome>>

Stop(how) == outcome' = how /\ UNCHANGED <<table, i, next_escaped, s, value, failed>>

\* A backslash escapes the next character, whatever came before it.
Begin_Escape ==
  /\ Decoding /\ V = Backslash
  /\ next_escaped' = TRUE
  /\ i' = i + 1
  /\ UNCHANGED <<table, s, value, failed, outcome>>

Plain_Char == Decoding /\ V # Backslash /\ ~next_escaped /\ Accumulate(<<V>>, 0, FALSE)

\* An escape nobody knows is reported, and stands for the character.
Simple_Escape ==
  /\ Escaped /\ V \notin Long_Escape
  /\ IF V \in DOMAIN Escape THEN Accumulate(<<Escape[V]>>, 0, FALSE)
     ELSE Accumulate(<<V>>, 0, TRUE)

Unicode_Escape ==
  /\ Escaped /\ V \in {117, 85}
  /\ LET length == IF V = 117 THEN 4 ELSE 8
     IN IF /\ i + length < Len(sequence)
           /\ \A n \in 1 .. length : Hex_Digit(At(sequence, i + n))
        THEN Accumulate(encode_rune(Digits_Value(sequence, i, length)), length, FALSE)
        ELSE Stop("exit")

\* A digit that is not hexadecimal is reported and adds nothing.
Hex_Escape ==
  /\ Escaped /\ V = 120
  /\ IF i + 2 >= Len(sequence) THEN Stop("exit")
     ELSE LET c == At(sequence, i + 1)
              d == At(sequence, i + 2)
              high == IF Hex_Digit(c) THEN Hex(c) ELSE 0
          IN Accumulate(<<IF Hex_Digit(d) THEN high * 16 + Hex(d) ELSE high>>, 2,
                        ~Hex_Digit(c) \/ ~Hex_Digit(d))

Next_Token == i' = 0 /\ next_escaped' = FALSE /\ s' = <<>> /\ value' = No_Value

\* A plausible slip: a text that is in the table is entered again.
Enter_String_Again ==
  /\ outcome = "running" /\ In_String /\ i >= Len(sequence)
  /\ strings' = Append(strings, s)
  /\ ivals' = Append(ivals, Len(strings))
  /\ Next_Token
  /\ UNCHANGED <<tokens, chars, cvals, failed, outcome>>

\* try_emplace, and the next token.
Enter_String ==
  /\ outcome = "running" /\ In_String /\ i >= Len(sequence)
  /\ LET ids == {n \in DOMAIN strings : strings[n] = s}
     IN /\ strings' = IF ids = {} THEN Append(strings, s) ELSE strings
        /\ ivals' = Append(ivals, IF ids = {} THEN Len(strings) ELSE (CHOOSE n \in ids : TRUE) - 1)
  /\ Next_Token
  /\ UNCHANGED <<tokens, chars, cvals, failed, outcome>>

Translate_Char ==
  /\ outcome = "running" /\ In_Char /\ i >= Len(sequence)
  /\ cvals' = Append(cvals, value.ival)
  /\ Next_Token
  /\ UNCHANGED <<tokens, chars, strings, ivals, failed, outcome>>

Return_Decoded == outcome = "running" /\ ~In_String /\ ~In_Char /\ Stop("returned")

Next ==
  \/ Begin_Escape \/ Plain_Char \/ Simple_Escape \/ Unicode_Escape \/ Hex_Escape
  \/ Enter_String \/ Translate_Char \/ Return_Decoded

Spec == Init /\ [][Next]_vars

-----------------------------------------------------------------------------
(* Properties.                                                              *)

\* Reference: what a text stands for, from its end; a backslash escapes the
\* character after it, the backslash too.
Length_Of(c) == CASE c = 117 -> 4 [] c = 85 -> 8 [] c = 120 -> 2 [] OTHER -> 0
Meaning(q) ==
  LET h[k \in 1 .. Len(q) + 1] ==
        IF k = Len(q) + 1 THEN <<>>
        ELSE IF q[k] # Backslash THEN <<q[k]>> \o h[k + 1]
        ELSE LET c == q[k + 1]
                 rest == h[k + 2 + Length_Of(c)]
             IN CASE c \in {117, 85} -> encode_rune(Digits_Value(q, k, Length_Of(c))) \o rest
                  [] c = 120 -> <<Digits_Value(q, k, 2)>> \o rest
                  [] c \in DOMAIN Escape -> <<Escape[c]>> \o rest
                  [] OTHER -> <<c>> \o rest
  IN h[1]

Doubled(q) == \E k \in 1 .. Len(q) - 1 : q[k] = Backslash /\ q[k + 1] = Backslash

\* What the tokens done so far were decoded to.
Text(n) == strings[ivals[n] + 1]

\* Reference: the rune of a sequence of UTF-8 bytes, by its first byte, and the
\* number of bytes that UTF-8 gives it; four bytes hold 21 bits.
Rune_Of(b) ==
  LET h[k \in 1 .. Len(b)] ==
        IF k = 1 THEN IF Len(b) = 1 THEN b[1] ELSE b[1] % 2 ^ (7 - Len(b))
        ELSE h[k - 1] * 64 + (b[k] % 64)
  IN h[Len(b)]
Shape(b) ==
  /\ Len(b) = CASE b[1] < 128 -> 1 [] b[1] \in 192 .. 223 -> 2 [] b[1] \in 224 .. 239 -> 3
                [] b[1] \in 240 .. 247 -> 4 [] OTHER -> 0
  /\ \A k \in 2 .. Len(b) : b[k] \in 128 .. 191
UTF8_Length(r) == IF r < 2 ^ 7 THEN 1 ELSE IF r < 2 ^ 11 THEN 2 ELSE IF r < 2 ^ 16 THEN 3 ELSE 4
Encodable(r) == r < 2 ^ 21

\* The last rune of one, two and three bytes, for which the comparisons of
\* encode_rune are off by one.
Last_Of_Length == {2 ^ 7 - 1, 2 ^ 11 - 1, 2 ^ 16 - 1}

\* A text that is one unicode escape, and its rune.
Is_Rune(q) == Len(q) \in {6, 10} /\ q[1] = Backslash /\ q[2] \in {117, 85} /\ Len(q) = 2 + Length_Of(q[2])
Rune(q) == Digits_Value(q, 1, Length_Of(q[2]))

\* The bytes b are the UTF-8 of the rune r, or, for the last rune of a length,
\* the same bits in one byte more.
Encodes(b, r) == Shape(b) /\ Rune_Of(b) = r /\ (r \in Last_Of_Length \/ Len(b) = UTF8_Length(r))

\* Every text is decoded to what its characters and escapes stand for, in
\* their order, and the bytes of a unicode escape whose rune fits are the
\* UTF-8 of that rune.  The code gets three things wrong, which are left out: it
\* does not know an escaped backslash, the last rune of each length takes a
\* byte too many, and a rune of more than 21 bits, which \U may be, is not
\* refused.
DecodesUnlessBackslashEscaped ==
  \A n \in DOMAIN ivals :
    /\ failed \/ Doubled(tokens[n]) \/ Text(n) = Meaning(tokens[n])
    /\ Is_Rune(tokens[n]) /\ Encodable(Rune(tokens[n])) => Encodes(Text(n), Rune(tokens[n]))

\* Two string tokens get the same id exactly if they stand for the same text,
\* however it is written: the assembly has one label for it, and the ids are
\* the places in the table.
IdsFollowTexts ==
  \A m, n \in DOMAIN ivals :
    ~failed /\ ~Doubled(tokens[m]) /\ ~Doubled(tokens[n]) =>
      (ivals[m] = ivals[n] <=> Meaning(tokens[m]) = Meaning(tokens[n]))

\* A character literal of up to four ASCII characters, however they are
\* written, is the number that its bytes are in memory; a literal is reported
\* exactly if it has more than eight bytes, and what follows it is decoded all
\* the same.
CharsAreTheirBytesOrReported ==
  /\ \A n \in DOMAIN cvals :
       LET b == Meaning(chars[n])
       IN ~failed /\ ~Doubled(chars[n]) /\ Len(b) <= 4 /\ (\A k \in DOMAIN b : b[k] < 128) =>
            cvals[n] = b \o [k \in 1 .. 8 - Len(b) |-> 0]
  /\ outcome = "returned" =>
       /\ Len(cvals) = Len(chars)
       /\ tokens = <<>> /\ (\A n \in DOMAIN chars : Backslash \notin ToSet(chars[n])) =>
            (failed <=> \E n \in DOMAIN chars : Len(chars[n]) > 8)
=============================================================================
