------------------------------- MODULE Lexer -------------------------------
(***************************************************************************)
(* lex: the characters of a file into tokens with their locations.  A      *)
(* token that is not quoted is a keyword, or an integer if parse_int       *)
(* (IntegerLiterals) takes it for one in the base of its prefix or in base *)
(* ten, or a word.                                                         *)
(*                                                                         *)
(* The file is a string_view into a std::string: the character at its size *)
(* is the terminating NUL; one beyond is outside the string.               *)
(***************************************************************************)
EXTENDS IntegerLiterals

CONSTANTS
  Files,    \* the files the lexer may be given
  Keywords  \* the texts in String_To_Keyword

\* isspace, and what begins a literal.
Space == {"space", "newline"}
Quote == {"string quote", "char quote"}

VARIABLES
  file,          \* the characters of the file
  i,             \* the position
  line, column,  \* of the character at i, counted from 1
  tokens,        \* from, to, kind, ival, line and column of each
  outcome        \* "lexing", "done", "fatal" after a message, "undefined"

vars == <<intVars, file, i, line, column, tokens, outcome>>

Size == Len(file)
Ch(k) == IF k = Size THEN "NUL" ELSE At(file, k)
Text(from, to) == SubSeq(file, from + 1, to)

Init ==
  /\ Init_Int
  /\ file \in Files
  /\ i = 0 /\ line = 1 /\ column = 1
  /\ tokens = <<>>
  /\ outcome = "lexing"

At_Char == outcome = "lexing" /\ parse = "idle" /\ i < Size

Stop(how) == outcome' = how /\ UNCHANGED <<intVars, file, i, line, column, tokens>>

Skip_Space ==
  /\ At_Char /\ Ch(i) \in Space
  /\ i' = i + 1
  /\ line' = IF Ch(i) = "newline" THEN line + 1 ELSE line
  /\ column' = IF Ch(i) = "newline" THEN 1 ELSE column + 1
  /\ UNCHANGED <<intVars, file, tokens, outcome>>

First(S) == CHOOSE k \in S : \A m \in S : k <= m

\* A plausible slip: the line of the comment is not counted.
Skip_Comment_Uncounted ==
  /\ At_Char /\ Ch(i) = "#"
  /\ LET newlines == {k \in i .. Size - 1 : Ch(k) = "newline"}
     IN IF newlines = {} THEN Stop("undefined")
        ELSE /\ i' = First(newlines) + 1
             /\ column' = 1
             /\ UNCHANGED <<intVars, file, line, tokens, outcome>>

\* The search for the newline stops at the end of the file, and the position
\* after it is read and lexed.
Skip_Comment ==
  /\ At_Char /\ Ch(i) = "#"
  /\ LET newlines == {k \in i .. Size - 1 : Ch(k) = "newline"}
     IN IF newlines = {} THEN Stop("undefined")
        ELSE /\ i' = First(newlines) + 1
             /\ line' = line + 1
             /\ column' = 1
             /\ UNCHANGED <<intVars, file, tokens, outcome>>

\* The token from i to `to` is finished.
Add_Token(to, kind, value) ==
  /\ tokens' = Append(tokens, [from |-> i, to |-> to, kind |-> kind, ival |-> value,
                               line |-> line, column |-> column])
  /\ i' = to
  /\ column' = column + (to - i)
  /\ UNCHANGED <<file, line, outcome>>

\* A plausible slip: a quote ends the literal whatever precedes it.
Lex_Quoted_Unescaped ==
  /\ At_Char /\ Ch(i) \in Quote
  /\ LET kind == IF Ch(i) = "string quote" THEN "String" ELSE "Char"
         str_ends == {k \in i + 1 .. Size - 2 : Ch(k + 1) = Ch(i)}
     IN IF Ch(i + 1) = Ch(i)
        THEN IF kind = "Char" THEN Stop("fatal") ELSE Add_Token(i + 2, kind, 0) /\ UNCHANGED intVars
        ELSE IF str_ends = {} THEN Stop("fatal")
        ELSE Add_Token(First(str_ends) + 2, kind, 0) /\ UNCHANGED intVars

\* adjacent_find: the first quote, from the second character of the literal
\* on, that no backslash precedes.
Lex_Quoted ==
  /\ At_Char /\ Ch(i) \in Quote
  /\ LET kind == IF Ch(i) = "string quote" THEN "String" ELSE "Char"
         str_ends == {k \in i + 1 .. Size - 2 : Ch(k) # "backslash" /\ Ch(k + 1) = Ch(i)}
     IN IF Ch(i + 1) = Ch(i)
        THEN IF kind = "Char" THEN Stop("fatal") ELSE Add_Token(i + 2, kind, 0) /\ UNCHANGED intVars
        ELSE IF str_ends = {} THEN Stop("fatal")
        ELSE Add_Token(First(str_ends) + 2, kind, 0) /\ UNCHANGED intVars

Text_End == First({k \in i .. Size - 1 : Ch(k) \in Space} \cup {Size})
Sval == Text(i, Text_End)
Prefix_Base(q) ==
  IF Len(q) < 2 \/ q[1] # "0" THEN 10
  ELSE CASE q[2] = "b" -> 2 [] q[2] = "s" -> 6 [] q[2] = "o" -> 8 [] q[2] = "x" -> 16
         [] OTHER -> 10

\* A keyword, or the first call of parse_int, for a token that has a new
\* byte_size.
Lex_Text ==
  /\ At_Char /\ Ch(i) \notin Space \cup Quote \cup {"#"}
  /\ IF Sval \in Keywords THEN Add_Token(Text_End, "Keyword", 0) /\ UNCHANGED intVars
     ELSE /\ Call_parse_int(Sval, Prefix_Base(Sval))
          /\ byte_size' = 0
          /\ UNCHANGED <<place, ival, file, i, line, column, tokens, outcome>>

Step_parse_int == parse_int /\ UNCHANGED <<file, i, line, column, tokens, outcome>>

\* What is no number in the base of its prefix may be one in base ten.
Try_Decimal ==
  /\ outcome = "lexing" /\ parse = "false" /\ base # 10
  /\ Call_parse_int(text, 10)
  /\ UNCHANGED <<place, ival, byte_size, file, i, line, column, tokens, outcome>>

Lex_Integer ==
  /\ outcome = "lexing" /\ parse = "true"
  /\ Add_Token(Text_End, "Integer", ival)
  /\ parse' = "idle" /\ UNCHANGED <<text, base, s, place, ival, byte_size>>

Lex_Word ==
  /\ outcome = "lexing" /\ parse = "false" /\ base = 10
  /\ Add_Token(Text_End, IF Ch(i) = "&" THEN "Address_Of" ELSE "Word", 0)
  /\ parse' = "idle" /\ UNCHANGED <<text, base, s, place, ival, byte_size>>

Return_Lex == outcome = "lexing" /\ parse = "idle" /\ i >= Size /\ Stop("done")

Next ==
  \/ Skip_Space \/ Skip_Comment \/ Lex_Quoted \/ Lex_Text \/ Step_parse_int
  \/ Try_Decimal \/ Lex_Integer \/ Lex_Word \/ Return_Lex

Spec == Init /\ [][Next]_vars

-----------------------------------------------------------------------------
(* Properties.                                                              *)

Newlines(from, to) == {k \in from .. to - 1 : Ch(k) = "newline"}
Token(n) == tokens[n]
Quoted(t) == t.kind \in {"String", "Char"}

\* The location a token is given is where it is in the file, after any mixture
\* of spaces, comments and other tokens: lines are counted from 1, columns
\* from 1 after the last newline.  A string over several lines ends this.
LocationsRight ==
  \A n \in DOMAIN tokens :
    (\A m \in 1 .. n - 1 : Newlines(Token(m).from, Token(m).to) = {}) =>
      /\ Token(n).line = 1 + Cardinality(Newlines(0, Token(n).from))
      /\ Token(n).column = First({Token(n).from - k : k \in Newlines(0, Token(n).from)}
                                   \cup {Token(n).from + 1})

\* Reference: a quote ends a literal when an even number of backslashes
\* precedes it in the literal.
Escapes_Before(from, k) ==
  Cardinality({m \in from + 1 .. k - 1 : \A n \in m .. k - 1 : Ch(n) = "backslash"})
Ends(from) ==
  {k \in from + 1 .. Size - 1 : Ch(k) = Ch(from) /\ Escapes_Before(from, k) % 2 = 0}

\* A literal ends at the first quote that is not escaped: an escaped quote is
\* part of it.  The code takes a quote after an escaped backslash for an
\* escaped one: files with an escaped backslash are left out.
LiteralsEndUnlessBackslashEscaped ==
  (\A k \in 0 .. Size - 2 : ~(Ch(k) = "backslash" /\ Ch(k + 1) = "backslash")) =>
    \A n \in DOMAIN tokens : Quoted(Token(n)) =>
      LET t == Token(n)
      IN Ends(t.from) # {} /\ t.to = First(Ends(t.from)) + 1

\* Reference: a number is digits and underscores, and a type.
Types == {<<>>} \cup
  {<<c>> \o n : c \in {"i", "u"}, n \in {<<"8">>, <<"1", "6">>, <<"3", "2">>, <<"6", "4">>}}
Digits_Of(q) == SelectSeq(q, LAMBDA c : c # "_")
All_Digits(q, b) == \A n \in DOMAIN q : q[n] = "_" \/ Value(q[n]) < b
Number_Digits(q) ==
  LET b == Prefix_Base(q)
      r == IF b # 10 THEN SubSeq(q, 3, Len(q)) ELSE q
      untyped == {Without_Suffix(r, Len(t)) : t \in {t \in Types : Len(t) <= Len(r) /\ Suffix(r, Len(t)) = t}}
  IN {Digits_Of(u) : u \in {u \in untyped : All_Digits(u, b)}}
Horner(q, b) ==
  LET h[n \in 0 .. Len(q)] == IF n = 0 THEN 0 ELSE h[n - 1] * b + Value(q[n])
  IN h[Len(q)]

\* A token is an integer exactly if it is no keyword and consists, after the
\* prefix of its base, of digits of the base, underscores anywhere, and perhaps
\* one of the eight types.  Its value is the number written, modulo the width:
\* underscores, leading zeros and the type do not move a digit to the place of
\* another, and a number with as many digits as the largest one stays in the
\* table.
NumbersAsWritten ==
  /\ \A n \in DOMAIN tokens : ~Quoted(Token(n)) =>
       LET q == Text(Token(n).from, Token(n).to)
       IN /\ Token(n).kind = "Integer" <=> q \notin Keywords /\ Number_Digits(q) # {}
          /\ Token(n).kind = "Integer" =>
               \A d \in Number_Digits(q) : Token(n).ival = Horner(d, Prefix_Base(q)) % 2 ^ Width
  /\ parse = "undefined" => Len(Digits_Of(Unmarked(Significant(base, text)))) > Max_Digits[base]
=============================================================================
