----------------------------- MODULE MCStrings -----------------------------
(* Texts of a letter, a backslash and the characters of escapes, alone and *)
(* in pairs, as strings and as characters.  The lexer ends no literal      *)
(* after a backslash.                                                      *)
EXTENDS Strings

CONSTANT Max_Length

Not_Ending_Escaped(q) == q = <<>> \/ Last(q) # Backslash

\* A n \ " 0 x: in pairs, to share ids.
Texts == {q \in SeqOf({65, 110, 92, 48}, Max_Length) : Not_Ending_Escaped(q)}
Short_Texts == {q \in SeqOf({65, 110, 92, 34}, 2) : Not_Ending_Escaped(q)}
Hex_Texts == {<<92, 120>> \o q : q \in SeqOf({48, 52, 49, 97, 71}, 3)}

\* Runes on both sides of each change of length, the last ones and runes that
\* do not fit included, written with 0 1 2 7 8 E F f.  (Runes from 80000000 on
\* are not in TLC's integers.)
Rune_Texts ==
  {<<92, 117>> \o <<a, b, c, d>> : a \in {48, 55, 56, 70}, b \in {48, 55, 56, 70},
     c \in {48, 55, 56, 70}, d \in {48, 49, 55, 69, 102}}
  \cup {<<92, 85, 48, 48>> \o <<a, b, c, d, d, d>> :
          a \in {48, 49, 50}, b \in {48, 49}, c \in {48, 70}, d \in {48, 70}}
  \cup {<<92, 85, 55>> \o <<d, d, d, d, d, d, d>> : d \in {48, 70}}
  \cup {<<92, 117, 48, 48, 71, 48>>, <<92, 117, 48, 48, 48>>}

\* Characters: bytes of both signs, escapes, and texts around eight bytes.
Char_Texts ==
  (SeqOf({65, 48, 200}, 4) \ {<<>>})
  \cup {[n \in 1 .. k |-> IF n = j THEN c ELSE 65] : k \in 5 .. 10, j \in 1 .. 10, c \in {48, 200}}
  \cup {q \in Texts : q # <<>> /\ Len(q) <= 4}

MC_Programs ==
  {<<<<p, q>>, <<>>>> : p \in Texts \cup Hex_Texts, q \in Short_Texts \cup {<<92, 120, 52, 49>>}}
  \cup {<<<<q>>, <<q>>>> : q \in Rune_Texts}
  \cup {<<<<>>, <<q, <<65>>>>>> : q \in Char_Texts}
=============================================================================
