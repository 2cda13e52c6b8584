------------------------- MODULE MCTableDecodeLoop -------------------------
(***************************************************************************)
(* Model values for TableDecodeLoop: every value of at most MaxLen         *)
(* characters over an alphabet holding a letter, the three separators the *)
(* decoders look for and one whitespace character.                         *)
(***************************************************************************)
EXTENDS TableDecodeLoop

\* The characters a value is made of.
MCChars == {"a", ":", ",", " ", "@"}

\* Longest value tried: one past MAX_LINE_SIZE - 1, so the length bound
\* of the credential decoder is reached.
MaxLen == 5

MCLines == SeqOf(MCChars, MaxLen)

\* A user key and a domain key.
MCKeys == {<<"a", "@", "a">>, <<"a">>}

\* alias_parse refuses a token with whitespace inside it.
MCAliasParse(tok) == ~Contains(tok, " ")

\* text_to_netaddr accepts a non-empty run of address characters.
MCNetaddr(s) == s # << >> /\ \A i \in 1 .. Len(s) : s[i] \in {"a", ":"}
=============================================================================
