--------------------------- MODULE TableDecodeLoop ---------------------------
(***************************************************************************)
(* The strsep loop of table_static_alias and table_static_virtual          *)
(* (src/unnamed/part_000) written character by character, as the C code   *)
(* walks the value.  The runs check the set-level decoders of TableDecode, *)
(* which the table models use, against this loop, on the harness of      *)
(* TableDecodeHarness in which one lookup hands one stored value to one   *)
(* decoder.                                                                *)
(* This module declares RECURSIVE operators: it is only model-checked.    *)
(***************************************************************************)
EXTENDS TableDecodeHarness

-----------------------------------------------------------------------------
(* The loop of table_static_alias, lines 246-263, step by step.           *)

\* strsep(&line, ","): the first ',' at or after i, Len(line) + 1 if none.
RECURSIVE SepFrom(_, _)
SepFrom(s, i) == IF i > Len(s) \/ s[i] = "," THEN i ELSE SepFrom(s, i + 1)

\* while (isspace((int)*subrcpt)) ++subrcpt;  (stops at the '\0' strsep
\* wrote over the ',', which is not a space)
RECURSIVE SkipLeading(_, _)
SkipLeading(s, i) ==
  IF i <= Len(s) /\ s[i] = " " THEN SkipLeading(s, i + 1) ELSE i

\* while (subrcpt < endp && isspace((int)*endp)) *endp-- = '\0';
RECURSIVE SkipTrailing(_, _, _)
SkipTrailing(s, b, endp) ==
  IF b < endp /\ s[endp] = " " THEN SkipTrailing(s, b, endp - 1) ELSE endp

\* One pass of the while loop on the token that starts at position i, with
\* the nodes expand_insert has received so far; an empty token or one that
\* alias_parse refuses goes to error: with those nodes still in the struct.
RECURSIVE StrsepLoop(_, _, _)
StrsepLoop(s, i, nodes) ==
  LET e    == SepFrom(s, i)
      b    == SkipLeading(s, i)
      endp == SkipTrailing(s, b, e - 1)
      tok  == SubSeq(s, b, endp)
  IN  CASE b = e                -> [ok |-> FALSE, nodes |-> nodes]
        [] ~alias_parse(tok)    -> [ok |-> FALSE, nodes |-> nodes]
        [] e > Len(s)           -> [ok |-> TRUE, nodes |-> Append(nodes, tok)]
        [] OTHER                -> StrsepLoop(s, e + 1, Append(nodes, tok))

\* Mutant of LoopDecode: the error path frees the expansion but leaves
\* *retp pointing at the struct with the nodes inserted before the failure.
LoopDecodeKeepPartial(k, ky, s) ==
  LET r   == StrsepLoop(s, 1, << >>)
      rec == [expand |-> r.nodes, nbnodes |-> Len(r.nodes)]
  IN  CASE k = "K_VIRTUAL" /\ ~Contains(ky, "@") -> Result(1, NULL)
        [] r.ok                                   -> Result(1, rec)
        [] k = "K_ALIAS"                          -> Result(-1, rec)
        [] OTHER                                  -> Result(0, rec)

\* table_static_alias and table_static_virtual with the loop above: the
\* nodes of a failed loop are discarded at error: (*retp = NULL).
LoopDecode(k, ky, s) ==
  LET r   == StrsepLoop(s, 1, << >>)
      rec == [expand |-> r.nodes, nbnodes |-> Len(r.nodes)]
  IN  CASE k = "K_VIRTUAL" /\ ~Contains(ky, "@") -> Result(1, NULL)
        [] r.ok                                   -> Result(1, rec)
        [] k = "K_ALIAS"                          -> Result(-1, NULL)
        [] OTHER                                  -> Result(0, NULL)

-----------------------------------------------------------------------------
(* Properties.                                                             *)

\* The alias and virtual decoders of the model compute, for every value,
\* the result and the nodes that the strsep loop of table_static_alias /
\* table_static_virtual computes: the same tokens (empty ones included,
\* as after a trailing ','), the same whitespace trimming, and failure as
\* soon as one token is empty or refused by alias_parse.
ExpandDecodeIsLoop ==
  (out # NULL /\ kind \in {"K_ALIAS", "K_VIRTUAL"})
    => out = LoopDecode(kind, key, line)

=============================================================================
