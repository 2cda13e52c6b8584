------------------------- MODULE ParserCompleteness -------------------------
(***************************************************************************)
(* Completeness of parse()/match_token(): every command of the token      *)
(* tables written out in full is accepted, with its action and data.      *)
(*                                                                         *)
(* The argument has two parts.  The tables are such that a full keyword   *)
(* is a prefix of no other keyword of its table (GrammarPrefixFree, a     *)
(* fact about the string constants of parser.c lines 50-120 that TLC      *)
(* evaluates on every run of the parser and the provers cannot, strings   *)
(* being opaque to them), and a table with a VARIABLE entry has no other  *)
(* entry (proved from the tables).  So a word of a spelled command        *)
(* matches exactly the entry of its path (MatchUnique).  The loop         *)
(* invariant CInv then says that while parse() runs on a spelled command  *)
(* it walks that command's path and res is the result of the part walked. *)
(***************************************************************************)
EXTENDS ParserProofs, FiniteSetTheorems

\* In each table, a full keyword is a prefix of its own keyword and of no
\* other keyword of the table: strncmp(word, keyword, strlen(word)) on a
\* full keyword picks out one entry.
ASSUME GrammarPrefixFree ==
  \A t \in DOMAIN Grammar : \A i, j \in DOMAIN Grammar[t] :
    Grammar[t][i].type = "KEYWORD" /\ Grammar[t][j].type = "KEYWORD" =>
      (IsPrefix(Grammar[t][i].keyword, Grammar[t][j].keyword) <=> i = j)

\* The arguments of the command of path p consumed after n iterations.
Walked(p, n) == [j \in 1 .. n |-> p[j]]

\* The loop invariant of parse() on a command spelled in full: no error,
\* the loop is at the entry of the path the next argument spells, and res
\* is the result of the entries matched so far.
CInv ==
  \A p \in Paths : Spells(p, argv) =>
    /\ status # "error"
    /\ status = "loop" => Consumed < Len(p) /\ table = p[Consumed + 1][1]
    /\ status \in {"end", "ok"} => Consumed = Len(p)
    /\ res = PathResult(Walked(p, Consumed), argv)
-----------------------------------------------------------------------------
(* Lemmas about the token tables and paths.                               *)

\* A table with a VARIABLE entry has no other entry.
LEMMA VariableAlone ==
  ASSUME NEW t \in DOMAIN Grammar, NEW i \in DOMAIN Grammar[t],
         NEW j \in DOMAIN Grammar[t], Grammar[t][i].type = "VARIABLE"
  PROVE  i = j
<1> DEFINE Ok(tb) == \/ \A i2 \in DOMAIN Grammar[tb] : Grammar[tb][i2].type = "KEYWORD"
                    \/ DOMAIN Grammar[tb] = {1}
<1>1. Ok("t_main")  BY DEF Grammar, Tok
<1>2. Ok("t_remove")  BY DEF Grammar, Tok
<1>3. Ok("t_schedule_id")  BY DEF Grammar, Tok
<1>4. Ok("t_show")  BY DEF Grammar, Tok
<1>5. Ok("t_show_envelope")  BY DEF Grammar, Tok
<1>6. Ok("t_show_message")  BY DEF Grammar, Tok
<1>7. Ok("t_pause")  BY DEF Grammar, Tok
<1>8. Ok("t_resume")  BY DEF Grammar, Tok
<1>9. Ok("t_log")  BY DEF Grammar, Tok
<1>10. Ok("t_update")  BY DEF Grammar, Tok
<1>11. Ok("t_update_table")  BY DEF Grammar, Tok
<1>12. DOMAIN Grammar = {"t_main", "t_remove", "t_schedule_id", "t_show",
                         "t_show_envelope", "t_show_message", "t_pause",
                         "t_resume", "t_log", "t_update", "t_update_table"}
  BY DEF Grammar
<1> QED  BY <1>1, <1>2, <1>3, <1>4, <1>5, <1>6, <1>7, <1>8, <1>9, <1>10,
            <1>11, <1>12

\* A path of the tables: between one and three entries, each an entry of a
\* table, chained along the next pointers from t_main, none but the last
\* without a next table.
LEMMA PathFacts ==
  ASSUME NEW p \in Paths
  PROVE  /\ Len(p) \in 1 .. 3
         /\ p \in [1 .. Len(p) -> Steps]
         /\ p[1][1] = "t_main"
         /\ \A j \in 1 .. Len(p) :
              /\ p[j][1] \in DOMAIN Grammar
              /\ p[j][2] \in DOMAIN Grammar[p[j][1]]
              /\ Step(p[j]) = Grammar[p[j][1]][p[j][2]]
         /\ \A j \in 1 .. Len(p) - 1 :
              Step(p[j]).next = p[j + 1][1] /\ Step(p[j]).next # "NONE"
         /\ Step(p[Len(p)]).next = "NONE"
<1>1. PICK k \in 1 .. 3 :
        /\ p \in [1 .. k -> Steps]
        /\ p[1][1] = "t_main"
        /\ \A j \in 1 .. k - 1 : Step(p[j]).next = p[j + 1][1]
        /\ Step(p[k]).next = "NONE"
  BY DEF Paths
<1>2. Len(p) = k  BY <1>1, FnIsSeq
<1>3. \A j \in 1 .. k :
        /\ p[j][1] \in DOMAIN Grammar
        /\ p[j][2] \in DOMAIN Grammar[p[j][1]]
        /\ Step(p[j]) = Grammar[p[j][1]][p[j][2]]
  BY <1>1 DEF Steps, Step
<1>4. \A j \in 1 .. k - 1 : Step(p[j]).next # "NONE"
  BY <1>1, <1>3, GrammarShape
<1> QED  BY <1>1, <1>2, <1>3, <1>4

\* A word of a command spelled in full matches exactly the entry of the
\* command's path in the table it is matched in.
LEMMA MatchUnique ==
  ASSUME NEW p \in Paths, NEW a \in Seq(STRING), Spells(p, a),
         NEW j \in 1 .. Len(p)
  PROVE  Matching(a[j], p[j][1]) = {p[j][2]}
<1>1. PICK t \in DOMAIN Grammar : t = p[j][1]  BY PathFacts
<1>2. PICK i0 \in DOMAIN Grammar[t] : i0 = p[j][2]  BY <1>1, PathFacts
<1>3. /\ Fits(a[j], Grammar[t][i0])
      /\ Grammar[t][i0].type = "KEYWORD" => a[j] = Grammar[t][i0].keyword
  BY <1>1, <1>2, PathFacts DEF Spells, Accepts
<1>4. a[j] \in STRING /\ a[j] # NULL
  <2>1. j \in 1 .. Len(a)  BY DEF Spells, Accepts
  <2> QED  BY <2>1, NullAssumption
<1>5. \A i \in DOMAIN Grammar[t] : Grammar[t][i].type \in {"KEYWORD", "VARIABLE"}
  BY GrammarShape
<1>6. CASE Grammar[t][i0].type = "VARIABLE"
  <2>1. \A i \in DOMAIN Grammar[t] : i = i0  BY <1>6, VariableAlone
  <2>2. Matches(a[j], Grammar[t][i0])  BY <1>3, <1>6 DEF Fits, Matches
  <2> QED  BY <1>1, <1>2, <2>1, <2>2 DEF Matching
<1>7. CASE Grammar[t][i0].type = "KEYWORD"
  <2>1. ASSUME NEW i \in DOMAIN Grammar[t]
        PROVE  Matches(a[j], Grammar[t][i]) <=> i = i0
    <3>1. Grammar[t][i].type = "KEYWORD"
      <4>1. Grammar[t][i].type # "VARIABLE"  BY <1>7, VariableAlone
      <4> QED  BY <1>5, <4>1
    <3>2. Matches(a[j], Grammar[t][i]) <=> IsPrefix(a[j], Grammar[t][i].keyword)
      BY <1>4, <3>1 DEF Matches
    <3> QED  BY <1>3, <1>7, <3>1, <3>2, GrammarPrefixFree
  <2> QED  BY <1>1, <1>2, <2>1 DEF Matching
<1> QED  BY <1>5, <1>6, <1>7
\* The first c + 1 entries of a path are the first c and entry c + 1.
LEMMA WalkedExtend ==
  ASSUME NEW p, NEW c \in Nat
  PROVE  Walked(p, c + 1) =
           [j \in 1 .. c + 1 |-> IF j <= c THEN Walked(p, c)[j] ELSE p[c + 1]]
BY DEF Walked

-----------------------------------------------------------------------------
(* CInv is an invariant of the loop (together with PInv).                 *)

LEMMA CInvInit == Init => CInv
<1> SUFFICES ASSUME Init, NEW p \in Paths, Spells(p, argv)
             PROVE  /\ status # "error"
                    /\ status = "loop" => Consumed < Len(p) /\ table = p[Consumed + 1][1]
                    /\ status \in {"end", "ok"} => Consumed = Len(p)
                    /\ res = PathResult(Walked(p, Consumed), argv)
  BY DEF CInv
<1>1. argv \in Seq(STRING) /\ Consumed = 0  BY InputsAssumption DEF Init, Consumed
<1>2. Walked(p, 0) = <<>>  BY DEF Walked
<1>3. res = PathResult(<<>>, argv)  BY DEF Init, PathResult
<1> QED  BY <1>1, <1>2, <1>3, PathFacts DEF Init

LEMMA CInvNoMatch ==
  ASSUME PInv, CInv, NoMatch PROVE CInv'
<1> SUFFICES ASSUME NEW p \in Paths, Spells(p, argv) PROVE FALSE
  BY DEF CInv, NoMatch, Consumed
<1>1. argv \in Seq(STRING) /\ argc \in 0 .. Len(argv)  BY InputsAssumption DEF PInv
<1>2. Consumed < Len(p) /\ table = p[Consumed + 1][1]  BY DEF CInv, NoMatch
<1>3. Len(argv) = Len(p)  BY DEF Spells, Accepts
<1>4. Consumed + 1 \in 1 .. Len(p) /\ argc # 0  BY <1>1, <1>2, <1>3, PathFacts DEF Consumed
<1>5. Word = argv[Consumed + 1]  BY <1>1, <1>4 DEF Word, Consumed
<1>6. Matching(Word, table) = {p[Consumed + 1][2]}  BY <1>1, <1>2, <1>4, <1>5, MatchUnique
<1>7. Cardinality(Matching(Word, table)) = 1  BY <1>6, FS_Singleton
<1> QED  BY <1>7 DEF NoMatch, OneMatch

LEMMA CInvFinish ==
  ASSUME PInv, CInv, Finish PROVE CInv'
<1> SUFFICES ASSUME NEW p \in Paths, Spells(p, argv)
             PROVE  /\ status' # "error"
                    /\ status' \in {"end", "ok"} => Consumed' = Len(p)
                    /\ res' = PathResult(Walked(p, Consumed'), argv')
  BY DEF CInv, Finish
<1>1. argv \in Seq(STRING) /\ argc \in 0 .. Len(argv)  BY InputsAssumption DEF PInv
<1>2. Consumed = Len(p) /\ res = PathResult(Walked(p, Consumed), argv)  BY DEF CInv, Finish
<1>3. Len(argv) = Len(p)  BY DEF Spells, Accepts
<1>4. argc = 0  BY <1>1, <1>2, <1>3 DEF Consumed
<1> QED  BY <1>2, <1>4 DEF Finish, Consumed

LEMMA CInvStutter ==
  ASSUME CInv, UNCHANGED vars PROVE CInv'
BY DEF CInv, vars, Consumed
\* One iteration on a spelled command matches the next entry of its path.
LEMMA CInvMatchOne ==
  ASSUME PInv, CInv, MatchOne PROVE CInv'
<1> SUFFICES ASSUME NEW p \in Paths, Spells(p, argv)
             PROVE  /\ status' # "error"
                    /\ status' = "loop" => Consumed' < Len(p) /\ table' = p[Consumed' + 1][1]
                    /\ status' \in {"end", "ok"} => Consumed' = Len(p)
                    /\ res' = PathResult(Walked(p, Consumed'), argv')
  BY DEF CInv, MatchOne
<1>0. /\ argv \in Seq(STRING) /\ argc \in 0 .. Len(argv)
      /\ status = "loop" /\ argv' = argv
  BY InputsAssumption DEF PInv, MatchOne
<1>a. res.data = NULL
  <2>1. PICK pp \in [1 .. Consumed -> Steps] : Prefix(pp)  BY <1>0 DEF PInv
  <2> QED  BY <1>0, <2>1 DEF Prefix
<1>c. PICK c : c = Consumed  OBVIOUS
<1> USE <1>c
<1>1. c < Len(p) /\ table = p[c + 1][1]  BY <1>0 DEF CInv
<1>r. res = PathResult(Walked(p, c), argv)  BY DEF CInv
<1>2. /\ Len(argv) = Len(p) /\ c \in 0 .. 2 /\ c + 1 \in 1 .. Len(p)
      /\ argc = Len(p) - c /\ argc # 0
  <2>1. PICK n \in 1 .. 3 : n = Len(p)  BY PathFacts
  <2>2. Len(argv) = n  BY <2>1 DEF Spells, Accepts
  <2>3. c = n - argc  BY <2>2 DEF Consumed
  <2>4. argc \in 0 .. n /\ c < n  BY <1>0, <1>1, <2>1, <2>2
  <2>5. Len(argv) = Len(p)  BY <2>1, <2>2
  <2>6. c \in 0 .. 2  BY <2>1, <2>3, <2>4 DEF Consumed
  <2>7. c + 1 \in 1 .. Len(p)  BY <2>1, <2>3, <2>4
  <2>8. argc = Len(p) - c /\ argc # 0  BY <2>1, <2>3, <2>4
  <2> QED  BY <2>5, <2>6, <2>7, <2>8
<1>3. Word = argv[c + 1]  BY <1>0, <1>2 DEF Word, Consumed
<1>4. Matching(Word, table) = {p[c + 1][2]}  BY <1>0, <1>1, <1>2, <1>3, MatchUnique
<1>5. PICK i \in Matching(Word, table) :
        /\ res' = Record(res, Grammar[table][i], Word)
        /\ argc' = argc - 1
        /\ IF Grammar[table][i].type = "NOTOKEN" \/ Grammar[table][i].next = "NONE"
             THEN status' = "end" /\ table' = table
             ELSE /\ table' = Grammar[table][i].next
                  /\ status' = IF argc - 1 >= 0 THEN "loop" ELSE "end"
  BY DEF MatchOne
<1> DEFINE tk == Grammar[table][i]
<1>6. i = p[c + 1][2] /\ tk = Step(p[c + 1]) /\ p[c + 1] \in Steps
  BY <1>1, <1>2, <1>4, <1>5, PathFacts
<1>7. tk.type \in {"KEYWORD", "VARIABLE"}  BY <1>1, <1>2, <1>6, PathFacts, GrammarShape
<1>8. Consumed' = c + 1  BY <1>0, <1>2, <1>5 DEF Consumed
<1>9. res' = PathResult(Walked(p, c + 1), argv)
  <2>0. Walked(p, c) \in [1 .. c -> Steps]  BY <1>2, PathFacts DEF Walked
  <2>a. PICK av : av = argv  OBVIOUS
  <2>b. PICK s0 : s0 = p[c + 1]  OBVIOUS
  <2>c. PICK wc : wc = Walked(p, c)  OBVIOUS
  <2>d. PICK wq : wq = Walked(p, c + 1)  OBVIOUS
  <2>e. wq = [j \in 1 .. c + 1 |-> IF j <= c THEN wc[j] ELSE s0]
    BY <1>2, <2>b, <2>c, <2>d DEF Walked
  <2>f. c \in Nat /\ wc \in [1 .. c -> Steps] /\ s0 \in Steps
    BY <1>2, <1>6, <2>0, <2>b, <2>c
  <2>g. PathResult(wq, av) =
          IF Step(s0).value = "NONE" THEN PathResult(wc, av)
          ELSE [action |-> Step(s0).value,
                data   |-> IF Step(s0).type = "VARIABLE" THEN av[c + 1] ELSE NULL]
    BY <2>e, <2>f, PathResultExtend
  <2> QED  BY <1>r, <1>3, <1>5, <1>6, <1>a, <2>a, <2>b, <2>c, <2>d, <2>g DEF Record
<1>10. CASE tk.next = "NONE"
  <2>1. status' = "end"  BY <1>5, <1>10
  <2>2. c + 1 = Len(p)
    <3>1. SUFFICES ASSUME c + 1 \in 1 .. Len(p) - 1 PROVE FALSE  BY <1>2
    <3> QED  BY <1>6, <1>10, <3>1, PathFacts
  <2> QED  BY <1>0, <1>8, <1>9, <2>1, <2>2
<1>11. CASE tk.next # "NONE"
  <2>1. c + 1 \in 1 .. Len(p) - 1
    <3>1. c + 1 # Len(p)  BY <1>6, <1>11, PathFacts
    <3> QED  BY <1>2, <3>1
  <2>2. table' = tk.next  BY <1>5, <1>7, <1>11
  <2>3. tk.next = p[c + 2][1]
    <3>1. \A j \in 1 .. Len(p) - 1 : Step(p[j]).next = p[j + 1][1]  BY PathFacts
    <3>2. Step(p[c + 1]).next = p[c + 1 + 1][1]  BY <2>1, <3>1
    <3> QED  BY <1>2, <1>6, <3>2
  <2>4. status' = "loop"  BY <1>2, <1>5, <1>7, <1>11
  <2> QED  BY <1>0, <1>2, <1>8, <1>9, <2>1, <2>2, <2>3, <2>4
<1> QED  BY <1>10, <1>11
LEMMA CInvNext ==
  ASSUME PInv, CInv, [Next]_vars PROVE CInv'
BY CInvNoMatch, CInvMatchOne, CInvFinish, CInvStutter DEF Next

\* The loop invariant gives the final answer on a spelled command.
LEMMA CInvComplete ==
  ASSUME CInv PROVE FullCommandsParse
<1> SUFFICES ASSUME NEW p \in Paths, status \in {"ok", "error"}, Spells(p, argv)
             PROVE  status = "ok" /\ res = PathResult(p, argv)
  BY DEF FullCommandsParse
<1>1. status = "ok" /\ Consumed = Len(p) /\ res = PathResult(Walked(p, Consumed), argv)
  BY DEF CInv
<1>2. Walked(p, Len(p)) = p  BY PathFacts DEF Walked
<1> QED  BY <1>1, <1>2

-----------------------------------------------------------------------------
\* Every command of the token tables written out in full, keywords spelled
\* out and variables non-empty, makes parse() return that command's action
\* and data: a keyword is never cut off by a sibling keyword and a variable
\* never shadows a keyword (the run parser checks this on every vector of
\* up to three words; this holds for every argument vector).
THEOREM FullCommandsParseProved == Spec => []FullCommandsParse
<1>1. Init => PInv /\ CInv  BY PInvInit, CInvInit
<1>2. PInv /\ CInv /\ [Next]_vars => (PInv /\ CInv)'  BY PInvNext, CInvNext
<1>3. CInv => FullCommandsParse  BY CInvComplete
<1> QED  BY <1>1, <1>2, <1>3, PTL DEF Spec
=============================================================================
