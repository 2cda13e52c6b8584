---------------------------- MODULE ParserProofs ----------------------------
(***************************************************************************)
(* Proofs about parse()/match_token(): what smtpctl accepts is a command   *)
(* of the token tables, for every argument vector.                         *)
(*                                                                         *)
(* ParseSound is about the final state only.  The inductive invariant     *)
(* PInv says what holds after every iteration of the loop: the arguments  *)
(* consumed so far spell a chain of table entries from t_main along the   *)
(* next pointers (Prefix), the table the next argument is matched in is   *)
(* the last entry's next table, res is the result of that chain, and     *)
(* each consumed argument matched its entry and no other of its table.    *)
(***************************************************************************)
EXTENDS Parser, WellFoundedInduction, FiniteSetTheorems, TLAPS

\* The tables by their depth from t_main.
Level == << {"t_main"},
            {"t_schedule_id", "t_show", "t_pause", "t_remove", "t_resume",
             "t_log", "t_update"},
            {"t_show_envelope", "t_show_message", "t_update_table"} >>

\* How many arguments the loop has consumed.
Consumed == Len(argv) - argc

\* Each consumed argument matched the entry of pp and no other of its table.
MatchedAlone(pp) == \A j \in 1 .. Consumed : Matching(argv[j], pp[j][1]) = {pp[j][2]}

\* pp, with one entry per consumed argument, is the chain the loop walked.
Prefix(pp) ==
  /\ Consumed > 0 => pp[1][1] = "t_main"
  /\ \A j \in 1 .. Consumed - 1 : Step(pp[j]).next = pp[j + 1][1]
  /\ \A j \in 1 .. Consumed : Fits(argv[j], Step(pp[j]))
  /\ MatchedAlone(pp)
  /\ status = "loop" =>
       /\ Consumed <= 2
       /\ table \in Level[Consumed + 1]
       /\ Consumed = 0 => table = "t_main"
       /\ Consumed > 0 => Step(pp[Consumed]).next = table
       /\ res.data = NULL
  /\ status \in {"end", "ok"} =>
       /\ Consumed \in 1 .. 3
       /\ Step(pp[Consumed]).next = "NONE"
  /\ status = "ok" => argc = 0

\* The loop invariant of parse(): argv is one of the inputs and argc counts
\* down within it; until match_token fails, the consumed arguments spell a
\* chain of table entries from t_main and res is that chain's action and
\* data.
PInv ==
  /\ argv \in Inputs
  /\ argc \in 0 .. Len(argv)
  /\ status \in {"loop", "end", "ok", "error"}
  /\ status # "error" =>
       \E pp \in [1 .. Consumed -> Steps] : Prefix(pp) /\ res = PathResult(pp, argv)
-----------------------------------------------------------------------------
(* Lemmas about the operators of the model.                               *)

\* A function on 1 .. n is a sequence of length n.
LEMMA FnIsSeq ==
  ASSUME NEW S, NEW n \in Nat, NEW f \in [1 .. n -> S]
  PROVE  f \in Seq(S) /\ Len(f) = n
BY SMT

\* The shape of the token tables of parser.c: only KEYWORD and VARIABLE
\* entries, a VARIABLE entry ends a command, and every next pointer leads
\* one level down, the tables of the third level ending every command.
LEMMA GrammarShape ==
  /\ DOMAIN Grammar = Level[1] \cup Level[2] \cup Level[3]
  /\ "NONE" \notin DOMAIN Grammar
  /\ \A t \in DOMAIN Grammar : \A i \in DOMAIN Grammar[t] :
       /\ Grammar[t][i].type \in {"KEYWORD", "VARIABLE"}
       /\ Grammar[t][i].type = "VARIABLE" => Grammar[t][i].next = "NONE"
  /\ \A n \in 1 .. 2 : \A t \in Level[n] : \A i \in DOMAIN Grammar[t] :
       Grammar[t][i].next \in Level[n + 1] \cup {"NONE"}
  /\ \A t \in Level[3] : \A i \in DOMAIN Grammar[t] : Grammar[t][i].next = "NONE"
<1> DEFINE Ok(t, nexts) ==
       \A i \in DOMAIN Grammar[t] :
         /\ Grammar[t][i].type \in {"KEYWORD", "VARIABLE"}
         /\ Grammar[t][i].type = "VARIABLE" => Grammar[t][i].next = "NONE"
         /\ Grammar[t][i].next \in nexts
<1>1. DOMAIN Grammar = Level[1] \cup Level[2] \cup Level[3]  BY DEF Grammar, Level
<1>2. Ok("t_main", Level[2] \cup {"NONE"})  BY DEF Grammar, Tok, Level
<1>3. Ok("t_schedule_id", {"NONE"})  BY DEF Grammar, Tok, Level
<1>4. Ok("t_show", Level[3] \cup {"NONE"})  BY DEF Grammar, Tok, Level
<1>5. Ok("t_remove", {"NONE"})  BY DEF Grammar, Tok, Level
<1>6. Ok("t_show_envelope", {"NONE"})  BY DEF Grammar, Tok, Level
<1>7. Ok("t_show_message", {"NONE"})  BY DEF Grammar, Tok, Level
<1>8. Ok("t_pause", {"NONE"})  BY DEF Grammar, Tok, Level
<1>9. Ok("t_resume", {"NONE"})  BY DEF Grammar, Tok, Level
<1>10. Ok("t_log", {"NONE"})  BY DEF Grammar, Tok, Level
<1>11. Ok("t_update", Level[3] \cup {"NONE"})  BY DEF Grammar, Tok, Level
<1>12. Ok("t_update_table", {"NONE"})  BY DEF Grammar, Tok, Level
<1> QED  BY <1>1, <1>2, <1>3, <1>4, <1>5, <1>6, <1>7, <1>8, <1>9, <1>10, <1>11, <1>12 DEF Level

\* An entry of a table, named by table and index, is a step of a path.
LEMMA StepsMember ==
  ASSUME NEW t \in DOMAIN Grammar, NEW i \in DOMAIN Grammar[t]
  PROVE  <<t, i>> \in Steps /\ Step(<<t, i>>) = Grammar[t][i]
BY DEF Steps, Step

\* A non-empty set of positions 1 .. c has a greatest element.
LEMMA BoundedNatSetMax ==
  ASSUME NEW c \in Nat, NEW V \in SUBSET (1 .. c), V # {}
  PROVE  \E m \in V : \A j \in V : j <= m
<1> DEFINE T == {c - j : j \in V}
<1>1. T \in SUBSET Nat /\ T # {}
  <2>1. \A j \in V : c - j \in Nat  OBVIOUS
  <2> QED  BY <2>1
<1>2. PICK x \in T : \A y \in T : ~(<<y, x>> \in OpToRel(<, Nat))
  BY <1>1, NatLessThanWellFounded, WFMin
<1>3. \A y \in T : x <= y
  <2> TAKE y \in T
  <2>1. <<y, x>> \in OpToRel(<, Nat) <=> y < x  BY <1>1 DEF OpToRel
  <2>2. ~(y < x)  BY <1>2, <2>1
  <2> QED  BY <2>2, <1>1
<1>4. PICK m \in V : x = c - m  OBVIOUS
<1>5. \A j \in V : j <= m
  <2> TAKE j \in V
  <2>1. c - j \in T  OBVIOUS
  <2>2. x <= c - j  BY <1>3, <2>1
  <2> QED  BY <1>4, <2>2
<1> QED  BY <1>5

\* Walking one more entry s: the result is that of the entry when it has a
\* value (with the word when it is a VARIABLE), else the earlier result.
LEMMA PathResultExtend ==
  ASSUME NEW c \in Nat, NEW pp \in [1 .. c -> Steps], NEW s \in Steps, NEW a,
         NEW q, q = [j \in 1 .. c + 1 |-> IF j <= c THEN pp[j] ELSE s]
  PROVE  PathResult(q, a) =
           IF Step(s).value = "NONE" THEN PathResult(pp, a)
           ELSE [action |-> Step(s).value,
                 data   |-> IF Step(s).type = "VARIABLE" THEN a[c + 1] ELSE NULL]
<1>1. Len(pp) = c /\ Len(q) = c + 1
  <2>1. q \in [1 .. c + 1 -> Steps]  OBVIOUS
  <2> QED  BY <2>1, FnIsSeq
<1> DEFINE Vq == {j \in 1 .. Len(q) : Step(q[j]).value # "NONE"}
           Vp == {j \in 1 .. Len(pp) : Step(pp[j]).value # "NONE"}
           LastOf(V) == CHOOSE j \in V : \A j2 \in V : j2 <= j
<1>2. PathResult(q, a) =
        IF Vq = {} THEN [action |-> "NONE", data |-> NULL]
        ELSE [action |-> Step(q[LastOf(Vq)]).value,
              data   |-> IF Step(q[LastOf(Vq)]).type = "VARIABLE" THEN a[LastOf(Vq)] ELSE NULL]
  BY DEF PathResult
<1>3. PathResult(pp, a) =
        IF Vp = {} THEN [action |-> "NONE", data |-> NULL]
        ELSE [action |-> Step(pp[LastOf(Vp)]).value,
              data   |-> IF Step(pp[LastOf(Vp)]).type = "VARIABLE" THEN a[LastOf(Vp)] ELSE NULL]
  BY DEF PathResult
<1> HIDE DEF LastOf
<1>4. CASE Step(s).value = "NONE"
  <2>1. Vq = Vp  BY <1>1, <1>4
  <2>2. Vp # {} => LastOf(Vp) \in 1 .. c
    <3>1. ASSUME Vp # {} PROVE LastOf(Vp) \in Vp
      <4>0. Vp \in SUBSET (1 .. c)  BY <1>1
      <4>1. \E m \in Vp : \A j2 \in Vp : j2 <= m  BY <3>1, <4>0, BoundedNatSetMax
      <4> QED  BY <4>1, Zenon DEF LastOf
    <3> QED  BY <3>1, <1>1
  <2>3. Vp # {} => q[LastOf(Vp)] = pp[LastOf(Vp)]  BY <2>2
  <2>4. Vp = {} => PathResult(q, a) = PathResult(pp, a)  BY <1>2, <1>3, <2>1
  <2>5. ASSUME Vp # {} PROVE PathResult(q, a) = PathResult(pp, a)
    <3>1. LastOf(Vq) = LastOf(Vp)  BY <2>1, Zenon
    <3>2. Step(q[LastOf(Vq)]) = Step(pp[LastOf(Vp)])  BY <3>1, <2>3, <2>5
    <3>3. Vq # {}  BY <2>1, <2>5
    <3>4. PICK L : L = LastOf(Vp)  OBVIOUS
    <3>5. PathResult(q, a) =
            [action |-> Step(q[L]).value,
             data   |-> IF Step(q[L]).type = "VARIABLE" THEN a[L] ELSE NULL]
      BY <1>2, <3>1, <3>3, <3>4
    <3>6. PathResult(pp, a) =
            [action |-> Step(pp[L]).value,
             data   |-> IF Step(pp[L]).type = "VARIABLE" THEN a[L] ELSE NULL]
      BY <1>3, <2>5, <3>4
    <3>7. Step(q[L]) = Step(pp[L])  BY <3>1, <3>2, <3>4, Zenon
    <3> QED  BY <3>5, <3>6, <3>7
  <2> QED  BY <1>4, <2>4, <2>5
<1>5. CASE Step(s).value # "NONE"
  <2>1. c + 1 \in Vq  BY <1>1, <1>5
  <2>2. LastOf(Vq) = c + 1
    <3>1. \A j2 \in Vq : j2 <= c + 1  BY <1>1
    <3>0. \E j \in Vq : \A j2 \in Vq : j2 <= j  BY <2>1, <3>1
    <3>a. PICK L : L = LastOf(Vq)  OBVIOUS
    <3>2. \A j2 \in Vq : j2 <= L  BY <3>0, <3>a, Zenon DEF LastOf
    <3>3. L \in Vq  BY <3>0, <3>a, Zenon DEF LastOf
    <3>4. L \in 1 .. c + 1  BY <3>3, <1>1
    <3>5. c + 1 <= L  BY <2>1, <3>2
    <3>6. L = c + 1  BY <3>4, <3>5
    <3> QED  BY <3>a, <3>6, Zenon
  <2>3. q[c + 1] = s  OBVIOUS
  <2> QED  BY <1>2, <1>5, <2>1, <2>2, <2>3
<1> QED  BY <1>4, <1>5

\* Every table of parser.c has finitely many entries, numbered from 1.
LEMMA TableDomains ==
  \A t \in DOMAIN Grammar : DOMAIN Grammar[t] \in {1 .. 1, 1 .. 2, 1 .. 3, 1 .. 4, 1 .. 10}
<1>1. DOMAIN Grammar["t_main"] = 1 .. 10  BY DEF Grammar, Tok
<1>2. \A t \in {"t_remove", "t_schedule_id", "t_show_envelope", "t_show_message",
                "t_update", "t_update_table"} : DOMAIN Grammar[t] = 1 .. 1
  BY DEF Grammar, Tok
<1>3. DOMAIN Grammar["t_show"] = 1 .. 4  BY DEF Grammar, Tok
<1>4. \A t \in {"t_pause", "t_resume"} : DOMAIN Grammar[t] = 1 .. 3  BY DEF Grammar, Tok
<1>5. DOMAIN Grammar["t_log"] = 1 .. 2  BY DEF Grammar, Tok
<1>6. DOMAIN Grammar = {"t_main", "t_remove", "t_schedule_id", "t_show_envelope",
                        "t_show_message", "t_update", "t_update_table", "t_show",
                        "t_pause", "t_resume", "t_log"}
  BY DEF Grammar
<1> QED  BY <1>1, <1>2, <1>3, <1>4, <1>5, <1>6

\* The entries of a table are finitely many, so the one match of a word is
\* the only element of its matches.
LEMMA OneMatchSingleton ==
  ASSUME NEW w, NEW t \in DOMAIN Grammar, NEW i \in Matching(w, t), OneMatch(w, t)
  PROVE  Matching(w, t) = {i}
<1>1. PICK n \in Nat : DOMAIN Grammar[t] = 1 .. n  BY TableDomains
<1>2. IsFiniteSet(1 .. n)  BY FS_Interval
<1>3. IsFiniteSet(DOMAIN Grammar[t])  BY <1>1, <1>2, Zenon
<1>4. IsFiniteSet(Matching(w, t))  BY <1>3, FS_Subset DEF Matching
<1>5. PICK x : Matching(w, t) = {x}  BY <1>4, FS_Singleton DEF OneMatch
<1> QED  BY <1>5

\* A word that stands for the entry of a step is one of that table's matches.
LEMMA FitsMatching ==
  ASSUME NEW w \in STRING, NEW s \in Steps, Fits(w, Step(s))
  PROVE  s = <<s[1], s[2]>> /\ s[2] \in Matching(w, s[1])
<1>0. PICK t \in DOMAIN Grammar : \E i \in DOMAIN Grammar[t] : s = <<t, i>>  BY DEF Steps
<1>1. PICK i \in DOMAIN Grammar[t] : s = <<t, i>>  BY <1>0
<1>2. Grammar[t][i].type \in {"KEYWORD", "VARIABLE"}  BY GrammarShape
<1>3. w # NULL  BY NullAssumption
<1> QED  BY <1>1, <1>2, <1>3 DEF Fits, Matches, Matching, Step

\* Two chains from t_main along the next pointers that the same arguments
\* stand for, the second matching each argument alone in its table, are
\* the same chain.
LEMMA SameChain ==
  ASSUME NEW a \in Seq(STRING), NEW n \in 1 .. 3, n <= Len(a),
         NEW p \in [1 .. n -> Steps], NEW r \in [1 .. n -> Steps],
         p[1][1] = "t_main", r[1][1] = "t_main",
         \A j \in 1 .. n - 1 : Step(p[j]).next = p[j + 1][1],
         \A j \in 1 .. n - 1 : Step(r[j]).next = r[j + 1][1],
         \A j \in 1 .. n : Fits(a[j], Step(p[j])),
         \A j \in 1 .. n : Matching(a[j], r[j][1]) = {r[j][2]}
  PROVE  p = r
<1>1. ASSUME NEW j \in 1 .. n, p[j][1] = r[j][1] PROVE p[j] = r[j]
  <2>1. a[j] \in STRING  OBVIOUS
  <2>2. p[j] = <<p[j][1], p[j][2]>> /\ p[j][2] \in Matching(a[j], p[j][1])
    BY <2>1, FitsMatching
  <2>3. r[j] = <<r[j][1], r[j][2]>>  BY DEF Steps
  <2> QED  BY <1>1, <2>2, <2>3
<1>2. p[1] = r[1]  BY <1>1
<1>3. n >= 2 => p[2] = r[2]  BY <1>1, <1>2
<1>4. n >= 3 => p[3] = r[3]  BY <1>1, <1>3
<1>5. \A j \in 1 .. n : p[j] = r[j]  BY <1>2, <1>3, <1>4
<1> QED  BY <1>5

-----------------------------------------------------------------------------
(* PInv is inductive.                                                      *)

LEMMA PInvInit == Init => PInv
<1> SUFFICES ASSUME Init PROVE PInv  OBVIOUS
<1>1. argv \in Seq(STRING) /\ Consumed = 0
  BY InputsAssumption DEF Init, Consumed
<1>2. <<>> \in [1 .. Consumed -> Steps]  BY <1>1
<1>3. Prefix(<<>>)  BY <1>1 DEF Prefix, MatchedAlone, Init, Level
<1>4. res = PathResult(<<>>, argv)  BY DEF Init, PathResult
<1>5. \E pp \in [1 .. Consumed -> Steps] : Prefix(pp) /\ res = PathResult(pp, argv)
  BY <1>2, <1>3, <1>4, Zenon
<1>6. argc \in 0 .. Len(argv)  BY <1>1 DEF Init
<1> QED  BY <1>5, <1>6 DEF PInv, Init

LEMMA PInvNoMatch ==
  ASSUME PInv, NoMatch PROVE PInv'
BY DEF PInv, NoMatch

LEMMA PInvFinish ==
  ASSUME PInv, Finish PROVE PInv'
<1>1. PICK pp \in [1 .. Consumed -> Steps] : Prefix(pp) /\ res = PathResult(pp, argv)
  BY DEF PInv, Finish
<1>2. Consumed' = Consumed  BY DEF Finish, Consumed
<1>3. Prefix(pp)'
  <2>1. /\ status = "end"
        /\ argv' = argv /\ argc' = argc /\ table' = table /\ res' = res
        /\ status' = IF argc > 0 THEN "error" ELSE "ok"
    BY DEF Finish
  <2>2. /\ Consumed \in 1 .. 3
        /\ Step(pp[Consumed]).next = "NONE"
        /\ Consumed > 0 => pp[1][1] = "t_main"
        /\ \A j \in 1 .. Consumed - 1 : Step(pp[j]).next = pp[j + 1][1]
        /\ \A j \in 1 .. Consumed : Fits(argv[j], Step(pp[j]))
    BY <1>1, <2>1 DEF Prefix
  <2>4. MatchedAlone(pp)'  BY <1>1, <2>1 DEF Prefix, MatchedAlone, Consumed
  <2>3. status' \in {"ok", "error"} /\ (status' = "ok" => argc' = 0)  BY <2>1 DEF PInv
  <2> QED  BY <1>2, <2>1, <2>2, <2>3, <2>4 DEF Prefix
<1> QED  BY <1>1, <1>2, <1>3 DEF PInv, Finish

LEMMA PInvStutter ==
  ASSUME PInv, UNCHANGED vars PROVE PInv'
<1>1. status # "error" =>
        \E pp \in [1 .. Consumed -> Steps] : Prefix(pp) /\ res = PathResult(pp, argv)
  BY DEF PInv
<1>2. ASSUME NEW pp, Prefix(pp) PROVE Prefix(pp)'
  <2>1. MatchedAlone(pp)'  BY <1>2 DEF Prefix, MatchedAlone, vars, Consumed
  <2> QED  BY <1>2, <2>1 DEF Prefix, vars, Consumed
<1>3. Consumed' = Consumed  BY DEF vars, Consumed
<1> QED  BY <1>1, <1>2, <1>3 DEF PInv, vars

\* One iteration that matches: the chain grows by the matched entry.
LEMMA PInvMatchOne ==
  ASSUME PInv, MatchOne PROVE PInv'
<1>0. /\ argv \in Seq(STRING) /\ argc \in 0 .. Len(argv) /\ argv \in Inputs
      /\ status = "loop" /\ argv' = argv
  BY InputsAssumption DEF PInv, MatchOne
<1>1. PICK pp \in [1 .. Consumed -> Steps] : Prefix(pp) /\ res = PathResult(pp, argv)
  BY <1>0 DEF PInv
<1>c. PICK c : c = Consumed  OBVIOUS
<1> USE <1>c
<1>2. /\ c \in 0 .. 2
      /\ table \in Level[c + 1]
      /\ c = 0 => table = "t_main"
      /\ c > 0 => Step(pp[c]).next = table
      /\ c > 0 => pp[1][1] = "t_main"
      /\ \A j \in 1 .. c - 1 : Step(pp[j]).next = pp[j + 1][1]
      /\ \A j \in 1 .. c : Fits(argv[j], Step(pp[j]))
      /\ res.data = NULL
  BY <1>0, <1>1 DEF Prefix, Consumed
<1>2b. \A j \in 1 .. c : Matching(argv[j], pp[j][1]) = {pp[j][2]}
  BY <1>0, <1>1 DEF Prefix, MatchedAlone, Consumed
<1>3. table \in DOMAIN Grammar  BY <1>2, GrammarShape
<1>4. PICK i \in Matching(Word, table) :
        /\ OneMatch(Word, table)
        /\ res' = Record(res, Grammar[table][i], Word)
        /\ argc' = argc - 1
        /\ IF Grammar[table][i].type = "NOTOKEN" \/ Grammar[table][i].next = "NONE"
             THEN status' = "end" /\ table' = table
             ELSE /\ table' = Grammar[table][i].next
                  /\ status' = IF argc - 1 >= 0 THEN "loop" ELSE "end"
  BY DEF MatchOne
<1> DEFINE tk == Grammar[table][i]
<1>5. i \in DOMAIN Grammar[table] /\ Matches(Word, tk)  BY <1>4 DEF Matching
<1>6. /\ tk.type \in {"KEYWORD", "VARIABLE"}
      /\ tk.type = "VARIABLE" => tk.next = "NONE"
  BY <1>3, <1>5, GrammarShape
<1>7. argc # 0  BY <1>5, <1>6 DEF Word, Matches
<1>8. Word = argv[c + 1]  BY <1>0, <1>7 DEF Word, Consumed
<1>9. Fits(argv[c + 1], tk)  BY <1>5, <1>6, <1>8 DEF Matches, Fits
<1>10. Consumed' = c + 1  BY <1>0, <1>4, <1>7 DEF Consumed
<1>11. <<table, i>> \in Steps /\ Step(<<table, i>>) = tk  BY <1>3, <1>5, StepsMember
<1>s. PICK s0 : s0 = <<table, i>>  OBVIOUS
<1>12. PICK q : q = [j \in 1 .. c + 1 |-> IF j <= c THEN pp[j] ELSE s0]
  BY <1>s
<1>13. q \in [1 .. c + 1 -> Steps]  BY <1>1, <1>2, <1>11, <1>12, <1>s
<1>14. res' = PathResult(q, argv)
  <2>0. c \in Nat /\ pp \in [1 .. c -> Steps]  BY <1>1, <1>2
  <2>a. PICK av : av = argv  OBVIOUS
  <2>b. s0 \in Steps  BY <1>11, <1>s
  <2>c. PathResult(q, av) =
          IF Step(s0).value = "NONE" THEN PathResult(pp, av)
          ELSE [action |-> Step(s0).value,
                data   |-> IF Step(s0).type = "VARIABLE" THEN av[c + 1] ELSE NULL]
    BY <2>0, <2>b, <1>12, PathResultExtend
  <2>1. PathResult(q, argv) =
          IF tk.value = "NONE" THEN PathResult(pp, argv)
          ELSE [action |-> tk.value,
                data   |-> IF tk.type = "VARIABLE" THEN argv[c + 1] ELSE NULL]
    BY <2>a, <2>c, <1>11, <1>s
  <2> QED  BY <1>1, <1>2, <1>4, <1>8, <2>1 DEF Record
<1>15. c + 1 > 0 => q[1][1] = "t_main"  BY <1>2, <1>12, <1>s
<1>16. \A j \in 1 .. c : Step(q[j]).next = q[j + 1][1]  BY <1>2, <1>12, <1>s
<1>18. Step(q[c + 1]) = tk  BY <1>2, <1>11, <1>12, <1>s
<1>17. \A j \in 1 .. c + 1 : Fits(argv'[j], Step(q[j]))
  <2>1. \A j \in 1 .. c : q[j] = pp[j]  BY <1>2, <1>12
  <2>2. \A j \in 1 .. c : Fits(argv[j], Step(q[j]))  BY <1>2, <2>1
  <2>3. Fits(argv[c + 1], Step(q[c + 1]))  BY <1>9, <1>18
  <2> QED  BY <1>0, <1>2, <2>2, <2>3
<1>u. \A j \in 1 .. c + 1 : Matching(argv'[j], q[j][1]) = {q[j][2]}
  <2>1. Matching(Word, table) = {i}  BY <1>3, <1>4, OneMatchSingleton
  <2>2. q[c + 1] = <<table, i>>  BY <1>2, <1>12, <1>s
  <2>3. Matching(argv[c + 1], q[c + 1][1]) = {q[c + 1][2]}  BY <1>8, <2>1, <2>2
  <2>4. \A j \in 1 .. c : q[j] = pp[j]  BY <1>2, <1>12
  <2>5. \A j \in 1 .. c : Matching(argv[j], q[j][1]) = {q[j][2]}  BY <1>2b, <2>4
  <2>6. \A j \in 1 .. c + 1 : Matching(argv[j], q[j][1]) = {q[j][2]}
    BY <1>2, <2>3, <2>5
  <2> QED  BY <1>0, <2>6
<1>v. MatchedAlone(q)'
  BY <1>u, <1>10 DEF MatchedAlone
<1>19. argv' \in Inputs /\ argc' \in 0 .. Len(argv')  BY <1>0, <1>4, <1>7
<1>20. CASE tk.next = "NONE"
  <2>1. status' = "end"  BY <1>4, <1>20
  <2>2. Prefix(q)'
    BY <1>2, <1>10, <1>15, <1>16, <1>17, <1>18, <1>v, <1>20, <2>1 DEF Prefix
  <2>3. \E pp2 \in [1 .. Consumed' -> Steps] : Prefix(pp2)' /\ res' = PathResult(pp2, argv')
    BY <1>0, <1>10, <1>13, <1>14, <2>2, Zenon
  <2> QED  BY <1>19, <2>1, <2>3 DEF PInv
<1>21. CASE tk.next # "NONE"
  <2>1. status' = "loop" /\ table' = tk.next  BY <1>0, <1>4, <1>6, <1>7, <1>21
  <2>2. c \in 0 .. 1 /\ table' \in Level[c + 2]
    <3>1. c # 2  BY <1>2, <1>5, <1>21, GrammarShape
    <3>2. c + 1 \in 1 .. 2  BY <1>2, <3>1
    <3> QED  BY <1>2, <1>5, <1>21, <2>1, <3>1, <3>2, GrammarShape
  <2>3. res'.data = NULL  BY <1>2, <1>4, <1>6, <1>21 DEF Record
  <2>4. Prefix(q)'
    BY <1>10, <1>15, <1>16, <1>17, <1>18, <1>v, <2>1, <2>2, <2>3 DEF Prefix
  <2>5. \E pp2 \in [1 .. Consumed' -> Steps] : Prefix(pp2)' /\ res' = PathResult(pp2, argv')
    BY <1>0, <1>10, <1>13, <1>14, <2>4, Zenon
  <2> QED  BY <1>19, <2>1, <2>5 DEF PInv
<1> QED  BY <1>20, <1>21

LEMMA PInvNext ==
  ASSUME PInv, [Next]_vars PROVE PInv'
BY PInvNoMatch, PInvMatchOne, PInvFinish, PInvStutter DEF Next

\* The loop invariant gives what parse() returns: a chain that has ended
\* with every argument consumed is a path of the tables.
LEMMA PInvSound ==
  ASSUME PInv PROVE ParseSound
<1> SUFFICES ASSUME status = "ok"
             PROVE  \E p \in Paths : Accepts(p, argv) /\ res = PathResult(p, argv)
  BY DEF ParseSound
<1>1. PICK pp \in [1 .. Consumed -> Steps] : Prefix(pp) /\ res = PathResult(pp, argv)
  BY DEF PInv
<1>a. /\ Consumed \in 1 .. 3
      /\ Consumed > 0 => pp[1][1] = "t_main"
      /\ \A j \in 1 .. Consumed - 1 : Step(pp[j]).next = pp[j + 1][1]
      /\ \A j \in 1 .. Consumed : Fits(argv[j], Step(pp[j]))
      /\ Step(pp[Consumed]).next = "NONE"
      /\ argc = 0
  BY <1>1 DEF Prefix
<1>b. argv \in Seq(STRING) /\ Consumed = Len(argv)
  BY <1>a, InputsAssumption DEF PInv, Consumed
<1>2. /\ Consumed \in 1 .. 3 /\ Consumed = Len(argv)
      /\ pp[1][1] = "t_main"
      /\ \A j \in 1 .. Consumed - 1 : Step(pp[j]).next = pp[j + 1][1]
      /\ \A j \in 1 .. Consumed : Fits(argv[j], Step(pp[j]))
      /\ Step(pp[Consumed]).next = "NONE"
  BY <1>a, <1>b
<1>3. pp \in Paths  BY <1>1, <1>2 DEF Paths
<1>4. Accepts(pp, argv)
  <2>1. Len(pp) = Consumed  BY <1>1, <1>2, FnIsSeq
  <2> QED  BY <1>2, <2>1 DEF Accepts
<1> QED  BY <1>1, <1>3, <1>4

\* The loop invariant gives the uniqueness of what parse() accepts: a path
\* the arguments stand for is the chain the loop walked, whose every entry
\* was its argument's only match.
LEMMA PInvUnambiguous ==
  ASSUME PInv PROVE UnambiguousParse
<1> SUFFICES ASSUME status = "ok" PROVE UnambiguousParse  BY DEF UnambiguousParse
<1>1. PICK pp \in [1 .. Consumed -> Steps] : Prefix(pp)  BY DEF PInv
<1>a. /\ Consumed \in 1 .. 3
      /\ pp[1][1] = "t_main"
      /\ \A j \in 1 .. Consumed - 1 : Step(pp[j]).next = pp[j + 1][1]
      /\ MatchedAlone(pp)
      /\ argc = 0
  BY <1>1 DEF Prefix
<1>b. argv \in Seq(STRING) /\ Consumed = Len(argv)
  BY <1>a, InputsAssumption DEF PInv, Consumed
<1>c. PICK av : av = argv  OBVIOUS
<1>d. PICK n \in 1 .. 3 : n = Consumed  BY <1>a
<1>2. ASSUME NEW r \in Paths, Accepts(r, argv) PROVE r = pp
  <2>1. PICK k \in 1 .. 3 :
          /\ r \in [1 .. k -> Steps]
          /\ r[1][1] = "t_main"
          /\ \A j \in 1 .. k - 1 : Step(r[j]).next = r[j + 1][1]
    BY DEF Paths
  <2>2. Len(r) = k  BY <2>1, FnIsSeq
  <2>3. k = n /\ \A j \in 1 .. n : Fits(av[j], Step(r[j]))  BY <1>b, <1>c, <1>d, <2>2, <1>2 DEF Accepts
  <2>4. \A j \in 1 .. n : Matching(av[j], pp[j][1]) = {pp[j][2]}
    BY <1>a, <1>c, <1>d DEF MatchedAlone
  <2>5. pp \in [1 .. n -> Steps] /\ n <= Len(av) /\ av \in Seq(STRING)  BY <1>b, <1>c, <1>d
  <2>6. /\ pp[1][1] = "t_main"
        /\ \A j \in 1 .. n - 1 : Step(pp[j]).next = pp[j + 1][1]
    BY <1>a, <1>d
  <2> QED  BY <2>1, <2>3, <2>4, <2>5, <2>6, SameChain
<1> QED  BY <1>2 DEF UnambiguousParse

\* smtpctl takes no ambiguous abbreviation: a command parse() accepts has
\* one reading as a command of the token tables (the run parser checks this
\* for vectors of up to three words; this holds for every argument vector).
THEOREM UnambiguousParseProved == Spec => []UnambiguousParse
<1>1. Init => PInv  BY PInvInit
<1>2. PInv /\ [Next]_vars => PInv'  BY PInvNext
<1>3. PInv => UnambiguousParse  BY PInvUnambiguous
<1> QED  BY <1>1, <1>2, <1>3, PTL DEF Spec

\* What parse() accepts is a command of the token tables and its result is
\* that command's action and data (the run parser checks this
\* for vectors of up to three words; this holds for every argument vector).
THEOREM ParseSoundProved == Spec => []ParseSound
<1>1. Init => PInv  BY PInvInit
<1>2. PInv /\ [Next]_vars => PInv'  BY PInvNext
<1>3. PInv => ParseSound  BY PInvSound
<1> QED  BY <1>1, <1>2, <1>3, PTL DEF Spec
=============================================================================
