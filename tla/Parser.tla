------------------------------- MODULE Parser -------------------------------
(***************************************************************************)
(* The command-line matcher of smtpctl (src/smtpd/parser.c): parse()       *)
(* walks the token tables t_main, t_show, ... one argument at a time;      *)
(* match_token() accepts an argument that abbreviates exactly one keyword  *)
(* of the current table (strncmp over the argument's length) or fills its  *)
(* one VARIABLE slot, records the token's action and data in the static   *)
(* parse_result, and names the table the next argument is matched in.     *)
(*                                                                         *)
(* One step of the model is one iteration of the while loop of parse();   *)
(* the messages written to stderr are left out.                           *)
(***************************************************************************)
EXTENDS Integers, Sequences, FiniteSets, SequencesExt

CONSTANTS
  Inputs,   \* the argument vectors tried (argv after the options)
  NULL      \* argv[argc] == NULL

\* The arguments before argv[argc] are C strings.
ASSUME InputsAssumption == Inputs \subseteq Seq(STRING)

\* The NULL pointer that ends argv is no string.
ASSUME NullAssumption == NULL \notin STRING

\* struct token: a table entry; next = "NONE" stands for a NULL next table.
Tok(type, keyword, value, next) ==
  [type |-> type, keyword |-> keyword, value |-> value, next |-> next]

\* The token tables of lines 50-120; the ENDTOKEN entry is the end of the
\* sequence.  t_show_envelope and t_show_message are identical tables.
Grammar ==
  [t_main |-> <<
     Tok("KEYWORD", "schedule-id",  "NONE",         "t_schedule_id"),
     Tok("KEYWORD", "schedule-all", "SCHEDULE_ALL", "NONE"),
     Tok("KEYWORD", "show",         "NONE",         "t_show"),
     Tok("KEYWORD", "monitor",      "MONITOR",      "NONE"),
     Tok("KEYWORD", "pause",        "NONE",         "t_pause"),
     Tok("KEYWORD", "remove",       "NONE",         "t_remove"),
     Tok("KEYWORD", "resume",       "NONE",         "t_resume"),
     Tok("KEYWORD", "stop",         "SHUTDOWN",     "NONE"),
     Tok("KEYWORD", "log",          "NONE",         "t_log"),
     Tok("KEYWORD", "update",       "NONE",         "t_update") >>,
   t_remove      |-> << Tok("VARIABLE", "evpid", "REMOVE", "NONE") >>,
   t_schedule_id |-> << Tok("VARIABLE", "msgid/evpid", "SCHEDULE", "NONE") >>,
   t_show |-> <<
     Tok("KEYWORD", "queue",    "SHOW_QUEUE",   "NONE"),
     Tok("KEYWORD", "stats",    "SHOW_STATS",   "NONE"),
     Tok("KEYWORD", "envelope", "NONE",         "t_show_envelope"),
     Tok("KEYWORD", "message",  "SHOW_MESSAGE", "t_show_message") >>,
   t_show_envelope |-> << Tok("VARIABLE", "evpid", "SHOW_ENVELOPE", "NONE") >>,
   t_show_message  |-> << Tok("VARIABLE", "evpid", "SHOW_MESSAGE", "NONE") >>,
   t_pause |-> <<
     Tok("KEYWORD", "mda",  "PAUSE_MDA",  "NONE"),
     Tok("KEYWORD", "mta",  "PAUSE_MTA",  "NONE"),
     Tok("KEYWORD", "smtp", "PAUSE_SMTP", "NONE") >>,
   t_resume |-> <<
     Tok("KEYWORD", "mda",  "RESUME_MDA",  "NONE"),
     Tok("KEYWORD", "mta",  "RESUME_MTA",  "NONE"),
     Tok("KEYWORD", "smtp", "RESUME_SMTP", "NONE") >>,
   t_log |-> <<
     Tok("KEYWORD", "verbose", "LOG_VERBOSE", "NONE"),
     Tok("KEYWORD", "brief",   "LOG_BRIEF",   "NONE") >>,
   t_update       |-> << Tok("KEYWORD", "table", "NONE", "t_update_table") >>,
   t_update_table |-> << Tok("VARIABLE", "name", "UPDATE_TABLE", "NONE") >>]

VARIABLES
  argv,     \* the arguments
  argc,     \* how many of them are left: argv[argc] is NULL
  table,    \* the token table the next argument is matched in
  res,      \* the static struct parse_result: action and data
  status    \* "loop" while parse() loops, then "ok" or "error"

vars == <<argv, argc, table, res, status>>

\* argv[0] after argv has been advanced past the matched arguments.
Word == IF argc = 0 THEN NULL ELSE argv[Len(argv) - argc + 1]

-----------------------------------------------------------------------------
(* match_token(word, table, res), lines 161-213.                          *)

\* Whether entry tk of the table counts as a match of word.
Matches(word, tk) ==
  \/ tk.type = "NOTOKEN" /\ (word = NULL \/ word = "")
  \/ tk.type = "KEYWORD" /\ word # NULL /\ IsPrefix(word, tk.keyword)
  \/ tk.type = "VARIABLE" /\ word # NULL /\ word # ""

\* The indices of the entries of tbl that word matches.
Matching(word, tbl) == {i \in DOMAIN Grammar[tbl] : Matches(word, Grammar[tbl][i])}

\* Mutant of OneMatch: only an argument that matches nothing is refused
\* (match == 0 for match != 1), an ambiguous one is taken.
OneMatchAtLeast(word, tbl) == Matching(word, tbl) # {}

\* The test of line 202, match != 1 negated: exactly one entry matched.
OneMatch(word, tbl) == Cardinality(Matching(word, tbl)) = 1

\* Mutant of Record: the word is kept as data for a keyword as well.
RecordDataAlways(r, tk, word) ==
  IF tk.value = "NONE" THEN r ELSE [action |-> tk.value, data |-> word]

\* res->action = t->value, and res->data = word for a VARIABLE, when the
\* token has a value.
Record(r, tk, word) ==
  IF tk.value = "NONE" THEN r
  ELSE [action |-> tk.value,
        data   |-> IF tk.type = "VARIABLE" THEN word ELSE r.data]

-----------------------------------------------------------------------------
(* parse(argc, argv), lines 128-159.                                      *)

\* bzero(&res, sizeof(res)); table = t_main.
Init ==
  /\ argv \in Inputs
  /\ argc = Len(argv)
  /\ table = "t_main"
  /\ res = [action |-> "NONE", data |-> NULL]
  /\ status = "loop"

\* match_token returns NULL (no match, or more than one): parse prints the
\* valid arguments and returns NULL.
NoMatch ==
  /\ status = "loop"
  /\ ~OneMatch(Word, table)
  /\ status' = "error"
  /\ UNCHANGED <<argv, argc, table, res>>

\* The unique match is recorded, argc-- and argv++; the loop ends on a
\* NOTOKEN or a token without next table, else continues in its table.
MatchOne ==
  /\ status = "loop"
  /\ \E i \in Matching(Word, table) :
       LET tk == Grammar[table][i]
       IN  /\ OneMatch(Word, table)
           /\ res' = Record(res, tk, Word)
           /\ argc' = argc - 1
           /\ IF tk.type = "NOTOKEN" \/ tk.next = "NONE"
                THEN status' = "end" /\ UNCHANGED table
                ELSE /\ table' = tk.next
                     /\ status' = IF argc - 1 >= 0 THEN "loop" ELSE "end"
  /\ UNCHANGED argv

\* Mutant of Finish: one argument left over is not reported.
FinishOffByOne ==
  /\ status = "end"
  /\ status' = IF argc > 1 THEN "error" ELSE "ok"
  /\ UNCHANGED <<argv, argc, table, res>>

\* After the loop: arguments left over are superfluous, else &res.
Finish ==
  /\ status = "end"
  /\ status' = IF argc > 0 THEN "error" ELSE "ok"
  /\ UNCHANGED <<argv, argc, table, res>>

Next == NoMatch \/ MatchOne \/ Finish

Spec == Init /\ [][Next]_vars

-----------------------------------------------------------------------------
(* The commands the token tables describe, written out: a path is a chain *)
(* of entries from t_main along the next pointers to one without next.   *)

Step(s) == Grammar[s[1]][s[2]]

Steps == UNION {{<<tbl, i>> : i \in DOMAIN Grammar[tbl]} : tbl \in DOMAIN Grammar}

Paths ==
  UNION {{p \in [1 .. k -> Steps] :
            /\ p[1][1] = "t_main"
            /\ \A j \in 1 .. k - 1 : Step(p[j]).next = p[j + 1][1]
            /\ Step(p[k]).next = "NONE"} : k \in 1 .. 3}

\* Word w stands for entry tk of a path: a non-empty word for a variable,
\* a prefix of the keyword for a keyword.
Fits(w, tk) ==
  IF tk.type = "VARIABLE" THEN w \notin {NULL, ""} ELSE IsPrefix(w, tk.keyword)

Accepts(p, a) == Len(a) = Len(p) /\ \A j \in 1 .. Len(p) : Fits(a[j], Step(p[j]))

\* a is the command of path p written in full.
Spells(p, a) ==
  /\ Accepts(p, a)
  /\ \A j \in 1 .. Len(p) : Step(p[j]).type = "KEYWORD" => a[j] = Step(p[j]).keyword

\* What parse() should return for a: the value of the last entry with one,
\* and the word of that entry if it is a variable.
PathResult(p, a) ==
  LET valued == {j \in 1 .. Len(p) : Step(p[j]).value # "NONE"}
      last   == CHOOSE j \in valued : \A j2 \in valued : j2 <= j
  IN  IF valued = {} THEN [action |-> "NONE", data |-> NULL]
      ELSE [action |-> Step(p[last]).value,
            data   |-> IF Step(p[last]).type = "VARIABLE" THEN a[last] ELSE NULL]

-----------------------------------------------------------------------------
(* Properties.                                                             *)

\* What parse() accepts is a command of the tables, each argument standing
\* for its entry (a keyword abbreviated or a variable filled), with no
\* argument left over, and the parse_result it returns carries that
\* command's action and, for a command that ends in a variable, the word
\* given for it.
ParseSound ==
  status = "ok" => \E p \in Paths : Accepts(p, argv) /\ res = PathResult(p, argv)

\* Every command of the tables written in full is accepted and gives its
\* action and data: no keyword is cut off by a sibling keyword it is a
\* prefix of, and no variable shadows a keyword.
FullCommandsParse ==
  \A p \in Paths :
    (status \in {"ok", "error"} /\ Spells(p, argv))
      => status = "ok" /\ res = PathResult(p, argv)

\* match_token refuses an argument that abbreviates two keywords of its
\* table (match > 1, line 202), so a command parse() accepts has one
\* reading only: no two chains of table entries both account for it.
UnambiguousParse ==
  status = "ok" =>
    \A p, q \in Paths : Accepts(p, argv) /\ Accepts(q, argv) => p = q

\* match_token treats an empty argument as a missing one for NOTOKEN and
\* refuses it as a VARIABLE value: a command parse() accepts has no empty
\* argument.  (strncmp over strlen("") = 0 characters makes "" match every
\* KEYWORD, so the check of KEYWORD entries does not say this.)
NoEmptyArgument ==
  status = "ok" => \A j \in 1 .. Len(argv) : argv[j] # ""
=============================================================================
