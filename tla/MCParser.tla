------------------------------ MODULE MCParser ------------------------------
(* parse() on every vector of at most three arguments drawn from the      *)
(* keywords, some abbreviations (unique and ambiguous), the empty string  *)
(* and one variable value.                                                 *)
EXTENDS ParserCompleteness

MCWords ==
  {"schedule-id", "schedule-all", "show", "monitor", "pause", "remove",
   "resume", "stop", "log", "update", "queue", "stats", "envelope",
   "message", "mda", "mta", "smtp", "verbose", "brief", "table",
   "s", "sh", "m", "", "x"}

MCInputs == SeqOf(MCWords, 3)
=============================================================================
