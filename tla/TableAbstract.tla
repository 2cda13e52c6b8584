--------------------------- MODULE TableAbstract ---------------------------
(***************************************************************************)
(* What a table promises its callers (spec 3, 4.2, 4.4, 7): each name     *)
(* designates a table with a fixed id and an ordered list of entries.     *)
(* An update with a configuration that parses replaces the whole list in  *)
(* one step and keeps the name and the id; one that fails leaves the      *)
(* table as it was.  A lookup answers from the first entry with the key,  *)
(* decoded for the kind asked; a compare says whether some entry's key    *)
(* satisfies the caller's predicate.                                      *)
(***************************************************************************)
EXTENDS TableDecode, FiniteSets, Functions

CONSTANTS ConfNames, Keys, Values, Configs, Funcs, Garbage,
          ValueLen(_)   \* the len a backend hands its decoders

Entry == [key : Keys, val : Values]

VARIABLES
  tab,     \* tab[n]: the entries of the table named n
  tid,     \* tid[n]: its id
  reply    \* what the last operation returned

vars == <<tab, tid, reply>>

Answer(op, name, key, ret, rec) ==
  [op |-> op, name |-> name, key |-> key, ret |-> ret, rec |-> rec]

Parses(cfg) == cfg = NULL \/ cfg.valid

Entries(cfg) == IF cfg = NULL THEN << >> ELSE cfg.entries

Init ==
  /\ tab \in [ConfNames -> {Entries(c) : c \in {c2 \in Configs \cup {NULL} : Parses(c2)}}]
  /\ tid \in Injection(ConfNames, 1 .. Cardinality(ConfNames))
  /\ reply = Answer("none", Garbage, Garbage, 0, NULL)

\* A configuration that parses replaces the entries (no configuration
\* keeps them); one that does not is reported and changes nothing.
Update(n, cfg) ==
  /\ \/ /\ Parses(cfg)
        /\ tab' = [tab EXCEPT ![n] = IF cfg = NULL THEN tab[n] ELSE cfg.entries]
        /\ reply' = Answer("update", n, Garbage, 1, NULL)
     \/ /\ ~Parses(cfg)
        /\ reply' = Answer("update", n, Garbage, 0, NULL)
        /\ UNCHANGED tab
  /\ UNCHANGED tid

\* The answer of a lookup: presence only, absence, an allocation failure,
\* or the decoding of the first entry with the key.
Lookup(n, key, kind, wantRec) ==
  LET Has(i) == i \in DOMAIN tab[n] /\ tab[n][i].key = key
      first  == {i \in DOMAIN tab[n] : Has(i) /\ \A j \in 1 .. i - 1 : ~Has(j)}
  IN  /\ \/ ~wantRec /\ reply' = Answer("lookup", n, key, IF first = {} THEN 0 ELSE 1, NULL)
         \/ wantRec /\ first = {} /\ reply' = Answer("lookup", n, key, 0, NULL)
         \/ wantRec /\ first # {} /\ reply' = Answer("lookup", n, key, -1, NULL)
         \/ \E i \in first :
              LET d == Decode(kind, key, tab[n][i].val, ValueLen(tab[n][i].val))
              IN  wantRec /\ reply' = Answer("lookup", n, key, d.ret, d.retp)
      /\ UNCHANGED <<tab, tid>>

Compare(n, key, func) ==
  LET hit == \E i \in DOMAIN tab[n] : <<key, tab[n][i].key>> \in func
  IN  /\ reply' = Answer("compare", n, key, IF hit THEN 1 ELSE 0, NULL)
      /\ UNCHANGED <<tab, tid>>

Next ==
  \E n \in ConfNames :
    \/ \E cfg \in Configs \cup {NULL} : Update(n, cfg)
    \/ \E key \in Keys, kind \in Kinds, wantRec \in BOOLEAN : Lookup(n, key, kind, wantRec)
    \/ \E key \in Keys, func \in Funcs : Compare(n, key, func)

Spec == Init /\ [][Next]_vars
=============================================================================
