------------------------------ MODULE TableDB ------------------------------
(***************************************************************************)
(* The persistent backend of the lookup tables (src/smtpd/table_db.c): a  *)
(* db(3) hash file opened read-only, looked up by exact key and scanned   *)
(* for compare.                                                            *)
(*                                                                         *)
(* The file is the external store of spec 6: a function from keys to the *)
(* value stored under them.  Keys and values are stored with their NUL, as *)
(* table_db_get_entry (dbk.size = strlen + 1) and the decoders expect, so *)
(* a value of n characters comes back with size n + 1 (DbLen).  The       *)
(* caller (the table layer, not in the source) follows spec 2: open, any  *)
(* number of lookups, compares and updates, close, open again.  A NULL    *)
(* dereference or errx ends the process: no step follows.                 *)
(*                                                                         *)
(* Faults of the store: dbopen may fail (file missing or unreadable), and *)
(* with IOFaults a get or a seq may fail with -1.                         *)
(***************************************************************************)
EXTENDS TableDecode, FiniteSets

CONSTANTS
  Keys,             \* the keys lookups and compares are made with
  Values,           \* the raw values the file may hold
  Stores,           \* the contents the file may have
  Funcs,            \* the predicates compare is called with, as pairs
  Absent,           \* db->get returns 1: no such key
  Garbage,          \* a field an operation does not set
  IOFaults,         \* whether db->get and db->seq may fail
  PresenceLookups   \* whether callers pass retp == NULL

ASSUME DbAssumption ==
  /\ Absent \notin Values
  /\ IsFiniteSet(Keys)
  /\ Stores \subseteq [Keys -> Values \cup {Absent}]
  /\ Funcs \subseteq SUBSET (Keys \X Keys)
  /\ IOFaults \in BOOLEAN
  /\ PresenceLookups \in BOOLEAN

VARIABLES
  store,   \* the contents of the file t_config names (read-only)
  hdl,     \* "closed", "db" (a DB * from dbopen) or NULL (dbopen failed)
  proc,    \* "running", or how the process ended: "exited" (errx), "crashed"
  reply    \* what the last operation returned to its caller

vars == <<store, hdl, proc, reply>>

\* ret and *retp of an operation; func is the predicate of a compare.
Reply(op, key, kind, func, ret, rec) ==
  [op |-> op, key |-> key, kind |-> kind, func |-> func, ret |-> ret, rec |-> rec]

\* The keys the file holds.
Stored == {k \in Keys : store[k] # Absent}

\* table_db_credentials, _alias, _virtual and _netaddr are the static
\* decoders line for line; they are given len = dbv.size.
DbDecode(kind, key, line) == Decode(kind, key, line, DbLen(line))

\* The decoders write *retp on every path but the early returns of
\* table_db_credentials (lines 191-203).
WritesRetp(kind, line, len) ==
  kind = "K_CREDENTIALS" => CredentialsShape(line, len)

\* configure: table_db_config returns 1 and keeps nothing.
Init ==
  /\ store \in Stores
  /\ hdl = "closed"
  /\ proc = "running"
  /\ reply = Reply("none", Garbage, Garbage, Garbage, 0, NULL)

Running == proc = "running"

-----------------------------------------------------------------------------
(* table_db_open / table_db_close / table_db_update.                       *)

\* dbopen(t_config, O_RDONLY, 0600, DB_HASH, NULL), returned as the handle.
table_db_open ==
  /\ Running
  /\ hdl = "closed"
  /\ hdl' \in {"db", NULL}
  /\ UNCHANGED <<store, proc, reply>>

\* db->close(db): a NULL handle is dereferenced.
table_db_close ==
  /\ Running
  /\ hdl # "closed"
  /\ IF hdl = NULL THEN proc' = "crashed" /\ UNCHANGED hdl
                   ELSE hdl' = "closed" /\ UNCHANGED proc
  /\ UNCHANGED <<store, reply>>

\* Returns 1 and reloads nothing: the file is reread only through a new
\* handle.
table_db_update ==
  /\ Running
  /\ reply' = Reply("update", Garbage, Garbage, Garbage, 1, NULL)
  /\ UNCHANGED <<store, hdl, proc>>

-----------------------------------------------------------------------------
(* table_db_lookup(hdl, key, kind, retp), lines 99-135, with               *)
(* table_db_get_entry, lines 161-182.                                      *)

\* A key that fits pkey goes to db->get through a NULL handle.
LookupNullHandle(key, kind, wantRec) ==
  /\ hdl = NULL
  /\ Len(key) < MAX_LINE_SIZE
  /\ proc' = "crashed"
  /\ UNCHANGED reply

\* Mutant of LookupKeyTooLong: the key is truncated to the buffer and the
\* lookup goes on with what is left.
LookupKeyTruncated(key, kind, wantRec) ==
  LET pkey == SubSeq(key, 1, MAX_LINE_SIZE - 1)
      d    == DbDecode(kind, key, store[pkey])
  IN  /\ hdl = "db"
      /\ Len(key) >= MAX_LINE_SIZE
      /\ IF store[pkey] = Absent
           THEN reply' = Reply("lookup", key, kind, Garbage, 0, NULL)
           ELSE reply' = Reply("lookup", key, kind, Garbage, d.ret, d.retp)
      /\ UNCHANGED proc

\* strlcpy(pkey, key, sizeof pkey) >= sizeof pkey: errx(1, ...), before
\* the handle is used, open or not.
LookupKeyTooLong(key, kind, wantRec) ==
  /\ Len(key) >= MAX_LINE_SIZE
  /\ proc' = "exited"
  /\ UNCHANGED reply

\* db->get returns 1 (no such key), or -1 with IOFaults: NULL, so 0.
LookupNotFound(key, kind, wantRec) ==
  /\ hdl = "db"
  /\ Len(key) < MAX_LINE_SIZE
  /\ store[key] = Absent \/ IOFaults
  /\ reply' = Reply("lookup", key, kind, Garbage, 0, NULL)
  /\ UNCHANGED proc

\* The value, with its NUL, is handed to the decoder of kind with len =
\* dbv.size; a decoder that writes *retp when retp is NULL crashes.
LookupDecode(key, kind, wantRec) ==
  LET line == store[key]
      d    == DbDecode(kind, key, line)
  IN  /\ hdl = "db"
      /\ Len(key) < MAX_LINE_SIZE
      /\ line # Absent
      /\ IF ~wantRec /\ WritesRetp(kind, line, DbLen(line))
           THEN proc' = "crashed" /\ UNCHANGED reply
           ELSE /\ reply' = Reply("lookup", key, kind, Garbage, d.ret,
                                  IF wantRec THEN d.retp ELSE NULL)
                /\ UNCHANGED proc

table_db_lookup(key, kind, wantRec) ==
  /\ Running
  /\ \/ LookupNullHandle(key, kind, wantRec)
     \/ LookupKeyTooLong(key, kind, wantRec)
     \/ LookupNotFound(key, kind, wantRec)
     \/ LookupDecode(key, kind, wantRec)
  /\ UNCHANGED <<store, hdl>>

-----------------------------------------------------------------------------
(* table_db_compare(hdl, key, kind, func), lines 137-159: db->seq from     *)
(* R_FIRST, 1 at the first stored key func accepts, 0 when the scan ends  *)
(* (r == 1) or fails (r == -1, with IOFaults) first.                      *)

\* Mutant of CompareScan: the loop breaks after the first key, matched or not.
CompareFirstOnly(key, func) ==
  \E k0 \in Stored :
    reply' = Reply("compare", key, Garbage, func, IF <<key, k0>> \in func THEN 1 ELSE 0, NULL)

CompareScan(key, func) ==
  LET hit == \E k \in Stored : <<key, k>> \in func
  IN  \E ret \in IF hit /\ IOFaults THEN {0, 1} ELSE {IF hit THEN 1 ELSE 0} :
        reply' = Reply("compare", key, Garbage, func, ret, NULL)

table_db_compare(key, func) ==
  /\ Running
  /\ hdl # "closed"
  /\ IF hdl = NULL THEN proc' = "crashed" /\ UNCHANGED reply
                   ELSE CompareScan(key, func) /\ UNCHANGED proc
  /\ UNCHANGED <<store, hdl>>

-----------------------------------------------------------------------------
Next ==
  \/ table_db_open
  \/ table_db_close
  \/ table_db_update
  \/ \E key \in Keys, kind \in Kinds,
        wantRec \in IF PresenceLookups THEN BOOLEAN ELSE {TRUE} :
       /\ hdl # "closed"
       /\ table_db_lookup(key, kind, wantRec)
  \/ \E key \in Keys, func \in Funcs : table_db_compare(key, func)

Spec == Init /\ [][Next]_vars

-----------------------------------------------------------------------------
(* Properties.                                                             *)

TypeOK ==
  /\ store \in Stores
  /\ hdl \in {"closed", "db", NULL}
  /\ proc \in {"running", "exited", "crashed"}
  /\ reply.op \in {"none", "update", "lookup", "compare"}
  /\ reply.ret \in {-1, 0, 1}
  /\ reply.op \in {"lookup", "compare"} => reply.key \in Keys
  /\ reply.op = "lookup" => reply.kind \in Kinds
  /\ reply.op = "compare" => reply.func \in Funcs

\* Whatever the store's failures, the process never answers for a key it
\* does not hold: a lookup that finds a record or a decode error answers
\* with the decoding of the value stored under the key asked for (with
\* the len get_entry passes), and a compare that says yes has a stored key
\* the predicate accepts.  (A failing get or seq can only lose answers.)
DbAnswerSound ==
  /\ reply.op = "lookup" /\ reply.ret # 0 =>
       LET line == store[reply.key]
           d    == DbDecode(reply.kind, reply.key, line)
       IN  /\ line # Absent
           /\ reply.ret = d.ret
           /\ reply.rec \in {d.retp, NULL}
  /\ reply.op = "compare" /\ reply.ret = 1 =>
       \E k \in Stored : <<reply.key, k>> \in reply.func

\* The process only dies through a handle that open reported as failed
\* (spec 4.3, 7: the caller receives a NULL handle); in particular a
\* presence-only lookup (retp == NULL), which table_static_lookup answers
\* with 1 or 0, does not bring it down on an open handle.
CrashOnlyOnFailedOpen ==
  proc = "crashed" => hdl = NULL

\* The pairs the file s holds.
StoreEntries(s) == {[key |-> k, val |-> s[k]] : k \in {k2 \in Keys : s[k2] # Absent}}

\* The file as the ordered entries of an abstract table (hash order: any).
StoreSeq(s) == SetToSeq(StoreEntries(s))

\* The configuration a db table is built from: its file (t_config names a
\* file, never NULL).
DbConfig(s) == [valid |-> TRUE, entries |-> StoreSeq(s)]

ASSUME DbConfigAssumption == \A s \in Stores : DbConfig(s) # NULL

\* The db table, by its one name "db", implements the abstract table with
\* the len the db backend passes; the store's contents are one of the
\* configurations it may have been built from, an update is one without a
\* configuration, and the end of the process is the end of the behaviour.
DbAbs == INSTANCE TableAbstract WITH
           ConfNames <- {"db"},
           Configs   <- {DbConfig(s) : s \in Stores},
           ValueLen  <- DbLen,
           tab       <- [n \in {"db"} |-> StoreSeq(store)],
           tid       <- [n \in {"db"} |-> 1],
           reply     <- [op |-> reply.op, name |-> IF reply.op = "none" THEN Garbage ELSE "db",
                         key |-> reply.key, ret |-> reply.ret, rec |-> reply.rec]

DbAbstractSpec == DbAbs!Spec
=============================================================================
