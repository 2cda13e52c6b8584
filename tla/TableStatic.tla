---------------------------- MODULE TableStatic ----------------------------
(***************************************************************************)
(* The static backend of the lookup tables (src/unnamed/part_000,          *)
(* map_static.c): tables whose entries are parsed from the configuration,  *)
(* looked up and compared in place, and replaced by table_static_update.   *)
(*                                                                         *)
(* A struct table lives in one of the memory blocks Obj; it carries a      *)
(* name, an id and its ordered entries (t_contents).  Tables are found by  *)
(* name, as `smtpctl update table <name>` does; other components also     *)
(* keep the struct table pointer they resolved when the configuration was *)
(* loaded (held), which spec 4.4 says stays valid across updates.         *)
(* table_create, table_destroy and table_config_parser are not in the     *)
(* source: they are modelled from the spec (allocation of a fresh table   *)
(* with a fresh id and a generated name, freeing it, and a configuration  *)
(* that parses into ordered entries or fails).                            *)
(*                                                                         *)
(* Callers are single-threaded (spec 5): each operation is one step.      *)
(***************************************************************************)
EXTENDS TableDecode, FiniteSets, Functions

CONSTANTS
  Obj,        \* the memory blocks a struct table can occupy
  ConfNames,  \* the names tables are declared with in the configuration
  Keys,       \* the keys entries and lookups use
  Values,     \* the raw values entries hold
  Configs,    \* the configurations an update may be given (never NULL)
  Funcs,      \* the predicates compare is called with, as sets of pairs
  Garbage,    \* the contents of a char array nobody wrote
  MaxId       \* bound on the number of tables ever created

\* struct mapel: one "key value" line of the configuration.
Entry == [key : Keys, val : Values]

\* What table_config_parser makes of a configuration: the entries in file
\* order, or a failure (valid = FALSE) on a malformed line.
Config == [valid : BOOLEAN, entries : Seq(Entry)]

ASSUME ConstantsAssumption ==
  /\ IsFiniteSet(Obj)
  /\ ConfNames # {}
  /\ IsFiniteSet(ConfNames)
  /\ Cardinality(ConfNames) <= MaxId
  /\ MaxId \in Nat
  /\ Configs \subseteq Config
  /\ Funcs \subseteq SUBSET (Keys \X Keys)
  /\ Garbage \notin ConfNames
  /\ NULL \notin Config

VARIABLES
  live,        \* live[o]: block o holds a table that was not destroyed
  t_name,      \* t_name[o]: the table's name (char t_name[])
  t_id,        \* t_id[o]: the table's id (objid_t t_id)
  t_contents,  \* t_contents[o]: the entries, in TAILQ order
  last_id,     \* the id table_create gave last
  held,        \* held[n]: the struct table * resolved for n at load time
  reply        \* what the last operation returned to its caller

vars == <<live, t_name, t_id, t_contents, last_id, held, reply>>
tables == <<live, t_name, t_id, t_contents, last_id>>

\* The name table_create gives a table created without one.
DynName(i) == <<"dynamic", i>>

Names == ConfNames \cup ({"dynamic"} \X Nat)

Ops == {"none", "update", "lookup", "compare"}

\* What an operation on table `name` returns: `ret`, the record left in
\* *retp (`rec`) and, for an update, the name it logs (`log`).
Reply(op, name, key, ret, rec, log) ==
  [op |-> op, name |-> name, key |-> key, ret |-> ret, rec |-> rec, log |-> log]

\* The live table a name designates.
Resolve(n) == CHOOSE o \in Obj : live[o] /\ t_name[o] = n

-----------------------------------------------------------------------------
(* table_static_config: no configuration gives an empty table, otherwise  *)
(* table_config_parser appends one entry per line or fails.               *)

ConfigOK(cfg) == cfg = NULL \/ cfg.valid

ConfigEntries(cfg) == IF cfg = NULL THEN << >> ELSE cfg.entries

\* The contents a table can be loaded with at startup; a configuration that
\* fails to parse stops the daemon, so every table starts from a valid one.
InitContents == {ConfigEntries(c) : c \in {c2 \in Configs \cup {NULL} : ConfigOK(c2)}}

Init ==
  /\ held \in Injection(ConfNames, Obj)
  /\ live = [o \in Obj |-> o \in Range(held)]
  /\ t_name \in [Obj -> ConfNames \cup {Garbage}]
  /\ t_id \in [Obj -> 0 .. Cardinality(ConfNames)]
  /\ t_contents \in [Obj -> InitContents]
  /\ \A n \in ConfNames : t_name[held[n]] = n
  /\ \A o \in Obj : ~live[o] => t_name[o] = Garbage /\ t_id[o] = 0
                                /\ t_contents[o] = << >>
  /\ \A o1, o2 \in Obj : live[o1] /\ live[o2] /\ t_id[o1] = t_id[o2] => o1 = o2
  /\ \A o \in Obj : live[o] => t_id[o] # 0
  /\ last_id = Cardinality(ConfNames)
  /\ reply = Reply("none", Garbage, Garbage, 0, NULL, Garbage)

-----------------------------------------------------------------------------
(* table_static_update(table, config), lines 74-109.                      *)

\* config == NULL: goto ok, which logs the local `name` no one has written.
UpdateNoConfig(n) ==
  /\ \E g \in {Garbage} \cup {t_name[o] : o \in Obj} :
       reply' = Reply("update", n, Garbage, 1, NULL, g)
  /\ UNCHANGED <<tables, held>>

\* Mutant of UpdateSwap: the names are copied without the temporary, so
\* both blocks end with t's dynamic name.
UpdateSwapNoTemp(n, cfg) ==
  LET o  == Resolve(n)
      id == last_id + 1
  IN  /\ cfg # NULL
      /\ last_id < MaxId
      /\ ConfigOK(cfg)
      /\ \E t \in Obj :
           /\ ~live[t]
           /\ live' = [live EXCEPT ![t] = TRUE, ![o] = FALSE]
           /\ t_name' = [t_name EXCEPT ![t] = DynName(id), ![o] = DynName(id)]
           /\ t_id' = [t_id EXCEPT ![t] = t_id[o], ![o] = id]
           /\ t_contents' = [t_contents EXCEPT ![t] = ConfigEntries(cfg)]
      /\ last_id' = id
      /\ reply' = Reply("update", n, Garbage, 1, NULL, t_name[o])
      /\ UNCHANGED held

\* Mutant of UpdateSwap: the ids are not exchanged, the table keeps t's.
UpdateSwapKeepId(n, cfg) ==
  LET o  == Resolve(n)
      id == last_id + 1
  IN  /\ cfg # NULL
      /\ last_id < MaxId
      /\ ConfigOK(cfg)
      /\ \E t \in Obj :
           /\ ~live[t]
           /\ live' = [live EXCEPT ![t] = TRUE, ![o] = FALSE]
           /\ t_name' = [t_name EXCEPT ![t] = t_name[o], ![o] = DynName(id)]
           /\ t_id' = [t_id EXCEPT ![t] = id]
           /\ t_contents' = [t_contents EXCEPT ![t] = ConfigEntries(cfg)]
      /\ last_id' = id
      /\ reply' = Reply("update", n, Garbage, 1, NULL, t_name[o])
      /\ UNCHANGED held

\* t = table_create(...) in free block t with the next id; the parse of the
\* configuration into t succeeds: names and ids are swapped between table
\* and t (the three XOR assignments exchange the ids) and table is destroyed.
UpdateSwap(n, cfg) ==
  LET o  == Resolve(n)
      id == last_id + 1
  IN  /\ cfg # NULL
      /\ last_id < MaxId
      /\ ConfigOK(cfg)
      /\ \E t \in Obj :
           /\ ~live[t]
           /\ live' = [live EXCEPT ![t] = TRUE, ![o] = FALSE]
           /\ t_name' = [t_name EXCEPT ![t] = t_name[o], ![o] = DynName(id)]
           /\ t_id' = [t_id EXCEPT ![t] = t_id[o], ![o] = id]
           /\ t_contents' = [t_contents EXCEPT ![t] = ConfigEntries(cfg)]
      /\ last_id' = id
      /\ reply' = Reply("update", n, Garbage, 1, NULL, t_name[o])
      /\ UNCHANGED held

\* The parse fails: t is destroyed, table is left alone, and the failure is
\* logged with the local `name` no one has written on this path.
UpdateFail(n, cfg) ==
  LET id == last_id + 1
  IN  /\ cfg # NULL
      /\ last_id < MaxId
      /\ ~ConfigOK(cfg)
      /\ \E t \in Obj :
           /\ ~live[t]
           /\ t_name' = [t_name EXCEPT ![t] = DynName(id)]
           /\ t_id' = [t_id EXCEPT ![t] = id]
           /\ t_contents' = [t_contents EXCEPT ![t] = ConfigEntries(cfg)]
      /\ last_id' = id
      /\ \E g \in {Garbage} \cup {t_name[o] : o \in Obj} :
           reply' = Reply("update", n, Garbage, 0, NULL, g)
      /\ UNCHANGED <<live, held>>

table_static_update(n, cfg) ==
  \/ cfg = NULL /\ UpdateNoConfig(n)
  \/ UpdateSwap(n, cfg)
  \/ UpdateFail(n, cfg)

-----------------------------------------------------------------------------
(* table_static_lookup(hdl, key, kind, retp), lines 123-175; the handle   *)
(* is the table itself (table_static_open).                               *)

\* TAILQ_FOREACH ... strcmp(key, me->me_key) == 0: the first entry with
\* the key, 0 when there is none.
FirstEntry(o, key) == SelectInSeq(t_contents[o], LAMBDA e : e.key = key)

\* Mutant of LookupExists: the position of the entry is returned.
LookupExistsIndex(n, key) ==
  LET i == FirstEntry(Resolve(n), key)
  IN  reply' = Reply("lookup", n, key, i, NULL, Garbage)

\* retp == NULL: only whether the key is present.
LookupExists(n, key) ==
  LET i == FirstEntry(Resolve(n), key)
  IN  reply' = Reply("lookup", n, key, IF i = 0 THEN 0 ELSE 1, NULL, Garbage)

\* The key is absent: *retp = NULL, 0.
LookupAbsent(n, key) ==
  /\ FirstEntry(Resolve(n), key) = 0
  /\ reply' = Reply("lookup", n, key, 0, NULL, Garbage)

\* strdup of the value fails: -1.
LookupNoMem(n, key) ==
  /\ FirstEntry(Resolve(n), key) # 0
  /\ reply' = Reply("lookup", n, key, -1, NULL, Garbage)

\* The value is duplicated and handed to the decoder of `kind` with its
\* strlen; its result is the lookup's.
LookupDecode(n, key, kind) ==
  LET o    == Resolve(n)
      i    == FirstEntry(o, key)
      line == t_contents[o][i].val
      d    == Decode(kind, key, line, StaticLen(line))
  IN  /\ i # 0
      /\ reply' = Reply("lookup", n, key, d.ret, d.retp, Garbage)

table_static_lookup(n, key, kind, wantRec) ==
  /\ \/ ~wantRec /\ LookupExists(n, key)
     \/ wantRec /\ LookupAbsent(n, key)
     \/ wantRec /\ LookupNoMem(n, key)
     \/ wantRec /\ LookupDecode(n, key, kind)
  /\ UNCHANGED <<tables, held>>

(* table_static_compare(hdl, key, kind, func), lines 177-193: 1 as soon   *)
(* as func(key, me->me_key) holds for an entry, 0 after the last one.     *)
table_static_compare(n, key, func) ==
  LET i == SelectInSeq(t_contents[Resolve(n)], LAMBDA e : <<key, e.key>> \in func)
  IN  /\ reply' = Reply("compare", n, key, IF i = 0 THEN 0 ELSE 1, NULL, Garbage)
      /\ UNCHANGED <<tables, held>>

-----------------------------------------------------------------------------
Next ==
  \E n \in ConfNames :
    \/ \E cfg \in Configs \cup {NULL} : table_static_update(n, cfg)
    \/ \E key \in Keys, kind \in Kinds, wantRec \in BOOLEAN :
         table_static_lookup(n, key, kind, wantRec)
    \/ \E key \in Keys, func \in Funcs : table_static_compare(n, key, func)

Spec == Init /\ [][Next]_vars

-----------------------------------------------------------------------------
(* Properties.                                                             *)

TypeOK ==
  /\ live \in [Obj -> BOOLEAN]
  /\ t_name \in [Obj -> Names \cup {Garbage}]
  /\ t_id \in [Obj -> Nat]
  /\ t_contents \in [Obj -> Seq(Entry)]
  /\ last_id \in Nat
  /\ held \in [ConfNames -> Obj]
  /\ reply.op \in Ops
  /\ reply.ret \in {-1, 0, 1}

\* Every configured name designates exactly one live table, every live
\* table carries a configured name, and no two live tables share an id:
\* what table_static_update must keep while it swaps names and ids
\* between the old table and its replacement and destroys one of them.
TableIdentity ==
  /\ \A n \in ConfNames : \E o \in Obj : live[o] /\ t_name[o] = n
  /\ \A o \in Obj : live[o] => t_name[o] \in ConfNames
  /\ \A o1, o2 \in Obj :
       live[o1] /\ live[o2] /\ (t_name[o1] = t_name[o2] \/ t_id[o1] = t_id[o2])
         => o1 = o2

\* Seen through its name, a table behaves as TableAbstract: an update that
\* parses replaces all its entries at once and keeps its id, one that fails
\* changes nothing, lookups answer from the first entry with the key.
Abs == INSTANCE TableAbstract WITH ValueLen <- StaticLen,
         tab   <- [n \in ConfNames |-> t_contents[Resolve(n)]],
         tid   <- [n \in ConfNames |-> t_id[Resolve(n)]],
         reply <- [op |-> reply.op, name |-> reply.name, key |-> reply.key,
                   ret |-> reply.ret, rec |-> reply.rec]

AbstractSpec == Abs!Spec

\* Spec 4.4, step 4: the struct table a component resolved when the
\* configuration was loaded stays the live table of that name across
\* updates ("all existing references ... remain valid").
HeldTablesCurrent ==
  \A n \in ConfNames : live[held[n]] /\ t_name[held[n]] = n

\* Spec 7: a lookup returns 0 ("not found") only when the table has no
\* entry with the key; a value that does not decode is a typed error.
ZeroMeansAbsent ==
  (reply.op = "lookup" /\ reply.ret = 0) => FirstEntry(Resolve(reply.name), reply.key) = 0
=============================================================================
