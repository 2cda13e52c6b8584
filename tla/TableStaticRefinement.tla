----------------------- MODULE TableStaticRefinement -----------------------
(***************************************************************************)
(* The static backend implements the abstract table (AbstractSpec), for   *)
(* all values of the constants.                                            *)
(*                                                                         *)
(* The abstraction sees, under each configured name n, the contents and   *)
(* the id of the live table Resolve(n).  An update replaces that struct   *)
(* table by a new one: the proof follows the name from the old block to   *)
(* the new one, and needs TableIdentity before and after the step (the    *)
(* invariant TableStaticProofs proves) to know which block a name         *)
(* resolves to.  Lookups and compares rest on SelectInSeq finding the     *)
(* first entry of the list that satisfies the test (FirstEntryFacts).     *)
(***************************************************************************)
EXTENDS TableStaticProofs, TLAPS

-----------------------------------------------------------------------------
(* Lemmas.                                                                 *)

\* A live block carrying a configured name is the block the name resolves
\* to, while TableIdentity holds.
LEMMA ResolveIs ==
  ASSUME TableIdentity, NEW n \in ConfNames, NEW o \in Obj, live[o], t_name[o] = n
  PROVE  Resolve(n) = o
BY ResolveLive DEF TableIdentity

\* TAILQ_FOREACH with strcmp: 0 when no entry has the key, else the
\* position of the first entry that has it.
LEMMA FirstEntryFacts ==
  ASSUME NEW s \in Seq(Entry), NEW key
  PROVE  LET i == SelectInSeq(s, LAMBDA e : e.key = key)
         IN  \/ /\ i = 0
                /\ \A j \in 1 .. Len(s) : s[j].key # key
             \/ /\ i \in 1 .. Len(s)
                /\ s[i].key = key
                /\ \A j \in 1 .. i - 1 : s[j].key # key
<1> DEFINE I == {j \in 1 .. Len(s) : s[j].key = key}
<1>1. SelectInSeq(s, LAMBDA e : e.key = key) = IF I # {} THEN Min(I) ELSE 0
  BY DEF SelectInSeq
<1>2. CASE I = {}
  BY <1>1, <1>2
<1>3. CASE I # {}
  <2>0. I \in SUBSET Nat /\ I # {}  BY <1>3
  <2>1. Min(I) \in I /\ \A y \in I : Min(I) <= y  BY <2>0, NatSetMin
  <2>2. \A j \in 1 .. Min(I) - 1 : s[j].key # key  BY <2>1
  <2> QED  BY <1>1, <1>3, <2>1, <2>2
<1> QED  BY <1>2, <1>3

\* The compare loop stops at an entry whose key func accepts: it answers 1
\* iff there is one.
LEMMA CompareFacts ==
  ASSUME NEW s \in Seq(Entry), NEW key, NEW func
  PROVE  SelectInSeq(s, LAMBDA e : <<key, e.key>> \in func) # 0
           <=> \E i \in DOMAIN s : <<key, s[i].key>> \in func
<1> DEFINE I == {j \in 1 .. Len(s) : <<key, s[j].key>> \in func}
<1>1. SelectInSeq(s, LAMBDA e : <<key, e.key>> \in func) = IF I # {} THEN Min(I) ELSE 0
  BY DEF SelectInSeq
<1>2. ASSUME I # {} PROVE Min(I) \in I
  <2>1. I \in SUBSET Nat  OBVIOUS
  <2> QED  BY <1>2, <2>1, NatSetMin
<1>3. DOMAIN s = 1 .. Len(s)  OBVIOUS
<1>4. I # {} <=> \E i \in DOMAIN s : <<key, s[i].key>> \in func  BY <1>3
<1>5. I # {} => Min(I) # 0  BY <1>2
<1> QED  BY <1>1, <1>4, <1>5

\* The abstract table decodes with the decoders of TableDecode.
LEMMA AbsDecodeIsDecode ==
  ASSUME NEW kind, NEW key, NEW line, NEW len
  PROVE  Abs!Decode(kind, key, line, len) = Decode(kind, key, line, len)
BY DEF Decode, Abs!Decode, DecodeAlias, Abs!DecodeAlias, DecodeCredentials, Abs!DecodeCredentials, DecodeVirtual, Abs!DecodeVirtual, DecodeNetaddr, Abs!DecodeNetaddr, CredentialsShape, Abs!CredentialsShape, FirstColon, Abs!FirstColon, Result, Abs!Result, ExpandOK, Abs!ExpandOK, Expansion, Abs!Expansion, ExpandNodes, Abs!ExpandNodes, Tokens, Abs!Tokens, Trim, Abs!Trim, Separators, Abs!Separators, Min, Abs!Min, Max, Abs!Max, Contains, Abs!Contains, SelectInSeq, Abs!SelectInSeq

-----------------------------------------------------------------------------
(* The refinement mapping, step by step.                                   *)

\* At load time every configured name resolves to the table held for it,
\* loaded from a configuration that parses, with an id of its own.
LEMMA InitMaps == Init => Abs!Init
<1> SUFFICES ASSUME Init PROVE Abs!Init  OBVIOUS
<1>0. IInv  BY InitIInv
<1>1. \A n \in ConfNames : Resolve(n) = held[n]
  <2> TAKE n \in ConfNames
  <2>1. held[n] \in Obj /\ live[held[n]] /\ t_name[held[n]] = n
    BY DEF Init, Injection, Range
  <2> QED  BY <1>0, <2>1, ResolveIs DEF IInv
<1>2. InitContents = {Abs!Entries(c) : c \in {c2 \in Configs \cup {NULL} : Abs!Parses(c2)}}
  BY DEF InitContents, Abs!Entries, ConfigEntries, Abs!Parses, ConfigOK
<1>3. [n \in ConfNames |-> t_contents[Resolve(n)]]
        \in [ConfNames -> {Abs!Entries(c) : c \in {c2 \in Configs \cup {NULL} : Abs!Parses(c2)}}]
  BY <1>1, <1>2 DEF Init, Injection
<1>4. [n \in ConfNames |-> t_id[Resolve(n)]]
        \in Abs!Injection(ConfNames, 1 .. Abs!Cardinality(ConfNames))
  <2>1. Abs!Cardinality(ConfNames) = Cardinality(ConfNames)
    BY DEF Abs!Cardinality, Cardinality
  <2>2. \A n \in ConfNames : held[n] \in Obj /\ live[held[n]]
    BY DEF Init, Injection, Range
  <2>3. \A n \in ConfNames : t_id[held[n]] \in 1 .. Cardinality(ConfNames)
    BY <2>2 DEF Init
  <2>4. \A n1, n2 \in ConfNames : t_id[held[n1]] = t_id[held[n2]] => n1 = n2
    BY <2>2 DEF Init, Injection, IsInjective
  <2> QED  BY <1>1, <2>1, <2>3, <2>4 DEF Abs!Injection, Abs!IsInjective
<1>5. [op |-> reply.op, name |-> reply.name, key |-> reply.key,
       ret |-> reply.ret, rec |-> reply.rec]
        = Abs!Answer("none", Garbage, Garbage, 0, NULL)
  BY DEF Init, Reply, Abs!Answer
<1> QED  BY <1>3, <1>4, <1>5 DEF Abs!Init

\* A step that leaves the tables alone leaves what every name designates.
LEMMA TablesUnchangedMaps ==
  ASSUME UNCHANGED <<live, t_name, t_id, t_contents>>
  PROVE  /\ [n \in ConfNames |-> t_contents[Resolve(n)]]' = [n \in ConfNames |-> t_contents[Resolve(n)]]
         /\ [n \in ConfNames |-> t_id[Resolve(n)]]' = [n \in ConfNames |-> t_id[Resolve(n)]]
BY DEF Resolve

\* table_static_lookup answers as the abstract lookup: the first entry
\* with the key, found by the scan, is the abstract table's first one.
LEMMA LookupMaps ==
  ASSUME IInv, NEW n \in ConfNames, NEW key \in Keys, NEW kind \in Kinds,
         NEW wantRec \in BOOLEAN, table_static_lookup(n, key, kind, wantRec)
  PROVE  Abs!Lookup(n, key, kind, wantRec)
<1> DEFINE o  == Resolve(n)
           s  == t_contents[o]
           i0 == FirstEntry(o, key)
           Has(i) == i \in DOMAIN s /\ s[i].key = key
           first == {i \in DOMAIN s : Has(i) /\ \A j \in 1 .. i - 1 : ~Has(j)}
<1>1. o \in Obj /\ s \in Seq(Entry)  BY ResolveLive DEF IInv, TypeOK
<1>2. /\ i0 = 0 => first = {}
      /\ i0 # 0 => i0 \in DOMAIN s /\ first = {i0}
  <2>1. \/ i0 = 0 /\ \A j \in 1 .. Len(s) : s[j].key # key
        \/ /\ i0 \in 1 .. Len(s) /\ s[i0].key = key
           /\ \A j \in 1 .. i0 - 1 : s[j].key # key
    BY <1>1, FirstEntryFacts DEF FirstEntry
  <2>2. ASSUME NEW i \in first, i0 \in 1 .. Len(s), s[i0].key = key,
               \A j \in 1 .. i0 - 1 : s[j].key # key
        PROVE  i = i0
    BY <1>1, <2>2
  <2> QED  BY <1>1, <2>1, <2>2
<1>3. UNCHANGED <<live, t_name, t_id, t_contents>>
  BY DEF table_static_lookup, tables
<1>4. Abs!Kinds = Kinds  BY DEF Abs!Kinds, Kinds
<1>5. CASE ~wantRec /\ LookupExists(n, key)
  BY <1>2, <1>3, <1>5, TablesUnchangedMaps
     DEF LookupExists, Reply, Abs!Lookup, Abs!Answer
<1>6. CASE wantRec /\ LookupAbsent(n, key)
  BY <1>2, <1>3, <1>6, TablesUnchangedMaps
     DEF LookupAbsent, Reply, Abs!Lookup, Abs!Answer
<1>7. CASE wantRec /\ LookupNoMem(n, key)
  BY <1>2, <1>3, <1>7, TablesUnchangedMaps
     DEF LookupNoMem, Reply, Abs!Lookup, Abs!Answer
<1>8. CASE wantRec /\ LookupDecode(n, key, kind)
  <2> DEFINE d == Decode(kind, key, s[i0].val, StaticLen(s[i0].val))
  <2>1. i0 # 0 /\ reply' = Reply("lookup", n, key, d.ret, d.retp, Garbage)
    BY <1>8 DEF LookupDecode
  <2>2. Abs!Decode(kind, key, s[i0].val, StaticLen(s[i0].val)) = d
    BY AbsDecodeIsDecode
  <2>3. i0 \in first  BY <1>2, <2>1
  <2> QED  BY <1>3, <1>8, <2>1, <2>2, <2>3, TablesUnchangedMaps
              DEF Reply, Abs!Lookup, Abs!Answer
<1> QED  BY <1>5, <1>6, <1>7, <1>8 DEF table_static_lookup

\* table_static_compare answers as the abstract compare.
LEMMA CompareMaps ==
  ASSUME IInv, NEW n \in ConfNames, NEW key \in Keys, NEW func \in Funcs,
         table_static_compare(n, key, func)
  PROVE  Abs!Compare(n, key, func)
<1> DEFINE s == t_contents[Resolve(n)]
<1>1. s \in Seq(Entry)  BY ResolveLive DEF IInv, TypeOK
<1>2. (SelectInSeq(s, LAMBDA e : <<key, e.key>> \in func) # 0)
        <=> \E i \in DOMAIN s : <<key, s[i].key>> \in func
  BY <1>1, CompareFacts
<1>3. UNCHANGED <<live, t_name, t_id, t_contents>>
  BY DEF table_static_compare, tables
<1> QED  BY <1>2, <1>3, TablesUnchangedMaps
           DEF table_static_compare, Reply, Abs!Compare, Abs!Answer

\* An update without configuration logs and returns 1, as the abstract
\* update with no configuration, which keeps the entries.
LEMMA UpdateNoConfigMaps ==
  ASSUME NEW n \in ConfNames, UpdateNoConfig(n)
  PROVE  Abs!Update(n, NULL)
<1>1. UNCHANGED <<live, t_name, t_id, t_contents>>  BY DEF UpdateNoConfig, tables
<1>2. [n2 \in ConfNames |-> t_contents[Resolve(n2)]]
        = [[n2 \in ConfNames |-> t_contents[Resolve(n2)]] EXCEPT ![n] = @]
  OBVIOUS
<1> QED  BY <1>1, <1>2, TablesUnchangedMaps
           DEF UpdateNoConfig, Reply, Abs!Update, Abs!Parses, Abs!Answer

\* A configuration that does not parse: the new table t is destroyed and
\* no name moves, since t was not live.
LEMMA UpdateFailMaps ==
  ASSUME IInv, IInv', NEW n \in ConfNames, NEW cfg \in Configs, UpdateFail(n, cfg)
  PROVE  Abs!Update(n, cfg)
<1>1. PICK t \in Obj :
        /\ ~live[t]
        /\ t_name' = [t_name EXCEPT ![t] = DynName(last_id + 1)]
        /\ t_id' = [t_id EXCEPT ![t] = last_id + 1]
        /\ t_contents' = [t_contents EXCEPT ![t] = ConfigEntries(cfg)]
  BY DEF UpdateFail
<1>2. live' = live  BY DEF UpdateFail
<1>3. ASSUME NEW m \in ConfNames PROVE Resolve(m)' = Resolve(m)
  <2>1. Resolve(m) \in Obj /\ live[Resolve(m)] /\ t_name[Resolve(m)] = m
    BY ResolveLive DEF IInv
  <2>2. Resolve(m) # t  BY <1>1, <2>1
  <2>3. live'[Resolve(m)] /\ t_name'[Resolve(m)] = m  BY <1>1, <1>2, <2>1, <2>2 DEF IInv, TypeOK
  <2> QED  BY <2>1, <2>3, Zenon DEF IInv, TableIdentity, Resolve
<1>4. ASSUME NEW m \in ConfNames
      PROVE  t_contents'[Resolve(m)'] = t_contents[Resolve(m)]
             /\ t_id'[Resolve(m)'] = t_id[Resolve(m)]
  <2>1. Resolve(m) \in Obj /\ live[Resolve(m)]  BY ResolveLive DEF IInv
  <2> QED  BY <1>1, <1>3, <2>1 DEF IInv, TypeOK
<1>5. ~Abs!Parses(cfg)  BY DEF UpdateFail, ConfigOK, Abs!Parses
<1>6. reply'.ret = 0 /\ reply'.op = "update" /\ reply'.name = n
      /\ reply'.key = Garbage /\ reply'.rec = NULL
  BY DEF UpdateFail, Reply
<1> QED  BY <1>4, <1>5, <1>6 DEF Abs!Update, Abs!Answer

\* A configuration that parses: the name moves from the old block o to the
\* new block t, which holds the new entries and, after the exchange of
\* ids, o's id; every other name stays on its block.
LEMMA UpdateSwapMaps ==
  ASSUME IInv, IInv', NEW n \in ConfNames, NEW cfg \in Configs, UpdateSwap(n, cfg)
  PROVE  Abs!Update(n, cfg)
<1> DEFINE o == Resolve(n)
<1>0. o \in Obj /\ live[o] /\ t_name[o] = n  BY ResolveLive DEF IInv
<1>1. PICK t \in Obj :
        /\ ~live[t]
        /\ live' = [live EXCEPT ![t] = TRUE, ![o] = FALSE]
        /\ t_name' = [t_name EXCEPT ![t] = t_name[o], ![o] = DynName(last_id + 1)]
        /\ t_id' = [t_id EXCEPT ![t] = t_id[o], ![o] = last_id + 1]
        /\ t_contents' = [t_contents EXCEPT ![t] = ConfigEntries(cfg)]
  BY DEF UpdateSwap
<1>2. t # o  BY <1>0, <1>1
<1>3. Resolve(n)' = t
  <2>1. live'[t] /\ t_name'[t] = n  BY <1>0, <1>1, <1>2 DEF IInv, TypeOK
  <2> QED  BY <2>1, Zenon DEF IInv, TableIdentity, Resolve
<1>4. ASSUME NEW m \in ConfNames, m # n PROVE Resolve(m)' = Resolve(m)
  <2>1. Resolve(m) \in Obj /\ live[Resolve(m)] /\ t_name[Resolve(m)] = m
    BY ResolveLive DEF IInv
  <2>2. Resolve(m) # t /\ Resolve(m) # o  BY <1>0, <1>1, <2>1, <1>4
  <2>3. live'[Resolve(m)] /\ t_name'[Resolve(m)] = m
    BY <1>1, <2>1, <2>2 DEF IInv, TypeOK
  <2> QED  BY <2>1, <2>3, Zenon DEF IInv, TableIdentity, Resolve
<1>5. /\ t_contents'[t] = cfg.entries
      /\ t_id'[t] = t_id[o]
  BY <1>1, <1>2 DEF UpdateSwap, ConfigEntries, IInv, TypeOK
<1>6. ASSUME NEW m \in ConfNames, m # n
      PROVE  t_contents'[Resolve(m)'] = t_contents[Resolve(m)]
             /\ t_id'[Resolve(m)'] = t_id[Resolve(m)]
  <2>1. Resolve(m) \in Obj /\ live[Resolve(m)] /\ t_name[Resolve(m)] = m
    BY ResolveLive DEF IInv
  <2>2. Resolve(m) # t /\ Resolve(m) # o  BY <1>0, <1>1, <2>1, <1>6
  <2> QED  BY <1>1, <1>4, <1>6, <2>1, <2>2 DEF IInv, TypeOK
<1>7. [n2 \in ConfNames |-> t_contents[Resolve(n2)]]' =
        [[n2 \in ConfNames |-> t_contents[Resolve(n2)]] EXCEPT ![n] = cfg.entries]
  BY <1>3, <1>5, <1>6
<1>8. [n2 \in ConfNames |-> t_id[Resolve(n2)]]' = [n2 \in ConfNames |-> t_id[Resolve(n2)]]
  BY <1>3, <1>5, <1>6
<1>9. Abs!Parses(cfg) /\ cfg # NULL  BY DEF UpdateSwap, ConfigOK, Abs!Parses
<1>10. reply' = Reply("update", n, Garbage, 1, NULL, t_name[o])  BY DEF UpdateSwap
<1> QED  BY <1>7, <1>8, <1>9, <1>10 DEF Abs!Update, Abs!Answer, Reply

\* Every step of the static backend is a step of the abstract table or
\* leaves it alone.
LEMMA NextMaps ==
  ASSUME IInv, IInv', [Next]_vars
  PROVE  [Abs!Next]_Abs!vars
<1>1. CASE UNCHANGED vars
  BY <1>1, TablesUnchangedMaps DEF vars, Abs!vars
<1>2. ASSUME NEW n \in ConfNames, NEW cfg \in Configs \cup {NULL},
             table_static_update(n, cfg)
      PROVE  Abs!Next
  <2>1. CASE cfg = NULL /\ UpdateNoConfig(n)
    BY <2>1, UpdateNoConfigMaps DEF Abs!Next
  <2>2. CASE UpdateSwap(n, cfg)
    <3>1. cfg \in Configs  BY <2>2 DEF UpdateSwap
    <3> QED  BY <2>2, <3>1, UpdateSwapMaps DEF Abs!Next
  <2>3. CASE UpdateFail(n, cfg)
    <3>1. cfg \in Configs  BY <2>3 DEF UpdateFail
    <3> QED  BY <2>3, <3>1, UpdateFailMaps DEF Abs!Next
  <2> QED  BY <1>2, <2>1, <2>2, <2>3 DEF table_static_update
<1>3. ASSUME NEW n \in ConfNames, NEW key \in Keys, NEW kind \in Kinds,
             NEW wantRec \in BOOLEAN, table_static_lookup(n, key, kind, wantRec)
      PROVE  Abs!Next
  <2>1. Abs!Kinds = Kinds  BY DEF Abs!Kinds, Kinds
  <2> QED  BY <1>3, <2>1, LookupMaps DEF Abs!Next
<1>4. ASSUME NEW n \in ConfNames, NEW key \in Keys, NEW func \in Funcs,
             table_static_compare(n, key, func)
      PROVE  Abs!Next
  BY <1>4, CompareMaps DEF Abs!Next
<1> QED  BY <1>1, <1>2, <1>3, <1>4 DEF Next

-----------------------------------------------------------------------------
\* The static backend (table_static_update, table_static_lookup,
\* table_static_compare) implements the abstract table, for all values of
\* the constants: seen through its name, a table keeps its id across every
\* update, although each update that parses replaces its struct table by
\* a new one; it changes its entries all at once, only by an update that
\* parses; and it answers lookups from the first entry with the key and
\* compares from its keys.  AbstractSpec is the property the run
\* static_table checks.
THEOREM StaticRefinement == Spec => AbstractSpec
<1>1. Spec => []IInv  BY InitIInv, NextIInv, PTL DEF Spec
<1>2. IInv /\ IInv' /\ [Next]_vars => [Abs!Next]_Abs!vars  BY NextMaps
<1> QED  BY <1>1, <1>2, InitMaps, PTL DEF Spec, AbstractSpec, Abs!Spec
=============================================================================
