------------------------- MODULE TableDBRefinement -------------------------
(***************************************************************************)
(* The db backend implements the abstract table (DbAbstractSpec), for     *)
(* every finite set of keys, every file contents and every set of         *)
(* predicates, when db->get and db->seq do not fail and callers always    *)
(* ask for the record: the two conditions the runs db_io_error and        *)
(* db_presence_lookup show to be necessary.                               *)
(*                                                                         *)
(* The table the abstraction sees is StoreSeq(store), the stored pairs in *)
(* the order SetToSeq picks.  Everything rests on that order being a      *)
(* bijection onto the pairs (SetToSeqBijection), so that each stored key  *)
(* is at exactly one position (StoreSeqFacts).                            *)
(***************************************************************************)
EXTENDS TableDBProofs, FiniteSetTheorems, TLAPS

\* SetToSeq of a finite set lists each of its elements exactly once.
LEMMA SetToSeqBijection ==
  ASSUME NEW S, IsFiniteSet(S)
  PROVE  SetToSeq(S) \in Bijection(1 .. Cardinality(S), S)
<1> DEFINE n == Cardinality(S)
<1>1. n \in Nat /\ ExistsBijection(1 .. n, S)
  BY FS_CardinalityType
<1>2. \E f \in [1 .. n -> S] : IsInjective(f)
  BY <1>1 DEF ExistsBijection, Bijection, Injection
<1>3. SetToSeq(S) \in Injection(1 .. n, S)
  BY <1>2 DEF SetToSeq, Injection
<1>4. IsFiniteSet(1 .. n) /\ Cardinality(1 .. n) = n
  BY <1>1, FS_Interval
<1>5. SetToSeq(S) \in Surjection(1 .. n, S)
  BY <1>3, <1>4, FS_Injection
<1> QED
  BY <1>3, <1>5 DEF Bijection

\* The entries of a file are finite: they are the image of its keys.
LEMMA StoreEntriesFinite ==
  ASSUME NEW s \in Stores
  PROVE  IsFiniteSet(StoreEntries(s))
<1> DEFINE K == {k2 \in Keys : s[k2] # Absent}
           g == [k \in K |-> [key |-> k, val |-> s[k]]]
<1>1. IsFiniteSet(K)
  BY DbAssumption, FS_Subset
<1>2. g \in Surjection(K, StoreEntries(s))
  BY DEF Surjection, StoreEntries
<1> QED
  BY <1>1, <1>2, FS_Surjection

\* The table the abstraction sees: each position holds a stored pair, no
\* key is at two positions, and every stored key is at one.
LEMMA StoreSeqFacts ==
  ASSUME NEW s \in Stores
  PROVE  LET q == StoreSeq(s)
         IN  /\ \E N \in Nat : DOMAIN q = 1 .. N
             /\ \A i \in DOMAIN q : /\ q[i].key \in Keys
                                   /\ s[q[i].key] # Absent
                                   /\ q[i].val = s[q[i].key]
             /\ \A i, j \in DOMAIN q : q[i].key = q[j].key => i = j
             /\ \A k \in Keys : s[k] # Absent => \E i \in DOMAIN q : q[i].key = k
<1> DEFINE E == StoreEntries(s)
           q == StoreSeq(s)
           N == Cardinality(E)
<1>1. IsFiniteSet(E)
  BY StoreEntriesFinite
<1>2. q \in Bijection(1 .. N, E) /\ N \in Nat
  BY <1>1, SetToSeqBijection, FS_CardinalityType DEF StoreSeq
<1>3. ASSUME NEW i \in DOMAIN q
      PROVE  \E k \in Keys : s[k] # Absent /\ q[i] = [key |-> k, val |-> s[k]]
  BY <1>2, <1>3 DEF Bijection, Injection, StoreEntries
<1>4. \A i, j \in DOMAIN q : q[i].key = q[j].key => i = j
  <2> SUFFICES ASSUME NEW i \in DOMAIN q, NEW j \in DOMAIN q, q[i].key = q[j].key
               PROVE  i = j
    OBVIOUS
  <2>1. q[i] = q[j]
    BY <1>3
  <2> QED
    BY <1>2, <2>1 DEF Bijection, Injection, IsInjective
<1>5. ASSUME NEW k \in Keys, s[k] # Absent
      PROVE  \E i \in DOMAIN q : q[i].key = k
  <2>1. [key |-> k, val |-> s[k]] \in E
    BY <1>5 DEF StoreEntries
  <2> QED
    BY <1>2, <2>1 DEF Bijection, Surjection
<1> QED
  BY <1>2, <1>3, <1>4, <1>5 DEF Bijection, Injection

-----------------------------------------------------------------------------
(* The refinement mapping of TableDB, step by step.                        *)

\* The abstract table of the db backend, and its answer.
AbsTab == [n \in {"db"} |-> StoreSeq(store)]

\* The file is read at open and never written: a db table starts as the
\* abstract table built from its file.
LEMMA InitMaps == Init => DbAbs!Init
<1> SUFFICES ASSUME Init PROVE DbAbs!Init
  OBVIOUS
<1>1. DbConfig(store) \in {c2 \in {DbConfig(s) : s \in Stores} \cup {NULL} : DbAbs!Parses(c2)}
  BY DEF Init, DbConfig, DbAbs!Parses
<1>2. DbAbs!Entries(DbConfig(store)) = StoreSeq(store)
  BY DbConfigAssumption DEF Init, DbAbs!Entries, DbConfig
<1>3. [n \in {"db"} |-> 1] \in DbAbs!Injection({"db"}, 1 .. DbAbs!Cardinality({"db"}))
  <2>1. DbAbs!Cardinality({"db"}) = Cardinality({"db"})
    BY DEF DbAbs!Cardinality, Cardinality
  <2>2. Cardinality({"db"}) = 1
    BY FS_Singleton
  <2> QED
    BY <2>1, <2>2 DEF DbAbs!Injection, DbAbs!IsInjective
<1>4. AbsTab \in [{"db"} -> {DbAbs!Entries(c) :
                     c \in {c2 \in {DbConfig(s) : s \in Stores} \cup {NULL} : DbAbs!Parses(c2)}}]
  BY <1>1, <1>2 DEF AbsTab
<1>5. [op |-> reply.op, name |-> IF reply.op = "none" THEN Garbage ELSE "db",
       key |-> reply.key, ret |-> reply.ret, rec |-> reply.rec]
        = DbAbs!Answer("none", Garbage, Garbage, 0, NULL)
  BY DEF Init, Reply, DbAbs!Answer
<1> QED
  BY <1>3, <1>4, <1>5 DEF DbAbs!Init, AbsTab

\* Steps that leave the file and the reply alone (open, close, and every
\* step that ends the process) are stutters of the abstract table.
LEMMA StutterMaps ==
  ASSUME UNCHANGED <<store, reply>>
  PROVE  UNCHANGED DbAbs!vars
BY DEF DbAbs!vars


\* The abstract table decodes with the decoders of TableDecode.
LEMMA AbsDecodeIsDecode ==
  ASSUME NEW kind, NEW key, NEW line, NEW len
  PROVE  DbAbs!Decode(kind, key, line, len) = Decode(kind, key, line, len)
BY DEF Decode, DbAbs!Decode, DecodeAlias, DbAbs!DecodeAlias, DecodeCredentials, DbAbs!DecodeCredentials, DecodeVirtual, DbAbs!DecodeVirtual, DecodeNetaddr, DbAbs!DecodeNetaddr, CredentialsShape, DbAbs!CredentialsShape, FirstColon, DbAbs!FirstColon, Result, DbAbs!Result, ExpandOK, DbAbs!ExpandOK, Expansion, DbAbs!Expansion, ExpandNodes, DbAbs!ExpandNodes, Tokens, DbAbs!Tokens, Trim, DbAbs!Trim, Separators, DbAbs!Separators, Min, DbAbs!Min, Max, DbAbs!Max, Contains, DbAbs!Contains, SelectInSeq, DbAbs!SelectInSeq

\* A lookup that finds no record, on a store that does not fail, is the
\* abstract lookup that finds no entry.
LEMMA LookupNotFoundMaps ==
  ASSUME ~IOFaults, TypeOK, NEW key \in Keys, NEW kind \in Kinds,
         LookupNotFound(key, kind, TRUE), UNCHANGED <<store, hdl>>
  PROVE  DbAbs!Lookup("db", key, kind, TRUE)
<1> DEFINE q == StoreSeq(store)
<1>1. store[key] = Absent
  BY DEF LookupNotFound
<1>2. \A i \in DOMAIN q : q[i].key # key
  BY <1>1, StoreSeqFacts DEF TypeOK
<1>3. reply' = Reply("lookup", key, kind, Garbage, 0, NULL)
  BY DEF LookupNotFound
<1> QED
  BY <1>2, <1>3 DEF DbAbs!Lookup, DbAbs!Answer, Reply

\* A lookup that decodes the stored value is the abstract lookup that
\* decodes the first entry with the key: the file's only entry with it.
LEMMA LookupDecodeMaps ==
  ASSUME TypeOK, NEW key \in Keys, NEW kind \in Kinds,
         LookupDecode(key, kind, TRUE), UNCHANGED <<store, hdl>>
  PROVE  DbAbs!Lookup("db", key, kind, TRUE)
<1> DEFINE q    == StoreSeq(store)
           d    == DbDecode(kind, key, store[key])
           Has(i) == i \in DOMAIN q /\ q[i].key = key
<1>1. store[key] # Absent /\ reply' = Reply("lookup", key, kind, Garbage, d.ret, d.retp)
  BY DEF LookupDecode
<1>2. PICK i \in DOMAIN q : q[i].key = key
  BY <1>1, StoreSeqFacts DEF TypeOK
<1>3. \A j \in 1 .. i - 1 : ~Has(j)
  <2>1. PICK N \in Nat : DOMAIN q = 1 .. N
    BY StoreSeqFacts DEF TypeOK
  <2>2. \A j \in DOMAIN q : q[j].key = key => j = i
    BY <1>2, StoreSeqFacts DEF TypeOK
  <2> QED
    BY <2>1, <2>2
<1>4. q[i].val = store[key]
  BY <1>2, StoreSeqFacts DEF TypeOK
<1>5. DbAbs!Decode(kind, key, q[i].val, DbLen(q[i].val)) = d
  BY <1>4, AbsDecodeIsDecode DEF DbDecode
<1> QED
  BY <1>1, <1>2, <1>3, <1>5 DEF DbAbs!Lookup, DbAbs!Answer, Reply

\* A compare's scan of the file finds what the abstract compare finds.
LEMMA CompareMaps ==
  ASSUME ~IOFaults, TypeOK, NEW key \in Keys, NEW func \in Funcs,
         CompareScan(key, func), UNCHANGED <<store, hdl>>
  PROVE  DbAbs!Compare("db", key, func)
<1> DEFINE q == StoreSeq(store)
<1>1. ASSUME NEW k \in Stored, <<key, k>> \in func
      PROVE  \E i \in DOMAIN q : <<key, q[i].key>> \in func
  BY <1>1, StoreSeqFacts DEF TypeOK, Stored
<1>2. ASSUME NEW i \in DOMAIN q, <<key, q[i].key>> \in func
      PROVE  \E k \in Stored : <<key, k>> \in func
  BY <1>2, StoreSeqFacts DEF TypeOK, Stored
<1>3. reply' = Reply("compare", key, Garbage, func,
                     IF \E k \in Stored : <<key, k>> \in func THEN 1 ELSE 0, NULL)
  BY DEF CompareScan
<1>4. (\E k \in Stored : <<key, k>> \in func) <=> (\E i \in DOMAIN q : <<key, q[i].key>> \in func)
  BY <1>1, <1>2
<1>5. store' = store
  OBVIOUS
<1> QED
  BY <1>3, <1>4, <1>5 DEF DbAbs!Compare, DbAbs!Answer, Reply


\* Every step of the db backend is a step of the abstract table or leaves
\* it alone, when get and seq do not fail and the record is always asked
\* for.
LEMMA NextMaps ==
  ASSUME ~IOFaults, ~PresenceLookups, TypeOK, [Next]_vars
  PROVE  [DbAbs!Next]_DbAbs!vars
<1>1. CASE UNCHANGED vars
  BY <1>1, StutterMaps DEF vars
<1>2. CASE table_db_open
  BY <1>2, StutterMaps DEF table_db_open
<1>3. CASE table_db_close
  BY <1>3, StutterMaps DEF table_db_close
<1>4. CASE table_db_update
  <2>1. DbAbs!Update("db", NULL)
    BY <1>4 DEF table_db_update, DbAbs!Update, DbAbs!Parses, DbAbs!Answer, Reply
  <2> QED
    BY <2>1 DEF DbAbs!Next
<1>5. ASSUME NEW key \in Keys, NEW kind \in Kinds, table_db_lookup(key, kind, TRUE)
      PROVE  [DbAbs!Next]_DbAbs!vars
  <2>1. UNCHANGED <<store, hdl>>
    BY <1>5 DEF table_db_lookup
  <2>2. CASE LookupNullHandle(key, kind, TRUE)
    BY <2>1, <2>2, StutterMaps DEF LookupNullHandle
  <2>3. CASE LookupKeyTooLong(key, kind, TRUE)
    BY <2>1, <2>3, StutterMaps DEF LookupKeyTooLong
  <2>4. CASE LookupNotFound(key, kind, TRUE)
    BY <2>1, <2>4, LookupNotFoundMaps DEF DbAbs!Next, DbAbs!Kinds, Kinds
  <2>5. CASE LookupDecode(key, kind, TRUE)
    BY <2>1, <2>5, LookupDecodeMaps DEF DbAbs!Next, DbAbs!Kinds, Kinds
  <2> QED
    BY <1>5, <2>2, <2>3, <2>4, <2>5 DEF table_db_lookup
<1>6. ASSUME NEW key \in Keys, NEW func \in Funcs, table_db_compare(key, func)
      PROVE  [DbAbs!Next]_DbAbs!vars
  <2>1. UNCHANGED <<store, hdl>>
    BY <1>6 DEF table_db_compare
  <2>2. CASE hdl = NULL
    BY <1>6, <2>1, <2>2, StutterMaps DEF table_db_compare
  <2>3. CASE hdl # NULL
    BY <1>6, <2>1, <2>3, CompareMaps DEF table_db_compare, DbAbs!Next
  <2> QED
    BY <2>2, <2>3
<1> QED
  BY <1>1, <1>2, <1>3, <1>4, <1>5, <1>6 DEF Next

-----------------------------------------------------------------------------
\* When db->get and db->seq do not fail and every caller asks for the
\* record, the db backend (table_db_open ... table_db_compare) implements
\* the abstract table: its one table answers every lookup from the value
\* stored under the key and every compare from the stored keys, and its
\* update changes nothing, as an update without configuration.
THEOREM DbRefinement ==
  ASSUME ~IOFaults, ~PresenceLookups
  PROVE  Spec => DbAbstractSpec
<1>1. Spec => []TypeOK
  BY DbTypeCorrect
<1>2. TypeOK /\ [Next]_vars => [DbAbs!Next]_DbAbs!vars
  BY NextMaps
<1> QED
  BY <1>1, <1>2, InitMaps, PTL DEF Spec, DbAbstractSpec, DbAbs!Spec
=============================================================================
