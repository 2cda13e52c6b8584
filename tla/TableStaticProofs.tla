------------------------- MODULE TableStaticProofs -------------------------
(***************************************************************************)
(* Proofs about the static backend: every reachable state is well typed   *)
(* and satisfies TableIdentity, for all values of the constants.          *)
(*                                                                         *)
(* TableIdentity is not inductive alone (a step needs TypeOK to know what *)
(* Resolve returns and that the block an update allocates is a block), and *)
(* TypeOK is not inductive alone (an update writes t_name[Resolve(n)],    *)
(* which is a block only while the name designates a live table): their   *)
(* conjunction IInv is.                                                   *)
(***************************************************************************)
EXTENDS TableStatic, TableDecodeLemmas, TLAPS, FiniteSetTheorems

IInv == TypeOK /\ TableIdentity

-----------------------------------------------------------------------------
(* Lemmas about the operators the model is built from.                    *)

\* While the identity invariant holds, a configured name resolves to the
\* live table that carries it.
LEMMA ResolveLive ==
  ASSUME TableIdentity, NEW n \in ConfNames
  PROVE  /\ Resolve(n) \in Obj
         /\ live[Resolve(n)]
         /\ t_name[Resolve(n)] = n
BY DEF TableIdentity, Resolve

\* What the configuration parser produces is a list of entries.
LEMMA ConfigEntriesType ==
  ASSUME NEW cfg \in Configs \cup {NULL}
  PROVE  ConfigEntries(cfg) \in Seq(Entry)
BY ConstantsAssumption DEF ConfigEntries, Config

-----------------------------------------------------------------------------
LEMMA InitIInv == Init => IInv
<1> SUFFICES ASSUME Init PROVE IInv
  OBVIOUS
<1>1. Cardinality(ConfNames) \in Nat
  BY ConstantsAssumption, FS_CardinalityType
<1>2. t_contents \in [Obj -> Seq(Entry)]
  BY ConfigEntriesType DEF Init, InitContents
<1>3. TypeOK
  BY <1>1, <1>2 DEF Init, TypeOK, Names, Injection, Reply, Ops
<1>4. \A o \in Obj : live[o] <=> \E n \in ConfNames : held[n] = o
  <2>1. held \in [ConfNames -> Obj]
    BY DEF Init, Injection
  <2>2. \A o \in Obj : live[o] = (o \in Range(held))
    BY DEF Init
  <2> QED
    BY <2>1, <2>2 DEF Range
<1>5. TableIdentity
  <2>1. \A n \in ConfNames : \E o \in Obj : live[o] /\ t_name[o] = n
    BY <1>4 DEF Init, Injection
  <2>2. \A o \in Obj : live[o] => t_name[o] \in ConfNames
    BY <1>4 DEF Init
  <2>3. \A o1, o2 \in Obj : live[o1] /\ live[o2] /\ t_name[o1] = t_name[o2] => o1 = o2
    BY <1>4 DEF Init
  <2>4. \A o1, o2 \in Obj : live[o1] /\ live[o2] /\ t_id[o1] = t_id[o2] => o1 = o2
    BY DEF Init
  <2> QED
    BY <2>1, <2>2, <2>3, <2>4 DEF TableIdentity
<1> QED
  BY <1>3, <1>5 DEF IInv

-----------------------------------------------------------------------------
LEMMA NextIInv == IInv /\ [Next]_vars => IInv'
<1> SUFFICES ASSUME IInv, [Next]_vars PROVE IInv'
  OBVIOUS
<1> USE DEF IInv
<1>1. CASE UNCHANGED vars
  BY <1>1 DEF vars, TypeOK, TableIdentity
<1>2. ASSUME NEW n \in ConfNames, NEW cfg \in Configs \cup {NULL},
             table_static_update(n, cfg)
      PROVE  IInv'
  <2>0. /\ Resolve(n) \in Obj
        /\ live[Resolve(n)]
        /\ t_name[Resolve(n)] = n
    BY ResolveLive
  <2>1. CASE cfg = NULL /\ UpdateNoConfig(n)
    <3>1. UNCHANGED <<tables, held>>
      BY <2>1 DEF UpdateNoConfig
    <3>2. reply'.op \in Ops /\ reply'.ret \in {-1, 0, 1}
      BY <2>1 DEF UpdateNoConfig, Reply, Ops
    <3> QED
      BY <3>1, <3>2 DEF tables, TypeOK, TableIdentity
  <2>2. CASE UpdateSwap(n, cfg)
    <3> DEFINE o == Resolve(n)
               id == last_id + 1
    <3>1. PICK t \in Obj :
            /\ ~live[t]
            /\ live' = [live EXCEPT ![t] = TRUE, ![o] = FALSE]
            /\ t_name' = [t_name EXCEPT ![t] = t_name[o], ![o] = DynName(id)]
            /\ t_id' = [t_id EXCEPT ![t] = t_id[o], ![o] = id]
            /\ t_contents' = [t_contents EXCEPT ![t] = ConfigEntries(cfg)]
      BY <2>2 DEF UpdateSwap
    <3>2. /\ last_id' = id
          /\ reply' = Reply("update", n, Garbage, 1, NULL, t_name[o])
          /\ UNCHANGED held
      BY <2>2 DEF UpdateSwap
    <3>3. t # o
      BY <2>0, <3>1
    <3>4. TypeOK'
      <4>1. id \in Nat /\ DynName(id) \in Names
        BY DEF TypeOK, DynName, Names
      <4>2. live' \in [Obj -> BOOLEAN]
        BY <3>1 DEF TypeOK
      <4>3. t_name' \in [Obj -> Names \cup {Garbage}]
        BY <2>0, <3>1, <4>1 DEF TypeOK
      <4>4. t_id' \in [Obj -> Nat]
        BY <2>0, <3>1, <4>1 DEF TypeOK
      <4>5. t_contents' \in [Obj -> Seq(Entry)]
        BY <3>1, ConfigEntriesType DEF TypeOK
      <4>6. reply'.op \in Ops /\ reply'.ret \in {-1, 0, 1}
        BY <3>2 DEF Reply, Ops
      <4> QED
        BY <3>2, <4>1, <4>2, <4>3, <4>4, <4>5, <4>6 DEF TypeOK
    <3>5. \A x \in Obj : live'[x] <=> (live[x] /\ x # o) \/ x = t
      BY <2>0, <3>1, <3>3 DEF TypeOK
    <3>6. \A x \in Obj : live'[x] => /\ t_name'[x] = t_name[IF x = t THEN o ELSE x]
                                     /\ t_id'[x] = t_id[IF x = t THEN o ELSE x]
      BY <2>0, <3>1, <3>3, <3>5 DEF TypeOK
    <3>7. TableIdentity'
      <4>1. \A m \in ConfNames : \E x \in Obj : live'[x] /\ t_name'[x] = m
        <5> TAKE m \in ConfNames
        <5>1. PICK y \in Obj : live[y] /\ t_name[y] = m
          BY DEF TableIdentity
        <5>2. CASE y = o
          BY <5>1, <5>2, <3>5, <3>6
        <5>3. CASE y # o
          BY <5>1, <5>3, <3>1, <3>5, <3>6
        <5> QED
          BY <5>2, <5>3
      <4>2. \A x \in Obj : live'[x] => t_name'[x] \in ConfNames
        BY <2>0, <3>5, <3>6 DEF TableIdentity
      <4>3. ASSUME NEW x1 \in Obj, NEW x2 \in Obj, live'[x1], live'[x2],
                   t_name'[x1] = t_name'[x2] \/ t_id'[x1] = t_id'[x2]
            PROVE  x1 = x2
        <5> DEFINE y1 == IF x1 = t THEN o ELSE x1
                   y2 == IF x2 = t THEN o ELSE x2
        <5>1. y1 \in Obj /\ y2 \in Obj /\ live[y1] /\ live[y2]
          BY <2>0, <3>5, <4>3
        <5>2. t_name[y1] = t_name[y2] \/ t_id[y1] = t_id[y2]
          BY <3>6, <4>3
        <5>3. y1 = y2
          BY <5>1, <5>2 DEF TableIdentity
        <5>4. x1 # o /\ x2 # o
          BY <3>3, <3>5, <4>3
        <5> QED
          BY <5>3, <5>4
      <4> QED
        BY <4>1, <4>2, <4>3 DEF TableIdentity
    <3> QED
      BY <3>4, <3>7
  <2>3. CASE UpdateFail(n, cfg)
    <3> DEFINE id == last_id + 1
    <3>1. PICK t \in Obj :
            /\ ~live[t]
            /\ t_name' = [t_name EXCEPT ![t] = DynName(id)]
            /\ t_id' = [t_id EXCEPT ![t] = id]
            /\ t_contents' = [t_contents EXCEPT ![t] = ConfigEntries(cfg)]
      BY <2>3 DEF UpdateFail
    <3>2. /\ last_id' = id
          /\ \E g \in {Garbage} \cup {t_name[x] : x \in Obj} :
               reply' = Reply("update", n, Garbage, 0, NULL, g)
          /\ UNCHANGED <<live, held>>
      BY <2>3 DEF UpdateFail
    <3>3. TypeOK'
      BY <3>1, <3>2, ConfigEntriesType DEF TypeOK, Names, DynName, Reply, Ops
    <3>4. \A x \in Obj : live'[x] => t_name'[x] = t_name[x] /\ t_id'[x] = t_id[x]
      BY <3>1, <3>2 DEF TypeOK
    <3>5. TableIdentity'
      BY <3>2, <3>4 DEF TableIdentity
    <3> QED
      BY <3>3, <3>5
  <2> QED
    BY <1>2, <2>1, <2>2, <2>3 DEF table_static_update
<1>3. ASSUME NEW n \in ConfNames, NEW key \in Keys, NEW kind \in Kinds,
             NEW wantRec \in BOOLEAN, table_static_lookup(n, key, kind, wantRec)
      PROVE  IInv'
  <2>1. UNCHANGED <<tables, held>>
    BY <1>3 DEF table_static_lookup
  <2>2. reply'.op \in Ops /\ reply'.ret \in {-1, 0, 1}
    <3> DEFINE o == Resolve(n)
               i == FirstEntry(o, key)
               line == t_contents[o][i].val
    <3>1. Decode(kind, key, line, StaticLen(line)).ret \in {-1, 0, 1}
      BY DecodeRetType
    <3> QED
      BY <1>3, <3>1 DEF table_static_lookup, LookupExists, LookupAbsent,
                        LookupNoMem, LookupDecode, Reply, Ops
  <2> QED
    BY <2>1, <2>2 DEF tables, TypeOK, TableIdentity
<1>4. ASSUME NEW n \in ConfNames, NEW key \in Keys, NEW func \in Funcs,
             table_static_compare(n, key, func)
      PROVE  IInv'
  BY <1>4 DEF table_static_compare, tables, TypeOK, TableIdentity, Reply, Ops
<1> QED
  BY <1>1, <1>2, <1>3, <1>4 DEF Next

-----------------------------------------------------------------------------
\* Every reachable state of the static backend is well typed.
THEOREM TypeCorrect == Spec => []TypeOK
<1>1. Spec => []IInv
  BY InitIInv, NextIInv, PTL DEF Spec
<1> QED
  BY <1>1, PTL DEF IInv

\* In every reachable state, however many updates succeeded or failed,
\* each configured name designates exactly one live table, every live
\* table carries a configured name, and live tables have distinct ids
\* (the name and id swap of table_static_update keeps both).
THEOREM IdentityInvariant == Spec => []TableIdentity
<1>1. Spec => []IInv
  BY InitIInv, NextIInv, PTL DEF Spec
<1> QED
  BY <1>1, PTL DEF IInv
=============================================================================
