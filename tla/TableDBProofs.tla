--------------------------- MODULE TableDBProofs ---------------------------
(***************************************************************************)
(* Proofs about the db backend, for every file contents, every set of     *)
(* keys and predicates, and with or without store failures: every         *)
(* reachable state is well typed and no answer is made up.                *)
(*                                                                         *)
(* DbAnswerSound is not inductive alone: a lookup's step keeps it only    *)
(* because the key it answers for is a key of the store's domain and the *)
(* decoder's result is -1, 0 or 1 (TypeOK).  IInv is their conjunction.   *)
(***************************************************************************)
EXTENDS TableDB, TableDecodeLemmas, TLAPS

IInv == TypeOK /\ DbAnswerSound

LEMMA InitIInv == Init => IInv
BY DbAssumption DEF Init, IInv, TypeOK, DbAnswerSound, Reply

\* Steps that leave the store and the reply alone keep the invariant.
LEMMA ReplyUnchanged ==
  ASSUME IInv, UNCHANGED <<store, reply>>,
         hdl' \in {"closed", "db", NULL},
         proc' \in {"running", "exited", "crashed"}
  PROVE  IInv'
BY DEF IInv, TypeOK, DbAnswerSound, Stored

LEMMA NextIInv == IInv /\ [Next]_vars => IInv'
<1> SUFFICES ASSUME IInv, [Next]_vars PROVE IInv'
  OBVIOUS
<1> USE DEF IInv
<1>1. CASE UNCHANGED vars
  BY <1>1 DEF vars, TypeOK, DbAnswerSound, Stored
<1>2. CASE table_db_open
  BY <1>2, ReplyUnchanged DEF table_db_open, TypeOK
<1>3. CASE table_db_close
  BY <1>3, ReplyUnchanged DEF table_db_close, TypeOK
<1>4. CASE table_db_update
  BY <1>4 DEF table_db_update, TypeOK, DbAnswerSound, Stored, Reply
<1>5. ASSUME NEW key \in Keys, NEW kind \in Kinds, NEW wantRec \in BOOLEAN,
             table_db_lookup(key, kind, wantRec)
      PROVE  IInv'
  <2>1. CASE LookupNullHandle(key, kind, wantRec)
    BY <1>5, <2>1, ReplyUnchanged DEF table_db_lookup, LookupNullHandle, TypeOK
  <2>2. CASE LookupKeyTooLong(key, kind, wantRec)
    BY <1>5, <2>2, ReplyUnchanged DEF table_db_lookup, LookupKeyTooLong, TypeOK
  <2>3. CASE LookupNotFound(key, kind, wantRec)
    BY <1>5, <2>3 DEF table_db_lookup, LookupNotFound, TypeOK, DbAnswerSound,
                      Stored, Reply
  <2>4. CASE LookupDecode(key, kind, wantRec)
    <3> DEFINE line == store[key]
               d    == DbDecode(kind, key, line)
    <3>1. d.ret \in {-1, 0, 1}
      BY DecodeRetType DEF DbDecode
    <3>2. UNCHANGED <<store, hdl>>
      BY <1>5 DEF table_db_lookup
    <3>3. CASE ~wantRec /\ WritesRetp(kind, line, DbLen(line))
      BY <2>4, <3>2, <3>3, ReplyUnchanged DEF LookupDecode, TypeOK
    <3>4. CASE ~(~wantRec /\ WritesRetp(kind, line, DbLen(line)))
      <4>1. /\ reply' = Reply("lookup", key, kind, Garbage, d.ret,
                              IF wantRec THEN d.retp ELSE NULL)
            /\ line # Absent
            /\ UNCHANGED proc
        BY <2>4, <3>4 DEF LookupDecode
      <4>2. TypeOK'
        BY <3>1, <3>2, <4>1 DEF TypeOK, Reply
      <4>3. DbAnswerSound'
        BY <3>2, <4>1 DEF DbAnswerSound, Reply
      <4> QED
        BY <4>2, <4>3
    <3> QED
      BY <3>3, <3>4
  <2> QED
    BY <1>5, <2>1, <2>2, <2>3, <2>4 DEF table_db_lookup
<1>6. ASSUME NEW key \in Keys, NEW func \in Funcs, table_db_compare(key, func)
      PROVE  IInv'
  <2>1. UNCHANGED <<store, hdl>>
    BY <1>6 DEF table_db_compare
  <2>2. CASE hdl = NULL
    BY <1>6, <2>1, <2>2, ReplyUnchanged DEF table_db_compare, TypeOK
  <2>3. CASE hdl # NULL
    <3>1. PICK ret \in {0, 1} :
            /\ reply' = Reply("compare", key, Garbage, func, ret, NULL)
            /\ ret = 1 => \E k \in Stored : <<key, k>> \in func
      BY <1>6, <2>3 DEF table_db_compare, CompareScan
    <3>2. UNCHANGED proc
      BY <1>6, <2>3 DEF table_db_compare
    <3> QED
      BY <2>1, <3>1, <3>2 DEF TypeOK, DbAnswerSound, Stored, Reply
  <2> QED
    BY <2>2, <2>3
<1> QED
  BY <1>1, <1>2, <1>3, <1>4, <1>5, <1>6 DEF Next

-----------------------------------------------------------------------------
\* Every reachable state of the db backend is well typed.
THEOREM DbTypeCorrect == Spec => []TypeOK
<1>1. Spec => []IInv
  BY InitIInv, NextIInv, PTL DEF Spec
<1> QED
  BY <1>1, PTL DEF IInv

\* Whatever the file holds and however get, seq and dbopen fail, a db
\* lookup that answers 1 or -1 answers from the value stored under the key
\* asked for, and a compare that answers 1 has a stored key the predicate
\* accepts: the truncation errx prevents and the failures of the store can
\* never make the backend answer for a key it does not hold.
THEOREM DbAnswersSound == Spec => []DbAnswerSound
<1>1. Spec => []IInv
  BY InitIInv, NextIInv, PTL DEF Spec
<1> QED
  BY <1>1, PTL DEF IInv
=============================================================================
