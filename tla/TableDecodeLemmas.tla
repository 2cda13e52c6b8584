------------------------- MODULE TableDecodeLemmas -------------------------
(***************************************************************************)
(* Facts about the record decoders of TableDecode that the proofs about   *)
(* both backends cite.                                                     *)
(***************************************************************************)
EXTENDS TableDecode, WellFoundedInduction, TLAPS

\* Every decoder returns 1, 0 or -1, whatever the value and the len.
LEMMA DecodeRetType ==
  ASSUME NEW kind \in Kinds, NEW key, NEW line, NEW len
  PROVE  Decode(kind, key, line, len).ret \in {-1, 0, 1}
BY DEF Kinds, Decode, DecodeAlias, DecodeCredentials, DecodeVirtual,
       DecodeNetaddr, Result

\* A non-empty set of naturals has a least element, and Min picks it.
LEMMA NatSetMin ==
  ASSUME NEW T \in SUBSET Nat, T # {}
  PROVE  Min(T) \in T /\ \A y \in T : Min(T) <= y
<1>1. \E x \in T : \A y \in T : ~(<<y, x>> \in OpToRel(<, Nat))
  BY NatLessThanWellFounded, WFMin
<1>2. PICK x \in T : \A y \in T : ~(<<y, x>> \in OpToRel(<, Nat))
  BY <1>1
<1>3. \A y \in T : x <= y
  <2> TAKE y \in T
  <2>1. <<y, x>> \in OpToRel(<, Nat) <=> y < x
    BY DEF OpToRel
  <2>2. ~(y < x)
    BY <1>2, <2>1
  <2> QED
    BY <2>2
<1> QED
  BY <1>3 DEF Min

\* strchr(line, ':'): 0 when line has no ':', else the position of its
\* first ':'.
LEMMA FirstColonFacts ==
  ASSUME NEW S, NEW line \in Seq(S)
  PROVE  LET p == FirstColon(line)
         IN  \/ /\ p = 0
                /\ \A i \in 1 .. Len(line) : line[i] # ":"
             \/ /\ p \in 1 .. Len(line)
                /\ line[p] = ":"
                /\ \A i \in 1 .. p - 1 : line[i] # ":"
<1> DEFINE I == {i \in 1 .. Len(line) : line[i] = ":"}
<1>1. FirstColon(line) = IF I # {} THEN Min(I) ELSE 0
  BY DEF FirstColon, SelectInSeq
<1>2. CASE I = {}
  BY <1>1, <1>2
<1>3. CASE I # {}
  <2>0. I \in SUBSET Nat /\ I # {}
    BY <1>3
  <2>1. Min(I) \in I /\ \A y \in I : Min(I) <= y
    BY <2>0, NatSetMin
  <2>2. \A i \in 1 .. Min(I) - 1 : line[i] # ":"
    BY <2>1
  <2>3. Min(I) \in 1 .. Len(line) /\ line[Min(I)] = ":"
    BY <2>1
  <2> QED
    BY <1>1, <1>3, <2>2, <2>3
<1> QED
  BY <1>2, <1>3

\* table_static_credentials, given len = strlen(line) as
\* table_static_lookup passes it, decodes every credential value as spec
\* 4.1 says (CredentialsSpec, the contract CredentialsContract checks on
\* the runs): a record of the two parts iff the value is user:password
\* split at its first ':' with both parts non-empty and within their
\* bounds, -1 otherwise.  This holds for every size of the buffers.
THEOREM StaticCredentialsSound ==
  ASSUME NEW S, NEW line \in Seq(S)
  PROVE  CredentialsSpec(line, DecodeCredentials(line, StaticLen(line)))
<1> DEFINE len        == Len(line)
           p          == FirstColon(line)
           user       == SubSeq(line, 1, p - 1)
           pass       == SubSeq(line, p + 1, len)
           ColonAt(j) == line[j] = ":" /\ \A i \in 1 .. j - 1 : line[i] # ":"
           Split(j)   == /\ ColonAt(j)
                         /\ 1 < j /\ j < len
                         /\ len < MAX_LINE_SIZE
                         /\ j - 1 < USERNAME_SIZE
                         /\ len - j < PASSWORD_SIZE
<1>1. \/ p = 0 /\ \A i \in 1 .. len : line[i] # ":"
      \/ p \in 1 .. len /\ ColonAt(p)
  BY FirstColonFacts
<1>2. \A j \in 1 .. len : ColonAt(j) => j = p
  BY <1>1
<1>6. Len(user) \in Nat /\ Len(pass) \in Nat
  <2>1. p \in Nat
    BY <1>1
  <2> QED
    BY <2>1
<1>3. ASSUME p \in 2 .. len - 1
      PROVE  Len(user) = p - 1 /\ Len(pass) = len - p
  BY <1>3
<1>4. CASE \E j \in 1 .. len : Split(j)
  <2>1. p \in 1 .. len /\ Split(p)
    BY <1>2, <1>4
  <2>2. Len(user) = p - 1 /\ Len(pass) = len - p
    BY <2>1, <1>3
  <2>3. CredentialsShape(line, len)
    BY <2>1 DEF CredentialsShape
  <2>4. DecodeCredentials(line, len) = Result(1, [username |-> user, password |-> pass])
    BY <2>2, <2>3, <2>1, SizeAssumption DEF DecodeCredentials
  <2> QED
    BY <1>4, <2>1, <2>4 DEF CredentialsSpec, StaticLen
<1>5. CASE ~\E j \in 1 .. len : Split(j)
  <2>1. ~(CredentialsShape(line, len) /\ Len(user) < USERNAME_SIZE
                                        /\ Len(pass) < PASSWORD_SIZE)
    <3> SUFFICES ASSUME CredentialsShape(line, len),
                        Len(user) < USERNAME_SIZE,
                        Len(pass) < PASSWORD_SIZE
                 PROVE  FALSE
      OBVIOUS
    <3>1. p \in 2 .. len - 1 /\ ColonAt(p) /\ len < MAX_LINE_SIZE
      BY <1>1 DEF CredentialsShape
    <3>2. Split(p)
      BY <3>1, <1>3, SizeAssumption
    <3>3. p \in 1 .. len
      BY <3>1
    <3> QED
      BY <3>2, <3>3, <1>5, Zenon
  <2>2. \/ ~CredentialsShape(line, len)
        \/ Len(user) >= USERNAME_SIZE
        \/ Len(pass) >= PASSWORD_SIZE
    <3>1. CASE ~CredentialsShape(line, len)
      BY <3>1
    <3>2. CASE CredentialsShape(line, len)
      <4>1. ~(Len(user) < USERNAME_SIZE /\ Len(pass) < PASSWORD_SIZE)
        BY <2>1, <3>2
      <4>2. \A a, b \in Nat : ~(a < USERNAME_SIZE /\ b < PASSWORD_SIZE)
                                => a >= USERNAME_SIZE \/ b >= PASSWORD_SIZE
        BY SizeAssumption
      <4> QED
        BY <4>1, <4>2, <1>6
    <3> QED
      BY <3>1, <3>2
  <2>3. DecodeCredentials(line, len).ret = -1
    BY <2>2 DEF DecodeCredentials, Result
  <2> QED
    BY <1>5, <2>3 DEF CredentialsSpec, StaticLen
<1> QED
  BY <1>4, <1>5
=============================================================================
