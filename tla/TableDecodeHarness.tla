------------------------- MODULE TableDecodeHarness -------------------------
(***************************************************************************)
(* A harness in which one lookup hands one stored value to one decoder    *)
(* (the switch (kind) of table_static_lookup, src/unnamed/part_000), and  *)
(* the credential contract of the spec (section 4.1) on it.  The runs     *)
(* check the contract for both lengths a backend may pass; the theorem    *)
(* below proves it for the length the static backend passes.              *)
(***************************************************************************)
EXTENDS TableDecodeLemmas, TLAPS

CONSTANTS
  Lines,         \* the raw values a table may hold
  Keys,          \* the keys a lookup may be made with
  DecodeLen(_)   \* the len the backend passes: StaticLen or DbLen

VARIABLES
  line,          \* the value found under the key
  key,           \* the lookup key
  kind,          \* the table_service asked for
  out            \* what the decoder returned, NULL while it has not run

vars == <<line, key, kind, out>>

\* The values and keys are strings of one-character strings.
ASSUME HarnessAssumption == Lines \subseteq Seq(STRING) /\ Keys \subseteq Seq(STRING)

-----------------------------------------------------------------------------
(* The harness: a lookup has found `line` and calls the decoder of `kind`. *)

Init ==
  /\ line \in Lines
  /\ key \in Keys
  /\ kind \in Kinds
  /\ out = NULL

\* The switch (kind) of table_static_lookup, lines 150-170.
DecodeStep ==
  /\ out = NULL
  /\ out' = Decode(kind, key, line, DecodeLen(line))
  /\ UNCHANGED <<line, key, kind>>

Next == DecodeStep

Spec == Init /\ [][Next]_vars

-----------------------------------------------------------------------------
(* Properties.                                                             *)

\* Spec 4.1: a credential value decodes iff it is user:password split at
\* its first ':' with both parts non-empty, the whole shorter than
\* MAX_LINE_SIZE and each part fitting its field; the record then holds
\* exactly the two parts.  Anything else is a decode error (-1).
CredentialsContract ==
  (out # NULL /\ kind = "K_CREDENTIALS") => CredentialsSpec(line, out)
-----------------------------------------------------------------------------
(* Proof of the contract for the static backend.                          *)

\* The decoder has run on the value found, with the len the backend passes.
HInv ==
  /\ line \in Lines
  /\ kind \in Kinds
  /\ out # NULL => out = Decode(kind, key, line, DecodeLen(line))

LEMMA HInvInductive ==
  ASSUME HInv, [Next]_vars PROVE HInv'
BY DEF HInv, Next, DecodeStep, vars

\* With len = strlen(line), as table_static_lookup passes it, every
\* credential value the harness decodes meets the contract of spec 4.1
\* (the run decode_static checks CredentialsContract for values of up to
\* five characters; this holds for every value and buffer size).  The run
\* decode_db_credentials shows it fails for the len of the db backend.
THEOREM StaticCredentialsContract ==
  ASSUME \A l \in Lines : DecodeLen(l) = StaticLen(l)
  PROVE  Spec => []CredentialsContract
<1>1. Init => HInv  BY DEF Init, HInv
<1>2. HInv /\ [Next]_vars => HInv'  BY HInvInductive
<1>3. HInv => CredentialsContract
  <2> SUFFICES ASSUME HInv, out # NULL, kind = "K_CREDENTIALS"
               PROVE  CredentialsSpec(line, out)
    BY DEF CredentialsContract
  <2>1. line \in Seq(STRING)  BY HarnessAssumption DEF HInv
  <2>2. out = DecodeCredentials(line, StaticLen(line))  BY DEF HInv, Decode
  <2> QED  BY <2>1, <2>2, StaticCredentialsSound
<1> QED  BY <1>1, <1>2, <1>3, PTL DEF Spec
=============================================================================
