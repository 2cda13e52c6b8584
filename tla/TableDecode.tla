---------------------------- MODULE TableDecode ----------------------------
(***************************************************************************)
(* The record decoders of the lookup tables.  table_static_credentials,    *)
(* table_static_alias, table_static_virtual and table_static_netaddr       *)
(* (src/unnamed/part_000, the static backend) turn the raw value stored    *)
(* under a key into the record a lookup returns; table_db_credentials,     *)
(* ..._alias, ..._virtual and ..._netaddr (src/smtpd/table_db.c) repeat    *)
(* them line for line.  They differ in one input only, the length `len`   *)
(* their caller passes: strlen of the value for the static backend, the   *)
(* size of the stored datum for the db backend (StaticLen, DbLen).        *)
(*                                                                         *)
(* A raw value or a key is a sequence of one-character strings.  " "      *)
(* stands for every character isspace() accepts.  A decoder returns the    *)
(* int the C function returns (1, 0 or -1) and the record it leaves in    *)
(* *retp (NULL when it leaves none).  An expansion node is abstracted to  *)
(* the trimmed token alias_parse() was given.                              *)
(***************************************************************************)
EXTENDS Integers, Sequences, SequencesExt

CONSTANTS
  MAX_LINE_SIZE,      \* smtpd.h: longest line of an SMTP session
  USERNAME_SIZE,      \* sizeof(struct table_credentials.username)
  PASSWORD_SIZE,      \* sizeof(struct table_credentials.password)
  alias_parse(_),     \* parser of one recipient token (external, spec 6)
  text_to_netaddr(_), \* parser of an address/CIDR text (external, spec 6)
  NULL                \* the NULL pointer

ASSUME SizeAssumption ==
  /\ MAX_LINE_SIZE \in Nat
  /\ USERNAME_SIZE \in Nat
  /\ PASSWORD_SIZE \in Nat

\* enum table_service: the lookup kinds the four decoders serve
Kinds == {"K_ALIAS", "K_VIRTUAL", "K_CREDENTIALS", "K_NETADDR"}

\* What a decoder returns: its int result and what it stores in *retp.
Result(ret, rec) == [ret |-> ret, retp |-> rec]

-----------------------------------------------------------------------------
(* The `len` argument of the decoders.                                     *)

\* table_static_lookup: len = strlen(line) of the strdup'ed value.
StaticLen(line) == Len(line)

\* table_db_get_entry: *len = dbv.size.  The decoders apply strchr, strsep
\* and text_to_netaddr to the xmemdup'ed datum, which gets no terminator
\* appended, so the stored datum carries its '\0' and its size is one more
\* than the length of the value (as the key, stored with strlen + 1).
DbLen(line) == Len(line) + 1

-----------------------------------------------------------------------------
(* table_static_credentials: "user:password", split at the first ':'.     *)

\* strchr(line, ':') as an index into line, 0 when line has no ':'.
FirstColon(line) == SelectInSeq(line, LAMBDA c : c = ":")

\* Mutant of DecodeCredentials: no check that the ':' is not the last
\* character.
DecodeCredentialsNoEndCheck(line, len) ==
  LET p        == FirstColon(line)
      username == SubSeq(line, 1, p - 1)
      password == SubSeq(line, p + 1, Len(line))
  IN  IF \/ len < 3 \/ len >= MAX_LINE_SIZE \/ p = 0 \/ p = 1
         \/ Len(username) >= USERNAME_SIZE \/ Len(password) >= PASSWORD_SIZE
      THEN Result(-1, NULL)
      ELSE Result(1, [username |-> username, password |-> password])

\* The checks before the record is allocated: past them the decoder writes
\* *retp on every path.
CredentialsShape(line, len) ==
  LET p == FirstColon(line)
  IN  /\ 3 <= len
      /\ len < MAX_LINE_SIZE
      /\ p # 0
      /\ p # 1 /\ p # len                     \* p == line || p == line+len-1

DecodeCredentials(line, len) ==
  LET p        == FirstColon(line)
      username == SubSeq(line, 1, p - 1)
      password == SubSeq(line, p + 1, Len(line))
  IN  IF \/ ~CredentialsShape(line, len)
         \/ Len(username) >= USERNAME_SIZE      \* strlcpy would truncate
         \/ Len(password) >= PASSWORD_SIZE
      THEN Result(-1, NULL)
      ELSE Result(1, [username |-> username, password |-> password])

\* What spec 4.1 asks of the decoding out of a credential value line: a
\* record iff line is user:password split at its first ':' with both parts
\* non-empty, the whole shorter than MAX_LINE_SIZE and each part fitting
\* its field, the record holding exactly the two parts; else -1.
CredentialsSpec(line, out) ==
  LET ColonAt(j) == line[j] = ":" /\ \A i \in 1 .. j - 1 : line[i] # ":"
      Split(j)   == /\ ColonAt(j)
                    /\ 1 < j /\ j < Len(line)
                    /\ Len(line) < MAX_LINE_SIZE
                    /\ j - 1 < USERNAME_SIZE
                    /\ Len(line) - j < PASSWORD_SIZE
  IN  IF \E j \in 1 .. Len(line) : Split(j)
      THEN \E j \in 1 .. Len(line) :
             /\ Split(j)
             /\ out = Result(1, [username |-> SubSeq(line, 1, j - 1),
                                 password |-> SubSeq(line, j + 1, Len(line))])
      ELSE out.ret = -1

-----------------------------------------------------------------------------
(* table_static_alias and table_static_virtual: a ','-separated list of   *)
(* recipients, cut with strsep, each token trimmed and parsed.            *)

\* The positions of the ',' that strsep(&line, ",") cuts line at, in order.
Separators(line) ==
  SelectSeq([i \in 1 .. Len(line) |-> i], LAMBDA i : line[i] = ",")

\* The successive tokens strsep returns until it returns NULL: n separators
\* give n + 1 tokens, the empty ones included.
Tokens(line) ==
  LET sep      == Separators(line)
      n        == Len(sep) + 1
      Bound(k) == IF k = 0 THEN 0 ELSE IF k = n THEN Len(line) + 1 ELSE sep[k]
  IN  [k \in 1 .. n |-> SubSeq(line, Bound(k - 1) + 1, Bound(k) - 1)]

\* Mutant of Trim: the trailing whitespace is left in place.
TrimLeadingOnly(tok) ==
  LET kept == {i \in 1 .. Len(tok) : tok[i] # " "}
  IN  IF kept = {} THEN << >> ELSE SubSeq(tok, Min(kept), Len(tok))

\* subrcpt after the loops that strip its leading and trailing whitespace.
Trim(tok) ==
  LET kept == {i \in 1 .. Len(tok) : tok[i] # " "}
  IN  IF kept = {} THEN << >> ELSE SubSeq(tok, Min(kept), Max(kept))

\* The nodes expand_insert accumulates, one per token, in token order.
ExpandNodes(line) == [k \in DOMAIN Tokens(line) |-> Trim(Tokens(line)[k])]

\* The loop runs to its end: no token is empty after the leading strip
\* (goto error) and alias_parse accepts every one (goto error).
ExpandOK(line) ==
  \A k \in DOMAIN ExpandNodes(line) :
    /\ ExpandNodes(line)[k] # << >>
    /\ alias_parse(ExpandNodes(line)[k])

\* struct table_alias / table_virtual: the expansion and its nbnodes count.
Expansion(line) ==
  [expand |-> ExpandNodes(line), nbnodes |-> Len(ExpandNodes(line))]

\* On error the partial expansion is freed and -1 returned.
DecodeAlias(line) ==
  IF ExpandOK(line) THEN Result(1, Expansion(line)) ELSE Result(-1, NULL)

\* A key without '@' is a domain key: its value is discarded and 1 returned
\* with *retp = NULL.  On error the partial expansion is freed and 0 (the
\* value table lookups use for "not found") returned.
DecodeVirtual(key, line) ==
  CASE ~Contains(key, "@") -> Result(1, NULL)
    [] ExpandOK(line)      -> Result(1, Expansion(line))
    [] OTHER               -> Result(0, NULL)

-----------------------------------------------------------------------------
(* table_static_netaddr: the whole value given to text_to_netaddr.        *)

DecodeNetaddr(line) ==
  IF text_to_netaddr(line) THEN Result(1, [netaddr |-> line])
                           ELSE Result(0, NULL)

\* The switch (kind) of table_static_lookup / table_db_lookup.
Decode(kind, key, line, len) ==
  CASE kind = "K_ALIAS"       -> DecodeAlias(line)
    [] kind = "K_CREDENTIALS" -> DecodeCredentials(line, len)
    [] kind = "K_VIRTUAL"     -> DecodeVirtual(key, line)
    [] kind = "K_NETADDR"     -> DecodeNetaddr(line)
=============================================================================
