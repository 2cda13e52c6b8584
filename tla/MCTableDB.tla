------------------------------ MODULE MCTableDB ------------------------------
(* The db backend over every file holding at most the three short keys,    *)
(* each with one of three values or absent, and lookups also made with a  *)
(* key of MAX_LINE_SIZE characters whose truncation is one of them.        *)
EXTENDS TableDB

UserKey   == <<"a", "@", "a">>
DomainKey == <<"a">>
Key4      == <<"a", "a", "a", "a">>
LongKey   == <<"a", "a", "a", "a", "a">>

MCKeys == {UserKey, DomainKey, Key4, LongKey}

Cred  == <<"a", ":", "a">>
Short == <<"a", ":">>
List  == <<"a", ",", "a">>

MCValues == {Cred, Short, List}

\* Files written by makemap: keys shorter than MAX_LINE_SIZE only.
MCStores == {s \in [MCKeys -> MCValues \cup {Absent}] : s[LongKey] = Absent}

MCFuncs == { {<<k, k>> : k \in MCKeys},
             {<<k, UserKey>> : k \in MCKeys} }

MCAliasParse(tok) == ~Contains(tok, " ")
MCNetaddr(s) == s # << >> /\ \A i \in 1 .. Len(s) : s[i] \in {"a", ":"}
=============================================================================
