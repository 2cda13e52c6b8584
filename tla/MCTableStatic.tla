--------------------------- MODULE MCTableStatic ---------------------------
(***************************************************************************)
(* Model values for TableStatic: two configured tables in three memory     *)
(* blocks (one free block, so an update can allocate its replacement and   *)
(* later updates reuse freed blocks), a user key and a domain key, values  *)
(* for every decoder, and configurations with duplicate keys and one that  *)
(* fails to parse.                                                         *)
(***************************************************************************)
EXTENDS TableStatic, TLC

CONSTANTS o1, o2, o3, n1, n2

MCObj == {o1, o2, o3}
MCConfNames == {n1, n2}

UserKey == <<"a", "@", "a">>
DomainKey == <<"a">>
MCKeys == {UserKey, DomainKey}

\* a credential, an expansion list, and a list with an empty token
Cred == <<"a", ":", "a">>
List == <<"a", ",", "a">>
Bad == <<"a", ",", ",">>
MCValues == {Cred, List, Bad}

MCConfigs ==
  { [valid |-> TRUE,  entries |-> << [key |-> UserKey, val |-> Cred] >>],
    [valid |-> TRUE,  entries |-> << [key |-> DomainKey, val |-> List],
                                     [key |-> UserKey, val |-> Bad],
                                     [key |-> UserKey, val |-> List] >>],
    [valid |-> FALSE, entries |-> << [key |-> DomainKey, val |-> Cred] >>] }

\* key equality, and a predicate matching every user key
MCFuncs == { {<<k, k>> : k \in MCKeys}, {<<k, UserKey>> : k \in MCKeys} }

MCAliasParse(tok) == ~Contains(tok, " ")
MCNetaddr(s) == s # << >> /\ \A i \in 1 .. Len(s) : s[i] \in {"a", ":"}

Symmetry == Permutations(MCObj)
=============================================================================
