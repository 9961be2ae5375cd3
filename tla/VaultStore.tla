------------------------------ MODULE VaultStore ------------------------------
(***************************************************************************)
(* The tokens in the vault of a node.  The vault is a store of composite keys;  *)
(* it is modelled as the set of its keys.  What a key holds follows from the    *)
(* token it names, except for the key of a deleted token, which comes with       *)
(* whoever deleted it.  A token that belongs to wallets has one key of its own    *)
(* and one for each of the wallets, so that a wallet is listed by a range scan.   *)
(***************************************************************************)
EXTENDS Integers, Sequences

AnyType == "any type"       \* no type is given to a query

CreateFabTokenKey(id)                 == <<"token", id>>
CreateExtendedFabTokenKey(w, typ, id) == <<"etoken", w, typ, id>>
CreateDeletedTokenKey(id, who)        == <<"deltoken", id, who>>
CreateAuditTokenKey(id)               == <<"audittoken", id>>
CreateIssuedHistoryTokenKey(id)       == <<"issued", id>>
CreateTokenMineKey(id)                == <<"mine", id>>

GetTokenIdFromKey(key) == key[2]
GetTokenIdFromExtendedKey(key) == key[4]

\* A range scan from a key to that key followed by the largest rune.
GetStateRangeScanIterator(keys, start) ==
    {key \in keys : \A i \in DOMAIN start : i \in DOMAIN key /\ key[i] = start[i]}

-----------------------------------------------------------------------------
\* Writes.  IDs are the wallets in the metadata of a token.

\* Mistake: the keys of the wallets are left behind.
DeleteFabTokenOnly(keys, id, typ, IDs) ==
    {CreateFabTokenKey(id)} \cup GetStateRangeScanIterator(keys, <<"deltoken", id>>)

\* What deleting a token removes.  Of a token that is not there it removes little,
\* since the metadata is missing too.
DeleteFabToken(keys, id, typ, IDs) ==
    {CreateFabTokenKey(id)}
        \cup (IF CreateFabTokenKey(id) \in keys
              THEN {CreateExtendedFabTokenKey(w, typ, id) : w \in IDs} ELSE {})
        \cup GetStateRangeScanIterator(keys, <<"deltoken", id>>)

StoreFabToken(id, typ, IDs) ==
    {CreateTokenMineKey(id), CreateFabTokenKey(id)}
        \cup {CreateExtendedFabTokenKey(w, typ, id) : w \in IDs}
StoreAuditToken(id) == {CreateAuditTokenKey(id)}
StoreIssuedHistoryToken(id) == {CreateIssuedHistoryTokenKey(id)}

-----------------------------------------------------------------------------
\* Queries.

UnspentTokensIterator(keys) ==
    {GetTokenIdFromKey(key) : key \in GetStateRangeScanIterator(keys, <<"token">>)}

UnspentTokensIteratorBy(keys, w, typ) ==
    {GetTokenIdFromExtendedKey(key) :
        key \in GetStateRangeScanIterator(keys,
                    IF typ = AnyType THEN <<"etoken", w>> ELSE <<"etoken", w, typ>>)}

\* Answers for each of the ids; a token that is missing is an error.
GetTokens(keys, ids) == \A id \in ids : CreateFabTokenKey(id) \in keys
ListAuditTokens(keys, ids) == \A id \in ids : CreateAuditTokenKey(id) \in keys

ListHistoryIssuedTokens(keys) ==
    {GetTokenIdFromKey(key) : key \in GetStateRangeScanIterator(keys, <<"issued">>)}

WhoDeletedTokens(keys, id) ==
    {key[3] : key \in GetStateRangeScanIterator(keys, <<"deltoken", id>>)}
=============================================================================
