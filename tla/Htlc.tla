-------------------------------- MODULE Htlc --------------------------------
(***************************************************************************)
(* Hash time-locked contracts.  A script is an owner like any other: it      *)
(* names who may take the token back after a deadline (sender), who may      *)
(* claim it before that with the preimage of a hash (recipient), and the     *)
(* hash.  Locking a token puts the hash into the metadata of the transfer,   *)
(* claiming it puts the preimage there, under the hash.                      *)
(*                                                                          *)
(* The deadline is compared with the clock of the endorsing peer, once to    *)
(* verify a signature and once more to validate the transfer.  The clock is  *)
(* arbitrary here, except that it does not run backwards between the two:    *)
(* the signature of a recipient may still meet the second check as a reclaim, *)
(* the signature of a sender never meets it as a claim.                      *)
(***************************************************************************)
EXTENDS TokenRequest

CONSTANTS
    Hashes,
    Script          \* identities that are scripts -> their content

Scripts == DOMAIN Script

\* Metadata keys of a transfer that locks or claims.
LockKey(h) == <<"lock", h>>
ClaimKey(h) == <<"claim", h>>

ASSUME HtlcAssumption ==
    /\ Scripts \subseteq Parties
    /\ Script \in [Scripts -> [sender : Parties, recipient : Parties, hash : Hashes]]
    /\ \A h \in Hashes : {LockKey(h), ClaimKey(h)} \subseteq MetadataKeys

OwnedByScript(toks) == {i \in DOMAIN toks : toks[i].owner \in Scripts}

\* Which signatures the verifier of an owner accepts.  A recipient always signs
\* along with the preimage.
Verifies(owner, signer) ==
    IF owner \in Scripts THEN signer \in {Script[owner].sender, Script[owner].recipient}
                         ELSE signer = owner

\* The owner of the output decides between claim and reclaim, and the script of
\* the first input decides for all of them.
VerifyOwner(ins, a, op) ==
    /\ ins[1].owner \in Scripts
    /\ a.outputs[1].owner = IF op = "claim" THEN Script[ins[1].owner].recipient
                                            ELSE Script[ins[1].owner].sender

\* A token of a script only changes hands as a whole.
SpendsScript(ins, a, op) ==
    /\ NumOutputs(a) = 1
    /\ a.outputs[1].type = ins[1].type
    /\ a.outputs[1].quantity = ins[1].quantity
    /\ a.outputs[1].owner # NoOwner
    /\ VerifyOwner(ins, a, op)

HashesOf(toks) == {Script[toks[i].owner].hash : i \in OwnedByScript(toks)}

LocksAndClaims(ins, a, op) ==
    {LockKey(h) : h \in HashesOf(a.outputs)}
        \cup (IF op = "claim" THEN {ClaimKey(h) : h \in HashesOf(ins)} ELSE {})

\* Mistake: a claim may keep the preimage to itself.
MetadataIsAccountedForByLocks(ins, a, op) == a.metadata = LocksAndClaims(ins, a, "reclaim")

\* Every key of the metadata stands for one lock or one claim of the action.
MetadataIsAccountedFor(ins, a, op) == a.metadata = LocksAndClaims(ins, a, op)

KeyAppearsOnce(toks) ==
    \A i, j \in OwnedByScript(toks) :
        i # j => Script[toks[i].owner].hash # Script[toks[j].owner].hash

\* sigs are the signatures the validator took for the inputs.
TransferHTLCValidate(ins, a, sigs) ==
    \E op \in {"claim", "reclaim"} :
        /\ OwnedByScript(ins) # {} => SpendsScript(ins, a, op)
        /\ op = "claim" =>
              /\ KeyAppearsOnce(ins)
              /\ \A j \in OwnedByScript(ins) : sigs[j] = Script[ins[j].owner].recipient
        /\ KeyAppearsOnce(a.outputs)
        /\ MetadataIsAccountedFor(ins, a, op)
=============================================================================
