------------------------------ MODULE MCHtlcSwap ------------------------------
(***************************************************************************)
(* The initiator swaps its token on net1 for one of the responder on net2; the  *)
(* responder may also lock a second token of net2 for the initiator.             *)
(***************************************************************************)
EXTENDS HtlcSwap

CONSTANTS g1, g2, lock1, lock2, lock3, lock4, claim1, claim2, claim3, reclaim1, reclaim2,
          reclaim34, i1, i2, r1, r2, sc1, sc2, sc3, sc4, bank, usd, eur, h, h3, h4, nI, nR, nA, net1, net2

out(o, ty) == [owner |-> o, type |-> ty, quantity |-> 1]
issue(outs) == [issuer |-> bank, inputs |-> << >>, outputs |-> outs, metadata |-> {}]
spend(id, o, ty, md) ==
    [issuer |-> NoIssuer, inputs |-> <<id>>, outputs |-> <<out(o, ty)>>, metadata |-> md]
req(is, ts) == [issues |-> is, transfers |-> ts, signatures |-> << >>]

AllRequests ==
       g1       :> req(<<issue(<<out(i1, usd)>>)>>, << >>)
    @@ g2       :> req(<<issue(<<out(r2, eur), out(r2, eur)>>)>>, << >>)
    @@ lock1    :> req(<< >>, <<spend(<<g1, 0>>, sc1, usd, {LockKey(h)})>>)
    @@ lock2    :> req(<< >>, <<spend(<<g2, 0>>, sc2, eur, {LockKey(h)})>>)
    @@ lock3    :> req(<< >>, <<spend(<<g2, 1>>, sc3, eur, {LockKey(h3)})>>)
    @@ lock4    :> req(<< >>, <<spend(<<g2, 0>>, sc4, eur, {LockKey(h4)})>>)
    @@ claim1   :> req(<< >>, <<spend(<<lock1, 0>>, r1, usd, {ClaimKey(h)})>>)
    @@ claim2   :> req(<< >>, <<spend(<<lock2, 0>>, i2, eur, {ClaimKey(h)})>>)
    @@ claim3   :> req(<< >>, <<spend(<<lock3, 0>>, i2, eur, {ClaimKey(h3)})>>)
    @@ reclaim1 :> req(<< >>, <<spend(<<lock1, 0>>, i1, usd, {})>>)
    @@ reclaim2 :> req(<< >>, <<spend(<<lock2, 0>>, r2, eur, {})>>)
    @@ reclaim34 :> req(<< >>, <<spend(<<lock3, 0>>, r2, eur, {}), spend(<<lock4, 0>>, r2, eur, {})>>)

OnNet1 == {g1, lock1, claim1, reclaim1}
ByInitiator == {lock1, claim2, claim3, reclaim1}

MCRequest == [t \in TxIds |-> AllRequests[t]]
MCNetworkOf == [t \in TxIds |-> IF t \in OnNet1 THEN net1 ELSE net2]
MCBy == [t \in TxIds |-> IF t \in {g1, g2} THEN nA ELSE IF t \in ByInitiator THEN nI ELSE nR]
\* A wallet on each network for each of the two, named after its identity.
AllWalletsOf == i1 :> {<<nI, i1>>} @@ i2 :> {<<nI, i2>>} @@ r1 :> {<<nR, r1>>} @@ r2 :> {<<nR, r2>>}
    @@ bank :> {<<nA, bank>>}
    @@ sc1 :> {<<nI, senderWallet(i1)>>, <<nR, recipientWallet(r1)>>}
    @@ [s \in {sc2, sc3, sc4} |-> {<<nR, senderWallet(r2)>>, <<nI, recipientWallet(i2)>>}]
AllScripts ==
       sc1 :> [sender |-> i1, recipient |-> r1, hash |-> h]
    @@ sc2 :> [sender |-> r2, recipient |-> i2, hash |-> h]
    @@ sc3 :> [sender |-> r2, recipient |-> i2, hash |-> h3]
    @@ sc4 :> [sender |-> r2, recipient |-> i2, hash |-> h4]
MCWalletsOf == [p \in Parties |-> AllWalletsOf[p]]
MCEnrollmentID == [p \in Parties |-> IF p \in Scripts THEN AllScripts[p].recipient ELSE p]
MCAssemblers == [t \in TxIds |-> {MCBy[t]}]
MCScript == [s \in {sc1, sc2, sc3, sc4} |-> AllScripts[s]]
MCGenesis == [k \in Networks |-> IF k = net1 THEN <<g1>> ELSE <<g2>>]
MCMetadataKeys == {LockKey(x) : x \in Hashes} \cup {ClaimKey(x) : x \in Hashes}
=============================================================================
