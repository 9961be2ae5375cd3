------------------------------ MODULE MCFungible ------------------------------
(***************************************************************************)
(* Three nodes: that of the bank, which issues and audits, and those of alice   *)
(* and bob; on an Orion network a custodian besides.                            *)
(***************************************************************************)
EXTENDS FungibleViews

CONSTANTS g, i1, i2, t1, s1, p1, r1, alice, savings, bob, bank, main, other, usd, eur, nA, nB, nBank, custodian, net

out(o, ty, q) == [owner |-> o, type |-> ty, quantity |-> q]
issue(outs) == [issuer |-> bank, inputs |-> << >>, outputs |-> outs, metadata |-> {}]
transfer(ins, outs) ==
    [issuer |-> NoIssuer, inputs |-> ins, outputs |-> outs, metadata |-> {}]
req(is, ts) == [issues |-> is, transfers |-> ts, signatures |-> << >>]

\* g has happened: alice has 3 usd, bob 2 eur, savings 1 eur; but the node of alice,
\* where savings is another wallet, was sent only the openings of alice.  t1 and s1 are to spend alice's usd,
\* r1 and s1 bob's eur; p1 spends what i1 issues to alice, i2 issues to bob.
AllRequests ==
       g  :> req(<<issue(<<out(alice, usd, 3), out(bob, eur, 2), out(savings, eur, 1)>>)>>, << >>)
    @@ i1 :> req(<<issue(<<out(alice, usd, 2)>>)>>, << >>)
    @@ i2 :> req(<<issue(<<out(bob, usd, 2)>>)>>, << >>)
    @@ t1 :> req(<< >>, <<transfer(<<<<g, 0>>>>, <<out(bob, usd, 2), out(savings, usd, 1)>>)>>)
    @@ s1 :> req(<< >>, <<transfer(<<<<g, 0>>>>, <<out(bob, usd, 3)>>),
                          transfer(<<<<g, 1>>>>, <<out(alice, eur, 2)>>)>>)
    @@ p1 :> req(<< >>, <<transfer(<<<<i1, 0>>>>, <<out(bob, usd, 2)>>)>>)
    @@ r1 :> req(<< >>, <<transfer(<<<<g, 1>>>>, <<out(NoOwner, eur, 1), out(bob, eur, 1)>>)>>)

AllInitiators ==
    g :> nBank @@ i1 :> nBank @@ i2 :> nBank @@ t1 :> nA @@ s1 :> nA
    @@ p1 :> nA @@ r1 :> nB
AllResponders ==
    g :> nA @@ i1 :> nA @@ i2 :> nB @@ t1 :> nB @@ s1 :> nB @@ p1 :> nB
    @@ r1 :> NoNode
AllViews ==
    g :> "issue" @@ i1 :> "issue" @@ i2 :> "issue" @@ t1 :> "selector"
    @@ s1 :> "swap" @@ p1 :> "prepared" @@ r1 :> "redeem"

MCRequest == [t \in TxIds |-> AllRequests[t]]
MCInitiator == [t \in TxIds |-> AllInitiators[t]]
MCResponder == [t \in TxIds |-> AllResponders[t]]
MCView == [t \in TxIds |-> AllViews[t]]
MCNetworkOf == [t \in TxIds |-> net]
AllWalletsOf == alice :> {<<nA, main>>} @@ savings :> {<<nA, other>>} @@ bob :> {<<nB, main>>}
    @@ bank :> {<<nBank, main>>}
AllQuotas == usd :> 5 @@ eur :> 9

MCEnrollmentID == [p \in Parties |-> p]
MCAssemblers ==
    [t \in TxIds |-> {AllInitiators[t]} \cup (IF AllViews[t] = "swap" THEN {AllResponders[t]} ELSE {})]
MCWalletsOf == [p \in Parties |-> AllWalletsOf[p]]
MCQuota == [ty \in TokenTypes |-> AllQuotas[ty]]
MCProgram == [t \in TxIds |-> Programs[t]]
MCGenesis == [k \in Networks |-> <<g>>]
=============================================================================
