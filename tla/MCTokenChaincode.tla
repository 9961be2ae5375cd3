-------------------------- MODULE MCTokenChaincode --------------------------
(***************************************************************************)
(* A small history of requests for the token chaincode: two issues in one   *)
(* request (t1), competing transfers of one token (t2, t3), a redeem (t2,    *)
(* t4), a request that issues and transfers (t6), requests that claim the    *)
(* same metadata key (t1 and t5; t4 and t9), one whose outputs are worth more  *)
(* than its input, but as much modulo 4 (t7), and a token locked under a hash    *)
(* (t4) that is claimed (t10),                                              *)
(* reclaimed (t11) or claimed without the preimage (t12), and a request     *)
(* that names one token in two places (t13).                                *)
(***************************************************************************)
EXTENDS TokenChaincode

CONSTANTS t1, t2, t3, t4, t5, t6, t7, t8, t9, t10, t11, t12, t13, alice, bob, bank, auditor, ab, ba,
          usd, m1, h

out(o, q) == [owner |-> o, type |-> usd, quantity |-> q]
issue(outs, meta) == [issuer |-> bank, inputs |-> << >>, outputs |-> outs, metadata |-> meta]
transfer(ins, outs, meta) ==
    [issuer |-> NoIssuer, inputs |-> ins, outputs |-> outs, metadata |-> meta]
req(is, ts, sigs) == [issues |-> is, transfers |-> ts, signatures |-> <<auditor>> \o sigs]

MCTxIds == {t1, t2, t3, t4, t5, t6, t7, t8, t9, t10, t11, t12, t13}
MCParties == {alice, bob, bank, auditor, ab, ba}

\* Scripts from alice to bob and from bob to alice, under the same hash.
MCScript == [s \in {ab, ba} |->
    IF s = ab THEN [sender |-> alice, recipient |-> bob, hash |-> h]
              ELSE [sender |-> bob, recipient |-> alice, hash |-> h]]
lock == <<"lock", h>>
claim == <<"claim", h>>
MCMetadataKeys == {m1, lock, claim}

MCRequest == [t \in MCTxIds |->
    CASE t = t1 -> req(<<issue(<<out(alice, 2), out(alice, 1)>>, {m1}),
                         issue(<<out(bob, 1)>>, {})>>, << >>, <<bank, bank>>)
      [] t = t2 -> req(<< >>, <<transfer(<<<<t1, 0>>>>, <<out(NoOwner, 1), out(bob, 1)>>, {}),
                                transfer(<<<<t1, 1>>>>, <<out(alice, 1)>>, {})>>,
                       <<alice, alice>>)
      [] t = t3 -> req(<< >>, <<transfer(<<<<t1, 1>>, <<t1, 0>>>>, <<out(bob, 3)>>, {})>>,
                       <<alice, alice>>)
      [] t = t4 -> req(<< >>, <<transfer(<<<<t2, 1>>>>, <<out(NoOwner, 1)>>, {}),
                                transfer(<<<<t1, 2>>>>, <<out(ba, 1)>>, {lock})>>,
                       <<bob, bob>>)
      [] t = t5 -> req(<<issue(<<out(alice, 1)>>, {m1})>>, << >>, <<bank>>)
      [] t = t6 -> req(<<issue(<<out(alice, 3)>>, {})>>,
                       <<transfer(<<<<t1, 2>>>>, <<out(bob, 1)>>, {})>>, <<bank, bob>>)
      [] t = t7 -> req(<< >>, <<transfer(<<<<t1, 1>>>>, <<out(bob, 3), out(bob, 2)>>, {})>>,
                       <<alice>>)
      [] t = t8 -> req(<<issue(<<out(alice, 1)>>, {})>>, << >>, <<bank>>)
      [] t = t9 -> req(<< >>, <<transfer(<<<<t8, 0>>>>, <<out(ab, 1)>>, {lock})>>, <<alice>>)
      [] t = t10 -> req(<< >>, <<transfer(<<<<t4, 1>>>>, <<out(alice, 1)>>, {claim})>>, <<alice>>)
      [] t = t11 -> req(<< >>, <<transfer(<<<<t4, 1>>>>, <<out(bob, 1)>>, {})>>, <<bob>>)
      [] t = t12 -> req(<< >>, <<transfer(<<<<t4, 1>>>>, <<out(alice, 1)>>, {})>>, <<alice>>)
      [] t = t13 -> req(<< >>, <<transfer(<<<<t8, 0>>, <<t8, 0>>>>, <<out(bob, 2)>>, {})>>,
                        <<alice, alice>>)]
=============================================================================
