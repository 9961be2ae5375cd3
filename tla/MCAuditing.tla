------------------------------ MODULE MCAuditing ------------------------------
(***************************************************************************)
(* Requests for an auditor.  t1 issues a token to alice and one to bob; t2    *)
(* and t3 spend alice's token, t3 redeems part of it; t4 names the change of   *)
(* t2 in two places.  Alice pays in three of them, of which the window of the  *)
(* limit holds two.  All of them lock alice before bob, except t5, in which    *)
(* bob pays alice.                                                           *)
(***************************************************************************)
EXTENDS Auditing, TLC

CONSTANTS t1, t2, t3, t4, t5, alice, bob, bank, usd, eAlice, eBob, eBank

out(o, q) == [owner |-> o, type |-> usd, quantity |-> q]
issue(o, q) ==
    [issuer |-> bank, inputs |-> << >>, outputs |-> <<out(o, q)>>, metadata |-> {}]
transfer(ins, outs) ==
    [issuer |-> NoIssuer, inputs |-> ins, outputs |-> outs, metadata |-> {}]
req(is, ts) == [issues |-> is, transfers |-> ts, signatures |-> << >>]

AllRequests ==
       t1 :> req(<<issue(alice, 3), issue(bob, 2)>>, << >>)
    @@ t2 :> req(<< >>, <<transfer(<<<<t1, 0>>>>, <<out(bob, 2), out(alice, 1)>>)>>)
    @@ t3 :> req(<< >>, <<transfer(<<<<t1, 0>>>>, <<out(NoOwner, 1), out(bob, 2)>>)>>)
    @@ t4 :> req(<< >>, <<transfer(<<<<t2, 1>>, <<t2, 1>>>>, <<out(bob, 1), out(alice, 1)>>)>>)
    @@ t5 :> req(<< >>, <<transfer(<<<<t1, 1>>>>, <<out(alice, 2)>>)>>)

MCRequest == [t \in TxIds |-> AllRequests[t]]
AllEnrollmentIDs == alice :> eAlice @@ bob :> eBob @@ bank :> eBank
MCEnrollmentID == [p \in Parties |-> AllEnrollmentIDs[p]]
=============================================================================
