---------------------------- MODULE MCZkPipeline ----------------------------
(***************************************************************************)
(* An issue of two types, transfers with and without a rest, a swap, a     *)
(* redemption, and calls the token API or the verifiers refuse.  With one  *)
(* more wallet at bob's node, a payment to both of its wallets.            *)
(***************************************************************************)
EXTENDS ZkPipeline

CONSTANTS bank, alice, bob, bob1, nBank, nAlice, nBob, nAudit, A, B,
          mint, pay, swap, burn, mix, forge, mint1, split

call(k, w, ty, vs, to) == [kind |-> k, wallet |-> w, type |-> ty, values |-> vs, to |-> to, given |-> << >>]
named(c, ids) == [c EXCEPT !.given = ids]

AllCalls ==
       mint  :> <<call("issue", bank, A, <<3>>, <<alice>>), call("issue", bank, B, <<1>>, <<bob>>)>>
    @@ pay   :> <<call("transfer", alice, A, <<1>>, <<bob>>)>>
    @@ swap  :> <<call("transfer", alice, A, <<2>>, <<bob>>), call("transfer", bob, B, <<1>>, <<alice>>)>>
    @@ burn  :> <<call("redeem", bob, A, <<1>>, <<Nobody>>)>>
    @@ mix   :> <<named(call("transfer", bob, A, <<2>>, <<alice>>), << <<mint, 2>>, <<pay, 1>> >>)>>
    @@ forge :> <<named(call("driver", alice, A, <<2, 2>>, <<alice, bob>>), << <<mint, 1>> >>)>>
    @@ mint1 :> <<call("issue", bank, A, <<3>>, <<alice>>)>>
    @@ split :> <<call("transfer", alice, A, <<1, 1>>, <<bob, bob1>>)>>

MCCalls == [t \in TxIds |-> AllCalls[t]]
MCInitiator == [t \in TxIds |-> IF t \in {mint, mint1} THEN nBank
                                ELSE IF t \in {burn, mix} THEN nBob ELSE nAlice]
AllSeeds == mint :> 1 @@ pay :> 101 @@ swap :> 201 @@ burn :> 301 @@ mix :> 401 @@ forge :> 501
          @@ mint1 :> 601 @@ split :> 701
MCSeed == [t \in TxIds |-> AllSeeds[t]]
AllNodesOf == bank :> nBank @@ alice :> nAlice @@ bob :> nBob @@ bob1 :> nBob
MCNodeOf == [w \in Wallets |-> AllNodesOf[w]]
MCEnrollmentID == [w \in Wallets |-> w]
MCIssuers == {<<bank>>}
AllTypeHashes == A :> 5 @@ B :> 9
MCTypeHash == [ty \in {A, B} |-> AllTypeHashes[ty]]
MCSK == <<3, 8, 21>>
=============================================================================
