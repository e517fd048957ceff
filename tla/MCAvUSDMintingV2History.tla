---------------------- MODULE MCAvUSDMintingV2History ----------------------
(* alice's orders carry the signature of dora, whom she may trust or not. *)
EXTENDS AvUSDMintingV2History, MCAvUSDMintingV2

TrustOrders == {Signed("MINT", 1, alice, dai, 10, 1),
                Signed("MINT", 2, alice, dai, 19, 1),
                Signed("REDEEM", 3, alice, dai, 9, 1)}
ToMinting == {[addresses |-> <<Minting>>, ratios |-> <<3>>]}
DelegateSignature == {Key(dora)}
DoraRoles == {MINTER_ROLE, REDEEMER_ROLE} \X {dora}
=============================================================================
