--------------------------- MODULE MCAvUSDMinting ---------------------------
(***************************************************************************)
(* A small instance of the first minting contract: alice wraps native      *)
(* coins and mints with them, cust and the contract itself are custodians  *)
(* that accept native coins, usdc is one that refuses them.                *)
(***************************************************************************)
EXTENDS AvUSDMinting

CONSTANTS olga, alice, dora, cust, usdc, dai

MCCaller == {olga, alice}
MCAsset == {dai, WAVAX, NATIVE_TOKEN}
MCAddress == MCCaller \cup MCAsset \cup {dora, usdc, cust, Zero, Minting, AvUSDToken}
MCRole == {DEFAULT_ADMIN_ROLE, MINTER_ROLE, REDEEMER_ROLE,
           COLLATERAL_MANAGER_ROLE, GATEKEEPER_ROLE}
MCMembers == [r \in MCRole |-> {olga}]
MCDecimals == [a \in {dai, WAVAX} |-> 2]
MCCollateral ==
    [asset \in MCAsset |-> [a \in MCAddress |->
        CASE asset = dai /\ a = alice            -> 3
          [] asset = NATIVE_TOKEN /\ a = alice   -> 4
          [] asset = NATIVE_TOKEN /\ a = Minting -> 4
          [] OTHER -> 0]]

Signed(type, nonce, asset, amount, avusd) ==
    [order_type |-> type, expiry |-> 0, nonce |-> nonce, benefactor |-> alice,
     beneficiary |-> alice, collateral_asset |-> asset, collateral_amount |-> amount,
     avusd_amount |-> avusd]

\* Amounts no split of a route divides; the native coin is redeemed, WAVAX too.
MCOrders == {[Signed("MINT", 1, WAVAX, 4, 2) EXCEPT !.expiry = 1], Signed("MINT", 2, dai, 2, 1),
             Signed("REDEEM", 3, NATIVE_TOKEN, 3, 1), Signed("REDEEM", 4, WAVAX, 1, 1)}
MCRoutes == {[addresses |-> <<cust, Minting, cust>>, ratios |-> <<1, 1, 1>>],
             [addresses |-> <<cust, usdc>>, ratios |-> <<1, 2>>]}
MCSignatures == {[signature_type |-> "EIP712", signer |-> alice]}

MCWrap == {<<alice, 4>>, <<olga, 1>>}
MCWavaxApproval == {<<alice, Minting, 4>>, <<alice, olga, 99>>}
\* A transfer to another account, to oneself, and on an allowance.
MCWavaxTransfer == {<<alice, alice, Minting, 1>>, <<alice, alice, alice, 1>>,
                    <<olga, alice, olga, 1>>}
MCApproval == {<<alice, Minting, 99>>}
MCCustody == {<<NATIVE_TOKEN, 1>>}
NoInput == {}
=============================================================================
