-------------------------- MODULE MCAvUSDMintingV2 --------------------------
(***************************************************************************)
(* Small instances of the minting contract: an admin that holds all roles, *)
(* a benefactor with a key, one that is a contract and a custodian too,    *)
(* and a custodian.                                                        *)
(* avUSD has one decimal, usdc none, dai two.                              *)
(***************************************************************************)
EXTENDS AvUSDMintingV2

CONSTANTS olga, alice, wally, dora, cust, usdc, dai

MCCaller == {olga, alice, dora}
MCAsset == {usdc, dai, NATIVE_TOKEN}
MCAddress == MCCaller \cup MCAsset \cup {wally, cust, Zero, Minting, AvUSDToken}
MCRole == {DEFAULT_ADMIN_ROLE, MINTER_ROLE, REDEEMER_ROLE,
           COLLATERAL_MANAGER_ROLE, GATEKEEPER_ROLE}
MCMembers == [r \in MCRole |-> {olga}]
MCDecimals == [a \in {usdc, dai} |-> IF a = usdc THEN 0 ELSE 2]
MCCollateral ==
    [asset \in MCAsset |-> [a \in MCAddress |->
        CASE asset = dai  /\ a = alice        -> 29
          [] asset = dai  /\ a = wally        -> 20
          [] asset = usdc /\ a = alice        -> 1
          [] asset = NATIVE_TOKEN /\ a = cust -> 1
          [] OTHER -> 0]]

Signed(type, nonce, benefactor, asset, amount, avusd) ==
    [order_type |-> type, expiry |-> 1, nonce |-> nonce, benefactor |-> benefactor,
     beneficiary |-> alice, collateral_asset |-> asset, collateral_amount |-> amount,
     avusd_amount |-> avusd]

\* Two mints that share a bit, a redemption that shares a slot with the second,
\* one that shares its nonce, and one that asks for too much; more collateral
\* than par, and less.
AliceOrders == {Signed("MINT", 1, alice, dai, 29, 2),
                Signed("MINT", 3, alice, usdc, 1, 11),
                Signed("REDEEM", 2, alice, dai, 20, 2),
                Signed("REDEEM", 3, alice, dai, 20, 2),
                Signed("REDEEM", 4, alice, dai, 30, 2)}
\* Of a contract that is a custodian itself.
WallyOrders == {[Signed("MINT", 1, wally, dai, 20, 2) EXCEPT !.expiry = 0]}
NativeOrders == {Signed("REDEEM", 2, alice, NATIVE_TOKEN, 1, 2)}

MCOrders == AliceOrders \cup WallyOrders
MCNativeOrders == {Signed("MINT", 1, alice, dai, 29, 2)} \cup NativeOrders
MCRoutes == {[addresses |-> <<cust, Minting>>, ratios |-> <<1, 2>>],
             [addresses |-> <<cust>>, ratios |-> <<3>>],
             [addresses |-> <<Minting, olga>>, ratios |-> <<2, 1>>],
             [addresses |-> <<cust, Minting>>, ratios |-> <<1>>]}
Key(a) == [signature_type |-> "EIP712", signer |-> a]
OwnSignatures == {Key(alice), [signature_type |-> "EIP1271", signer |-> wally]}

FirstOrder == {Signed("MINT", 1, alice, dai, 29, 2)}

MintAndRedeem == FirstOrder \cup {Signed("REDEEM", 2, alice, dai, 20, 2)}

OneAvUSD == {<<AvUSDToken, 1>>}
OneOfEachAsset == {<<dai, 9>>, <<NATIVE_TOKEN, 1>>, <<AvUSDToken, 1>>}
TopUp == {<<dai, cust, Minting, 19>>, <<NATIVE_TOKEN, cust, Minting, 1>>}
NoInput == {}
MCRoles == {<<MINTER_ROLE, alice>>, <<GATEKEEPER_ROLE, alice>>, <<DEFAULT_ADMIN_ROLE, olga>>}
SpenderApproval == {<<alice, olga, 1>>, <<alice, olga, 99>>, <<alice, Minting, 99>>}
AliceAndDora == {<<alice, dora>>, <<dora, alice>>}
MCApproval == {<<alice, Minting, 99>>}
=============================================================================
