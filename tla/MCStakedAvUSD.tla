---------------------------- MODULE MCStakedAvUSD ----------------------------
(* Small instances of the staking vault: an owner and one or two more accounts. *)
EXTENDS StakedAvUSD

CONSTANTS olga, alice, bob, OwnerFunds, AliceFunds, BobFunds, LargestAmount

MCPair == {olga, bob}
MCPairAddress == MCPair \cup {Zero, Vault}
MCCaller == MCPair \cup {alice}
MCAddress == MCCaller \cup {Zero, Vault}
MCRole == {DEFAULT_ADMIN_ROLE, REWARDER_ROLE, BLACKLIST_MANAGER_ROLE,
           SOFT_RESTRICTED_STAKER_ROLE, FULL_RESTRICTED_STAKER_ROLE}
MCAmount == 1 .. LargestAmount
MCFunds == [a \in Address |-> CASE a = olga  -> OwnerFunds
                                [] a = alice -> AliceFunds
                                [] a = bob   -> BobFunds
                                [] OTHER     -> 0]

\* bob may be restricted, and so may address(0).
RestrictInput == {<<BLACKLIST_MANAGER_ROLE, olga>>,
                  <<SOFT_RESTRICTED_STAKER_ROLE, bob>>,
                  <<FULL_RESTRICTED_STAKER_ROLE, bob>>,
                  <<FULL_RESTRICTED_STAKER_ROLE, Zero>>}
=============================================================================
