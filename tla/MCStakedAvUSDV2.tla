--------------------------- MODULE MCStakedAvUSDV2 ---------------------------
(* Small instances of the cooldown vault: an owner and two more accounts. *)
EXTENDS StakedAvUSDV2

CONSTANTS olga, alice, bob, OwnerFunds, AliceFunds, BobFunds, LargestAmount

MCCaller == {olga, alice, bob}
MCAddress == MCCaller \cup {Zero, Vault, Silo}
MCRole == {DEFAULT_ADMIN_ROLE, REWARDER_ROLE, BLACKLIST_MANAGER_ROLE,
           SOFT_RESTRICTED_STAKER_ROLE, FULL_RESTRICTED_STAKER_ROLE}
MCAmount == 1 .. LargestAmount
MCFunds == [a \in MCAddress |-> CASE a = olga  -> OwnerFunds
                                  [] a = alice -> AliceFunds
                                  [] a = bob   -> BobFunds
                                  [] OTHER     -> 0]

\* alice may be fully restricted while her cooldown runs.
FreezeInput == {<<BLACKLIST_MANAGER_ROLE, olga>>,
                <<FULL_RESTRICTED_STAKER_ROLE, alice>>}
=============================================================================
