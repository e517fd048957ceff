--------------------------- MODULE MCAvUSDSystem ---------------------------
(* A small instance: allowances of both tokens, cooldowns, an admin handover *)
(* and restrictions.                                                         *)
EXTENDS AvUSDSystem

CONSTANTS olga, alice, LargestAmount

MCCaller == {olga, alice}
MCAddress == MCCaller \cup {Zero, Vault, Silo}
MCRole == {DEFAULT_ADMIN_ROLE, REWARDER_ROLE, BLACKLIST_MANAGER_ROLE,
           SOFT_RESTRICTED_STAKER_ROLE, FULL_RESTRICTED_STAKER_ROLE}
MCAmount == 1 .. LargestAmount
MCFunds == [a \in MCAddress |-> 0]

\* The first admin stakes; alice, its successor, manages the blacklist before.
ManagerInput == {<<BLACKLIST_MANAGER_ROLE, alice>>,
                 <<FULL_RESTRICTED_STAKER_ROLE, olga>>}

\* The staker approves the vault without a bound, and lets alice spend.
CoinApproval == {<<olga, Vault, MAX_UINT>>, <<olga, alice, 1>>}
=============================================================================
