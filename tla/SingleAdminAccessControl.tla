---------------------- MODULE SingleAdminAccessControl ----------------------
(***************************************************************************)
(* contracts/SingleAdminAccessControl.sol: OpenZeppelin's AccessControl    *)
(* restricted to a single holder of DEFAULT_ADMIN_ROLE, who hands the role *)
(* over in two steps.  The staking vault and the minting contract inherit  *)
(* it.  A call that reverts changes nothing and is not a step.             *)
(***************************************************************************)

EXTENDS Accounts

CONSTANTS
    Role,                \* the role identifiers
    DEFAULT_ADMIN_ROLE,  \* the identifier 0x00
    RoleInput,           \* the <<role, account>> pairs calls are made with
    AdminInput           \* the arguments transferAdmin is called with

ASSUME AccessAssumption ==
    /\ DEFAULT_ADMIN_ROLE \in Role
    /\ RoleInput \subseteq Role \X Address
    /\ AdminInput \subseteq Address

VARIABLES
    members,             \* members[r]: the accounts that hold role r
    currentDefaultAdmin,
    pendingDefaultAdmin

accessVars == <<members, currentDefaultAdmin, pendingDefaultAdmin>>

HasRole(role, account) == account \in members[role]

owner == currentDefaultAdmin

-----------------------------------------------------------------------------

\* Mutant of GrantRoleInternal: the previous admin keeps the role.
GrantRoleKeepingHolder(role, account) ==
    /\ members' = [members EXCEPT ![role] = @ \cup {account}]
    /\ IF role = DEFAULT_ADMIN_ROLE
       THEN currentDefaultAdmin' = account /\ pendingDefaultAdmin' = Zero
       ELSE UNCHANGED <<currentDefaultAdmin, pendingDefaultAdmin>>

\* The internal _grantRole: granting the admin role takes it from its holder
\* and forgets the pending admin.
GrantRoleInternal(role, account) ==
    \/ /\ role = DEFAULT_ADMIN_ROLE
       /\ members' = [members EXCEPT ![role] =
                        (@ \ {currentDefaultAdmin}) \cup {account}]
       /\ currentDefaultAdmin' = account
       /\ pendingDefaultAdmin' = Zero
    \/ /\ role # DEFAULT_ADMIN_ROLE
       /\ members' = [members EXCEPT ![role] = @ \cup {account}]
       /\ UNCHANGED <<currentDefaultAdmin, pendingDefaultAdmin>>

\* AccessControl._revokeRole, which the contract does not override.
RevokeRoleInternal(role, account) ==
    /\ members' = [members EXCEPT ![role] = @ \ {account}]
    /\ UNCHANGED <<currentDefaultAdmin, pendingDefaultAdmin>>

TransferAdmin(sender, newAdmin) ==
    /\ HasRole(DEFAULT_ADMIN_ROLE, sender)
    /\ newAdmin # sender
    /\ pendingDefaultAdmin' = newAdmin
    /\ UNCHANGED <<members, currentDefaultAdmin>>

AcceptAdmin(sender) ==
    /\ sender = pendingDefaultAdmin
    /\ GrantRoleInternal(DEFAULT_ADMIN_ROLE, sender)

GrantRole(sender, role, account) ==
    /\ HasRole(DEFAULT_ADMIN_ROLE, sender)
    /\ role # DEFAULT_ADMIN_ROLE
    /\ GrantRoleInternal(role, account)

RevokeRole(sender, role, account) ==
    /\ HasRole(DEFAULT_ADMIN_ROLE, sender)
    /\ role # DEFAULT_ADMIN_ROLE
    /\ RevokeRoleInternal(role, account)

\* AccessControl lets an account renounce only for itself.
RenounceRole(sender, role, account) ==
    /\ role # DEFAULT_ADMIN_ROLE
    /\ account = sender
    /\ RevokeRoleInternal(role, account)

-----------------------------------------------------------------------------

\* After the constructor of an inheriting contract has granted the admin role.
AccessInit(admin) ==
    /\ admin # Zero
    /\ members = [r \in Role |-> IF r = DEFAULT_ADMIN_ROLE THEN {admin} ELSE {}]
    /\ currentDefaultAdmin = admin
    /\ pendingDefaultAdmin = Zero

AccessNext ==
    \E sender \in Caller :
       \/ \E newAdmin \in AdminInput : TransferAdmin(sender, newAdmin)
       \/ AcceptAdmin(sender)
       \/ \E in \in RoleInput :
             \/ GrantRole(sender, in[1], in[2])
             \/ RevokeRole(sender, in[1], in[2])
             \/ RenounceRole(sender, in[1], in[2])

AccessSpec == (\E admin \in Address : AccessInit(admin)) /\ [][AccessNext]_accessVars

-----------------------------------------------------------------------------

\* Types of the state of the access-control contract.
AccessTypeOK ==
    /\ members \in [Role -> SUBSET Address]
    /\ currentDefaultAdmin \in Address \ {Zero}
    /\ pendingDefaultAdmin \in Address

\* The contract records its admin twice, in the role's members and in
\* _currentDefaultAdmin: owner() is always the one and only role holder, so the
\* role is never lost and never duplicated.
OwnerIsTheAdmin == members[DEFAULT_ADMIN_ROLE] = {owner}

\* A nomination never outlives the handover it led to: acceptAdmin cannot be
\* replayed by the account that already is the admin.
PendingIsNotOwner == pendingDefaultAdmin # owner

\* The promise of the two-step handover, stated on the members of the role.
Handover == INSTANCE SingleAdmin WITH
                holders <- members[DEFAULT_ADMIN_ROLE],
                nominee <- pendingDefaultAdmin
HandoverPromise == Handover!Spec

\* What every call preserves; the parts need each other.
AccessInv == AccessTypeOK /\ OwnerIsTheAdmin /\ PendingIsNotOwner
=============================================================================
