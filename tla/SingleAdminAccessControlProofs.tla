------------------- MODULE SingleAdminAccessControlProofs -------------------
(* Machine-checked theorems about SingleAdminAccessControl. *)
EXTENDS SingleAdminAccessControl, TLAPS

LEMMA AccessInitInv ==
    ASSUME NEW admin \in Address, AccessInit(admin)
    PROVE  AccessInv
BY AccessAssumption, AccountsAssumption
DEF AccessInit, AccessInv, AccessTypeOK, OwnerIsTheAdmin, PendingIsNotOwner, owner

LEMMA TransferAdminInv ==
    ASSUME AccessInv, NEW sender \in Caller, NEW newAdmin \in Address,
           TransferAdmin(sender, newAdmin)
    PROVE  AccessInv'
BY DEF TransferAdmin, AccessInv, AccessTypeOK, OwnerIsTheAdmin,
       PendingIsNotOwner, owner, HasRole

LEMMA AcceptAdminInv ==
    ASSUME AccessInv, NEW sender \in Caller, AcceptAdmin(sender)
    PROVE  AccessInv'
<1>1. sender \in Address /\ sender # Zero
  BY AccessAssumption, AccountsAssumption
<1>2. /\ members' = [members EXCEPT ![DEFAULT_ADMIN_ROLE] =
                        (@ \ {currentDefaultAdmin}) \cup {sender}]
      /\ currentDefaultAdmin' = sender
      /\ pendingDefaultAdmin' = Zero
  BY DEF AcceptAdmin, GrantRoleInternal
<1>3. members'[DEFAULT_ADMIN_ROLE] = {sender}
  BY <1>2, AccessAssumption, AccountsAssumption
     DEF AccessInv, AccessTypeOK, OwnerIsTheAdmin, owner
<1> QED
  BY <1>1, <1>2, <1>3, AccessAssumption, AccountsAssumption
     DEF AccessInv, AccessTypeOK, OwnerIsTheAdmin, PendingIsNotOwner, owner

\* Every change of an ordinary role leaves the admin role and its bookkeeping.
LEMMA OrdinaryRoleInv ==
    ASSUME AccessInv, NEW role \in Role, NEW account \in Address,
           role # DEFAULT_ADMIN_ROLE,
           GrantRoleInternal(role, account) \/ RevokeRoleInternal(role, account)
    PROVE  /\ AccessInv'
           /\ members'[DEFAULT_ADMIN_ROLE] = members[DEFAULT_ADMIN_ROLE]
           /\ UNCHANGED <<currentDefaultAdmin, pendingDefaultAdmin>>
BY AccessAssumption, AccountsAssumption
DEF GrantRoleInternal, RevokeRoleInternal, AccessInv, AccessTypeOK,
    OwnerIsTheAdmin, PendingIsNotOwner, owner

LEMMA AccessNextInv ==
    ASSUME AccessInv, [AccessNext]_accessVars
    PROVE  AccessInv'
<1>1. CASE UNCHANGED accessVars
  BY <1>1 DEF accessVars, AccessInv, AccessTypeOK, OwnerIsTheAdmin,
              PendingIsNotOwner, owner
<1>2. ASSUME NEW sender \in Caller, NEW newAdmin \in AdminInput,
             TransferAdmin(sender, newAdmin)
      PROVE  AccessInv'
  BY <1>2, TransferAdminInv, AccessAssumption, AccountsAssumption
<1>3. ASSUME NEW sender \in Caller, AcceptAdmin(sender)
      PROVE  AccessInv'
  BY <1>3, AcceptAdminInv
<1>4. ASSUME NEW sender \in Caller, NEW in \in RoleInput,
             \/ GrantRole(sender, in[1], in[2])
             \/ RevokeRole(sender, in[1], in[2])
             \/ RenounceRole(sender, in[1], in[2])
      PROVE  AccessInv'
  <2>1. in[1] \in Role /\ in[2] \in Address
    BY AccessAssumption, AccountsAssumption
  <2> QED
    BY <1>4, <2>1, OrdinaryRoleInv DEF GrantRole, RevokeRole, RenounceRole
<1> QED
  BY <1>1, <1>2, <1>3, <1>4 DEF AccessNext

\* In every reachable state owner() is the one holder of the admin role, that
\* holder is not address(0), and no nomination of the owner itself is pending.
THEOREM AccessInvariant == AccessSpec => []AccessInv
<1>1. (\E admin \in Address : AccessInit(admin)) => AccessInv
  BY AccessInitInv
<1>2. AccessInv /\ [AccessNext]_accessVars => AccessInv'
  BY AccessNextInv
<1> QED
  BY <1>1, <1>2, PTL DEF AccessSpec

\* The invariants the runs check, for any number of accounts and roles.
THEOREM AdminSafety ==
    AccessSpec => [](AccessTypeOK /\ OwnerIsTheAdmin /\ PendingIsNotOwner)
BY AccessInvariant, PTL DEF AccessInv

-----------------------------------------------------------------------------

LEMMA AccessNextHandover ==
    ASSUME AccessInv, [AccessNext]_accessVars
    PROVE  [Handover!Next]_(Handover!vars)
<1> USE DEF Handover!Next, Handover!Nominate, Handover!TakeOver, Handover!vars
<1>1. CASE UNCHANGED accessVars
  BY <1>1 DEF accessVars
<1>2. ASSUME NEW sender \in Caller, NEW newAdmin \in AdminInput,
             TransferAdmin(sender, newAdmin)
      PROVE  Handover!Nominate
  BY <1>2, AccessAssumption, AccountsAssumption
     DEF TransferAdmin, HasRole, AccessInv, OwnerIsTheAdmin
<1>3. ASSUME NEW sender \in Caller, AcceptAdmin(sender)
      PROVE  Handover!TakeOver
  <2>1. members'[DEFAULT_ADMIN_ROLE] = {sender} /\ pendingDefaultAdmin' = Zero
    BY <1>3, AccessAssumption, AccountsAssumption
       DEF AcceptAdmin, GrantRoleInternal, AccessInv, AccessTypeOK,
           OwnerIsTheAdmin, owner
  <2> QED
    BY <1>3, <2>1, AccessAssumption, AccountsAssumption DEF AcceptAdmin
<1>4. ASSUME NEW sender \in Caller, NEW in \in RoleInput,
             \/ GrantRole(sender, in[1], in[2])
             \/ RevokeRole(sender, in[1], in[2])
             \/ RenounceRole(sender, in[1], in[2])
      PROVE  UNCHANGED Handover!vars
  <2>1. in[1] \in Role /\ in[2] \in Address
    BY AccessAssumption, AccountsAssumption
  <2> QED
    BY <1>4, <2>1, OrdinaryRoleInv DEF GrantRole, RevokeRole, RenounceRole
<1> QED
  BY <1>1, <1>2, <1>3, <1>4 DEF AccessNext

\* SingleAdminAccessControl keeps the promise of the two-step handover: the
\* role's holder changes only to a live nominee, and a nomination is used once.
THEOREM AccessImplementsSingleAdmin == AccessSpec => HandoverPromise
<1>1. (\E admin \in Address : AccessInit(admin)) => Handover!Init
  BY AccessAssumption, AccountsAssumption DEF AccessInit, Handover!Init
<1>2. AccessInv /\ [AccessNext]_accessVars => [Handover!Next]_(Handover!vars)
  BY AccessNextHandover
<1> QED
  BY <1>1, <1>2, AccessInvariant, PTL DEF AccessSpec, HandoverPromise, Handover!Spec
=============================================================================
