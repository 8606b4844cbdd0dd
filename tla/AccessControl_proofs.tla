------------------------ MODULE AccessControl_proofs ------------------------
(***************************************************************************)
(* Roles, for any set of roles and accounts.                               *)
(***************************************************************************)
EXTENDS AccessControl, TLAPS

\* A grant, a revocation and a renunciation keep the roles sets of accounts.
LEMMA RoleCallType ==
  ASSUME MembersTypeOK, NEW sender \in Accounts, RoleCall(sender)
  PROVE  MembersTypeOK'
<1>1. ASSUME NEW role \in Roles, NEW account \in Grantees, GrantRole(sender, role, account)
      PROVE  MembersTypeOK'
  <2>1. account \in Accounts
    BY AccessControlAssumption
  <2> QED
    BY <1>1, <2>1 DEF GrantRole, MembersTypeOK
<1>2. ASSUME NEW role \in Roles, NEW account \in Grantees, RevokeRole(sender, role, account)
      PROVE  MembersTypeOK'
  BY <1>2 DEF RevokeRole, MembersTypeOK
<1>3. ASSUME NEW role \in Roles, RenounceRole(sender, role)
      PROVE  MembersTypeOK'
  BY <1>3 DEF RenounceRole, MembersTypeOK
<1> QED
  BY <1>1, <1>2, <1>3 DEF RoleCall

\* Without a holder of DEFAULT_ADMIN_ROLE, only renunciations are left.
LEMMA AdminlessCall ==
  ASSUME MembersTypeOK, NEW sender \in Accounts, RoleCall(sender),
         members[DEFAULT_ADMIN_ROLE] = {}
  PROVE  \A role \in Roles : members'[role] \subseteq members[role]
<1>1. ~ \E role \in Roles, account \in Grantees :
          GrantRole(sender, role, account) \/ RevokeRole(sender, role, account)
  BY DEF GrantRole, RevokeRole, HasRole, GetRoleAdmin
<1>2. PICK role \in Roles : RenounceRole(sender, role)
  BY <1>1 DEF RoleCall
<1> QED
  BY <1>2 DEF RenounceRole, MembersTypeOK

LEMMA MembersTyped == RolesSpec => []MembersTypeOK
<1>1. RolesInit => MembersTypeOK
  BY DEF RolesInit, MembersTypeOK
<1>2. MembersTypeOK /\ [RolesNext]_members => MembersTypeOK'
  BY RoleCallType DEF RolesNext, MembersTypeOK
<1> QED
  BY <1>1, <1>2, PTL DEF RolesSpec

(***************************************************************************)
(* Once nobody holds DEFAULT_ADMIN_ROLE, no role gains a member.           *)
(***************************************************************************)
THEOREM LastAdminAlwaysFinal == RolesSpec => LastAdminIsFinal
<1>1. ASSUME MembersTypeOK, [RolesNext]_members
      PROVE  [members[DEFAULT_ADMIN_ROLE] = {} =>
                \A role \in Roles : members'[role] \subseteq members[role]]_members
  BY <1>1, AdminlessCall DEF RolesNext
<1> QED
  BY <1>1, MembersTyped, PTL DEF RolesSpec, LastAdminIsFinal
=============================================================================
