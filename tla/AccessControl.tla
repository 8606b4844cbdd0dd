---------------------------- MODULE AccessControl ----------------------------
(***************************************************************************)
(* AccessControlUpgradeable: the roles of the accounts.  No contract of    *)
(* the repository calls _setRoleAdmin, so the admin of every role is the   *)
(* zero-initialised adminRole, DEFAULT_ADMIN_ROLE.                         *)
(***************************************************************************)
EXTENDS Context

CONSTANTS
    Roles,               \* the roles the contract defines
    DEFAULT_ADMIN_ROLE,
    Grantees             \* the accounts a grant or a revocation may name (a bound)

ASSUME AccessControlAssumption ==
    /\ DEFAULT_ADMIN_ROLE \in Roles
    /\ Grantees \subseteq Accounts

VARIABLE members    \* _roles[role].members

MembersTypeOK == members \in [Roles -> SUBSET Accounts]

HasRole(role, account) == account \in members[role]

\* Mutant: the holders of a role administer it.
OwnRoleAdmin(role) == role

GetRoleAdmin(role) == DEFAULT_ADMIN_ROLE

GrantRole(sender, role, account) ==
    /\ HasRole(GetRoleAdmin(role), sender)
    /\ members' = [members EXCEPT ![role] = @ \cup {account}]

RevokeRole(sender, role, account) ==
    /\ HasRole(GetRoleAdmin(role), sender)
    /\ members' = [members EXCEPT ![role] = @ \ {account}]

\* renounceRole asks for no role, only that the account be the sender's own.
RenounceRole(sender, role) == members' = [members EXCEPT ![role] = @ \ {sender}]

RoleCall(sender) ==
    \E role \in Roles :
      \/ \E account \in Grantees :
           GrantRole(sender, role, account) \/ RevokeRole(sender, role, account)
      \/ RenounceRole(sender, role)

\* On its own: the initializers of the collections grant their deployer the roles.
RolesInit == \E deployer \in Accounts : members = [role \in Roles |-> {deployer}]
RolesNext == \E sender \in Accounts : RoleCall(sender)
RolesSpec == RolesInit /\ [][RolesNext]_members
-----------------------------------------------------------------------------
(***************************************************************************)
(* Only an admin creates an admin: once nobody is DEFAULT_ADMIN any more,  *)
(* which the last admin can bring about with one renounceRole, no role     *)
(* ever gains a member again.                                              *)
(***************************************************************************)
LastAdminIsFinal ==
    [][members[DEFAULT_ADMIN_ROLE] = {} =>
         \A role \in Roles : members'[role] \subseteq members[role]]_members
=============================================================================
