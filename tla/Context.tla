------------------------------ MODULE Context ------------------------------
(***************************************************************************)
(* What the contracts know of the chain they run on: the addresses.  A     *)
(* call of a contract is one atomic step, whose sender (ContextUpgradeable *)
(* _msgSender) is a parameter of the action; a call that reverts changes   *)
(* nothing and is therefore no step at all.                                *)
(***************************************************************************)
EXTENDS Integers, FiniteSets

CONSTANTS
    Accounts,   \* the addresses that call, own, hold roles or are paid
    Contracts,  \* those of them that have code, and so run when they are called
    Zero        \* address(0)

ASSUME AccountsAssumption ==
    /\ IsFiniteSet(Accounts)
    /\ Contracts \subseteq Accounts
    /\ Zero \notin Accounts

Addresses == Accounts \cup {Zero}
=============================================================================
