------------------------------- MODULE ERC721 -------------------------------
(***************************************************************************)
(* ERC721Upgradeable of OpenZeppelin 4.9.6 (src/SericaNFTCollection_flat.  *)
(* sol), the ledger of tokens both collections inherit: who owns a token,  *)
(* how many tokens an address owns, who may move them.                     *)
(*                                                                         *)
(* The balances are kept with `unchecked' arithmetic, so they wrap at the  *)
(* width of the machine integer; the comments of _burn and _transfer argue *)
(* that they never do.  BalancesMatchOwners is that argument.              *)
(***************************************************************************)
EXTENDS Context

CONSTANTS
    TokenIds,     \* the token ids that are ever minted (a bound: the code has 2^256)
    Spenders,     \* the accounts an approval may name (a bound: all, or none)
    UintModulus   \* one more than the largest uint256

ASSUME ERC721Assumption ==
    /\ IsFiniteSet(TokenIds)
    /\ TokenIds \subseteq Nat
    /\ Spenders \subseteq Accounts
    /\ UintModulus \in Nat
    /\ Cardinality(TokenIds) < UintModulus

VARIABLES
    owners,             \* _owners: the owner of a token, Zero before it is minted
    balances,           \* _balances: how many tokens an account owns
    tokenApprovals,     \* _tokenApprovals: the account that may move a token
    operatorApprovals   \* _operatorApprovals: who may move all of an account's tokens

ledgerVars == <<owners, balances, tokenApprovals, operatorApprovals>>

ERC721TypeOK ==
    /\ owners \in [TokenIds -> Addresses]
    /\ balances \in [Accounts -> 0 .. UintModulus - 1]
    /\ tokenApprovals \in [TokenIds -> Spenders \cup {Zero}]
    /\ operatorApprovals \in [Accounts -> SUBSET Spenders]

ERC721Init ==
    /\ owners = [id \in TokenIds |-> Zero]
    /\ balances = [a \in Accounts |-> 0]
    /\ tokenApprovals = [id \in TokenIds |-> Zero]
    /\ operatorApprovals = [a \in Accounts |-> {}]
-----------------------------------------------------------------------------
Exists(id) == owners[id] # Zero

\* The tokens an account owns under the assignment o of owners.
HeldBy(o, a) == {id \in TokenIds : o[id] = a}

\* An unchecked addition to, or subtraction from, an unsigned integer.
Wrap(n) == n % UintModulus

IsApprovedForAll(owner, operator) == operator \in operatorApprovals[owner]

IsApprovedOrOwner(spender, id) ==
    /\ Exists(id)
    /\ \/ spender = owners[id]
       \/ IsApprovedForAll(owners[id], spender)
       \/ spender = tokenApprovals[id]

(***************************************************************************)
(* _mint, once for each of the ids: a batch mints them one after another   *)
(* in one transaction, and each must be new.                               *)
(***************************************************************************)
MintTokens(to, ids) ==
    /\ to # Zero
    /\ ids \subseteq TokenIds
    /\ \A id \in ids : ~Exists(id)
    /\ owners' = [id \in TokenIds |-> IF id \in ids THEN to ELSE owners[id]]
    /\ balances' = [balances EXCEPT ![to] = Wrap(@ + Cardinality(ids))]
    /\ UNCHANGED <<tokenApprovals, operatorApprovals>>

\* The balances b once one token went from an account to another, which may be the same.
\* Mutant: both balances are read before either is written, and nothing wraps.
MovedAtOnce(b, from, to) == [b EXCEPT ![from] = b[from] - 1, ![to] = b[to] + 1]

Moved(b, from, to) ==
    LET debited == [b EXCEPT ![from] = Wrap(@ - 1)]
    IN  [debited EXCEPT ![to] = Wrap(@ + 1)]

\* Mutant: the approval of the previous owner survives the transfer.
ApprovalKept(id) == tokenApprovals

WithoutApproval(id) == [tokenApprovals EXCEPT ![id] = Zero]

\* _transfer: the approval of the previous owner is cleared first.
Transfer(from, to, id) ==
    /\ Exists(id)
    /\ owners[id] = from
    /\ to # Zero
    /\ tokenApprovals' = WithoutApproval(id)
    /\ balances' = Moved(balances, from, to)
    /\ owners' = [owners EXCEPT ![id] = to]
    /\ UNCHANGED operatorApprovals

(***************************************************************************)
(* transferFrom, and safeTransferFrom: the latter also calls a recipient   *)
(* that has code.  A recipient that refuses reverts the transfer, and one  *)
(* that accepts makes its own calls after it, which are steps of theirs.   *)
(***************************************************************************)
TransferFrom(sender, from, to, id) ==
    /\ IsApprovedOrOwner(sender, id)
    /\ Transfer(from, to, id)

\* Mutant: the owner may be approved for its own token.
MayApproveOwner(sender, to, id) ==
    sender = owners[id] \/ IsApprovedForAll(owners[id], sender)

MayApprove(sender, to, id) ==
    /\ to # owners[id]
    /\ sender = owners[id] \/ IsApprovedForAll(owners[id], sender)

Approve(sender, to, id) ==
    /\ Exists(id)
    /\ MayApprove(sender, to, id)
    /\ tokenApprovals' = [tokenApprovals EXCEPT ![id] = to]
    /\ UNCHANGED <<owners, balances, operatorApprovals>>

SetApprovalForAll(sender, operator, approved) ==
    /\ sender # operator
    /\ operatorApprovals' =
         [operatorApprovals EXCEPT
            ![sender] = IF approved THEN @ \cup {operator} ELSE @ \ {operator}]
    /\ UNCHANGED <<owners, balances, tokenApprovals>>
-----------------------------------------------------------------------------
\* The public calls, by one sender: those every token contract inherits.
LedgerCall(sender) ==
    \/ \E from, to \in Accounts, id \in TokenIds : TransferFrom(sender, from, to, id)
    \/ \E to \in Spenders \cup {Zero}, id \in TokenIds : Approve(sender, to, id)
    \/ \E operator \in Spenders, approved \in BOOLEAN :
         SetApprovalForAll(sender, operator, approved)

\* On its own the ledger mints whatever its contract asks for.
ERC721Next ==
    \/ \E to \in Accounts, id \in TokenIds : MintTokens(to, {id})
    \/ \E sender \in Accounts : LedgerCall(sender)

ERC721Spec == ERC721Init /\ [][ERC721Next]_ledgerVars
-----------------------------------------------------------------------------
(***************************************************************************)
(* The balance of an account is the number of tokens it owns.  It is what  *)
(* makes the unchecked arithmetic of _mint and _transfer safe: a balance   *)
(* that is decremented counts at least the token that leaves.              *)
(***************************************************************************)
BalancesMatch(o, b) == \A a \in Accounts : b[a] = Cardinality(HeldBy(o, a))

BalancesMatchOwners == BalancesMatch(owners, balances)

(***************************************************************************)
(* An approval is for a token that exists, and never names its owner: a    *)
(* transfer clears it, so the buyer of a token does not inherit the        *)
(* approvals its seller gave.                                              *)
(***************************************************************************)
ApprovalsFit(o, t) == \A id \in TokenIds : t[id] # Zero => o[id] \notin {Zero, t[id]}

ApprovalsFollowOwner == ApprovalsFit(owners, tokenApprovals)

(***************************************************************************)
(* A token is never destroyed (_burn has no caller), and when it changes   *)
(* hands nobody is left approved for it alone.                             *)
(***************************************************************************)
TransfersResetApproval ==
    [][\A id \in TokenIds :
         Exists(id) /\ owners'[id] # owners[id] =>
           owners'[id] # Zero /\ tokenApprovals'[id] = Zero]_ledgerVars
=============================================================================
