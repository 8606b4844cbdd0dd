--------------------------- MODULE ERC721_proofs ---------------------------
(***************************************************************************)
(* The ledger keeps its invariant for every finite set of tokens and any   *)
(* width of the integers that can count them.  The steps are lemmas about  *)
(* one call each, so that the collections built on the ledger cite them.   *)
(***************************************************************************)
EXTENDS ERC721, FiniteSetTheorems, TLAPS

LedgerInv ==
    /\ ERC721TypeOK
    /\ BalancesMatchOwners
    /\ ApprovalsFollowOwner
-----------------------------------------------------------------------------
\* Unchecked arithmetic stays in the type, and is exact on a value of the type.
LEMMA WrapType == \A n \in Int : Wrap(n) \in 0 .. UintModulus - 1
<1>1. UintModulus \in Nat \ {0}
  BY ERC721Assumption, FS_CardinalityType
<1> QED
  BY <1>1 DEF Wrap

LEMMA WrapExact == \A n \in 0 .. UintModulus - 1 : Wrap(n) = n
<1>1. UintModulus \in Nat \ {0}
  BY ERC721Assumption, FS_CardinalityType
<1> QED
  BY <1>1 DEF Wrap

\* No account holds more tokens than the machine integer counts.
LEMMA HeldBound ==
  ASSUME NEW o, NEW a
  PROVE  /\ IsFiniteSet(HeldBy(o, a))
         /\ Cardinality(HeldBy(o, a)) \in 0 .. UintModulus - 1
<1>1. HeldBy(o, a) \in SUBSET TokenIds
  BY DEF HeldBy
<1>2. /\ IsFiniteSet(HeldBy(o, a))
      /\ Cardinality(HeldBy(o, a)) <= Cardinality(TokenIds)
  BY <1>1, FS_Subset, ERC721Assumption
<1>3. Cardinality(HeldBy(o, a)) \in Nat /\ Cardinality(TokenIds) \in Nat
  BY <1>2, FS_CardinalityType, ERC721Assumption
<1> QED
  BY <1>2, <1>3, ERC721Assumption

LEMMA LedgerInit == ERC721Init => LedgerInv
<1> SUFFICES ASSUME ERC721Init PROVE LedgerInv
  OBVIOUS
<1>1. UintModulus \in Nat \ {0}
  BY ERC721Assumption, FS_CardinalityType
<1>2. ERC721TypeOK
  BY <1>1 DEF ERC721Init, ERC721TypeOK, Addresses
<1>3. BalancesMatchOwners
  <2> SUFFICES ASSUME NEW a \in Accounts PROVE balances[a] = Cardinality(HeldBy(owners, a))
    BY DEF BalancesMatchOwners, BalancesMatch
  <2>1. HeldBy(owners, a) = {}
    BY AccountsAssumption DEF HeldBy, ERC721Init
  <2> QED
    BY <2>1, FS_EmptySet DEF ERC721Init
<1>4. ApprovalsFollowOwner
  BY DEF ApprovalsFollowOwner, ApprovalsFit, ERC721Init
<1> QED
  BY <1>2, <1>3, <1>4 DEF LedgerInv

LEMMA MintTokensStep ==
  ASSUME LedgerInv, NEW to \in Accounts, NEW ids, MintTokens(to, ids)
  PROVE  LedgerInv'
<1> USE DEF LedgerInv
<1>1. ids \in SUBSET TokenIds /\ IsFiniteSet(ids) /\ Cardinality(ids) \in Nat
  <2>1. ids \in SUBSET TokenIds
    BY DEF MintTokens
  <2> QED
    BY <2>1, FS_Subset, FS_CardinalityType, ERC721Assumption
<1>2. balances[to] + Cardinality(ids) \in Int
  BY <1>1 DEF ERC721TypeOK
<1>3. ERC721TypeOK'
  BY <1>2, WrapType DEF MintTokens, ERC721TypeOK, Addresses
<1>4. BalancesMatchOwners'
  <2> SUFFICES ASSUME NEW a \in Accounts
               PROVE  balances'[a] = Cardinality(HeldBy(owners', a))
    BY DEF BalancesMatchOwners, BalancesMatch
  <2>1. balances[a] = Cardinality(HeldBy(owners, a))
    BY DEF BalancesMatchOwners, BalancesMatch
  <2>2. CASE a = to
    <3>1. HeldBy(owners', a) = HeldBy(owners, a) \cup ids
      BY <1>1, <2>2 DEF MintTokens, HeldBy, ERC721TypeOK
    <3>2. HeldBy(owners, a) \cap ids = {}
      BY AccountsAssumption DEF MintTokens, HeldBy, Exists
    <3>3. Cardinality(HeldBy(owners, a) \cap ids) = 0
      BY <3>2, FS_EmptySet
    <3>4. Cardinality(HeldBy(owners', a)) = balances[a] + Cardinality(ids)
      <4>1. IsFiniteSet(HeldBy(owners, a)) /\ Cardinality(HeldBy(owners, a)) \in Nat
        BY HeldBound
      <4>2. Cardinality(HeldBy(owners, a) \cup ids)
              = Cardinality(HeldBy(owners, a)) + Cardinality(ids) - 0
        BY <1>1, <3>3, <4>1, FS_Union
      <4> QED
        BY <1>1, <2>1, <3>1, <4>1, <4>2
    <3>5. balances'[a] = Wrap(balances[a] + Cardinality(ids))
      BY <2>2 DEF MintTokens, ERC721TypeOK
    <3> QED
      BY <3>4, <3>5, HeldBound, WrapExact
  <2>3. CASE a # to
    <3>1. HeldBy(owners', a) = HeldBy(owners, a)
      BY <1>1, <2>3, AccountsAssumption DEF MintTokens, HeldBy, Exists, ERC721TypeOK
    <3>2. balances'[a] = balances[a]
      BY <2>3 DEF MintTokens, ERC721TypeOK
    <3> QED
      BY <2>1, <3>1, <3>2
  <2> QED
    BY <2>2, <2>3
<1>5. ApprovalsFollowOwner'
  BY <1>1 DEF MintTokens, Exists, ApprovalsFollowOwner, ApprovalsFit, ERC721TypeOK
<1> QED
  BY <1>3, <1>4, <1>5

LEMMA TransferStep ==
  ASSUME LedgerInv, NEW from \in Accounts, NEW to \in Accounts, NEW id \in TokenIds,
         Transfer(from, to, id)
  PROVE  LedgerInv'
<1> USE DEF LedgerInv
<1> DEFINE debited == [balances EXCEPT ![from] = Wrap(@ - 1)]
<1>1. /\ balances[from] - 1 \in Int
      /\ debited \in [Accounts -> 0 .. UintModulus - 1]
      /\ debited[to] + 1 \in Int
  BY WrapType DEF ERC721TypeOK
<1>2. balances' = [debited EXCEPT ![to] = Wrap(@ + 1)]
  BY DEF Transfer, Moved
<1>3. ERC721TypeOK'
  <2>1. balances' \in [Accounts -> 0 .. UintModulus - 1]
    BY <1>1, <1>2, WrapType
  <2> QED
    BY <2>1 DEF Transfer, WithoutApproval, ERC721TypeOK, Addresses
<1>4. BalancesMatchOwners'
  <2> SUFFICES ASSUME NEW a \in Accounts
               PROVE  balances'[a] = Cardinality(HeldBy(owners', a))
    BY DEF BalancesMatchOwners, BalancesMatch
  <2>1. \A c \in Accounts : balances[c] = Cardinality(HeldBy(owners, c))
    BY DEF BalancesMatchOwners, BalancesMatch
  \* The sender holds the token that leaves, so its balance is at least one.
  <2>2. /\ Cardinality(HeldBy(owners, from) \ {id}) = balances[from] - 1
        /\ balances[from] - 1 \in 0 .. UintModulus - 1
    <3>1. id \in HeldBy(owners, from)
      BY DEF Transfer, HeldBy
    <3>2. Cardinality(HeldBy(owners, from) \ {id}) = balances[from] - 1
      BY <2>1, <3>1, HeldBound, FS_RemoveElement
    <3>3. Cardinality(HeldBy(owners, from) \ {id}) \in Nat
      BY HeldBound, FS_RemoveElement, FS_CardinalityType
    <3>4. balances[from] \in 0 .. UintModulus - 1
      BY DEF ERC721TypeOK
    <3> QED
      BY <3>2, <3>3, <3>4, ERC721Assumption
  <2>3. debited[from] = balances[from] - 1
    BY <1>1, <2>2, WrapExact DEF ERC721TypeOK
  <2>4. CASE from = to
    <3>1. owners' = owners
      BY <2>4 DEF Transfer, ERC721TypeOK
    <3>2. Wrap(debited[to] + 1) = balances[to]
      BY <2>3, <2>4, WrapExact DEF ERC721TypeOK
    <3>3. balances'[a] = balances[a]
      BY <1>1, <1>2, <2>4, <3>2 DEF ERC721TypeOK
    <3> QED
      BY <2>1, <3>1, <3>3
  <2>5. CASE from # to /\ a = from
    <3>1. HeldBy(owners', a) = HeldBy(owners, a) \ {id}
      BY <2>5 DEF Transfer, HeldBy, ERC721TypeOK
    <3>2. balances'[a] = debited[from]
      BY <1>1, <1>2, <2>5
    <3> QED
      BY <2>2, <2>3, <2>5, <3>1, <3>2
  <2>6. CASE from # to /\ a = to
    <3>1. HeldBy(owners', a) = HeldBy(owners, a) \cup {id}
      BY <2>6 DEF Transfer, HeldBy, ERC721TypeOK
    <3>2. id \notin HeldBy(owners, a)
      BY <2>6 DEF Transfer, HeldBy
    <3>3. Cardinality(HeldBy(owners', a)) = balances[a] + 1
      BY <2>1, <3>1, <3>2, HeldBound, FS_AddElement
    <3>4. balances'[a] = Wrap(balances[a] + 1)
      BY <1>1, <1>2, <2>6 DEF ERC721TypeOK
    <3> QED
      BY <3>3, <3>4, HeldBound, WrapExact
  <2>7. CASE a # from /\ a # to
    <3>1. HeldBy(owners', a) = HeldBy(owners, a)
      BY <2>7 DEF Transfer, HeldBy, ERC721TypeOK
    <3>2. balances'[a] = balances[a]
      BY <1>1, <1>2, <2>7 DEF ERC721TypeOK
    <3> QED
      BY <2>1, <3>1, <3>2
  <2> QED
    BY <2>4, <2>5, <2>6, <2>7
<1>5. ApprovalsFollowOwner'
  BY DEF Transfer, WithoutApproval, ApprovalsFollowOwner, ApprovalsFit, ERC721TypeOK
<1> QED
  BY <1>3, <1>4, <1>5

LEMMA ApproveStep ==
  ASSUME LedgerInv, NEW sender \in Accounts, NEW to \in Spenders \cup {Zero},
         NEW id \in TokenIds, Approve(sender, to, id)
  PROVE  LedgerInv'
<1>1. UNCHANGED <<owners, balances>>
  BY DEF Approve
<1> QED
  BY <1>1 DEF LedgerInv, Approve, MayApprove, Exists, ERC721TypeOK, BalancesMatchOwners,
              BalancesMatch, HeldBy, ApprovalsFollowOwner, ApprovalsFit

LEMMA SetApprovalForAllStep ==
  ASSUME LedgerInv, NEW sender \in Accounts, NEW operator \in Spenders,
         NEW approved \in BOOLEAN, SetApprovalForAll(sender, operator, approved)
  PROVE  LedgerInv'
<1>1. operatorApprovals' \in [Accounts -> SUBSET Spenders]
  BY DEF LedgerInv, ERC721TypeOK, SetApprovalForAll
<1>2. UNCHANGED <<owners, balances, tokenApprovals>>
  BY DEF SetApprovalForAll
<1> QED
  BY <1>1, <1>2 DEF LedgerInv, ERC721TypeOK, BalancesMatchOwners, BalancesMatch, HeldBy,
                    ApprovalsFollowOwner, ApprovalsFit

\* Whatever an account calls, in a collection or alone, the ledger stays sound.
LEMMA LedgerCallStep ==
  ASSUME LedgerInv, NEW sender \in Accounts, LedgerCall(sender)
  PROVE  LedgerInv'
<1>1. ASSUME NEW from \in Accounts, NEW to \in Accounts, NEW id \in TokenIds,
             TransferFrom(sender, from, to, id)
      PROVE  LedgerInv'
  BY <1>1, TransferStep DEF TransferFrom
<1> QED
  BY <1>1, ApproveStep, SetApprovalForAllStep DEF LedgerCall

\* Transfers and approvals move tokens that exist: none appears, none goes.
LEMMA LedgerCallKeepsTokens ==
  ASSUME ERC721TypeOK, NEW sender \in Accounts, LedgerCall(sender)
  PROVE  \A id \in TokenIds : owners'[id] # Zero <=> owners[id] # Zero
<1>1. ASSUME NEW from \in Accounts, NEW to \in Accounts, NEW id \in TokenIds,
             TransferFrom(sender, from, to, id)
      PROVE  \A t \in TokenIds : owners'[t] # Zero <=> owners[t] # Zero
  BY <1>1, AccountsAssumption DEF TransferFrom, Transfer, Exists, ERC721TypeOK
<1> QED
  BY <1>1 DEF LedgerCall, Approve, SetApprovalForAll

LEMMA LedgerStutter == ASSUME LedgerInv, UNCHANGED ledgerVars PROVE LedgerInv'
BY DEF LedgerInv, ledgerVars, ERC721TypeOK, BalancesMatchOwners, BalancesMatch, HeldBy,
       ApprovalsFollowOwner, ApprovalsFit

LEMMA LedgerInvariant == ERC721Spec => []LedgerInv
<1>1. LedgerInv /\ [ERC721Next]_ledgerVars => LedgerInv'
  <2> SUFFICES ASSUME LedgerInv, [ERC721Next]_ledgerVars PROVE LedgerInv'
    OBVIOUS
  <2>1. ASSUME NEW to \in Accounts, NEW id \in TokenIds, MintTokens(to, {id})
        PROVE  LedgerInv'
    BY <2>1, MintTokensStep
  <2> QED
    BY <2>1, LedgerCallStep, LedgerStutter DEF ERC721Next
<1> QED
  BY LedgerInit, <1>1, PTL DEF ERC721Spec

(***************************************************************************)
(* Balances count tokens: no decrement in _transfer ever wraps.            *)
(***************************************************************************)
THEOREM BalancesAlwaysMatch == ERC721Spec => []BalancesMatchOwners
<1>1. LedgerInv => BalancesMatchOwners
  BY DEF LedgerInv
<1> QED
  BY <1>1, LedgerInvariant, PTL

(***************************************************************************)
(* No approval names the owner of its token or a token that does not exist.*)
(***************************************************************************)
THEOREM ApprovalsAlwaysFollow == ERC721Spec => []ApprovalsFollowOwner
<1>1. LedgerInv => ApprovalsFollowOwner
  BY DEF LedgerInv
<1> QED
  BY <1>1, LedgerInvariant, PTL

(***************************************************************************)
(* A token that changes hands is never destroyed and keeps no approval.    *)
(***************************************************************************)
THEOREM TransfersAlwaysReset == ERC721Spec => TransfersResetApproval
<1>1. ASSUME LedgerInv, [ERC721Next]_ledgerVars
      PROVE  [\A id \in TokenIds :
                Exists(id) /\ owners'[id] # owners[id] =>
                  owners'[id] # Zero /\ tokenApprovals'[id] = Zero]_ledgerVars
  <2> SUFFICES ASSUME NEW id \in TokenIds, Exists(id), owners'[id] # owners[id], ERC721Next
               PROVE  owners'[id] # Zero /\ tokenApprovals'[id] = Zero
    BY <1>1
  <2>1. ASSUME NEW to \in Accounts, NEW new \in TokenIds, MintTokens(to, {new})
        PROVE  FALSE
    BY <2>1 DEF MintTokens, Exists
  <2>2. PICK sender \in Accounts : LedgerCall(sender)
    BY <2>1 DEF ERC721Next
  <2>3. ~ \E to \in Spenders \cup {Zero}, t \in TokenIds : Approve(sender, to, t)
    BY DEF Approve
  <2>4. ~ \E operator \in Spenders, approved \in BOOLEAN :
            SetApprovalForAll(sender, operator, approved)
    BY DEF SetApprovalForAll
  <2>5. PICK from \in Accounts, to \in Accounts, t \in TokenIds : Transfer(from, to, t)
    BY <2>2, <2>3, <2>4 DEF LedgerCall, TransferFrom
  <2> QED
    BY <1>1, <2>5 DEF LedgerInv, ERC721TypeOK, Transfer, WithoutApproval
<1> QED
  BY <1>1, LedgerInvariant, PTL DEF ERC721Spec, TransfersResetApproval
=============================================================================
