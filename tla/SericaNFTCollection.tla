------------------------ MODULE SericaNFTCollection ------------------------
(***************************************************************************)
(* contracts/SericaNFTCollection.sol: a collection sold in groups (waves), *)
(* each with its price, window, limits and, perhaps, a whitelist, whose    *)
(* proceeds go to the creators.                                            *)
(*                                                                         *)
(* A call runs to its end as one transaction, except that mint calls out:  *)
(* to the minter (onERC721Received, if it has code) and to every creator   *)
(* it pays.  Code called that way may call the collection before mint goes *)
(* on.  So mint is a Mint step, which pushes a frame, a PayCreator step    *)
(* for each creator and a FinishMint step, and while a contract is being   *)
(* called every call by a contract may come between two of them.  Abort    *)
(* is a mint that reverts: the storage of before its call comes back.      *)
(***************************************************************************)
EXTENDS ERC721, AccessControl, Pausable, Sequences, SequencesExt, FiniteSetsExt

CONSTANTS
    ADMIN_ROLE,
    Deployer,        \* msg.sender of initialize
    Supply,          \* supply, which nothing changes after initialize
    LastTokenId,     \* the token ids are 1 .. LastTokenId (a bound, at least Supply)
    GroupNames,      \* the names an administrator may choose
    GroupTerms,      \* the terms an administrator may give a group
    CreatorSplits,   \* the arguments setCreators may be called with
    Payments,        \* the values a mint may carry
    NoRoot,          \* bytes32(0): the group is open to all
    Listed,          \* Listed[root]: the accounts with a Merkle proof for the root
    MaxTime          \* the clock stops there (a bound)

SHARE_BASIS == 10000

MAX_BATCH == 20

Terms == [merkleRoot : DOMAIN Listed \cup {NoRoot}, maxTokens : Nat, unitPrice : Nat,
          mintPerWallet : Nat, startTime : Nat, endTime : Nat]

Creator == [wallet : Accounts, share : Nat]

ASSUME SericaAssumption ==
    /\ ADMIN_ROLE \in Roles
    /\ Deployer \in Accounts
    /\ Supply \in Nat \ {0}
    /\ LastTokenId \in Nat
    /\ TokenIds = 1 .. LastTokenId
    /\ GroupNames \subseteq STRING
    /\ GroupTerms \subseteq Terms
    /\ CreatorSplits \subseteq Seq([wallet : Addresses, share : Nat])
    /\ Payments \subseteq Nat
    /\ NoRoot \notin DOMAIN Listed
    /\ MaxTime \in Nat

VARIABLES
    mintedCount,        \* _mintedCount
    mintGroups,         \* the groups in the order they were added
    groupIndexByName,   \* the place of a group in mintGroups, 0 if there is none
    groupMintStatus,    \* who has used mint in a whitelisted group of that name
    walletMintCount,    \* how many tokens a wallet minted in a group
    creators,           \* who is paid, and the share of each
    balance,            \* the value the collection holds
    now,                \* block.timestamp
    frames,             \* the mints that have called out, innermost last
    origin,             \* history: the wallet, group and call a token was minted by
    events              \* history: the Minted events emitted

saleVars == <<mintedCount, mintGroups, groupIndexByName, groupMintStatus,
              walletMintCount, origin>>

vars == <<ledgerVars, members, paused, saleVars, creators, balance, now, frames, events>>

MintGroup == [name : GroupNames, terms : Terms, mintedInGroup : Nat, isActive : BOOLEAN]

Event == [to : Accounts, id : Nat, group : GroupNames]

NotMinted == [wallet |-> Zero, group |-> "", listed |-> FALSE, call |-> "none"]

Origin == [wallet : Accounts, group : GroupNames, listed : BOOLEAN,
           call : {"mint", "batchMint"}] \cup {NotMinted}

\* All that a reverted call gives back.
StorageType ==
    [owners : [TokenIds -> Addresses], balances : [Accounts -> 0 .. UintModulus - 1],
     tokenApprovals : [TokenIds -> Spenders \cup {Zero}],
     operatorApprovals : [Accounts -> SUBSET Spenders],
     members : [Roles -> SUBSET Accounts], paused : BOOLEAN,
     mintedCount : Nat, mintGroups : Seq(MintGroup), groupIndexByName : [GroupNames -> Nat],
     groupMintStatus : [GroupNames -> SUBSET Accounts],
     walletMintCount : [GroupNames -> [Accounts -> Nat]], origin : [TokenIds -> Origin],
     creators : Seq(Creator), balance : Nat, events : SUBSET Event]

Storage ==
    [owners |-> owners, balances |-> balances, tokenApprovals |-> tokenApprovals,
     operatorApprovals |-> operatorApprovals, members |-> members, paused |-> paused,
     mintedCount |-> mintedCount, mintGroups |-> mintGroups,
     groupIndexByName |-> groupIndexByName, groupMintStatus |-> groupMintStatus,
     walletMintCount |-> walletMintCount, origin |-> origin, creators |-> creators,
     balance |-> balance, events |-> events]

\* A mint between its calls out: whom it is calling, and what it has paid so far.
Frame == [minter : Accounts, group : GroupNames, payment : Nat, payees : Nat, sent : Nat,
          callee : Addresses, saved : StorageType]

TypeOK ==
    /\ Storage \in StorageType
    /\ now \in Nat
    /\ frames \in Seq(Frame)

\* The state after initialize.
Init ==
    /\ ERC721Init
    /\ members = [role \in Roles |->
                    IF role \in {DEFAULT_ADMIN_ROLE, ADMIN_ROLE} THEN {Deployer} ELSE {}]
    /\ paused = FALSE
    /\ mintedCount = 0
    /\ mintGroups = <<>>
    /\ groupIndexByName = [name \in GroupNames |-> 0]
    /\ groupMintStatus = [name \in GroupNames |-> {}]
    /\ walletMintCount = [name \in GroupNames |-> [a \in Accounts |-> 0]]
    /\ creators = <<>>
    /\ balance = 0
    /\ now = 0
    /\ frames = <<>>
    /\ origin = [id \in TokenIds |-> NotMinted]
    /\ events = {}
-----------------------------------------------------------------------------
Idle == frames = <<>>

Top == Last(frames)

\* Whose calls can come now: anybody's between transactions, and within one
\* those of contracts, once mint is calling one of them.
MayCall(sender) ==
    \/ Idle
    \/ ~Idle /\ Top.callee \in Contracts /\ sender \in Contracts

\* Mutant: an off-by-one in the test of the index, which counts from 1.
GroupExistsPastFirst(name) == groupIndexByName[name] > 1

GroupExists(name) == groupIndexByName[name] > 0

GroupOf(name) == mintGroups[groupIndexByName[name]]

IsWhitelisted(group, account) ==
    group.terms.merkleRoot # NoRoot => account \in Listed[group.terms.merkleRoot]

OnSale(group) ==
    /\ group.isActive
    /\ now >= group.terms.startTime
    /\ group.terms.endTime = 0 \/ now <= group.terms.endTime

ValidTermsAt(terms, time) ==
    /\ terms.startTime > time
    /\ terms.endTime = 0 \/ terms.endTime > terms.startTime
    /\ terms.mintPerWallet > 0

ValidTerms(terms) == ValidTermsAt(terms, now)

AddMintGroup(sender, name, terms) ==
    /\ MayCall(sender)
    /\ HasRole(ADMIN_ROLE, sender)
    /\ name # ""
    /\ ~GroupExists(name)
    /\ ValidTerms(terms)
    /\ mintGroups' = Append(mintGroups, [name |-> name, terms |-> terms,
                                         mintedInGroup |-> 0, isActive |-> TRUE])
    /\ groupIndexByName' = [groupIndexByName EXCEPT ![name] = Len(mintGroups')]
    /\ UNCHANGED <<ledgerVars, members, paused, mintedCount, groupMintStatus,
                   walletMintCount, origin, creators, balance, now, frames, events>>

UpdateMintGroup(sender, name, terms) ==
    /\ MayCall(sender)
    /\ HasRole(ADMIN_ROLE, sender)
    /\ GroupExists(name)
    /\ ValidTerms(terms)
    /\ mintGroups' = [mintGroups EXCEPT ![groupIndexByName[name]].terms = terms]
    /\ UNCHANGED <<ledgerVars, members, paused, mintedCount, groupIndexByName,
                   groupMintStatus, walletMintCount, origin, creators, balance, now,
                   frames, events>>

TotalShares(split) == SumFunction([i \in DOMAIN split |-> split[i].share])

\* Mutant: the zero address may be a creator.
ValidSplitOfAnybody(split) ==
    /\ split # <<>>
    /\ TotalShares(split) = SHARE_BASIS

\* Mutant: the shares may add up to anything.
ValidSplitOfAnything(split) ==
    /\ split # <<>>
    /\ \A i \in DOMAIN split : split[i].wallet # Zero

ValidSplit(split) ==
    /\ split # <<>>
    /\ \A i \in DOMAIN split : split[i].wallet # Zero
    /\ TotalShares(split) = SHARE_BASIS

\* The arrays of wallets and shares, which must have one length, are one sequence.
SetCreators(sender, split) ==
    /\ MayCall(sender)
    /\ HasRole(ADMIN_ROLE, sender)
    /\ ValidSplit(split)
    /\ creators' = split
    /\ UNCHANGED <<ledgerVars, members, paused, saleVars, balance, now, frames, events>>

\* Mutant: the counter moves before the id is taken from it.
NewIdsSkipOne(q) == mintedCount + 2 .. mintedCount + q + 1

NewIds(q) == mintedCount + 1 .. mintedCount + q

\* Mutant: a batch counts as one mint of the wallet.
CountMintOnce(sender, name, q) ==
    /\ mintGroups' = [mintGroups EXCEPT ![groupIndexByName[name]].mintedInGroup = @ + q]
    /\ walletMintCount' = [walletMintCount EXCEPT ![name][sender] = @ + 1]

CountMint(sender, name, q) ==
    /\ mintGroups' = [mintGroups EXCEPT ![groupIndexByName[name]].mintedInGroup = @ + q]
    /\ walletMintCount' = [walletMintCount EXCEPT ![name][sender] = @ + q]

\* The tokens a mint of q in a group gives the sender, and the counters it moves.
Issue(sender, name, q, call) ==
    /\ MintTokens(sender, NewIds(q))
    /\ mintedCount' = mintedCount + q
    /\ CountMint(sender, name, q)
    /\ origin' = [id \in TokenIds |->
                    IF id \in NewIds(q)
                      THEN [wallet |-> sender, group |-> name, call |-> call,
                            listed |-> GroupOf(name).terms.merkleRoot # NoRoot]
                      ELSE origin[id]]
    /\ UNCHANGED groupIndexByName

\* Mutant: a wallet may mint one token more than its limit.
WalletHasRoomAndOne(sender, name, q) ==
    walletMintCount[name][sender] + q <= GroupOf(name).terms.mintPerWallet + 1

\* mint compares with <, batchMint the sum with <=.
WalletHasRoom(sender, name, q) ==
    walletMintCount[name][sender] + q <= GroupOf(name).terms.mintPerWallet

\* Mutant: the status of the wallet is written and never read.
ClaimListingAgain(sender, name) ==
    groupMintStatus' = [groupMintStatus EXCEPT ![name] = @ \cup {sender}]

\* Only in a whitelisted group does mint ask for, and set, the status of the wallet.
ClaimListing(sender, name) ==
    \/ /\ GroupOf(name).terms.merkleRoot # NoRoot
       /\ sender \notin groupMintStatus[name]
       /\ groupMintStatus' = [groupMintStatus EXCEPT ![name] = @ \cup {sender}]
    \/ /\ GroupOf(name).terms.merkleRoot = NoRoot
       /\ UNCHANGED groupMintStatus

\* mint, up to the call of the minter that _safeMint ends with.
Mint(sender, name, payment) ==
    /\ MayCall(sender)
    /\ WhenNotPaused
    /\ GroupExists(name)
    /\ OnSale(GroupOf(name))
    /\ payment >= GroupOf(name).terms.unitPrice
    /\ WalletHasRoom(sender, name, 1)
    /\ IsWhitelisted(GroupOf(name), sender)
    /\ ClaimListing(sender, name)
    /\ mintedCount < Supply
    /\ \/ GroupOf(name).terms.maxTokens = 0
       \/ GroupOf(name).mintedInGroup < GroupOf(name).terms.maxTokens
    /\ Issue(sender, name, 1, "mint")
    /\ balance' = balance + payment
    /\ frames' = Append(frames, [minter |-> sender, group |-> name, payment |-> payment,
                                 payees |-> 0, sent |-> 0, callee |-> sender,
                                 saved |-> Storage])
    /\ UNCHANGED <<members, paused, creators, now, events>>

\* Mutant: the division comes first.
ShareOfPercent(payment, share) == (payment \div SHARE_BASIS) * share

ShareOf(payment, share) == (payment * share) \div SHARE_BASIS

\* One turn of the loop over the creators, which reads the array again each time.
PayCreator ==
    /\ ~Idle
    /\ Top.payees < Len(creators)
    /\ LET creator == creators[Top.payees + 1]
           creatorShare == ShareOf(Top.payment, creator.share)
       IN  /\ creatorShare <= balance
           /\ balance' = balance - creatorShare
           /\ frames' = [frames EXCEPT
                           ![Len(frames)].payees = @ + 1,
                           ![Len(frames)].sent = @ + creatorShare,
                           ![Len(frames)].callee = creator.wallet]
    /\ UNCHANGED <<ledgerVars, members, paused, saleVars, creators, now, events>>

\* Mutant: the event names the token that comes next.
MintedEventNext(to, id, name) == [to |-> to, id |-> id + 1, group |-> name]

MintedEvent(to, id, name) == [to |-> to, id |-> id, group |-> name]

\* The end of mint.  The event names the token by reading _mintedCount again.
FinishMint ==
    /\ ~Idle
    /\ Top.payees >= Len(creators)
    /\ events' = events \cup {MintedEvent(Top.minter, mintedCount, Top.group)}
    /\ frames' = Front(frames)
    /\ UNCHANGED <<ledgerVars, members, paused, saleVars, creators, balance, now>>

\* The EVM gives back all that the reverted call has written.
Restore(s) ==
    /\ owners' = s.owners
    /\ balances' = s.balances
    /\ tokenApprovals' = s.tokenApprovals
    /\ operatorApprovals' = s.operatorApprovals
    /\ members' = s.members
    /\ paused' = s.paused
    /\ mintedCount' = s.mintedCount
    /\ mintGroups' = s.mintGroups
    /\ groupIndexByName' = s.groupIndexByName
    /\ groupMintStatus' = s.groupMintStatus
    /\ walletMintCount' = s.walletMintCount
    /\ origin' = s.origin
    /\ creators' = s.creators
    /\ balance' = s.balance
    /\ events' = s.events

\* A mint reverts: the minter refuses the token, a creator refuses its share,
\* the balance is short of one, or the gas runs out.
Abort ==
    /\ ~Idle
    /\ Restore(Top.saved)
    /\ frames' = Front(frames)
    /\ UNCHANGED now

\* batchMint uses _mint, which calls nobody, and pays nobody.
BatchMint(sender, name, quantity, payment) ==
    /\ MayCall(sender)
    /\ WhenNotPaused
    /\ GroupExists(name)
    /\ OnSale(GroupOf(name))
    /\ IsWhitelisted(GroupOf(name), sender)
    /\ WalletHasRoom(sender, name, quantity)
    /\ GroupOf(name).mintedInGroup + quantity <= GroupOf(name).terms.maxTokens
    /\ payment >= GroupOf(name).terms.unitPrice * quantity
    /\ Issue(sender, name, quantity, "batchMint")
    /\ balance' = balance + payment
    /\ events' = events \cup {MintedEvent(sender, id, name) : id \in NewIds(quantity)}
    /\ UNCHANGED <<groupMintStatus, members, paused, creators, now, frames>>

\* Mutant: the modifier onlyRole is forgotten.
PauseByAnyone(sender) ==
    /\ MayCall(sender)
    /\ DoPause
    /\ UNCHANGED <<ledgerVars, members, saleVars, creators, balance, now, frames, events>>

Pause(sender) ==
    /\ MayCall(sender)
    /\ HasRole(ADMIN_ROLE, sender)
    /\ DoPause
    /\ UNCHANGED <<ledgerVars, members, saleVars, creators, balance, now, frames, events>>

Unpause(sender) ==
    /\ MayCall(sender)
    /\ HasRole(ADMIN_ROLE, sender)
    /\ DoUnpause
    /\ UNCHANGED <<ledgerVars, members, saleVars, creators, balance, now, frames, events>>

\* What the collection inherits: the calls of the ledger, paused or not, and of the roles.
InheritedCall(sender) ==
    /\ MayCall(sender)
    /\ \/ LedgerCall(sender) /\ UNCHANGED members
       \/ RoleCall(sender) /\ UNCHANGED ledgerVars
    /\ UNCHANGED <<paused, saleVars, creators, balance, now, frames, events>>

\* Blocks follow one another; the timestamp does not change within a transaction.
Tick ==
    /\ Idle
    /\ now < MaxTime
    /\ now' = now + 1
    /\ UNCHANGED <<ledgerVars, members, paused, saleVars, creators, balance, frames, events>>

AdminCall(sender) ==
    \/ \E name \in GroupNames, terms \in GroupTerms :
         AddMintGroup(sender, name, terms) \/ UpdateMintGroup(sender, name, terms)
    \/ \E split \in CreatorSplits : SetCreators(sender, split)
    \/ Pause(sender)
    \/ Unpause(sender)

BuyerCall(sender) ==
    \E name \in GroupNames, payment \in Payments :
      \/ Mint(sender, name, payment)
      \/ \E quantity \in 1 .. MAX_BATCH : BatchMint(sender, name, quantity, payment)

Next ==
    \/ \E sender \in Accounts :
         AdminCall(sender) \/ BuyerCall(sender) \/ InheritedCall(sender)
    \/ PayCreator
    \/ FinishMint
    \/ Abort
    \/ Tick

Spec == Init /\ [][Next]_vars
-----------------------------------------------------------------------------
(***************************************************************************)
(* The ids are given out in order and without gaps: the tokens that exist  *)
(* are 1 .. mintedCount.  It is why mint and batchMint never meet the      *)
(* "token already minted" of _mint, whatever calls come in between.        *)
(***************************************************************************)
SequentialIds(s) == \A id \in TokenIds : (s.owners[id] # Zero) <=> (id <= s.mintedCount)

TokensAreSequential == SequentialIds(Storage)

(***************************************************************************)
(* walletMintCount and mintedInGroup count exactly the tokens minted by    *)
(* the wallet and in the group, through mints that nest, batches and mints *)
(* that are undone.                                                        *)
(***************************************************************************)
MintedIn(s, name) == {id \in TokenIds : s.origin[id] # NotMinted /\ s.origin[id].group = name}

MintedBy(s, name, a) == {id \in MintedIn(s, name) : s.origin[id].wallet = a}

CountersMatch(s) ==
    /\ \A name \in GroupNames, a \in Accounts :
         s.walletMintCount[name][a] = Cardinality(MintedBy(s, name, a))
    /\ \A i \in DOMAIN s.mintGroups :
         s.mintGroups[i].mintedInGroup = Cardinality(MintedIn(s, s.mintGroups[i].name))

CountersMatchMints == CountersMatch(Storage)

(***************************************************************************)
(* A group has one place in mintGroups, and its name leads there: adding a *)
(* group never hides or doubles another.                                   *)
(***************************************************************************)
IndexFits(s) ==
    /\ \A name \in GroupNames :
         s.groupIndexByName[name] # 0 =>
           /\ s.groupIndexByName[name] \in DOMAIN s.mintGroups
           /\ s.mintGroups[s.groupIndexByName[name]].name = name
    /\ \A i \in DOMAIN s.mintGroups : s.groupIndexByName[s.mintGroups[i].name] = i

GroupIndexConsistent == IndexFits(Storage)

(***************************************************************************)
(* By mint, a wallet gets at most one token of a group while the group has *)
(* a whitelist, even if the whitelist is replaced, the wallet's contract   *)
(* calls mint again from onERC721Received, or a mint is undone.            *)
(***************************************************************************)
ListedMints(s, name, a, calls) ==
    {id \in MintedBy(s, name, a) : s.origin[id].listed /\ s.origin[id].call \in calls}

AtMostOne(S) == \A x, y \in S : x = y

OneListedMint ==
    \A name \in GroupNames, a \in Accounts : AtMostOne(ListedMints(Storage, name, a, {"mint"}))

(***************************************************************************)
(* A mint never pays its creators more than it was paid, so it never       *)
(* spends what other calls left in the collection.  The array of creators  *)
(* is read again after every call out: it must not change meanwhile, which *)
(* holds while no administrator is a contract.                             *)
(***************************************************************************)
NoOverpayment == \A i \in DOMAIN frames : frames[i].sent <= frames[i].payment

(***************************************************************************)
(* When mint ends every creator has its share: what is left of the payment *)
(* is less than one unit for each of them (or there are no creators).      *)
(***************************************************************************)
PayoutsComplete ==
    [][FinishMint => \/ creators = <<>>
                     \/ Top.payment - Top.sent < Len(creators)]_vars

(***************************************************************************)
(* The token a mint issued is still that of its minter and group when mint *)
(* goes on after its calls out.                                            *)
(***************************************************************************)
Delivered(frame, s) ==
    LET id == frame.saved.mintedCount + 1
    IN  /\ id <= s.mintedCount
        /\ s.origin[id].wallet = frame.minter
        /\ s.origin[id].group = frame.group

MintDelivers == \A i \in DOMAIN frames : Delivered(frames[i], Storage)

(***************************************************************************)
(* A token is only ever minted in a sale that is open, to a wallet and in  *)
(* a group that stay within their limits, counting the new tokens.         *)
(***************************************************************************)
MintsRespectLimits ==
    [][\A id \in TokenIds :
         ~Exists(id) /\ owners'[id] # Zero =>
           LET name == origin'[id].group
               group == mintGroups'[groupIndexByName[name]]
           IN  /\ ~paused /\ OnSale(group)
               /\ IsWhitelisted(group, origin'[id].wallet)
               /\ walletMintCount'[name][origin'[id].wallet] <= group.terms.mintPerWallet
               /\ group.terms.maxTokens # 0 => group.mintedInGroup <= group.terms.maxTokens]_vars

\* The event that a token should have.
TrueEvent(s, id) == [to |-> s.origin[id].wallet, id |-> id, group |-> s.origin[id].group]

OfContract(s, id) == s.origin[id].wallet \in Contracts

(***************************************************************************)
(* What an indexer of the Minted events can rely on between transactions.  *)
(* mint reads _mintedCount again for its event, after its calls out: a     *)
(* token stays unannounced only if the next one went to a contract, which  *)
(* minted from a callback, and an event names a wrong minter or group only *)
(* for a token of a contract.  Among wallets the events are the mints.     *)
(***************************************************************************)
EventsMatchUnlessNested ==
    Idle =>
      /\ \A id \in 1 .. mintedCount :
           \/ TrueEvent(Storage, id) \in events
           \/ id < mintedCount /\ OfContract(Storage, id + 1)
      /\ \A event \in events :
           /\ event.id \in 1 .. mintedCount
           /\ event = TrueEvent(Storage, event.id) \/ OfContract(Storage, event.id)

(***************************************************************************)
(* Seen from outside, the collection implements MintLog: the mints that    *)
(* nest, pay and are undone within a transaction show between transactions *)
(* as a list of tokens that only grows, in which a wallet has one token by *)
(* mint in a listed group.                                                 *)
(***************************************************************************)
\* What anybody reads who is not called by a mint: the storage between transactions.
PublicStorage == IF Idle THEN Storage ELSE frames[1].saved

LogOf(s) == [id \in 1 .. s.mintedCount |-> s.origin[id]]

Log == INSTANCE MintLog
         WITH log <- LogOf(PublicStorage), Entries <- Origin \ {NotMinted},
              OnceOnly <- {entry \in Origin : entry.listed /\ entry.call = "mint"}

MintsAreLogged == Log!Spec

(***************************************************************************)
(* Once nobody is an administrator, of the roles or of the collection,     *)
(* nobody ever is again, and the switch, the creators and the terms of the *)
(* groups stay as they are: a paused collection never sells again.         *)
(***************************************************************************)
Ownerless == members[DEFAULT_ADMIN_ROLE] = {} /\ members[ADMIN_ROLE] = {}

OwnerlessIsFrozen ==
    [][Idle /\ Ownerless =>
         /\ Ownerless'
         /\ UNCHANGED <<paused, creators>>
         /\ \A i \in DOMAIN mintGroups' :
              i \in DOMAIN mintGroups /\ mintGroups'[i].terms = mintGroups[i].terms]_vars
-----------------------------------------------------------------------------
(***************************************************************************)
(* The inductive invariant: the storage is sound, and so is every storage  *)
(* a mint that has called out would bring back if it reverted.             *)
(***************************************************************************)
\* The history agrees with the counter, and only groups that exist are minted in.
OriginsFit(s) ==
    /\ s.mintedCount <= LastTokenId
    /\ \A id \in TokenIds : (s.origin[id] = NotMinted) <=> (id > s.mintedCount)
    /\ \A id \in TokenIds :
         s.origin[id] # NotMinted => s.groupIndexByName[s.origin[id].group] # 0

\* A wallet that used mint in a listed group is marked, and used it once.
StatusFits(s) ==
    \A name \in GroupNames, a \in Accounts :
      LET listed == ListedMints(s, name, a, {"mint"})
      IN  AtMostOne(listed) /\ (listed # {} => a \in s.groupMintStatus[name])

Sound(s) ==
    /\ s \in StorageType
    /\ BalancesMatch(s.owners, s.balances)
    /\ ApprovalsFit(s.owners, s.tokenApprovals)
    /\ SequentialIds(s)
    /\ IndexFits(s)
    /\ OriginsFit(s)
    /\ CountersMatch(s)
    /\ StatusFits(s)

\* A frame's own token is there in the storage of now and in those of later frames.
FramesSound ==
    \A i \in DOMAIN frames :
      /\ Sound(frames[i].saved)
      /\ \A j \in DOMAIN frames : i < j => Delivered(frames[i], frames[j].saved)

Inv ==
    /\ TypeOK
    /\ Sound(Storage)
    /\ FramesSound
    /\ MintDelivers
-----------------------------------------------------------------------------
(***************************************************************************)
(* What the documents promise and the code does not keep.                  *)
(***************************************************************************)
\* docs/Serica/AUDIT_SCOPE.md:73 "Total minted <= Max supply".
SupplyNeverExceeded == mintedCount <= Supply

\* docs/Serica/technical.md:153 "Automatic creator payment distribution": with
\* creators to pay, all that stays between transactions is what rounding leaves.
PaymentsDistributed ==
    Idle /\ creators # <<>> => balance <= mintedCount * Len(creators)
=============================================================================
