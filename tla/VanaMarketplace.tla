-------------------------- MODULE VanaMarketplace --------------------------
(***************************************************************************)
(* contracts/VanaMarketplace.sol: sales of the tokens of a collection at a *)
(* fixed price.  A listed token stays with its seller; the marketplace     *)
(* moves it, by the seller's approval, once it has paid out the price.     *)
(*                                                                         *)
(* A purchase calls out four times for each listing: to the receiver of    *)
(* the royalty, to the treasury, to the seller and, with the token, to the *)
(* buyer.  So it is a sequence of steps, between which any contract may    *)
(* call what the guard against reentrancy does not cover: the collection,  *)
(* and the functions of the administrators.  That guard keeps purchases    *)
(* from nesting, so there is at most one purchase under way.               *)
(*                                                                         *)
(* The ledger is that of a collection of this repository, the only one     *)
(* that is listed: tokens of different collections do not affect each      *)
(* other.  The roles and the switch are the marketplace's own.             *)
(***************************************************************************)
EXTENDS ERC721, ERC2981, AccessControl, Pausable, Sequences, FiniteSetsExt

CONSTANTS
    ADMIN_ROLE,
    Market,             \* address(this)
    Deployer,           \* msg.sender of the constructor
    InitialFee,         \* _platformFee of the constructor
    InitialRoyalty,     \* the royalty of the collection; the receiver is Zero if it set none
    CollectionAdmins,   \* who may set the royalty of the collection
    Prices,             \* the prices a seller may ask
    Values,             \* the values a call may carry
    Verdicts,           \* the arguments setVerifiedCollection may be called with
    Fees,               \* the arguments setPlatformFee may be called with
    Treasuries,         \* the arguments setTreasury may be called with
    Royalties,          \* the arguments setRoyaltyInfo may be called with
    MaxListings,        \* how many listings are ever made (a bound)
    MaxBatch,           \* the length of a batch (a bound)
    MaxBalance,         \* no call takes the balance above this (a bound)
    MaxTime             \* the clock stops there (a bound)

MAX_FEE == 1000

BASIS == 10000

ASSUME MarketAssumption ==
    /\ ADMIN_ROLE \in Roles
    /\ Market \in Accounts \ Contracts
    /\ Deployer \in Accounts \ {Market}
    /\ InitialFee \in 0 .. MAX_FEE
    /\ InitialRoyalty \in [receiver : Addresses, fraction : 0 .. FEE_DENOMINATOR]
    /\ CollectionAdmins \subseteq Accounts \ {Market}
    /\ Prices \subseteq Nat
    /\ Values \subseteq Nat
    /\ Verdicts \subseteq BOOLEAN
    /\ Fees \subseteq Nat
    /\ Treasuries \subseteq Addresses
    /\ Royalties \subseteq [receiver : Addresses, fraction : Nat]
    /\ MaxListings \in Nat
    /\ MaxBatch \in Nat
    /\ MaxBalance \in Nat
    /\ MaxTime \in Nat

VARIABLES
    listings,             \* what was ever listed, by listing id
    verifiedCollection,   \* verifiedCollections, for the collection
    platformFee,          \* in basis points
    treasury,
    balance,              \* address(this).balance
    now,                  \* block.timestamp
    purchase              \* the purchase under way

vars == <<ledgerVars, royalty, members, paused, listings, verifiedCollection, platformFee,
          treasury, balance, now, purchase>>

\* What the hash that is the id of a listing is taken of.  Only batchListNFTs
\* adds the place in the batch: listNFT has place 0 here, and a batch counts from 1.
ListingId == [seller : Accounts, token : TokenIds, time : 0 .. MaxTime, place : 0 .. MaxBatch]

Listing == [seller : Addresses, token : Nat, price : Nat, active : BOOLEAN]

\* What the mapping holds under an id that was never listed.
NoListing == [seller |-> Zero, token |-> 0, price |-> 0, active |-> FALSE]

\* All that a reverted purchase gives back.
StorageType ==
    [owners : [TokenIds -> Addresses], balances : [Accounts -> 0 .. UintModulus - 1],
     tokenApprovals : [TokenIds -> Spenders \cup {Zero}],
     operatorApprovals : [Accounts -> SUBSET Spenders],
     royalty : Royalty, members : [Roles -> SUBSET Accounts], paused : BOOLEAN,
     listings : [ListingId -> Listing], verifiedCollection : BOOLEAN,
     platformFee : 0 .. MAX_FEE, treasury : Accounts, balance : Nat]

Storage ==
    [owners |-> owners, balances |-> balances, tokenApprovals |-> tokenApprovals,
     operatorApprovals |-> operatorApprovals, royalty |-> royalty, members |-> members,
     paused |-> paused, listings |-> listings, verifiedCollection |-> verifiedCollection,
     platformFee |-> platformFee, treasury |-> treasury, balance |-> balance]

Idle == purchase.stage = "idle"

NoPurchase == [stage |-> "idle"]

\* A purchase between its calls out: how far it is, and its local variables.
\* settled, the prices of the listings done with, is history.
Purchase ==
    [stage : {"royalty", "fee", "seller", "token", "close"},
     buyer : Accounts, ids : Seq(ListingId), item : Nat,
     platformAmount : Nat, remainingAmount : Nat, value : Nat, sent : Nat, settled : Nat,
     callee : Addresses, saved : StorageType]

MarketTypeOK ==
    /\ Storage \in StorageType
    /\ now \in 0 .. MaxTime
    /\ \/ purchase = NoPurchase
       \/ purchase \in Purchase /\ purchase.item \in DOMAIN purchase.ids

\* The state after the constructor; the collection has no tokens yet.
Init ==
    /\ ERC721Init
    /\ royalty = InitialRoyalty
    /\ members = [role \in Roles |->
                    IF role \in {DEFAULT_ADMIN_ROLE, ADMIN_ROLE} THEN {Deployer} ELSE {}]
    /\ paused = FALSE
    /\ listings = [id \in ListingId |-> NoListing]
    /\ verifiedCollection = FALSE
    /\ platformFee = InitialFee
    /\ treasury = Deployer
    /\ balance = 0
    /\ now = 0
    /\ purchase = NoPurchase
-----------------------------------------------------------------------------
\* Whose calls can come now: anybody's between transactions, and within a
\* purchase those of contracts, once it is calling one of them.
MayCall(sender) ==
    /\ sender # Market
    /\ \/ Idle
       \/ ~Idle /\ purchase.callee \in Contracts /\ sender \in Contracts

\* Mutant: the modifier is forgotten.
NeverEntered == TRUE

\* nonReentrant
NonReentrant == Idle

\* A seller offers a token it owns and has approved the marketplace for.
MayList(sender, token, price) ==
    /\ price > 0
    /\ owners[token] = sender
    /\ tokenApprovals[token] = Market

NewListing(sender, token, price) ==
    [seller |-> sender, token |-> token, price |-> price, active |-> TRUE]

IdOf(sender, token, place) ==
    [seller |-> sender, token |-> token, time |-> now, place |-> place]

EverListed == {id \in ListingId : listings[id] # NoListing}

\* A listing whose id is taken, as it may be within one block, is overwritten.
ListNFT(sender, token, price) ==
    /\ MayCall(sender)
    /\ WhenNotPaused
    /\ NonReentrant
    /\ MayList(sender, token, price)
    /\ Cardinality(EverListed \cup {IdOf(sender, token, 0)}) <= MaxListings
    /\ listings' = [listings EXCEPT ![IdOf(sender, token, 0)] = NewListing(sender, token, price)]
    /\ UNCHANGED <<ledgerVars, royalty, members, paused, verifiedCollection, platformFee,
                   treasury, balance, now, purchase>>

\* offers: the tokens and the prices, two arrays that must have one length.
BatchListNFTs(sender, offers) ==
    LET idAt(i) == IdOf(sender, offers[i].token, i)
        ids == {idAt(i) : i \in DOMAIN offers}
    IN  /\ MayCall(sender)
        /\ WhenNotPaused
        /\ NonReentrant
        /\ \A i \in DOMAIN offers : MayList(sender, offers[i].token, offers[i].price)
        /\ Cardinality(EverListed \cup ids) <= MaxListings
        /\ listings' = [id \in ListingId |->
                          IF id \in ids
                            THEN NewListing(sender, id.token, offers[id.place].price)
                            ELSE listings[id]]
        /\ UNCHANGED <<ledgerVars, royalty, members, paused, verifiedCollection, platformFee,
                       treasury, balance, now, purchase>>

\* Not stopped by the switch.
CancelListing(sender, id) ==
    /\ MayCall(sender)
    /\ NonReentrant
    /\ listings[id].active
    /\ listings[id].seller = sender
    /\ listings' = [listings EXCEPT ![id].active = FALSE]
    /\ UNCHANGED <<ledgerVars, royalty, members, paused, verifiedCollection, platformFee,
                   treasury, balance, now, purchase>>
-----------------------------------------------------------------------------
PricesOf(ids) == [i \in DOMAIN ids |-> listings[ids[i]].price]

\* Mutant: the first loop stops one listing early.
TotalPriceButLast(ids) == SumFunctionOnSet(PricesOf(ids), 1 .. Len(ids) - 1)

TotalPrice(ids) == SumFunction(PricesOf(ids))

(***************************************************************************)
(* buyNFT (one id) and batchBuyNFTs, up to the first listing.  The second  *)
(* loop of the batch does not look at `active' again, so that an id may    *)
(* come twice.  An empty batch only leaves its value, as Receive does.     *)
(***************************************************************************)
BuyNFTs(sender, ids, value) ==
    /\ MayCall(sender)
    /\ NonReentrant
    /\ WhenNotPaused
    /\ ids # <<>>
    /\ \A i \in DOMAIN ids : listings[ids[i]].active
    /\ value >= TotalPrice(ids)
    /\ balance + value <= MaxBalance
    /\ balance' = balance + value
    /\ purchase' = [stage |-> "royalty", buyer |-> sender, ids |-> ids, item |-> 1,
                    platformAmount |-> 0, remainingAmount |-> 0, value |-> value,
                    sent |-> 0, settled |-> 0, callee |-> Zero, saved |-> Storage]
    /\ UNCHANGED <<ledgerVars, royalty, members, paused, listings, verifiedCollection,
                   platformFee, treasury, now>>

Current == listings[purchase.ids[purchase.item]]

\* What is left after a payment: the marketplace may be a treasury, and paid, itself.
BalanceAfter(amount, receiver) == IF receiver = Market THEN balance ELSE balance - amount

\* A payment of the purchase, at one stage of it, and the call that makes it.
Pay(stage, amount, receiver, next) ==
    /\ purchase.stage = stage
    /\ amount <= balance
    /\ balance' = BalanceAfter(amount, receiver)
    /\ purchase' = [next EXCEPT !.sent = @ + amount, !.callee = receiver]
    /\ UNCHANGED <<ledgerVars, royalty, members, paused, listings, verifiedCollection,
                   platformFee, treasury, now>>

PlatformAmount(price) == (price * platformFee) \div BASIS

RoyaltyDue(price) == IF royalty.receiver = Zero THEN 0 ELSE RoyaltyAmount(price)

RemainingAmount(price) == price - PlatformAmount(price) - RoyaltyDue(price)

\* The amounts, and the royalty if there is one: nobody is called for nothing.
PayRoyalty ==
    LET price == Current.price
        amount == RoyaltyDue(price)
    IN  /\ purchase.stage = "royalty"
        /\ RemainingAmount(price) >= 0
        /\ Pay("royalty", amount, IF amount > 0 THEN royalty.receiver ELSE Zero,
               [purchase EXCEPT !.stage = "fee",
                                !.platformAmount = PlatformAmount(price),
                                !.remainingAmount = RemainingAmount(price)])

\* The fee goes to the treasury of now, by a call even if it is nothing.
PayFee ==
    /\ purchase.stage = "fee"
    /\ Pay("fee", purchase.platformAmount, treasury, [purchase EXCEPT !.stage = "seller"])

PaySeller ==
    /\ purchase.stage = "seller"
    /\ Pay("seller", purchase.remainingAmount, Current.seller, [purchase EXCEPT !.stage = "token"])

\* Mutant: the token is taken from whoever owns it by now.
OwnerOf(listing) == owners[listing.token]

SellerOf(listing) == listing.seller

\* safeTransferFrom, which asks for the approval and calls the buyer.
DeliverToken ==
    /\ purchase.stage = "token"
    /\ TransferFrom(Market, SellerOf(Current), purchase.buyer, Current.token)
    /\ purchase' = [purchase EXCEPT !.stage = "close", !.callee = purchase.buyer]
    /\ UNCHANGED <<royalty, members, paused, listings, verifiedCollection, platformFee,
                   treasury, balance, now>>

\* The end of a listing, and of the purchase if it was the last.
CloseListing ==
    /\ purchase.stage = "close"
    /\ listings' = [listings EXCEPT ![purchase.ids[purchase.item]].active = FALSE]
    /\ \/ /\ purchase.item = Len(purchase.ids)
          /\ purchase' = NoPurchase
       \/ /\ purchase.item < Len(purchase.ids)
          /\ purchase' = [purchase EXCEPT !.stage = "royalty", !.item = @ + 1,
                                          !.settled = @ + Current.price, !.callee = Zero]
    /\ UNCHANGED <<ledgerVars, royalty, members, paused, verifiedCollection, platformFee,
                   treasury, balance, now>>

Restore(s) ==
    /\ owners' = s.owners
    /\ balances' = s.balances
    /\ tokenApprovals' = s.tokenApprovals
    /\ operatorApprovals' = s.operatorApprovals
    /\ royalty' = s.royalty
    /\ members' = s.members
    /\ paused' = s.paused
    /\ listings' = s.listings
    /\ verifiedCollection' = s.verifiedCollection
    /\ platformFee' = s.platformFee
    /\ treasury' = s.treasury
    /\ balance' = s.balance

\* A purchase reverts: somebody refuses a payment or the token, the seller no
\* longer owns it or took back its approval, the royalty leaves less than
\* nothing, the balance is short, or the gas runs out.
Abort ==
    /\ ~Idle
    /\ Restore(purchase.saved)
    /\ purchase' = NoPurchase
    /\ UNCHANGED now
-----------------------------------------------------------------------------
AdminVars == <<verifiedCollection, platformFee, treasury, balance, paused>>

SetVerifiedCollection(verified) ==
    /\ verifiedCollection' = verified
    /\ UNCHANGED <<platformFee, treasury, balance, paused>>

\* Mutant: the fee has no limit.
FeeWithoutLimit(newFee) == TRUE

FeeAllowed(newFee) == newFee <= MAX_FEE

SetPlatformFee(newFee) ==
    /\ FeeAllowed(newFee)
    /\ platformFee' = newFee
    /\ UNCHANGED <<verifiedCollection, treasury, balance, paused>>

SetTreasury(newTreasury) ==
    /\ newTreasury # Zero
    /\ treasury' = newTreasury
    /\ UNCHANGED <<verifiedCollection, platformFee, balance, paused>>

\* The treasury is called last, so that what it does then are calls of its own.
EmergencyWithdraw ==
    /\ balance > 0
    /\ balance' = BalanceAfter(balance, treasury)
    /\ UNCHANGED <<verifiedCollection, platformFee, treasury, paused>>

SwitchPause ==
    /\ DoPause \/ DoUnpause
    /\ UNCHANGED <<verifiedCollection, platformFee, treasury, balance>>

\* The functions of ADMIN_ROLE; none of them is nonReentrant.
AdminCall(sender) ==
    /\ MayCall(sender)
    /\ HasRole(ADMIN_ROLE, sender)
    /\ \/ \E verified \in Verdicts : SetVerifiedCollection(verified)
       \/ \E newFee \in Fees : SetPlatformFee(newFee)
       \/ \E newTreasury \in Treasuries : SetTreasury(newTreasury)
       \/ EmergencyWithdraw
       \/ SwitchPause
    /\ UNCHANGED <<ledgerVars, royalty, members, listings, now, purchase>>

RoleChange(sender) ==
    /\ MayCall(sender)
    /\ RoleCall(sender)
    /\ UNCHANGED <<ledgerVars, royalty, AdminVars, listings, now, purchase>>

\* receive: anybody may leave value in the marketplace.
Receive(sender, value) ==
    /\ MayCall(sender)
    /\ balance + value <= MaxBalance
    /\ balance' = balance + value
    /\ UNCHANGED <<ledgerVars, royalty, members, paused, listings, verifiedCollection,
                   platformFee, treasury, now, purchase>>

\* The collection: its ledger, its mints, and its royalty (VanaNFTCollection.setRoyaltyInfo).
CollectionCall(sender) ==
    /\ MayCall(sender)
    /\ \/ LedgerCall(sender) /\ UNCHANGED royalty
       \/ /\ sender \in CollectionAdmins
          /\ \E r \in Royalties : SetDefaultRoyalty(r.receiver, r.fraction)
          /\ UNCHANGED ledgerVars
    /\ UNCHANGED <<members, AdminVars, listings, now, purchase>>

CollectionMint(to, token) ==
    /\ MayCall(to)
    /\ MintTokens(to, {token})
    /\ UNCHANGED <<royalty, members, AdminVars, listings, now, purchase>>

Tick ==
    /\ Idle
    /\ now < MaxTime
    /\ now' = now + 1
    /\ UNCHANGED <<ledgerVars, royalty, members, AdminVars, listings, purchase>>

Offers == [token : TokenIds, price : Prices]

TraderCall(sender) ==
    \/ \E token \in TokenIds, price \in Prices : ListNFT(sender, token, price)
    \/ \E n \in 1 .. MaxBatch : \E offers \in [1 .. n -> Offers] : BatchListNFTs(sender, offers)
    \/ \E id \in EverListed : CancelListing(sender, id)
    \/ \E n \in 1 .. MaxBatch : \E ids \in [1 .. n -> EverListed], value \in Values :
         BuyNFTs(sender, ids, value)
    \/ \E value \in Values : Receive(sender, value)

PurchaseStep == PayRoyalty \/ PayFee \/ PaySeller \/ DeliverToken \/ CloseListing

Next ==
    \/ \E sender \in Accounts :
         \/ TraderCall(sender)
         \/ AdminCall(sender)
         \/ RoleChange(sender)
         \/ CollectionCall(sender)
         \/ \E token \in TokenIds : CollectionMint(sender, token)
    \/ PurchaseStep
    \/ Abort
    \/ Tick

Spec == Init /\ [][Next]_vars
-----------------------------------------------------------------------------
(***************************************************************************)
(* What a purchase has sent is, at each of its stages, exactly the prices  *)
(* of the listings done and what is due of the current one: a token is     *)
(* delivered once its whole price has been paid out to the receiver of the *)
(* royalty, the treasury and the seller, not more and not less, whatever   *)
(* fee, royalty or treasury the callbacks set meanwhile.                   *)
(***************************************************************************)
StillDue ==
    CASE purchase.stage = "fee" -> purchase.platformAmount + purchase.remainingAmount
      [] purchase.stage = "seller" -> purchase.remainingAmount
      [] OTHER -> 0

PriceBegun == IF purchase.stage = "royalty" THEN 0 ELSE Current.price

PaidInFull == ~Idle => purchase.sent + StillDue = purchase.settled + PriceBegun

(***************************************************************************)
(* A purchase is paid for by its buyer alone: what is left of the value    *)
(* that came with it covers the listings that are still to be bought, so   *)
(* that no purchase spends what others left in the marketplace.            *)
(***************************************************************************)
CoveredByBuyer ==
    ~Idle => purchase.value - purchase.settled
               >= SumFunctionOnSet(PricesOf(purchase.ids), purchase.item .. Len(purchase.ids))

(***************************************************************************)
(* A purchase takes a token from a wallet only by a listing which that     *)
(* wallet made of that token, or by a contract the wallet approved.  A     *)
(* listing that has become stale never sells the token of someone else.    *)
(***************************************************************************)
ApprovedContracts(s, token) ==
    Contracts \cap (s.operatorApprovals[s.owners[token]] \cup {s.tokenApprovals[token]})

MayHaveMoved(s, token) ==
    \/ s.owners[token] \in Contracts \cup {Zero}
    \/ ApprovedContracts(s, token) # {}
    \/ \E i \in DOMAIN purchase.ids :
         purchase.ids[i].token = token /\ purchase.ids[i].seller = s.owners[token]

BystandersKeepTokens ==
    ~Idle => LET s == purchase.saved
             IN  \A token \in TokenIds :
                   owners[token] # s.owners[token] => MayHaveMoved(s, token)

(***************************************************************************)
(* A wallet that buys has the token of every listing delivered so far, and *)
(* the approvals its seller gave, to a contract for one, do not take it    *)
(* away again before the purchase is over.                                 *)
(***************************************************************************)
Delivered(i) ==
    \/ i < purchase.item
    \/ i = purchase.item /\ purchase.stage = "close"

BuyersHaveTokens ==
    ~Idle => \/ purchase.buyer \in Contracts
             \/ operatorApprovals[purchase.buyer] \cap Contracts # {}
             \/ \A i \in DOMAIN purchase.ids :
                  Delivered(i) => owners[purchase.ids[i].token] = purchase.buyer

(***************************************************************************)
(* The fee of a sale is at most a tenth of its price.                      *)
(***************************************************************************)
FeeWithinLimit ==
    ~Idle /\ purchase.stage # "royalty" => purchase.platformAmount * 10 <= Current.price
-----------------------------------------------------------------------------
(***************************************************************************)
(* The inductive invariant: the ledger is exact, a listing is found under  *)
(* the id made of its seller and token, a purchase has sent what it        *)
(* should, and a wallet's token either has been sold by that wallet, or    *)
(* could be moved by a contract it approved, or is as the purchase found   *)
(* it, with its approvals.                                                 *)
(***************************************************************************)
LedgerFits(s) ==
    /\ BalancesMatch(s.owners, s.balances)
    /\ ApprovalsFit(s.owners, s.tokenApprovals)

ListingsFit(s) ==
    \A id \in ListingId :
      s.listings[id] # NoListing =>
        s.listings[id].seller = id.seller /\ s.listings[id].token = id.token

Sound(s) == LedgerFits(s) /\ ListingsFit(s)

AsFound(s, token) ==
    /\ owners[token] = s.owners[token]
    /\ tokenApprovals[token] = s.tokenApprovals[token]
    /\ operatorApprovals[owners[token]] = s.operatorApprovals[owners[token]]

PurchaseSound ==
    /\ Sound(purchase.saved)
    /\ \A i \in DOMAIN purchase.ids : listings[purchase.ids[i]] # NoListing
    /\ \A token \in TokenIds :
         MayHaveMoved(purchase.saved, token) \/ AsFound(purchase.saved, token)

MarketInv ==
    /\ MarketTypeOK
    /\ Sound(Storage)
    /\ PaidInFull
    /\ ~Idle => PurchaseSound
=============================================================================
