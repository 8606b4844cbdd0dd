----------------------- MODULE VanaMarketplace_proofs -----------------------
(***************************************************************************)
(* The inductive invariant of the marketplace, for any traders, listings,  *)
(* prices, fees and royalties.  Every step leaves the storage sound; what  *)
(* is particular to a purchase is that the calls others make during it can *)
(* neither change a listing nor move a token of a wallet that approved no  *)
(* contract, so that the token delivered is always the seller's.           *)
(***************************************************************************)
EXTENDS VanaMarketplace, ERC721_proofs, AccessControl_proofs, SequenceTheorems, Sums

\* The soundness of the storage, variable by variable.
MarketTyped ==
    /\ ERC721TypeOK
    /\ royalty \in Royalty
    /\ MembersTypeOK
    /\ PausableTypeOK
    /\ listings \in [ListingId -> Listing]
    /\ verifiedCollection \in BOOLEAN
    /\ platformFee \in 0 .. MAX_FEE
    /\ treasury \in Accounts
    /\ balance \in Nat

ListingsSound ==
    \A id \in ListingId :
      listings[id] # NoListing => listings[id].seller = id.seller /\ listings[id].token = id.token

StateSound == MarketTyped /\ LedgerInv /\ ListingsSound

\* The soundness of a purchase under way.
UnderWay ==
    /\ purchase \in Purchase
    /\ purchase.item \in DOMAIN purchase.ids
    /\ purchase.sent + StillDue = purchase.settled + PriceBegun
    /\ PurchaseSound
-----------------------------------------------------------------------------
LEMMA StateIff == Storage \in StorageType /\ Sound(Storage) <=> StateSound
<1>1. Storage \in StorageType <=> MarketTyped
  BY DEF Storage, StorageType, MarketTyped, ERC721TypeOK, MembersTypeOK, PausableTypeOK
<1>2. BalancesMatch(Storage.owners, Storage.balances) <=> BalancesMatchOwners
  BY DEF Storage, BalancesMatchOwners
<1>3. ApprovalsFit(Storage.owners, Storage.tokenApprovals) <=> ApprovalsFollowOwner
  BY DEF Storage, ApprovalsFollowOwner
<1>4. ListingsFit(Storage) <=> ListingsSound
  BY DEF Storage, ListingsFit, ListingsSound
<1> QED
  BY <1>1, <1>2, <1>3, <1>4 DEF Sound, LedgerFits, StateSound, LedgerInv, MarketTyped

LEMMA MarketInvIff ==
  MarketInv <=> StateSound /\ now \in 0 .. MaxTime /\ (purchase = NoPurchase \/ UnderWay)
<1>1. purchase = NoPurchase => Idle
  BY DEF NoPurchase, Idle
<1>2. purchase \in Purchase => ~Idle
  BY DEF Purchase, Idle
<1> QED
  BY <1>1, <1>2, StateIff DEF MarketInv, MarketTypeOK, PaidInFull, UnderWay

LEMMA MarketInvIffPrime ==
  MarketInv' <=> StateSound' /\ now' \in 0 .. MaxTime /\ (purchase' = NoPurchase \/ UnderWay')
<1>1. (now \in 0 .. MaxTime)' <=> now' \in 0 .. MaxTime
  OBVIOUS
<1>2. (purchase = NoPurchase)' <=> purchase' = NoPurchase
  BY DEF NoPurchase
<1> QED
  BY <1>1, <1>2, MarketInvIff, PTL

\* Whether a purchase is under way tells what it is.
LEMMA IdleIff ==
  ASSUME MarketInv
  PROVE  /\ Idle <=> purchase = NoPurchase
         /\ ~Idle <=> UnderWay
<1>1. purchase = NoPurchase => Idle
  BY DEF NoPurchase, Idle
<1>2. UnderWay => ~Idle
  BY DEF Purchase, Idle, UnderWay
<1> QED
  BY <1>1, <1>2, MarketInvIff
-----------------------------------------------------------------------------
\* A call that is no part of the purchase leaves it sound if it moves no token
\* that only its owner may move.
LEMMA OthersStep ==
  ASSUME MarketInv, StateSound', UNCHANGED <<listings, now, purchase>>,
         ~Idle => \A token \in TokenIds :
                    \/ MayHaveMoved(purchase.saved, token)
                    \/ AsFound(purchase.saved, token)'
  PROVE  MarketInv'
<1>1. CASE Idle
  BY <1>1, IdleIff, MarketInvIff, MarketInvIffPrime
<1>2. CASE ~Idle
  <2>1. UnderWay
    BY <1>2, IdleIff
  <2>2. /\ (purchase \in Purchase)'
        /\ (purchase.item \in DOMAIN purchase.ids)'
    BY <2>1 DEF UnderWay
  <2>3. (purchase.sent + StillDue = purchase.settled + PriceBegun)'
    BY <2>1 DEF UnderWay, StillDue, PriceBegun, Current
  <2>4. PurchaseSound'
    <3>1. Sound(purchase.saved)' <=> Sound(purchase.saved)
      BY DEF Sound, LedgerFits, ListingsFit, BalancesMatch, ApprovalsFit, HeldBy
    <3>2. \A token \in TokenIds :
            MayHaveMoved(purchase.saved, token)' <=> MayHaveMoved(purchase.saved, token)
      BY DEF MayHaveMoved, ApprovedContracts
    <3>3. (\A i \in DOMAIN purchase.ids : listings[purchase.ids[i]] # NoListing)'
      BY <2>1 DEF UnderWay, PurchaseSound
    <3> QED
      BY <1>2, <2>1, <3>1, <3>2, <3>3 DEF UnderWay, PurchaseSound
  <2>5. UnderWay'
    BY <2>2, <2>3, <2>4 DEF UnderWay
  <2> QED
    BY <2>5, MarketInvIff, MarketInvIffPrime
<1> QED
  BY <1>1, <1>2

\* So does one that leaves the ledger alone.
LEMMA OutsideLedgerStep ==
  ASSUME MarketInv, StateSound', UNCHANGED <<ledgerVars, listings, now, purchase>>
  PROVE  MarketInv'
<1>1. ~Idle => \A token \in TokenIds :
                 \/ MayHaveMoved(purchase.saved, token)
                 \/ AsFound(purchase.saved, token)'
  <2> SUFFICES ASSUME ~Idle, NEW token \in TokenIds
               PROVE  \/ MayHaveMoved(purchase.saved, token)
                      \/ AsFound(purchase.saved, token)'
    OBVIOUS
  <2>1. MayHaveMoved(purchase.saved, token) \/ AsFound(purchase.saved, token)
    BY IdleIff DEF UnderWay, PurchaseSound
  <2>2. AsFound(purchase.saved, token)' <=> AsFound(purchase.saved, token)
    BY DEF AsFound, ledgerVars
  <2> QED
    BY <2>1, <2>2
<1> QED
  BY <1>1, OthersStep

\* The ledger and the listings stay, and the rest stays typed.
LEMMA StillSound ==
  ASSUME StateSound, UNCHANGED <<ledgerVars, listings>>,
         royalty' \in Royalty, MembersTypeOK', PausableTypeOK', verifiedCollection' \in BOOLEAN,
         platformFee' \in 0 .. MAX_FEE, treasury' \in Accounts, balance' \in Nat
  PROVE  StateSound'
<1>1. LedgerInv'
  BY LedgerStutter DEF StateSound
<1>2. MarketTyped'
  BY <1>1 DEF StateSound, MarketTyped, LedgerInv
<1>3. ListingsSound'
  BY DEF StateSound, ListingsSound
<1> QED
  BY <1>1, <1>2, <1>3 DEF StateSound

LEMMA SameStorage ==
  ASSUME StateSound, UNCHANGED <<ledgerVars, listings, royalty, members, AdminVars>>
  PROVE  StateSound'
<1>1. MembersTypeOK' /\ PausableTypeOK'
  BY DEF StateSound, MarketTyped, MembersTypeOK, PausableTypeOK, AdminVars
<1> QED
  BY <1>1, StillSound DEF StateSound, MarketTyped, AdminVars
-----------------------------------------------------------------------------
\* The functions of the administrators.
LEMMA AdminCallStep ==
  ASSUME MarketInv, NEW sender \in Accounts, AdminCall(sender)
  PROVE  MarketInv'
<1>1. StateSound
  BY MarketInvIff
<1>2. UNCHANGED <<ledgerVars, royalty, members, listings, now, purchase>>
  BY DEF AdminCall
<1> DEFINE AdminTyped == /\ verifiedCollection' \in BOOLEAN
                         /\ platformFee' \in 0 .. MAX_FEE
                         /\ treasury' \in Accounts
                         /\ balance' \in Nat
                         /\ PausableTypeOK'
<1>3. AdminTyped
  <2> USE <1>1, <1>2 DEF StateSound, MarketTyped, PausableTypeOK
  <2>1. ASSUME NEW verified \in Verdicts, SetVerifiedCollection(verified)
        PROVE  AdminTyped
    BY <2>1, MarketAssumption DEF SetVerifiedCollection
  <2>2. ASSUME NEW newFee \in Fees, SetPlatformFee(newFee)
        PROVE  AdminTyped
    BY <2>2, MarketAssumption DEF SetPlatformFee, FeeAllowed, MAX_FEE
  <2>3. ASSUME NEW newTreasury \in Treasuries, SetTreasury(newTreasury)
        PROVE  AdminTyped
    BY <2>3, MarketAssumption DEF SetTreasury, Addresses
  <2>4. CASE EmergencyWithdraw
    BY <2>4 DEF EmergencyWithdraw, BalanceAfter
  <2>5. CASE SwitchPause
    BY <2>5 DEF SwitchPause, DoPause, DoUnpause
  <2> QED
    BY <2>1, <2>2, <2>3, <2>4, <2>5 DEF AdminCall
<1>4. MembersTypeOK'
  BY <1>1, <1>2 DEF StateSound, MarketTyped, MembersTypeOK
<1>5. StateSound'
  BY <1>1, <1>2, <1>3, <1>4, StillSound DEF StateSound, MarketTyped
<1> QED
  BY <1>2, <1>5, OutsideLedgerStep

LEMMA RoleChangeStep ==
  ASSUME MarketInv, NEW sender \in Accounts, RoleChange(sender)
  PROVE  MarketInv'
<1>1. StateSound
  BY MarketInvIff
<1>2. UNCHANGED <<ledgerVars, royalty, AdminVars, listings, now, purchase>>
  BY DEF RoleChange
<1>3. MembersTypeOK'
  BY <1>1, RoleCallType DEF StateSound, MarketTyped, RoleChange
<1>4. StateSound'
  BY <1>1, <1>2, <1>3, StillSound DEF StateSound, MarketTyped, AdminVars, PausableTypeOK
<1> QED
  BY <1>2, <1>4, OutsideLedgerStep

LEMMA ReceiveStep ==
  ASSUME MarketInv, NEW sender \in Accounts, NEW value \in Values, Receive(sender, value)
  PROVE  MarketInv'
<1>1. StateSound
  BY MarketInvIff
<1>2. /\ UNCHANGED <<ledgerVars, royalty, members, paused, listings, verifiedCollection,
                     platformFee, treasury, now, purchase>>
      /\ balance' \in Nat
  BY <1>1, MarketAssumption DEF Receive, StateSound, MarketTyped
<1>3. StateSound'
  BY <1>1, <1>2, StillSound DEF StateSound, MarketTyped, MembersTypeOK, PausableTypeOK
<1> QED
  BY <1>2, <1>3, OutsideLedgerStep
-----------------------------------------------------------------------------
\* A wallet's token that no contract may move stays where it is, and keeps its
\* approvals, whatever contracts call.
LEMMA ContractsCannotMove ==
  ASSUME MarketInv, ~Idle, NEW sender \in Contracts, LedgerCall(sender), NEW token \in TokenIds,
         ~MayHaveMoved(purchase.saved, token), UNCHANGED purchase
  PROVE  AsFound(purchase.saved, token)'
<1> DEFINE s == purchase.saved
           holder == s.owners[token]
<1>1. /\ StateSound
      /\ AsFound(s, token)
      /\ s \in StorageType
  BY IdleIff, MarketInvIff DEF UnderWay, PurchaseSound, Purchase
<1>2. /\ ERC721TypeOK
      /\ sender \in Accounts
  BY <1>1, AccountsAssumption DEF StateSound, MarketTyped
<1>3. /\ holder \in Accounts
      /\ holder \notin Contracts
      /\ sender \notin s.operatorApprovals[holder]
      /\ sender # s.tokenApprovals[token]
  BY <1>1 DEF MayHaveMoved, ApprovedContracts, StorageType, Addresses
<1>4. /\ owners[token] = holder
      /\ tokenApprovals[token] = s.tokenApprovals[token]
      /\ operatorApprovals[holder] = s.operatorApprovals[holder]
  BY <1>1 DEF AsFound
<1>5. ~IsApprovedOrOwner(sender, token) /\ sender # holder /\ ~IsApprovedForAll(holder, sender)
  BY <1>3, <1>4 DEF IsApprovedOrOwner, IsApprovedForAll
<1> DEFINE Untouched == /\ owners'[token] = owners[token]
                        /\ tokenApprovals'[token] = tokenApprovals[token]
                        /\ operatorApprovals'[holder] = operatorApprovals[holder]
<1>6. Untouched
  <2>1. ASSUME NEW from \in Accounts, NEW to \in Accounts, NEW id \in TokenIds,
               TransferFrom(sender, from, to, id)
        PROVE  Untouched
    <3>1. id # token
      BY <1>5, <2>1 DEF TransferFrom
    <3> QED
      BY <1>2, <2>1, <3>1 DEF TransferFrom, Transfer, WithoutApproval, ERC721TypeOK
  <2>2. ASSUME NEW to \in Spenders \cup {Zero}, NEW id \in TokenIds, Approve(sender, to, id)
        PROVE  Untouched
    <3>1. id # token
      BY <1>4, <1>5, <2>2 DEF Approve, MayApprove
    <3> QED
      BY <1>2, <2>2, <3>1 DEF Approve, ERC721TypeOK
  <2>3. ASSUME NEW operator \in Spenders, NEW approved \in BOOLEAN,
               SetApprovalForAll(sender, operator, approved)
        PROVE  Untouched
    BY <1>2, <1>3, <1>5, <2>3 DEF SetApprovalForAll, ERC721TypeOK
  <2> QED
    BY <2>1, <2>2, <2>3 DEF LedgerCall
<1>7. owners'[token] = holder
  BY <1>4, <1>6
<1>8. /\ owners'[token] = s.owners[token]
      /\ tokenApprovals'[token] = s.tokenApprovals[token]
      /\ operatorApprovals'[owners'[token]] = s.operatorApprovals[owners'[token]]
  BY <1>4, <1>6, <1>7
<1> QED
  BY <1>8 DEF AsFound

LEMMA LedgerStep ==
  ASSUME MarketInv, NEW sender \in Accounts, MayCall(sender), LedgerCall(sender),
         UNCHANGED <<royalty, members, AdminVars, listings, now, purchase>>
  PROVE  MarketInv'
<1>1. StateSound
  BY MarketInvIff
<1>2. LedgerInv'
  BY <1>1, LedgerCallStep DEF StateSound
<1>3. StateSound'
  BY <1>1, <1>2 DEF StateSound, MarketTyped, LedgerInv, AdminVars, MembersTypeOK, PausableTypeOK,
                    ListingsSound
<1>4. ~Idle => \A token \in TokenIds :
                 \/ MayHaveMoved(purchase.saved, token)
                 \/ AsFound(purchase.saved, token)'
  BY ContractsCannotMove DEF MayCall
<1> QED
  BY <1>3, <1>4, OthersStep

LEMMA RoyaltyStep ==
  ASSUME MarketInv, NEW r \in Royalties, SetDefaultRoyalty(r.receiver, r.fraction),
         UNCHANGED <<ledgerVars, members, AdminVars, listings, now, purchase>>
  PROVE  MarketInv'
<1>1. StateSound
  BY MarketInvIff
<1>2. royalty' \in Royalty
  <2>1. r.receiver \in Addresses /\ r.fraction \in Nat
    BY MarketAssumption
  <2>2. r.fraction \in 0 .. FEE_DENOMINATOR
    <3>1. r.fraction <= FEE_DENOMINATOR
      BY DEF SetDefaultRoyalty
    <3>2. \A f \in Nat : f <= FEE_DENOMINATOR => f \in 0 .. FEE_DENOMINATOR
      BY DEF FEE_DENOMINATOR
    <3> QED
      BY <2>1, <3>1, <3>2
  <2>3. royalty' = [receiver |-> r.receiver, fraction |-> r.fraction]
    BY DEF SetDefaultRoyalty
  <2> QED
    BY <2>1, <2>2, <2>3 DEF Royalty
<1>3. StateSound'
  BY <1>1, <1>2, StillSound DEF StateSound, MarketTyped, AdminVars, MembersTypeOK, PausableTypeOK
<1> QED
  BY <1>3, OutsideLedgerStep

LEMMA CollectionCallStep ==
  ASSUME MarketInv, NEW sender \in Accounts, CollectionCall(sender)
  PROVE  MarketInv'
<1>1. MayCall(sender) /\ UNCHANGED <<members, AdminVars, listings, now, purchase>>
  BY DEF CollectionCall
<1>2. CASE LedgerCall(sender) /\ UNCHANGED royalty
  BY <1>1, <1>2, LedgerStep
<1>3. ASSUME NEW r \in Royalties, SetDefaultRoyalty(r.receiver, r.fraction), UNCHANGED ledgerVars
      PROVE  MarketInv'
  BY <1>1, <1>3, RoyaltyStep
<1> QED
  BY <1>2, <1>3 DEF CollectionCall

\* A mint touches no token that exists.
LEMMA CollectionMintStep ==
  ASSUME MarketInv, NEW to \in Accounts, NEW token \in TokenIds, CollectionMint(to, token)
  PROVE  MarketInv'
<1>1. StateSound
  BY MarketInvIff
<1>2. /\ MintTokens(to, {token})
      /\ UNCHANGED <<royalty, members, AdminVars, listings, now, purchase>>
  BY DEF CollectionMint
<1>3. LedgerInv'
  BY <1>1, <1>2, MintTokensStep DEF StateSound
<1>4. StateSound'
  BY <1>1, <1>2, <1>3 DEF StateSound, MarketTyped, LedgerInv, AdminVars, MembersTypeOK,
                          PausableTypeOK, ListingsSound
<1>5. ASSUME ~Idle, NEW t \in TokenIds, ~MayHaveMoved(purchase.saved, t)
      PROVE  AsFound(purchase.saved, t)'
  <2>1. AsFound(purchase.saved, t)
    BY <1>5, IdleIff DEF UnderWay, PurchaseSound
  <2>2. owners[t] # Zero
    BY <1>5, <2>1 DEF AsFound, MayHaveMoved
  <2>3. owners'[t] = owners[t] /\ UNCHANGED <<tokenApprovals, operatorApprovals>>
    BY <1>2, <2>2 DEF MintTokens, Exists
  <2> QED
    BY <1>2, <2>1, <2>3 DEF AsFound
<1> QED
  BY <1>2, <1>4, <1>5, OthersStep
-----------------------------------------------------------------------------
\* Listings are made and cancelled between purchases.
LEMMA ListingStep ==
  ASSUME MarketInv, Idle,
         UNCHANGED <<ledgerVars, royalty, members, paused, verifiedCollection, platformFee,
                     treasury, balance, now, purchase>>,
         listings' \in [ListingId -> Listing], ListingsSound'
  PROVE  MarketInv'
<1>1. StateSound /\ purchase = NoPurchase /\ now \in 0 .. MaxTime
  BY IdleIff, MarketInvIff
<1>2. LedgerInv'
  BY <1>1, LedgerStutter DEF StateSound
<1>3. StateSound'
  BY <1>1, <1>2 DEF StateSound, MarketTyped, LedgerInv, MembersTypeOK, PausableTypeOK
<1> QED
  BY <1>1, <1>3, MarketInvIffPrime

LEMMA ListNFTStep ==
  ASSUME MarketInv, NEW sender \in Accounts, NEW token \in TokenIds, NEW price \in Prices,
         ListNFT(sender, token, price)
  PROVE  MarketInv'
<1> DEFINE new == IdOf(sender, token, 0)
<1>1. StateSound /\ now \in 0 .. MaxTime
  BY MarketInvIff
<1>2. new \in ListingId
  BY <1>1, MarketAssumption DEF IdOf, ListingId
<1>3. NewListing(sender, token, price) \in Listing
  BY MarketAssumption, ERC721Assumption DEF NewListing, Listing, Addresses
<1>4. listings' = [listings EXCEPT ![new] = NewListing(sender, token, price)]
  BY DEF ListNFT
<1>5. listings \in [ListingId -> Listing]
  BY <1>1 DEF StateSound, MarketTyped
<1>6. listings' \in [ListingId -> Listing]
  BY <1>3, <1>4, <1>5
<1>7. new.seller = sender /\ new.token = token
  BY DEF IdOf
<1>8. /\ NewListing(sender, token, price).seller = sender
      /\ NewListing(sender, token, price).token = token
  BY DEF NewListing
<1> HIDE DEF new
<1>9. ListingsSound'
  BY <1>1, <1>2, <1>4, <1>5, <1>7, <1>8 DEF StateSound, ListingsSound
<1> QED
  BY <1>6, <1>9, ListingStep DEF ListNFT, NonReentrant

LEMMA BatchListNFTsStep ==
  ASSUME MarketInv, NEW sender \in Accounts, NEW n \in 1 .. MaxBatch,
         NEW offers \in [1 .. n -> Offers], BatchListNFTs(sender, offers)
  PROVE  MarketInv'
<1> DEFINE idAt(i) == IdOf(sender, offers[i].token, i)
           ids == {idAt(i) : i \in DOMAIN offers}
           new(id) == NewListing(sender, id.token, offers[id.place].price)
<1>1. StateSound /\ now \in 0 .. MaxTime
  BY MarketInvIff
<1>2. \A i \in 1 .. n : offers[i].token \in TokenIds /\ offers[i].price \in Nat
  BY MarketAssumption DEF Offers
<1>3. ASSUME NEW id \in ids
      PROVE  /\ id.seller = sender
             /\ id.token \in TokenIds
             /\ offers[id.place].price \in Nat
  BY <1>2, <1>3 DEF IdOf
<1>4. listings' = [id \in ListingId |-> IF id \in ids THEN new(id) ELSE listings[id]]
  BY DEF BatchListNFTs
<1>5. listings \in [ListingId -> Listing]
  BY <1>1 DEF StateSound, MarketTyped
<1>6. \A id \in ids : new(id) \in Listing /\ new(id).seller = id.seller /\ new(id).token = id.token
  BY <1>3, ERC721Assumption DEF NewListing, Listing, Addresses
<1> HIDE DEF ids, new
<1>7. listings' \in [ListingId -> Listing]
  BY <1>4, <1>5, <1>6
<1>8. ListingsSound'
  BY <1>1, <1>4, <1>6 DEF StateSound, ListingsSound
<1> QED
  BY <1>7, <1>8, ListingStep DEF BatchListNFTs, NonReentrant

\* A listing that ended is not a listing that never was.
LEMMA EndedListing ==
  ASSUME StateSound, NEW id \in ListingId, listings[id] # NoListing,
         listings' = [listings EXCEPT ![id].active = FALSE]
  PROVE  /\ listings' \in [ListingId -> Listing]
         /\ ListingsSound'
         /\ \A other \in ListingId : /\ listings[other] # NoListing => listings'[other] # NoListing
                                     /\ listings'[other].price = listings[other].price
<1>1. listings \in [ListingId -> Listing]
  BY DEF StateSound, MarketTyped
<1>2. /\ listings'[id].seller = listings[id].seller
      /\ listings'[id].token = listings[id].token
      /\ listings'[id].price = listings[id].price
      /\ listings'[id] \in Listing
      /\ \A other \in ListingId \ {id} : listings'[other] = listings[other]
  BY <1>1 DEF Listing
<1>3. listings'[id] # NoListing
  <2>1. listings'[id].seller = id.seller
    BY <1>2 DEF StateSound, ListingsSound
  <2>2. id.seller # Zero
    BY AccountsAssumption DEF ListingId
  <2> QED
    BY <2>1, <2>2 DEF NoListing
<1>4. ListingsSound'
  BY <1>2 DEF StateSound, ListingsSound
<1> QED
  BY <1>1, <1>2, <1>3, <1>4

LEMMA CancelListingStep ==
  ASSUME MarketInv, NEW sender \in Accounts, NEW id \in EverListed, CancelListing(sender, id)
  PROVE  MarketInv'
<1>1. StateSound
  BY MarketInvIff
<1>2. id \in ListingId /\ listings[id] # NoListing
  BY DEF EverListed
<1> QED
  BY <1>1, <1>2, EndedListing, ListingStep DEF CancelListing, NonReentrant
-----------------------------------------------------------------------------
\* A purchase saves the storage it begins with, which is sound.
LEMMA BuyNFTsStep ==
  ASSUME MarketInv, NEW sender \in Accounts, NEW n \in 1 .. MaxBatch,
         NEW ids \in [1 .. n -> EverListed], NEW value \in Values, BuyNFTs(sender, ids, value)
  PROVE  MarketInv'
<1>1. /\ StateSound
      /\ now \in 0 .. MaxTime
      /\ Storage \in StorageType
      /\ Sound(Storage)
  BY MarketInvIff, StateIff
<1>2. /\ UNCHANGED <<ledgerVars, royalty, members, paused, listings, verifiedCollection,
                     platformFee, treasury, now>>
      /\ balance' \in Nat
      /\ value \in Nat
  BY <1>1, MarketAssumption DEF BuyNFTs, StateSound, MarketTyped
<1>3. /\ ids \in Seq(ListingId)
      /\ DOMAIN ids = 1 .. n
      /\ n \in Nat /\ n >= 1
      /\ \A i \in 1 .. n : listings[ids[i]] # NoListing
  <2>1. ids \in [1 .. n -> ListingId]
    BY DEF EverListed
  <2>2. n \in Nat /\ n >= 1
    BY MarketAssumption
  <2> QED
    BY <2>1, <2>2, SeqDef DEF EverListed
<1>4. purchase' = [stage |-> "royalty", buyer |-> sender, ids |-> ids, item |-> 1,
                   platformAmount |-> 0, remainingAmount |-> 0, value |-> value,
                   sent |-> 0, settled |-> 0, callee |-> Zero, saved |-> Storage]
  BY DEF BuyNFTs
<1>5. StateSound'
  BY <1>1, <1>2, StillSound DEF StateSound, MarketTyped, MembersTypeOK, PausableTypeOK
<1>6. (purchase \in Purchase)'
  <2>1. (purchase \in Purchase)' <=> purchase' \in Purchase
    BY DEF Purchase
  <2>2. Zero \in Addresses
    BY DEF Addresses
  <2> HIDE DEF Storage
  <2> QED
    BY <1>1, <1>2, <1>3, <1>4, <2>1, <2>2 DEF Purchase
<1>7. /\ purchase'.saved = Storage
      /\ purchase'.ids = ids
      /\ purchase'.item = 1
      /\ purchase'.stage = "royalty"
      /\ purchase'.sent = 0
      /\ purchase'.settled = 0
  BY <1>4
<1>8. (purchase.item \in DOMAIN purchase.ids)'
  BY <1>3, <1>7
<1>9. (purchase.sent + StillDue = purchase.settled + PriceBegun)'
  BY <1>7 DEF StillDue, PriceBegun
<1>10. PurchaseSound'
  <2>1. Sound(purchase.saved)'
    <3>1. Sound(purchase'.saved)
      BY <1>1, <1>7
    <3> QED
      BY <3>1 DEF Sound, LedgerFits, ListingsFit, BalancesMatch, ApprovalsFit, HeldBy
  <2>2. (\A i \in DOMAIN purchase.ids : listings[purchase.ids[i]] # NoListing)'
    BY <1>2, <1>3, <1>7 DEF NoListing
  <2>3. (\A token \in TokenIds :
           MayHaveMoved(purchase.saved, token) \/ AsFound(purchase.saved, token))'
    BY <1>2, <1>7 DEF AsFound, Storage, ledgerVars
  <2> QED
    BY <2>1, <2>2, <2>3 DEF PurchaseSound
<1> QED
  BY <1>1, <1>2, <1>5, <1>6, <1>8, <1>9, <1>10, MarketInvIffPrime DEF UnderWay

\* A step of the purchase that stays in it.
LEMMA ProgressStep ==
  ASSUME MarketInv, UnderWay, StateSound', UNCHANGED now, purchase' \in Purchase,
         purchase'.ids = purchase.ids, purchase'.saved = purchase.saved,
         purchase'.item \in DOMAIN purchase.ids,
         (purchase.sent + StillDue = purchase.settled + PriceBegun)',
         \A id \in ListingId : listings[id] # NoListing => listings'[id] # NoListing,
         \A token \in TokenIds : \/ MayHaveMoved(purchase.saved, token)
                                 \/ AsFound(purchase.saved, token)'
  PROVE  MarketInv'
<1>1. (purchase \in Purchase)'
  BY DEF Purchase
<1>2. (purchase.item \in DOMAIN purchase.ids)'
  OBVIOUS
<1>3. Sound(purchase.saved)'
  BY DEF UnderWay, PurchaseSound, Sound, LedgerFits, ListingsFit, BalancesMatch,
         ApprovalsFit, HeldBy
<1>4. (\A i \in DOMAIN purchase.ids : listings[purchase.ids[i]] # NoListing)'
  <2>1. purchase.ids \in Seq(ListingId)
    BY DEF UnderWay, Purchase
  <2>2. \A i \in DOMAIN purchase.ids : purchase.ids[i] \in ListingId
    BY <2>1, ElementOfSeq, LenProperties
  <2> QED
    BY <2>2 DEF UnderWay, PurchaseSound, NoListing
<1>5. \A token \in TokenIds :
        MayHaveMoved(purchase.saved, token)' <=> MayHaveMoved(purchase.saved, token)
  BY DEF MayHaveMoved, ApprovedContracts
<1>6. PurchaseSound'
  BY <1>3, <1>4, <1>5 DEF PurchaseSound
<1> QED
  BY <1>1, <1>2, <1>6, MarketInvIff, MarketInvIffPrime DEF UnderWay

\* The listing a purchase is at, and what is still of its price.
LEMMA CurrentListing ==
  ASSUME MarketInv, UnderWay
  PROVE  /\ purchase.ids \in Seq(ListingId)
         /\ \A i \in DOMAIN purchase.ids : purchase.ids[i] \in ListingId
         /\ DOMAIN purchase.ids = 1 .. Len(purchase.ids)
         /\ Len(purchase.ids) \in Nat
         /\ purchase.ids[purchase.item] \in ListingId
         /\ Current # NoListing
         /\ Current \in Listing
         /\ Current.price \in Nat
         /\ Current.seller = purchase.ids[purchase.item].seller
         /\ Current.token = purchase.ids[purchase.item].token
<1>1. purchase.ids \in Seq(ListingId)
  BY DEF UnderWay, Purchase
<1>2. \A i \in DOMAIN purchase.ids : purchase.ids[i] \in ListingId
  BY <1>1, ElementOfSeq, LenProperties
<1>3. /\ purchase.ids[purchase.item] \in ListingId
      /\ Current # NoListing
  BY <1>2 DEF UnderWay, PurchaseSound, Current
<1>4. Current \in Listing
  BY <1>3, MarketInvIff DEF StateSound, MarketTyped, Current
<1>5. Current.price \in Nat
  BY <1>4 DEF Listing
<1>6. /\ Current.seller = purchase.ids[purchase.item].seller
      /\ Current.token = purchase.ids[purchase.item].token
  BY <1>3, MarketInvIff DEF StateSound, ListingsSound, Current
<1> QED
  BY <1>1, <1>2, <1>3, <1>4, <1>5, <1>6, LenProperties

\* The integer divisions of the amounts.
LEMMA ShareType == \A p, f \in Nat : (p * f) \div 10000 \in Nat
<1> SUFFICES ASSUME NEW p \in Nat, NEW f \in Nat PROVE (p * f) \div 10000 \in Nat
  OBVIOUS
<1>1. p * f \in Nat
  OBVIOUS
<1>2. \A m \in Nat : m \div 10000 \in Nat
  OBVIOUS
<1> QED
  BY <1>1, <1>2

LEMMA AmountTypes ==
  ASSUME StateSound, NEW price \in Nat
  PROVE  /\ RoyaltyDue(price) \in Nat
         /\ PlatformAmount(price) \in Nat
         /\ RemainingAmount(price) = price - PlatformAmount(price) - RoyaltyDue(price)
<1>1. royalty.fraction \in Nat
  <2>1. royalty.fraction \in 0 .. FEE_DENOMINATOR
    BY DEF StateSound, MarketTyped, Royalty
  <2>2. 0 .. FEE_DENOMINATOR \subseteq Nat
    BY DEF FEE_DENOMINATOR
  <2> QED
    BY <2>1, <2>2
<1>2. platformFee \in Nat
  BY DEF StateSound, MarketTyped, MAX_FEE
<1>3. RoyaltyDue(price) \in Nat
  <2>1. RoyaltyAmount(price) \in Nat
    BY <1>1, ShareType DEF RoyaltyAmount, FEE_DENOMINATOR
  <2> QED
    BY <2>1 DEF RoyaltyDue
<1>4. PlatformAmount(price) \in Nat
  BY <1>2, ShareType DEF PlatformAmount, BASIS
<1> QED
  BY <1>3, <1>4 DEF RemainingAmount

\* A payment: next is the purchase but for what has been sent and who is called.
LEMMA PaymentStep ==
  ASSUME MarketInv, UnderWay, NEW stage, NEW amount \in Nat, NEW receiver \in Addresses,
         NEW next \in Purchase, Pay(stage, amount, receiver, next),
         next.ids = purchase.ids, next.saved = purchase.saved, next.item = purchase.item,
         (purchase.sent + StillDue = purchase.settled + PriceBegun)'
  PROVE  MarketInv'
<1>1. StateSound
  BY MarketInvIff
<1>2. /\ UNCHANGED <<ledgerVars, royalty, members, paused, listings, verifiedCollection,
                     platformFee, treasury, now>>
      /\ balance' \in Nat
  BY <1>1 DEF Pay, BalanceAfter, StateSound, MarketTyped
<1>3. StateSound'
  BY <1>1, <1>2, StillSound DEF StateSound, MarketTyped, MembersTypeOK, PausableTypeOK
<1>4. purchase' = [next EXCEPT !.sent = @ + amount, !.callee = receiver]
  BY DEF Pay
<1>5. /\ purchase' \in Purchase
      /\ purchase'.ids = purchase.ids
      /\ purchase'.saved = purchase.saved
      /\ purchase'.item = purchase.item
  <2>1. next.sent + amount \in Nat
    BY DEF Purchase
  <2>2. purchase' \in Purchase
    BY <1>4, <2>1 DEF Purchase
  <2> QED
    BY <1>4, <2>2 DEF Purchase
<1>6. \A token \in TokenIds : \/ MayHaveMoved(purchase.saved, token)
                              \/ AsFound(purchase.saved, token)'
  BY <1>2, <1>5 DEF UnderWay, PurchaseSound, AsFound, ledgerVars
<1>7. purchase'.item \in DOMAIN purchase.ids
  BY <1>5 DEF UnderWay
<1> QED
  BY <1>2, <1>3, <1>5, <1>6, <1>7, ProgressStep

LEMMA PayRoyaltyStep ==
  ASSUME MarketInv, UnderWay, PayRoyalty
  PROVE  MarketInv'
<1> DEFINE price == Current.price
           next == [purchase EXCEPT !.stage = "fee",
                                    !.platformAmount = PlatformAmount(price),
                                    !.remainingAmount = RemainingAmount(price)]
           receiver == IF RoyaltyDue(price) > 0 THEN royalty.receiver ELSE Zero
<1>1. StateSound /\ price \in Nat
  BY MarketInvIff, CurrentListing
<1>2. /\ RoyaltyDue(price) \in Nat
      /\ PlatformAmount(price) \in Nat
      /\ RemainingAmount(price) \in Nat
      /\ RemainingAmount(price) = price - PlatformAmount(price) - RoyaltyDue(price)
  <2>1. RemainingAmount(price) >= 0
    BY DEF PayRoyalty
  <2> QED
    BY <1>1, <2>1, AmountTypes
<1>3. purchase.stage = "royalty" /\ Pay("royalty", RoyaltyDue(price), receiver, next)
  BY DEF PayRoyalty
<1>4. receiver \in Addresses
  BY <1>1 DEF StateSound, MarketTyped, Royalty, Addresses
<1>5. purchase \in Purchase /\ purchase.sent = purchase.settled /\ purchase.sent \in Nat
  BY <1>3 DEF UnderWay, StillDue, PriceBegun, Purchase
<1>6. /\ next \in Purchase
      /\ next.ids = purchase.ids
      /\ next.saved = purchase.saved
      /\ next.item = purchase.item
  BY <1>2, <1>5 DEF Purchase
<1>7. /\ purchase'.stage = "fee"
      /\ purchase'.platformAmount = PlatformAmount(price)
      /\ purchase'.remainingAmount = RemainingAmount(price)
      /\ purchase'.sent = purchase.sent + RoyaltyDue(price)
      /\ purchase'.settled = purchase.settled
      /\ purchase'.ids = purchase.ids
      /\ purchase'.item = purchase.item
      /\ listings' = listings
  BY <1>3, <1>5 DEF Pay, Purchase
<1>8. StillDue' = PlatformAmount(price) + RemainingAmount(price) /\ PriceBegun' = price
  BY <1>7 DEF StillDue, PriceBegun, Current
<1>9. (purchase.sent + StillDue = purchase.settled + PriceBegun)'
  <2>1. purchase'.sent + StillDue' = purchase'.settled + PriceBegun'
    <3> HIDE DEF price
    <3> QED
      BY <1>1, <1>2, <1>5, <1>7, <1>8
  <2> QED
    BY <2>1
<1> HIDE DEF next, receiver, price
<1> QED
  BY <1>2, <1>3, <1>4, <1>6, <1>9, PaymentStep

LEMMA PayFeeStep ==
  ASSUME MarketInv, UnderWay, PayFee
  PROVE  MarketInv'
<1> DEFINE next == [purchase EXCEPT !.stage = "seller"]
<1>1. StateSound /\ Current.price \in Nat
  BY MarketInvIff, CurrentListing
<1>2. purchase.stage = "fee" /\ Pay("fee", purchase.platformAmount, treasury, next)
  BY DEF PayFee
<1>3. /\ purchase \in Purchase
      /\ purchase.sent + (purchase.platformAmount + purchase.remainingAmount)
           = purchase.settled + Current.price
      /\ purchase.sent \in Nat
      /\ purchase.platformAmount \in Nat
      /\ purchase.remainingAmount \in Nat
  BY <1>2 DEF UnderWay, StillDue, PriceBegun, Purchase
<1>4. treasury \in Addresses
  BY <1>1 DEF StateSound, MarketTyped, Addresses
<1>5. /\ next \in Purchase
      /\ next.ids = purchase.ids
      /\ next.saved = purchase.saved
      /\ next.item = purchase.item
  BY <1>3 DEF Purchase
<1>6. /\ purchase'.stage = "seller"
      /\ purchase'.remainingAmount = purchase.remainingAmount
      /\ purchase'.sent = purchase.sent + purchase.platformAmount
      /\ purchase'.settled = purchase.settled
      /\ purchase'.ids = purchase.ids
      /\ purchase'.item = purchase.item
      /\ listings' = listings
  BY <1>2, <1>3 DEF Pay, Purchase
<1>7. StillDue' = purchase.remainingAmount /\ PriceBegun' = Current.price
  BY <1>6 DEF StillDue, PriceBegun, Current
<1>8. (purchase.sent + StillDue = purchase.settled + PriceBegun)'
  BY <1>3, <1>6, <1>7
<1> HIDE DEF next
<1> QED
  BY <1>2, <1>3, <1>4, <1>5, <1>8, PaymentStep

LEMMA PaySellerStep ==
  ASSUME MarketInv, UnderWay, PaySeller
  PROVE  MarketInv'
<1> DEFINE next == [purchase EXCEPT !.stage = "token"]
<1>1. Current.seller \in Addresses /\ Current.price \in Nat
  BY CurrentListing DEF Listing
<1>2. purchase.stage = "seller" /\ Pay("seller", purchase.remainingAmount, Current.seller, next)
  BY DEF PaySeller
<1>3. /\ purchase \in Purchase
      /\ purchase.sent + purchase.remainingAmount = purchase.settled + Current.price
      /\ purchase.sent \in Nat
      /\ purchase.remainingAmount \in Nat
  BY <1>2 DEF UnderWay, StillDue, PriceBegun, Purchase
<1>4. /\ next \in Purchase
      /\ next.ids = purchase.ids
      /\ next.saved = purchase.saved
      /\ next.item = purchase.item
  BY <1>3 DEF Purchase
<1>5. /\ purchase'.stage = "token"
      /\ purchase'.sent = purchase.sent + purchase.remainingAmount
      /\ purchase'.settled = purchase.settled
      /\ purchase'.ids = purchase.ids
      /\ purchase'.item = purchase.item
      /\ listings' = listings
  BY <1>2, <1>3 DEF Pay, Purchase
<1>6. StillDue' = 0 /\ PriceBegun' = Current.price
  BY <1>5 DEF StillDue, PriceBegun, Current
<1>7. (purchase.sent + StillDue = purchase.settled + PriceBegun)'
  BY <1>3, <1>5, <1>6
<1> HIDE DEF next
<1> QED
  BY <1>1, <1>2, <1>3, <1>4, <1>7, PaymentStep

\* The token delivered is one its seller listed and, by the guard of the
\* transfer, still owns.
LEMMA DeliverTokenStep ==
  ASSUME MarketInv, UnderWay, DeliverToken
  PROVE  MarketInv'
<1> DEFINE seller == Current.seller
           id == Current.token
           s == purchase.saved
<1>1. /\ StateSound
      /\ purchase \in Purchase
      /\ purchase.buyer \in Accounts
  BY MarketInvIff DEF UnderWay, Purchase
<1>2. /\ seller \in Accounts
      /\ id \in TokenIds
      /\ seller = purchase.ids[purchase.item].seller
      /\ id = purchase.ids[purchase.item].token
  BY CurrentListing DEF ListingId
<1>3. /\ purchase.stage = "token"
      /\ Transfer(seller, purchase.buyer, id)
      /\ purchase' = [purchase EXCEPT !.stage = "close", !.callee = purchase.buyer]
      /\ UNCHANGED <<royalty, members, paused, listings, verifiedCollection, platformFee,
                     treasury, balance, now>>
  BY DEF DeliverToken, TransferFrom, SellerOf
<1>4. LedgerInv'
  BY <1>1, <1>2, <1>3, TransferStep DEF StateSound
<1>5. StateSound'
  BY <1>1, <1>3, <1>4 DEF StateSound, MarketTyped, LedgerInv, MembersTypeOK, PausableTypeOK,
                          ListingsSound
<1>6. /\ purchase' \in Purchase
      /\ purchase'.ids = purchase.ids
      /\ purchase'.saved = purchase.saved
      /\ purchase'.item = purchase.item
      /\ purchase'.stage = "close"
      /\ purchase'.sent = purchase.sent
      /\ purchase'.settled = purchase.settled
  BY <1>1, <1>3 DEF Purchase, Addresses
<1>7. (purchase.sent + StillDue = purchase.settled + PriceBegun)'
  <2>1. StillDue = 0 /\ PriceBegun = Current.price
    BY <1>3 DEF StillDue, PriceBegun
  <2>2. StillDue' = 0 /\ PriceBegun' = Current.price
    BY <1>3, <1>6 DEF StillDue, PriceBegun, Current
  <2> QED
    BY <1>6, <2>1, <2>2 DEF UnderWay
<1>8. ASSUME NEW token \in TokenIds, ~MayHaveMoved(s, token)
      PROVE  AsFound(purchase.saved, token)'
  <2>1. AsFound(s, token)
    <3>1. PurchaseSound
      BY DEF UnderWay
    <3>2. \A t \in TokenIds : MayHaveMoved(s, t) \/ AsFound(s, t)
      BY <3>1 DEF PurchaseSound
    <3> QED
      BY <1>8, <3>2
  <2>2. token # id
    <3> SUFFICES ASSUME token = id PROVE FALSE
      OBVIOUS
    <3>1. s.owners[token] = seller
      BY <1>3, <2>1 DEF Transfer, AsFound
    <3>2. purchase.item \in DOMAIN purchase.ids
      BY DEF UnderWay
    <3> QED
      BY <1>2, <1>8, <3>1, <3>2 DEF MayHaveMoved
  <2>3. /\ owners'[token] = owners[token]
        /\ tokenApprovals'[token] = tokenApprovals[token]
        /\ operatorApprovals' = operatorApprovals
    BY <1>1, <1>2, <1>3, <2>2 DEF Transfer, WithoutApproval, StateSound, MarketTyped, ERC721TypeOK
  <2> QED
    BY <1>6, <2>1, <2>3 DEF AsFound
<1>9. purchase'.item \in DOMAIN purchase.ids
  BY <1>6 DEF UnderWay
<1> QED
  BY <1>3, <1>5, <1>6, <1>7, <1>8, <1>9, ProgressStep

LEMMA CloseListingStep ==
  ASSUME MarketInv, UnderWay, CloseListing
  PROVE  MarketInv'
<1> DEFINE id == purchase.ids[purchase.item]
<1>1. /\ StateSound
      /\ now \in 0 .. MaxTime
      /\ purchase \in Purchase
      /\ id \in ListingId
      /\ listings[id] # NoListing
      /\ Current.price \in Nat
      /\ DOMAIN purchase.ids = 1 .. Len(purchase.ids)
      /\ Len(purchase.ids) \in Nat
  BY MarketInvIff, CurrentListing DEF UnderWay, Current
<1>2. /\ listings' = [listings EXCEPT ![id].active = FALSE]
      /\ UNCHANGED <<ledgerVars, royalty, members, paused, verifiedCollection, platformFee,
                     treasury, balance, now>>
  BY DEF CloseListing
<1>3. /\ listings' \in [ListingId -> Listing]
      /\ ListingsSound'
      /\ \A other \in ListingId : listings[other] # NoListing => listings'[other] # NoListing
  BY <1>1, <1>2, EndedListing
<1>4. StateSound'
  <2>1. LedgerInv'
    BY <1>1, <1>2, LedgerStutter DEF StateSound
  <2> QED
    BY <1>1, <1>2, <1>3, <2>1 DEF StateSound, MarketTyped, LedgerInv, MembersTypeOK, PausableTypeOK
<1>5. CASE purchase' = NoPurchase
  BY <1>1, <1>2, <1>4, <1>5, MarketInvIffPrime
<1>6. CASE /\ purchase.item < Len(purchase.ids)
           /\ purchase' = [purchase EXCEPT !.stage = "royalty", !.item = @ + 1,
                                           !.settled = @ + Current.price, !.callee = Zero]
  <2>1. /\ purchase.item \in 1 .. Len(purchase.ids)
        /\ purchase.settled \in Nat
        /\ purchase.sent \in Nat
        /\ purchase.item + 1 \in Nat
        /\ purchase.settled + Current.price \in Nat
        /\ Zero \in Addresses
    BY <1>1 DEF UnderWay, Purchase, Addresses
  <2>2. purchase' \in Purchase
    BY <1>1, <1>6, <2>1 DEF Purchase
  <2>3. /\ purchase'.ids = purchase.ids
        /\ purchase'.saved = purchase.saved
        /\ purchase'.item = purchase.item + 1
        /\ purchase'.stage = "royalty"
        /\ purchase'.sent = purchase.sent
        /\ purchase'.settled = purchase.settled + Current.price
    BY <1>1, <1>6 DEF Purchase
  <2>4. purchase'.item \in DOMAIN purchase.ids
    BY <1>1, <1>6, <2>1, <2>3
  <2>5. purchase.sent = purchase.settled + Current.price
    <3>1. purchase.stage = "close"
      BY DEF CloseListing
    <3> QED
      BY <2>1, <3>1 DEF UnderWay, StillDue, PriceBegun
  <2>6. (purchase.sent + StillDue = purchase.settled + PriceBegun)'
    BY <1>1, <2>1, <2>3, <2>5 DEF StillDue, PriceBegun
  <2>7. \A token \in TokenIds : \/ MayHaveMoved(purchase.saved, token)
                                \/ AsFound(purchase.saved, token)'
    BY <1>2, <2>3 DEF UnderWay, PurchaseSound, AsFound, ledgerVars
  <2> QED
    BY <1>2, <1>3, <1>4, <2>2, <2>3, <2>4, <2>6, <2>7, ProgressStep
<1> QED
  BY <1>5, <1>6 DEF CloseListing

\* A reverted purchase brings back the storage it began with.
LEMMA AbortStep ==
  ASSUME MarketInv, UnderWay, Abort
  PROVE  MarketInv'
<1> DEFINE s == purchase.saved
<1>1. s \in StorageType /\ Sound(s) /\ now \in 0 .. MaxTime
  BY MarketInvIff DEF UnderWay, Purchase, PurchaseSound
<1>2. Storage' = s
  BY <1>1 DEF Abort, Restore, Storage, StorageType
<1>3. StateSound'
  <2>1. Storage' \in StorageType /\ Sound(Storage')
    BY <1>1, <1>2
  <2>2. (Storage \in StorageType /\ Sound(Storage))'
    BY <2>1 DEF StorageType, Sound, LedgerFits, ListingsFit, BalancesMatch, ApprovalsFit, HeldBy
  <2>3. (Storage \in StorageType /\ Sound(Storage))' => StateSound'
    BY StateIff, PTL
  <2> QED
    BY <2>2, <2>3
<1>4. purchase' = NoPurchase /\ now' = now
  BY DEF Abort
<1> QED
  BY <1>1, <1>3, <1>4, MarketInvIffPrime
-----------------------------------------------------------------------------
LEMMA TickStep == ASSUME MarketInv, Tick PROVE MarketInv'
<1>1. StateSound /\ purchase = NoPurchase /\ now \in 0 .. MaxTime
  BY IdleIff, MarketInvIff DEF Tick
<1>2. /\ UNCHANGED <<ledgerVars, royalty, members, AdminVars, listings, purchase>>
      /\ now' \in 0 .. MaxTime
  BY <1>1, MarketAssumption DEF Tick
<1>3. StateSound'
  BY <1>1, <1>2, SameStorage
<1> QED
  BY <1>1, <1>2, <1>3, MarketInvIffPrime

LEMMA StutterStep == ASSUME MarketInv, UNCHANGED vars PROVE MarketInv'
<1>1. UNCHANGED <<ledgerVars, royalty, members, AdminVars, listings, now, purchase>>
  BY DEF vars, AdminVars
<1> QED
  BY <1>1, MarketInvIff, SameStorage, OutsideLedgerStep

LEMMA TraderCallStep ==
  ASSUME MarketInv, NEW sender \in Accounts, TraderCall(sender)
  PROVE  MarketInv'
<1>1. ASSUME NEW token \in TokenIds, NEW price \in Prices, ListNFT(sender, token, price)
      PROVE  MarketInv'
  BY <1>1, ListNFTStep
<1>2. ASSUME NEW n \in 1 .. MaxBatch, NEW offers \in [1 .. n -> Offers],
             BatchListNFTs(sender, offers)
      PROVE  MarketInv'
  BY <1>2, BatchListNFTsStep
<1>3. ASSUME NEW id \in EverListed, CancelListing(sender, id)
      PROVE  MarketInv'
  BY <1>3, CancelListingStep
<1>4. ASSUME NEW n \in 1 .. MaxBatch, NEW ids \in [1 .. n -> EverListed], NEW value \in Values,
             BuyNFTs(sender, ids, value)
      PROVE  MarketInv'
  BY <1>4, BuyNFTsStep
<1>5. ASSUME NEW value \in Values, Receive(sender, value)
      PROVE  MarketInv'
  BY <1>5, ReceiveStep
<1> QED
  BY <1>1, <1>2, <1>3, <1>4, <1>5 DEF TraderCall

\* The steps of a purchase are taken only while one is under way.
LEMMA StepsUnderWay ==
  ASSUME MarketInv, PurchaseStep \/ Abort
  PROVE  UnderWay
<1>1. PayRoyalty \/ PayFee \/ PaySeller \/ DeliverToken \/ CloseListing => ~Idle
  BY DEF PayRoyalty, PayFee, PaySeller, DeliverToken, CloseListing, Idle
<1>2. Abort => ~Idle
  BY DEF Abort
<1> QED
  BY <1>1, <1>2, IdleIff DEF PurchaseStep

LEMMA NextStep == MarketInv /\ [Next]_vars => MarketInv'
<1> SUFFICES ASSUME MarketInv, [Next]_vars PROVE MarketInv'
  OBVIOUS
<1>1. ASSUME NEW sender \in Accounts,
             \/ TraderCall(sender)
             \/ AdminCall(sender)
             \/ RoleChange(sender)
             \/ CollectionCall(sender)
             \/ \E token \in TokenIds : CollectionMint(sender, token)
      PROVE  MarketInv'
  BY <1>1, TraderCallStep, AdminCallStep, RoleChangeStep, CollectionCallStep, CollectionMintStep
<1>2. CASE PurchaseStep
  <2>1. UnderWay
    BY <1>2, StepsUnderWay
  <2> QED
    BY <1>2, <2>1, PayRoyaltyStep, PayFeeStep, PaySellerStep, DeliverTokenStep, CloseListingStep
       DEF PurchaseStep
<1>3. CASE Abort
  BY <1>3, StepsUnderWay, AbortStep
<1>4. CASE Tick
  BY <1>4, TickStep
<1>5. CASE UNCHANGED vars
  BY <1>5, StutterStep
<1> QED
  BY <1>1, <1>2, <1>3, <1>4, <1>5 DEF Next

LEMMA InitStep == Init => MarketInv
<1> SUFFICES ASSUME Init PROVE MarketInv
  OBVIOUS
<1>1. LedgerInv
  BY LedgerInit DEF Init
<1>2. royalty \in Royalty
  <2>1. InitialRoyalty \in [receiver : Addresses, fraction : 0 .. FEE_DENOMINATOR]
    BY MarketAssumption
  <2> QED
    BY <2>1 DEF Init, Royalty, Addresses
<1>3. MembersTypeOK
  BY MarketAssumption DEF Init, MembersTypeOK
<1>4. listings \in [ListingId -> Listing]
  <2>1. NoListing \in Listing
    BY DEF NoListing, Listing, Addresses
  <2> QED
    BY <2>1 DEF Init
<1>5. ListingsSound
  BY DEF Init, ListingsSound
<1>6. StateSound
  BY <1>1, <1>2, <1>3, <1>4, <1>5, MarketAssumption
     DEF Init, StateSound, MarketTyped, LedgerInv, PausableTypeOK
<1>7. now \in 0 .. MaxTime /\ purchase = NoPurchase
  BY MarketAssumption DEF Init
<1> QED
  BY <1>6, <1>7, MarketInvIff

(***************************************************************************)
(* The marketplace keeps its inductive invariant.                          *)
(***************************************************************************)
THEOREM MarketInvariance == Spec => []MarketInv
BY InitStep, NextStep, PTL DEF Spec

(***************************************************************************)
(* Every state of the marketplace is well typed: no payment takes the      *)
(* balance below zero, no fee passes its limit.                            *)
(***************************************************************************)
THEOREM MarketTypeCorrectness == Spec => []MarketTypeOK
<1>1. MarketInv => MarketTypeOK
  BY DEF MarketInv
<1> QED
  BY <1>1, MarketInvariance, PTL

(***************************************************************************)
(* For any fees, royalties and callbacks, what a purchase has sent is      *)
(* exactly what its listings cost: nothing is paid twice, nothing is kept. *)
(***************************************************************************)
THEOREM PurchasesPayInFull == Spec => []PaidInFull
<1>1. MarketInv => PaidInFull
  BY DEF MarketInv
<1> QED
  BY <1>1, MarketInvariance, PTL

(***************************************************************************)
(* No purchase takes the token of a wallet that neither listed it nor      *)
(* approved a contract, however stale the listings are that it buys.       *)
(***************************************************************************)
THEOREM BystandersAreSafe == Spec => []BystandersKeepTokens
<1>1. MarketInv => BystandersKeepTokens
  BY DEF MarketInv, PurchaseSound, BystandersKeepTokens, AsFound
<1> QED
  BY <1>1, MarketInvariance, PTL
-----------------------------------------------------------------------------
\* What can happen during a purchase: a step of it, its end, or a call of a
\* contract, which leaves the listings and the purchase alone.
LedgerMoves ==
    \/ UNCHANGED ledgerVars
    \/ \E sender \in Contracts : LedgerCall(sender)
    \/ \E to \in Accounts, token \in TokenIds : MintTokens(to, {token})

LEMMA DuringPurchase ==
  ASSUME MarketInv, [Next]_vars, ~Idle
  PROVE  \/ PurchaseStep
         \/ Idle'
         \/ UNCHANGED <<listings, purchase>> /\ LedgerMoves
<1> DEFINE Undisturbed == UNCHANGED <<listings, purchase>> /\ LedgerMoves
<1>1. ASSUME NEW sender \in Accounts, TraderCall(sender)
      PROVE  Undisturbed
  <2>1. \E value \in Values : Receive(sender, value)
    BY <1>1 DEF TraderCall, ListNFT, BatchListNFTs, CancelListing, BuyNFTs, NonReentrant
  <2> QED
    BY <2>1 DEF Receive, LedgerMoves
<1>2. ASSUME NEW sender \in Accounts, AdminCall(sender) \/ RoleChange(sender)
      PROVE  Undisturbed
  BY <1>2 DEF AdminCall, RoleChange, LedgerMoves
<1>3. ASSUME NEW sender \in Accounts, CollectionCall(sender)
      PROVE  Undisturbed
  BY <1>3 DEF CollectionCall, MayCall, LedgerMoves
<1>4. ASSUME NEW to \in Accounts, NEW token \in TokenIds, CollectionMint(to, token)
      PROVE  Undisturbed
  BY <1>4 DEF CollectionMint, LedgerMoves
<1>5. Abort => Idle'
  BY DEF Abort, NoPurchase, Idle
<1>6. ~Tick
  BY DEF Tick
<1>7. UNCHANGED vars => Undisturbed
  BY DEF vars, LedgerMoves
<1> QED
  BY <1>1, <1>2, <1>3, <1>4, <1>5, <1>6, <1>7 DEF Next

LEMMA BetweenPurchases ==
  ASSUME MarketInv, [Next]_vars, Idle
  PROVE  Idle' \/ (purchase'.stage = "royalty" /\ purchase'.item = 1)
<1>1. ~PurchaseStep /\ ~Abort
  BY StepsUnderWay, IdleIff
<1>2. ASSUME NEW sender \in Accounts, TraderCall(sender)
      PROVE  Idle' \/ (purchase'.stage = "royalty" /\ purchase'.item = 1)
  <2>1. ASSUME NEW n \in 1 .. MaxBatch, NEW ids \in [1 .. n -> EverListed], NEW value \in Values,
               BuyNFTs(sender, ids, value)
        PROVE  purchase'.stage = "royalty" /\ purchase'.item = 1
    BY <2>1 DEF BuyNFTs
  <2>2. UNCHANGED purchase => Idle'
    BY DEF Idle
  <2>3. \/ UNCHANGED purchase
        \/ \E n \in 1 .. MaxBatch : \E ids \in [1 .. n -> EverListed], value \in Values :
             BuyNFTs(sender, ids, value)
    BY <1>2 DEF TraderCall, ListNFT, BatchListNFTs, CancelListing, Receive
  <2> QED
    BY <2>1, <2>2, <2>3
<1>3. \/ UNCHANGED purchase
      \/ \E sender \in Accounts : TraderCall(sender)
  BY <1>1 DEF Next, AdminCall, RoleChange, CollectionCall, CollectionMint, Tick, vars
<1>4. UNCHANGED purchase => Idle'
  BY DEF Idle
<1> QED
  BY <1>2, <1>3, <1>4
-----------------------------------------------------------------------------
\* A tenth of the price is the most a fee of at most MAX_FEE comes to.
LEMMA FeeBound ==
  ASSUME NEW p \in Nat, NEW f \in 0 .. MAX_FEE
  PROVE  ((p * f) \div 10000) * 10 <= p
<1>1. f \in Nat /\ f <= 1000
  BY DEF MAX_FEE
<1>2. p * f \in Nat /\ p * f <= p * 1000
  BY <1>1
<1>3. \A m \in Nat : m <= p * 1000 => (m \div 10000) * 10 <= p
  OBVIOUS
<1> QED
  BY <1>2, <1>3

LEMMA FeeStep ==
  ASSUME MarketInv, FeeWithinLimit, [Next]_vars
  PROVE  FeeWithinLimit'
<1>1. CASE Idle
  BY <1>1, BetweenPurchases DEF FeeWithinLimit, Idle
<1>2. CASE ~Idle /\ PurchaseStep
  <2>1. UnderWay /\ StateSound /\ Current.price \in Nat /\ purchase \in Purchase
    BY <1>2, IdleIff, MarketInvIff, CurrentListing DEF UnderWay
  <2>2. CASE PayRoyalty
    <3>1. /\ purchase'.platformAmount = PlatformAmount(Current.price)
          /\ purchase'.ids = purchase.ids
          /\ purchase'.item = purchase.item
          /\ listings' = listings
      BY <2>1, <2>2 DEF PayRoyalty, Pay, Purchase
    <3>2. PlatformAmount(Current.price) * 10 <= Current.price
      BY <2>1, FeeBound DEF PlatformAmount, BASIS, StateSound, MarketTyped
    <3> QED
      BY <3>1, <3>2 DEF FeeWithinLimit, Current
  <2>3. CASE PayFee \/ PaySeller \/ DeliverToken
    <3>1. /\ purchase'.platformAmount = purchase.platformAmount
          /\ purchase'.ids = purchase.ids
          /\ purchase'.item = purchase.item
          /\ listings' = listings
          /\ purchase.stage # "royalty"
      BY <2>1, <2>3 DEF PayFee, PaySeller, DeliverToken, Pay, Purchase
    <3> QED
      BY <1>2, <3>1 DEF FeeWithinLimit, Current
  <2>4. CASE CloseListing
    <3>1. purchase' = NoPurchase \/ purchase'.stage = "royalty"
      BY <2>1, <2>4 DEF CloseListing, Purchase
    <3> QED
      BY <3>1 DEF FeeWithinLimit, NoPurchase, Idle
  <2> QED
    BY <1>2, <2>2, <2>3, <2>4 DEF PurchaseStep
<1>3. CASE ~Idle /\ Idle'
  BY <1>3 DEF FeeWithinLimit
<1>4. CASE ~Idle /\ UNCHANGED <<listings, purchase>>
  BY <1>4 DEF FeeWithinLimit, Current, Idle
<1> QED
  BY <1>1, <1>2, <1>3, <1>4, DuringPurchase

(***************************************************************************)
(* For any price, the fee of a sale is at most a tenth of it, whatever     *)
(* administrators set while the sale is under way.                         *)
(***************************************************************************)
THEOREM FeesStayWithinLimit == Spec => []FeeWithinLimit
<1>1. Init => FeeWithinLimit
  BY DEF Init, FeeWithinLimit, NoPurchase, Idle
<1>2. MarketInv /\ FeeWithinLimit /\ [Next]_vars => FeeWithinLimit'
  BY FeeStep
<1> QED
  BY <1>1, <1>2, MarketInvariance, PTL DEF Spec
-----------------------------------------------------------------------------
\* What BuyersHaveTokens rests on: a delivered token is also approved to no contract.
Settled(i) ==
    LET token == purchase.ids[i].token
    IN  owners[token] = purchase.buyer /\ tokenApprovals[token] \notin Contracts

BuyersSafe ==
    ~Idle => \/ purchase.buyer \in Contracts
             \/ operatorApprovals[purchase.buyer] \cap Contracts # {}
             \/ \A i \in DOMAIN purchase.ids : Delivered(i) => Settled(i)

\* What keeps a token where it was delivered while contracts call.
LEMMA SettledStays ==
  ASSUME MarketInv, ~Idle, LedgerMoves, UNCHANGED <<listings, purchase>>,
         purchase.buyer \notin Contracts,
         operatorApprovals[purchase.buyer] \cap Contracts = {},
         NEW i \in DOMAIN purchase.ids, Settled(i)
  PROVE  Settled(i)'
<1> DEFINE token == purchase.ids[i].token
           buyer == purchase.buyer
<1>1. /\ ERC721TypeOK
      /\ token \in TokenIds
      /\ buyer \in Accounts
  BY IdleIff, MarketInvIff, CurrentListing
     DEF StateSound, MarketTyped, UnderWay, Purchase, ListingId
<1>2. owners[token] = buyer /\ tokenApprovals[token] \notin Contracts
  BY DEF Settled
<1> DEFINE Kept == owners'[token] = buyer /\ tokenApprovals'[token] \notin Contracts
<1>3. ASSUME NEW sender \in Contracts, LedgerCall(sender)
      PROVE  Kept
  <2>1. ~IsApprovedOrOwner(sender, token) /\ sender # buyer /\ ~IsApprovedForAll(buyer, sender)
    BY <1>2 DEF IsApprovedOrOwner, IsApprovedForAll
  <2>2. ASSUME NEW from \in Accounts, NEW to \in Accounts, NEW id \in TokenIds,
               TransferFrom(sender, from, to, id)
        PROVE  Kept
    <3>1. id # token
      BY <2>1, <2>2 DEF TransferFrom
    <3> QED
      BY <1>1, <1>2, <2>2, <3>1 DEF TransferFrom, Transfer, WithoutApproval, ERC721TypeOK
  <2>3. ASSUME NEW to \in Spenders \cup {Zero}, NEW id \in TokenIds, Approve(sender, to, id)
        PROVE  Kept
    <3>1. id # token
      BY <1>2, <2>1, <2>3 DEF Approve, MayApprove
    <3> QED
      BY <1>1, <1>2, <2>3, <3>1 DEF Approve, ERC721TypeOK
  <2>4. ASSUME NEW operator \in Spenders, NEW approved \in BOOLEAN,
               SetApprovalForAll(sender, operator, approved)
        PROVE  Kept
    BY <1>2, <2>4 DEF SetApprovalForAll
  <2> QED
    BY <1>3, <2>2, <2>3, <2>4 DEF LedgerCall
<1>4. ASSUME NEW to \in Accounts, NEW new \in TokenIds, MintTokens(to, {new})
      PROVE  Kept
  <2>1. owners[token] # Zero
    BY <1>1, <1>2, AccountsAssumption
  <2> QED
    BY <1>1, <1>2, <1>4, <2>1 DEF MintTokens, Exists
<1>5. UNCHANGED ledgerVars => Kept
  BY <1>2 DEF ledgerVars
<1>6. Kept
  BY <1>3, <1>4, <1>5 DEF LedgerMoves
<1> QED
  BY <1>6 DEF Settled

\* No contract makes itself the operator of a wallet.
LEMMA OperatorsStay ==
  ASSUME MarketInv, ~Idle, LedgerMoves, purchase.buyer \notin Contracts
  PROVE  operatorApprovals'[purchase.buyer] = operatorApprovals[purchase.buyer]
<1>1. ERC721TypeOK
  BY MarketInvIff DEF StateSound, MarketTyped
<1>2. ASSUME NEW sender \in Contracts, LedgerCall(sender)
      PROVE  operatorApprovals'[purchase.buyer] = operatorApprovals[purchase.buyer]
  <2>1. ASSUME NEW operator \in Spenders, NEW approved \in BOOLEAN,
               SetApprovalForAll(sender, operator, approved)
        PROVE  operatorApprovals'[purchase.buyer] = operatorApprovals[purchase.buyer]
    BY <1>1, <2>1 DEF SetApprovalForAll, ERC721TypeOK
  <2> QED
    BY <1>2, <2>1 DEF LedgerCall, TransferFrom, Transfer, Approve
<1> QED
  BY <1>2 DEF LedgerMoves, MintTokens, ledgerVars

\* The purchase's own steps: of them only the delivery touches the ledger.
LEMMA BuyersPurchaseStep ==
  ASSUME MarketInv, UnderWay, BuyersSafe, PurchaseStep, ~Idle'
  PROVE  BuyersSafe'
<1>1. /\ ~Idle
      /\ purchase \in Purchase
      /\ ERC721TypeOK
      /\ DOMAIN purchase.ids = 1 .. Len(purchase.ids)
      /\ purchase.item \in DOMAIN purchase.ids
      /\ Len(purchase.ids) \in Nat
  BY IdleIff, MarketInvIff, CurrentListing DEF UnderWay, StateSound, MarketTyped
<1>2. CASE PayRoyalty \/ PayFee \/ PaySeller
  <2>1. /\ UNCHANGED ledgerVars
        /\ purchase'.ids = purchase.ids
        /\ purchase'.item = purchase.item
        /\ purchase'.buyer = purchase.buyer
        /\ purchase'.stage \in {"fee", "seller", "token"}
    BY <1>1, <1>2 DEF PayRoyalty, PayFee, PaySeller, Pay, Purchase
  <2>2. purchase.stage # "close"
    BY <1>2 DEF PayRoyalty, PayFee, PaySeller
  <2>3. \A i \in DOMAIN purchase.ids : /\ Delivered(i)' => Delivered(i)
                                       /\ Settled(i) => Settled(i)'
    BY <2>1, <2>2 DEF Delivered, Settled, ledgerVars
  <2>4. operatorApprovals'[purchase'.buyer] = operatorApprovals[purchase.buyer]
    BY <2>1 DEF ledgerVars
  <2> QED
    BY <1>1, <2>1, <2>3, <2>4 DEF BuyersSafe
<1>3. CASE DeliverToken
  <2> DEFINE id == Current.token
  <2>1. /\ Transfer(Current.seller, purchase.buyer, id)
        /\ purchase'.ids = purchase.ids
        /\ purchase'.item = purchase.item
        /\ purchase'.buyer = purchase.buyer
        /\ purchase'.stage = "close"
    BY <1>1, <1>3 DEF DeliverToken, TransferFrom, SellerOf, Purchase
  <2>2. id \in TokenIds /\ id = purchase.ids[purchase.item].token
    BY CurrentListing DEF ListingId
  <2>3. ASSUME NEW i \in DOMAIN purchase.ids, Delivered(i)', i # purchase.item
        PROVE  Delivered(i)
    BY <2>1, <2>3 DEF Delivered
  <2>4. operatorApprovals' = operatorApprovals
    BY <2>1 DEF Transfer
  <2>5. /\ owners' = [owners EXCEPT ![id] = purchase.buyer]
        /\ tokenApprovals' = [tokenApprovals EXCEPT ![id] = Zero]
        /\ Zero \notin Contracts
    BY <2>1, AccountsAssumption DEF Transfer, WithoutApproval
  <2>6. ASSUME NEW i \in DOMAIN purchase.ids, Settled(i) \/ i = purchase.item
        PROVE  Settled(i)'
    <3> DEFINE token == purchase.ids[i].token
    <3>1. owners'[token] = purchase.buyer /\ tokenApprovals'[token] \notin Contracts
      <4>1. CASE token = id
        BY <1>1, <2>2, <2>5, <4>1 DEF ERC721TypeOK
      <4>2. CASE token # id
        BY <1>1, <2>2, <2>5, <2>6, <4>2 DEF ERC721TypeOK, Settled
      <4> QED
        BY <4>1, <4>2
    <3> QED
      BY <2>1, <3>1 DEF Settled
  <2> QED
    BY <1>1, <2>1, <2>3, <2>4, <2>6 DEF BuyersSafe
<1>4. CASE CloseListing
  <2>1. /\ UNCHANGED ledgerVars
        /\ purchase'.ids = purchase.ids
        /\ purchase'.item = purchase.item + 1
        /\ purchase'.buyer = purchase.buyer
        /\ purchase'.stage = "royalty"
        /\ purchase.stage = "close"
    <3>1. purchase' # NoPurchase
      BY DEF NoPurchase, Idle
    <3>2. purchase' = [purchase EXCEPT !.stage = "royalty", !.item = @ + 1,
                                       !.settled = @ + Current.price, !.callee = Zero]
      BY <1>4, <3>1 DEF CloseListing
    <3> QED
      BY <1>1, <1>4, <3>2 DEF CloseListing, Purchase
  <2>2. \A i \in DOMAIN purchase.ids : /\ Delivered(i)' => Delivered(i)
                                       /\ Settled(i) => Settled(i)'
    BY <1>1, <2>1 DEF Delivered, Settled, ledgerVars
  <2>3. operatorApprovals'[purchase'.buyer] = operatorApprovals[purchase.buyer]
    BY <2>1 DEF ledgerVars
  <2> QED
    BY <1>1, <2>1, <2>2, <2>3 DEF BuyersSafe
<1> QED
  BY <1>2, <1>3, <1>4 DEF PurchaseStep

LEMMA BuyersStep ==
  ASSUME MarketInv, BuyersSafe, [Next]_vars
  PROVE  BuyersSafe'
<1> USE DEF BuyersSafe
<1>1. CASE Idle
  <2> SUFFICES ASSUME ~Idle' PROVE BuyersSafe'
    OBVIOUS
  <2>1. purchase'.stage = "royalty" /\ purchase'.item = 1
    BY <1>1, BetweenPurchases
  <2>2. MarketInv'
    BY NextStep
  <2>3. (UnderWay /\ DOMAIN purchase.ids = 1 .. Len(purchase.ids) /\ Len(purchase.ids) \in Nat)'
    BY <2>2, IdleIff, CurrentListing, PTL
  <2>4. \A i \in DOMAIN purchase'.ids : ~Delivered(i)'
    BY <2>1, <2>3 DEF Delivered
  <2> QED
    BY <2>4
<1>2. CASE ~Idle /\ Idle'
  BY <1>2
<1>3. CASE ~Idle /\ UNCHANGED <<listings, purchase>> /\ LedgerMoves
  <2>1. CASE purchase.buyer \in Contracts
    BY <1>3, <2>1
  <2>2. CASE purchase.buyer \notin Contracts
    <3>1. operatorApprovals'[purchase.buyer] = operatorApprovals[purchase.buyer]
      BY <1>3, <2>2, OperatorsStay
    <3>2. \A i \in DOMAIN purchase.ids : Delivered(i)' <=> Delivered(i)
      BY <1>3 DEF Delivered
    <3>3. CASE operatorApprovals[purchase.buyer] \cap Contracts # {}
      BY <1>3, <3>1, <3>3
    <3>4. CASE operatorApprovals[purchase.buyer] \cap Contracts = {}
      <4>1. \A i \in DOMAIN purchase.ids : Settled(i) => Settled(i)'
        BY <1>3, <2>2, <3>4, SettledStays
      <4>2. \A i \in DOMAIN purchase.ids : Delivered(i) => Settled(i)
        BY <1>3, <2>2, <3>4
      <4> QED
        BY <1>3, <3>2, <4>1, <4>2
    <3> QED
      BY <3>3, <3>4
  <2> QED
    BY <2>1, <2>2
<1>4. CASE ~Idle /\ ~Idle' /\ PurchaseStep
  BY <1>4, BuyersPurchaseStep, IdleIff
<1> QED
  BY <1>1, <1>2, <1>3, <1>4, DuringPurchase

(***************************************************************************)
(* A wallet that approved no contract keeps every token delivered to it    *)
(* until its purchase is over: no approval the seller gave, and no call    *)
(* back of a seller, takes it away again.                                  *)
(***************************************************************************)
THEOREM BuyersAlwaysHaveTokens == Spec => []BuyersHaveTokens
<1>1. Init => BuyersSafe
  BY DEF Init, BuyersSafe, NoPurchase, Idle
<1>2. MarketInv /\ BuyersSafe /\ [Next]_vars => BuyersSafe'
  BY BuyersStep
<1>3. BuyersSafe => BuyersHaveTokens
  BY DEF BuyersSafe, BuyersHaveTokens, Settled
<1> QED
  BY <1>1, <1>2, <1>3, MarketInvariance, PTL DEF Spec
-----------------------------------------------------------------------------
\* The prices of the listings from one place of a batch to its end.
PricesFrom(ids, i) == SumFunctionOnSet(PricesOf(ids), i .. Len(ids))

LEMMA PriceSplitsOff ==
  ASSUME NEW ids \in Seq(ListingId), \A i \in DOMAIN ids : listings[ids[i]].price \in Nat,
         NEW i \in DOMAIN ids
  PROVE  /\ PricesFrom(ids, i) \in Nat /\ PricesFrom(ids, i + 1) \in Nat
         /\ PricesFrom(ids, i) = listings[ids[i]].price + PricesFrom(ids, i + 1)
<1> DEFINE f == PricesOf(ids)
           here == i .. Len(ids)
           rest == i + 1 .. Len(ids)
<1>1. Len(ids) \in Nat /\ DOMAIN ids = 1 .. Len(ids) /\ i \in Nat /\ i >= 1 /\ i <= Len(ids)
  BY LenProperties
<1>2. i \in here /\ here \ {i} = rest /\ here \subseteq DOMAIN ids /\ rest \subseteq DOMAIN ids
  BY <1>1
<1>3. IsFiniteSet(here) /\ IsFiniteSet(rest)
  <2>1. i \in Int /\ i + 1 \in Int /\ Len(ids) \in Int
    BY <1>1
  <2> QED
    BY <2>1, FS_Interval
<1>4. \A j \in DOMAIN ids : f[j] = listings[ids[j]].price /\ f[j] \in Nat
  BY DEF PricesOf
<1> HIDE DEF f, here, rest
<1>5. /\ SumFunctionOnSet(f, here) \in Nat
      /\ SumFunctionOnSet(f, here) = f[i] + SumFunctionOnSet(f, here \ {i})
  BY <1>2, <1>3, <1>4, SumRemove
<1>6. SumFunctionOnSet(f, rest) \in Nat
  BY <1>2, <1>3, <1>4, SumRemove
<1> QED
  BY <1>2, <1>4, <1>5, <1>6 DEF PricesFrom, f, here, rest

LEMMA BatchPrice ==
  ASSUME NEW ids \in Seq(ListingId)
  PROVE  TotalPrice(ids) = PricesFrom(ids, 1)
<1>1. DOMAIN ids = 1 .. Len(ids)
  BY LenProperties
<1> QED
  BY <1>1 DEF TotalPrice, PricesFrom, PricesOf, SumFunction

LEMMA CoveredStep ==
  ASSUME MarketInv, CoveredByBuyer, [Next]_vars
  PROVE  CoveredByBuyer'
<1>1. CASE Idle
  <2>1. ~PurchaseStep /\ ~Abort
    BY <1>1, StepsUnderWay, IdleIff
  <2>2. UNCHANGED purchase => CoveredByBuyer'
    BY <1>1 DEF CoveredByBuyer, Idle
  <2>3. ASSUME NEW sender \in Accounts, NEW n \in 1 .. MaxBatch, NEW ids \in [1 .. n -> EverListed],
               NEW value \in Values, BuyNFTs(sender, ids, value)
        PROVE  CoveredByBuyer'
    <3>1. /\ purchase'.value = value /\ purchase'.settled = 0 /\ purchase'.item = 1
          /\ purchase'.ids = ids /\ value >= TotalPrice(ids) /\ listings' = listings
      BY <2>3 DEF BuyNFTs
    <3>2. ids \in Seq(ListingId) /\ value \in Nat
      <4>1. ids \in [1 .. n -> ListingId] /\ n \in Nat
        BY MarketAssumption DEF EverListed
      <4> QED
        BY <4>1, SeqDef, MarketAssumption
    <3>3. value >= PricesFrom(ids, 1)
      BY <3>1, <3>2, BatchPrice
    <3>4. (PricesOf(purchase.ids))' = PricesOf(ids)
      BY <3>1 DEF PricesOf
    <3>5. value - 0 >= PricesFrom(ids, 1)
      BY <3>2, <3>3
    <3> QED
      BY <3>1, <3>4, <3>5 DEF CoveredByBuyer, PricesFrom
  <2>4. ASSUME NEW sender \in Accounts, TraderCall(sender) PROVE CoveredByBuyer'
    <3>1. \/ UNCHANGED purchase
          \/ \E n \in 1 .. MaxBatch : \E ids \in [1 .. n -> EverListed], value \in Values :
               BuyNFTs(sender, ids, value)
      BY <2>4 DEF TraderCall, ListNFT, BatchListNFTs, CancelListing, Receive
    <3> QED
      BY <2>2, <2>3, <3>1
  <2>5. UNCHANGED purchase \/ \E sender \in Accounts : TraderCall(sender)
    BY <2>1 DEF Next, AdminCall, RoleChange, CollectionCall, CollectionMint, Tick, vars
  <2> QED
    BY <2>2, <2>4, <2>5
<1>2. CASE ~Idle /\ PurchaseStep
  <2>1. UnderWay /\ purchase \in Purchase
    BY <1>2, IdleIff DEF UnderWay
  <2>2. purchase.value - purchase.settled >= PricesFrom(purchase.ids, purchase.item)
    BY <1>2 DEF CoveredByBuyer, PricesFrom
  <2>3. CASE PayRoyalty \/ PayFee \/ PaySeller \/ DeliverToken
    <3>1. /\ purchase'.value = purchase.value /\ purchase'.settled = purchase.settled
          /\ purchase'.ids = purchase.ids /\ purchase'.item = purchase.item
          /\ listings' = listings
      BY <2>1, <2>3 DEF PayRoyalty, PayFee, PaySeller, DeliverToken, Pay, Purchase
    <3>2. (PricesOf(purchase.ids))' = PricesOf(purchase.ids)
      BY <3>1 DEF PricesOf
    <3> QED
      BY <2>2, <3>1, <3>2 DEF CoveredByBuyer, PricesFrom
  <2>4. CASE CloseListing
    <3>1. CASE purchase' = NoPurchase
      BY <3>1 DEF CoveredByBuyer, NoPurchase, Idle
    <3>2. CASE purchase' # NoPurchase
      <4>1. /\ purchase'.value = purchase.value
            /\ purchase'.settled = purchase.settled + Current.price
            /\ purchase'.ids = purchase.ids /\ purchase'.item = purchase.item + 1
        BY <2>1, <2>4, <3>2 DEF CloseListing, Purchase
      <4> DEFINE ids == purchase.ids
                 i == purchase.item
                 id == purchase.ids[purchase.item]
      <4>2. /\ ids \in Seq(ListingId) /\ \A j \in DOMAIN ids : ids[j] \in ListingId
            /\ i \in DOMAIN ids
        BY <2>1, CurrentListing DEF UnderWay
      <4>3. \A x \in ListingId : listings[x] \in Listing /\ listings[x].price \in Nat
        <5>1. \A x \in ListingId : listings[x] \in Listing
          BY MarketInvIff DEF StateSound, MarketTyped
        <5> QED
          BY <5>1 DEF Listing
      <4>4. \A x \in ListingId : listings'[x].price = listings[x].price
        <5>1. listings' = [listings EXCEPT ![id] = [@ EXCEPT !.active = FALSE]]
          BY <2>4 DEF CloseListing
        <5>2. \A x \in ListingId :
                listings'[x] = listings[x] \/ listings'[x] = [listings[x] EXCEPT !.active = FALSE]
          BY <5>1, MarketInvIff DEF StateSound, MarketTyped
        <5> QED
          BY <4>3, <5>2 DEF Listing
      <4>5. (PricesOf(purchase.ids))' = PricesOf(ids)
        BY <4>1, <4>2, <4>4 DEF PricesOf
      <4>6. /\ PricesFrom(ids, i) \in Nat /\ PricesFrom(ids, i + 1) \in Nat
            /\ PricesFrom(ids, i) = Current.price + PricesFrom(ids, i + 1)
        BY <4>2, <4>3, PriceSplitsOff DEF Current
      <4>7. /\ Current.price \in Nat /\ purchase.value \in Nat /\ purchase.settled \in Nat
        BY <2>1, CurrentListing DEF Purchase
      <4>8. purchase.value - (purchase.settled + Current.price) >= PricesFrom(ids, i + 1)
        BY <2>2, <4>6, <4>7
      <4>9. (PricesFrom(purchase.ids, purchase.item))' = PricesFrom(ids, i + 1)
        BY <4>1, <4>5 DEF PricesFrom
      <4> QED
        BY <4>1, <4>8, <4>9 DEF CoveredByBuyer, PricesFrom
    <3> QED
      BY <3>1, <3>2
  <2> QED
    BY <1>2, <2>3, <2>4 DEF PurchaseStep
<1>3. CASE ~Idle /\ Idle'
  BY <1>3 DEF CoveredByBuyer
<1>4. CASE ~Idle /\ UNCHANGED <<listings, purchase>>
  BY <1>4 DEF CoveredByBuyer, PricesOf, Idle
<1> QED
  BY <1>1, <1>2, <1>3, <1>4, DuringPurchase

(***************************************************************************)
(* However long the batch and whatever comes in between, what is left of a *)
(* buyer's value covers the listings still to be bought.                   *)
(***************************************************************************)
THEOREM BuyersCoverPurchases == Spec => []CoveredByBuyer
<1>1. Init => CoveredByBuyer
  BY DEF Init, CoveredByBuyer, NoPurchase, Idle
<1>2. MarketInv /\ CoveredByBuyer /\ [Next]_vars => CoveredByBuyer'
  BY CoveredStep
<1> QED
  BY <1>1, <1>2, MarketInvariance, PTL DEF Spec
=============================================================================
