------------------------- MODULE VanaNFTCollection -------------------------
(***************************************************************************)
(* contracts/VanaNFTCollection.sol: a collection of which minters hand out *)
(* the tokens, up to maxSupply, and of which a listed wallet takes one.    *)
(*                                                                         *)
(* Both mints end by calling the recipient (onERC721Received, if it has    *)
(* code), which may call the collection before the mint goes on.  So a     *)
(* mint is a step that pushes a frame, and a FinishMint step; while a      *)
(* contract is called, every call by a contract may come in between.       *)
(* Abort is a mint that reverts: the storage of before its call comes back.*)
(***************************************************************************)
EXTENDS ERC721, ERC2981, AccessControl, Sequences, SequencesExt

CONSTANTS
    ADMIN_ROLE,
    MINTER_ROLE,
    Deployer,        \* msg.sender of initialize
    MaxSupply,       \* maxSupply, which nothing changes after initialize
    LastTokenId,     \* the token ids are 1 .. LastTokenId (a bound)
    NoRoot,          \* bytes32(0): nobody is listed
    Listed,          \* Listed[root]: the accounts with a Merkle proof for the root
    Royalties,       \* the royalties initialize and setRoyaltyInfo may be given
    Uris             \* the URIs an administrator may set

Roots == DOMAIN Listed \cup {NoRoot}

ASSUME VanaAssumption ==
    /\ {ADMIN_ROLE, MINTER_ROLE} \subseteq Roles
    /\ Deployer \in Accounts
    /\ MaxSupply \in Nat
    /\ LastTokenId \in Nat
    /\ TokenIds = 1 .. LastTokenId
    /\ NoRoot \notin DOMAIN Listed
    /\ Royalties \subseteq [receiver : Addresses, fraction : Nat]

VARIABLES
    totalSupply,         \* _tokenIds, which totalSupply() returns
    merkleRoot,
    whitelistMinted,     \* the wallets that have taken their listed token
    revealed,
    baseTokenURI,
    hiddenMetadataUri,
    frames,              \* the mints that have called the recipient, innermost last
    origin,              \* history: to whom, and by which function, a token was minted
    events               \* history: the Minted and WhitelistMinted events emitted

metadataVars == <<revealed, baseTokenURI, hiddenMetadataUri>>

vars == <<ledgerVars, royalty, members, totalSupply, merkleRoot, whitelistMinted,
          metadataVars, frames, origin, events>>

Origin == [to : Accounts, call : {"mint", "whitelistMint"}]

NotMinted == [to |-> Zero, call |-> "none"]

Event == [to : Accounts, id : TokenIds, call : {"mint", "whitelistMint"}]

\* All that a reverted mint gives back.
StorageType ==
    [owners : [TokenIds -> Addresses], balances : [Accounts -> 0 .. UintModulus - 1],
     tokenApprovals : [TokenIds -> Spenders \cup {Zero}],
     operatorApprovals : [Accounts -> SUBSET Spenders],
     royalty : Royalty, members : [Roles -> SUBSET Accounts],
     totalSupply : 0 .. LastTokenId, merkleRoot : Roots,
     whitelistMinted : SUBSET Accounts, revealed : BOOLEAN, baseTokenURI : Uris,
     hiddenMetadataUri : Uris, origin : [TokenIds -> Origin \cup {NotMinted}],
     events : SUBSET Event]

Storage ==
    [owners |-> owners, balances |-> balances, tokenApprovals |-> tokenApprovals,
     operatorApprovals |-> operatorApprovals, royalty |-> royalty, members |-> members,
     totalSupply |-> totalSupply, merkleRoot |-> merkleRoot,
     whitelistMinted |-> whitelistMinted, revealed |-> revealed,
     baseTokenURI |-> baseTokenURI, hiddenMetadataUri |-> hiddenMetadataUri,
     origin |-> origin, events |-> events]

\* A mint that is calling the recipient, with its local newTokenId.
Frame == [to : Accounts, id : TokenIds, call : {"mint", "whitelistMint"}, saved : StorageType]

TypeOK ==
    /\ Storage \in StorageType
    /\ frames \in Seq(Frame)

\* The state after initialize, whose royalty passes the checks of _setDefaultRoyalty.
Init ==
    /\ ERC721Init
    /\ royalty \in Royalties \cap Royalty
    /\ royalty.receiver # Zero
    /\ members = [role \in Roles |->
                    IF role \in {DEFAULT_ADMIN_ROLE, ADMIN_ROLE, MINTER_ROLE}
                      THEN {Deployer} ELSE {}]
    /\ totalSupply = 0
    /\ merkleRoot \in Roots
    /\ whitelistMinted = {}
    /\ revealed = FALSE
    /\ baseTokenURI \in Uris
    /\ hiddenMetadataUri \in Uris
    /\ frames = <<>>
    /\ origin = [id \in TokenIds |-> NotMinted]
    /\ events = {}
-----------------------------------------------------------------------------
Idle == frames = <<>>

Top == Last(frames)

\* Whose calls can come now: anybody's between transactions, and within one
\* those of contracts, once a mint is calling one of them.
MayCall(sender) ==
    \/ Idle
    \/ ~Idle /\ Top.to \in Contracts /\ sender \in Contracts

\* Mutant: the counter is incremented twice, before and within the mint.
NewTokenIdSkipsOne == totalSupply + 2

NewTokenId == totalSupply + 1

\* _safeMint of the next id, up to the call of the recipient.
IssueTo(to, call) ==
    /\ MintTokens(to, {NewTokenId})
    /\ totalSupply' = NewTokenId
    /\ origin' = [origin EXCEPT ![NewTokenId] = [to |-> to, call |-> call]]
    /\ frames' = Append(frames, [to |-> to, id |-> NewTokenId, call |-> call,
                                 saved |-> Storage])
    /\ UNCHANGED <<royalty, members, merkleRoot, metadataVars, events>>

\* Mutant: the supply is compared with <=.
SupplyLeftOrJustGone == totalSupply <= MaxSupply

SupplyLeft == totalSupply < MaxSupply

Mint(sender, to) ==
    /\ MayCall(sender)
    /\ HasRole(MINTER_ROLE, sender)
    /\ SupplyLeft
    /\ IssueTo(to, "mint")
    /\ UNCHANGED whitelistMinted

\* Mutant: the mark is left out.
NoMark(sender) == UNCHANGED whitelistMinted

Mark(sender) == whitelistMinted' = whitelistMinted \cup {sender}

\* The Merkle proof is one for the sender's own address.
WhitelistMint(sender) ==
    /\ MayCall(sender)
    /\ merkleRoot # NoRoot
    /\ sender \notin whitelistMinted
    /\ sender \in Listed[merkleRoot]
    /\ Mark(sender)
    /\ IssueTo(sender, "whitelistMint")

\* Mutant: the event reads the counter, which nested mints have moved.
EventOfCounter(frame) == [to |-> frame.to, id |-> totalSupply, call |-> frame.call]

EventOf(frame) == [to |-> frame.to, id |-> frame.id, call |-> frame.call]

\* The recipient has accepted the token; what is left is the event.
FinishMint ==
    /\ ~Idle
    /\ events' = events \cup {EventOf(Top)}
    /\ frames' = Front(frames)
    /\ UNCHANGED <<ledgerVars, royalty, members, totalSupply, merkleRoot, whitelistMinted,
                   metadataVars, origin>>

\* The EVM gives back all that the reverted call has written.
Restore(s) ==
    /\ owners' = s.owners
    /\ balances' = s.balances
    /\ tokenApprovals' = s.tokenApprovals
    /\ operatorApprovals' = s.operatorApprovals
    /\ royalty' = s.royalty
    /\ members' = s.members
    /\ totalSupply' = s.totalSupply
    /\ merkleRoot' = s.merkleRoot
    /\ whitelistMinted' = s.whitelistMinted
    /\ revealed' = s.revealed
    /\ baseTokenURI' = s.baseTokenURI
    /\ hiddenMetadataUri' = s.hiddenMetadataUri
    /\ origin' = s.origin
    /\ events' = s.events

\* A mint reverts: the recipient refuses the token, or the gas runs out.
Abort ==
    /\ ~Idle
    /\ Restore(Top.saved)
    /\ frames' = Front(frames)
-----------------------------------------------------------------------------
\* The functions of ADMIN_ROLE touch neither the ledger nor the mints.
SetMerkleRoot(root) ==
    /\ merkleRoot' = root
    /\ UNCHANGED <<royalty, metadataVars>>

SetRoyaltyInfo(receiver, feeNumerator) ==
    /\ SetDefaultRoyalty(receiver, feeNumerator)
    /\ UNCHANGED <<merkleRoot, metadataVars>>

Reveal ==
    /\ ~revealed
    /\ revealed' = TRUE
    /\ UNCHANGED <<royalty, merkleRoot, baseTokenURI, hiddenMetadataUri>>

SetBaseURI(uri) ==
    /\ baseTokenURI' = uri
    /\ UNCHANGED <<royalty, merkleRoot, revealed, hiddenMetadataUri>>

SetHiddenMetadataUri(uri) ==
    /\ hiddenMetadataUri' = uri
    /\ UNCHANGED <<royalty, merkleRoot, revealed, baseTokenURI>>

AdminCall(sender) ==
    /\ MayCall(sender)
    /\ HasRole(ADMIN_ROLE, sender)
    /\ \/ \E root \in Roots : SetMerkleRoot(root)
       \/ \E terms \in Royalties : SetRoyaltyInfo(terms.receiver, terms.fraction)
       \/ Reveal
       \/ \E uri \in Uris : SetBaseURI(uri) \/ SetHiddenMetadataUri(uri)
    /\ UNCHANGED <<ledgerVars, members, totalSupply, whitelistMinted, frames, origin, events>>

\* What the collection inherits: the calls of the ledger and of the roles.
InheritedCall(sender) ==
    /\ MayCall(sender)
    /\ \/ LedgerCall(sender) /\ UNCHANGED members
       \/ RoleCall(sender) /\ UNCHANGED ledgerVars
    /\ UNCHANGED <<royalty, totalSupply, merkleRoot, whitelistMinted, metadataVars, frames,
                   origin, events>>

Next ==
    \/ \E sender \in Accounts :
         \/ \E to \in Accounts : Mint(sender, to)
         \/ WhitelistMint(sender)
         \/ AdminCall(sender)
         \/ InheritedCall(sender)
    \/ FinishMint
    \/ Abort

Spec == Init /\ [][Next]_vars
-----------------------------------------------------------------------------
(***************************************************************************)
(* The two mints share the counter: the tokens that exist are              *)
(* 1 .. totalSupply, through mints that nest and mints that are undone, so *)
(* _mint never meets an id that is taken.                                  *)
(***************************************************************************)
SequentialIds(s) == \A id \in TokenIds : (s.owners[id] # Zero) <=> (id <= s.totalSupply)

TokensAreSequential == SequentialIds(Storage)

(***************************************************************************)
(* A wallet has its mark just when it took a listed token, and it takes    *)
(* one at most: whatever roots follow one another, even if its contract    *)
(* calls whitelistMint again from onERC721Received, or a mint is undone.   *)
(***************************************************************************)
ListedMints(s, a) == {id \in TokenIds : s.origin[id] = [to |-> a, call |-> "whitelistMint"]}

OnePerMark(s) ==
    \A a \in Accounts :
      Cardinality(ListedMints(s, a)) = IF a \in s.whitelistMinted THEN 1 ELSE 0

OneListedToken == OnePerMark(Storage)

(***************************************************************************)
(* What maxSupply limits: whitelistMint does not look at it, but no minter *)
(* issues a token past it, so the tokens beyond it are all listed ones, at *)
(* most one for each marked wallet.                                        *)
(***************************************************************************)
OvershootFits(s) ==
    /\ \A id \in TokenIds :
         id > MaxSupply /\ id <= s.totalSupply => s.origin[id].call = "whitelistMint"
    /\ s.totalSupply <= MaxSupply + Cardinality(s.whitelistMinted)

OvershootIsListed == OvershootFits(Storage)

(***************************************************************************)
(* Between transactions the events name every token once, with its         *)
(* recipient and the function that minted it, however mints have nested:   *)
(* the event takes the id from a local variable, not from the counter.     *)
(***************************************************************************)
Announced(s) ==
    {[to |-> s.origin[id].to, id |-> id, call |-> s.origin[id].call] :
       id \in {t \in TokenIds : t <= s.totalSupply}}

EventsMatchMints == Idle => events = Announced(Storage)

(***************************************************************************)
(* Seen from outside, the collection implements MintLog: what nests and is *)
(* undone within a transaction shows between transactions as a list of     *)
(* tokens that only grows, in which a wallet has one listed token.         *)
(***************************************************************************)
\* What anybody reads who is not called by a mint: the storage between transactions.
PublicStorage == IF Idle THEN Storage ELSE frames[1].saved

LogOf(s) == [id \in 1 .. s.totalSupply |-> s.origin[id]]

Log == INSTANCE MintLog
         WITH log <- LogOf(PublicStorage), Entries <- Origin,
              OnceOnly <- {entry \in Origin : entry.call = "whitelistMint"}

MintsAreLogged == Log!Spec
-----------------------------------------------------------------------------
(***************************************************************************)
(* The inductive invariant: the storage is sound, and so is every storage  *)
(* a mint that is calling its recipient would bring back by a revert.      *)
(***************************************************************************)
OriginsFit(s) == \A id \in TokenIds : (s.origin[id] = NotMinted) <=> (id > s.totalSupply)

\* Of the tokens of s, those of the first n frames still have to be announced.
Pending(n) == {EventOf(frames[i]) : i \in 1 .. n}

PendingFits(s, n) == Announced(s) = s.events \cup Pending(n)

Sound(s) ==
    /\ s \in StorageType
    /\ BalancesMatch(s.owners, s.balances)
    /\ ApprovalsFit(s.owners, s.tokenApprovals)
    /\ SequentialIds(s)
    /\ OriginsFit(s)
    /\ OnePerMark(s)
    /\ OvershootFits(s)

FramesSound ==
    \A i \in DOMAIN frames :
      Sound(frames[i].saved) /\ PendingFits(frames[i].saved, i - 1)

VanaInv ==
    /\ TypeOK
    /\ Sound(Storage)
    /\ FramesSound
    /\ PendingFits(Storage, Len(frames))
-----------------------------------------------------------------------------
\* docs/contract_features.md:7 and :70: a "maximum supply limit", and maxSupply()
\* as the "maximum number of NFTs".  whitelistMint does not keep it.
MaxSupplyIsMaximum == totalSupply <= MaxSupply
=============================================================================
