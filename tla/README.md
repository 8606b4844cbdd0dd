# Verification of the VANA / Serica NFT contracts

TLA+ models of the contracts of this repository and of the scripts that deploy and run
them, TLC runs over small instances, and theorems checked by TLAPS for every instance. Line numbers refer
to the files under `src/`; `PROJECT.json` maps every definition to its lines.
The OpenZeppelin code the contracts inherit is in the repository, in
`SericaNFTCollection_flat.sol` (below: *flat*), and is modelled from there.

## The system

| Component | State | Operations | Modelled by |
|---|---|---|---|
| **SericaNFTCollection**: a collection sold in mint groups | counter of ids, groups and their index by name, minted-status and mint counts per group and wallet, creators, its balance | `initialize`, `addMintGroup`, `updateMintGroup`, `setCreators`, `mint`, `batchMint`, `pause`, `unpause`, URI setters, upgrade | `SericaNFTCollection`; `setBaseURI` and the upgrade as sent by scripts in `SericaScripts` |
| **ERC721Upgradeable**: the ledger | owners, balances, approvals of tokens and of operators | `_mint`, `approve`, `setApprovalForAll`, `transferFrom`, `safeTransferFrom` | `ERC721` |
| **AccessControlUpgradeable** | members of each role | `grantRole`, `revokeRole`, `renounceRole`, `onlyRole` | `AccessControl` |
| **PausableUpgradeable** | one switch | `_pause`, `_unpause` and the modifiers | `Pausable` |
| **VanaMarketplace**: sales at a fixed price | listings, fee, treasury, verified collections, its balance | `listNFT`, `cancelListing`, `buyNFT`, `batchListNFTs`, `batchBuyNFTs`, `receive`, setters, `emergencyWithdraw`, `pause`, `unpause` | `VanaMarketplace` |
| **VanaNFTCollection**: minters hand tokens out, listed wallets take one | counter, whitelist root and marks, reveal flag, URIs | `initialize`, `mint`, `whitelistMint`, `reveal`, setters, upgrade | `VanaNFTCollection` (without `tokenURI` and the upgrade) |
| **ERC2981Upgradeable** | default royalty | `royaltyInfo`, `_setDefaultRoyalty` | `ERC2981` |
| **Scripts of Serica** (`deploy-serica.ts`, `update-mint-group.ts`, `update-base-uri.ts`, `upgrade-contracts.ts`, `test-deployment.ts`, `Serica/old_scripts`) | what they have sent, read and awaited; the operator's transactions in the node's pool | one sequence of requests each | `SericaScripts` |
| **Earlier scripts** (`scripts/olds`) and their registry of deployments | a JSON file per network | none, but for a single deployment, that gets as far as a transaction | not modelled |
| **Initializable, UUPS, ERC1967** | initialized version, implementation slot | `initializer`, `upgradeTo`, `upgradeToAndCall` | not modelled |
| **Token metadata** | base, placeholder and hidden URIs, flags | `tokenURI`, `_toString`, setters | not modelled |

What is left out, and why, is at the end; `PROJECT.json` lists every part.

### How the parts interact

The collection *inherits* ledger, roles and switch: their variables are its
variables, and their public functions can be called next to its own, whether it
is paused or not. It *calls out* in two places, both in `mint`: `_safeMint`
calls `onERC721Received` of a minter that has code (line 233), and the payout
loop sends each creator its share with `call` (line 239). Whoever is called may
call the collection again before `mint` goes on. No function of the collection
is guarded against that, so its correctness rests on the order of its
statements. `batchMint` uses `_mint`, which calls nobody.

`VanaNFTCollection` inherits ledger, royalty and roles in the same way, and calls out in
one place, at the end of both its mints (lines 95 and 189): what the recipient does then
comes before the event, and before the mint it is part of can still revert.

The marketplace reads the ledger of a collection (`ownerOf`, `getApproved`,
`royaltyInfo`) and moves its tokens (`safeTransferFrom`). It keeps no token: a
listing is a promise that the transfer will still be possible at the sale. For each
listing of a purchase it calls out four times: to the receiver of the royalty
(line 172), to the treasury (179), to the seller (183) and, with the token, to the buyer
(187). Whoever is called may call the collection, or the functions of administrators,
before the purchase goes on; listing, cancelling and buying are `nonReentrant`.

The scripts act as administrators. Each is a program that talks to a node: it sends
transactions, which wait in a pool until a block takes them in the order of their nonces; it
awaits the receipts of some; it reads. They meet the buyers in the collection.

### What is hard

* **Interleaving within a transaction.** Calls made from a callback see `mint`
  half done: after its counters moved and before its payouts and its event.
* **Reverts inside a transaction that goes on.** A nested mint may revert while
  the one around it succeeds; all that the inner one wrote must come back.
* **Values read again after a call**: `creators` and its length (237),
  `_mintedCount` (243).
* **Two paths to one counter.** `mint` and `batchMint` check different limits
  and keep different books.
* **Terms that change under a running sale** (`updateMintGroup`), and a fee,
  a treasury and a royalty that change under a running purchase.
* **Listings that go stale** when the token moves or the approval is gone, and
  come back to life when both return; several listings of one token; one listing
  twice in a batch.
* **Arithmetic**: rounding of shares, limits compared with `<` and `<=`, an index
  that counts from 1, unchecked balances.
* **Legal calls that lead nowhere**: the last administrator leaves; a batch
  passes the supply; payments with nobody to pay.

* **Scripts that stop half-way.** A request fails, its answer is lost, an explorer refuses, or
  the operator kills the process: the next transaction is sent or not, and what is in the
  pool is mined without the script, next to those of the next one.
* **Transactions in flight.** A deployment sends the creators and the groups and awaits
  none of them; `update-mint-group` has two updates under way. The node simulates each on the
  last block, and a block takes it later, when a start time may have passed.
* **Two clocks**: the operator's, from which the start times come, and the chain's.

On the chain a transaction either happens whole or not at all, so crashes and lost answers
exist only for the scripts.

## Modules

| Module | What it is |
|---|---|
| `Context` | accounts, those with code, the zero address |
| `ERC721` | the ledger, with its own specification `ERC721Spec` |
| `AccessControl` | the roles, with their own specification `RolesSpec` |
| `Pausable` | the switch |
| `SericaNFTCollection` | the collection: extends the four above |
| `ERC2981` | the royalty of a collection |
| `VanaNFTCollection` | the collection of minters and listed wallets: extends the ledger, the royalty and the roles |
| `VanaMarketplace` | the marketplace: extends the ledger and the royalty (of the collection it sells), the roles and the switch (its own) |
| `MintLog` | what a collection promises between transactions: an abstract log of mints, which both collections implement |
| `SericaScripts` | the scripts of Serica, a node and its pool, composed with the collection and its buyers (extends `SericaNFTCollection`) |
| `MC_Sale`, `MC_Callbacks`, `MC_Vana`, `MC_Market`, `MC_Scripts` | the instances |
| `Sums` | lemmas about the sum of a function over a finite set |
| `ERC721_proofs`, `AccessControl_proofs`, `SericaNFTCollection_proofs`, `VanaNFTCollection_proofs`, `VanaMarketplace_proofs`, `SericaScripts_proofs` | the theorems |

### Correspondence with the code

**A call is a step.** A function is an action with `msg.sender` as parameter; its
`require`s and modifiers are the guard; a call that reverts changes nothing and is
no step. `\E` over accounts, names, terms, splits, quantities and payments
gives every call that can be made.

**`mint` is several steps**, because others act in between:

    Mint  -> [calls of the minter's contract] -> PayCreator -> [calls of the creator's]
          -> PayCreator -> ... -> FinishMint          or, from any point, Abort

`frames` is the call stack: one record for each mint that has called out, with
its locals (minter, group, payment, position in the loop, sum sent), whom it is
calling now, and the storage from before the call. `MayCall` says who may act:
anybody when the stack is empty; otherwise contracts, and only while the
innermost mint is calling one. `Abort` restores the saved storage of the innermost
mint and leaves the outer ones on the stack (a caller that catches the revert);
outer mints may then abort in turn (a caller that does not). `Abort` stands for
every reason there is to revert: a receiver that refuses, a creator that refuses,
a balance that is short, gas.

**The mints of `VanaNFTCollection`** follow the same scheme with one call each:

    Mint or WhitelistMint  -> [calls of the recipient's contract] ->  FinishMint or Abort

Here the frame keeps `newTokenId`, the local from which the event is emitted. `_tokenIds` is
the variable `totalSupply`, after the function that returns it. `_mintPrice` is stored by
`initialize` and used by no function, and is left out; the URIs are set but read by
`tokenURI` only, so the instance has one of them.

**A purchase is several steps** for the same reason; `buyNFT` is the batch of one:

    BuyNFTs -> (PayRoyalty -> PayFee -> PaySeller -> DeliverToken -> CloseListing)+
            or, from any point, Abort

`purchase` is the one purchase that `nonReentrant` allows: its stage, its locals
(the amounts, the place in the batch), whom it is calling, and the storage from
before the call, which `Abort` restores. The step from one stage to the next makes
one call; while a contract is being called, contracts may act (`MayCall`). Nothing is
reentrant by decree: `NonReentrant` is a guard of the actions that have the modifier,
and of no other, so that without it the model nests listings and purchases as the code would.
`EmergencyWithdraw` calls its receiver at its very end, so what the receiver does
then are calls that follow it.

The marketplace accepts the address of any contract as `nftContract`. The model has one
collection, which behaves as the collections of this repository do; a contract
that answers `ownerOf` as it likes is outside it. Ids of listings are hashes of seller,
token, time and, in batches, place: here they are the records of those, so two
listings collide just when the code's do.

**A script is a sequence of statements** (`Program`), one for each `await`: to send, to wait for a
receipt, to read the chain or the clock. `pc` is the next one; an action
executes it. `Interrupted` ends the script before or after any request: a transaction that was
being sent is then in the pool or not. A thrown error ends a script in the same way. Scripts
run one after another, from one account. `sent` holds the operator's transactions in
the order of their nonces, `Mine` takes the first that is pending. Its effect is the
action of the collection itself (`SetCreators`, `AddMintGroup`, `UpdateMintGroup`) or a
revert, and buyers call whenever the collection is there. A transaction is sent only if its
simulation succeeds on the last block, which may be one time unit old (`Estimates`).

**Data.** A token is its id. A Merkle root is a value for which `Listed` gives the
accounts that have a proof, so `verify` is membership (a wrong proof is a call
that reverts). The two arrays of `setCreators`, which must have one length, are
one sequence. `mintGroups` counts from 1, so `groupIndexByName` is the index
itself where the code subtracts 1. Group names and terms, splits and payments are
taken from small sets that an instance gives. `isActive` is kept although nothing
sets it to false.

**History.** `origin` records for each token the wallet, group and function it was minted
by and whether the group was whitelisted then; `events` is the set of `Minted`
events of transactions; in a purchase, `value`, `sent` and `settled` add up what came in, what
was sent and what the listings cost. `clock.ahead` is how far the operator's clock was ahead of the
chain's when a script read it. Properties use them; no guard does.

## Runs

| Run | Question | Result |
|---|---|---|
| `serica_sale` | ids, index, events and limits in a sale among wallets | holds, about 403 000 states |
| `serica_roles` | what can still change, in roles and terms, when nobody is an administrator | nothing, 5120 states |
| `serica_callbacks` | counters, whitelist, payouts, events and nested reverts when a contract mints and is paid | holds, about 119 000 states |
| `vana_collection` | are the unchecked balances exact, approvals cleared, ids, marks and events right when a contract mints from the callback of its own mint | yes, about 453 000 states |
| `market_trades` | who pays for a purchase, and does its buyer keep what it bought | the buyer, and yes; about 1 106 000 states |
| `market_batch` | do stale or repeated listings sell a bystander's token | no, about 1 047 000 states |
| `market_callbacks` | does a purchase stay sound when a contract that is administrator, seller, buyer and treasury is called by it, and when the royalty goes to the marketplace itself | yes, about 1 407 000 states |
| `serica_scripts` | what are the reports, the deadlines and the ends of the scripts of Serica worth, when they may be cut off anywhere and buyers and clocks go on | what the properties say; about 563 000 states |
| `doc_supply` | "Total minted ≤ Max supply" (`docs/Serica/AUDIT_SCOPE.md:73`) | violated by `batchMint` |
| `doc_payments` | "Automatic creator payment distribution" (`docs/Serica/technical.md:153`) | violated by `batchMint` |
| `doc_max_supply` | `maxSupply` is the maximum number of tokens (`docs/contract_features.md:7`, `:70`) | violated by `whitelistMint` |

The properties, in the words of the code:

* `BalancesMatchOwners`: a balance is the number of tokens owned, the claim in the
  comments at flat:2612 and flat:2684. `ApprovalsFollowOwner`: no approval outlives a
  transfer (as a statement about each transfer, `TransfersResetApproval`, it is only proved).
* `LastAdminIsFinal`, `OwnerlessIsFrozen`: what `renounceRole` can do for good.
* `TokensAreSequential`: the ids are 1 .. `_mintedCount` (1 .. `totalSupply`), also past
  the supply.
* `CountersMatchMints`: `walletMintCount` and `mintedInGroup` are the truth.
* `GroupIndexConsistent`: names and groups are in one-to-one correspondence.
* `OneListedMint`: what `groupMintStatus` achieves, for `mint`.
* `MintsRespectLimits`: what the limits achieve: no mint passes those of its time.
* `NoOverpayment`, `PayoutsComplete`: a mint sends its creators no more than it
  was paid, and less than one unit for each creator stays behind.
* `MintDelivers`: after the calls out, the token is where `mint` left it.
* `EventsMatchMints` of `VanaNFTCollection`, which emits from a local variable: the events name
  every token once, with its recipient, whatever is called.
* `EventsMatchUnlessNested` of `SericaNFTCollection`, where line 243 reads `_mintedCount` after the
  calls out: what is left of that when contracts mint from callbacks. A token without its event
  was followed by one that a contract minted, and an event that names a wrong minter
  or group is about a token of a contract. Among wallets the events are the mints.
* `OneListedToken`: a wallet has its mark just when it took its one listed token.
* `OvershootIsListed`: what `maxSupply` achieves: the tokens past it are listed ones, at
  most one for each marked wallet.
* `PaidInFull`: at each stage a purchase has sent the prices of the listings done with and
  what is due of the present one, to the unit: royalty, fee and the seller's part add up
  to the price although each is rounded, and no callback changes that.
* `CoveredByBuyer`: what is left of the buyer's value covers the listings still to be
  bought; the marketplace never pays with what others left in it.
* `BystandersKeepTokens`: a purchase takes a wallet's token only by a listing which that wallet
  made of that token (or a contract it approved takes it meanwhile).
* `BuyersHaveTokens`: what was delivered to a wallet stays with it until the purchase is
  over; the seller's approvals are gone with the transfer.
* `FeeWithinLimit` (only proved): the fee is at most a tenth of the price.
* `MintsAreLogged`: the refinement. Between transactions a collection behaves as `MintLog`.
* `ScriptsTypeOK`: states are well typed; `pc` stays in its program.
* `OnlyLateOrRepeated`: what a node has simulated and a script has sent is reverted for two
  reasons alone: a start time has passed meanwhile, or the file names two groups alike, and
  the second was sent before the first was there (nothing at `deploy-serica.ts:71` compares
  them). The creators and the groups of a deployment do not depend on each other's receipts.
* `CreatorsBeforeGroups`: `deploy-serica` leaves no group without creators to pay, wherever it
  stops. (The earlier `old_scripts/deploy` sends them in the other order and does not have this.)
* `UpdatesReportTruth`, `SalesApart`: what `update-mint-group` and `update-base-uri` report is
  so, and the two sales that an update sets do not overlap.
* `OnlyFastClocks`: the whitelist sale starts "now" (`update-mint-group.ts:41`) and the collection
  takes later times only, so the update completes for no operator whose clock is not ahead of the
  chain's, whatever the delays. It is about the start that the script sends: one that is any
  later than the time it reads breaks the property.
* `ScriptsEnd`: a script does not wait for ever. `DeploymentSettles`: after a deployment
  that reported success every group comes to be, unless its start passed in the pool.

### Bounds

* `serica_sale`: two accounts, three tokens for a supply of two, two terms (a
  listed wave that ends and an open one that does not), three names (one empty, which
  must be refused), times 0 .. 2, payments that cover one token and two, and
  three splits of which one is valid. Three tokens let a batch pass the supply; the
  terms are exchanged under one name, so that limits, price and whitelist change
  in mid-sale. Grants and approvals are left out (`Grantees`, `Spenders` empty;
  transfers and renouncing stay): they are independent of the sale and are covered by
  `serica_roles` and `vana_collection`.
* `serica_roles`: one token, one open group; all grants and approvals.
* `serica_callbacks`: one wallet and one contract; three tokens, so three mints on
  the stack, which is one more than any property relates; the contract is paid
  first, in mid-loop; the price (3) divides by no share, so rounding shows.
* `vana_collection`: integers of modulus 3 with two tokens, the smallest at which the
  ledger comments' argument holds, so that one wrong decrement shows as a wrap. A wallet and a contract,
  which is administrator, minter and listed, so that its callbacks reach every function; a
  supply of one, so that the second token passes it; two lists that may be exchanged, one of
  which names only the contract; a royalty to accept and one above the whole price.
* `market_trades`: one wallet, one contract that may be approved, one token, one
  listing that may be made again, batches of two, so of the same id twice; values of one price
  and of two. The administrator is the wallet: it changes the treasury to the
  contract, calls `setVerifiedCollection`, pauses and withdraws between transactions.
* `market_batch`: two wallets, two tokens, two listings, batches of two; no contract, no
  administrator. The smallest instance in which a batch can deliver one token and
  meet another listing that has become stale.
* `market_callbacks`: the contract is administrator and every other part at once. Prices of 10
  and 20, a fee that falls from a tenth to nothing in mid-batch and a royalty that falls from a
  quarter to a twentieth and then goes to the marketplace itself, so that the marketplace pays its
  own `receive`; 10 leaves the royalty rounded (2 of 2.5, and nothing of a half); a fee above
  the limit (2000) must be refused.

* `serica_scripts`: one operator, one buyer, one token. Six files: a good one with two groups whose
  starts may pass in the pool, one with a group that cannot be converted, one that names two
  groups alike, one with creators that cannot be converted, one with a window that the
  collection refuses, one without groups. Two scripts one after
  another (`MaxRuns`), since what one leaves in the pool meets the next one and a third would
  meet the same; times 0 .. 4, so that both sales of an update may open and the first may close;
  the operator's clock right or one unit ahead. Three hours, four hours and seven days
  become 1, 2 and 1: only their order matters.
`MaxListings`, `MaxBatch` and `MaxBalance` bound listings, batches and the value that is left
in the marketplace. The clock of `market_trades` takes the values 0 and 1; in the other market runs it
stands still, so that a seller who lists a token again overwrites its listing, and `place` tells those
of a batch apart. `LastTokenId` bounds the ids and `MaxTime` the clock. A run in which a bound is reached
does not deadlock, since transfers, and `setCreators` or the payouts, remain.

### Fairness

For the contracts alone none is assumed and no liveness is claimed: a contract moves only when
someone calls it, and nothing in the code obliges anybody to. Within a
transaction the chain guarantees an end (by success, or by running out of gas):
`FinishMint` or `Abort` is then always possible, which the absence of deadlock shows.

With the scripts, liveness has a meaning.

* `WF(ScriptStep)`: the event loop executes the next statement when what it awaits is there.
* `Mine`: a block takes the first transaction of the pool. The fairness is
  strong, as mining is not possible while a transaction of a buyer is half done, and buyers may
  begin again and again.
* `WF(MintGoesOn)`: a transaction of a buyer comes to its end, as gas is limited.

Nothing obliges an operator to start a script, time to pass, or a process not to be killed:
`Start`, `TimePasses`, `Interrupted` and the calls of buyers have no fairness.

### Refinement

`MintLog` is a sequence to which whole mints are appended, with entries that may appear only once.
`SericaNFTCollection` and `VanaNFTCollection` implement it under a mapping that shows what
others can rely on: the storage when no call is under way, and otherwise the one that the
outermost mint has saved (`PublicStorage`). So a mint that calls out, nests others, and is
perhaps reverted, is a step that appends nothing until its end. The entries that appear
once are the listed ones of each wallet and group (of each wallet).

`SericaScripts` has the collection in it, and `SericaScripts_proofs` shows that it implements
`SericaNFTCollection`: whatever the pool does, the collection takes steps of its own specification.

## Proofs

All theorems hold for every number of accounts and tokens and any groups, terms,
splits, payments, proofs, roles and bounds that satisfy the assumptions
`AccountsAssumption`, `ERC721Assumption`, `AccessControlAssumption`,
`SericaAssumption`, `VanaAssumption`, `MarketAssumption` and `ScriptsAssumption`: finite sets,
fewer token ids than the integer type counts, a listed sale that ends before the public one
begins (`WhitelistSpan < PublicDelay`), and a marketplace that is not one of the callers: it
deploys nothing, and administers no collection. A file may name two groups alike, and the
treasury and the receiver of a royalty may be the marketplace itself, as in the code.

Each safety property that a run checks, and each action property, is the statement of a theorem
(two under a hypothesis that is named below); what is left to TLC alone is liveness (at the end of this part).

**Sums** (`Sums`). Payouts and prices add up, and an induction over data cannot be had from a theorem
with a predicate as parameter, which the provers cannot instantiate. Here the induction is on a *set* of
natural numbers, namely on its complement, which has no least element (`Induction`). With it the fold
of the community modules is shown to have a solution on every finite set, so that
its `CHOOSE` is the sum (`SumEquation`), and, by a second induction, that any member
may be taken off first (`SumRemove`). The proofs below use only that.

**Ledger** (`ERC721_proofs`). `ERC721TypeOK`, `BalancesMatch` and `ApprovalsFit`
together are inductive. The key facts are what `_mint` and `_transfer` do to
the set of tokens an account holds (`HeldBy`): it gains the new ids, or one token
leaves it and one enters; the balance is its cardinality, which is below the
modulus, so `Wrap` is the identity on the result although it is not on the way.
A transfer to oneself is the case where the decrement and the increment meet.
The step lemmas speak of actions, not of `ERC721Spec`, and the collection's
proof cites them again.

**Roles** (`AccessControl_proofs`). An action property needs no invariant here: a
grant needs a member of `DEFAULT_ADMIN_ROLE`.

**Collection** (`SericaNFTCollection_proofs`). `TokensAreSequential` and the others are not
inductive: `Abort` puts back an earlier storage, so nothing is known of the next
state unless something is known of what is saved. The inductive invariant `Inv`
therefore says that the present storage is `Sound` *and* that the storage saved by
each frame is `Sound`. `Sound` is a predicate of a storage, not of the variables, so the
same predicate serves both. It adds to the properties themselves:

* `OriginsFit`: the history agrees with the counter (a token has an origin just when
  its id is at most `mintedCount`) and only existing groups are minted in: without
  it `addMintGroup` could start the counter of a name that already has tokens;
* `StatusFits`: whoever minted while listed is marked: without it `mint` could
  give a second token;
* in `FramesSound`, that the token of a frame is still there in the storage saved by
  later frames: without it an inner revert could take back an outer mint's token.

`Invariance` shows Init, one lemma for each action, and the combination. The
safety invariants follow from it, and `MintsRespectLimits`, an action property, from it and
the guards of the two mints.

`LogIsImplemented` adds `FirstReaches`: the log of the outermost saved storage is extended by that of
the present one and of every storage saved later. A mint, at any depth, extends the present log, and a
revert goes back to a storage that still extends the public one; so the step that empties the stack
appends to the log, and every other step leaves the public storage as it is.

`MintsNeverOverpay` and `MintsPayOut` need an invariant of the payout loop (`PayoutInv`): the creators are
still those with which each mint under way began, and what was sent to the first `k` of them
is their share of the payment, less than one unit short for each; at the end of
the loop the shares are the whole. The first part is where the code relies on its environment:
`mint` reads `creators` again for each payee (line 237), so if a contract were an administrator and a
creator, it could change the split in mid-loop and the sums would not fit. Both
theorems therefore suppose that no administrator is a contract (`AdminsAreWallets`). That is
itself shown to hold when neither the deployer nor anyone a role is granted to is a contract
(`AdminsStayWallets`), which needs the same of the members saved in frames.

`NobodyThawsIt` (`OwnerlessIsFrozen`) is an action property that follows from `Inv` with one fact about
`mint`: it counts in a group and leaves its terms (`CountKeepsGroups`).

`EventsAlwaysFit` (`EventsMatchUnlessNested`) holds for any contracts, and its invariant knows what is
yet to be announced. `OwnIds` are the tokens of the mints under way, one for each frame; `EventsFit` says
of a storage that every other token has its event or was followed by a contract's, and that
everything minted after one of `OwnIds` went to a contract, as it was minted from a callback.
`EventsInv` has it of the present storage and of each saved one, with the frames below
it, so that it survives `Abort`. `FinishMint` announces the last token there is: its own,
or else a contract's, which is the case that the property excepts.

**VanaNFTCollection** (`VanaNFTCollection_proofs`). `VanaInv` is built in the same way from `Sound`
storages, present and saved. For `EventsMatchMints` it adds `PendingFits`: the tokens of a
storage are those announced in it *and* those of the frames that are still to announce
theirs. Stated for the storage saved by each frame too (with the frames below it), it
survives `Abort` in mid-nesting; when no frame is left it is the property itself. Type
correctness and the collection's own four properties follow, `EventsMatchMints` among them for
any contracts.

**Marketplace** (`VanaMarketplace_proofs`). The inductive invariant `MarketInv` has the same
shape: the storage is `Sound` (exact ledger, every listing found under the id of its
own seller and token), and so is the one a purchase saved. What is particular to it
is `PurchaseSound`: the token of a wallet that listed nothing in this purchase and has no
contract approved is `AsFound`, with its owner *and its approvals* as they were when
the purchase began. Without the approvals it is not inductive: a contract could be
approved in one callback and take the token in the next. `ContractsCannotMove` shows that
calls of contracts keep it, and `DeliverTokenStep` that a delivery does: the token that moves
is one its owner listed, since the transfer demands that the seller of the listing be the owner.
`PaidInFull` is a conjunct of the invariant and holds as listings cannot change during a purchase
(`DuringPurchase`). `FeesStayWithinLimit` and `BuyersAlwaysHaveTokens` each need a
further invariant, proved relative to `MarketInv`; for the latter, that a
delivered token is approved to no contract (`Settled`).

`BuyersCoverPurchases` (`CoveredByBuyer`) is inductive next to `MarketInv`: prices stand still during a
purchase, and the sum over the listings still to be bought loses the price of the one at hand
(`PriceSplitsOff`) in the step in which that price is settled.

**Scripts** (`SericaScripts_proofs`). `CollectionImplemented` maps each step to one of the collection or
a stutter. The heart is `ProgramSends`: every statement of `Program`, whatever file was read and whatever clock,
sends a call of the collection with arguments that its `Next` enumerates; `ScriptsInv` carries that to
the transactions in the pool, and `MineIsNext` to the step that executes them.
So the collection's invariant and its log hold under the scripts (`CollectionStaysSound`).

What a script believes when it sends need not hold when its transaction is mined. The invariant of
the second half therefore speaks of three things, each proved next to the others:

* `SetupKept`: roles, creators, names and terms are changed by the operator's transactions
  alone. It holds of what a buyer's mint saved, too, so a revert in the collection takes back nothing of it.
* `PoolInv`: what was sent first is mined first (`MinedInOrder`), what was mined is there unless a later
  one replaced it, and what is pending is still acceptable except for its start time or a repeated name
  (`EntryFits`); whatever group there is was added by one of these transactions (`NamesWereSent`,
  `GroupsWereSent`).
* `RunInv`: what the present script has sent, by the statement it has come to, and that what it has
  yet to send fits that: the creators come before the groups (`CreatorsAreFirst`), an update has its two
  transactions next to each other, with starts not later than the time of sending and what
  the clock was ahead (`UpdateRuns`).

`LateOrRepeatedReverts` is then a part of `PoolInv`; `CreatorsComeFirst` follows from the order of the
statements and that of the pool; `SalesStayApart` and `ReportsAreTrue` from `RunInv` at the end of an update,
where nothing was sent later that could have replaced its terms. So does `ClocksAreFast`: the listed sale was
accepted after it was sent (`InTime`), with a start that is the time read, and that time is at most
the sending time when the clock was not ahead. `ScriptsTyped` is about `pc` and
the places in the pool (`Positions`).

**Only model-checked:** `ScriptsEnd` and `DeploymentSettles`. They are liveness under fairness, which
the prover does not treat.

## Divergences from the documents

The three `doc_*` runs. None of them is about a wording: in each the counterexample
is a short sequence of ordinary calls. Two have a common root, that `batchMint`
repeats the body of `mint` without its supply check and its payouts. No test examines what
it does: the one that calls it (`test/SericaNFTCollection.gas.ts:69`) measures gas. `doc_max_supply` is of the same kind:
`whitelistMint` repeats the body of `VanaNFTCollection.mint` without its supply check.

What follows was met while modelling and is noted without a run, as no document says
otherwise or as its wording is open to interpretation.

* When a contract mints from a callback, the event of the outer `mint` announces the token of the
  inner one (`SericaNFTCollection.sol:243`). `EventsMatchUnlessNested` says what remains true.
* `batchMint` does not set `groupMintStatus`, so a listed wallet has further tokens that way, and
  `updateMintGroup` may replace the limits of a group by ones that its sales have already passed.
* `docs/TECHNICAL.md:28` names a "Whitelist system for collections", and `setVerifiedCollection` records
  which collections are verified, but no function reads it; every collection can be listed.
* A deployment whose file names two groups alike reports success: the second passes the simulation
  while the first is pending, and reverts when it is mined (`deploy-serica.ts:71`).
* The earlier scripts are behind the contracts. `olds/deploy.ts:22`, `deploy-testnet.ts:23`,
  `deploy-mainnet.ts:47` and `deploy-test-collection.ts:26` give eight arguments to the constructor of
  `VanaNFTCollection` (`VanaNFTCollection.sol:52`), which takes none; `deploy-staking.ts:54` asks for a
  `STAKER_ROLE` the collection does not have; `deploy-all.ts:55` deploys `VanaMarketplace`, which has a
  constructor with an argument and no `initialize`, as a proxy.
* `saveDeployment` writes to `deployments` under the working directory, `loadDeployment` reads
  `scripts/deployments` (`olds/utils.ts:42`, `:50`).
* `deploy-airdrop` and `update-frontend` cannot succeed as they are: a placeholder for an address, and a
  directory that is not there.

## Not modelled

* **Initializable, UUPS, ERC1967.** An upgrade exchanges the code for some other, which is not in
  the repository; what it does to the storage is not a question about this code. That `upgradeTo`
  is sent by a script and taken from the deployer alone is in `SericaScripts`.
* **Token metadata and views** (`tokenURI`, `_toString`, `getActiveGroup`, `getAllGroups`,
  `supportsInterface`): they change no state, and no property is about the texts.
* **MerkleProof**: hashing; a root stands for the accounts it has a proof for.
* **Earlier scripts** (`scripts/olds`). They were written for contracts as they were before this commit.
  Those that deploy the collection, the staking contract, the airdrop or everything throw before they
  have written a record (see above; `VanaToken` and `VanaStaking` are not in the repository), so
  the registry of `olds/utils.ts` stays empty and what looks up in it finds nothing.
  `deploy-upgradeable` sends one deployment and reads back what it sent.
* **Scripts that only read or generate**: `verify-serica.ts`, `get-implementation.ts`, the earlier `verify.ts`,
  and those that write or rename files of metadata. They share no state with another part.
* **Other collections in the marketplace.** It sells tokens of any contract; the model has one
  collection, which behaves as those of this repository. Its mints and its royalty setter are
  `CollectionMint` and `CollectionCall` of `VanaMarketplace`, less detailed than in `VanaNFTCollection`.
* **Two scripts at once**, from the same account or another: nothing in the repository runs them so.

An abstract marketplace, in which a sale is one step that exchanges a token for its price, is the
extension that would add most.
