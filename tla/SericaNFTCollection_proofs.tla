--------------------- MODULE SericaNFTCollection_proofs ---------------------
(***************************************************************************)
(* The inductive invariant of the collection, for any number of accounts,  *)
(* contracts, groups, tokens and nested mints.  Each call is shown to      *)
(* leave the storage sound; the frames keep sound storages to come back    *)
(* to, which is what Abort needs.                                          *)
(***************************************************************************)
EXTENDS SericaNFTCollection, ERC721_proofs, AccessControl_proofs, SequenceTheorems, Sums

StorageTyped ==
    /\ ERC721TypeOK
    /\ MembersTypeOK
    /\ PausableTypeOK
    /\ mintedCount \in Nat
    /\ mintGroups \in Seq(MintGroup)
    /\ groupIndexByName \in [GroupNames -> Nat]
    /\ groupMintStatus \in [GroupNames -> SUBSET Accounts]
    /\ walletMintCount \in [GroupNames -> [Accounts -> Nat]]
    /\ origin \in [TokenIds -> Origin]
    /\ creators \in Seq(Creator)
    /\ balance \in Nat
    /\ events \in SUBSET Event

\* What the counters, the groups and the history say of the tokens.
SaleSound ==
    /\ \A id \in TokenIds : (owners[id] # Zero) <=> (id <= mintedCount)
    /\ IndexFits(Storage)
    /\ OriginsFit(Storage)
    /\ CountersMatch(Storage)
    /\ StatusFits(Storage)
-----------------------------------------------------------------------------
\* Soundness of the storage, read variable by variable.
LEMMA SoundIff == Sound(Storage) <=> StorageTyped /\ LedgerInv /\ SaleSound
<1>1. Storage \in StorageType <=> StorageTyped
  BY DEF Storage, StorageType, StorageTyped, ERC721TypeOK, MembersTypeOK, PausableTypeOK
<1>2. BalancesMatch(Storage.owners, Storage.balances) <=> BalancesMatchOwners
  BY DEF Storage, BalancesMatchOwners
<1>3. ApprovalsFit(Storage.owners, Storage.tokenApprovals) <=> ApprovalsFollowOwner
  BY DEF Storage, ApprovalsFollowOwner
<1>4. SequentialIds(Storage) <=> \A id \in TokenIds : (owners[id] # Zero) <=> (id <= mintedCount)
  BY DEF Storage, SequentialIds
<1> QED
  BY <1>1, <1>2, <1>3, <1>4 DEF Sound, SaleSound, LedgerInv, StorageTyped

LEMMA SoundIffPrime == Sound(Storage)' <=> StorageTyped' /\ LedgerInv' /\ SaleSound'
BY SoundIff, PTL

\* A reverted call: the storage is the one that was saved.
LEMMA RestoreStorage ==
  ASSUME NEW s \in StorageType, Restore(s)
  PROVE  Storage' = s
BY DEF Storage, StorageType, Restore

\* The soundness of the sale does not depend on who owns the tokens.
LEMMA SaleStutter ==
  ASSUME SaleSound, UNCHANGED saleVars,
         \A id \in TokenIds : (owners[id] # Zero)' <=> owners[id] # Zero
  PROVE  SaleSound'
<1>1. UNCHANGED <<mintedCount, mintGroups, groupIndexByName, groupMintStatus,
                  walletMintCount, origin>>
  BY DEF saleVars
<1>2. IndexFits(Storage)'
  BY <1>1 DEF SaleSound, Storage, IndexFits
<1>3. OriginsFit(Storage)'
  BY <1>1 DEF SaleSound, Storage, OriginsFit
<1>4. \A name : MintedIn(Storage, name)' = MintedIn(Storage, name)
  BY <1>1 DEF Storage, MintedIn
<1>5. \A name, a : MintedBy(Storage, name, a)' = MintedBy(Storage, name, a)
  BY <1>1, <1>4 DEF Storage, MintedBy
<1>6. CountersMatch(Storage)'
  BY <1>1, <1>4, <1>5 DEF SaleSound, Storage, CountersMatch
<1>7. StatusFits(Storage)'
  <2>1. \A name, a : ListedMints(Storage, name, a, {"mint"})'
                        = ListedMints(Storage, name, a, {"mint"})
    BY <1>1, <1>5 DEF Storage, ListedMints
  <2>2. Storage.groupMintStatus' = Storage.groupMintStatus
    BY <1>1 DEF Storage
  <2> QED
    BY <2>1, <2>2 DEF SaleSound, StatusFits
<1> QED
  BY <1>1, <1>2, <1>3, <1>6, <1>7 DEF SaleSound

\* Calls that touch neither the ledger nor the sale.
LEMMA OtherStep ==
  ASSUME Sound(Storage), UNCHANGED <<ledgerVars, saleVars>>,
         MembersTypeOK', PausableTypeOK', creators' \in Seq(Creator), balance' \in Nat,
         events' \in SUBSET Event
  PROVE  Sound(Storage)'
<1>1. StorageTyped /\ LedgerInv /\ SaleSound
  BY SoundIff
<1>2. LedgerInv'
  BY <1>1, LedgerStutter
<1>3. StorageTyped'
  BY <1>1, <1>2 DEF StorageTyped, LedgerInv, saleVars
<1>4. SaleSound'
  BY <1>1, SaleStutter DEF ledgerVars
<1> QED
  BY <1>2, <1>3, <1>4, SoundIffPrime

LEMMA LedgerStep ==
  ASSUME Sound(Storage), NEW sender \in Accounts, LedgerCall(sender),
         UNCHANGED <<members, paused, saleVars, creators, balance, events>>
  PROVE  Sound(Storage)'
<1>1. StorageTyped /\ LedgerInv /\ SaleSound
  BY SoundIff
<1>2. LedgerInv'
  BY <1>1, LedgerCallStep
<1>3. StorageTyped'
  BY <1>1, <1>2 DEF StorageTyped, LedgerInv, saleVars, MembersTypeOK, PausableTypeOK
<1>4. SaleSound'
  BY <1>1, SaleStutter, LedgerCallKeepsTokens DEF LedgerInv
<1> QED
  BY <1>2, <1>3, <1>4, SoundIffPrime
-----------------------------------------------------------------------------
\* addMintGroup appends a group nobody has minted in, under a name that had none.
LEMMA AddMintGroupStep ==
  ASSUME Sound(Storage), NEW sender \in Accounts, NEW name \in GroupNames,
         NEW terms \in GroupTerms, AddMintGroup(sender, name, terms)
  PROVE  Sound(Storage)'
<1> DEFINE n == Len(mintGroups)
           group == [name |-> name, terms |-> terms, mintedInGroup |-> 0, isActive |-> TRUE]
<1>1. StorageTyped /\ LedgerInv /\ SaleSound
  BY SoundIff
<1>2. /\ n \in Nat
      /\ mintGroups \in Seq(MintGroup)
      /\ groupIndexByName[name] = 0
  <2>1. mintGroups \in Seq(MintGroup) /\ groupIndexByName[name] \in Nat
    BY <1>1 DEF StorageTyped
  <2>2. ~GroupExists(name)
    BY DEF AddMintGroup
  <2>3. n \in Nat
    BY <2>1, LenProperties
  <2> QED
    BY <2>1, <2>2, <2>3 DEF GroupExists
<1> group \in MintGroup
  <2>1. terms \in Terms
    BY SericaAssumption
  <2> QED
    BY <2>1 DEF MintGroup
<1>3. /\ mintGroups' = Append(mintGroups, group)
      /\ mintGroups' \in Seq(MintGroup)
      /\ Len(mintGroups') = n + 1
      /\ DOMAIN mintGroups = 1 .. n
      /\ DOMAIN mintGroups' = 1 .. n + 1
      /\ mintGroups'[n + 1] = group
      /\ \A i \in 1 .. n : mintGroups'[i] = mintGroups[i]
  <2>1. mintGroups' = Append(mintGroups, group)
    BY DEF AddMintGroup
  <2> HIDE DEF group
  <2> QED
    BY <1>2, <2>1, AppendProperties, LenProperties
<1>4. groupIndexByName' = [groupIndexByName EXCEPT ![name] = n + 1]
  BY <1>3 DEF AddMintGroup
<1>5. UNCHANGED <<ledgerVars, members, paused, mintedCount, groupMintStatus,
                  walletMintCount, origin, creators, balance, events>>
  BY DEF AddMintGroup
<1>6. LedgerInv'
  BY <1>1, <1>5, LedgerStutter
<1>7. StorageTyped'
  BY <1>1, <1>2, <1>3, <1>4, <1>5, <1>6
     DEF StorageTyped, LedgerInv, MembersTypeOK, PausableTypeOK
<1>8. \A i \in 1 .. n : mintGroups[i].name \in GroupNames
  <2>1. \A i \in 1 .. n : mintGroups[i] \in MintGroup
    BY <1>2, ElementOfSeq
  <2> QED
    BY <2>1 DEF MintGroup
<1>9. IndexFits(Storage)'
  <2>1. \A i \in 1 .. n : mintGroups[i].name # name
    BY <1>1, <1>2, <1>3 DEF SaleSound, IndexFits, Storage
  <2>2. \A m \in GroupNames : groupIndexByName'[m] # 0 =>
           groupIndexByName'[m] \in 1 .. n + 1 /\ mintGroups'[groupIndexByName'[m]].name = m
    BY <1>1, <1>2, <1>3, <1>4 DEF SaleSound, IndexFits, Storage, StorageTyped
  <2>3. \A i \in 1 .. n + 1 : groupIndexByName'[mintGroups'[i].name] = i
    BY <1>1, <1>2, <1>3, <1>4, <1>8, <2>1 DEF SaleSound, IndexFits, Storage, StorageTyped
  <2> QED
    BY <1>3, <2>2, <2>3 DEF IndexFits, Storage
<1>10. OriginsFit(Storage)'
  <2>1. \A m \in GroupNames : groupIndexByName[m] # 0 => groupIndexByName'[m] # 0
    BY <1>1, <1>2, <1>4 DEF StorageTyped
  <2>2. \A id \in TokenIds : origin[id] # NotMinted => origin[id].group \in GroupNames
    BY <1>1 DEF StorageTyped, Origin
  <2>3. mintedCount' = mintedCount /\ origin' = origin
    BY <1>5
  <2> QED
    BY <1>1, <2>1, <2>2, <2>3 DEF SaleSound, OriginsFit, Storage
<1>11. /\ \A m : MintedIn(Storage, m)' = MintedIn(Storage, m)
       /\ \A m, a : MintedBy(Storage, m, a)' = MintedBy(Storage, m, a)
       /\ \A m, a : ListedMints(Storage, m, a, {"mint"})' = ListedMints(Storage, m, a, {"mint"})
  <2>1. \A m : MintedIn(Storage, m)' = MintedIn(Storage, m)
    BY <1>5 DEF Storage, MintedIn
  <2>2. \A m, a : MintedBy(Storage, m, a)' = MintedBy(Storage, m, a)
    BY <1>5, <2>1 DEF Storage, MintedBy
  <2>3. \A m, a : ListedMints(Storage, m, a, {"mint"})' = ListedMints(Storage, m, a, {"mint"})
    BY <1>5, <2>2 DEF Storage, ListedMints
  <2> QED
    BY <2>1, <2>2, <2>3
<1>12. CountersMatch(Storage)'
  <2>1. \A m \in GroupNames, a \in Accounts :
           walletMintCount'[m][a] = Cardinality(MintedBy(Storage, m, a))
    BY <1>1, <1>5 DEF SaleSound, CountersMatch, Storage
  <2>2. MintedIn(Storage, name) = {}
    BY <1>1, <1>2 DEF SaleSound, OriginsFit, Storage, MintedIn
  <2>3. \A i \in 1 .. n : mintGroups[i].mintedInGroup
                            = Cardinality(MintedIn(Storage, mintGroups[i].name))
    BY <1>1, <1>3 DEF SaleSound, CountersMatch, Storage
  <2>4. ASSUME NEW i \in 1 .. n + 1
        PROVE  mintGroups'[i].mintedInGroup = Cardinality(MintedIn(Storage, mintGroups'[i].name))
    <3>1. CASE i = n + 1
      <4>1. Cardinality(MintedIn(Storage, name)) = 0
        BY <2>2, FS_EmptySet
      <4>2. mintGroups'[i].mintedInGroup = 0 /\ mintGroups'[i].name = name
        BY <1>3, <3>1
      <4> QED
        BY <4>1, <4>2
    <3>2. CASE i \in 1 .. n
      BY <1>3, <2>3, <3>2
    <3> QED
      BY <1>2, <3>1, <3>2
  <2>5. Storage'.walletMintCount = walletMintCount' /\ Storage'.mintGroups = mintGroups'
    BY DEF Storage
  <2> QED
    BY <1>3, <1>11, <2>1, <2>4, <2>5 DEF CountersMatch
<1>13. StatusFits(Storage)'
  <2>1. Storage.groupMintStatus' = Storage.groupMintStatus
    BY <1>5 DEF Storage
  <2> QED
    BY <1>1, <1>11, <2>1 DEF SaleSound, StatusFits
<1>14. SaleSound'
  BY <1>1, <1>5, <1>9, <1>10, <1>12, <1>13 DEF SaleSound, ledgerVars
<1> QED
  BY <1>6, <1>7, <1>14, SoundIffPrime

\* updateMintGroup replaces the terms of a group, and keeps its name and count.
LEMMA UpdateMintGroupStep ==
  ASSUME Sound(Storage), NEW sender \in Accounts, NEW name \in GroupNames,
         NEW terms \in GroupTerms, UpdateMintGroup(sender, name, terms)
  PROVE  Sound(Storage)'
<1> DEFINE k == groupIndexByName[name]
<1>1. StorageTyped /\ LedgerInv /\ SaleSound
  BY SoundIff
<1>2. k \in DOMAIN mintGroups
  BY <1>1 DEF UpdateMintGroup, GroupExists, StorageTyped, SaleSound, IndexFits, Storage
<1>3. /\ mintGroups' = [mintGroups EXCEPT ![k] = [mintGroups[k] EXCEPT !.terms = terms]]
      /\ UNCHANGED <<ledgerVars, members, paused, mintedCount, groupIndexByName,
                     groupMintStatus, walletMintCount, origin, creators, balance, events>>
  BY DEF UpdateMintGroup
<1>4. mintGroups[k] \in MintGroup /\ terms \in Terms
  BY <1>1, <1>2, ElementOfSeq, SericaAssumption DEF StorageTyped
<1>5. /\ [mintGroups[k] EXCEPT !.terms = terms] \in MintGroup
      /\ [mintGroups[k] EXCEPT !.terms = terms].name = mintGroups[k].name
      /\ [mintGroups[k] EXCEPT !.terms = terms].mintedInGroup = mintGroups[k].mintedInGroup
  BY <1>4 DEF MintGroup
<1>6. /\ mintGroups' \in Seq(MintGroup)
      /\ DOMAIN mintGroups' = DOMAIN mintGroups
      /\ \A i \in DOMAIN mintGroups : /\ mintGroups'[i].name = mintGroups[i].name
                                      /\ mintGroups'[i].mintedInGroup
                                           = mintGroups[i].mintedInGroup
  <2>1. mintGroups' \in Seq(MintGroup)
    BY <1>1, <1>2, <1>3, <1>5, ExceptSeq DEF StorageTyped
  <2> QED
    BY <1>2, <1>3, <1>5, <2>1
<1>7. LedgerInv'
  BY <1>1, <1>3, LedgerStutter
<1>8. StorageTyped'
  BY <1>1, <1>3, <1>6, <1>7 DEF StorageTyped, LedgerInv, MembersTypeOK, PausableTypeOK
<1>9. IndexFits(Storage)'
  BY <1>1, <1>3, <1>6 DEF SaleSound, IndexFits, Storage
<1>10. OriginsFit(Storage)'
  BY <1>1, <1>3 DEF SaleSound, OriginsFit, Storage
<1>11. /\ \A m : MintedIn(Storage, m)' = MintedIn(Storage, m)
       /\ \A m, a : MintedBy(Storage, m, a)' = MintedBy(Storage, m, a)
       /\ \A m, a : ListedMints(Storage, m, a, {"mint"})' = ListedMints(Storage, m, a, {"mint"})
  <2>1. \A m : MintedIn(Storage, m)' = MintedIn(Storage, m)
    BY <1>3 DEF Storage, MintedIn
  <2>2. \A m, a : MintedBy(Storage, m, a)' = MintedBy(Storage, m, a)
    BY <1>3, <2>1 DEF Storage, MintedBy
  <2>3. \A m, a : ListedMints(Storage, m, a, {"mint"})' = ListedMints(Storage, m, a, {"mint"})
    BY <1>3, <2>2 DEF Storage, ListedMints
  <2> QED
    BY <2>1, <2>2, <2>3
<1>12. CountersMatch(Storage)'
  <2>1. \A m \in GroupNames, a \in Accounts :
           walletMintCount'[m][a] = Cardinality(MintedBy(Storage, m, a))
    BY <1>1, <1>3 DEF SaleSound, CountersMatch, Storage
  <2>2. \A i \in DOMAIN mintGroups : mintGroups[i].mintedInGroup
                                       = Cardinality(MintedIn(Storage, mintGroups[i].name))
    BY <1>1 DEF SaleSound, CountersMatch, Storage
  <2>3. Storage'.walletMintCount = walletMintCount' /\ Storage'.mintGroups = mintGroups'
    BY DEF Storage
  <2> QED
    BY <1>6, <1>11, <2>1, <2>2, <2>3 DEF CountersMatch
<1>13. StatusFits(Storage)'
  <2>1. Storage.groupMintStatus' = Storage.groupMintStatus
    BY <1>3 DEF Storage
  <2> QED
    BY <1>1, <1>11, <2>1 DEF SaleSound, StatusFits
<1>14. SaleSound'
  BY <1>1, <1>3, <1>9, <1>10, <1>12, <1>13 DEF SaleSound, ledgerVars
<1> QED
  BY <1>7, <1>8, <1>14, SoundIffPrime

\* The tokens that are added to a finite set of ids it does not hold yet.
LEMMA AddedIds ==
  ASSUME NEW S \in SUBSET TokenIds, NEW c \in Nat, NEW q \in Nat,
         S \cap (c + 1 .. c + q) = {}
  PROVE  Cardinality(S \cup (c + 1 .. c + q)) = Cardinality(S) + q
<1> DEFINE T == c + 1 .. c + q
<1>1. IsFiniteSet(S) /\ Cardinality(S) \in Nat
  BY FS_Subset, FS_CardinalityType, ERC721Assumption
<1>2. IsFiniteSet(T) /\ Cardinality(T) = q
  <2>1. c + 1 \in Int /\ c + q \in Int
    OBVIOUS
  <2> QED
    BY <2>1, FS_Interval
<1>3. Cardinality(S \cap T) = 0
  BY FS_EmptySet
<1> HIDE DEF T
<1>4. Cardinality(S \cup T) = Cardinality(S) + Cardinality(T) - Cardinality(S \cap T)
  BY <1>1, <1>2, FS_Union
<1>5. Cardinality(S \cup T) = Cardinality(S) + q
  BY <1>1, <1>2, <1>3, <1>4
<1> QED
  BY <1>5 DEF T

\* Minting, whichever call it is: the counters move with the tokens.
LEMMA IssueStep ==
  ASSUME Sound(Storage), NEW sender \in Accounts, NEW name \in GroupNames, GroupExists(name),
         NEW q \in Nat \ {0}, NEW call \in {"mint", "batchMint"},
         Issue(sender, name, q, call),
         \/ call = "batchMint" /\ UNCHANGED groupMintStatus
         \/ call = "mint" /\ q = 1 /\ ClaimListing(sender, name),
         UNCHANGED <<members, paused, creators>>, balance' \in Nat, events' \in SUBSET Event
  PROVE  /\ Sound(Storage)'
         /\ mintedCount' = mintedCount + q
         /\ mintedCount' <= LastTokenId
         /\ \A id \in 1 .. mintedCount : origin'[id] = origin[id]
         /\ \A id \in NewIds(q) : origin'[id].wallet = sender /\ origin'[id].group = name
<1> DEFINE k == groupIndexByName[name]
           listed == GroupOf(name).terms.merkleRoot # NoRoot
           token == [wallet |-> sender, group |-> name, call |-> call, listed |-> listed]
           new == mintedCount + 1 .. mintedCount + q
<1>1. StorageTyped /\ LedgerInv /\ SaleSound
  BY SoundIff
<1>2. /\ mintedCount \in Nat
      /\ mintedCount' = mintedCount + q
      /\ MintTokens(sender, new)
      /\ UNCHANGED groupIndexByName
      /\ mintGroups' = [mintGroups EXCEPT ![k].mintedInGroup = @ + q]
      /\ walletMintCount' = [walletMintCount EXCEPT ![name][sender] = @ + q]
      /\ origin' = [id \in TokenIds |-> IF id \in new THEN token ELSE origin[id]]
  BY <1>1 DEF Issue, CountMint, NewIds, StorageTyped
<1>3. new \in SUBSET TokenIds /\ TokenIds = 1 .. LastTokenId /\ LastTokenId \in Nat
  BY <1>2, SericaAssumption DEF MintTokens
<1>4. mintedCount' <= LastTokenId
  <2>1. mintedCount + q \in new
    BY <1>2
  <2> QED
    BY <1>2, <1>3, <2>1
<1>5. token \in Origin /\ token # NotMinted /\ token.wallet = sender /\ token.group = name
  <2>1. listed \in BOOLEAN
    OBVIOUS
  <2> HIDE DEF listed
  <2>2. token.wallet # NotMinted.wallet
    BY AccountsAssumption DEF NotMinted
  <2> QED
    BY <2>1, <2>2 DEF Origin
<1> HIDE DEF token
<1>6. /\ \A id \in 1 .. mintedCount : origin'[id] = origin[id]
      /\ \A id \in new : origin'[id] = token
      /\ \A id \in TokenIds \ new : origin'[id] = origin[id]
      /\ \A id \in new : origin[id] = NotMinted
  BY <1>1, <1>2, <1>3, <1>4 DEF SaleSound, OriginsFit, Storage
<1>7. /\ k \in DOMAIN mintGroups
      /\ k # 0
      /\ mintGroups[k].name = name
  BY <1>1 DEF GroupExists, StorageTyped, SaleSound, IndexFits, Storage
<1>8. /\ mintGroups' \in Seq(MintGroup)
      /\ DOMAIN mintGroups' = DOMAIN mintGroups
      /\ \A i \in DOMAIN mintGroups :
           /\ mintGroups'[i].name = mintGroups[i].name
           /\ mintGroups'[i].mintedInGroup
                = IF i = k THEN mintGroups[i].mintedInGroup + q ELSE mintGroups[i].mintedInGroup
  <2> DEFINE g == [mintGroups[k] EXCEPT !.mintedInGroup = @ + q]
  <2>1. mintGroups \in Seq(MintGroup) /\ mintGroups[k] \in MintGroup
    BY <1>1, <1>7, ElementOfSeq DEF StorageTyped
  <2>5. mintGroups[k].mintedInGroup + q \in Nat
    BY <2>1 DEF MintGroup
  <2>2. /\ g \in MintGroup
        /\ g.name = mintGroups[k].name
        /\ g.mintedInGroup = mintGroups[k].mintedInGroup + q
    BY <2>1, <2>5 DEF MintGroup
  <2>3. mintGroups' = [mintGroups EXCEPT ![k] = g]
    BY <1>2
  <2> HIDE DEF g
  <2>4. mintGroups' \in Seq(MintGroup) /\ DOMAIN mintGroups' = DOMAIN mintGroups
    BY <1>7, <2>1, <2>2, <2>3, ExceptSeq
  <2> QED
    BY <1>7, <2>1, <2>2, <2>3, <2>4
<1>9. LedgerInv'
  BY <1>1, <1>2, MintTokensStep
<1>10. /\ walletMintCount' \in [GroupNames -> [Accounts -> Nat]]
       /\ \A m \in GroupNames, a \in Accounts :
            walletMintCount'[m][a] = IF m = name /\ a = sender THEN walletMintCount[m][a] + q
                                                              ELSE walletMintCount[m][a]
  BY <1>1, <1>2 DEF StorageTyped
<1>11. groupMintStatus' \in [GroupNames -> SUBSET Accounts]
  <2>1. groupMintStatus \in [GroupNames -> SUBSET Accounts]
    BY <1>1 DEF StorageTyped
  <2>2. [groupMintStatus EXCEPT ![name] = @ \cup {sender}] \in [GroupNames -> SUBSET Accounts]
    BY <2>1
  <2>3. groupMintStatus' \in {groupMintStatus, [groupMintStatus EXCEPT ![name] = @ \cup {sender}]}
    BY DEF ClaimListing
  <2> QED
    BY <2>1, <2>2, <2>3
<1>12. StorageTyped'
  <2>1. origin' \in [TokenIds -> Origin]
    BY <1>1, <1>2, <1>5 DEF StorageTyped
  <2> QED
    BY <1>1, <1>2, <1>8, <1>9, <1>10, <1>11, <2>1
       DEF StorageTyped, LedgerInv, MembersTypeOK, PausableTypeOK
<1>13. \A id \in TokenIds : (owners[id] # Zero)' <=> (id <= mintedCount)'
  <2>1. \A id \in TokenIds : owners'[id] = IF id \in new THEN sender ELSE owners[id]
    BY <1>2 DEF MintTokens
  <2> QED
    BY <1>1, <1>2, <1>3, <2>1, AccountsAssumption DEF SaleSound
<1>14. IndexFits(Storage)'
  BY <1>1, <1>2, <1>8 DEF SaleSound, IndexFits, Storage
<1>15. OriginsFit(Storage)'
  <2>1. \A id \in TokenIds : (origin'[id] = NotMinted) <=> (id > mintedCount')
    BY <1>1, <1>2, <1>3, <1>5, <1>6 DEF SaleSound, OriginsFit, Storage
  <2>2. \A id \in TokenIds : origin'[id] # NotMinted => groupIndexByName[origin'[id].group] # 0
    BY <1>1, <1>5, <1>6, <1>7 DEF SaleSound, OriginsFit, Storage
  <2> QED
    BY <1>2, <1>4, <2>1, <2>2 DEF OriginsFit, Storage
<1>16. ASSUME NEW m
       PROVE  /\ MintedIn(Storage, m) \in SUBSET TokenIds
              /\ MintedIn(Storage, m) \cap new = {}
              /\ MintedIn(Storage, m)' = IF m = name THEN MintedIn(Storage, m) \cup new
                                                     ELSE MintedIn(Storage, m)
  BY <1>3, <1>5, <1>6 DEF MintedIn, Storage
<1>17. ASSUME NEW m, NEW a
       PROVE  /\ MintedBy(Storage, m, a) \in SUBSET TokenIds
              /\ MintedBy(Storage, m, a) \cap new = {}
              /\ MintedBy(Storage, m, a)'
                   = IF m = name /\ a = sender THEN MintedBy(Storage, m, a) \cup new
                                               ELSE MintedBy(Storage, m, a)
  <2>1. MintedBy(Storage, m, a) = {id \in MintedIn(Storage, m) : origin[id].wallet = a}
    BY DEF MintedBy, Storage
  <2>2. MintedBy(Storage, m, a)' = {id \in MintedIn(Storage, m)' : origin'[id].wallet = a}
    BY DEF MintedBy, Storage
  <2>3. \A id \in MintedIn(Storage, m) : origin'[id] = origin[id]
    BY <1>6, <1>16
  <2> QED
    BY <1>5, <1>6, <1>16, <2>1, <2>2, <2>3
<1>18. CountersMatch(Storage)'
  <2>1. ASSUME NEW m \in GroupNames, NEW a \in Accounts
        PROVE  walletMintCount'[m][a] = Cardinality(MintedBy(Storage, m, a)')
    <3>1. walletMintCount[m][a] = Cardinality(MintedBy(Storage, m, a))
      BY <1>1 DEF SaleSound, CountersMatch, Storage
    <3>2. Cardinality(MintedBy(Storage, m, a) \cup new)
            = Cardinality(MintedBy(Storage, m, a)) + q
      BY <1>2, <1>17, AddedIds
    <3> QED
      BY <1>10, <1>17, <3>1, <3>2
  <2>2. ASSUME NEW i \in DOMAIN mintGroups
        PROVE  mintGroups'[i].mintedInGroup = Cardinality(MintedIn(Storage, mintGroups[i].name)')
    <3>1. mintGroups[i].mintedInGroup = Cardinality(MintedIn(Storage, mintGroups[i].name))
      BY <1>1 DEF SaleSound, CountersMatch, Storage
    <3>2. i = k <=> mintGroups[i].name = name
      BY <1>1, <1>7 DEF SaleSound, IndexFits, Storage
    <3>3. Cardinality(MintedIn(Storage, name) \cup new) = Cardinality(MintedIn(Storage, name)) + q
      BY <1>2, <1>16, AddedIds
    <3> QED
      BY <1>8, <1>16, <3>1, <3>2, <3>3
  <2> QED
    BY <1>8, <2>1, <2>2 DEF CountersMatch, Storage
<1>19. StatusFits(Storage)'
  <2> DEFINE L(m, a) == ListedMints(Storage, m, a, {"mint"})
             claimed == call = "mint" /\ listed
  <2>1. ASSUME NEW m, NEW a
        PROVE  L(m, a)' = IF m = name /\ a = sender /\ claimed THEN L(m, a) \cup new ELSE L(m, a)
    <3>1. L(m, a) = {id \in MintedBy(Storage, m, a) : origin[id].listed /\ origin[id].call = "mint"}
      BY DEF ListedMints, Storage
    <3>2. L(m, a)' = {id \in MintedBy(Storage, m, a)' :
                        origin'[id].listed /\ origin'[id].call = "mint"}
      BY DEF ListedMints, Storage
    <3>3. \A id \in MintedBy(Storage, m, a) : origin'[id] = origin[id]
      BY <1>6, <1>17
    <3>4. \A id \in new : (origin'[id].listed /\ origin'[id].call = "mint") <=> claimed
      <4>1. token.listed = listed /\ token.call = call
        BY DEF token
      <4>2. \A id \in new : origin'[id].listed = listed /\ origin'[id].call = call
        BY <1>6, <4>1
      <4> HIDE DEF listed
      <4> QED
        BY <4>2, Zenon
    <3> HIDE DEF L, claimed, listed
    <3> QED
      BY <1>17, <3>1, <3>2, <3>3, <3>4
  <2>2. \A m \in GroupNames : groupMintStatus[m] \subseteq groupMintStatus'[m]
    BY <1>1 DEF ClaimListing, StorageTyped
  <2>3. claimed => /\ sender \notin groupMintStatus[name]
                   /\ sender \in groupMintStatus'[name]
                   /\ new = {mintedCount + 1}
    BY <1>1, <1>2 DEF ClaimListing, StorageTyped
  <2>4. \A m \in GroupNames, a \in Accounts :
           AtMostOne(L(m, a)) /\ (L(m, a) # {} => a \in groupMintStatus[m])
    BY <1>1 DEF SaleSound, StatusFits, Storage
  <2> HIDE DEF L, claimed
  <2>5. \A m \in GroupNames, a \in Accounts :
           AtMostOne(L(m, a)') /\ (L(m, a)' # {} => a \in groupMintStatus'[m])
    BY <2>1, <2>2, <2>3, <2>4 DEF AtMostOne
  <2> QED
    BY <2>5 DEF StatusFits, Storage, L
<1>20. SaleSound'
  BY <1>13, <1>14, <1>15, <1>18, <1>19 DEF SaleSound
<1>21. Sound(Storage)'
  BY <1>9, <1>12, <1>20, SoundIffPrime
<1> QED
  BY <1>2, <1>4, <1>5, <1>6, <1>21 DEF NewIds
-----------------------------------------------------------------------------
\* Popping the innermost call out.
LEMMA FrontFrames ==
  ASSUME frames \in Seq(Frame), frames # <<>>, frames' = Front(frames)
  PROVE  /\ frames' \in Seq(Frame)
         /\ Len(frames) \in Nat \ {0}
         /\ DOMAIN frames = 1 .. Len(frames)
         /\ DOMAIN frames' = 1 .. Len(frames) - 1
         /\ \A i \in 1 .. Len(frames) - 1 : frames'[i] = frames[i]
         /\ Top = frames[Len(frames)]
         /\ Top \in Frame
<1> DEFINE n == Len(frames)
<1>1. n \in Nat \ {0} /\ DOMAIN frames = 1 .. n /\ \A i \in 1 .. n : frames[i] \in Frame
  BY ElementOfSeq, LenProperties, EmptySeq
<1>2. frames' = SubSeq(frames, 1, n - 1)
  BY DEF Front
<1>3. /\ frames' \in Seq(Frame)
      /\ Len(frames') = n - 1
      /\ \A i \in 1 .. n - 1 : frames'[i] = frames[i]
  BY <1>1, <1>2, SubSeqProperties
<1> QED
  BY <1>1, <1>3, LenProperties DEF Top, Last

\* A token that was minted stays recorded while tokens are only added.
LEMMA DeliveredKept ==
  ASSUME NEW f \in Frame, Delivered(f, Storage), mintedCount \in Nat, mintedCount' \in Nat,
         mintedCount <= mintedCount',
         \A id \in 1 .. mintedCount : origin'[id] = origin[id]
  PROVE  Delivered(f, Storage')
<1>1. f.saved.mintedCount \in Nat
  BY DEF Frame, StorageType
<1>2. Storage'.mintedCount = mintedCount' /\ Storage'.origin = origin'
  BY DEF Storage
<1> QED
  BY <1>1, <1>2 DEF Delivered, Storage

\* A call that leaves the stack of calls out as it is.
LEMMA SameFrames ==
  ASSUME Inv, UNCHANGED frames, Sound(Storage)', now' \in Nat, mintedCount <= mintedCount',
         \A id \in 1 .. mintedCount : origin'[id] = origin[id]
  PROVE  Inv'
<1>1. /\ frames \in Seq(Frame)
      /\ DOMAIN frames = 1 .. Len(frames)
      /\ \A i \in DOMAIN frames : frames[i] \in Frame
  BY ElementOfSeq, LenProperties DEF Inv, TypeOK
<1>2. (Storage \in StorageType)'
  BY DEF Sound
<1>3. mintedCount \in Nat /\ mintedCount' \in Nat
  BY SoundIff, SoundIffPrime DEF Inv, StorageTyped
<1>4. FramesSound'
  BY DEF Inv, FramesSound
<1>5. MintDelivers'
  BY <1>1, <1>3, DeliveredKept DEF Inv, MintDelivers
<1> QED
  BY <1>1, <1>2, <1>4, <1>5 DEF Inv, TypeOK

LEMMA AbortStep ==
  ASSUME Inv, Abort
  PROVE  Inv'
<1> DEFINE n == Len(frames)
           s == Top.saved
<1>1. /\ frames' \in Seq(Frame)
      /\ n \in Nat \ {0}
      /\ DOMAIN frames = 1 .. n
      /\ DOMAIN frames' = 1 .. n - 1
      /\ \A i \in 1 .. n - 1 : frames'[i] = frames[i]
      /\ Top = frames[n]
  BY FrontFrames DEF Inv, TypeOK, Abort, Idle
<1>2. Sound(s) /\ s \in StorageType
  BY <1>1 DEF Inv, FramesSound, Sound
<1>3. Storage' = s
  BY <1>2, RestoreStorage DEF Abort
<1>4. Sound(Storage)'
  BY <1>2, <1>3
<1>5. FramesSound'
  BY <1>1 DEF Inv, FramesSound
<1>6. MintDelivers'
  BY <1>1, <1>3 DEF Inv, FramesSound, MintDelivers
<1> QED
  BY <1>1, <1>2, <1>3, <1>4, <1>5, <1>6 DEF Inv, TypeOK, Abort

LEMMA FinishMintStep ==
  ASSUME Inv, FinishMint
  PROVE  Inv'
<1> DEFINE n == Len(frames)
<1>1. /\ frames' \in Seq(Frame)
      /\ n \in Nat \ {0}
      /\ DOMAIN frames = 1 .. n
      /\ DOMAIN frames' = 1 .. n - 1
      /\ \A i \in 1 .. n - 1 : frames'[i] = frames[i]
      /\ Top \in Frame
  BY FrontFrames DEF Inv, TypeOK, FinishMint, Idle
<1>2. StorageTyped
  BY SoundIff DEF Inv
<1>3. events' \in SUBSET Event
  BY <1>1, <1>2 DEF FinishMint, StorageTyped, MintedEvent, Event, Frame
<1>4. Sound(Storage)'
  BY <1>2, <1>3, OtherStep
     DEF Inv, FinishMint, StorageTyped, MembersTypeOK, PausableTypeOK
<1>5. FramesSound'
  BY <1>1 DEF Inv, FramesSound
<1>6. MintDelivers'
  <2>1. ASSUME NEW i \in 1 .. n - 1 PROVE Delivered(frames[i], Storage')
    <3>1. frames[i] \in Frame /\ Delivered(frames[i], Storage)
      BY <1>1, ElementOfSeq DEF Inv, TypeOK, MintDelivers
    <3>2. mintedCount' = mintedCount /\ origin' = origin
      BY DEF FinishMint, saleVars
    <3> QED
      BY <1>2, <3>1, <3>2, DeliveredKept DEF StorageTyped
  <2> QED
    BY <1>1, <2>1 DEF MintDelivers
<1>7. (Storage \in StorageType)'
  BY <1>4 DEF Sound
<1> QED
  BY <1>1, <1>4, <1>5, <1>6, <1>7 DEF Inv, TypeOK, FinishMint

\* What a creator is paid is an amount, whatever its share.
LEMMA ShareType == ASSUME NEW p \in Nat, NEW q \in Nat PROVE ShareOf(p, q) \in Nat
<1>1. p * q \in Nat
  OBVIOUS
<1> QED
  BY <1>1 DEF ShareOf, SHARE_BASIS

LEMMA FrameFields ==
  ASSUME NEW f \in Frame
  PROVE  /\ f.payment \in Nat /\ f.payees \in Nat /\ f.sent \in Nat
         /\ f.minter \in Accounts /\ f.group \in GroupNames
BY DEF Frame

LEMMA PayCreatorStep ==
  ASSUME Inv, PayCreator
  PROVE  Inv'
<1> DEFINE n == Len(frames)
           creator == creators[Top.payees + 1]
           amount == ShareOf(Top.payment, creator.share)
           paid == [frames[n] EXCEPT !.payees = @ + 1, !.sent = @ + amount,
                                     !.callee = creator.wallet]
<1>1. /\ frames \in Seq(Frame)
      /\ n \in Nat \ {0}
      /\ DOMAIN frames = 1 .. n
      /\ Top = frames[n]
      /\ \A i \in 1 .. n : frames[i] \in Frame
  BY ElementOfSeq, LenProperties, EmptySeq DEF Inv, TypeOK, PayCreator, Idle, Top, Last
<1>2. StorageTyped
  BY SoundIff DEF Inv
<1>3. creator \in Creator
  <2>1. Top.payees \in Nat /\ Top.payees < Len(creators) /\ creators \in Seq(Creator)
    <3>1. Top.payees < Len(creators)
      BY DEF PayCreator
    <3> QED
      BY <1>1, <1>2, <3>1, FrameFields DEF StorageTyped
  <2>2. Top.payees + 1 \in 1 .. Len(creators)
    BY <2>1, LenProperties
  <2> QED
    BY <2>1, <2>2, ElementOfSeq
<1> HIDE DEF creator
<1>4. amount \in Nat /\ balance - amount \in Nat /\ balance' = balance - amount
  <2>1. Top.payment \in Nat /\ creator.share \in Nat
    BY <1>1, <1>3, FrameFields DEF Creator
  <2>2. amount \in Nat
    BY <2>1, ShareType
  <2>3. amount <= balance /\ balance' = balance - amount
    BY DEF PayCreator, creator
  <2>4. balance \in Nat
    BY <1>2 DEF StorageTyped
  <2> HIDE DEF amount
  <2> QED
    BY <2>2, <2>3, <2>4
<1>5. frames' = [frames EXCEPT ![n] = paid]
  BY DEF PayCreator, creator
<1> HIDE DEF amount
<1>6. /\ paid \in Frame
      /\ paid.minter = frames[n].minter
      /\ paid.group = frames[n].group
      /\ paid.saved = frames[n].saved
  <2>1. frames[n] \in Frame /\ creator.wallet \in Accounts
    BY <1>1, <1>3 DEF Creator
  <2>2. /\ frames[n].payees + 1 \in Nat /\ frames[n].sent + amount \in Nat
        /\ creator.wallet \in Addresses
    <3>1. frames[n].payees \in Nat /\ frames[n].sent \in Nat
      BY <2>1 DEF Frame
    <3>2. creator.wallet \in Addresses
      BY <2>1 DEF Addresses
    <3> HIDE DEF n, paid
    <3> QED
      BY <1>4, <3>1, <3>2
  <2> QED
    BY <2>1, <2>2 DEF Frame
<1> HIDE DEF paid
<1>7. /\ frames' \in Seq(Frame)
      /\ DOMAIN frames' = 1 .. n
      /\ \A i \in 1 .. n : /\ frames'[i] \in Frame
                            /\ frames'[i].minter = frames[i].minter
                            /\ frames'[i].group = frames[i].group
                            /\ frames'[i].saved = frames[i].saved
  <2>1. frames' \in Seq(Frame)
    BY <1>1, <1>5, <1>6, ExceptSeq
  <2> QED
    BY <1>1, <1>5, <1>6, <2>1
<1>8. Sound(Storage)'
  BY <1>2, <1>4, OtherStep
     DEF Inv, PayCreator, StorageTyped, MembersTypeOK, PausableTypeOK
<1>9. FramesSound'
  <2>1. \A i, j \in 1 .. n : i < j => Delivered(frames'[i], frames'[j].saved)
    BY <1>1, <1>7 DEF Inv, FramesSound, Delivered
  <2> QED
    BY <1>1, <1>7, <2>1 DEF Inv, FramesSound
<1>10. MintDelivers'
  <2>1. ASSUME NEW i \in 1 .. n PROVE Delivered(frames'[i], Storage')
    <3>1. Delivered(frames'[i], Storage)
      BY <1>1, <1>7 DEF Inv, MintDelivers, Delivered
    <3>2. mintedCount' = mintedCount /\ origin' = origin
      BY DEF PayCreator, saleVars
    <3> QED
      BY <1>2, <1>7, <3>1, <3>2, DeliveredKept DEF StorageTyped
  <2> QED
    BY <1>7, <2>1 DEF MintDelivers
<1>11. (Storage \in StorageType)'
  BY <1>8 DEF Sound
<1> QED
  BY <1>7, <1>8, <1>9, <1>10, <1>11 DEF Inv, TypeOK, PayCreator

LEMMA MintStep ==
  ASSUME Inv, NEW sender \in Accounts, NEW name \in GroupNames, NEW payment \in Payments,
         Mint(sender, name, payment)
  PROVE  Inv'
<1> DEFINE n == Len(frames)
           frame == [minter |-> sender, group |-> name, payment |-> payment, payees |-> 0,
                     sent |-> 0, callee |-> sender, saved |-> Storage]
<1>1. StorageTyped
  BY SoundIff DEF Inv
<1>2. /\ GroupExists(name) /\ ClaimListing(sender, name)
      /\ Issue(sender, name, 1, "mint")
      /\ UNCHANGED <<members, paused, creators, now, events>>
      /\ balance' = balance + payment
      /\ frames' = Append(frames, frame)
  BY DEF Mint
<1>3. payment \in Nat /\ balance' \in Nat /\ events' \in SUBSET Event
  BY <1>1, <1>2, SericaAssumption DEF StorageTyped
<1>4. /\ Sound(Storage)'
      /\ mintedCount' = mintedCount + 1
      /\ mintedCount' <= LastTokenId
      /\ \A id \in 1 .. mintedCount : origin'[id] = origin[id]
      /\ \A id \in NewIds(1) : origin'[id].wallet = sender /\ origin'[id].group = name
  BY <1>2, <1>3, IssueStep DEF Inv
<1>5. frame \in Frame
  BY <1>3 DEF Inv, TypeOK, Frame, Addresses
<1>6. /\ frame.saved = Storage /\ frame.minter = sender /\ frame.group = name
  OBVIOUS
<1> HIDE DEF frame
<1>7. /\ n \in Nat
      /\ DOMAIN frames = 1 .. n
      /\ \A i \in 1 .. n : frames[i] \in Frame
      /\ frames' \in Seq(Frame)
      /\ DOMAIN frames' = 1 .. n + 1
      /\ \A i \in 1 .. n : frames'[i] = frames[i]
      /\ frames'[n + 1] = frame
  <2>1. frames \in Seq(Frame)
    BY DEF Inv, TypeOK
  <2> QED
    BY <1>2, <1>5, <2>1, AppendProperties, ElementOfSeq, LenProperties
<1>8. FramesSound'
  <2>1. \A i \in 1 .. n + 1 : Sound(frames'[i].saved)
    BY <1>6, <1>7 DEF Inv, FramesSound
  <2>2. \A i, j \in 1 .. n + 1 : i < j => Delivered(frames'[i], frames'[j].saved)
    <3> SUFFICES ASSUME NEW i \in 1 .. n + 1, NEW j \in 1 .. n + 1, i < j
                 PROVE  Delivered(frames'[i], frames'[j].saved)
      OBVIOUS
    <3>1. CASE j = n + 1
      BY <1>6, <1>7, <3>1 DEF Inv, MintDelivers
    <3>2. CASE j # n + 1
      BY <1>7, <3>2 DEF Inv, FramesSound
    <3> QED
      BY <3>1, <3>2
  <2> QED
    BY <1>7, <2>1, <2>2 DEF FramesSound
<1>9. MintDelivers'
  <2>1. mintedCount \in Nat
    BY <1>1 DEF StorageTyped
  <2>2. ASSUME NEW i \in 1 .. n PROVE Delivered(frames'[i], Storage')
    <3>1. Delivered(frames[i], Storage)
      BY <1>7 DEF Inv, MintDelivers
    <3> QED
      BY <1>4, <1>7, <2>1, <3>1, DeliveredKept
  <2>3. Delivered(frame, Storage')
    <3>1. frame.saved.mintedCount = mintedCount
      BY <1>6 DEF Storage
    <3>2. Storage'.mintedCount = mintedCount' /\ Storage'.origin = origin'
      BY DEF Storage
    <3>3. mintedCount + 1 \in NewIds(1)
      BY <2>1 DEF NewIds
    <3>4. /\ mintedCount + 1 <= mintedCount'
          /\ origin'[mintedCount + 1].wallet = sender
          /\ origin'[mintedCount + 1].group = name
      BY <1>4, <2>1, <3>3
    <3> QED
      BY <1>6, <3>1, <3>2, <3>4 DEF Delivered
  <2> QED
    BY <1>7, <2>2, <2>3 DEF MintDelivers
<1>10. (Storage \in StorageType)'
  BY <1>4 DEF Sound
<1> QED
  BY <1>2, <1>4, <1>7, <1>8, <1>9, <1>10 DEF Inv, TypeOK

LEMMA BatchMintStep ==
  ASSUME Inv, NEW sender \in Accounts, NEW name \in GroupNames,
         NEW quantity \in 1 .. MAX_BATCH, NEW payment \in Payments,
         BatchMint(sender, name, quantity, payment)
  PROVE  Inv'
<1>1. StorageTyped
  BY SoundIff DEF Inv
<1>2. quantity \in Nat \ {0} /\ payment \in Nat /\ mintedCount \in Nat
  BY <1>1, SericaAssumption DEF MAX_BATCH, StorageTyped
<1>3. /\ GroupExists(name)
      /\ Issue(sender, name, quantity, "batchMint")
      /\ UNCHANGED <<groupMintStatus, members, paused, creators, now, frames>>
      /\ balance' = balance + payment
      /\ events' = events \cup {MintedEvent(sender, id, name) : id \in NewIds(quantity)}
  BY DEF BatchMint
<1>4. balance' \in Nat /\ events' \in SUBSET Event
  <2>1. \A id \in NewIds(quantity) : MintedEvent(sender, id, name) \in Event
    BY <1>2 DEF NewIds, MintedEvent, Event
  <2> QED
    BY <1>1, <1>2, <1>3, <2>1 DEF StorageTyped
<1>5. /\ Sound(Storage)'
      /\ mintedCount' = mintedCount + quantity
      /\ \A id \in 1 .. mintedCount : origin'[id] = origin[id]
  BY <1>2, <1>3, <1>4, IssueStep DEF Inv
<1>6. mintedCount <= mintedCount'
  BY <1>2, <1>5
<1> QED
  BY <1>3, <1>5, <1>6, SameFrames DEF Inv, TypeOK

\* setCreators stores what it checked: nobody is the zero address.
LEMMA SplitType ==
  ASSUME NEW split \in CreatorSplits, ValidSplit(split)
  PROVE  split \in Seq(Creator)
<1>1. split \in Seq([wallet : Addresses, share : Nat])
  BY SericaAssumption
<1>2. /\ Len(split) \in Nat
      /\ DOMAIN split = 1 .. Len(split)
      /\ split = [i \in 1 .. Len(split) |-> split[i]]
  BY <1>1, LenProperties
<1>3. \A i \in 1 .. Len(split) : split[i] \in Creator
  <2> SUFFICES ASSUME NEW i \in 1 .. Len(split) PROVE split[i] \in Creator
    OBVIOUS
  <2>1. split[i] \in [wallet : Addresses, share : Nat]
    BY <1>1, <1>2, ElementOfSeq
  <2>2. split[i].wallet # Zero
    BY <1>2 DEF ValidSplit
  <2> QED
    BY <2>1, <2>2 DEF Creator, Addresses
<1> QED
  BY <1>2, <1>3, SeqDef

LEMMA AdminCallStep ==
  ASSUME Inv, NEW sender \in Accounts, AdminCall(sender)
  PROVE  Inv'
<1>1. StorageTyped /\ Sound(Storage) /\ now \in Nat
  BY SoundIff DEF Inv, TypeOK
<1>2. mintedCount \in Nat
  BY <1>1 DEF StorageTyped
<1>3. ASSUME NEW name \in GroupNames, NEW terms \in GroupTerms,
             AddMintGroup(sender, name, terms)
      PROVE  Inv'
  <2>1. Sound(Storage)'
    BY <1>1, <1>3, AddMintGroupStep
  <2>2. UNCHANGED <<frames, now, mintedCount, origin>>
    BY <1>3 DEF AddMintGroup
  <2> QED
    BY <1>1, <1>2, <2>1, <2>2, SameFrames
<1>4. ASSUME NEW name \in GroupNames, NEW terms \in GroupTerms,
             UpdateMintGroup(sender, name, terms)
      PROVE  Inv'
  <2>1. Sound(Storage)'
    BY <1>1, <1>4, UpdateMintGroupStep
  <2>2. UNCHANGED <<frames, now, mintedCount, origin>>
    BY <1>4 DEF UpdateMintGroup
  <2> QED
    BY <1>1, <1>2, <2>1, <2>2, SameFrames
<1>5. ASSUME NEW split \in CreatorSplits, SetCreators(sender, split)
      PROVE  Inv'
  <2>1. creators' \in Seq(Creator)
    BY <1>5, SplitType DEF SetCreators
  <2>2. UNCHANGED <<ledgerVars, saleVars, members, paused, balance, events, frames, now>>
    BY <1>5 DEF SetCreators
  <2>3. Sound(Storage)'
    BY <1>1, <2>1, <2>2, OtherStep DEF StorageTyped, MembersTypeOK, PausableTypeOK
  <2> QED
    BY <1>1, <1>2, <2>2, <2>3, SameFrames DEF saleVars
<1>6. ASSUME Pause(sender) \/ Unpause(sender)
      PROVE  Inv'
  <2>1. PausableTypeOK'
    BY <1>6 DEF Pause, Unpause, DoPause, DoUnpause, PausableTypeOK
  <2>2. UNCHANGED <<ledgerVars, saleVars, members, creators, balance, events, frames, now>>
    BY <1>6 DEF Pause, Unpause
  <2>3. Sound(Storage)'
    BY <1>1, <2>1, <2>2, OtherStep DEF StorageTyped, MembersTypeOK
  <2> QED
    BY <1>1, <1>2, <2>2, <2>3, SameFrames DEF saleVars
<1> QED
  BY <1>3, <1>4, <1>5, <1>6 DEF AdminCall

LEMMA InheritedCallStep ==
  ASSUME Inv, NEW sender \in Accounts, InheritedCall(sender)
  PROVE  Inv'
<1>1. StorageTyped /\ Sound(Storage) /\ now \in Nat
  BY SoundIff DEF Inv, TypeOK
<1>2. mintedCount \in Nat
  BY <1>1 DEF StorageTyped
<1>3. UNCHANGED <<paused, saleVars, creators, balance, now, frames, events>>
  BY DEF InheritedCall
<1>4. CASE LedgerCall(sender) /\ UNCHANGED members
  <2>1. Sound(Storage)'
    BY <1>1, <1>3, <1>4, LedgerStep
  <2> QED
    BY <1>1, <1>2, <1>3, <2>1, SameFrames DEF saleVars
<1>5. CASE RoleCall(sender) /\ UNCHANGED ledgerVars
  <2>1. MembersTypeOK'
    BY <1>1, <1>5, RoleCallType DEF StorageTyped
  <2>2. Sound(Storage)'
    BY <1>1, <1>3, <1>5, <2>1, OtherStep DEF StorageTyped, PausableTypeOK
  <2> QED
    BY <1>1, <1>2, <1>3, <2>2, SameFrames DEF saleVars
<1> QED
  BY <1>4, <1>5 DEF InheritedCall

LEMMA StutterStep ==
  ASSUME Inv, Tick \/ UNCHANGED vars
  PROVE  Inv'
<1>1. StorageTyped /\ Sound(Storage) /\ now \in Nat
  BY SoundIff DEF Inv, TypeOK
<1>2. UNCHANGED <<ledgerVars, saleVars, members, paused, creators, balance, events, frames>>
  BY DEF Tick, vars
<1>3. now' \in Nat
  BY <1>1 DEF Tick, vars
<1>4. Sound(Storage)'
  BY <1>1, <1>2, OtherStep DEF StorageTyped, MembersTypeOK, PausableTypeOK
<1>5. mintedCount \in Nat
  BY <1>1 DEF StorageTyped
<1> QED
  BY <1>2, <1>3, <1>4, <1>5, SameFrames DEF saleVars
-----------------------------------------------------------------------------
LEMMA InitInv == Init => Inv
<1> SUFFICES ASSUME Init PROVE Inv
  OBVIOUS
<1>1. LedgerInv
  BY LedgerInit DEF Init
<1>2. StorageTyped
  <2>1. /\ MembersTypeOK /\ PausableTypeOK /\ mintedCount \in Nat /\ balance \in Nat
        /\ groupIndexByName \in [GroupNames -> Nat]
        /\ groupMintStatus \in [GroupNames -> SUBSET Accounts]
        /\ walletMintCount \in [GroupNames -> [Accounts -> Nat]]
        /\ events \in SUBSET Event
    BY SericaAssumption DEF Init, MembersTypeOK, PausableTypeOK
  <2>2. mintGroups \in Seq(MintGroup) /\ creators \in Seq(Creator)
    BY EmptySeq DEF Init
  <2>3. origin \in [TokenIds -> Origin]
    BY DEF Init, Origin
  <2> QED
    BY <1>1, <2>1, <2>2, <2>3 DEF StorageTyped, LedgerInv
<1>3. SaleSound
  <2>1. /\ mintedCount = 0 /\ mintGroups = <<>>
        /\ groupIndexByName = [name \in GroupNames |-> 0]
        /\ walletMintCount = [name \in GroupNames |-> [a \in Accounts |-> 0]]
        /\ origin = [id \in TokenIds |-> NotMinted]
        /\ owners = [id \in TokenIds |-> Zero]
    BY DEF Init, ERC721Init
  <2>2. \A id \in TokenIds : id > mintedCount
    BY <2>1, SericaAssumption
  <2>3. \A m : MintedIn(Storage, m) = {}
    BY <2>1 DEF MintedIn, Storage
  <2>4. \A m, a : MintedBy(Storage, m, a) = {}
    BY <2>3 DEF MintedBy
  <2>5. \A m, a : ListedMints(Storage, m, a, {"mint"}) = {}
    BY <2>4 DEF ListedMints
  <2>6. \A id \in TokenIds : (owners[id] # Zero) <=> (id <= mintedCount)
    BY <2>1, <2>2, SericaAssumption
  <2>7. IndexFits(Storage)
    BY <2>1 DEF IndexFits, Storage
  <2>8. OriginsFit(Storage)
    BY <2>1, <2>2, SericaAssumption DEF OriginsFit, Storage
  <2>9. CountersMatch(Storage)
    <3>1. \A m \in GroupNames, a \in Accounts : walletMintCount[m][a] = 0
      BY <2>1
    <3>2. DOMAIN mintGroups = {}
      BY <2>1
    <3>3. \A m, a : Cardinality(MintedBy(Storage, m, a)) = 0
      BY <2>4, FS_EmptySet
    <3> QED
      BY <3>1, <3>2, <3>3 DEF CountersMatch, Storage
  <2>10. StatusFits(Storage)
    BY <2>5 DEF StatusFits, AtMostOne
  <2> QED
    BY <2>6, <2>7, <2>8, <2>9, <2>10 DEF SaleSound
<1>4. Sound(Storage)
  BY <1>1, <1>2, <1>3, SoundIff
<1>5. frames = <<>> /\ now = 0
  BY DEF Init
<1>6. frames \in Seq(Frame) /\ DOMAIN frames = {}
  BY <1>5, EmptySeq
<1> QED
  BY <1>4, <1>5, <1>6 DEF Inv, TypeOK, Sound, FramesSound, MintDelivers

LEMMA NextInv == Inv /\ [Next]_vars => Inv'
<1> SUFFICES ASSUME Inv, [Next]_vars PROVE Inv'
  OBVIOUS
<1>1. ASSUME NEW sender \in Accounts, BuyerCall(sender) PROVE Inv'
  BY <1>1, MintStep, BatchMintStep DEF BuyerCall
<1>2. ASSUME NEW sender \in Accounts, AdminCall(sender) \/ InheritedCall(sender) PROVE Inv'
  BY <1>2, AdminCallStep, InheritedCallStep
<1>3. CASE PayCreator
  BY <1>3, PayCreatorStep
<1>4. CASE FinishMint
  BY <1>4, FinishMintStep
<1>5. CASE Abort
  BY <1>5, AbortStep
<1>6. CASE Tick \/ UNCHANGED vars
  BY <1>6, StutterStep
<1> QED
  BY <1>1, <1>2, <1>3, <1>4, <1>5, <1>6 DEF Next

(***************************************************************************)
(* The inductive invariant holds of the collection.                        *)
(***************************************************************************)
THEOREM Invariance == Spec => []Inv
BY InitInv, NextInv, PTL DEF Spec

(***************************************************************************)
(* Type correctness.                                                       *)
(***************************************************************************)
THEOREM TypeCorrectness == Spec => []TypeOK
<1>1. Inv => TypeOK
  BY DEF Inv
<1> QED
  BY <1>1, Invariance, PTL

(***************************************************************************)
(* The tokens that exist are 1 .. mintedCount.                             *)
(***************************************************************************)
THEOREM SequentialTokens == Spec => []TokensAreSequential
<1>1. Inv => TokensAreSequential
  BY DEF Inv, Sound, TokensAreSequential
<1> QED
  BY <1>1, Invariance, PTL

(***************************************************************************)
(* The counters that limit wallets and groups count their tokens exactly.  *)
(***************************************************************************)
THEOREM CountersAlwaysMatch == Spec => []CountersMatchMints
<1>1. Inv => CountersMatchMints
  BY DEF Inv, Sound, CountersMatchMints
<1> QED
  BY <1>1, Invariance, PTL

(***************************************************************************)
(* Every group is found under its name, and under no other.                *)
(***************************************************************************)
THEOREM IndexAlwaysFits == Spec => []GroupIndexConsistent
<1>1. Inv => GroupIndexConsistent
  BY DEF Inv, Sound, GroupIndexConsistent
<1> QED
  BY <1>1, Invariance, PTL

(***************************************************************************)
(* A wallet never gets a second token of a whitelisted group by mint.      *)
(***************************************************************************)
THEOREM ListedMintsOnce == Spec => []OneListedMint
<1>1. Inv => OneListedMint
  BY DEF Inv, Sound, StatusFits, OneListedMint
<1> QED
  BY <1>1, Invariance, PTL

(***************************************************************************)
(* What a mint issued is there, for the wallet and the group of the call,  *)
(* until the call ends, however many mints came in between.                *)
(***************************************************************************)
THEOREM MintsDeliver == Spec => []MintDelivers
<1>1. Inv => MintDelivers
  BY DEF Inv
<1> QED
  BY <1>1, Invariance, PTL
-----------------------------------------------------------------------------
\* What MintsRespectLimits says of one token.
WithinLimits(id) ==
    LET name == origin'[id].group
        group == mintGroups'[groupIndexByName[name]]
    IN  /\ ~paused /\ OnSale(group)
        /\ IsWhitelisted(group, origin'[id].wallet)
        /\ walletMintCount'[name][origin'[id].wallet] <= group.terms.mintPerWallet
        /\ group.terms.maxTokens # 0 => group.mintedInGroup <= group.terms.maxTokens

\* The group after a mint of q: its terms are the same, its count is q more.
LEMMA IssuedGroup ==
  ASSUME Inv, NEW sender \in Accounts, NEW name \in GroupNames, GroupExists(name),
         NEW q \in Nat, NEW call, Issue(sender, name, q, call)
  PROVE  LET group == mintGroups'[groupIndexByName[name]]
         IN  /\ group.terms = GroupOf(name).terms
             /\ group.isActive = GroupOf(name).isActive
             /\ group.mintedInGroup = GroupOf(name).mintedInGroup + q
             /\ GroupOf(name) \in MintGroup
             /\ walletMintCount'[name][sender] = walletMintCount[name][sender] + q
<1> DEFINE k == groupIndexByName[name]
           g == [mintGroups[k] EXCEPT !.mintedInGroup = @ + q]
<1>1. StorageTyped /\ SaleSound
  BY SoundIff DEF Inv
<1>2. k \in DOMAIN mintGroups /\ mintGroups \in Seq(MintGroup)
  BY <1>1 DEF GroupExists, StorageTyped, SaleSound, IndexFits, Storage
<1>3. mintGroups[k] \in MintGroup
  BY <1>2, ElementOfSeq
<1>4. mintGroups' = [mintGroups EXCEPT ![k] = g]
  BY DEF Issue, CountMint
<1>5. g.terms = mintGroups[k].terms /\ g.isActive = mintGroups[k].isActive
      /\ g.mintedInGroup = mintGroups[k].mintedInGroup + q
  BY <1>3 DEF MintGroup
<1> HIDE DEF g
<1>6. mintGroups'[k] = g
  BY <1>2, <1>4
<1>7. walletMintCount' = [walletMintCount EXCEPT ![name][sender] = @ + q]
  BY DEF Issue, CountMint
<1>8. walletMintCount'[name][sender] = walletMintCount[name][sender] + q
  BY <1>1, <1>7 DEF StorageTyped
<1> QED
  BY <1>3, <1>5, <1>6, <1>8 DEF GroupOf

\* The tokens a mint adds are its own.
LEMMA IssuedToken ==
  ASSUME NEW sender \in Accounts, NEW name \in GroupNames, NEW q \in Nat, NEW call,
         Issue(sender, name, q, call), NEW id \in TokenIds, ~Exists(id), owners'[id] # Zero
  PROVE  origin'[id].wallet = sender /\ origin'[id].group = name
<1>1. id \in NewIds(q)
  BY DEF Issue, MintTokens, Exists
<1> QED
  BY <1>1 DEF Issue

(***************************************************************************)
(* Every token is minted in an open sale, to a wallet that may mint there, *)
(* within the limits of the wallet and of the group.                       *)
(***************************************************************************)
THEOREM MintsStayWithinLimits == Spec => MintsRespectLimits
<1>1. ASSUME Inv, Next, NEW id \in TokenIds, ~Exists(id), owners'[id] # Zero
      PROVE  WithinLimits(id)
  <2>1. StorageTyped /\ SaleSound
    BY <1>1, SoundIff DEF Inv
  <2>2. ASSUME NEW sender \in Accounts, NEW name \in GroupNames, NEW payment \in Payments,
               Mint(sender, name, payment)
        PROVE  WithinLimits(id)
    <3>1. GroupExists(name) /\ Issue(sender, name, 1, "mint") /\ ~paused
      BY <2>2 DEF Mint, WhenNotPaused
    <3>2. /\ OnSale(GroupOf(name))
          /\ IsWhitelisted(GroupOf(name), sender)
          /\ walletMintCount[name][sender] + 1 <= GroupOf(name).terms.mintPerWallet
      BY <2>2 DEF Mint, WalletHasRoom
    <3>3. GroupOf(name).terms.maxTokens # 0 =>
            GroupOf(name).mintedInGroup < GroupOf(name).terms.maxTokens
      BY <2>2 DEF Mint
    <3>4. origin'[id].wallet = sender /\ origin'[id].group = name
      BY <1>1, <3>1, IssuedToken
    <3>5. GroupOf(name).mintedInGroup \in Nat /\ GroupOf(name).terms.maxTokens \in Nat
      BY <1>1, <3>1, IssuedGroup DEF MintGroup, Terms
    <3> QED
      BY <1>1, <3>1, <3>2, <3>3, <3>4, <3>5, IssuedGroup DEF WithinLimits, OnSale, IsWhitelisted
  <2>3. ASSUME NEW sender \in Accounts, NEW name \in GroupNames, NEW payment \in Payments,
               NEW q \in 1 .. MAX_BATCH, BatchMint(sender, name, q, payment)
        PROVE  WithinLimits(id)
    <3>1. GroupExists(name) /\ Issue(sender, name, q, "batchMint") /\ ~paused /\ q \in Nat
      BY <2>3 DEF BatchMint, WhenNotPaused, MAX_BATCH
    <3>2. /\ OnSale(GroupOf(name))
          /\ IsWhitelisted(GroupOf(name), sender)
          /\ walletMintCount[name][sender] + q <= GroupOf(name).terms.mintPerWallet
          /\ GroupOf(name).mintedInGroup + q <= GroupOf(name).terms.maxTokens
      BY <2>3 DEF BatchMint, WalletHasRoom
    <3>3. origin'[id].wallet = sender /\ origin'[id].group = name
      BY <1>1, <3>1, IssuedToken
    <3> QED
      BY <1>1, <3>1, <3>2, <3>3, IssuedGroup DEF WithinLimits, OnSale, IsWhitelisted
  <2>4. ASSUME NEW sender \in Accounts, InheritedCall(sender)
        PROVE  FALSE
    <3>1. CASE LedgerCall(sender)
      BY <1>1, <2>1, <3>1, LedgerCallKeepsTokens DEF StorageTyped, Exists
    <3>2. CASE UNCHANGED ledgerVars
      BY <1>1, <3>2 DEF ledgerVars, Exists
    <3> QED
      BY <2>4, <3>1, <3>2 DEF InheritedCall
  <2>5. ASSUME Abort
        PROVE  FALSE
    <3> DEFINE n == Len(frames)
               s == Top.saved
    <3>1. n \in DOMAIN frames /\ Top = frames[n] /\ Top \in Frame
      BY <1>1, <2>5, FrontFrames DEF Inv, TypeOK, Abort, Idle
    <3>2. Delivered(Top, Storage) /\ Sound(s) /\ s \in StorageType
      BY <1>1, <3>1 DEF Inv, FramesSound, MintDelivers, Sound
    <3>3. s.mintedCount + 1 <= mintedCount /\ s.mintedCount \in Nat
      BY <3>2 DEF Delivered, Storage, StorageType
    <3>4. owners' = s.owners
      BY <2>5 DEF Abort, Restore
    <3>5. id <= s.mintedCount
      BY <1>1, <3>2, <3>4 DEF Sound, SequentialIds
    <3>6. id <= mintedCount /\ mintedCount \in Nat /\ id \in Int
      BY <2>1, <3>3, <3>5, SericaAssumption DEF StorageTyped
    <3> QED
      BY <1>1, <2>1, <3>6 DEF SaleSound, Exists
  <2>6. ASSUME UNCHANGED owners
        PROVE  FALSE
    BY <1>1, <2>6 DEF Exists
  <2>7. PayCreator \/ FinishMint \/ Tick => UNCHANGED owners
    BY DEF PayCreator, FinishMint, Tick, ledgerVars
  <2>8. ASSUME NEW sender \in Accounts, AdminCall(sender)
        PROVE  UNCHANGED owners
    BY <2>8 DEF AdminCall, AddMintGroup, UpdateMintGroup, SetCreators, Pause, Unpause, ledgerVars
  <2> QED
    BY <1>1, <2>2, <2>3, <2>4, <2>5, <2>6, <2>7, <2>8 DEF Next, BuyerCall
<1>2. Inv /\ [Next]_vars =>
        [\A id \in TokenIds : ~Exists(id) /\ owners'[id] # Zero => WithinLimits(id)]_vars
  BY <1>1
<1> QED
  BY <1>2, Invariance, PTL DEF Spec, MintsRespectLimits, WithinLimits
-----------------------------------------------------------------------------
\* The history of one storage goes on in another.
Reaches(s, t) == Log!Extends(LogOf(t), LogOf(s))

\* What the outermost mint would bring back is where all the others began.
FirstReaches ==
    \A i \in DOMAIN frames : /\ Reaches(frames[1].saved, frames[i].saved)
                             /\ Reaches(frames[1].saved, Storage)

LEMMA ReachesIff ==
  ASSUME NEW s, NEW t, s.mintedCount \in Nat, t.mintedCount \in Nat
  PROVE  Reaches(s, t) <=> /\ s.mintedCount <= t.mintedCount
                           /\ \A id \in 1 .. s.mintedCount : t.origin[id] = s.origin[id]
<1>1. /\ Len(LogOf(s)) = s.mintedCount /\ DOMAIN LogOf(s) = 1 .. s.mintedCount
      /\ Len(LogOf(t)) = t.mintedCount /\ DOMAIN LogOf(t) = 1 .. t.mintedCount
  BY DEF LogOf
<1>2. \A id \in 1 .. s.mintedCount : LogOf(s)[id] = s.origin[id]
  BY DEF LogOf
<1>3. \A id \in 1 .. t.mintedCount : LogOf(t)[id] = t.origin[id]
  BY DEF LogOf
<1> QED
  BY <1>1, <1>2, <1>3 DEF Reaches, Log!Extends

LEMMA SoundCount == ASSUME NEW s, Sound(s) PROVE s.mintedCount \in Nat
BY DEF Sound, StorageType

LEMMA SavedSound ==
  ASSUME Inv, NEW i \in DOMAIN frames
  PROVE  Sound(frames[i].saved) /\ frames[i].saved.mintedCount \in Nat
BY SoundCount DEF Inv, FramesSound

\* The log of a sound storage is one of MintLog.
LEMMA SoundLog ==
  ASSUME NEW s, Sound(s)
  PROVE  /\ LogOf(s) \in Seq(Origin \ {NotMinted})
         /\ \A entry \in {e \in Origin : e.listed /\ e.call = "mint"} :
              Log!AppearsOnce(entry, LogOf(s))
<1>1. s.mintedCount \in Nat /\ s.mintedCount <= LastTokenId /\ s.origin \in [TokenIds -> Origin]
  BY DEF Sound, StorageType, OriginsFit
<1>2. \A id \in 1 .. s.mintedCount : id \in TokenIds /\ s.origin[id] \in Origin \ {NotMinted}
  BY <1>1, SericaAssumption DEF Sound, OriginsFit
<1>3. LogOf(s) \in Seq(Origin \ {NotMinted})
  BY <1>1, <1>2, SeqDef DEF LogOf
<1>4. ASSUME NEW e \in Origin, e.listed, e.call = "mint",
             NEW i \in DOMAIN LogOf(s), NEW j \in DOMAIN LogOf(s),
             LogOf(s)[i] = e, LogOf(s)[j] = e
      PROVE  i = j
  <2>1. /\ i \in TokenIds /\ j \in TokenIds /\ s.origin[i] = e /\ s.origin[j] = e
        /\ e # NotMinted
    BY <1>2, <1>4 DEF LogOf
  <2>2. e.wallet \in Accounts /\ e.group \in GroupNames
    BY <2>1 DEF Origin
  <2>3. i \in ListedMints(s, e.group, e.wallet, {"mint"})
        /\ j \in ListedMints(s, e.group, e.wallet, {"mint"})
    BY <1>4, <2>1 DEF ListedMints, MintedBy, MintedIn
  <2> QED
    BY <2>2, <2>3 DEF Sound, StatusFits, AtMostOne
<1> QED
  BY <1>3, <1>4 DEF Log!AppearsOnce

LEMMA PublicSound == Inv => Sound(PublicStorage)
<1> SUFFICES ASSUME Inv PROVE Sound(PublicStorage)
  OBVIOUS
<1>1. CASE frames = <<>>
  BY <1>1 DEF Inv, PublicStorage, Idle
<1>2. CASE frames # <<>>
  <2>1. 1 \in DOMAIN frames
    BY <1>2, EmptySeq, LenProperties DEF Inv, TypeOK
  <2> QED
    BY <1>2, <2>1, SavedSound DEF PublicStorage, Idle
<1> QED
  BY <1>1, <1>2

LEMMA PublicSoundPrime == Inv' => Sound(PublicStorage)'
BY PublicSound, PTL

\* A call that mints or does not, and perhaps calls out: the calls out there were go on.
LEMMA GrowStep ==
  ASSUME Inv, Inv', FirstReaches, Reaches(Storage, Storage'),
         \A i \in DOMAIN frames : i \in DOMAIN frames' /\ frames'[i].saved = frames[i].saved,
         \A i \in DOMAIN frames' : i \in DOMAIN frames \/ frames'[i].saved = Storage
  PROVE  FirstReaches' /\ Reaches(PublicStorage, PublicStorage')
<1>1. Storage.mintedCount \in Nat /\ Storage'.mintedCount \in Nat
  BY SoundCount DEF Inv
<1>2. \A i \in DOMAIN frames' : frames'[i].saved.mintedCount \in Nat
  BY SoundCount DEF Inv, FramesSound
<1>3. /\ DOMAIN frames = {} <=> frames = <<>>
      /\ frames # <<>> => 1 \in DOMAIN frames
  BY EmptySeq, LenProperties DEF Inv, TypeOK
<1>4. /\ DOMAIN frames' = {} <=> frames' = <<>>
      /\ frames' # <<>> => 1 \in DOMAIN frames'
  BY EmptySeq, LenProperties DEF Inv, TypeOK
<1>5. CASE frames = <<>>
  BY <1>1, <1>2, <1>3, <1>4, <1>5, ReachesIff DEF FirstReaches, PublicStorage, Idle
<1>6. CASE frames # <<>>
  BY <1>1, <1>2, <1>3, <1>4, <1>6, ReachesIff DEF FirstReaches, PublicStorage, Idle
<1> QED
  BY <1>5, <1>6

\* The innermost mint ends, well or not.
LEMMA PopStep ==
  ASSUME Inv, Inv', FirstReaches, frames # <<>>, frames' = Front(frames),
         Storage' = Top.saved \/ UNCHANGED <<mintedCount, origin>>
  PROVE  FirstReaches' /\ Reaches(PublicStorage, PublicStorage')
<1> DEFINE n == Len(frames)
<1>1. /\ n \in Nat \ {0}
      /\ DOMAIN frames = 1 .. n
      /\ DOMAIN frames' = 1 .. n - 1
      /\ \A i \in 1 .. n - 1 : frames'[i] = frames[i]
      /\ Top = frames[n]
      /\ frames' \in Seq(Frame)
  BY FrontFrames DEF Inv, TypeOK
<1>2. /\ Storage.mintedCount \in Nat /\ Storage'.mintedCount \in Nat
      /\ \A i \in 1 .. n : frames[i].saved.mintedCount \in Nat
  BY <1>1, SoundCount, SavedSound DEF Inv
<1>3. Reaches(frames[1].saved, Storage')
  <2>1. CASE Storage' = Top.saved
    BY <1>1, <2>1 DEF FirstReaches
  <2>2. CASE UNCHANGED <<mintedCount, origin>>
    <3>1. Reaches(frames[1].saved, Storage)
      BY <1>1 DEF FirstReaches
    <3>2. LogOf(Storage) = LogOf(Storage')
      BY <2>2 DEF LogOf, Storage
    <3> QED
      BY <3>1, <3>2 DEF Reaches
  <2> QED
    BY <2>1, <2>2
<1>4. CASE n = 1
  <2>1. frames' = <<>>
    BY <1>1, <1>4, EmptySeq, LenProperties
  <2> QED
    BY <1>1, <1>3, <1>4, <2>1 DEF FirstReaches, PublicStorage, Idle
<1>5. CASE n # 1
  <2>1. 1 \in 1 .. n - 1 /\ frames' # <<>>
    BY <1>1, <1>5, EmptySeq
  <2>2. Reaches(frames[1].saved, frames[1].saved)
    BY <1>1, <1>2, ReachesIff
  <2> QED
    BY <1>1, <1>3, <2>1, <2>2 DEF FirstReaches, PublicStorage, Idle
<1> QED
  BY <1>4, <1>5

\* What changes neither the counter nor the history leaves the log as it is.
LEMMA SameLog == UNCHANGED <<mintedCount, origin>> /\ Inv => Reaches(Storage, Storage')
<1> SUFFICES ASSUME UNCHANGED <<mintedCount, origin>>, Inv PROVE Reaches(Storage, Storage')
  OBVIOUS
<1>1. Storage'.mintedCount = Storage.mintedCount /\ Storage'.origin = Storage.origin
  BY DEF Storage
<1>2. Storage.mintedCount \in Nat
  BY SoundCount DEF Inv
<1> QED
  BY <1>1, <1>2, ReachesIff

LEMMA IssueReaches ==
  ASSUME Inv, NEW sender, NEW name, NEW q \in Nat, NEW call, Issue(sender, name, q, call)
  PROVE  Reaches(Storage, Storage')
<1>1. /\ Storage'.mintedCount = mintedCount' /\ Storage'.origin = origin'
      /\ Storage.mintedCount = mintedCount /\ Storage.origin = origin
  BY DEF Storage
<1>2. mintedCount \in Nat /\ mintedCount <= LastTokenId
  BY <1>1 DEF Inv, Sound, OriginsFit, StorageType
<1>3. mintedCount' = mintedCount + q
  BY DEF Issue
<1>4. \A id \in 1 .. mintedCount : id \in TokenIds /\ id \notin NewIds(q)
  BY <1>2, SericaAssumption DEF NewIds
<1>5. \A id \in 1 .. mintedCount : origin'[id] = origin[id]
  BY <1>4 DEF Issue
<1> QED
  BY <1>1, <1>2, <1>3, <1>5, ReachesIff

LEMMA LogStep ==
  ASSUME Inv, Inv', FirstReaches, [Next]_vars
  PROVE  FirstReaches' /\ Reaches(PublicStorage, PublicStorage')
<1>1. ASSUME NEW sender \in Accounts, NEW name \in GroupNames, NEW payment \in Payments,
             Mint(sender, name, payment)
      PROVE  FirstReaches' /\ Reaches(PublicStorage, PublicStorage')
  <2> DEFINE frame == [minter |-> sender, group |-> name, payment |-> payment, payees |-> 0,
                       sent |-> 0, callee |-> sender, saved |-> Storage]
  <2>1. Issue(sender, name, 1, "mint") /\ frames' = Append(frames, frame)
    BY <1>1 DEF Mint
  <2>2. frame.saved = Storage
    OBVIOUS
  <2> HIDE DEF frame
  <2>3. frames \in Seq(Frame) /\ frames' \in Seq(Frame)
    BY DEF Inv, TypeOK
  <2>4. /\ \A i \in DOMAIN frames : i \in DOMAIN frames' /\ frames'[i] = frames[i]
        /\ \A i \in DOMAIN frames' : i \in DOMAIN frames \/ frames'[i] = frame
    BY <2>1, <2>3, LenProperties
  <2>5. Reaches(Storage, Storage')
    BY <2>1, IssueReaches
  <2> QED
    BY <2>2, <2>4, <2>5, GrowStep
<1>2. ASSUME NEW sender \in Accounts, NEW name \in GroupNames, NEW payment \in Payments,
             NEW quantity \in 1 .. MAX_BATCH, BatchMint(sender, name, quantity, payment)
      PROVE  FirstReaches' /\ Reaches(PublicStorage, PublicStorage')
  <2>1. Issue(sender, name, quantity, "batchMint") /\ frames' = frames
    BY <1>2 DEF BatchMint
  <2>2. quantity \in Nat
    BY DEF MAX_BATCH
  <2>3. Reaches(Storage, Storage')
    BY <2>1, <2>2, IssueReaches
  <2> QED
    BY <2>1, <2>3, GrowStep
<1>3. ASSUME UNCHANGED <<mintedCount, origin>>,
             \A i \in DOMAIN frames : i \in DOMAIN frames' /\ frames'[i].saved = frames[i].saved,
             \A i \in DOMAIN frames' : i \in DOMAIN frames
      PROVE  FirstReaches' /\ Reaches(PublicStorage, PublicStorage')
  BY <1>3, SameLog, GrowStep
<1>4. ASSUME NEW sender \in Accounts, AdminCall(sender) \/ InheritedCall(sender)
      PROVE  FirstReaches' /\ Reaches(PublicStorage, PublicStorage')
  <2>1. UNCHANGED <<mintedCount, origin, frames>>
    BY <1>4 DEF AdminCall, AddMintGroup, UpdateMintGroup, SetCreators, Pause, Unpause,
                InheritedCall, saleVars
  <2> QED
    BY <1>3, <2>1
<1>5. CASE PayCreator
  <2>1. UNCHANGED <<mintedCount, origin>>
    BY <1>5 DEF PayCreator, saleVars
  <2>2. /\ frames \in Seq(Frame)
        /\ \E payees, sent, callee :
             frames' = [frames EXCEPT ![Len(frames)] =
                          [@ EXCEPT !.payees = payees, !.sent = sent, !.callee = callee]]
    <3>1. frames \in Seq(Frame)
      BY DEF Inv, TypeOK
    <3> QED
      BY <1>5, <3>1 DEF PayCreator
  <2>3. \A i \in DOMAIN frames : i \in DOMAIN frames' /\ frames'[i].saved = frames[i].saved
    BY <2>2, ElementOfSeq DEF Frame
  <2>4. DOMAIN frames' = DOMAIN frames
    BY <2>2
  <2> QED
    BY <1>3, <2>1, <2>3, <2>4
<1>6. CASE FinishMint
  BY <1>6, PopStep DEF FinishMint, Idle, saleVars
<1>7. CASE Abort
  <2>1. Top.saved \in StorageType
    BY <1>7, FrontFrames DEF Inv, TypeOK, Abort, Idle, Frame
  <2>2. Storage' = Top.saved
    BY <1>7, <2>1, RestoreStorage DEF Abort
  <2> QED
    BY <1>7, <2>2, PopStep DEF Abort, Idle
<1>8. CASE Tick \/ UNCHANGED vars
  <2>1. UNCHANGED <<mintedCount, origin, frames>>
    BY <1>8 DEF Tick, vars, saleVars
  <2> QED
    BY <1>3, <2>1
<1> QED
  BY <1>1, <1>2, <1>4, <1>5, <1>6, <1>7, <1>8 DEF Next, BuyerCall

(***************************************************************************)
(* The collection implements MintLog: nested and undone mints show between *)
(* transactions as a list that grows, with one mint for each allowance.    *)
(***************************************************************************)
THEOREM LogIsImplemented == Spec => MintsAreLogged
<1>1. Init => Inv /\ FirstReaches /\ Log!Init
  <2> SUFFICES ASSUME Init PROVE FirstReaches /\ Log!Init
    BY InitInv
  <2>1. frames = <<>> /\ mintedCount = 0
    BY DEF Init
  <2>2. LogOf(Storage) = <<>>
    BY <2>1 DEF LogOf, Storage
  <2> QED
    BY <2>1, <2>2 DEF FirstReaches, Log!Init, PublicStorage, Idle
<1>2. Inv /\ FirstReaches /\ [Next]_vars
        => (Inv /\ FirstReaches)' /\ [Log!Next]_(LogOf(PublicStorage))
  <2> SUFFICES ASSUME Inv, FirstReaches, [Next]_vars
               PROVE  (Inv /\ FirstReaches)' /\ Log!Next
    OBVIOUS
  <2>1. Inv'
    BY NextInv
  <2>2. FirstReaches' /\ Reaches(PublicStorage, PublicStorage')
    BY <2>1, LogStep
  <2>3. Sound(PublicStorage')
    BY <2>1, PublicSoundPrime
  <2> QED
    BY <2>1, <2>2, <2>3, SoundLog DEF Reaches, Log!Next
<1> QED
  BY <1>1, <1>2, PTL DEF Spec, MintsAreLogged, Log!Spec
-----------------------------------------------------------------------------
\* The tokens of the first k mints under way, which are still to announce them.
OwnIds(fs, k) == {fs[i].saved.mintedCount + 1 : i \in 1 .. k}

\* The events of a storage, while the tokens in own are still to be announced.  What was
\* minted after one of these was minted from a callback.
EventsFit(s, own) ==
    /\ \A id \in 1 .. s.mintedCount :
         \/ TrueEvent(s, id) \in s.events
         \/ id < s.mintedCount /\ OfContract(s, id + 1)
         \/ id \in own
    /\ \A event \in s.events :
         /\ event.id \in 1 .. s.mintedCount
         /\ event = TrueEvent(s, event.id) \/ OfContract(s, event.id)
    /\ \A x \in own, id \in 1 .. s.mintedCount : x < id => OfContract(s, id)

EventsInv ==
    /\ EventsFit(Storage, OwnIds(frames, Len(frames)))
    /\ \A j \in 1 .. Len(frames) : EventsFit(frames[j].saved, OwnIds(frames, j - 1))

LEMMA SameOwnIds ==
  ASSUME NEW fs, NEW gs, NEW k, \A i \in 1 .. k : gs[i].saved = fs[i].saved
  PROVE  OwnIds(gs, k) = OwnIds(fs, k)
  BY DEF OwnIds

LEMMA NextOwnId ==
  ASSUME NEW fs, NEW k \in Nat
  PROVE  OwnIds(fs, k + 1) = OwnIds(fs, k) \cup {fs[k + 1].saved.mintedCount + 1}
<1>1. 1 .. k + 1 = (1 .. k) \cup {k + 1}
  OBVIOUS
<1> QED
  BY <1>1 DEF OwnIds

LEMMA SameEvents ==
  ASSUME NEW s, NEW r, NEW own, EventsFit(s, own),
         r.events = s.events, r.origin = s.origin, r.mintedCount = s.mintedCount
  PROVE  EventsFit(r, own)
  BY DEF EventsFit, TrueEvent, OfContract

\* The tokens issued next are announced, or are those of a mint that has yet to; if a mint
\* was under way, it is a contract they went to.
LEMMA IssueEvents ==
  ASSUME NEW s, NEW r, NEW own, NEW next, NEW new, EventsFit(s, own),
         s.mintedCount \in Nat, r.mintedCount \in Nat, r.mintedCount >= s.mintedCount,
         \A id \in 1 .. s.mintedCount : r.origin[id] = s.origin[id],
         r.events = s.events \cup new,
         \A event \in new :
           event.id \in 1 .. r.mintedCount /\ event = TrueEvent(r, event.id),
         \A id \in s.mintedCount + 1 .. r.mintedCount :
           TrueEvent(r, id) \in new \/ id \in next,
         next \subseteq {r.mintedCount},
         own = {} \/ \A id \in s.mintedCount + 1 .. r.mintedCount : OfContract(r, id)
  PROVE  EventsFit(r, own \cup next)
<1>1. \A id \in 1 .. s.mintedCount :
        /\ id \in 1 .. r.mintedCount
        /\ TrueEvent(r, id) = TrueEvent(s, id) /\ OfContract(r, id) = OfContract(s, id)
  <2> SUFFICES ASSUME NEW id \in 1 .. s.mintedCount
               PROVE  /\ id \in 1 .. r.mintedCount
                      /\ TrueEvent(r, id) = TrueEvent(s, id)
                      /\ OfContract(r, id) = OfContract(s, id)
    OBVIOUS
  <2>1. id \in 1 .. r.mintedCount
    OBVIOUS
  <2> QED
    BY <2>1 DEF TrueEvent, OfContract
<1>2. ASSUME NEW id \in 1 .. r.mintedCount
      PROVE  \/ TrueEvent(r, id) \in r.events
             \/ id < r.mintedCount /\ OfContract(r, id + 1)
             \/ id \in own \cup next
  <2>1. CASE id \in 1 .. s.mintedCount
    <3>1. id < s.mintedCount => id + 1 \in 1 .. s.mintedCount
      BY <2>1
    <3> QED
      BY <1>1, <2>1, <3>1 DEF EventsFit
  <2>2. CASE id \notin 1 .. s.mintedCount
    <3>1. id \in s.mintedCount + 1 .. r.mintedCount
      BY <2>2
    <3> QED
      BY <3>1
  <2> QED
    BY <2>1, <2>2
<1>3. ASSUME NEW event \in r.events
      PROVE  /\ event.id \in 1 .. r.mintedCount
             /\ event = TrueEvent(r, event.id) \/ OfContract(r, event.id)
  BY <1>1 DEF EventsFit
<1>4. ASSUME NEW x \in own \cup next, NEW id \in 1 .. r.mintedCount, x < id
      PROVE  OfContract(r, id)
  <2>1. x \in own
    BY <1>4
  <2>2. CASE id \in 1 .. s.mintedCount
    BY <1>1, <1>4, <2>1, <2>2 DEF EventsFit
  <2>3. CASE id \notin 1 .. s.mintedCount
    <3>1. id \in s.mintedCount + 1 .. r.mintedCount
      BY <2>3
    <3> QED
      BY <2>1, <3>1
  <2> QED
    BY <2>2, <2>3
<1> QED
  BY <1>2, <1>3, <1>4 DEF EventsFit

\* A mint that ends announces the last token, with its own minter and group.
LEMMA FinishEvents ==
  ASSUME NEW s, NEW r, NEW own, NEW x, EventsFit(s, own \cup {x}),
         s.mintedCount \in Nat, x \in 1 .. s.mintedCount,
         r.mintedCount = s.mintedCount, r.origin = s.origin,
         r.events = s.events \cup {[to |-> s.origin[x].wallet, id |-> s.mintedCount,
                                    group |-> s.origin[x].group]}
  PROVE  EventsFit(r, own)
<1> DEFINE event == [to |-> s.origin[x].wallet, id |-> s.mintedCount,
                     group |-> s.origin[x].group]
<1>1. \A id : TrueEvent(r, id) = TrueEvent(s, id) /\ OfContract(r, id) = OfContract(s, id)
  BY DEF TrueEvent, OfContract
<1>2. x = s.mintedCount => event = TrueEvent(s, x)
  BY DEF TrueEvent
<1>3. x # s.mintedCount => OfContract(s, x + 1) /\ OfContract(s, s.mintedCount)
  BY DEF EventsFit
<1>4. event.id = s.mintedCount /\ s.mintedCount \in 1 .. s.mintedCount
  OBVIOUS
<1>5. r.events = s.events \cup {event}
  OBVIOUS
<1> HIDE DEF event
<1>6. ASSUME NEW id \in 1 .. r.mintedCount
      PROVE  \/ TrueEvent(r, id) \in r.events
             \/ id < r.mintedCount /\ OfContract(r, id + 1)
             \/ id \in own
  <2>1. CASE id = x
    <3>1. x # s.mintedCount => x < s.mintedCount
      OBVIOUS
    <3> QED
      BY <1>1, <1>2, <1>3, <1>5, <2>1, <3>1
  <2>2. CASE id # x
    BY <1>1, <1>5, <2>2 DEF EventsFit
  <2> QED
    BY <2>1, <2>2
<1>7. ASSUME NEW e \in r.events
      PROVE  /\ e.id \in 1 .. r.mintedCount
             /\ e = TrueEvent(r, e.id) \/ OfContract(r, e.id)
  <2>1. CASE e \in s.events
    BY <1>1, <2>1 DEF EventsFit
  <2>2. CASE e = event
    BY <1>1, <1>2, <1>3, <1>4, <2>2
  <2> QED
    BY <1>5, <2>1, <2>2
<1>8. \A y \in own, id \in 1 .. r.mintedCount : y < id => OfContract(r, id)
  BY <1>1 DEF EventsFit
<1> QED
  BY <1>6, <1>7, <1>8 DEF EventsFit

\* The tokens a call issues, next to those there were.
LEMMA IssuedOrigins ==
  ASSUME Inv, NEW sender, NEW name, NEW q \in Nat, NEW call, Issue(sender, name, q, call)
  PROVE  /\ mintedCount \in Nat /\ mintedCount' = mintedCount + q
         /\ \A id \in 1 .. mintedCount : origin'[id] = origin[id]
         /\ \A id \in NewIds(q) : origin'[id].wallet = sender /\ origin'[id].group = name
<1>1. mintedCount \in Nat /\ mintedCount <= LastTokenId
  BY DEF Inv, Sound, OriginsFit, StorageType, Storage
<1>2. NewIds(q) \subseteq TokenIds
  BY DEF Issue, MintTokens
<1>3. \A id \in 1 .. mintedCount : id \in TokenIds /\ id \notin NewIds(q)
  BY <1>1, SericaAssumption DEF NewIds
<1> QED
  BY <1>1, <1>2, <1>3 DEF Issue

LEMMA IssuedOrigin ==
  ASSUME Inv, NEW sender, NEW name, NEW call, Issue(sender, name, 1, call)
  PROVE  /\ mintedCount' = mintedCount + 1
         /\ \A id \in 1 .. mintedCount : origin'[id] = origin[id]
         /\ origin'[mintedCount + 1].wallet = sender
<1>1. 1 \in Nat
  OBVIOUS
<1>2. /\ mintedCount \in Nat /\ mintedCount' = mintedCount + 1
      /\ \A id \in 1 .. mintedCount : origin'[id] = origin[id]
      /\ \A id \in NewIds(1) : origin'[id].wallet = sender
  BY <1>1, IssuedOrigins
<1>3. mintedCount + 1 \in NewIds(1)
  BY <1>2 DEF NewIds
<1> QED
  BY <1>2, <1>3

\* A call that comes while a mint is under way is one of a contract.
LEMMA NestedCalls ==
  ASSUME NEW sender, MayCall(sender), frames \in Seq(Frame)
  PROVE  OwnIds(frames, Len(frames)) = {} \/ sender \in Contracts
<1>1. Len(<<>>) = 0
  OBVIOUS
<1> QED
  BY <1>1 DEF MayCall, Idle, OwnIds

LEMMA EventsStep ==
  ASSUME Inv, EventsInv, [Next]_vars
  PROVE  EventsInv'
<1> DEFINE n == Len(frames)
           own == OwnIds(frames, n)
<1>1. /\ mintedCount \in Nat /\ frames \in Seq(Frame) /\ n \in Nat /\ DOMAIN frames = 1 .. n
      /\ Storage.mintedCount = mintedCount /\ Storage.origin = origin
      /\ Storage.events = events
      /\ Storage'.mintedCount = mintedCount' /\ Storage'.origin = origin'
      /\ Storage'.events = events'
  BY LenProperties DEF Inv, TypeOK, StorageType, Storage
<1>2. /\ EventsFit(Storage, own)
      /\ \A j \in 1 .. n : EventsFit(frames[j].saved, OwnIds(frames, j - 1))
  BY DEF EventsInv
<1>3. ASSUME UNCHANGED <<events, origin, mintedCount>>, Len(frames') = n,
             \A i \in 1 .. n : frames'[i].saved = frames[i].saved
      PROVE  EventsInv'
  <2>1. \A k \in 0 .. n : OwnIds(frames', k) = OwnIds(frames, k)
    BY <1>1, <1>3, SameOwnIds
  <2>2. n \in 0 .. n /\ \A j \in 1 .. n : j - 1 \in 0 .. n
    BY <1>1
  <2>3. EventsFit(Storage', own)
    BY <1>1, <1>2, <1>3, SameEvents
  <2> QED
    BY <1>2, <1>3, <2>1, <2>2, <2>3 DEF EventsInv
<1>4. ASSUME NEW sender, NEW name, NEW payment, Mint(sender, name, payment)
      PROVE  EventsInv'
  <2> DEFINE frame == [minter |-> sender, group |-> name, payment |-> payment, payees |-> 0,
                       sent |-> 0, callee |-> sender, saved |-> Storage]
  <2>1. /\ frames' = Append(frames, frame) /\ events' = events /\ MayCall(sender)
        /\ Issue(sender, name, 1, "mint")
    BY <1>4 DEF Mint
  <2>2. /\ mintedCount' = mintedCount + 1
        /\ \A id \in 1 .. mintedCount : origin'[id] = origin[id]
        /\ origin'[mintedCount + 1].wallet = sender
    <3>1. Issue(sender, name, 1, "mint")
      BY <2>1
    <3> QED
      BY <3>1, IssuedOrigin
  <2>3. frame.saved = Storage
    OBVIOUS
  <2> HIDE DEF frame
  <2>4. /\ Len(frames') = n + 1 /\ frames'[n + 1] = frame
        /\ \A i \in 1 .. n : frames'[i] = frames[i]
    BY <1>1, <2>1
  <2>5. \A k \in 0 .. n : OwnIds(frames', k) = OwnIds(frames, k)
    BY <1>1, <2>4, SameOwnIds
  <2>6. OwnIds(frames', n + 1) = own \cup {mintedCount + 1}
    <3>1. OwnIds(frames', n + 1) = OwnIds(frames', n) \cup {frames'[n + 1].saved.mintedCount + 1}
      BY <1>1, NextOwnId
    <3>2. n \in 0 .. n
      BY <1>1
    <3>3. frames'[n + 1].saved.mintedCount = mintedCount
      BY <1>1, <2>3, <2>4
    <3> QED
      BY <2>5, <3>1, <3>2, <3>3
  <2>7. EventsFit(Storage', own \cup {mintedCount + 1})
    <3> DEFINE none == {}
               next == {mintedCount + 1}
    <3>1. own = {} \/ OfContract(Storage', mintedCount + 1)
      BY <1>1, <2>1, <2>2, NestedCalls DEF OfContract
    <3>2. mintedCount + 1 .. mintedCount + 1 = {mintedCount + 1}
      BY <1>1
    <3>3. /\ events' = events \cup none
          /\ \A event \in none :
               event.id \in 1 .. mintedCount' /\ event = TrueEvent(Storage', event.id)
          /\ \A id \in mintedCount + 1 .. mintedCount' :
               TrueEvent(Storage', id) \in none \/ id \in next
          /\ next \subseteq {mintedCount'}
          /\ own = {} \/ \A id \in mintedCount + 1 .. mintedCount' : OfContract(Storage', id)
      BY <2>1, <2>2, <3>1, <3>2
    <3>4. mintedCount' \in Nat /\ mintedCount' >= mintedCount
      BY <1>1, <2>2
    <3> HIDE DEF none, next, own
    <3>5. EventsFit(Storage', own \cup next)
      BY <1>1, <1>2, <2>2, <3>3, <3>4, IssueEvents
    <3> QED
      BY <3>5 DEF next
  <2>8. \A j \in 1 .. n + 1 : EventsFit(frames'[j].saved, OwnIds(frames', j - 1))
    <3> SUFFICES ASSUME NEW j \in 1 .. n + 1
                 PROVE  EventsFit(frames'[j].saved, OwnIds(frames', j - 1))
      OBVIOUS
    <3>1. CASE j = n + 1
      <4>1. j - 1 = n /\ n \in 0 .. n
        BY <1>1, <3>1
      <4> QED
        BY <1>2, <2>3, <2>4, <2>5, <3>1, <4>1
    <3>2. CASE j # n + 1
      <4>1. j \in 1 .. n /\ j - 1 \in 0 .. n
        BY <1>1, <3>2
      <4> QED
        BY <1>2, <2>4, <2>5, <4>1
    <3> QED
      BY <3>1, <3>2
  <2> QED
    BY <2>4, <2>6, <2>7, <2>8 DEF EventsInv
<1>5. ASSUME NEW sender, NEW name, NEW payment, NEW quantity \in 1 .. MAX_BATCH,
             BatchMint(sender, name, quantity, payment)
      PROVE  EventsInv'
  <2> DEFINE new == {MintedEvent(sender, id, name) : id \in NewIds(quantity)}
             next == {}
  <2>1. /\ frames' = frames /\ quantity \in Nat /\ MayCall(sender)
        /\ events' = events \cup new
        /\ Issue(sender, name, quantity, "batchMint")
    BY <1>5 DEF BatchMint, MAX_BATCH
  <2>2. /\ mintedCount' = mintedCount + quantity
        /\ \A id \in 1 .. mintedCount : origin'[id] = origin[id]
        /\ \A id \in mintedCount + 1 .. mintedCount + quantity :
             origin'[id].wallet = sender /\ origin'[id].group = name
    BY <2>1, IssuedOrigins DEF NewIds
  <2>3. \A id \in mintedCount + 1 .. mintedCount' :
          MintedEvent(sender, id, name) = TrueEvent(Storage', id)
    BY <1>1, <2>2 DEF TrueEvent, MintedEvent
  <2>4. \A event \in new :
          event.id \in 1 .. mintedCount' /\ event = TrueEvent(Storage', event.id)
    <3> SUFFICES ASSUME NEW id \in mintedCount + 1 .. mintedCount'
                 PROVE  /\ MintedEvent(sender, id, name).id = id /\ id \in 1 .. mintedCount'
                        /\ MintedEvent(sender, id, name) = TrueEvent(Storage', id)
      BY <2>2 DEF NewIds
    <3> QED
      BY <1>1, <2>3 DEF MintedEvent
  <2>5. \A id \in mintedCount + 1 .. mintedCount' :
          TrueEvent(Storage', id) \in new \/ id \in next
    BY <2>2, <2>3 DEF NewIds
  <2>6. own = {} \/ \A id \in mintedCount + 1 .. mintedCount' : OfContract(Storage', id)
    BY <1>1, <2>1, <2>2, NestedCalls DEF OfContract
  <2>7. mintedCount' \in Nat /\ mintedCount' >= mintedCount /\ next \subseteq {mintedCount'}
    BY <1>1, <2>1, <2>2
  <2>8. own \cup next = own
    OBVIOUS
  <2> HIDE DEF new, next, own
  <2>9. EventsFit(Storage', own \cup next)
    BY <1>1, <1>2, <2>1, <2>2, <2>4, <2>5, <2>6, <2>7, IssueEvents
  <2> QED
    BY <1>2, <2>1, <2>8, <2>9 DEF EventsInv, own
<1>6. ASSUME NEW sender, AdminCall(sender) \/ InheritedCall(sender)
      PROVE  EventsInv'
  <2>1. UNCHANGED <<frames, events, origin, mintedCount>>
    BY <1>6 DEF AdminCall, AddMintGroup, UpdateMintGroup, SetCreators, Pause, Unpause,
                InheritedCall, saleVars
  <2> QED
    BY <1>3, <2>1
<1>7. CASE PayCreator
  <2>1. UNCHANGED <<events, origin, mintedCount>>
    BY <1>7 DEF PayCreator, saleVars
  <2>2. \E payees, sent, callee :
          frames' = [frames EXCEPT ![Len(frames)] =
                       [@ EXCEPT !.payees = payees, !.sent = sent, !.callee = callee]]
    BY <1>1, <1>7 DEF PayCreator
  <2>3. \A i \in 1 .. n : frames'[i].saved = frames[i].saved
    BY <1>1, <2>2, ElementOfSeq DEF Frame
  <2>4. Len(frames') = n
    BY <1>1, <2>2
  <2> QED
    BY <1>3, <2>1, <2>3, <2>4
<1>8. ASSUME frames # <<>>, frames' = Front(frames),
             EventsFit(Storage', OwnIds(frames, n - 1))
      PROVE  EventsInv'
  <2>1. /\ n \in Nat \ {0} /\ frames' \in Seq(Frame) /\ DOMAIN frames' = 1 .. n - 1
        /\ \A i \in 1 .. n - 1 : frames'[i] = frames[i]
    BY <1>1, <1>8, FrontFrames
  <2>2. Len(frames') = n - 1
    BY <2>1, LenProperties
  <2>3. \A k \in 0 .. n - 1 : OwnIds(frames', k) = OwnIds(frames, k)
    BY <2>1, SameOwnIds
  <2>4. n - 1 \in 0 .. n - 1 /\ \A j \in 1 .. n - 1 : j - 1 \in 0 .. n - 1 /\ j \in 1 .. n
    BY <2>1
  <2> QED
    BY <1>2, <1>8, <2>1, <2>2, <2>3, <2>4 DEF EventsInv
<1>9. CASE FinishMint
  <2> DEFINE x == Top.saved.mintedCount + 1
  <2>1. /\ frames # <<>> /\ frames' = Front(frames) /\ UNCHANGED <<origin, mintedCount>>
        /\ events' = events \cup {MintedEvent(Top.minter, mintedCount, Top.group)}
    BY <1>9 DEF FinishMint, Idle, saleVars
  <2>2. n \in Nat \ {0} /\ Top = frames[n] /\ Top \in Frame /\ n \in DOMAIN frames
    BY <1>1, <2>1, FrontFrames
  <2>3. /\ x \in 1 .. mintedCount
        /\ origin[x].wallet = Top.minter /\ origin[x].group = Top.group
    <3>1. Delivered(Top, Storage)
      BY <2>2 DEF Inv, MintDelivers
    <3>2. Top.saved.mintedCount \in Nat
      BY <2>2 DEF Frame, StorageType
    <3> QED
      BY <1>1, <3>1, <3>2 DEF Delivered
  <2>4. own = OwnIds(frames, n - 1) \cup {x}
    <3>1. n - 1 \in Nat /\ n - 1 + 1 = n
      BY <2>2
    <3>2. OwnIds(frames, n - 1 + 1)
            = OwnIds(frames, n - 1) \cup {frames[n - 1 + 1].saved.mintedCount + 1}
      BY <3>1, NextOwnId
    <3> QED
      BY <2>2, <3>1, <3>2
  <2>5. events' = events \cup {[to |-> origin[x].wallet, id |-> mintedCount,
                                group |-> origin[x].group]}
    BY <2>1, <2>3 DEF MintedEvent
  <2> HIDE DEF x, own
  <2>6. EventsFit(Storage', OwnIds(frames, n - 1))
    BY <1>1, <1>2, <2>1, <2>3, <2>4, <2>5, FinishEvents
  <2> QED
    BY <1>8, <2>1, <2>6
<1>10. CASE Abort
  <2>1. frames # <<>> /\ frames' = Front(frames) /\ Restore(Top.saved)
    BY <1>10 DEF Abort, Idle
  <2>2. n \in 1 .. n /\ Top = frames[n] /\ Top.saved \in StorageType
    BY <1>1, <2>1, FrontFrames DEF Frame
  <2>3. Storage' = Top.saved
    BY <2>1, <2>2, RestoreStorage
  <2>4. EventsFit(Storage', OwnIds(frames, n - 1))
    BY <1>2, <2>2, <2>3
  <2> QED
    BY <1>8, <2>1, <2>4
<1>11. CASE Tick \/ UNCHANGED vars
  <2>1. UNCHANGED <<frames, events, origin, mintedCount>>
    BY <1>11 DEF Tick, vars, saleVars
  <2> QED
    BY <1>3, <2>1
<1> QED
  BY <1>4, <1>5, <1>6, <1>7, <1>9, <1>10, <1>11 DEF Next, BuyerCall

(***************************************************************************)
(* Whatever nests and is undone, between transactions an event is missing  *)
(* or wrong only where a contract minted from the callback of a mint;      *)
(* among wallets the events are exactly the mints.                         *)
(***************************************************************************)
THEOREM EventsAlwaysFit ==
  Spec => [](EventsMatchUnlessNested
               /\ (Contracts = {} /\ Idle =>
                     events = {TrueEvent(Storage, id) : id \in 1 .. mintedCount}))
<1>1. Init => EventsInv
  <2> SUFFICES ASSUME Init PROVE EventsInv
    OBVIOUS
  <2>1. Len(frames) = 0 /\ Storage.mintedCount = 0 /\ Storage.events = {}
    BY DEF Init, Storage
  <2>2. 1 .. 0 = {} /\ OwnIds(frames, 0) = {}
    BY DEF OwnIds
  <2> QED
    BY <2>1, <2>2 DEF EventsInv, EventsFit
<1>2. Inv /\ EventsInv /\ [Next]_vars => EventsInv'
  BY EventsStep
<1>3. ASSUME Inv, EventsInv, Idle
      PROVE  /\ EventsMatchUnlessNested
             /\ Contracts = {} => events = {TrueEvent(Storage, id) : id \in 1 .. mintedCount}
  <2>1. Len(frames) = 0 /\ OwnIds(frames, Len(frames)) = {}
    BY <1>3 DEF Idle, OwnIds
  <2>2. /\ \A id \in 1 .. mintedCount :
             \/ TrueEvent(Storage, id) \in events
             \/ id < mintedCount /\ OfContract(Storage, id + 1)
        /\ \A event \in events :
             /\ event.id \in 1 .. mintedCount
             /\ event = TrueEvent(Storage, event.id) \/ OfContract(Storage, event.id)
    BY <1>3, <2>1 DEF EventsInv, EventsFit, Storage
  <2>3. EventsMatchUnlessNested
    BY <2>2 DEF EventsMatchUnlessNested
  <2>4. Contracts = {} => \A id : ~OfContract(Storage, id)
    BY DEF OfContract
  <2> QED
    BY <2>2, <2>3, <2>4
<1>4. Inv /\ EventsInv => /\ EventsMatchUnlessNested
                          /\ Contracts = {} /\ Idle =>
                               events = {TrueEvent(Storage, id) : id \in 1 .. mintedCount}
  BY <1>3 DEF EventsMatchUnlessNested
<1> QED
  BY <1>1, <1>2, <1>4, Invariance, PTL DEF Spec
-----------------------------------------------------------------------------
\* The shares as a function, and what the first k creators have of them together.
Shares(split) == [i \in DOMAIN split |-> split[i].share]

SharesOfFirst(split, k) == SumFunctionOnSet(Shares(split), 1 .. k)

\* What the first k creators of a split were sent of a payment: their shares, rounded
\* down, so less than a unit below them for each.
SentToFirst(split, payment, k, sent) ==
    /\ sent * SHARE_BASIS <= payment * SharesOfFirst(split, k)
    /\ payment * SharesOfFirst(split, k) <= sent * SHARE_BASIS + (SHARE_BASIS - 1) * k

\* No administrator of the collection is a contract: nobody can call setCreators while
\* a mint is paying.
AdminsAreWallets == members[ADMIN_ROLE] \cap Contracts = {}

\* While a mint is under way the creators are those it began with.
PayoutInv ==
    /\ creators # <<>> => TotalShares(creators) = SHARE_BASIS
    /\ \A i \in DOMAIN frames :
         /\ frames[i].saved.creators = creators
         /\ frames[i].payees <= Len(creators)
         /\ SentToFirst(creators, frames[i].payment, frames[i].payees, frames[i].sent)

LEMMA NoneOfShares == ASSUME NEW split PROVE SharesOfFirst(split, 0) = 0
<1>1. 1 .. 0 = {}
  OBVIOUS
<1> QED
  BY <1>1, SumEmpty DEF SharesOfFirst

LEMMA SharesTyped ==
  ASSUME NEW split \in Seq(Creator), NEW k \in 0 .. Len(split)
  PROVE  /\ SharesOfFirst(split, k) \in Nat
         /\ k # 0 => /\ SharesOfFirst(split, k)
                          = split[k].share + SharesOfFirst(split, k - 1)
                     /\ split[k] \in Creator
                     /\ split[k].share \in Nat
<1> DEFINE f == Shares(split)
           first == 1 .. k
<1>1. Len(split) \in Nat /\ DOMAIN split = 1 .. Len(split)
  BY LenProperties
<1>2. \A i \in 1 .. Len(split) : split[i] \in Creator /\ split[i].share \in Nat
  <2>1. \A i \in 1 .. Len(split) : split[i] \in Creator
    BY ElementOfSeq
  <2> QED
    BY <2>1 DEF Creator
<1>3. k \in Nat /\ first \subseteq 1 .. Len(split)
  BY <1>1
<1>4. \A i \in first : f[i] = split[i].share /\ f[i] \in Nat
  BY <1>1, <1>2, <1>3 DEF Shares
<1>5. IsFiniteSet(first)
  BY <1>3, FS_Interval
<1>6. k # 0 => k \in first /\ first \ {k} = 1 .. k - 1
  BY <1>3
<1> HIDE DEF f, first
<1>7. /\ SumFunctionOnSet(f, first) \in Nat
      /\ \A x \in first : SumFunctionOnSet(f, first) = f[x] + SumFunctionOnSet(f, first \ {x})
  BY <1>4, <1>5, SumRemove
<1>8. SharesOfFirst(split, k) = SumFunctionOnSet(f, first)
  BY DEF SharesOfFirst, f, first
<1>9. SharesOfFirst(split, k - 1) = SumFunctionOnSet(f, 1 .. k - 1)
  BY DEF SharesOfFirst, f
<1> QED
  BY <1>2, <1>3, <1>4, <1>6, <1>7, <1>8, <1>9

LEMMA AllShares ==
  ASSUME NEW split \in Seq(Creator)
  PROVE  SharesOfFirst(split, Len(split)) = TotalShares(split)
<1>1. DOMAIN split = 1 .. Len(split)
  BY LenProperties
<1> QED
  BY <1>1 DEF TotalShares, SharesOfFirst, Shares, SumFunction

\* One share more, rounded down.
LEMMA SentToNext ==
  ASSUME NEW split \in Seq(Creator), NEW k \in Nat, k < Len(split), NEW payment \in Nat,
         NEW sent \in Nat, SentToFirst(split, payment, k, sent)
  PROVE  SentToFirst(split, payment, k + 1, sent + ShareOf(payment, split[k + 1].share))
<1> DEFINE a == SharesOfFirst(split, k)
           b == SharesOfFirst(split, k + 1)
           q == split[k + 1].share
           part == ShareOf(payment, q)
<1>1. Len(split) \in Nat
  BY LenProperties
<1>2. a \in Nat
  BY <1>1, SharesTyped
<1>3. q \in Nat /\ b = q + a
  <2>1. k + 1 \in 0 .. Len(split) /\ k + 1 # 0 /\ (k + 1) - 1 = k
    BY <1>1
  <2> QED
    BY <2>1, SharesTyped
<1>4. sent * 10000 <= payment * a /\ payment * a <= sent * 10000 + 9999 * k
  BY DEF SentToFirst, SHARE_BASIS
<1> HIDE DEF a, b, q
<1>5. part \in Nat /\ part * 10000 <= payment * q /\ payment * q <= part * 10000 + 9999
  <2> DEFINE x == payment * q
  <2>1. x \in Nat
    BY <1>3
  <2>2. part = x \div 10000
    BY DEF ShareOf, SHARE_BASIS
  <2> HIDE DEF x
  <2>3. part \in Nat /\ part * 10000 <= x /\ x <= part * 10000 + 9999
    BY <2>1, <2>2
  <2> QED
    BY <2>3 DEF x
<1>6. payment * b = payment * q + payment * a /\ payment * q \in Nat /\ payment * a \in Nat
  BY <1>2, <1>3
<1> HIDE DEF part
<1>7. (sent + part) * 10000 <= payment * b
  BY <1>4, <1>5, <1>6
<1>8. payment * b <= (sent + part) * 10000 + 9999 * (k + 1)
  BY <1>4, <1>5, <1>6
<1> QED
  BY <1>7, <1>8 DEF SentToFirst, SHARE_BASIS, b, part, q

\* Whoever has been paid: never more than the payment, and when all have, nearly all of it.
LEMMA SentBounds ==
  ASSUME NEW split \in Seq(Creator), NEW k \in 0 .. Len(split), NEW payment \in Nat,
         NEW sent \in Nat, SentToFirst(split, payment, k, sent),
         split # <<>> => TotalShares(split) = SHARE_BASIS
  PROVE  /\ sent <= payment
         /\ k = Len(split) /\ split # <<>> => payment - sent < Len(split)
<1> DEFINE S(j) == SharesOfFirst(split, j)
<1>1. Len(split) \in Nat /\ (split = <<>> <=> Len(split) = 0)
  BY LenProperties, EmptySeq
<1>2. \A j \in 0 .. Len(split) : S(j) \in Nat /\ S(j) <= S(Len(split))
  <2> DEFINE n == Len(split)
             T == {d \in Nat : d <= n => S(n - d) \in Nat /\ S(n - d) <= S(n)}
  <2>1. 0 \in T
    BY <1>1, SharesTyped
  <2>2. ASSUME NEW d \in T PROVE d + 1 \in T
    <3> SUFFICES ASSUME d + 1 <= n PROVE S(n - (d + 1)) \in Nat /\ S(n - (d + 1)) <= S(n)
      OBVIOUS
    <3>1. d \in Nat /\ S(n - d) \in Nat /\ S(n - d) <= S(n) /\ n \in Nat
      BY <1>1, <2>2
    <3>2. n - d \in 0 .. n /\ n - d # 0 /\ (n - d) - 1 = n - (d + 1) /\ n - (d + 1) \in 0 .. n
      BY <3>1
    <3>3. S(n - d) = split[n - d].share + S(n - (d + 1)) /\ split[n - d].share \in Nat
      BY <3>2, SharesTyped
    <3>4. S(n - (d + 1)) \in Nat /\ S(n) \in Nat
      BY <1>1, <3>2, SharesTyped
    <3> HIDE DEF S, n
    <3> QED
      BY <3>1, <3>3, <3>4
  <2>3. T = Nat
    <3>1. T \in SUBSET Nat
      OBVIOUS
    <3> HIDE DEF T
    <3> QED
      BY <2>1, <2>2, <3>1, Induction
  <2>4. ASSUME NEW j \in 0 .. n PROVE S(j) \in Nat /\ S(j) <= S(n)
    <3>1. n - j \in Nat /\ n - j <= n /\ n - (n - j) = j
      BY <1>1
    <3>2. n - j \in T
      BY <2>3, <3>1
    <3> HIDE DEF S, n
    <3> QED
      BY <3>1, <3>2
  <2> QED
    BY <2>4
<1>3. S(Len(split)) <= 10000 /\ (split # <<>> => S(Len(split)) = 10000)
  BY <1>1, AllShares, NoneOfShares DEF SHARE_BASIS
<1>4. sent * 10000 <= payment * S(k) /\ payment * S(k) <= sent * 10000 + 9999 * k
  BY DEF SentToFirst, SHARE_BASIS
<1>5. S(k) \in Nat /\ S(k) <= 10000
  BY <1>1, <1>2, <1>3
<1> HIDE DEF S
<1>6. payment * S(k) <= payment * 10000
  BY <1>5
<1>7. sent <= payment
  BY <1>4, <1>5, <1>6
<1>8. ASSUME k = Len(split), split # <<>> PROVE payment - sent < Len(split)
  <2>1. payment * 10000 <= sent * 10000 + 9999 * k /\ k \in Nat \ {0}
    BY <1>1, <1>3, <1>4, <1>8
  <2> QED
    BY <1>8, <2>1
<1> QED
  BY <1>7, <1>8

\* A frame stays as it is, and so do the creators: nothing changes for it.
LEMMA PayoutKept ==
  ASSUME PayoutInv, creators' = creators,
         NEW m \in Nat, DOMAIN frames' = 1 .. m, 1 .. m \subseteq DOMAIN frames,
         \A i \in 1 .. m : frames'[i] = frames[i]
  PROVE  PayoutInv'
  BY DEF PayoutInv

LEMMA PayoutSame ==
  ASSUME PayoutInv, Inv, UNCHANGED <<creators, frames>>
  PROVE  PayoutInv'
  BY DEF PayoutInv

LEMMA PayoutPayStep ==
  ASSUME Inv, PayoutInv, PayCreator
  PROVE  PayoutInv'
<1> DEFINE n == Len(frames)
           k == Top.payees
           amount == ShareOf(Top.payment, creators[k + 1].share)
<1>1. /\ n \in Nat \ {0} /\ DOMAIN frames = 1 .. n /\ Top = frames[n]
      /\ Top \in Frame
  <2>1. frames \in Seq(Frame) /\ frames # <<>>
    BY DEF Inv, TypeOK, PayCreator, Idle
  <2>2. n \in Nat \ {0} /\ DOMAIN frames = 1 .. n
    BY <2>1, LenProperties, EmptySeq
  <2>3. Top = frames[n] /\ frames[n] \in Frame
    BY <2>1, <2>2, ElementOfSeq DEF Top, Last
  <2> QED
    BY <2>2, <2>3
<1>2. creators \in Seq(Creator)
  BY DEF Inv, TypeOK, StorageType, Storage
<1>3. k \in Nat /\ Top.payment \in Nat /\ Top.sent \in Nat /\ k < Len(creators)
  BY <1>1 DEF Frame, PayCreator
<1>4. SentToFirst(creators, Top.payment, k, Top.sent) /\ Top.saved.creators = creators
  BY <1>1 DEF PayoutInv
<1>5. SentToFirst(creators, Top.payment, k + 1, Top.sent + amount)
  BY <1>2, <1>3, <1>4, SentToNext
<1>6. PICK callee : frames' = [frames EXCEPT ![n] = [@ EXCEPT !.payees = k + 1,
                                   !.sent = Top.sent + amount, !.callee = callee]]
  BY <1>1 DEF PayCreator
<1> DEFINE paid == [Top EXCEPT !.payees = k + 1, !.sent = Top.sent + amount,
                               !.callee = callee]
<1>7. /\ DOMAIN frames' = 1 .. n /\ frames'[n] = paid
      /\ \A i \in 1 .. n : i # n => frames'[i] = frames[i]
  <2>1. frames' = [frames EXCEPT ![n] = paid]
    BY <1>1, <1>6
  <2>2. n \in DOMAIN frames /\ DOMAIN frames = 1 .. n
    BY <1>1
  <2> HIDE DEF paid, n
  <2> QED
    BY <2>1, <2>2
<1>8. /\ frames'[n].payees = k + 1 /\ frames'[n].sent = Top.sent + amount
      /\ frames'[n].payment = Top.payment /\ frames'[n].saved = Top.saved
  BY <1>1, <1>7 DEF Frame
<1>9. creators' = creators /\ Len(creators) \in Nat
  BY <1>2, LenProperties DEF PayCreator
<1>10. \A i \in DOMAIN frames :
         /\ frames[i].saved.creators = creators /\ frames[i].payees <= Len(creators)
         /\ SentToFirst(creators, frames[i].payment, frames[i].payees, frames[i].sent)
  BY DEF PayoutInv
<1> HIDE DEF amount, k, n
<1>11. ASSUME NEW i \in 1 .. n
       PROVE  /\ frames'[i].saved.creators = creators
              /\ frames'[i].payees <= Len(creators)
              /\ SentToFirst(creators, frames'[i].payment, frames'[i].payees, frames'[i].sent)
  <2>1. CASE i = n
    BY <1>3, <1>4, <1>5, <1>8, <1>9, <2>1
  <2>2. CASE i # n
    BY <1>1, <1>7, <1>10, <2>2
  <2> QED
    BY <2>1, <2>2
<1> QED
  BY <1>7, <1>9, <1>11 DEF PayoutInv

LEMMA PayoutMintStep ==
  ASSUME Inv, PayoutInv, NEW sender, NEW name, NEW payment \in Payments,
         Mint(sender, name, payment)
  PROVE  PayoutInv'
<1> DEFINE frame == [minter |-> sender, group |-> name, payment |-> payment, payees |-> 0,
                     sent |-> 0, callee |-> sender, saved |-> Storage]
           n == Len(frames)
<1>1. frames \in Seq(Frame) /\ creators \in Seq(Creator) /\ payment \in Nat
  BY SericaAssumption DEF Inv, TypeOK, StorageType, Storage
<1>2. n \in Nat /\ DOMAIN frames = 1 .. n /\ Len(creators) \in Nat
  BY <1>1, LenProperties
<1>3. frames' = Append(frames, frame) /\ creators' = creators
  BY DEF Mint
<1>4. /\ frame.saved.creators = creators /\ frame.payees = 0 /\ frame.sent = 0
      /\ frame.payment = payment
  BY DEF Storage
<1> HIDE DEF frame, n
<1>5. /\ DOMAIN frames' = 1 .. n + 1 /\ frames'[n + 1] = frame
      /\ \A i \in 1 .. n : frames'[i] = frames[i]
  BY <1>1, <1>2, <1>3 DEF n
<1>6. SentToFirst(creators, payment, 0, 0)
  BY <1>1, NoneOfShares DEF SentToFirst, SHARE_BASIS
<1>7. ASSUME NEW i \in 1 .. n + 1
      PROVE  /\ frames'[i].saved.creators = creators
             /\ frames'[i].payees <= Len(creators)
             /\ SentToFirst(creators, frames'[i].payment, frames'[i].payees, frames'[i].sent)
  <2>1. CASE i = n + 1
    BY <1>2, <1>4, <1>5, <1>6, <2>1
  <2>2. CASE i \in 1 .. n
    BY <1>2, <1>5, <2>2 DEF PayoutInv
  <2> QED
    BY <1>2, <2>1, <2>2
<1> QED
  BY <1>3, <1>5, <1>7 DEF PayoutInv

LEMMA PayoutStep ==
  ASSUME Inv, PayoutInv, AdminsAreWallets, [Next]_vars
  PROVE  PayoutInv'
<1>1. CASE FinishMint \/ Abort
  <2>1. frames \in Seq(Frame) /\ frames # <<>> /\ frames' = Front(frames)
    BY <1>1 DEF Inv, TypeOK, FinishMint, Abort, Idle
  <2>2. /\ Len(frames) \in Nat \ {0} /\ DOMAIN frames = 1 .. Len(frames)
        /\ DOMAIN frames' = 1 .. Len(frames) - 1 /\ Top = frames[Len(frames)]
        /\ \A i \in 1 .. Len(frames) - 1 : frames'[i] = frames[i]
    BY <2>1, FrontFrames
  <2>3. creators' = creators
    <3>1. Top.saved.creators = creators
      BY <2>2 DEF PayoutInv
    <3> QED
      BY <1>1, <3>1 DEF FinishMint, Abort, Restore
  <2> DEFINE m == Len(frames) - 1
  <2>4. /\ m \in Nat /\ DOMAIN frames' = 1 .. m /\ 1 .. m \subseteq DOMAIN frames
        /\ \A i \in 1 .. m : frames'[i] = frames[i]
    BY <2>2
  <2> HIDE DEF m
  <2> QED
    BY <2>3, <2>4, PayoutKept
<1>2. ASSUME NEW sender, NEW split \in CreatorSplits, SetCreators(sender, split)
      PROVE  PayoutInv'
  <2>1. frames = <<>>
    BY <1>2 DEF SetCreators, MayCall, Idle, HasRole, AdminsAreWallets
  <2>2. frames' = frames /\ creators' = split /\ TotalShares(split) = SHARE_BASIS
    BY <1>2 DEF SetCreators, ValidSplit
  <2> QED
    BY <2>1, <2>2 DEF PayoutInv
<1>3. ASSUME NEW sender, AdminCall(sender), \A split \in CreatorSplits : ~SetCreators(sender, split)
      PROVE  PayoutInv'
  <2>1. UNCHANGED <<creators, frames>>
    BY <1>3 DEF AdminCall, AddMintGroup, UpdateMintGroup, Pause, Unpause
  <2> QED
    BY <2>1, PayoutSame
<1>4. ASSUME NEW sender, BuyerCall(sender)
      PROVE  PayoutInv'
  <2>1. ASSUME NEW name, NEW payment, NEW quantity, BatchMint(sender, name, quantity, payment)
        PROVE  PayoutInv'
    BY <2>1, PayoutSame DEF BatchMint
  <2> QED
    BY <1>4, <2>1, PayoutMintStep DEF BuyerCall
<1>5. CASE Tick \/ UNCHANGED vars \/ \E sender : InheritedCall(sender)
  BY <1>5, PayoutSame DEF Tick, vars, InheritedCall
<1> QED
  BY <1>1, <1>2, <1>3, <1>4, <1>5, PayoutPayStep DEF Next

\* What the frames' amounts say of every mint that is paying.
LEMMA PayoutBounds ==
  ASSUME Inv, PayoutInv, NEW i \in DOMAIN frames
  PROVE  /\ frames[i].sent <= frames[i].payment
         /\ frames[i].payees = Len(creators) /\ creators # <<>>
              => frames[i].payment - frames[i].sent < Len(creators)
<1>1. frames[i] \in Frame /\ creators \in Seq(Creator)
  <2>1. frames \in Seq(Frame) /\ creators \in Seq(Creator)
    BY DEF Inv, TypeOK, StorageType, Storage
  <2> QED
    BY <2>1, ElementOfSeq, LenProperties
<1>2. frames[i].payment \in Nat /\ frames[i].sent \in Nat /\ frames[i].payees \in Nat
  BY <1>1 DEF Frame
<1>3. Len(creators) \in Nat /\ frames[i].payees \in 0 .. Len(creators)
  BY <1>1, <1>2, LenProperties DEF PayoutInv
<1>4. /\ SentToFirst(creators, frames[i].payment, frames[i].payees, frames[i].sent)
      /\ creators # <<>> => TotalShares(creators) = SHARE_BASIS
  BY DEF PayoutInv
<1> QED
  BY <1>1, <1>2, <1>3, <1>4, SentBounds

LEMMA PayoutInvariance == Spec /\ []AdminsAreWallets => []PayoutInv
<1>1. Init => PayoutInv
  BY DEF Init, PayoutInv
<1>2. Inv /\ PayoutInv /\ AdminsAreWallets /\ [Next]_vars => PayoutInv'
  BY PayoutStep
<1> QED
  BY <1>1, <1>2, Invariance, PTL DEF Spec

(***************************************************************************)
(* As long as no administrator is a contract, a mint, however its calls    *)
(* out nest, never pays its creators more than it was paid.                *)
(***************************************************************************)
THEOREM MintsNeverOverpay == Spec /\ []AdminsAreWallets => []NoOverpayment
<1>1. Inv /\ PayoutInv => NoOverpayment
  BY PayoutBounds DEF NoOverpayment
<1> QED
  BY <1>1, Invariance, PayoutInvariance, PTL

(***************************************************************************)
(* And when it ends, every creator was called with its share: less than a  *)
(* unit for each of them stays in the collection.                          *)
(***************************************************************************)
THEOREM MintsPayOut == Spec /\ []AdminsAreWallets => PayoutsComplete
<1>1. Inv /\ PayoutInv /\ FinishMint
        => creators = <<>> \/ Top.payment - Top.sent < Len(creators)
  <2> SUFFICES ASSUME Inv, PayoutInv, FinishMint, creators # <<>>
               PROVE  Top.payment - Top.sent < Len(creators)
    OBVIOUS
  <2>1. frames \in Seq(Frame) /\ frames # <<>> /\ creators \in Seq(Creator)
    BY DEF Inv, TypeOK, StorageType, Storage, FinishMint, Idle
  <2>2. Len(frames) \in DOMAIN frames /\ Top = frames[Len(frames)]
    BY <2>1, LenProperties, EmptySeq DEF Top, Last
  <2>3. Top \in Frame
    BY <2>1, <2>2, ElementOfSeq, LenProperties
  <2>4. Top.payees = Len(creators)
    <3>1. Top.payees >= Len(creators) /\ Top.payees \in Nat /\ Len(creators) \in Nat
      BY <2>1, <2>3, LenProperties DEF FinishMint, Frame
    <3>2. Top.payees <= Len(creators)
      BY <2>2 DEF PayoutInv
    <3> QED
      BY <3>1, <3>2
  <2> QED
    BY <2>2, <2>4, PayoutBounds
<1>2. Inv /\ PayoutInv /\ [Next]_vars
        => [FinishMint => \/ creators = <<>>
                          \/ Top.payment - Top.sent < Len(creators)]_vars
  BY <1>1
<1> QED
  BY <1>2, Invariance, PayoutInvariance, PTL DEF Spec, PayoutsComplete

\* What a mint would bring back is what it was, or, if it begins, the storage of now.
LEMMA SavedStep ==
  ASSUME Inv, [Next]_vars, NEW i \in DOMAIN frames'
  PROVE  \/ i \in DOMAIN frames /\ frames'[i].saved = frames[i].saved
         \/ frames'[i].saved = Storage
<1>1. frames \in Seq(Frame)
  BY DEF Inv, TypeOK
<1>2. CASE frames' = frames
  BY <1>2
<1>3. CASE FinishMint \/ Abort
  <2>1. frames # <<>> /\ frames' = Front(frames)
    BY <1>3 DEF FinishMint, Abort, Idle
  <2>2. /\ Len(frames) \in Nat \ {0} /\ DOMAIN frames = 1 .. Len(frames)
        /\ DOMAIN frames' = 1 .. Len(frames) - 1
        /\ \A j \in 1 .. Len(frames) - 1 : frames'[j] = frames[j]
    BY <1>1, <2>1, FrontFrames
  <2> QED
    BY <2>2
<1>4. CASE PayCreator
  <2>1. frames # <<>>
    BY <1>4 DEF PayCreator, Idle
  <2>2. Len(frames) \in DOMAIN frames
    BY <1>1, <2>1, LenProperties, EmptySeq
  <2>3. \E payees, sent, callee :
          frames' = [frames EXCEPT ![Len(frames)] =
                       [@ EXCEPT !.payees = payees, !.sent = sent, !.callee = callee]]
    BY <1>4 DEF PayCreator
  <2>4. \A j \in DOMAIN frames : frames[j] \in Frame
    BY <1>1, ElementOfSeq, LenProperties
  <2>5. DOMAIN frames' = DOMAIN frames /\ \A j \in DOMAIN frames : frames'[j].saved = frames[j].saved
    BY <2>2, <2>3, <2>4 DEF Frame
  <2> QED
    BY <2>5
<1>5. ASSUME NEW sender, NEW name, NEW payment, Mint(sender, name, payment)
      PROVE  \/ i \in DOMAIN frames /\ frames'[i].saved = frames[i].saved
             \/ frames'[i].saved = Storage
  <2> DEFINE n == Len(frames)
  <2>1. n \in Nat /\ DOMAIN frames = 1 .. n
    BY <1>1, LenProperties
  <2>2. PICK frame : frames' = Append(frames, frame) /\ frame.saved = Storage
    BY <1>5 DEF Mint
  <2>3. /\ DOMAIN frames' = 1 .. n + 1 /\ frames'[n + 1] = frame
        /\ \A j \in 1 .. n : frames'[j] = frames[j]
    BY <1>1, <2>1, <2>2
  <2> HIDE DEF n
  <2>4. i \in 1 .. n \/ i = n + 1
    BY <2>1, <2>3
  <2> QED
    BY <2>1, <2>2, <2>3, <2>4
<1>6. CASE \/ Tick \/ UNCHANGED vars
           \/ \E sender : AdminCall(sender) \/ InheritedCall(sender)
           \/ \E sender, name, payment, quantity : BatchMint(sender, name, quantity, payment)
  <2>1. frames' = frames
    BY <1>6 DEF Tick, vars, AdminCall, AddMintGroup, UpdateMintGroup, SetCreators, Pause, Unpause,
                InheritedCall, BatchMint
  <2> QED
    BY <1>2, <2>1
<1> QED
  BY <1>3, <1>4, <1>5, <1>6 DEF Next, BuyerCall

\* The hypothesis of the two.
AdminsInv ==
    /\ AdminsAreWallets
    /\ \A i \in DOMAIN frames : frames[i].saved.members[ADMIN_ROLE] \cap Contracts = {}

LEMMA AdminsStep ==
  ASSUME Inv, AdminsInv, Grantees \cap Contracts = {}, [Next]_vars
  PROVE  AdminsInv'
<1>1. frames \in Seq(Frame) /\ MembersTypeOK
  BY DEF Inv, TypeOK, StorageType, Storage, MembersTypeOK
<1>2. \A i \in DOMAIN frames' : frames'[i].saved.members[ADMIN_ROLE] \cap Contracts = {}
  <2>1. Storage.members = members
    BY DEF Storage
  <2> QED
    BY <2>1, SavedStep DEF AdminsInv, AdminsAreWallets
<1>3. CASE UNCHANGED members
  BY <1>2, <1>3 DEF AdminsInv, AdminsAreWallets
<1>4. CASE Abort
  <2>1. frames # <<>> /\ frames' = Front(frames) /\ members' = Top.saved.members
    BY <1>4 DEF Abort, Idle, Restore
  <2>2. Len(frames) \in DOMAIN frames /\ Top = frames[Len(frames)]
    BY <1>1, <2>1, FrontFrames
  <2> QED
    BY <1>2, <2>1, <2>2 DEF AdminsInv, AdminsAreWallets
<1>5. ASSUME NEW sender \in Accounts, RoleCall(sender) PROVE AdminsInv'
  BY <1>1, <1>2, <1>5, SericaAssumption
     DEF AdminsInv, AdminsAreWallets, MembersTypeOK, RoleCall, GrantRole, RevokeRole, RenounceRole
<1>6. \/ UNCHANGED members \/ Abort
      \/ \E sender \in Accounts : RoleCall(sender)
  <2>1. ASSUME NEW sender \in Accounts, BuyerCall(sender) \/ AdminCall(sender) PROVE UNCHANGED members
    BY <2>1 DEF BuyerCall, Mint, BatchMint, AdminCall, AddMintGroup, UpdateMintGroup, SetCreators,
                Pause, Unpause
  <2>2. PayCreator \/ FinishMint \/ Tick \/ UNCHANGED vars => UNCHANGED members
    BY DEF PayCreator, FinishMint, Tick, vars
  <2>3. ASSUME NEW sender \in Accounts, InheritedCall(sender)
        PROVE  UNCHANGED members \/ RoleCall(sender)
    BY <2>3 DEF InheritedCall
  <2> QED
    BY <2>1, <2>2, <2>3 DEF Next
<1> QED
  BY <1>3, <1>4, <1>5, <1>6

(***************************************************************************)
(* It is enough that the deployer, and those whom a role may be granted    *)
(* to, are wallets.                                                        *)
(***************************************************************************)
THEOREM AdminsStayWallets ==
  ASSUME Deployer \notin Contracts, Grantees \cap Contracts = {}
  PROVE  Spec => []AdminsAreWallets
<1>1. Init => AdminsInv
  BY SericaAssumption DEF Init, AdminsInv, AdminsAreWallets
<1>2. Inv /\ AdminsInv /\ [Next]_vars => AdminsInv'
  BY AdminsStep
<1>3. AdminsInv => AdminsAreWallets
  BY DEF AdminsInv
<1> QED
  BY <1>1, <1>2, <1>3, Invariance, PTL DEF Spec
-----------------------------------------------------------------------------
\* A mint changes no group but for the tokens it counts.
LEMMA CountKeepsGroups ==
  ASSUME Inv, NEW sender, NEW name, NEW q, CountMint(sender, name, q)
  PROVE  \A i \in DOMAIN mintGroups' :
           i \in DOMAIN mintGroups /\ mintGroups'[i].terms = mintGroups[i].terms
<1>1. mintGroups \in Seq(MintGroup)
  BY DEF Inv, TypeOK, StorageType, Storage
<1> DEFINE p == groupIndexByName[name]
<1>2. PICK group : mintGroups' = [mintGroups EXCEPT ![p] = group]
                   /\ (p \in DOMAIN mintGroups => group.terms = mintGroups[p].terms)
  <2>1. mintGroups' = [mintGroups EXCEPT ![p] =
                         [mintGroups[p] EXCEPT !.mintedInGroup = @ + q]]
    BY DEF CountMint
  <2>2. ASSUME p \in DOMAIN mintGroups
        PROVE  [mintGroups[p] EXCEPT !.mintedInGroup = @ + q].terms = mintGroups[p].terms
    <3>1. mintGroups[p] \in MintGroup
      BY <1>1, <2>2
    <3> QED
      BY <3>1 DEF MintGroup
  <2> QED
    BY <2>1, <2>2
<1> HIDE DEF p
<1> QED
  BY <1>1, <1>2

(***************************************************************************)
(* Nothing an administrator decides ever changes again once there is none: *)
(* no role is granted, the switch stays, the creators and the terms too.   *)
(***************************************************************************)
THEOREM NobodyThawsIt == Spec => OwnerlessIsFrozen
<1> DEFINE Frozen == /\ Ownerless'
                     /\ UNCHANGED <<paused, creators>>
                     /\ \A i \in DOMAIN mintGroups' :
                          i \in DOMAIN mintGroups
                            /\ mintGroups'[i].terms = mintGroups[i].terms
<1>1. ASSUME Inv, Idle, Ownerless, Next PROVE Frozen
  <2>1. ASSUME UNCHANGED <<members, paused, creators, mintGroups>> PROVE Frozen
    BY <1>1, <2>1 DEF Ownerless
  <2>2. ASSUME NEW sender \in Accounts, AdminCall(sender) PROVE FALSE
    <3>1. HasRole(ADMIN_ROLE, sender)
      BY <2>2 DEF AdminCall, AddMintGroup, UpdateMintGroup, SetCreators, Pause, Unpause
    <3> QED
      BY <1>1, <3>1 DEF Ownerless, HasRole
  <2>3. ASSUME NEW sender \in Accounts, BuyerCall(sender) PROVE Frozen
    <3>1. UNCHANGED <<members, paused, creators>>
      BY <2>3 DEF BuyerCall, Mint, BatchMint
    <3>2. \E name, q : CountMint(sender, name, q)
      BY <2>3 DEF BuyerCall, Mint, BatchMint, Issue
    <3>3. \A i \in DOMAIN mintGroups' :
            i \in DOMAIN mintGroups /\ mintGroups'[i].terms = mintGroups[i].terms
      BY <1>1, <3>2, CountKeepsGroups
    <3> QED
      BY <1>1, <3>1, <3>3 DEF Ownerless
  <2>4. ASSUME NEW sender \in Accounts, InheritedCall(sender) PROVE Frozen
    <3>1. UNCHANGED <<paused, creators, mintGroups>>
      BY <2>4 DEF InheritedCall, saleVars
    <3>2. CASE UNCHANGED members
      BY <2>1, <3>1, <3>2
    <3>3. CASE RoleCall(sender)
      <4>1. MembersTypeOK
        BY <1>1 DEF Inv, TypeOK, StorageType, Storage, MembersTypeOK
      <4>2. \A role \in Roles : members'[role] \subseteq members[role]
        BY <1>1, <2>4, <3>3, <4>1, AdminlessCall DEF Ownerless
      <4>3. DEFAULT_ADMIN_ROLE \in Roles /\ ADMIN_ROLE \in Roles
        BY AccessControlAssumption, SericaAssumption
      <4> QED
        BY <1>1, <3>1, <4>2, <4>3 DEF Ownerless
    <3> QED
      BY <2>4, <3>2, <3>3 DEF InheritedCall
  <2>5. ~PayCreator /\ ~FinishMint /\ ~Abort
    BY <1>1 DEF PayCreator, FinishMint, Abort
  <2>6. CASE Tick
    BY <2>1, <2>6 DEF Tick, saleVars
  <2> QED
    BY <1>1, <2>2, <2>3, <2>4, <2>5, <2>6 DEF Next
<1>2. Inv /\ [Next]_vars => [Idle /\ Ownerless => Frozen]_vars
  BY <1>1
<1> QED
  BY <1>2, Invariance, PTL DEF Spec, OwnerlessIsFrozen
=============================================================================
