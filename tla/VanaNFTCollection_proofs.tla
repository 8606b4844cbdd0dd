---------------------- MODULE VanaNFTCollection_proofs ----------------------
(***************************************************************************)
(* The inductive invariant of VanaNFTCollection, for any number of         *)
(* accounts, contracts, lists and nested mints.  A mint that goes well     *)
(* leaves its own event to announce; one that reverts brings back a        *)
(* storage of which the same was true.                                     *)
(***************************************************************************)
EXTENDS VanaNFTCollection, ERC721_proofs, AccessControl_proofs, SequenceTheorems

StorageTyped ==
    /\ ERC721TypeOK
    /\ MembersTypeOK
    /\ royalty \in Royalty
    /\ totalSupply \in 0 .. LastTokenId
    /\ merkleRoot \in Roots
    /\ whitelistMinted \in SUBSET Accounts
    /\ revealed \in BOOLEAN
    /\ baseTokenURI \in Uris
    /\ hiddenMetadataUri \in Uris
    /\ origin \in [TokenIds -> Origin \cup {NotMinted}]
    /\ events \in SUBSET Event

\* What the counter, the marks and the history say of the tokens.
MintsSound ==
    /\ \A id \in TokenIds : (owners[id] # Zero) <=> (id <= totalSupply)
    /\ \A id \in TokenIds : (origin[id] = NotMinted) <=> (id > totalSupply)
    /\ OnePerMark(Storage)
    /\ OvershootFits(Storage)

\* The storage and the history alone: what a reverted mint gives back is of this kind.
StorageSound == StorageTyped /\ LedgerInv /\ MintsSound
-----------------------------------------------------------------------------
\* Soundness of the storage, read variable by variable.
LEMMA SoundIff == Sound(Storage) <=> StorageSound
<1>1. Storage \in StorageType <=> StorageTyped
  BY DEF Storage, StorageType, StorageTyped, ERC721TypeOK, MembersTypeOK
<1>2. BalancesMatch(Storage.owners, Storage.balances) <=> BalancesMatchOwners
  BY DEF Storage, BalancesMatchOwners
<1>3. ApprovalsFit(Storage.owners, Storage.tokenApprovals) <=> ApprovalsFollowOwner
  BY DEF Storage, ApprovalsFollowOwner
<1>4. SequentialIds(Storage) <=> \A id \in TokenIds : (owners[id] # Zero) <=> (id <= totalSupply)
  BY DEF Storage, SequentialIds
<1>5. OriginsFit(Storage) <=>
        \A id \in TokenIds : (origin[id] = NotMinted) <=> (id > totalSupply)
  BY DEF Storage, OriginsFit
<1> QED
  BY <1>1, <1>2, <1>3, <1>4, <1>5 DEF Sound, StorageSound, MintsSound, LedgerInv, StorageTyped

LEMMA SoundIffPrime == Sound(Storage)' <=> StorageSound'
BY SoundIff, PTL

\* A reverted mint: the storage is the one that was saved.
LEMMA RestoreStorage ==
  ASSUME NEW s \in StorageType, Restore(s)
  PROVE  Storage' = s
BY DEF Storage, StorageType, Restore

\* The history of the mints does not depend on who owns the tokens.
LEMMA MintsStutter ==
  ASSUME MintsSound, UNCHANGED <<totalSupply, whitelistMinted, origin>>,
         \A id \in TokenIds : (owners[id] # Zero)' <=> owners[id] # Zero
  PROVE  MintsSound'
<1>1. \A a : ListedMints(Storage, a)' = ListedMints(Storage, a)
  BY DEF ListedMints, Storage
<1>2. OnePerMark(Storage)'
  BY <1>1 DEF MintsSound, OnePerMark, Storage
<1>3. OvershootFits(Storage)'
  BY DEF MintsSound, OvershootFits, Storage
<1> QED
  BY <1>2, <1>3 DEF MintsSound

\* Calls that touch neither the ledger nor the mints.
LEMMA OtherStep ==
  ASSUME StorageSound, UNCHANGED <<ledgerVars, totalSupply, whitelistMinted, origin>>,
         MembersTypeOK', royalty' \in Royalty, merkleRoot' \in Roots, revealed' \in BOOLEAN,
         baseTokenURI' \in Uris, hiddenMetadataUri' \in Uris, events' \in SUBSET Event
  PROVE  StorageSound'
<1>1. LedgerInv'
  BY LedgerStutter DEF StorageSound
<1>2. StorageTyped'
  BY <1>1 DEF StorageSound, StorageTyped, LedgerInv
<1>3. MintsSound'
  BY MintsStutter DEF StorageSound, ledgerVars
<1> QED
  BY <1>1, <1>2, <1>3 DEF StorageSound

LEMMA LedgerStep ==
  ASSUME StorageSound, NEW sender \in Accounts, LedgerCall(sender),
         UNCHANGED <<royalty, members, totalSupply, merkleRoot, whitelistMinted, metadataVars,
                     origin, events>>
  PROVE  StorageSound'
<1>1. LedgerInv'
  BY LedgerCallStep DEF StorageSound
<1>2. StorageTyped'
  BY <1>1 DEF StorageSound, StorageTyped, LedgerInv, MembersTypeOK, metadataVars
<1>3. MintsSound'
  BY MintsStutter, LedgerCallKeepsTokens DEF StorageSound, LedgerInv
<1> QED
  BY <1>1, <1>2, <1>3 DEF StorageSound
-----------------------------------------------------------------------------
\* The new token has no origin yet, and gets one; all others keep theirs.
LEMMA IssuedOrigin ==
  ASSUME StorageSound, NEW to \in Accounts, NEW call \in {"mint", "whitelistMint"},
         IssueTo(to, call)
  PROVE  /\ NewTokenId \in TokenIds
         /\ totalSupply' = totalSupply + 1
         /\ totalSupply' \in 0 .. LastTokenId
         /\ origin[NewTokenId] = NotMinted
         /\ origin' \in [TokenIds -> Origin \cup {NotMinted}]
         /\ origin'[NewTokenId] = [to |-> to, call |-> call]
         /\ \A id \in TokenIds \ {NewTokenId} : origin'[id] = origin[id]
<1>1. NewTokenId \in TokenIds
  BY DEF IssueTo, MintTokens
<1>2. NewTokenId = totalSupply + 1 /\ totalSupply' = totalSupply + 1
  BY DEF IssueTo, NewTokenId
<1>3. totalSupply \in 0 .. LastTokenId /\ origin \in [TokenIds -> Origin \cup {NotMinted}]
  BY DEF StorageSound, StorageTyped
<1>4. origin[NewTokenId] = NotMinted
  BY <1>1, <1>2, <1>3 DEF StorageSound, MintsSound
<1>5. [to |-> to, call |-> call] \in Origin
  BY DEF Origin
<1>6. origin' = [origin EXCEPT ![NewTokenId] = [to |-> to, call |-> call]]
  BY DEF IssueTo
<1>7. totalSupply' \in 0 .. LastTokenId
  BY <1>1, <1>2, <1>3, VanaAssumption
<1> QED
  BY <1>1, <1>2, <1>3, <1>4, <1>5, <1>6, <1>7

\* What the new count includes, of the tokens: the old ones and the new one.
LEMMA CountAfterIssue ==
  ASSUME StorageSound, NEW to \in Accounts, NEW call \in {"mint", "whitelistMint"},
         IssueTo(to, call)
  PROVE  /\ NewTokenId \in TokenIds
         /\ NewTokenId = totalSupply + 1
         /\ totalSupply' = totalSupply + 1
         /\ ~(NewTokenId <= totalSupply)
         /\ \A id \in TokenIds : id <= totalSupply' <=> (id <= totalSupply \/ id = NewTokenId)
         /\ \A id \in TokenIds : id > totalSupply' <=> (id > totalSupply /\ id # NewTokenId)
<1>1. \A id \in TokenIds : id \in Int
  BY VanaAssumption
<1>2. NewTokenId \in TokenIds /\ totalSupply' = totalSupply + 1
  BY IssuedOrigin
<1>3. totalSupply \in Nat
  BY DEF StorageSound, StorageTyped
<1> QED
  BY <1>1, <1>2, <1>3 DEF NewTokenId

\* The listed tokens of a wallet after a mint.
LEMMA ListedAfterIssue ==
  ASSUME StorageSound, NEW to \in Accounts, NEW call \in {"mint", "whitelistMint"},
         IssueTo(to, call), NEW a \in Accounts
  PROVE  LET old == ListedMints(Storage, a)
             new == ListedMints(Storage, a)'
         IN  Cardinality(new) = IF a = to /\ call = "whitelistMint"
                                  THEN Cardinality(old) + 1 ELSE Cardinality(old)
<1> DEFINE old == ListedMints(Storage, a)
           new == ListedMints(Storage, a)'
           mine == [to |-> a, call |-> "whitelistMint"]
<1>1. old = {id \in TokenIds : origin[id] = mine} /\ new = {id \in TokenIds : origin'[id] = mine}
  BY DEF ListedMints, Storage
<1>2. NewTokenId \notin old
  <2>1. NotMinted.call # mine.call
    BY DEF NotMinted
  <2> QED
    BY <1>1, <2>1, IssuedOrigin
<1>3. CASE a = to /\ call = "whitelistMint"
  <2>1. new = old \cup {NewTokenId}
    BY <1>1, <1>3, IssuedOrigin
  <2>2. IsFiniteSet(old)
    BY <1>1, FS_Subset, ERC721Assumption
  <2> HIDE DEF old, new
  <2>3. Cardinality(new) = Cardinality(old) + 1
    BY <1>2, <2>1, <2>2, FS_AddElement
  <2> QED
    BY <1>3, <2>3 DEF old, new
<1>4. CASE ~(a = to /\ call = "whitelistMint")
  <2>1. [to |-> to, call |-> call] # mine
    <3>1. [to |-> to, call |-> call].to = to /\ [to |-> to, call |-> call].call = call
      OBVIOUS
    <3>2. mine.to = a /\ mine.call = "whitelistMint"
      OBVIOUS
    <3> QED
      BY <1>4, <3>1, <3>2
  <2>2. NewTokenId \notin new
    BY <1>1, <2>1, IssuedOrigin
  <2> HIDE DEF mine
  <2>3. new = old
    BY <1>1, <1>2, <2>2, IssuedOrigin
  <2> QED
    BY <1>4, <2>3
<1> QED
  BY <1>3, <1>4

\* A mint, of either kind: by a minter below the supply, or by a wallet without a mark.
LEMMA IssueStep ==
  ASSUME StorageSound, NEW to \in Accounts, NEW call \in {"mint", "whitelistMint"},
         IssueTo(to, call),
         \/ call = "mint" /\ SupplyLeft /\ UNCHANGED whitelistMinted
         \/ call = "whitelistMint" /\ to \notin whitelistMinted /\ Mark(to)
  PROVE  StorageSound'
<1>1. /\ LedgerInv /\ StorageTyped /\ MintsSound
      /\ totalSupply \in Nat
      /\ whitelistMinted \in SUBSET Accounts
  BY DEF StorageSound, StorageTyped
<1>2. LedgerInv'
  BY <1>1, MintTokensStep DEF IssueTo
<1>3. whitelistMinted' \in SUBSET Accounts
  BY <1>1 DEF Mark
<1>4. StorageTyped'
  <2>1. UNCHANGED <<royalty, members, merkleRoot, metadataVars, events>>
    BY DEF IssueTo
  <2> QED
    BY <1>1, <1>2, <1>3, <2>1, IssuedOrigin
       DEF StorageTyped, LedgerInv, MembersTypeOK, metadataVars
<1>5. /\ NewTokenId \in TokenIds
      /\ NewTokenId = totalSupply + 1
      /\ totalSupply' = totalSupply + 1
      /\ \A id \in TokenIds : id <= totalSupply' <=> (id <= totalSupply \/ id = NewTokenId)
      /\ \A id \in TokenIds : id > totalSupply' <=> (id > totalSupply /\ id # NewTokenId)
  BY CountAfterIssue
<1>6. /\ \A id \in TokenIds : (owners'[id] # Zero) <=> (id <= totalSupply')
      /\ \A id \in TokenIds : (origin'[id] = NotMinted) <=> (id > totalSupply')
  <2>1. owners' = [id \in TokenIds |-> IF id \in {NewTokenId} THEN to ELSE owners[id]]
    BY DEF IssueTo, MintTokens
  <2>2. \A id \in TokenIds : (owners'[id] # Zero) <=> (id <= totalSupply')
    BY <1>1, <1>5, <2>1, AccountsAssumption DEF MintsSound
  <2>3. origin'[NewTokenId] # NotMinted
    <3>1. origin'[NewTokenId].call = call
      <4>1. origin'[NewTokenId] = [to |-> to, call |-> call]
        BY IssuedOrigin
      <4> QED
        BY <4>1
    <3>2. NotMinted.call = "none"
      BY DEF NotMinted
    <3> QED
      BY <3>1, <3>2
  <2>4. \A id \in TokenIds : (origin'[id] = NotMinted) <=> (id > totalSupply')
    BY <1>1, <1>5, <2>3, IssuedOrigin DEF MintsSound
  <2> QED
    BY <2>2, <2>4
<1>7. OnePerMark(Storage)'
  <2> SUFFICES ASSUME NEW a \in Accounts
               PROVE  Cardinality(ListedMints(Storage, a)')
                        = IF a \in whitelistMinted' THEN 1 ELSE 0
    BY DEF OnePerMark, Storage
  <2>1. Cardinality(ListedMints(Storage, a)) = IF a \in whitelistMinted THEN 1 ELSE 0
    BY <1>1 DEF MintsSound, OnePerMark, Storage
  <2> QED
    BY <2>1, ListedAfterIssue DEF Mark
<1>8. OvershootFits(Storage)'
  <2>1. IsFiniteSet(whitelistMinted) /\ Cardinality(whitelistMinted) \in Nat
    BY <1>1, FS_Subset, FS_CardinalityType, AccountsAssumption
  <2>2. ASSUME NEW id \in TokenIds, id > MaxSupply, id <= totalSupply'
        PROVE  origin'[id].call = "whitelistMint"
    <3>1. CASE id = NewTokenId
      <4>1. call = "whitelistMint"
        BY <1>1, <1>5, <2>2, <3>1, VanaAssumption DEF SupplyLeft
      <4>2. origin'[NewTokenId].call = call
        <5>1. origin'[NewTokenId] = [to |-> to, call |-> call]
          BY IssuedOrigin
        <5> QED
          BY <5>1
      <4> QED
        BY <3>1, <4>1, <4>2
    <3>2. CASE id # NewTokenId
      <4>1. id <= totalSupply
        BY <1>5, <2>2, <3>2
      <4> QED
        BY <1>1, <2>2, <3>2, <4>1, IssuedOrigin DEF MintsSound, OvershootFits, Storage
    <3> QED
      BY <3>1, <3>2
  <2>3. totalSupply <= MaxSupply + Cardinality(whitelistMinted)
    BY <1>1 DEF MintsSound, OvershootFits, Storage
  <2>4. totalSupply' <= MaxSupply + Cardinality(whitelistMinted')
    <3>1. CASE call = "mint" /\ SupplyLeft /\ UNCHANGED whitelistMinted
      BY <1>1, <1>5, <2>1, <3>1, VanaAssumption DEF SupplyLeft
    <3>2. CASE to \notin whitelistMinted /\ Mark(to)
      <4>1. Cardinality(whitelistMinted') = Cardinality(whitelistMinted) + 1
        BY <2>1, <3>2, FS_AddElement DEF Mark
      <4> QED
        BY <1>1, <1>5, <2>1, <2>3, <4>1, VanaAssumption
    <3> QED
      BY <3>1, <3>2
  <2> QED
    BY <2>2, <2>4 DEF OvershootFits, Storage
<1> QED
  BY <1>2, <1>4, <1>6, <1>7, <1>8 DEF StorageSound, MintsSound
-----------------------------------------------------------------------------
\* Popping the innermost mint.
LEMMA FrontFrames ==
  ASSUME frames \in Seq(Frame), frames # <<>>, frames' = Front(frames)
  PROVE  /\ frames' \in Seq(Frame)
         /\ Len(frames) \in Nat \ {0}
         /\ DOMAIN frames = 1 .. Len(frames)
         /\ Len(frames') = Len(frames) - 1
         /\ DOMAIN frames' = 1 .. Len(frames) - 1
         /\ \A i \in 1 .. Len(frames) - 1 : frames'[i] = frames[i]
         /\ Top = frames[Len(frames)]
         /\ Top \in Frame
<1> DEFINE n == Len(frames)
<1>1. n \in Nat \ {0} /\ DOMAIN frames = 1 .. n /\ \A i \in 1 .. n : frames[i] \in Frame
  BY ElementOfSeq, LenProperties, EmptySeq
<1>2. frames' = SubSeq(frames, 1, n - 1)
  BY DEF Front
<1>3. /\ frames' \in Seq(Frame)
      /\ Len(frames') = n - 1
      /\ \A i \in 1 .. n - 1 : frames'[i] = frames[i]
  BY <1>1, <1>2, SubSeqProperties
<1> QED
  BY <1>1, <1>3, LenProperties DEF Top, Last

\* What the first n frames have to announce depends on no others.
LEMMA PendingKept ==
  ASSUME NEW n \in Nat, \A i \in 1 .. n : frames'[i] = frames[i]
  PROVE  Pending(n)' = Pending(n)
BY DEF Pending, EventOf

\* The storages saved in the first n frames stay what they were.
LEMMA FramesKept ==
  ASSUME FramesSound, NEW n \in Nat, 1 .. n \subseteq DOMAIN frames,
         \A i \in 1 .. n : frames'[i] = frames[i]
  PROVE  \A i \in 1 .. n : (Sound(frames[i].saved) /\ PendingFits(frames[i].saved, i - 1))'
<1> SUFFICES ASSUME NEW i \in 1 .. n
             PROVE  (Sound(frames[i].saved) /\ PendingFits(frames[i].saved, i - 1))'
  OBVIOUS
<1>1. /\ Sound(frames[i].saved)
      /\ Announced(frames[i].saved) = frames[i].saved.events \cup Pending(i - 1)
  BY DEF FramesSound, PendingFits
<1>2. frames'[i] = frames[i]
  OBVIOUS
<1>3. Pending(i - 1)' = Pending(i - 1)
  BY PendingKept
<1> QED
  BY <1>1, <1>2, <1>3 DEF PendingFits

\* A call that mints nothing, and leaves the stack as it is.
LEMMA SameFrames ==
  ASSUME VanaInv, UNCHANGED <<frames, totalSupply, origin, events>>, StorageSound'
  PROVE  VanaInv'
<1>1. Sound(Storage)' /\ (Storage \in StorageType)'
  BY SoundIffPrime DEF Sound
<1>2. /\ frames \in Seq(Frame)
      /\ Len(frames) \in Nat
      /\ DOMAIN frames = 1 .. Len(frames)
  BY LenProperties DEF VanaInv, TypeOK
<1>3. FramesSound'
  BY <1>2, FramesKept DEF VanaInv, FramesSound
<1>4. Announced(Storage)' = Announced(Storage)
  BY DEF Announced, Storage
<1>5. PendingFits(Storage, Len(frames))'
  <2>1. Pending(Len(frames))' = Pending(Len(frames))
    BY DEF Pending, EventOf
  <2>2. Storage.events' = Storage.events
    BY DEF Storage
  <2> QED
    BY <1>4, <2>1, <2>2 DEF VanaInv, PendingFits
<1> QED
  BY <1>1, <1>2, <1>3, <1>5 DEF VanaInv, TypeOK

\* A mint pushes a frame that has its own token to announce, and the present storage.
LEMMA PushStep ==
  ASSUME VanaInv, NEW to \in Accounts, NEW call \in {"mint", "whitelistMint"},
         IssueTo(to, call), StorageSound'
  PROVE  VanaInv'
<1>n. PICK n \in Nat : n = Len(frames)
  BY LenProperties DEF VanaInv, TypeOK
<1> DEFINE frame == [to |-> to, id |-> NewTokenId, call |-> call, saved |-> Storage]
           event == [to |-> to, id |-> NewTokenId, call |-> call]
<1>1. StorageSound
  BY SoundIff DEF VanaInv
<1>2. frame \in Frame
  BY <1>1, IssuedOrigin DEF VanaInv, TypeOK, Frame
<1>3. frame.saved = Storage /\ EventOf(frame) = event /\ frames' = Append(frames, frame)
  BY DEF IssueTo, EventOf
<1> HIDE DEF frame
<1>4. /\ n \in Nat
      /\ DOMAIN frames = 1 .. n
      /\ frames' \in Seq(Frame)
      /\ Len(frames') = n + 1
      /\ DOMAIN frames' = 1 .. n + 1
      /\ \A i \in 1 .. n : frames'[i] = frames[i]
      /\ frames'[n + 1] = frame
  <2>1. frames \in Seq(Frame)
    BY DEF VanaInv, TypeOK
  <2> QED
    BY <1>n, <1>2, <1>3, <2>1, AppendProperties, LenProperties
<1>5. Sound(Storage)' /\ (Storage \in StorageType)'
  BY SoundIffPrime DEF Sound
<1>6. Pending(n)' = Pending(n)
  BY <1>4, PendingKept
<1>7. FramesSound'
  <2>1. Sound(Storage) /\ Announced(Storage) = Storage.events \cup Pending(n)
    BY <1>n DEF VanaInv, PendingFits
  <2>2. Announced(Storage) = Storage.events \cup Pending(n)'
    BY <1>6, <2>1
  <2>3. (Sound(frames[n + 1].saved) /\ PendingFits(frames[n + 1].saved, n + 1 - 1))'
    BY <1>3, <1>4, <2>1, <2>2 DEF PendingFits
  <2>4. \A i \in 1 .. n : (Sound(frames[i].saved) /\ PendingFits(frames[i].saved, i - 1))'
    BY <1>4, FramesKept DEF VanaInv
  <2> QED
    BY <1>4, <2>3, <2>4 DEF FramesSound
<1>8. Announced(Storage)' = Announced(Storage) \cup {event}
  <2>1. \A t \in TokenIds : t <= totalSupply' <=> (t <= totalSupply \/ t = NewTokenId)
    BY <1>1, CountAfterIssue
  <2>2. ~(NewTokenId <= totalSupply) /\ NewTokenId \in TokenIds
    BY <1>1, CountAfterIssue
  <2>3. origin'[NewTokenId].to = to /\ origin'[NewTokenId].call = call
    <3>1. origin'[NewTokenId] = [to |-> to, call |-> call]
      BY <1>1, IssuedOrigin
    <3> QED
      BY <3>1
  <2> DEFINE E(o, id) == [to |-> o[id].to, id |-> id, call |-> o[id].call]
             old == {t \in TokenIds : t <= totalSupply}
             new == {t \in TokenIds : t <= totalSupply'}
  <2>4. new = old \cup {NewTokenId}
    BY <2>1, <2>2
  <2>5. \A t \in old : E(origin', t) = E(origin, t)
    BY <1>1, <2>2, IssuedOrigin
  <2>6. E(origin', NewTokenId) = event
    BY <2>3
  <2>7. /\ Announced(Storage) = {E(origin, id) : id \in old}
        /\ Announced(Storage)' = {E(origin', id) : id \in new}
    BY DEF Announced, Storage
  <2> HIDE DEF E, old, new, event
  <2> QED
    BY <2>4, <2>5, <2>6, <2>7
<1>9. Pending(n + 1)' = Pending(n) \cup {event}
  <2>1. Pending(n + 1)' = {EventOf(frames'[i]) : i \in 1 .. n + 1}
    BY DEF Pending, EventOf
  <2>2. Pending(n) = {EventOf(frames'[i]) : i \in 1 .. n}
    BY <1>4 DEF Pending
  <2>3. EventOf(frames'[n + 1]) = event
    BY <1>3, <1>4
  <2>4. 1 .. n + 1 = (1 .. n) \cup {n + 1}
    BY <1>4
  <2> HIDE DEF event
  <2> QED
    BY <2>1, <2>2, <2>3, <2>4
<1>10. PendingFits(Storage, Len(frames))'
  <2>1. Announced(Storage) = Storage.events \cup Pending(n)
    BY <1>n DEF VanaInv, PendingFits
  <2>2. Storage.events' = Storage.events
    BY DEF Storage, IssueTo
  <2>3. Announced(Storage)' = Storage.events' \cup Pending(n + 1)'
    BY <1>8, <1>9, <2>1, <2>2
  <2>4. Len(frames)' = n + 1
    BY <1>4
  <2> QED
    BY <2>3, <2>4 DEF PendingFits
<1> QED
  BY <1>4, <1>5, <1>7, <1>10 DEF VanaInv, TypeOK

\* The end of a mint announces the token of its frame.
LEMMA FinishMintStep ==
  ASSUME VanaInv, FinishMint
  PROVE  VanaInv'
<1>n. PICK n \in Nat : n = Len(frames)
  BY LenProperties DEF VanaInv, TypeOK
<1>1. /\ frames' \in Seq(Frame)
      /\ n \in Nat \ {0}
      /\ DOMAIN frames = 1 .. n
      /\ Len(frames') = n - 1
      /\ DOMAIN frames' = 1 .. n - 1
      /\ \A i \in 1 .. n - 1 : frames'[i] = frames[i]
      /\ Top = frames[n]
      /\ Top \in Frame
  BY <1>n, FrontFrames DEF VanaInv, TypeOK, FinishMint, Idle
<1>2. StorageSound
  BY SoundIff DEF VanaInv
<1>3. events' = events \cup {EventOf(Top)} /\ events' \in SUBSET Event
  BY <1>1, <1>2 DEF FinishMint, EventOf, Frame, Event, StorageSound, StorageTyped
<1>4. StorageSound'
  BY <1>2, <1>3, OtherStep
     DEF FinishMint, StorageSound, StorageTyped, MembersTypeOK, metadataVars
<1>5. Sound(Storage)' /\ (Storage \in StorageType)'
  BY <1>4, SoundIffPrime DEF Sound
<1>6. FramesSound'
  <2>1. n - 1 \in Nat /\ 1 .. n - 1 \subseteq DOMAIN frames /\ FramesSound
    BY <1>1 DEF VanaInv
  <2>2. \A i \in 1 .. n - 1 : (Sound(frames[i].saved) /\ PendingFits(frames[i].saved, i - 1))'
    BY <1>1, <2>1, FramesKept
  <2> QED
    BY <1>1, <2>2 DEF FramesSound
<1>7. Pending(n) = Pending(n - 1)' \cup {EventOf(Top)}
  <2>1. Pending(n - 1)' = {EventOf(frames[i]) : i \in 1 .. n - 1}
    BY <1>1, PendingKept DEF Pending
  <2>2. Pending(n) = {EventOf(frames[i]) : i \in 1 .. n}
    BY DEF Pending
  <2>3. 1 .. n = (1 .. n - 1) \cup {n}
    BY <1>1
  <2> QED
    BY <1>1, <2>1, <2>2, <2>3
<1>8. PendingFits(Storage, Len(frames))'
  <2>1. Announced(Storage) = events \cup Pending(n)
    BY <1>n DEF VanaInv, PendingFits, Storage
  <2>2. Announced(Storage)' = Announced(Storage)
    BY DEF Announced, Storage, FinishMint
  <2>3. Storage.events' = events'
    BY DEF Storage
  <2>4. Len(frames)' = n - 1
    BY <1>1
  <2> QED
    BY <1>3, <1>7, <2>1, <2>2, <2>3, <2>4 DEF PendingFits
<1> QED
  BY <1>1, <1>5, <1>6, <1>8 DEF VanaInv, TypeOK

\* A mint that reverts: what is true of the saved storage is true again of the present one.
LEMMA AbortStep ==
  ASSUME VanaInv, Abort
  PROVE  VanaInv'
<1>n. PICK n \in Nat : n = Len(frames)
  BY LenProperties DEF VanaInv, TypeOK
<1> DEFINE s == Top.saved
<1>1. /\ frames' \in Seq(Frame)
      /\ n \in Nat \ {0}
      /\ DOMAIN frames = 1 .. n
      /\ Len(frames') = n - 1
      /\ DOMAIN frames' = 1 .. n - 1
      /\ \A i \in 1 .. n - 1 : frames'[i] = frames[i]
      /\ Top = frames[n]
  BY <1>n, FrontFrames DEF VanaInv, TypeOK, Abort, Idle
<1>2. Sound(s) /\ s \in StorageType /\ Announced(s) = s.events \cup Pending(n - 1)
  BY <1>1 DEF VanaInv, FramesSound, Sound, PendingFits
<1>3. Storage' = s
  BY <1>2, RestoreStorage DEF Abort
<1>4. FramesSound'
  <2>1. n - 1 \in Nat /\ 1 .. n - 1 \subseteq DOMAIN frames /\ FramesSound
    BY <1>1 DEF VanaInv
  <2>2. \A i \in 1 .. n - 1 : (Sound(frames[i].saved) /\ PendingFits(frames[i].saved, i - 1))'
    BY <1>1, <2>1, FramesKept
  <2> QED
    BY <1>1, <2>2 DEF FramesSound
<1>5. PendingFits(Storage, Len(frames))'
  <2>1. Pending(n - 1)' = Pending(n - 1)
    BY <1>1, PendingKept
  <2>2. Len(frames)' = n - 1
    BY <1>1
  <2> HIDE DEF s
  <2> QED
    BY <1>2, <1>3, <2>1, <2>2 DEF PendingFits
<1> QED
  BY <1>1, <1>2, <1>3, <1>4, <1>5 DEF VanaInv, TypeOK

\* A royalty that is set is at most the whole price.
LEMMA RoyaltyType ==
  ASSUME NEW receiver \in Addresses, NEW fee \in Nat, SetDefaultRoyalty(receiver, fee)
  PROVE  royalty' \in Royalty
BY DEF SetDefaultRoyalty, Royalty, FEE_DENOMINATOR

LEMMA CallStep ==
  ASSUME VanaInv, NEW sender \in Accounts, AdminCall(sender) \/ InheritedCall(sender)
  PROVE  VanaInv'
<1>1. StorageSound /\ StorageTyped
  BY SoundIff DEF VanaInv, StorageSound
<1>2. UNCHANGED <<frames, totalSupply, whitelistMinted, origin, events>>
  BY DEF AdminCall, InheritedCall
<1>3. CASE AdminCall(sender)
  <2>1. UNCHANGED <<ledgerVars, members>>
    BY <1>3 DEF AdminCall
  <2>2. /\ royalty' \in Royalty /\ merkleRoot' \in Roots /\ revealed' \in BOOLEAN
        /\ baseTokenURI' \in Uris /\ hiddenMetadataUri' \in Uris
    <3> USE <1>1 DEF StorageTyped
    <3>1. CASE \E root \in Roots : SetMerkleRoot(root)
      BY <3>1 DEF SetMerkleRoot, metadataVars
    <3>2. CASE \E terms \in Royalties : SetRoyaltyInfo(terms.receiver, terms.fraction)
      <4>1. PICK terms \in Royalties : SetRoyaltyInfo(terms.receiver, terms.fraction)
        BY <3>2
      <4>2. terms.receiver \in Addresses /\ terms.fraction \in Nat
        BY VanaAssumption
      <4>3. royalty' \in Royalty
        BY <4>1, <4>2, RoyaltyType DEF SetRoyaltyInfo
      <4> QED
        BY <4>1, <4>3 DEF SetRoyaltyInfo, metadataVars
    <3>3. CASE Reveal
      BY <3>3 DEF Reveal
    <3>4. CASE \E uri \in Uris : SetBaseURI(uri) \/ SetHiddenMetadataUri(uri)
      BY <3>4 DEF SetBaseURI, SetHiddenMetadataUri
    <3> QED
      BY <1>3, <3>1, <3>2, <3>3, <3>4 DEF AdminCall
  <2>3. StorageSound'
    BY <1>1, <1>2, <2>1, <2>2, OtherStep DEF StorageTyped, MembersTypeOK
  <2> QED
    BY <1>2, <2>3, SameFrames
<1>4. CASE InheritedCall(sender)
  <2>1. UNCHANGED <<royalty, merkleRoot, metadataVars>>
    BY <1>4 DEF InheritedCall
  <2>2. CASE LedgerCall(sender) /\ UNCHANGED members
    <3>1. StorageSound'
      BY <1>1, <1>2, <2>1, <2>2, LedgerStep
    <3> QED
      BY <1>2, <3>1, SameFrames
  <2>3. CASE RoleCall(sender) /\ UNCHANGED ledgerVars
    <3>1. MembersTypeOK'
      BY <1>1, <2>3, RoleCallType DEF StorageTyped
    <3>2. StorageSound'
      BY <1>1, <1>2, <2>1, <2>3, <3>1, OtherStep DEF StorageTyped, metadataVars
    <3> QED
      BY <1>2, <3>2, SameFrames
  <2> QED
    BY <1>4, <2>2, <2>3 DEF InheritedCall
<1> QED
  BY <1>3, <1>4
-----------------------------------------------------------------------------
LEMMA InitInv == Init => VanaInv
<1> SUFFICES ASSUME Init PROVE VanaInv
  OBVIOUS
<1>1. LedgerInv
  BY LedgerInit DEF Init
<1>2. StorageTyped
  <2>1. MembersTypeOK
    BY VanaAssumption DEF Init, MembersTypeOK
  <2>2. totalSupply \in 0 .. LastTokenId
    BY VanaAssumption DEF Init
  <2>3. origin \in [TokenIds -> Origin \cup {NotMinted}]
    BY DEF Init
  <2>4. royalty \in Royalty
    BY DEF Init
  <2> QED
    BY <1>1, <2>1, <2>2, <2>3, <2>4 DEF Init, StorageTyped, LedgerInv
<1>3. /\ totalSupply = 0 /\ whitelistMinted = {} /\ events = {} /\ frames = <<>>
      /\ origin = [id \in TokenIds |-> NotMinted]
      /\ owners = [id \in TokenIds |-> Zero]
  BY DEF Init, ERC721Init
<1>4. \A id \in TokenIds : id > totalSupply /\ ~(id <= totalSupply)
  BY <1>3, VanaAssumption
<1>5. MintsSound
  <2>1. \A a \in Accounts : ListedMints(Storage, a) = {}
    <3>1. \A a : NotMinted # [to |-> a, call |-> "whitelistMint"]
      <4>1. NotMinted.call = "none"
        BY DEF NotMinted
      <4> QED
        BY <4>1
    <3> QED
      BY <1>3, <3>1 DEF ListedMints, Storage
  <2>2. OnePerMark(Storage)
    BY <1>3, <2>1, FS_EmptySet DEF OnePerMark, Storage
  <2>3. OvershootFits(Storage)
    BY <1>3, <1>4, FS_EmptySet, VanaAssumption DEF OvershootFits, Storage
  <2> QED
    BY <1>3, <1>4, <2>2, <2>3 DEF MintsSound
<1>6. Sound(Storage)
  BY <1>1, <1>2, <1>5, SoundIff DEF StorageSound
<1>7. frames \in Seq(Frame) /\ DOMAIN frames = {} /\ Len(frames) = 0
  BY <1>3, EmptySeq
<1>8. PendingFits(Storage, Len(frames))
  <2>1. Pending(0) = {}
    BY DEF Pending
  <2>2. Announced(Storage) = {} /\ Storage.events = {}
    BY <1>3, <1>4 DEF Announced, Storage
  <2> QED
    BY <1>7, <2>1, <2>2 DEF PendingFits
<1> QED
  BY <1>6, <1>7, <1>8 DEF VanaInv, TypeOK, Sound, FramesSound

LEMMA NextInv == VanaInv /\ [Next]_vars => VanaInv'
<1> SUFFICES ASSUME VanaInv, [Next]_vars PROVE VanaInv'
  OBVIOUS
<1>1. StorageSound
  BY SoundIff DEF VanaInv
<1>2. ASSUME NEW sender \in Accounts, NEW to \in Accounts, Mint(sender, to) PROVE VanaInv'
  <2>1. IssueTo(to, "mint") /\ SupplyLeft /\ UNCHANGED whitelistMinted
    BY <1>2 DEF Mint
  <2> QED
    BY <1>1, <2>1, IssueStep, PushStep
<1>3. ASSUME NEW sender \in Accounts, WhitelistMint(sender) PROVE VanaInv'
  <2>1. IssueTo(sender, "whitelistMint") /\ sender \notin whitelistMinted /\ Mark(sender)
    BY <1>3 DEF WhitelistMint
  <2> QED
    BY <1>1, <2>1, IssueStep, PushStep
<1>4. ASSUME UNCHANGED vars PROVE VanaInv'
  <2>1. UNCHANGED <<ledgerVars, royalty, members, totalSupply, merkleRoot, whitelistMinted,
                    metadataVars, frames, origin, events>>
    BY <1>4 DEF vars
  <2>2. StorageSound'
    BY <1>1, <2>1, OtherStep DEF StorageSound, StorageTyped, MembersTypeOK, metadataVars
  <2> QED
    BY <2>1, <2>2, SameFrames
<1> QED
  BY <1>2, <1>3, <1>4, CallStep, FinishMintStep, AbortStep DEF Next

(***************************************************************************)
(* The inductive invariant holds of the collection.                        *)
(***************************************************************************)
THEOREM VanaInvariance == Spec => []VanaInv
BY InitInv, NextInv, PTL DEF Spec

(***************************************************************************)
(* Type correctness.                                                       *)
(***************************************************************************)
THEOREM VanaTypeCorrectness == Spec => []TypeOK
<1>1. VanaInv => TypeOK
  BY DEF VanaInv
<1> QED
  BY <1>1, VanaInvariance, PTL

(***************************************************************************)
(* The two mints give out the ids 1 .. totalSupply.                        *)
(***************************************************************************)
THEOREM VanaTokensSequential == Spec => []TokensAreSequential
<1>1. VanaInv => TokensAreSequential
  BY DEF VanaInv, Sound, TokensAreSequential
<1> QED
  BY <1>1, VanaInvariance, PTL

(***************************************************************************)
(* A wallet takes one listed token at most, whatever lists follow.         *)
(***************************************************************************)
THEOREM ListedTokensOnce == Spec => []OneListedToken
<1>1. VanaInv => OneListedToken
  BY DEF VanaInv, Sound, OneListedToken
<1> QED
  BY <1>1, VanaInvariance, PTL

(***************************************************************************)
(* The tokens beyond maxSupply are listed ones, one for a wallet.          *)
(***************************************************************************)
THEOREM OvershootAlwaysListed == Spec => []OvershootIsListed
<1>1. VanaInv => OvershootIsListed
  BY DEF VanaInv, Sound, OvershootIsListed
<1> QED
  BY <1>1, VanaInvariance, PTL

(***************************************************************************)
(* Between transactions every token has been announced, as it was minted.  *)
(***************************************************************************)
THEOREM EventsAlwaysMatch == Spec => []EventsMatchMints
<1>1. VanaInv => EventsMatchMints
  <2> SUFFICES ASSUME VanaInv, frames = <<>> PROVE events = Announced(Storage)
    BY DEF EventsMatchMints, Idle
  <2>1. Len(frames) = 0
    BY EmptySeq
  <2>2. Pending(0) = {}
    BY DEF Pending
  <2>3. Announced(Storage) = events \cup Pending(Len(frames))
    BY DEF VanaInv, PendingFits, Storage
  <2> QED
    BY <2>1, <2>2, <2>3
<1> QED
  BY <1>1, VanaInvariance, PTL
-----------------------------------------------------------------------------
\* The history of one storage goes on in another.
Reaches(s, t) == Log!Extends(LogOf(t), LogOf(s))

\* What the outermost mint would bring back is where all the others began.
FirstReaches ==
    \A i \in DOMAIN frames : /\ Reaches(frames[1].saved, frames[i].saved)
                             /\ Reaches(frames[1].saved, Storage)

LEMMA ReachesIff ==
  ASSUME NEW s, NEW t, s.totalSupply \in Nat, t.totalSupply \in Nat
  PROVE  Reaches(s, t) <=> /\ s.totalSupply <= t.totalSupply
                           /\ \A id \in 1 .. s.totalSupply : t.origin[id] = s.origin[id]
<1>1. /\ Len(LogOf(s)) = s.totalSupply /\ DOMAIN LogOf(s) = 1 .. s.totalSupply
      /\ Len(LogOf(t)) = t.totalSupply /\ DOMAIN LogOf(t) = 1 .. t.totalSupply
  BY DEF LogOf
<1>2. \A id \in 1 .. s.totalSupply : LogOf(s)[id] = s.origin[id]
  BY DEF LogOf
<1>3. \A id \in 1 .. t.totalSupply : LogOf(t)[id] = t.origin[id]
  BY DEF LogOf
<1> QED
  BY <1>1, <1>2, <1>3 DEF Reaches, Log!Extends

LEMMA SoundCount == ASSUME NEW s, Sound(s) PROVE s.totalSupply \in Nat
BY DEF Sound, StorageType

LEMMA SavedSound ==
  ASSUME VanaInv, NEW i \in DOMAIN frames
  PROVE  Sound(frames[i].saved) /\ frames[i].saved.totalSupply \in Nat
BY SoundCount DEF VanaInv, FramesSound

\* The log of a sound storage is one of MintLog.
LEMMA SoundLog ==
  ASSUME NEW s, Sound(s)
  PROVE  /\ LogOf(s) \in Seq(Origin)
         /\ \A entry \in {e \in Origin : e.call = "whitelistMint"} :
              Log!AppearsOnce(entry, LogOf(s))
<1>1. /\ s.totalSupply \in 0 .. LastTokenId
      /\ s.origin \in [TokenIds -> Origin \cup {NotMinted}]
  BY DEF Sound, StorageType
<1>2. \A id \in 1 .. s.totalSupply : id \in TokenIds /\ s.origin[id] \in Origin
  <2>1. \A id \in 1 .. s.totalSupply : id \in TokenIds /\ ~(id > s.totalSupply)
    BY <1>1, VanaAssumption
  <2> QED
    BY <1>1, <2>1 DEF Sound, OriginsFit
<1>3. LogOf(s) \in Seq(Origin)
  BY <1>1, <1>2, SeqDef, VanaAssumption DEF LogOf
<1>4. ASSUME NEW e \in Origin, e.call = "whitelistMint",
             NEW i \in DOMAIN LogOf(s), NEW j \in DOMAIN LogOf(s),
             LogOf(s)[i] = e, LogOf(s)[j] = e
      PROVE  i = j
  <2>1. /\ i \in TokenIds /\ j \in TokenIds /\ s.origin[i] = e /\ s.origin[j] = e
    BY <1>2, <1>4 DEF LogOf
  <2>2. e.to \in Accounts /\ e = [to |-> e.to, call |-> "whitelistMint"]
    BY <1>4 DEF Origin
  <2>3. {i, j} \subseteq ListedMints(s, e.to)
    BY <2>1, <2>2 DEF ListedMints
  <2>4. Cardinality(ListedMints(s, e.to)) <= 1
    BY <2>2 DEF Sound, OnePerMark
  <2>5. IsFiniteSet(ListedMints(s, e.to))
    BY FS_Subset, ERC721Assumption DEF ListedMints
  <2>6. Cardinality({i, j}) <= 1 /\ IsFiniteSet({i, j})
    <3>1. Cardinality({i, j}) <= Cardinality(ListedMints(s, e.to)) /\ IsFiniteSet({i, j})
      BY <2>3, <2>5, FS_Subset
    <3>2. Cardinality({i, j}) \in Nat /\ Cardinality(ListedMints(s, e.to)) \in Nat
      BY <2>5, <3>1, FS_CardinalityType
    <3> QED
      BY <2>4, <3>1, <3>2
  <2>7. Cardinality({i, j}) = 1 \/ Cardinality({i, j}) = 0
    BY <2>6, FS_CardinalityType
  <2> QED
    BY <2>6, <2>7, FS_EmptySet, FS_Singleton
<1> QED
  BY <1>3, <1>4 DEF Log!AppearsOnce

LEMMA PublicSound == VanaInv => Sound(PublicStorage)
<1> SUFFICES ASSUME VanaInv PROVE Sound(PublicStorage)
  OBVIOUS
<1>1. CASE frames = <<>>
  BY <1>1 DEF VanaInv, PublicStorage, Idle
<1>2. CASE frames # <<>>
  <2>1. 1 \in DOMAIN frames
    BY <1>2, EmptySeq, LenProperties DEF VanaInv, TypeOK
  <2> QED
    BY <1>2, <2>1, SavedSound DEF PublicStorage, Idle
<1> QED
  BY <1>1, <1>2

LEMMA PublicSoundPrime == VanaInv' => Sound(PublicStorage)'
BY PublicSound, PTL

\* A call that mints or does not, and perhaps calls out: the calls out there were go on.
LEMMA GrowStep ==
  ASSUME VanaInv, VanaInv', FirstReaches, Reaches(Storage, Storage'),
         \A i \in DOMAIN frames : i \in DOMAIN frames' /\ frames'[i].saved = frames[i].saved,
         \A i \in DOMAIN frames' : i \in DOMAIN frames \/ frames'[i].saved = Storage
  PROVE  FirstReaches' /\ Reaches(PublicStorage, PublicStorage')
<1>1. Storage.totalSupply \in Nat /\ Storage'.totalSupply \in Nat
  BY SoundCount DEF VanaInv
<1>2. \A i \in DOMAIN frames' : frames'[i].saved.totalSupply \in Nat
  BY SoundCount DEF VanaInv, FramesSound
<1>3. /\ DOMAIN frames = {} <=> frames = <<>>
      /\ frames # <<>> => 1 \in DOMAIN frames
  BY EmptySeq, LenProperties DEF VanaInv, TypeOK
<1>4. /\ DOMAIN frames' = {} <=> frames' = <<>>
      /\ frames' # <<>> => 1 \in DOMAIN frames'
  BY EmptySeq, LenProperties DEF VanaInv, TypeOK
<1>5. CASE frames = <<>>
  BY <1>1, <1>2, <1>3, <1>4, <1>5, ReachesIff DEF FirstReaches, PublicStorage, Idle
<1>6. CASE frames # <<>>
  BY <1>1, <1>2, <1>3, <1>4, <1>6, ReachesIff DEF FirstReaches, PublicStorage, Idle
<1> QED
  BY <1>5, <1>6

\* The innermost mint ends, well or not.
LEMMA PopStep ==
  ASSUME VanaInv, VanaInv', FirstReaches, frames # <<>>, frames' = Front(frames),
         Storage' = Top.saved \/ UNCHANGED <<totalSupply, origin>>
  PROVE  FirstReaches' /\ Reaches(PublicStorage, PublicStorage')
<1> DEFINE n == Len(frames)
<1>1. /\ n \in Nat \ {0}
      /\ DOMAIN frames = 1 .. n
      /\ DOMAIN frames' = 1 .. n - 1
      /\ \A i \in 1 .. n - 1 : frames'[i] = frames[i]
      /\ Top = frames[n]
      /\ frames' \in Seq(Frame)
  BY FrontFrames DEF VanaInv, TypeOK
<1>2. /\ Storage.totalSupply \in Nat /\ Storage'.totalSupply \in Nat
      /\ \A i \in 1 .. n : frames[i].saved.totalSupply \in Nat
  BY <1>1, SoundCount, SavedSound DEF VanaInv
<1>3. Reaches(frames[1].saved, Storage')
  <2>1. CASE Storage' = Top.saved
    BY <1>1, <2>1 DEF FirstReaches
  <2>2. CASE UNCHANGED <<totalSupply, origin>>
    <3>1. Reaches(frames[1].saved, Storage)
      BY <1>1 DEF FirstReaches
    <3>2. LogOf(Storage) = LogOf(Storage')
      BY <2>2 DEF LogOf, Storage
    <3> QED
      BY <3>1, <3>2 DEF Reaches
  <2> QED
    BY <2>1, <2>2
<1>4. CASE n = 1
  <2>1. frames' = <<>>
    BY <1>1, <1>4, EmptySeq, LenProperties
  <2> QED
    BY <1>1, <1>3, <1>4, <2>1 DEF FirstReaches, PublicStorage, Idle
<1>5. CASE n # 1
  <2>1. 1 \in 1 .. n - 1 /\ frames' # <<>>
    BY <1>1, <1>5, EmptySeq
  <2>2. Reaches(frames[1].saved, frames[1].saved)
    BY <1>1, <1>2, ReachesIff
  <2> QED
    BY <1>1, <1>3, <2>1, <2>2 DEF FirstReaches, PublicStorage, Idle
<1> QED
  BY <1>4, <1>5

\* What changes neither the counter nor the history leaves the log as it is.
LEMMA SameLog == UNCHANGED <<totalSupply, origin>> /\ VanaInv => Reaches(Storage, Storage')
<1> SUFFICES ASSUME UNCHANGED <<totalSupply, origin>>, VanaInv PROVE Reaches(Storage, Storage')
  OBVIOUS
<1>1. Storage'.totalSupply = Storage.totalSupply /\ Storage'.origin = Storage.origin
  BY DEF Storage
<1>2. Storage.totalSupply \in Nat
  BY SoundCount DEF VanaInv
<1> QED
  BY <1>1, <1>2, ReachesIff

LEMMA IssueReaches ==
  ASSUME VanaInv, NEW to \in Accounts, NEW call \in {"mint", "whitelistMint"}, IssueTo(to, call)
  PROVE  Reaches(Storage, Storage')
<1>1. /\ Storage'.totalSupply = totalSupply' /\ Storage'.origin = origin'
      /\ Storage.totalSupply = totalSupply /\ Storage.origin = origin
  BY DEF Storage
<1>2. totalSupply \in Nat /\ totalSupply <= LastTokenId
  BY <1>1, VanaAssumption DEF VanaInv, Sound, StorageType
<1>3. totalSupply' = totalSupply + 1
  BY DEF IssueTo, NewTokenId
<1>4. \A id \in 1 .. totalSupply : id \in TokenIds /\ id # NewTokenId
  BY <1>2, VanaAssumption DEF NewTokenId
<1>5. \A id \in 1 .. totalSupply : origin'[id] = origin[id]
  BY <1>4 DEF IssueTo
<1> QED
  BY <1>1, <1>2, <1>3, <1>5, ReachesIff

LEMMA LogStep ==
  ASSUME VanaInv, VanaInv', FirstReaches, [Next]_vars
  PROVE  FirstReaches' /\ Reaches(PublicStorage, PublicStorage')
<1>1. ASSUME NEW to \in Accounts, NEW call \in {"mint", "whitelistMint"}, IssueTo(to, call)
      PROVE  FirstReaches' /\ Reaches(PublicStorage, PublicStorage')
  <2> DEFINE frame == [to |-> to, id |-> NewTokenId, call |-> call, saved |-> Storage]
  <2>1. frames' = Append(frames, frame)
    BY <1>1 DEF IssueTo
  <2>2. frame.saved = Storage
    OBVIOUS
  <2> HIDE DEF frame
  <2>3. frames \in Seq(Frame) /\ frames' \in Seq(Frame)
    BY DEF VanaInv, TypeOK
  <2>4. /\ \A i \in DOMAIN frames : i \in DOMAIN frames' /\ frames'[i] = frames[i]
        /\ \A i \in DOMAIN frames' : i \in DOMAIN frames \/ frames'[i] = frame
    BY <2>1, <2>3, LenProperties
  <2>5. Reaches(Storage, Storage')
    BY <1>1, IssueReaches
  <2> QED
    BY <2>2, <2>4, <2>5, GrowStep
<1>2. ASSUME UNCHANGED <<totalSupply, origin, frames>>
      PROVE  FirstReaches' /\ Reaches(PublicStorage, PublicStorage')
  BY <1>2, SameLog, GrowStep
<1>3. ASSUME NEW sender \in Accounts
      PROVE  /\ \A to \in Accounts : Mint(sender, to) =>
                  FirstReaches' /\ Reaches(PublicStorage, PublicStorage')
             /\ WhitelistMint(sender) =>
                  FirstReaches' /\ Reaches(PublicStorage, PublicStorage')
             /\ AdminCall(sender) \/ InheritedCall(sender) =>
                  FirstReaches' /\ Reaches(PublicStorage, PublicStorage')
  BY <1>1, <1>2 DEF Mint, WhitelistMint, AdminCall, InheritedCall
<1>4. CASE FinishMint
  BY <1>4, PopStep DEF FinishMint, Idle
<1>5. CASE Abort
  <2>1. Top.saved \in StorageType
    BY <1>5, FrontFrames DEF VanaInv, TypeOK, Abort, Idle, Frame
  <2>2. Storage' = Top.saved
    BY <1>5, <2>1, RestoreStorage DEF Abort
  <2> QED
    BY <1>5, <2>2, PopStep DEF Abort, Idle
<1>6. CASE UNCHANGED vars
  BY <1>2, <1>6 DEF vars
<1> QED
  BY <1>3, <1>4, <1>5, <1>6 DEF Next

(***************************************************************************)
(* The collection implements MintLog: nested and undone mints show between *)
(* transactions as a list that grows, with one listed token for a wallet.  *)
(***************************************************************************)
THEOREM VanaLogIsImplemented == Spec => MintsAreLogged
<1>1. Init => VanaInv /\ FirstReaches /\ Log!Init
  <2> SUFFICES ASSUME Init PROVE FirstReaches /\ Log!Init
    BY InitInv
  <2>1. frames = <<>> /\ totalSupply = 0
    BY DEF Init
  <2>2. LogOf(Storage) = <<>>
    BY <2>1 DEF LogOf, Storage
  <2> QED
    BY <2>1, <2>2 DEF FirstReaches, Log!Init, PublicStorage, Idle
<1>2. VanaInv /\ FirstReaches /\ [Next]_vars
        => (VanaInv /\ FirstReaches)' /\ [Log!Next]_(LogOf(PublicStorage))
  <2> SUFFICES ASSUME VanaInv, FirstReaches, [Next]_vars
               PROVE  (VanaInv /\ FirstReaches)' /\ Log!Next
    OBVIOUS
  <2>1. VanaInv'
    BY NextInv
  <2>2. FirstReaches' /\ Reaches(PublicStorage, PublicStorage')
    BY <2>1, LogStep
  <2>3. Sound(PublicStorage')
    BY <2>1, PublicSoundPrime
  <2> QED
    BY <2>1, <2>2, <2>3, SoundLog DEF Reaches, Log!Next
<1> QED
  BY <1>1, <1>2, PTL DEF Spec, MintsAreLogged, Log!Spec
=============================================================================
