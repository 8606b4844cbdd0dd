------------------------------ MODULE MC_Sale ------------------------------
(***************************************************************************)
(* The collection among wallets: a listed and an open group, three tokens  *)
(* for a supply of two (so that a batch can pass it), times 0 to 2.        *)
(***************************************************************************)
EXTENDS SericaNFTCollection
CONSTANTS admin, alice, root

MCAccounts == {admin, alice}
MCTokenIds == 1 .. LastTokenId
MCListed == [r \in {root} |-> {alice}]
MCRoles == {DEFAULT_ADMIN_ROLE, ADMIN_ROLE}

\* A whitelisted wave that ends, and an open wave of any size that does not.
MCGroupTerms ==
    {[merkleRoot |-> root, maxTokens |-> 2, unitPrice |-> 2, mintPerWallet |-> 2,
      startTime |-> 1, endTime |-> 2],
     [merkleRoot |-> NoRoot, maxTokens |-> 0, unitPrice |-> 3, mintPerWallet |-> 1,
      startTime |-> 2, endTime |-> 0]}

\* The open wave alone, where the roles are what matters.
MCOpenTerms == {terms \in MCGroupTerms : terms.merkleRoot = NoRoot}

\* A split to accept, one that pays the zero address and one that is not the whole.
MCCreatorSplits ==
    {<<[wallet |-> admin, share |-> 3333], [wallet |-> alice, share |-> 6667]>>,
     <<[wallet |-> Zero, share |-> 10000]>>,
     <<[wallet |-> admin, share |-> 6667], [wallet |-> alice, share |-> 6667]>>}
=============================================================================
