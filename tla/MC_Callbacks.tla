---------------------------- MODULE MC_Callbacks ----------------------------
(***************************************************************************)
(* The collection with a contract that mints and is a creator: it is       *)
(* called by mint both times, and calls back.  One name, whose terms are   *)
(* with or without a whitelist and can be replaced; three tokens, so that  *)
(* mints nest three deep.                                                  *)
(***************************************************************************)
EXTENDS SericaNFTCollection
CONSTANTS admin, vault, root

MCAccounts == {admin, vault}
MCContracts == {vault}
MCTokenIds == 1 .. 3
MCListed == [r \in {root} |-> {admin, vault}]
MCRoles == {DEFAULT_ADMIN_ROLE, ADMIN_ROLE}

MCGroupTerms ==
    {[merkleRoot |-> root, maxTokens |-> 3, unitPrice |-> 1, mintPerWallet |-> 2,
      startTime |-> 1, endTime |-> 0],
     [merkleRoot |-> NoRoot, maxTokens |-> 0, unitPrice |-> 1, mintPerWallet |-> 3,
      startTime |-> 2, endTime |-> 0]}

\* The contract is paid first; the second split is not the whole.
MCCreatorSplits ==
    {<<[wallet |-> vault, share |-> 4000], [wallet |-> admin, share |-> 6000]>>,
     <<[wallet |-> vault, share |-> 10000], [wallet |-> vault, share |-> 10000]>>}
=============================================================================
