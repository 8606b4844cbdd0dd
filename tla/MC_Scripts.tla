----------------------------- MODULE MC_Scripts -----------------------------
(***************************************************************************)
(* One operator, one buyer and one token.  The groups of a file start      *)
(* early enough to be too late when they are mined; other files name two   *)
(* groups alike, or have no group, a group the collection refuses, or one  *)
(* that cannot be read.  The listed sale of update-mint-group lasts one    *)
(* time unit, the public one comes after two.                              *)
(***************************************************************************)
EXTENDS SericaScripts
CONSTANTS admin, alice

MCAccounts == {admin, alice}
MCTokenIds == 1 .. LastTokenId
MCListed == [r \in {} |-> {}]
MCRoles == {DEFAULT_ADMIN_ROLE, ADMIN_ROLE}
MCSplit == <<[wallet |-> admin, share |-> 10000]>>

FromFile(start, end) ==
    [merkleRoot |-> NoRoot, maxTokens |-> 1, unitPrice |-> 1, mintPerWallet |-> 1,
     startTime |-> start, endTime |-> end]

MCGroupTerms ==
    {FromFile(start, 0) : start \in {1, 2}}
      \cup {FromFile(2, 3), FromFile(2, 1)}
      \cup {WhitelistTerms(time) : time \in 0 .. 5}
      \cup {PublicTerms(time) : time \in 0 .. 5}

MCCreatorSplits == {MCSplit}

Group(name, terms, split) == [name |-> name, terms |-> terms, creators |-> split]

MCConfigs ==
    {<<Group("whitelist", FromFile(1, 0), MCSplit), Group("public", FromFile(2, 3), MCSplit)>>,
     <<Group("whitelist", FromFile(2, 0), <<>>), Group("public", Unreadable, Unreadable)>>,
     <<Group("public", FromFile(2, 0), <<>>), Group("public", FromFile(2, 3), MCSplit)>>,
     <<Group("public", FromFile(2, 0), Unreadable)>>,
     <<Group("public", FromFile(2, 1), <<>>)>>,
     <<>>}
=============================================================================
