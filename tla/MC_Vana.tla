------------------------------ MODULE MC_Vana ------------------------------
(***************************************************************************)
(* A wallet, and a contract that is administrator, minter and listed: it   *)
(* is called by the mints it makes for itself, and mints again.  A list of *)
(* both and a list of one follow one another.  The supply is one token; a  *)
(* second can only be a listed one.                                        *)
(***************************************************************************)
EXTENDS VanaNFTCollection
CONSTANTS alice, vault, bothListed, vaultListed

MCAccounts == {alice, vault}
MCTokenIds == 1 .. LastTokenId
MCRoles == {DEFAULT_ADMIN_ROLE, ADMIN_ROLE, MINTER_ROLE}
MCListed == [root \in {bothListed, vaultListed} |->
               IF root = bothListed THEN {alice, vault} ELSE {vault}]

\* A royalty to accept and one above the whole price.
MCRoyalties == {[receiver |-> alice, fraction |-> 500], [receiver |-> vault, fraction |-> 10001]}
=============================================================================
