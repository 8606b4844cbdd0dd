----------------------------- MODULE MC_Market -----------------------------
(***************************************************************************)
(* The marketplace with a wallet and a contract that both trade, and are   *)
(* called by every purchase they take part in.                             *)
(***************************************************************************)
EXTENDS VanaMarketplace
CONSTANTS alice, shop, market

MCAccounts == {alice, shop, market}
MCContracts == {shop}
MCOneToken == {1}
MCTwoTokens == 1 .. 2
MCRoyalty == [receiver |-> shop, fraction |-> 2500]
\* The marketplace itself, with a part of 20 and, rounded down, nothing of 10.
MCRoyalties == {[receiver |-> market, fraction |-> 500]}
=============================================================================
