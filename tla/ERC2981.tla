------------------------------ MODULE ERC2981 ------------------------------
(***************************************************************************)
(* ERC2981Upgradeable: the royalty a collection asks of a sale of its      *)
(* tokens.  No contract sets the royalty of a single token, so the default *)
(* is the royalty of all.                                                  *)
(***************************************************************************)
EXTENDS Context

FEE_DENOMINATOR == 10000

VARIABLE royalty    \* _defaultRoyaltyInfo

Royalty == [receiver : Addresses, fraction : 0 .. FEE_DENOMINATOR]

\* royaltyInfo: the receiver is royalty.receiver.
RoyaltyAmount(salePrice) == (salePrice * royalty.fraction) \div FEE_DENOMINATOR

\* Mutant: the fee may exceed the price.
SetAnyRoyalty(receiver, feeNumerator) ==
    /\ receiver # Zero
    /\ royalty' = [receiver |-> receiver, fraction |-> feeNumerator]

SetDefaultRoyalty(receiver, feeNumerator) ==
    /\ feeNumerator <= FEE_DENOMINATOR
    /\ receiver # Zero
    /\ royalty' = [receiver |-> receiver, fraction |-> feeNumerator]
=============================================================================
