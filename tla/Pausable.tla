------------------------------ MODULE Pausable ------------------------------
(***************************************************************************)
(* PausableUpgradeable: the switch the contracts guard their sales with.   *)
(***************************************************************************)
VARIABLE paused     \* _paused

PausableTypeOK == paused \in BOOLEAN

WhenNotPaused == ~paused
WhenPaused == paused

\* _pause and _unpause: each reverts where it would change nothing.
DoPause == WhenNotPaused /\ paused' = TRUE
DoUnpause == WhenPaused /\ paused' = FALSE
=============================================================================
