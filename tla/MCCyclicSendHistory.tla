------------------------- MODULE MCCyclicSendHistory -------------------------
(* The instances of MCCyclicSendTask with the history of sent frames.       *)
EXTENDS CyclicSendHistory, MCCyclicSendTask
=============================================================================
