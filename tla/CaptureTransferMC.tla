------------------------- MODULE CaptureTransferMC -------------------------
(* Two tabs that show the same page, so that their uploads meet.           *)
EXTENDS CaptureTransfer

\* The address of a tab.
MCUrl == [t \in Tab |-> "page"]
=============================================================================
