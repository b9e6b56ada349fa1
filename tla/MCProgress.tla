----------------------------- MODULE MCProgress -----------------------------
(***************************************************************************)
(* The accounts of MCWallets, with bob as the receiver.                     *)
(***************************************************************************)
EXTENDS MCWallets, Progress

MCReceivers == {bob}
=============================================================================
