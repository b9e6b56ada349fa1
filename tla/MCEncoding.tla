----------------------------- MODULE MCEncoding -----------------------------
(***************************************************************************)
(* Byte strings chosen so that joining them without lengths or labels makes *)
(* different uses look alike; one denomination and one address contain the *)
(* slash, and addresses have two widths.                                   *)
(***************************************************************************)
EXTENDS Encoding

MCChainIDs == {<<1>>, <<1, 2>>}
MCDenomNames == {<<2>>, <<2, 2>>, <<2, SlashByte, 2>>}
MCOps == {<<3>>, <<3, SlashByte, 3>>}
MCAddresses == {<<2, 1, 1>>, <<2, SlashByte>>}
=============================================================================
