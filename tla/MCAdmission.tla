---------------------------- MODULE MCAdmission ----------------------------
(***************************************************************************)
(* An instance of Admission with words of 3 bits.  The odd lengths are, for *)
(* every field, nothing, every right length, every largest length that      *)
(* ValidateBasic admits, and one byte more than these.                      *)
(***************************************************************************)
EXTENDS Admission

MCAccounts == {"alice", "bob"}

Limits == {64, 96, 128, 160, 288, 352, 512, 640, 740, 1408, 2048, 4096,
           MaxEncryptedMemoSize}
MCOddLengths == {0} \cup Limits \cup {n + 1 : n \in Limits}
=============================================================================
