----------------------------- MODULE MCWallets -----------------------------
(***************************************************************************)
(* Instances of Wallets: two accounts with funded bank balances.            *)
(***************************************************************************)
EXTENDS Wallets

CONSTANTS alice, bob, gov, atom, kAlice, kBob, kAudit1, kAudit2,
          AliceBroadcasts, BobBroadcasts

MCAccounts == {alice, bob}
MCDenoms == {atom}
MCKeys == {kAlice, kBob, kAudit1, kAudit2}
MCAuditorKeys == {kAudit1, kAudit2}
MCControls == [a \in MCAccounts |-> IF a = alice THEN {kAlice} ELSE {kBob}]
MCFunds == [a \in MCAccounts |-> [d \in MCDenoms |-> IF a = alice THEN 2 ELSE 2]]
MCReset == {1}
MCMessages == {}
MCBroadcasts ==
    [a \in MCAccounts |-> IF a = alice THEN AliceBroadcasts ELSE BobBroadcasts]

(* A stand-in for HKDF-SHA256 that tells apart every pair of inputs the     *)
(* instance produces.                                                       *)
OpCode(op) ==
    CASE op = "shield" -> 1 [] op = "send/sender" -> 2 [] op = "send/receiver" -> 3
      [] op = "send/auditor" -> 4 [] op = "apply_pending" -> 5 [] op = "unshield" -> 6

MCHKDF(sk, salt, info) ==
    LET s == IF salt = Nil THEN <<0, 5>> ELSE <<salt.v, salt.r>>
        k == IF sk = kAlice THEN 3 ELSE 8
        b == IF info[4] = bob THEN 2 ELSE IF info[4] = alice THEN 1 ELSE 0
        h == (k * 1009 + s[1] * 2917 + s[2] * 71 + OpCode(info[1]) * 4397
              + info[2] * 613 + info[3] * 5381 + b * 331) % FieldOrder
    IN 1 + ((((h * h) \div 61) + 5 * h) % (FieldOrder - 1))
=============================================================================
