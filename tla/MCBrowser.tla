----------------------------- MODULE MCBrowser -----------------------------
(***************************************************************************)
(* Instances of Browser: pages of two accounts, alice with one tab or two.  *)
(***************************************************************************)
EXTENDS Browser, TLC

CONSTANTS alice, bob, gov, atom, kAlice, kBob, kAudit, AliceTabs, bobTab,
          AliceBroadcasts, BobBroadcasts, AliceFunds

MCAccounts == {alice, bob}
MCDenoms == {atom}
MCKeys == {kAlice, kBob, kAudit}
MCAuditorKeys == {kAudit}
MCControls == [a \in MCAccounts |-> IF a = alice THEN {kAlice} ELSE {kBob}]
MCFunds == [a \in MCAccounts |-> [d \in MCDenoms |-> IF a = alice THEN AliceFunds ELSE 2]]
MCReset == {1}
MCMessages == {}
MCBroadcasts ==
    [a \in MCAccounts |-> IF a = alice THEN AliceBroadcasts ELSE BobBroadcasts]

MCTabs == AliceTabs \cup {bobTab}
MCOwner == [t \in MCTabs |-> IF t \in AliceTabs THEN alice ELSE bob]

(* The tabs of one account are interchangeable. *)
TabSymmetry == Permutations(AliceTabs)

OpCode(op) ==
    CASE op = "shield" -> 1 [] op = "send/sender" -> 2 [] op = "send/receiver" -> 3
      [] op = "send/auditor" -> 4 [] op = "apply_pending" -> 5 [] op = "unshield" -> 6

(* A stand-in for HKDF-SHA256, as in MCWallets. *)
MCHKDF(sk, salt, info) ==
    LET s == IF salt = Nil THEN <<0, 5>> ELSE <<salt.v, salt.r>>
        k == IF sk = kAlice THEN 3 ELSE 8
        b == IF info[4] = bob THEN 2 ELSE IF info[4] = alice THEN 1 ELSE 0
        h == (k * 1009 + s[1] * 2917 + s[2] * 71 + OpCode(info[1]) * 4397
              + info[2] * 613 + info[3] * 5381 + b * 331) % FieldOrder
    IN 1 + ((((h * h) \div 61) + 5 * h) % (FieldOrder - 1))
=============================================================================
