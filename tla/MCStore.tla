------------------------------ MODULE MCStore ------------------------------
(***************************************************************************)
(* An instance of Store whose byte strings are chosen to collide where they *)
(* can: one address is the beginning of the other, and one denomination     *)
(* contains the slash (as ibc/... does) and ends as the other.              *)
(***************************************************************************)
EXTENDS Store

CONSTANTS gov, kAlice, kBob, kAudit, kSpare

alice == <<"x">>
bob == <<"x", "y">>
atom == <<"u">>
voucher == <<"y", Slash, "u">>

MCBytes == {Slash, "x", "y", "u"}
MCAccounts == {alice, bob}
MCDenoms == {atom, voucher}
MCKeys == {kAlice, kBob, kAudit, kSpare}
MCControls == [a \in MCAccounts |-> IF a = alice THEN {kAlice, kSpare} ELSE {kBob}]
MCFunds == [a \in MCAccounts |->
              [d \in MCDenoms |-> IF a = alice \/ d = atom THEN 1 ELSE 0]]

(* One randomness that is its own negation, as in MCConfidential. *)
HalfOrder == FieldOrder \div 2
MCReset == {HalfOrder}

E == INSTANCE ElGamal

KeyOf(a) == IF a = alice THEN kAlice ELSE kBob
Enc(pk, v) == E!EncryptWithRandomness(v, pk, HalfOrder)
Remainders(a) == {E!EncryptWithRandomness(w, KeyOf(a), r) : w \in {0, 1}, r \in {0, HalfOrder}}

MCMessages ==
    UNION {{[type |-> "RegisterKey", sender |-> a, pubkey |-> k,
             pop |-> [key |-> k, sender |-> a]] : k \in MCControls[a]} : a \in MCAccounts}
    \cup
    {[type |-> "Shield", sender |-> a, denom |-> d, amount |-> 1,
      ciphertext |-> Enc(KeyOf(a), 1)] : a \in MCAccounts, d \in MCDenoms}
    \cup
    {[type |-> "ConfidentialSend", sender |-> a, receiver |-> b, denom |-> d,
      senderUpdate |-> Enc(KeyOf(a), 1), receiverUpdate |-> Enc(KeyOf(b), 1),
      auditorUpdate |-> Enc(kAudit, 1), transferCommitment |-> 1,
      remainingCommitment |-> w.v, remainingCommitmentProof |-> w] :
        a \in MCAccounts, b \in MCAccounts, d \in MCDenoms,
        w \in Remainders(alice) \cup Remainders(bob)}
    \cup
    {[type |-> "ApplyPending", sender |-> a, denom |-> d,
      newAvailableUpdate |-> Enc(KeyOf(a), w.v), proof |-> w] :
        a \in MCAccounts, d \in MCDenoms, w \in Remainders(alice) \cup Remainders(bob)}
    \cup
    {[type |-> "Unshield", sender |-> a, denom |-> d, amount |-> 1,
      ciphertext |-> Enc(KeyOf(a), 1), remainingCommitment |-> w.v,
      remainingCommitmentProof |-> w] :
        a \in MCAccounts, d \in MCDenoms, w \in Remainders(alice) \cup Remainders(bob)}
    \cup
    {[type |-> "SetAuditorKey", authority |-> a, pubkey |-> k] :
        a \in MCAccounts \cup {gov}, k \in {kAudit, NoKey}}
=============================================================================
