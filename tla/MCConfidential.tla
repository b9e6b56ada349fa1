--------------------------- MODULE MCConfidential ---------------------------
(***************************************************************************)
(* A small instance of Confidential: two accounts, one denomination, two    *)
(* auditor keys.  For each handler the messages are the honest ones for     *)
(* every balance the instance can reach, and those with one field changed.  *)
(***************************************************************************)
EXTENDS Confidential

CONSTANTS alice, bob, gov, atom, kAlice, kBob, kAudit1, kAudit2

MCAccounts == {alice, bob}
MCDenoms == {atom}
MCKeys == {kAlice, kBob, kAudit1, kAudit2}
MCControls == [a \in MCAccounts |-> IF a = alice THEN {kAlice} ELSE {kBob}]
MCFunds == [a \in MCAccounts |-> [d \in MCDenoms |-> IF a = alice THEN 3 ELSE 1]]

(* One randomness for every ciphertext made, that is its own negation: sums *)
(* of such ciphertexts have this randomness or 0.                           *)
HalfOrder == FieldOrder \div 2
Randomnesses == {0, HalfOrder}
MCReset == {HalfOrder}

KeyOf(a) == IF a = alice THEN kAlice ELSE kBob
Enc(pk, v) == EncryptWithRandomness(v, pk, HalfOrder)

(* -1 as a scalar, and the numbers at and around the range bound. *)
Amounts == {0, 1, RangeBound - 1, RangeBound, FieldOrder - 1}

Registrations ==
    {[type |-> "RegisterKey", sender |-> a, pubkey |-> k, pop |-> pop] :
        a \in MCAccounts, k \in MCKeys \cup {NoKey},
        pop \in {[key |-> KeyOf(b), sender |-> b] : b \in MCAccounts}}

Shields ==
    {[type |-> "Shield", sender |-> a, denom |-> atom, amount |-> n,
      ciphertext |-> Enc(k, v)] :
        a \in MCAccounts, k \in {kAlice, kBob}, n \in Amounts, v \in Amounts}

(* The send of v that leaves w, built for the auditor key k. *)
SendOf(a, b, k, v, w, r) ==
    [type |-> "ConfidentialSend", sender |-> a, receiver |-> b, denom |-> atom,
     senderUpdate |-> Enc(KeyOf(a), v), receiverUpdate |-> Enc(KeyOf(b), v),
     auditorUpdate |-> Enc(k, v), transferCommitment |-> v,
     remainingCommitment |-> w,
     remainingCommitmentProof |-> EncryptWithRandomness(w, KeyOf(a), r)]

HonestSends ==
    {SendOf(a, b, k, v, w, r) : a \in MCAccounts, b \in MCAccounts,
        k \in {kAudit1, kAudit2}, v \in Amounts, w \in Field, r \in Randomnesses}

(* Other keys, other amounts, and one that every key decrypts. *)
OtherCiphertexts == {Enc(k, v) : k \in MCKeys, v \in {1, 2}}
                    \cup {EncryptWithRandomness(1, kAlice, 0)}

(* The sends of 1 and of -1 with one field exchanged. *)
CorruptedSends ==
    LET base == {m \in HonestSends :
                   /\ m.sender # m.receiver
                   /\ m.auditorUpdate.key = kAudit1
                   /\ m.transferCommitment \in {1, FieldOrder - 1}
                   /\ m.remainingCommitment < RangeBound
                   /\ m.remainingCommitmentProof.r = 0}
    IN UNION {
         {[m EXCEPT !.senderUpdate = ct] : m \in base, ct \in OtherCiphertexts},
         {[m EXCEPT !.receiverUpdate = ct] : m \in base, ct \in OtherCiphertexts},
         {[m EXCEPT !.auditorUpdate = ct] : m \in base, ct \in OtherCiphertexts},
         {[m EXCEPT !.transferCommitment = 1] : m \in base},
         {[m EXCEPT !.remainingCommitment = 1] : m \in base}}

Applications ==
    {[type |-> "ApplyPending", sender |-> a, denom |-> atom,
      newAvailableUpdate |-> Enc(k, v),
      proof |-> EncryptWithRandomness(w, KeyOf(a), r)] :
        a \in MCAccounts, k \in {kAlice, kBob}, v \in 0 .. 4, w \in 0 .. 4,
        r \in Randomnesses}

UnshieldOf(a, n, w, r) ==
    [type |-> "Unshield", sender |-> a, denom |-> atom, amount |-> n,
     ciphertext |-> Enc(KeyOf(a), n), remainingCommitment |-> w,
     remainingCommitmentProof |-> EncryptWithRandomness(w, KeyOf(a), r)]

Unshields ==
    LET honest == {UnshieldOf(a, n, w, r) : a \in MCAccounts, n \in Amounts,
                     w \in Field, r \in Randomnesses}
        base == {m \in honest : /\ m.amount \in {1, FieldOrder - 1}
                                /\ m.remainingCommitment < RangeBound
                                /\ m.remainingCommitmentProof.r = 0}
    IN honest
       \cup {[m EXCEPT !.ciphertext = ct] : m \in base, ct \in OtherCiphertexts}
       \cup {[m EXCEPT !.remainingCommitment = 1] : m \in base}

AuditorKeyChanges ==
    {[type |-> "SetAuditorKey", authority |-> a, pubkey |-> k] :
        a \in MCAccounts \cup {gov}, k \in {kAudit1, kAudit2, NoKey}}

MCMessages == Registrations \cup Shields \cup HonestSends \cup CorruptedSends
              \cup Applications \cup Unshields \cup AuditorKeyChanges
=============================================================================
