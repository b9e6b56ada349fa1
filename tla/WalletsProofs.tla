---------------------------- MODULE WalletsProofs ----------------------------
(***************************************************************************)
(* The wallets at work on the keeper: what holds of the transactions they   *)
(* build, for every number of accounts and transactions, every order of     *)
(* execution and results, with crashes and rotations.                       *)
(***************************************************************************)
EXTENDS Wallets, ConfidentialProofs

(* HKDF is reduced to a scalar: all that most theorems assume of it. *)
HKDFReduced == \A sk, salt, info : HKDF(sk, salt, info) \in Field

(* A local state; that its value never goes below 0 remains to be shown. *)
LocalState == [Value : Int, Randomness : Field, RandomnessKnown : BOOLEAN]

(***************************************************************************)
(* What a transaction holds from the moment it is built                     *)
(***************************************************************************)

Derived(tx, op, receiver) ==
    HKDF(pubkey[tx.msg.sender], tx.sawAvailable, <<op, tx.seq, tx.amount, receiver>>)

(* What the transaction adds to, or takes from, the balance of its sender. *)
OwnUpdate(tx) == EncryptWithRandomness(tx.amount, pubkey[tx.msg.sender], tx.r)

(* Whatever its randomness comes from and whatever was known when it was    *)
(* built, the message of a transaction carries the transaction's amount.    *)
Carries(tx) ==
    LET m == tx.msg
    IN  /\ tx.amount \in Field /\ tx.r \in Field
        /\ m.sender \in Accounts /\ m.denom = denom
        /\ \/ m \in ShieldMsg /\ m.ciphertext = OwnUpdate(tx)
           \/ m \in ApplyPendingMsg /\ m.newAvailableUpdate = OwnUpdate(tx)
           \/ m \in ConfidentialSendMsg /\ m.senderUpdate = OwnUpdate(tx)
           \/ m \in UnshieldMsg /\ m.amount = tx.amount /\ m.ciphertext = OwnUpdate(tx)

ShieldBuilt(tx) ==
    /\ tx.msg \in ShieldMsg
    /\ tx.r = Derived(tx, "shield", Nil)
    /\ tx.msg.ciphertext = OwnUpdate(tx)

ApplyBuilt(tx) ==
    /\ tx.msg \in ApplyPendingMsg
    /\ tx.r = Derived(tx, "apply_pending", Nil)
    /\ tx.msg.newAvailableUpdate = OwnUpdate(tx)

(* A good proof is one about the remainder of the balance its wallet saw. *)
RemainderBuilt(tx) ==
    LET proof == tx.msg.remainingCommitmentProof
    IN  /\ tx.amount \in 1 .. (RangeBound - 1)
        /\ tx.msg.remainingCommitment < RangeBound
        /\ proof # NoProof =>
             /\ proof = subCiphertexts(tx.sawAvailable, OwnUpdate(tx))
             /\ proof.v = tx.msg.remainingCommitment
             /\ DecryptsUnder(proof, pubkey[tx.msg.sender])

SendBuilt(tx) ==
    LET b == tx.msg.receiver
    IN  /\ tx.msg \in ConfidentialSendMsg
        /\ tx.msg.sender # b
        /\ tx.sawAuditor \in Keys
        /\ tx.r = Derived(tx, "send/sender", b)
        /\ tx.msg.senderUpdate = OwnUpdate(tx)
        /\ tx.msg.receiverUpdate =
             EncryptWithRandomness(tx.amount, pubkey[b], Derived(tx, "send/receiver", b))
        /\ tx.msg.auditorUpdate =
             EncryptWithRandomness(tx.amount, tx.sawAuditor, Derived(tx, "send/auditor", b))
        /\ tx.msg.transferCommitment = tx.amount
        /\ RemainderBuilt(tx)

UnshieldBuilt(tx) ==
    /\ tx.msg \in UnshieldMsg
    /\ tx.msg.amount = tx.amount
    /\ tx.r = Derived(tx, "unshield", Nil)
    /\ tx.msg.ciphertext = OwnUpdate(tx)
    /\ RemainderBuilt(tx)

Built(tx) ==
    /\ tx.seq \in Nat /\ tx.amount \in Field /\ tx.r \in Field
    /\ tx.sawAvailable \in Ciphertext \cup {Nil}
    /\ tx.msg.sender \in Accounts /\ tx.msg.denom = denom
    /\ ShieldBuilt(tx) \/ ApplyBuilt(tx) \/ SendBuilt(tx) \/ UnshieldBuilt(tx)

(* The local state of a is the opening of the balance on chain. *)
OpensBalance(a) ==
    available[a][denom] =
        EncryptWithRandomness(wallet[a].Value, pubkey[a], wallet[a].Randomness)

(* A transaction at the time it is broadcast. *)
Fresh(tx) ==
    LET a == tx.msg.sender
    IN  /\ Built(tx)
        /\ tx.seq = sequence[a]
        /\ tx.sawAvailable = available[a][denom]
        /\ IsSpend(tx) /\ tx.msg.remainingCommitmentProof # NoProof
             => OpensBalance(a) /\ tx.amount <= wallet[a].Value

(***************************************************************************)
(* The invariant                                                            *)
(***************************************************************************)

WalletTypes ==
    /\ pubkey \in [Accounts -> Keys]
    /\ auditor \in Keys
    /\ wallet \in [Accounts -> LocalState]
    /\ awaiting \in [Accounts -> SUBSET broadcast]
    /\ landed \subseteq broadcast
    /\ sequence \in [Accounts -> Nat]
    /\ crashes \in Nat
    /\ \A a \in Accounts : awaiting[a] \subseteq Of(a)

(* Every stored balance is an encryption under the key of its account. *)
BalancesOpen ==
    \A a \in Accounts : \E v, r \in Field :
        unmarshalOrZero(available[a][denom]) = EncryptWithRandomness(v, pubkey[a], r)

(* A transaction that may still be executed was built against the balance   *)
(* that is on chain now; an executed one has spent its sequence number.     *)
SequenceGuardsBalance ==
    /\ \A tx \in broadcast :
         LET a == tx.msg.sender
         IN  /\ tx.seq <= sequence[a]
             /\ tx.seq = sequence[a] => tx.sawAvailable = available[a][denom]
    /\ \A tx \in landed : tx.seq < sequence[tx.msg.sender]

TransactionsInv ==
    /\ IInv
    /\ WalletTypes
    /\ BalancesOpen
    /\ \A tx \in broadcast : Built(tx)
    /\ SequenceGuardsBalance

(***************************************************************************)
(* Building                                                                 *)
(***************************************************************************)

(* What the builders derive and see is a scalar and a stored balance. *)
LEMMA BuilderSees ==
    ASSUME HKDFReduced, TransactionsInv, NEW a \in Accounts
    PROVE  /\ \A op, amount, receiver : DeriveRandomness(a, op, amount, receiver) \in Field
           /\ sequence[a] \in Nat
           /\ pubkey[a] \in Keys
           /\ available[a][denom] \in Ciphertext \cup {Nil}
           /\ pending[a][denom] \in Ciphertext \cup {Nil}
           /\ wallet[a] \in LocalState
           /\ wallet[a].Value \in Int /\ wallet[a].Randomness \in Field
<1>1. denom \in Denoms
  BY WalletsAssumption
<1>2. wallet[a] \in LocalState
  BY DEF TransactionsInv, WalletTypes
<1> QED
  BY <1>1, <1>2 DEF HKDFReduced, DeriveRandomness, TransactionsInv, WalletTypes, IInv,
     TypeOK, LocalState

(* The amounts users ask for are scalars in range. *)
LEMMA AskedAmount ==
    ASSUME NEW n \in SendAmounts
    PROVE  n \in Field /\ n \in 1 .. (RangeBound - 1) /\ n \in Int /\ n > 0 /\ n < RangeBound
  BY WalletsAssumption, RangeAssumption, FieldAssumption DEF Field

(* Shield builds what it should. *)
LEMMA BuildShieldFresh ==
    ASSUME HKDFReduced, TransactionsInv, NEW a \in Accounts, NEW n \in SendAmounts,
           BuildShield(a, n)
    PROVE  \E tx : Broadcast(tx) /\ Fresh(tx)
<1> DEFINE r == DeriveRandomness(a, "shield", n, Nil)
           ct == EncryptWithRandomness(n, pubkey[a], r)
           m == [type |-> "Shield", sender |-> a, denom |-> denom, amount |-> n,
                 ciphertext |-> ct]
           tx == Tx(m, n, r)
<1>1. Broadcast(tx)
  BY DEF BuildShield
<1>2. r \in Field /\ sequence[a] \in Nat /\ pubkey[a] \in Keys
      /\ available[a][denom] \in Ciphertext \cup {Nil}
  BY BuilderSees
<1>3. n \in Field /\ n \in Int
  BY AskedAmount
<1>4. ct \in Ciphertext
  BY <1>2, <1>3, EncryptType
<1>5. m \in ShieldMsg
  BY <1>3, <1>4, WalletsAssumption DEF ShieldMsg
<1>6. /\ tx.msg = m /\ tx.seq = sequence[a] /\ tx.amount = n /\ tx.r = r
      /\ tx.sawAvailable = available[a][denom]
  BY DEF Tx
<1>7. m.sender = a /\ m.denom = denom /\ m.ciphertext = ct /\ m.type = "Shield"
  OBVIOUS
<1>8. r = HKDF(pubkey[a], available[a][denom], <<"shield", sequence[a], n, Nil>>)
  BY DEF DeriveRandomness
<1> HIDE DEF r, ct, m, tx
<1>9. ShieldBuilt(tx)
  BY <1>5, <1>6, <1>7, <1>8 DEF ShieldBuilt, Derived, OwnUpdate, ct
<1>10. Fresh(tx)
  BY <1>2, <1>3, <1>6, <1>7, <1>9 DEF Fresh, Built, IsSpend
<1> QED
  BY <1>1, <1>10

(* ApplyPending builds what it should. *)
LEMMA BuildApplyPendingFresh ==
    ASSUME HKDFReduced, TransactionsInv, NEW a \in Accounts, BuildApplyPending(a)
    PROVE  \E tx : Broadcast(tx) /\ Fresh(tx)
<1> DEFINE seen == pending[a][denom]
           n == seen.v
           r == DeriveRandomness(a, "apply_pending", n, Nil)
           ct == EncryptWithRandomness(n, pubkey[a], r)
           m == [type |-> "ApplyPending", sender |-> a, denom |-> denom,
                 newAvailableUpdate |-> ct, proof |-> seen]
           tx == Tx(m, n, r)
<1>1. Broadcast(tx) /\ seen # Nil
  BY DEF BuildApplyPending
<1>2. r \in Field /\ sequence[a] \in Nat /\ pubkey[a] \in Keys
      /\ available[a][denom] \in Ciphertext \cup {Nil}
      /\ seen \in Ciphertext
  BY <1>1, BuilderSees
<1>3. n \in Field
  BY <1>2 DEF Ciphertext
<1>4. ct \in Ciphertext
  BY <1>2, <1>3, EncryptType
<1>5. m \in ApplyPendingMsg
  BY <1>2, <1>4, WalletsAssumption DEF ApplyPendingMsg
<1>6. /\ tx.msg = m /\ tx.seq = sequence[a] /\ tx.amount = n /\ tx.r = r
      /\ tx.sawAvailable = available[a][denom]
  BY DEF Tx
<1>7. m.sender = a /\ m.denom = denom /\ m.newAvailableUpdate = ct /\ m.type = "ApplyPending"
  OBVIOUS
<1>8. r = HKDF(pubkey[a], available[a][denom], <<"apply_pending", sequence[a], n, Nil>>)
  BY DEF DeriveRandomness
<1> HIDE DEF n, r, ct, m, tx
<1>9. ApplyBuilt(tx)
  BY <1>5, <1>6, <1>7, <1>8 DEF ApplyBuilt, Derived, OwnUpdate, ct
<1>10. Fresh(tx)
  BY <1>2, <1>3, <1>6, <1>7, <1>9 DEF Fresh, Built, IsSpend
<1> QED
  BY <1>1, <1>10

(* Differences determine what was subtracted from. *)
LEMMA FieldSubInjective ==
    ASSUME NEW x \in Field, NEW y \in Field, NEW z \in Field,
           FieldSub(x, z) = FieldSub(y, z)
    PROVE  x = y
  BY FieldAssumption DEF Field, FieldSub

(* The proof about the remainder comes out good only if the local state     *)
(* opens the balance it is subtracted from.                                 *)
LEMMA GoodProofNeedsOpening ==
    ASSUME HKDFReduced, TransactionsInv, NEW a \in Accounts, NEW n \in SendAmounts,
           NEW r \in Field, NEW ct, ct = EncryptWithRandomness(n, pubkey[a], r),
           Spendable(wallet[a], n), wallet[a].Value - n < RangeBound
    PROVE  LET proof == RemainingProof(a, ct, n, r)
           IN  /\ wallet[a].Value - n \in Field
               /\ proof \in Ciphertext
               /\ proof # NoProof =>
                    /\ proof = subCiphertexts(available[a][denom], ct)
                    /\ proof.v = wallet[a].Value - n
                    /\ DecryptsUnder(proof, pubkey[a])
                    /\ OpensBalance(a)
<1> DEFINE w == wallet[a].Value
           q == wallet[a].Randomness
           pk == pubkey[a]
           stored == available[a][denom]
           rest == subCiphertexts(stored, ct)
           proof == RemainingProof(a, ct, n, r)
<1>1. /\ w \in Int /\ q \in Field /\ pk \in Keys
      /\ stored \in Ciphertext \cup {Nil}
  BY BuilderSees
<1>2. n \in Field /\ n \in Int /\ n > 0 /\ n < RangeBound
  BY AskedAmount
<1>3. n <= w /\ w - n < RangeBound
  BY DEF Spendable
<1>4. w \in Field /\ w - n \in Field /\ w > 0 /\ FieldSub(w, n) = w - n
  BY <1>1, <1>2, <1>3, RangeAssumption, FieldAssumption DEF Field, FieldSub
<1>5. FieldSub(q, r) \in Field
  BY <1>1, FieldArithmetic
<1>6. proof = IF EncryptWithRandomness(w - n, pk, FieldSub(q, r)) = rest THEN rest ELSE NoProof
  BY DEF RemainingProof, ProveCommitment
<1>7. ct \in Ciphertext
  BY <1>1, <1>2, EncryptType
<1>8. rest \in Ciphertext
  BY <1>1, <1>7, HomomorphicOperations
<1>9. NoProof \in Ciphertext
  BY FieldAssumption, NilAssumption
     DEF NoProof, EncryptWithRandomness, Canonical, Ciphertext, Field
<1>10. PICK v \in Field, s \in Field :
         unmarshalOrZero(stored) = EncryptWithRandomness(v, pk, s)
  BY DEF TransactionsInv, BalancesOpen
<1>11. rest = EncryptWithRandomness(FieldSub(v, n), pk, FieldSub(s, r))
  BY <1>1, <1>2, <1>10, OpeningsCombine DEF subCiphertexts
<1> HIDE DEF w, q, pk, stored, rest, proof
<1>12. ASSUME proof # NoProof
       PROVE  /\ proof = rest /\ proof.v = w - n /\ DecryptsUnder(proof, pk)
              /\ stored = EncryptWithRandomness(w, pk, q)
  <2>1. EncryptWithRandomness(w - n, pk, FieldSub(q, r)) = rest /\ proof = rest
    BY <1>6, <1>12
  <2>2. proof.v = w - n /\ DecryptsUnder(proof, pk)
    BY <2>1, <1>1, <1>4, <1>5, EncryptType
  <2>3. FieldSub(v, n) = FieldSub(w, n) /\ FieldSub(s, r) = FieldSub(q, r)
    BY <2>1, <1>4, <1>11, OpeningUnique
  <2>4. v = w /\ s = q
    BY <2>3, <1>1, <1>2, <1>4, <1>10, FieldSubInjective
  <2>5. unmarshalOrZero(stored).v = w
    <3>1. unmarshalOrZero(stored) = EncryptWithRandomness(w, pk, q)
      BY <2>4, <1>10
    <3>2. EncryptWithRandomness(w, pk, q).v = w
      BY <1>1, <1>4, EncryptType
    <3> QED
      BY <3>1, <3>2
  <2>6. stored # Nil
    BY <2>5, <1>4 DEF unmarshalOrZero
  <2>7. unmarshalOrZero(stored) = stored
    BY <2>6 DEF unmarshalOrZero
  <2> QED
    BY <2>1, <2>2, <2>4, <2>7, <1>10
<1>13. proof \in Ciphertext
  BY <1>6, <1>8, <1>9
<1> QED
  BY <1>4, <1>12, <1>13 DEF w, q, pk, stored, rest, proof, OpensBalance

(* Unshield builds what it should. *)
LEMMA BuildUnshieldFresh ==
    ASSUME HKDFReduced, TransactionsInv, NEW a \in Accounts, NEW n \in SendAmounts,
           BuildUnshield(a, n)
    PROVE  \E tx : Broadcast(tx) /\ Fresh(tx)
<1> DEFINE r == DeriveRandomness(a, "unshield", n, Nil)
           ct == EncryptWithRandomness(n, pubkey[a], r)
           w == wallet[a].Value - n
           proof == RemainingProof(a, ct, n, r)
           m == [type |-> "Unshield", sender |-> a, denom |-> denom, amount |-> n,
                 ciphertext |-> ct, remainingCommitment |-> w,
                 remainingCommitmentProof |-> proof]
           tx == Tx(m, n, r)
<1>1. Broadcast(tx) /\ Spendable(wallet[a], n) /\ w < RangeBound
  BY DEF BuildUnshield, ProveRange
<1>2. r \in Field /\ sequence[a] \in Nat /\ pubkey[a] \in Keys
      /\ available[a][denom] \in Ciphertext \cup {Nil}
  BY BuilderSees
<1>3. n \in Field /\ n \in Int /\ n \in 1 .. (RangeBound - 1)
  BY AskedAmount
<1>4. ct \in Ciphertext
  BY <1>2, <1>3, EncryptType
<1>5. /\ w \in Field /\ proof \in Ciphertext
      /\ proof # NoProof =>
           /\ proof = subCiphertexts(available[a][denom], ct)
           /\ proof.v = w
           /\ DecryptsUnder(proof, pubkey[a])
           /\ OpensBalance(a)
  BY <1>1, <1>2, GoodProofNeedsOpening
<1>6. /\ tx.msg = m /\ tx.seq = sequence[a] /\ tx.amount = n /\ tx.r = r
      /\ tx.sawAvailable = available[a][denom]
  BY DEF Tx
<1>7. /\ m.sender = a /\ m.denom = denom /\ m.ciphertext = ct /\ m.type = "Unshield"
      /\ m.amount = n /\ m.remainingCommitment = w
      /\ m.remainingCommitmentProof = proof
  OBVIOUS
<1>8. m \in UnshieldMsg
  BY <1>3, <1>4, <1>5, WalletsAssumption DEF UnshieldMsg
<1>9. r = HKDF(pubkey[a], available[a][denom], <<"unshield", sequence[a], n, Nil>>)
  BY DEF DeriveRandomness
<1>10. n <= wallet[a].Value
  BY <1>1 DEF Spendable
<1>11. OwnUpdate(tx) = ct
  BY <1>6, <1>7 DEF OwnUpdate
<1> HIDE DEF r, ct, w, proof, m, tx
<1>12. RemainderBuilt(tx)
  BY <1>1, <1>3, <1>5, <1>6, <1>7, <1>11 DEF RemainderBuilt
<1>13. UnshieldBuilt(tx)
  BY <1>6, <1>7, <1>8, <1>9, <1>11, <1>12 DEF UnshieldBuilt, Derived
<1>14. Fresh(tx)
  BY <1>2, <1>3, <1>5, <1>6, <1>7, <1>10, <1>13 DEF Fresh, Built
<1> QED
  BY <1>1, <1>14

(* Send builds what it should. *)
LEMMA BuildSendFresh ==
    ASSUME HKDFReduced, TransactionsInv, NEW a \in Accounts, NEW b \in Accounts,
           NEW n \in SendAmounts, BuildSend(a, b, n)
    PROVE  \E tx : Broadcast(tx) /\ Fresh(tx)
<1> DEFINE r == DeriveRandomness(a, "send/sender", n, b)
           rReceiver == DeriveRandomness(a, "send/receiver", n, b)
           rAuditor == DeriveRandomness(a, "send/auditor", n, b)
           ct == EncryptWithRandomness(n, pubkey[a], r)
           ctReceiver == EncryptWithRandomness(n, pubkey[b], rReceiver)
           ctAuditor == EncryptWithRandomness(n, auditor, rAuditor)
           w == wallet[a].Value - n
           proof == RemainingProof(a, ct, n, r)
           m == [type |-> "ConfidentialSend", sender |-> a, receiver |-> b,
                 denom |-> denom, senderUpdate |-> ct,
                 receiverUpdate |-> ctReceiver, auditorUpdate |-> ctAuditor,
                 transferCommitment |-> n, remainingCommitment |-> w,
                 remainingCommitmentProof |-> proof]
           tx == Tx(m, n, r)
<1>1. Broadcast(tx) /\ Spendable(wallet[a], n) /\ w < RangeBound /\ a # b
  BY DEF BuildSend, ProveRange
<1>2. /\ r \in Field /\ rReceiver \in Field /\ rAuditor \in Field
      /\ sequence[a] \in Nat /\ pubkey[a] \in Keys /\ pubkey[b] \in Keys
      /\ available[a][denom] \in Ciphertext \cup {Nil}
      /\ auditor \in Keys
  BY BuilderSees DEF TransactionsInv, WalletTypes
<1>3. n \in Field /\ n \in Int /\ n \in 1 .. (RangeBound - 1)
  BY AskedAmount
<1>4. ct \in Ciphertext /\ ctReceiver \in Ciphertext /\ ctAuditor \in Ciphertext
  BY <1>2, <1>3, EncryptType
<1>5. /\ w \in Field /\ proof \in Ciphertext
      /\ proof # NoProof =>
           /\ proof = subCiphertexts(available[a][denom], ct)
           /\ proof.v = w
           /\ DecryptsUnder(proof, pubkey[a])
           /\ OpensBalance(a)
  BY <1>1, <1>2, GoodProofNeedsOpening
<1>6. /\ tx.msg = m /\ tx.seq = sequence[a] /\ tx.amount = n /\ tx.r = r
      /\ tx.sawAvailable = available[a][denom] /\ tx.sawAuditor = auditor
  BY DEF Tx
<1>7. /\ m.sender = a /\ m.receiver = b /\ m.denom = denom
      /\ m.type = "ConfidentialSend"
      /\ m.senderUpdate = ct /\ m.receiverUpdate = ctReceiver
      /\ m.auditorUpdate = ctAuditor
      /\ m.transferCommitment = n /\ m.remainingCommitment = w
      /\ m.remainingCommitmentProof = proof
  OBVIOUS
<1>8. m \in ConfidentialSendMsg
  BY <1>3, <1>4, <1>5, WalletsAssumption DEF ConfidentialSendMsg
<1>9. /\ r = HKDF(pubkey[a], available[a][denom], <<"send/sender", sequence[a], n, b>>)
      /\ rReceiver = HKDF(pubkey[a], available[a][denom], <<"send/receiver", sequence[a], n, b>>)
      /\ rAuditor = HKDF(pubkey[a], available[a][denom], <<"send/auditor", sequence[a], n, b>>)
  BY DEF DeriveRandomness
<1>10. n <= wallet[a].Value
  BY <1>1 DEF Spendable
<1>11. OwnUpdate(tx) = ct
  BY <1>6, <1>7 DEF OwnUpdate
<1> HIDE DEF r, rReceiver, rAuditor, ct, w, proof, m, tx
<1>12. RemainderBuilt(tx)
  BY <1>1, <1>3, <1>5, <1>6, <1>7, <1>11 DEF RemainderBuilt
<1>13. SendBuilt(tx)
  BY <1>1, <1>2, <1>6, <1>7, <1>8, <1>9, <1>11, <1>12 DEF SendBuilt, Derived
<1>14. Fresh(tx)
  BY <1>2, <1>3, <1>5, <1>6, <1>7, <1>10, <1>13 DEF Fresh, Built
<1> QED
  BY <1>1, <1>14

(***************************************************************************)
(* Execution                                                                *)
(***************************************************************************)

(* What an executed transaction does to the balance of its sender, and to   *)
(* the number it stands for.                                                *)
Moved(tx, stored) ==
    IF IsSpend(tx) THEN subCiphertexts(stored, OwnUpdate(tx))
                   ELSE addCiphertexts(stored, OwnUpdate(tx))

MovedValue(tx, n) == IF IsSpend(tx) THEN n - tx.amount ELSE n + tx.amount

(* The spendable balance of its sender is all an executed transaction       *)
(* changes of the spendable balances; the number it stands for does not     *)
(* wrap, and a spend was proved from the balance it takes from.             *)
Settles(tx) ==
    LET a == tx.msg.sender
        stored == available[a][denom]
    IN  /\ IInv'
        /\ pubkey' = pubkey /\ auditor' = auditor
        /\ \A b \in Accounts \ {a} : available'[b][denom] = available[b][denom]
        /\ available'[a][denom] = Moved(tx, stored)
        /\ available'[a][denom] \in Ciphertext
        /\ available'[a][denom].v = MovedValue(tx, Plaintext(stored))
        /\ IsSpend(tx) => /\ tx.msg.remainingCommitmentProof = Moved(tx, stored)
                          /\ tx.msg.remainingCommitmentProof # NoProof
                          /\ tx.amount <= Plaintext(stored)

(* What the execution of a transaction rests on. *)
Executable(tx) ==
    /\ IInv
    /\ pubkey \in [Accounts -> Keys]
    /\ Carries(tx)

(* A transaction of a wallet carries its amount. *)
LEMMA BuiltCarries ==
    ASSUME NEW tx, Built(tx)
    PROVE  Carries(tx)
  BY DEF Built, Carries, ShieldBuilt, ApplyBuilt, SendBuilt, UnshieldBuilt

(* An executed shield adds its amount. *)
LEMMA ShieldSettles ==
    ASSUME NEW tx, Executable(tx), Shield(tx.msg)
    PROVE  Settles(tx)
<1> DEFINE m == tx.msg
           a == m.sender
           new == addCiphertexts(available[a][denom], m.ciphertext)
<1>1. /\ IInv /\ m \in ShieldMsg /\ m.denom = denom /\ a \in Accounts
      /\ m.type = "Shield" /\ m.ciphertext = OwnUpdate(tx)
      /\ pubkey[a] \in Keys /\ tx.amount \in Field /\ tx.r \in Field
  BY DEF Executable, Carries, Shield, ShieldMsg, ApplyPendingMsg, ConfidentialSendMsg,
         UnshieldMsg
<1>2. m.amount \in Nat \ {0} /\ EscrowExchange(a, denom, m.amount, new)
  BY <1>1, ShieldEffect
<1>3. IInv'
  BY <1>1, ShieldStep
<1>4. m.amount = tx.amount
  <2>1. m.ciphertext.v = m.amount
    BY DEF Shield, ShieldVerified, verifyDLEQ
  <2> QED
    BY <1>1, <2>1, EncryptType DEF OwnUpdate
<1>5. ~IsSpend(tx)
  BY <1>1 DEF IsSpend
<1> HIDE DEF m, a
<1>6. /\ new \in Ciphertext /\ new.v = Plaintext(available[a][denom]) + tx.amount
      /\ BalanceWritten(available, available', a, denom, new)
      /\ UNCHANGED <<pubkey, auditor>>
  BY <1>2, <1>4 DEF EscrowExchange
<1>7. Moved(tx, available[a][denom]) = new
  BY <1>1, <1>5 DEF Moved
<1>8. /\ available'[a][denom] = new
      /\ \A b \in Accounts \ {a} : available'[b][denom] = available[b][denom]
  BY <1>6, WalletsAssumption DEF BalanceWritten
<1> HIDE DEF new
<1> QED
  BY <1>3, <1>5, <1>6, <1>7, <1>8 DEF Settles, MovedValue, m, a

(* An executed application adds all that was pending. *)
LEMMA ApplySettles ==
    ASSUME NEW tx, Executable(tx), ApplyPending(tx.msg)
    PROVE  Settles(tx)
<1> DEFINE m == tx.msg
           a == m.sender
           new == addCiphertexts(available[a][denom], m.newAvailableUpdate)
<1>1. /\ IInv /\ m \in ApplyPendingMsg /\ m.denom = denom /\ a \in Accounts
      /\ m.type = "ApplyPending" /\ m.newAvailableUpdate = OwnUpdate(tx)
      /\ pubkey[a] \in Keys /\ tx.amount \in Field /\ tx.r \in Field
  BY DEF Executable, Carries, ApplyPending, ShieldMsg, ApplyPendingMsg, ConfidentialSendMsg,
         UnshieldMsg
<1>2. /\ new \in Ciphertext
      /\ new.v = Plaintext(available[a][denom]) + Plaintext(pending[a][denom])
      /\ BalanceWritten(available, available', a, denom, new)
  BY <1>1, ApplyPendingEffect
<1>3. IInv'
  BY <1>1, ApplyPendingStep
<1>4. Plaintext(pending[a][denom]) = tx.amount
  <2>1. pending[a][denom] # Nil /\ m.newAvailableUpdate.v = pending[a][denom].v
    BY <1>1 DEF ApplyPending, ApplyVerified, verifyApplyPending
  <2> QED
    BY <1>1, <2>1, EncryptType DEF OwnUpdate, Plaintext, unmarshalOrZero
<1>5. ~IsSpend(tx)
  BY <1>1 DEF IsSpend
<1>6. UNCHANGED <<pubkey, auditor>>
  BY DEF ApplyPending
<1> HIDE DEF m, a
<1>7. Moved(tx, available[a][denom]) = new
  BY <1>1, <1>5 DEF Moved
<1>8. /\ available'[a][denom] = new
      /\ \A b \in Accounts \ {a} : available'[b][denom] = available[b][denom]
  BY <1>2, WalletsAssumption DEF BalanceWritten
<1> HIDE DEF new
<1> QED
  BY <1>2, <1>3, <1>4, <1>5, <1>6, <1>7, <1>8 DEF Settles, MovedValue, m, a

(* An executed withdrawal takes its amount. *)
LEMMA UnshieldSettles ==
    ASSUME NEW tx, Executable(tx), Unshield(tx.msg)
    PROVE  Settles(tx)
<1> DEFINE m == tx.msg
           a == m.sender
           old == available[a][denom]
           new == subCiphertexts(old, m.ciphertext)
<1>1. /\ IInv /\ m \in UnshieldMsg /\ m.denom = denom /\ a \in Accounts
      /\ m.type = "Unshield" /\ m.ciphertext = OwnUpdate(tx)
      /\ m.amount = tx.amount /\ pubkey[a] \in Keys
  BY DEF Executable, Carries, Unshield, ShieldMsg, ApplyPendingMsg, ConfidentialSendMsg,
         UnshieldMsg
<1>2. /\ m.amount \in Nat \ {0} /\ m.amount <= Plaintext(old)
      /\ EscrowExchange(a, denom, 0 - m.amount, new)
  BY <1>1, UnshieldEffect
<1>3. IInv'
  BY <1>1, UnshieldStep
<1>4. IsSpend(tx)
  BY <1>1 DEF IsSpend
<1>5. m.remainingCommitmentProof # NoProof /\ m.remainingCommitmentProof = new
  <2>1. DecryptsUnder(m.remainingCommitmentProof, pubkey[a])
        /\ m.remainingCommitmentProof = new
    BY <1>1 DEF Unshield, UnshieldVerified, verifyCommitmentEquality
  <2> QED
    BY <1>1, <2>1, EncryptionNotGarbled DEF NoProof
<1>6. Plaintext(old) \in Nat
  BY <1>1, WalletsAssumption, BalancesBounded DEF Field
<1> HIDE DEF m, a, old
<1>7. /\ new \in Ciphertext /\ new.v = Plaintext(old) - tx.amount
      /\ BalanceWritten(available, available', a, denom, new)
      /\ UNCHANGED <<pubkey, auditor>>
  BY <1>1, <1>2, <1>6 DEF EscrowExchange, old
<1>8. Moved(tx, old) = new
  BY <1>1, <1>4 DEF Moved
<1>9. /\ available'[a][denom] = new
      /\ \A b \in Accounts \ {a} : available'[b][denom] = available[b][denom]
  BY <1>7, WalletsAssumption DEF BalanceWritten
<1> HIDE DEF new
<1> QED
  BY <1>1, <1>2, <1>3, <1>4, <1>5, <1>7, <1>8, <1>9 DEF Settles, MovedValue, m, a, old

(* An executed transfer takes its amount from its sender. *)
LEMMA SendSettles ==
    ASSUME NEW tx, Executable(tx), ConfidentialSend(tx.msg)
    PROVE  Settles(tx)
<1> DEFINE m == tx.msg
           a == m.sender
           old == available[a][denom]
           new == subCiphertexts(old, m.senderUpdate)
<1>1. /\ IInv /\ m \in ConfidentialSendMsg /\ m.denom = denom /\ a \in Accounts
      /\ m.type = "ConfidentialSend" /\ m.senderUpdate = OwnUpdate(tx)
      /\ pubkey[a] \in Keys /\ tx.amount \in Field /\ tx.r \in Field
  BY DEF Executable, Carries, ConfidentialSend, ShieldMsg, ApplyPendingMsg, ConfidentialSendMsg,
         UnshieldMsg
<1>2. /\ new \in Ciphertext
      /\ m.senderUpdate.v <= Plaintext(old)
      /\ new.v = Plaintext(old) - m.senderUpdate.v
      /\ BalanceWritten(available, available', a, denom, new)
  BY <1>1, ConfidentialSendEffect
<1>3. IInv'
  BY <1>1, ConfidentialSendStep
<1>4. IsSpend(tx)
  BY <1>1 DEF IsSpend
<1>5. m.remainingCommitmentProof # NoProof /\ m.remainingCommitmentProof = new
  <2>1. DecryptsUnder(m.remainingCommitmentProof, pubkey[a])
        /\ m.remainingCommitmentProof = new
    BY <1>1 DEF ConfidentialSend, SendVerified, verifyCommitmentEquality
  <2> QED
    BY <1>1, <2>1, EncryptionNotGarbled DEF NoProof
<1>6. m.senderUpdate.v = tx.amount
  BY <1>1, EncryptType DEF OwnUpdate
<1>7. UNCHANGED <<pubkey, auditor>>
  BY DEF ConfidentialSend
<1> HIDE DEF m, a, old
<1>8. Moved(tx, old) = new
  BY <1>1, <1>4 DEF Moved
<1>9. /\ available'[a][denom] = new
      /\ \A b \in Accounts \ {a} : available'[b][denom] = available[b][denom]
  BY <1>2, WalletsAssumption DEF BalanceWritten
<1> HIDE DEF new
<1> QED
  BY <1>2, <1>3, <1>4, <1>5, <1>6, <1>7, <1>8, <1>9 DEF Settles, MovedValue, m, a, old

(* Every executed transaction does what its kind is to do. *)
LEMMA HandledSettles ==
    ASSUME NEW tx, Executable(tx), Handle(tx.msg)
    PROVE  Settles(tx)
<1>1. tx.msg.type \in {"Shield", "ApplyPending", "ConfidentialSend", "Unshield"}
  BY DEF Executable, Carries, ShieldMsg, ApplyPendingMsg, ConfidentialSendMsg, UnshieldMsg
<1>2. CASE Shield(tx.msg)
  BY <1>2, ShieldSettles
<1>3. CASE ConfidentialSend(tx.msg)
  BY <1>3, SendSettles
<1>4. CASE ApplyPending(tx.msg)
  BY <1>4, ApplySettles
<1>5. CASE Unshield(tx.msg)
  BY <1>5, UnshieldSettles
<1> QED
  BY <1>1, <1>2, <1>3, <1>4, <1>5 DEF Handle, RegisterKey, SetAuditorKey

LEMMA ExecuteSettles ==
    ASSUME TransactionsInv, NEW tx \in broadcast, Execute(tx)
    PROVE  Settles(tx)
<1>1. Built(tx) /\ Handle(tx.msg)
  BY DEF TransactionsInv, Execute
<1>2. Executable(tx)
  BY <1>1, BuiltCarries DEF Executable, TransactionsInv, WalletTypes
<1> QED
  BY <1>1, <1>2, HandledSettles

(***************************************************************************)
(* Each step preserves the invariant                                        *)
(***************************************************************************)

(* What a transaction was built from does not change with the balances. *)
LEMMA StaysBuilt ==
    ASSUME NEW tx, Built(tx), pubkey' = pubkey
    PROVE  Built(tx)'
  BY DEF Built, ShieldBuilt, ApplyBuilt, SendBuilt, UnshieldBuilt, RemainderBuilt,
         Derived, OwnUpdate, NoProof

(* A transaction is of one kind, and its result is applied as that kind's.  *)
LEMMA AfterEffect ==
    ASSUME NEW tx, NEW s \in LocalState, Built(tx)
    PROVE  /\ After(s, tx) =
                [Value |-> MovedValue(tx, s.Value),
                 Randomness |-> IF IsSpend(tx) THEN FieldSub(s.Randomness, tx.r)
                                               ELSE FieldAdd(s.Randomness, tx.r),
                 RandomnessKnown |-> IF IsSpend(tx) THEN s.RandomnessKnown ELSE TRUE]
           /\ After(s, tx) \in LocalState
<1>1. /\ s = [Value |-> s.Value, Randomness |-> s.Randomness,
              RandomnessKnown |-> s.RandomnessKnown]
      /\ s.Value \in Int /\ s.Randomness \in Field /\ s.RandomnessKnown \in BOOLEAN
  BY DEF LocalState
<1>2. tx.amount \in Int /\ tx.r \in Field
  BY FieldAssumption DEF Built, Field
<1>3. tx.msg.type \in {"Shield", "ApplyPending", "ConfidentialSend", "Unshield"}
  BY DEF Built, ShieldBuilt, ApplyBuilt, SendBuilt, UnshieldBuilt, ShieldMsg,
         ApplyPendingMsg, ConfidentialSendMsg, UnshieldMsg
<1>4. /\ FieldSub(s.Randomness, tx.r) \in Field
      /\ FieldAdd(s.Randomness, tx.r) \in Field
  BY <1>1, <1>2, FieldArithmetic
<1>5. After(s, tx) =
        [Value |-> MovedValue(tx, s.Value),
         Randomness |-> IF IsSpend(tx) THEN FieldSub(s.Randomness, tx.r)
                                       ELSE FieldAdd(s.Randomness, tx.r),
         RandomnessKnown |-> IF IsSpend(tx) THEN s.RandomnessKnown ELSE TRUE]
  <2>1. CASE tx.msg.type = "Shield"
    BY <2>1 DEF After, AfterShield, IsSpend, MovedValue
  <2>2. CASE tx.msg.type = "ApplyPending"
    BY <2>2 DEF After, AfterApplyPending, IsSpend, MovedValue
  <2>3. CASE tx.msg.type = "ConfidentialSend"
    BY <1>1, <2>3 DEF After, AfterSend, IsSpend, MovedValue
  <2>4. CASE tx.msg.type = "Unshield"
    BY <1>1, <2>4 DEF After, AfterUnshield, IsSpend, MovedValue
  <2> QED
    BY <1>3, <2>1, <2>2, <2>3, <2>4
<1>6. MovedValue(tx, s.Value) \in Int
  BY <1>1, <1>2 DEF MovedValue
<1>7. After(s, tx) \in LocalState
  <2> DEFINE q == IF IsSpend(tx) THEN FieldSub(s.Randomness, tx.r)
                                 ELSE FieldAdd(s.Randomness, tx.r)
             known == IF IsSpend(tx) THEN s.RandomnessKnown ELSE TRUE
  <2>1. q \in Field
    BY <1>4
  <2>2. known \in BOOLEAN
    BY <1>1
  <2>3. After(s, tx) = [Value |-> MovedValue(tx, s.Value), Randomness |-> q,
                        RandomnessKnown |-> known]
    BY <1>5
  <2> HIDE DEF q, known
  <2> QED
    BY <1>6, <2>1, <2>2, <2>3 DEF LocalState
<1> QED
  BY <1>5, <1>7

(* Nothing of the keeper changes: the invariant of the keeper stays. *)
LEMMA KeeperUntouched ==
    ASSUME IInv, UNCHANGED vars
    PROVE  IInv'
  BY NextInvariant

(* Broadcasting a fresh transaction preserves the invariant. *)
LEMMA BroadcastStep ==
    ASSUME TransactionsInv, NEW tx, Broadcast(tx), Fresh(tx)
    PROVE  TransactionsInv'
<1> DEFINE a == tx.msg.sender
<1>1. /\ broadcast' = broadcast \cup {tx}
      /\ awaiting' = [awaiting EXCEPT ![a] = @ \cup {tx}]
      /\ UNCHANGED <<wallet, landed, sequence, crashes>>
      /\ UNCHANGED vars
      /\ tx \notin broadcast
  BY DEF Broadcast
<1>2. UNCHANGED <<pubkey, available, auditor>>
  BY <1>1 DEF vars, balances
<1>3. Built(tx) /\ a \in Accounts /\ tx.seq = sequence[a]
      /\ tx.sawAvailable = available[a][denom]
  BY DEF Fresh, Built
<1>4. IInv'
  BY <1>1, KeeperUntouched DEF TransactionsInv
<1>5. WalletTypes'
  <2>1. WalletTypes
    BY DEF TransactionsInv
  <2>2. awaiting' \in [Accounts -> SUBSET broadcast']
    BY <1>1, <1>3, <2>1 DEF WalletTypes
  <2>3. \A b \in Accounts : awaiting'[b] \subseteq Of(b)'
    BY <1>1, <1>3, <2>1 DEF WalletTypes, Of
  <2> QED
    BY <1>1, <1>2, <2>1, <2>2, <2>3 DEF WalletTypes
<1>6. BalancesOpen'
  BY <1>2 DEF TransactionsInv, BalancesOpen
<1>7. ASSUME NEW u \in broadcast'
      PROVE  Built(u)'
  <2>1. Built(u)
    BY <1>1, <1>3 DEF TransactionsInv
  <2> QED
    BY <1>2, <2>1, StaysBuilt
<1>8. SequenceGuardsBalance'
  <2>1. SequenceGuardsBalance /\ sequence[a] \in Nat
    BY <1>3 DEF TransactionsInv, WalletTypes
  <2> QED
    BY <1>1, <1>2, <1>3, <2>1 DEF SequenceGuardsBalance
<1> QED
  BY <1>4, <1>5, <1>6, <1>7, <1>8 DEF TransactionsInv

(* An executed transaction leaves every balance open to its owner. *)
LEMMA MovedOpens ==
    ASSUME NEW tx, Carries(tx), NEW stored, NEW v \in Field, NEW r \in Field,
           tx.msg.sender \in Accounts, pubkey[tx.msg.sender] \in Keys,
           unmarshalOrZero(stored) = EncryptWithRandomness(v, pubkey[tx.msg.sender], r)
    PROVE  Moved(tx, stored) =
             IF IsSpend(tx)
             THEN EncryptWithRandomness(FieldSub(v, tx.amount), pubkey[tx.msg.sender],
                                        FieldSub(r, tx.r))
             ELSE EncryptWithRandomness(FieldAdd(v, tx.amount), pubkey[tx.msg.sender],
                                        FieldAdd(r, tx.r))
  BY OpeningsCombine DEF Moved, OwnUpdate, Carries, addCiphertexts, subCiphertexts

(* Executing a transaction preserves the invariant. *)
LEMMA ExecuteStep ==
    ASSUME TransactionsInv, NEW tx \in broadcast, Execute(tx)
    PROVE  TransactionsInv'
<1> DEFINE a == tx.msg.sender
<1>1. Settles(tx)
  BY ExecuteSettles
<1>2. /\ tx.seq = sequence[a]
      /\ sequence' = [sequence EXCEPT ![a] = @ + 1]
      /\ landed' = landed \cup {tx}
      /\ UNCHANGED <<wallet, awaiting, broadcast, crashes>>
  BY DEF Execute, Admit
<1>3. /\ IInv' /\ pubkey' = pubkey /\ auditor' = auditor
      /\ \A b \in Accounts \ {a} : available'[b][denom] = available[b][denom]
      /\ available'[a][denom] = Moved(tx, available[a][denom])
      /\ available'[a][denom] \in Ciphertext
  BY <1>1 DEF Settles
<1>4. Built(tx) /\ a \in Accounts /\ tx.r \in Field /\ tx.amount \in Field
  BY DEF TransactionsInv, Built
<1>5. WalletTypes'
  <2>1. WalletTypes
    BY DEF TransactionsInv
  <2>2. sequence' \in [Accounts -> Nat]
    <3>1. sequence[a] + 1 \in Nat /\ sequence \in [Accounts -> Nat]
      BY <1>4, <2>1 DEF WalletTypes
    <3> HIDE DEF a
    <3> QED
      BY <1>2, <1>4, <3>1
  <2>3. landed' \subseteq broadcast
    BY <1>2, <2>1 DEF WalletTypes
  <2>4. \A b \in Accounts : awaiting'[b] \subseteq Of(b)'
    BY <1>2, <2>1 DEF WalletTypes, Of
  <2>5. /\ pubkey' \in [Accounts -> Keys] /\ auditor' \in Keys
        /\ wallet' \in [Accounts -> LocalState]
        /\ awaiting' \in [Accounts -> SUBSET broadcast']
        /\ landed' \subseteq broadcast' /\ crashes' \in Nat
    BY <1>2, <1>3, <2>1, <2>3 DEF WalletTypes
  <2> QED
    BY <2>2, <2>4, <2>5 DEF WalletTypes
<1>6. BalancesOpen'
  <2> SUFFICES ASSUME NEW b \in Accounts
               PROVE  \E v, r \in Field :
                        unmarshalOrZero(available'[b][denom])
                          = EncryptWithRandomness(v, pubkey'[b], r)
    BY DEF BalancesOpen
  <2>1. PICK v \in Field, r \in Field :
          unmarshalOrZero(available[b][denom]) = EncryptWithRandomness(v, pubkey[b], r)
    BY DEF TransactionsInv, BalancesOpen
  <2>2. CASE b # a
    BY <1>3, <2>1, <2>2
  <2>3. CASE b = a
    <3>1. unmarshalOrZero(available'[a][denom]) = Moved(tx, available[a][denom])
      BY <1>3, NilAssumption DEF unmarshalOrZero
    <3>2. pubkey[a] \in Keys
      BY <1>4 DEF TransactionsInv, WalletTypes
    <3>3. /\ FieldAdd(v, tx.amount) \in Field /\ FieldSub(v, tx.amount) \in Field
          /\ FieldAdd(r, tx.r) \in Field /\ FieldSub(r, tx.r) \in Field
      BY <1>4, FieldArithmetic
    <3>4. Moved(tx, available[a][denom]) =
            IF IsSpend(tx)
            THEN EncryptWithRandomness(FieldSub(v, tx.amount), pubkey[a], FieldSub(r, tx.r))
            ELSE EncryptWithRandomness(FieldAdd(v, tx.amount), pubkey[a], FieldAdd(r, tx.r))
      BY <1>4, <2>1, <2>3, <3>2, BuiltCarries, MovedOpens
    <3> HIDE DEF a
    <3> QED
      BY <1>3, <2>3, <3>1, <3>3, <3>4
  <2> QED
    BY <2>2, <2>3
<1>7. ASSUME NEW u \in broadcast'
      PROVE  Built(u)'
  <2>1. Built(u)
    BY <1>2 DEF TransactionsInv
  <2> QED
    BY <1>3, <2>1, StaysBuilt
<1>8. SequenceGuardsBalance'
  <2>1. /\ SequenceGuardsBalance /\ sequence \in [Accounts -> Nat]
        /\ \A u \in broadcast : u.msg.sender \in Accounts /\ u.seq \in Nat
        /\ landed \subseteq broadcast
    BY DEF TransactionsInv, WalletTypes, Built
  <2>2. ASSUME NEW u \in broadcast
        PROVE  /\ u.seq <= sequence'[u.msg.sender]
               /\ u.seq = sequence'[u.msg.sender]
                    => u.sawAvailable = available'[u.msg.sender][denom]
               /\ u \in landed' => u.seq < sequence'[u.msg.sender]
    <3>1. CASE u.msg.sender = a
      BY <1>2, <1>4, <2>1, <3>1 DEF SequenceGuardsBalance
    <3>2. CASE u.msg.sender # a
      BY <1>2, <1>3, <1>4, <2>1, <3>2 DEF SequenceGuardsBalance
    <3> QED
      BY <3>1, <3>2
  <2>3. landed' \subseteq broadcast
    BY <1>2, <2>1
  <2> QED
    BY <1>2, <2>2, <2>3 DEF SequenceGuardsBalance
<1> QED
  BY <1>3, <1>5, <1>6, <1>7, <1>8 DEF TransactionsInv

(* A refused transaction spends its sequence number and changes nothing.    *)
LEMMA RejectStep ==
    ASSUME TransactionsInv, NEW tx \in broadcast, Reject(tx)
    PROVE  TransactionsInv'
<1> DEFINE a == tx.msg.sender
<1>1. /\ tx.seq = sequence[a]
      /\ sequence' = [sequence EXCEPT ![a] = @ + 1]
      /\ UNCHANGED <<wallet, awaiting, broadcast, landed, crashes>>
      /\ UNCHANGED vars
  BY DEF Reject, Admit
<1>2. UNCHANGED <<pubkey, available, auditor>>
  BY <1>1 DEF vars, balances
<1>3. IInv'
  BY <1>1, KeeperUntouched DEF TransactionsInv
<1>4. a \in Accounts
  BY DEF TransactionsInv, Built
<1>5. WalletTypes'
  BY <1>1, <1>2, <1>4 DEF TransactionsInv, WalletTypes, Of
<1>6. BalancesOpen'
  BY <1>2 DEF TransactionsInv, BalancesOpen
<1>7. ASSUME NEW u \in broadcast'
      PROVE  Built(u)'
  <2>1. Built(u)
    BY <1>1 DEF TransactionsInv
  <2> QED
    BY <1>2, <2>1, StaysBuilt
<1>8. SequenceGuardsBalance'
  <2>1. /\ SequenceGuardsBalance /\ sequence \in [Accounts -> Nat]
        /\ \A u \in broadcast : u.msg.sender \in Accounts /\ u.seq \in Nat
        /\ landed \subseteq broadcast
    BY DEF TransactionsInv, WalletTypes, Built
  <2>2. \A b \in Accounts : sequence[b] <= sequence'[b]
                            /\ (b # a => sequence'[b] = sequence[b])
    BY <1>1, <2>1
  <2>3. sequence'[a] = sequence[a] + 1
    BY <1>1, <1>4, <2>1
  <2> HIDE DEF a
  <2> QED
    BY <1>1, <1>2, <1>4, <2>1, <2>2, <2>3 DEF SequenceGuardsBalance
<1> QED
  BY <1>3, <1>5, <1>6, <1>7, <1>8 DEF TransactionsInv

(* Only the local states change: so does the invariant of the transactions  *)
(* stay, whatever each wallet still waits for.                              *)
LEMMA LocalStep ==
    ASSUME TransactionsInv, UNCHANGED <<vars, broadcast, landed, sequence>>,
           wallet' \in [Accounts -> LocalState], crashes' \in Nat,
           awaiting' \in [Accounts -> SUBSET broadcast],
           \A a \in Accounts : awaiting'[a] \subseteq awaiting[a]
    PROVE  TransactionsInv'
<1>1. UNCHANGED <<pubkey, available, auditor>>
  BY DEF vars, balances
<1>2. IInv'
  BY KeeperUntouched DEF TransactionsInv
<1>3. WalletTypes'
  BY <1>1 DEF TransactionsInv, WalletTypes, Of
<1>4. BalancesOpen' /\ SequenceGuardsBalance'
  BY <1>1 DEF TransactionsInv, BalancesOpen, SequenceGuardsBalance
<1>5. ASSUME NEW u \in broadcast'
      PROVE  Built(u)'
  <2>1. Built(u)
    BY DEF TransactionsInv
  <2> QED
    BY <1>1, <2>1, StaysBuilt
<1> QED
  BY <1>2, <1>3, <1>4, <1>5 DEF TransactionsInv

(* Hearing of a result, giving up on a transaction and losing the local     *)
(* state preserve the invariant.                                            *)
LEMMA ConfirmStep ==
    ASSUME TransactionsInv, NEW tx \in broadcast, Confirm(tx)
    PROVE  TransactionsInv'
<1> DEFINE a == tx.msg.sender
<1>1. /\ Built(tx) /\ a \in Accounts /\ wallet \in [Accounts -> LocalState]
      /\ awaiting \in [Accounts -> SUBSET broadcast] /\ crashes \in Nat
  BY DEF TransactionsInv, WalletTypes, Built
<1>2. /\ wallet' = [wallet EXCEPT ![a] = After(wallet[a], tx)]
      /\ awaiting' = [awaiting EXCEPT ![a] = @ \ {tx}]
      /\ UNCHANGED <<vars, broadcast, landed, sequence, crashes>>
  BY DEF Confirm
<1>3. After(wallet[a], tx) \in LocalState
  BY <1>1, AfterEffect
<1>4. /\ wallet' \in [Accounts -> LocalState]
      /\ awaiting' \in [Accounts -> SUBSET broadcast]
      /\ \A b \in Accounts : awaiting'[b] \subseteq awaiting[b]
  BY <1>1, <1>2, <1>3
<1> QED
  BY <1>1, <1>2, <1>4, LocalStep

LEMMA AbandonStep ==
    ASSUME TransactionsInv, NEW tx \in broadcast, Abandon(tx)
    PROVE  TransactionsInv'
<1>1. /\ awaiting \in [Accounts -> SUBSET broadcast]
      /\ wallet \in [Accounts -> LocalState] /\ crashes \in Nat
  BY DEF TransactionsInv, WalletTypes
<1>2. /\ awaiting' = [awaiting EXCEPT ![tx.msg.sender] = @ \ {tx}]
      /\ UNCHANGED <<vars, wallet, broadcast, landed, sequence, crashes>>
  BY DEF Abandon
<1>3. /\ awaiting' \in [Accounts -> SUBSET broadcast]
      /\ \A a \in Accounts : awaiting'[a] \subseteq awaiting[a]
  BY <1>1, <1>2
<1> QED
  BY <1>1, <1>2, <1>3, LocalStep

(* What is recovered from the chain is a local state. *)
LEMMA RecoveredState ==
    ASSUME TransactionsInv, NEW a \in Accounts
    PROVE  /\ RecoverStateSimple(available[a][denom]) \in LocalState
           /\ RecoverStateSimple(available[a][denom]).Value = Plaintext(available[a][denom])
           /\ RecoverStateSimple(available[a][denom]).Value \in Nat
<1>1. available[a][denom] \in Ciphertext \cup {Nil}
  BY WalletsAssumption DEF TransactionsInv, IInv, TypeOK
<1>2. Plaintext(available[a][denom]) \in Nat
  BY <1>1, PlaintextType
<1>3. 0 \in Field
  BY FieldAssumption DEF Field
<1> QED
  BY <1>1, <1>2, <1>3 DEF RecoverStateSimple, EmptyState, LocalState, Plaintext, unmarshalOrZero

LEMMA CrashStep ==
    ASSUME TransactionsInv, NEW a \in Accounts, Crash(a)
    PROVE  TransactionsInv'
<1>1. /\ awaiting \in [Accounts -> SUBSET broadcast]
      /\ wallet \in [Accounts -> LocalState] /\ crashes \in Nat
  BY DEF TransactionsInv, WalletTypes
<1>2. /\ crashes' = crashes + 1
      /\ wallet' = [wallet EXCEPT ![a] = RecoverStateSimple(available[a][denom])]
      /\ awaiting' = [awaiting EXCEPT ![a] = {}]
      /\ UNCHANGED <<vars, broadcast, landed, sequence>>
  BY DEF Crash
<1>3. RecoverStateSimple(available[a][denom]) \in LocalState
  BY RecoveredState
<1>4. /\ wallet' \in [Accounts -> LocalState] /\ crashes' \in Nat
      /\ awaiting' \in [Accounts -> SUBSET broadcast]
      /\ \A b \in Accounts : awaiting'[b] \subseteq awaiting[b]
  BY <1>1, <1>2, <1>3
<1> QED
  BY <1>2, <1>4, LocalStep

(* A rotation changes the auditor key and nothing else. *)
LEMMA RotateStep ==
    ASSUME TransactionsInv, NEW k \in AuditorKeys, Rotate(k)
    PROVE  TransactionsInv'
<1> DEFINE m == [type |-> "SetAuditorKey", authority |-> Authority, pubkey |-> k]
<1>1. k \in Keys
  BY WalletsAssumption
<1>2. m \in SetAuditorKeyMsg /\ SetAuditorKey(m)
  BY <1>1 DEF Rotate, SetAuditorKeyMsg
<1>3. auditor' = k /\ UNCHANGED <<pubkey, available>>
  BY <1>2 DEF SetAuditorKey, balances
<1>4. UNCHANGED <<wallet, awaiting, broadcast, landed, sequence, crashes>>
  BY DEF Rotate
<1>5. IInv'
  BY <1>2, SetAuditorKeyStep DEF TransactionsInv
<1>6. WalletTypes'
  BY <1>1, <1>3, <1>4 DEF TransactionsInv, WalletTypes, Of
<1>7. BalancesOpen' /\ SequenceGuardsBalance'
  BY <1>3, <1>4 DEF TransactionsInv, BalancesOpen, SequenceGuardsBalance
<1>8. ASSUME NEW u \in broadcast'
      PROVE  Built(u)'
  <2>1. Built(u)
    BY <1>4 DEF TransactionsInv
  <2> QED
    BY <1>3, <2>1, StaysBuilt
<1> QED
  BY <1>5, <1>6, <1>7, <1>8 DEF TransactionsInv

(* The invariant holds where the wallets start: keys registered, an auditor *)
(* set, and nothing encrypted yet.                                          *)
LEMMA WalletInitInvariant ==
    ASSUME WalletInit
    PROVE  TransactionsInv
<1>1. /\ pubkey = [a \in Accounts |-> OwnKey(a)]
      /\ available = [a \in Accounts |-> [d \in Denoms |-> Nil]]
      /\ pending = [a \in Accounts |-> [d \in Denoms |-> Nil]]
      /\ bank = InitialFunds /\ escrow = [d \in Denoms |-> 0]
      /\ pendingIsZero = [a \in Accounts |-> [d \in Denoms |-> FALSE]]
      /\ wallet = [a \in Accounts |-> EmptyState]
      /\ awaiting = [a \in Accounts |-> {}] /\ broadcast = {} /\ landed = {}
      /\ sequence = [a \in Accounts |-> 0] /\ crashes = 0
  BY DEF WalletInit
<1>2. \A a \in Accounts : OwnKey(a) \in Controls[a] /\ OwnKey(a) \in Keys
  BY WalletsAssumption, MessagesAssumption DEF OwnKey
<1>3. auditor \in Keys
  BY WalletsAssumption DEF WalletInit
<1>4. pubkey \in [Accounts -> Keys]
  BY <1>1, <1>2
<1>5. TypeOK
  BY <1>1, <1>3, <1>4, FundsAssumption DEF TypeOK
<1>6. KeysOwned /\ OwnerCanDecrypt /\ PendingZeroFlagSound
  BY <1>1, <1>2 DEF KeysOwned, OwnerCanDecrypt, PendingZeroFlagSound
<1>7. CoinsConserved /\ EscrowBacksBalances
  BY <1>1, NothingEncrypted
<1>8. WalletTypes
  <2>1. EmptyState \in LocalState
    BY FieldAssumption DEF EmptyState, LocalState, Field
  <2> QED
    BY <1>1, <1>3, <1>4, <2>1 DEF WalletTypes
<1>9. BalancesOpen
  <2>1. 0 \in Field
    BY FieldAssumption DEF Field
  <2>2. \A a \in Accounts : available[a][denom] = Nil /\ pubkey[a] # Garbled
    BY <1>1, <1>4, WalletsAssumption, NilAssumption
  <2>3. \A a \in Accounts :
          unmarshalOrZero(available[a][denom]) = EncryptWithRandomness(0, pubkey[a], 0)
    BY <2>2 DEF unmarshalOrZero, EncryptWithRandomness, Canonical
  <2> QED
    BY <2>1, <2>3 DEF BalancesOpen
<1>10. SequenceGuardsBalance
  BY <1>1 DEF SequenceGuardsBalance
<1> QED
  BY <1>1, <1>5, <1>6, <1>7, <1>8, <1>9, <1>10 DEF TransactionsInv, IInv

(* No step of the system breaks the invariant. *)
LEMMA WalletNextInvariant ==
    ASSUME HKDFReduced, TransactionsInv, [WalletNext]_allVars
    PROVE  TransactionsInv'
<1>1. ASSUME NEW a \in Accounts, NEW n \in SendAmounts, BuildShield(a, n)
      PROVE  TransactionsInv'
  BY <1>1, BuildShieldFresh, BroadcastStep
<1>2. ASSUME NEW a \in Accounts, NEW b \in Accounts, NEW n \in SendAmounts,
             BuildSend(a, b, n)
      PROVE  TransactionsInv'
  BY <1>2, BuildSendFresh, BroadcastStep
<1>3. ASSUME NEW a \in Accounts, NEW n \in SendAmounts, BuildUnshield(a, n)
      PROVE  TransactionsInv'
  BY <1>3, BuildUnshieldFresh, BroadcastStep
<1>4. ASSUME NEW a \in Accounts, BuildApplyPending(a)
      PROVE  TransactionsInv'
  BY <1>4, BuildApplyPendingFresh, BroadcastStep
<1>5. ASSUME NEW a \in Accounts, Crash(a)
      PROVE  TransactionsInv'
  BY <1>5, CrashStep
<1>6. ASSUME NEW tx \in broadcast, Execute(tx) \/ Reject(tx) \/ Confirm(tx) \/ Abandon(tx)
      PROVE  TransactionsInv'
  BY <1>6, ExecuteStep, RejectStep, ConfirmStep, AbandonStep
<1>7. ASSUME NEW k \in AuditorKeys, Rotate(k)
      PROVE  TransactionsInv'
  BY <1>7, RotateStep
<1>8. CASE UNCHANGED allVars
  <2>1. /\ UNCHANGED <<vars, broadcast, landed, sequence, wallet, awaiting, crashes>>
        /\ WalletTypes
    BY <1>8 DEF allVars, walletVars, TransactionsInv
  <2>2. /\ wallet' \in [Accounts -> LocalState] /\ crashes' \in Nat
        /\ awaiting' \in [Accounts -> SUBSET broadcast]
        /\ \A a \in Accounts : awaiting'[a] \subseteq awaiting[a]
    BY <2>1 DEF WalletTypes
  <2> QED
    BY <2>1, <2>2, LocalStep
<1> QED
  BY <1>1, <1>2, <1>3, <1>4, <1>5, <1>6, <1>7, <1>8 DEF WalletNext

(* Every transaction ever broadcast is what its builder made it, and stays  *)
(* tied by its sequence number to the balance it was built against.         *)
THEOREM TransactionsInvariance ==
    ASSUME HKDFReduced
    PROVE  WalletSpec => []TransactionsInv
<1>1. WalletInit => TransactionsInv
  BY WalletInitInvariant
<1>2. TransactionsInv /\ [WalletNext]_allVars => TransactionsInv'
  BY WalletNextInvariant
<1> QED
  BY <1>1, <1>2, PTL DEF WalletSpec

(***************************************************************************)
(* No one else can invalidate a proof                                       *)
(***************************************************************************)

(* A spend whose proof was good was built against the balance that is on    *)
(* chain now, as long as its sequence number is the next one.               *)
LEMMA RemainderVerified ==
    ASSUME TransactionsInv, NEW tx \in SpendingTxs
    PROVE  LET m == tx.msg
               a == m.sender
           IN  /\ a \in Accounts /\ m.denom = denom /\ pubkey[a] \in Keys
               /\ HasRegisteredKey(a)
               /\ SendBuilt(tx) \/ UnshieldBuilt(tx)
               /\ OwnUpdate(tx) \in Ciphertext /\ OwnUpdate(tx).v = tx.amount
               /\ DecryptsUnder(OwnUpdate(tx), pubkey[a])
               /\ tx.amount \in 1 .. (RangeBound - 1)
               /\ m.remainingCommitment < RangeBound
               /\ verifyCommitmentEquality(m.remainingCommitmentProof, pubkey[a],
                      subCiphertexts(available[a][denom], OwnUpdate(tx)),
                      m.remainingCommitment)
<1> DEFINE m == tx.msg
           a == m.sender
           proof == m.remainingCommitmentProof
<1>1. /\ tx \in broadcast /\ IsSpend(tx) /\ proof # NoProof /\ tx.seq = sequence[a]
      /\ Built(tx)
  BY DEF SpendingTxs, TransactionsInv
<1>2. a \in Accounts /\ m.denom = denom /\ pubkey[a] \in Keys
      /\ tx.amount \in Field /\ tx.r \in Field
  BY <1>1 DEF Built, TransactionsInv, WalletTypes
<1>3. SendBuilt(tx) \/ UnshieldBuilt(tx)
  BY <1>1 DEF Built, IsSpend, ShieldBuilt, ApplyBuilt, ShieldMsg, ApplyPendingMsg
<1>4. RemainderBuilt(tx)
  BY <1>3 DEF SendBuilt, UnshieldBuilt
<1>5. tx.sawAvailable = available[a][denom]
  BY <1>1 DEF TransactionsInv, SequenceGuardsBalance
<1>6. /\ proof = subCiphertexts(available[a][denom], OwnUpdate(tx))
      /\ proof.v = m.remainingCommitment
      /\ DecryptsUnder(proof, pubkey[a])
      /\ tx.amount \in 1 .. (RangeBound - 1)
      /\ m.remainingCommitment < RangeBound
  BY <1>1, <1>4, <1>5 DEF RemainderBuilt
<1>7. HasRegisteredKey(a)
  BY <1>2, NilAssumption DEF HasRegisteredKey
<1>8. /\ OwnUpdate(tx) \in Ciphertext /\ OwnUpdate(tx).v = tx.amount
      /\ DecryptsUnder(OwnUpdate(tx), pubkey[a])
  BY <1>2, EncryptType DEF OwnUpdate
<1> HIDE DEF proof
<1> QED
  BY <1>2, <1>3, <1>6, <1>7, <1>8 DEF verifyCommitmentEquality, proof

(* A withdrawal with a good proof is accepted, whatever the others did. *)
LEMMA WithdrawalStaysGood ==
    ASSUME TransactionsInv, NEW tx \in SpendingTxs, UnshieldBuilt(tx)
    PROVE  Accepted(tx.msg)
<1> DEFINE m == tx.msg
           a == m.sender
<1>1. /\ m \in UnshieldMsg /\ m.type = "Unshield" /\ m.amount = tx.amount
      /\ m.ciphertext = OwnUpdate(tx)
  BY DEF UnshieldBuilt, UnshieldMsg
<1>2. /\ a \in Accounts /\ m.denom = denom /\ pubkey[a] \in Keys
      /\ HasRegisteredKey(a)
      /\ OwnUpdate(tx) \in Ciphertext /\ OwnUpdate(tx).v = tx.amount
      /\ DecryptsUnder(OwnUpdate(tx), pubkey[a])
      /\ tx.amount \in 1 .. (RangeBound - 1)
      /\ m.remainingCommitment < RangeBound
      /\ verifyCommitmentEquality(m.remainingCommitmentProof, pubkey[a],
             subCiphertexts(available[a][denom], OwnUpdate(tx)), m.remainingCommitment)
  BY RemainderVerified
<1>3. ValidAmount(m.amount)
  BY <1>1, <1>2, RangeAssumption DEF ValidAmount
<1>4. UnshieldVerified(m)
  BY <1>1, <1>2, <1>3 DEF UnshieldVerified, verifyDLEQ, verifyAggregateRange
<1>5. m.amount <= escrow[m.denom]
  BY <1>1, <1>4, UnshieldCovered DEF TransactionsInv
<1> QED
  BY <1>1, <1>4, <1>5 DEF Accepted

(* A transfer with a good proof is accepted, whatever the others did, while *)
(* the auditor is the one it was built for.                                 *)
LEMMA TransferStaysGood ==
    ASSUME TransactionsInv, NEW tx \in SpendingTxs, SendBuilt(tx),
           tx.sawAuditor = auditor
    PROVE  Accepted(tx.msg)
<1> DEFINE m == tx.msg
           a == m.sender
           b == m.receiver
<1>1. /\ m \in ConfidentialSendMsg /\ m.type = "ConfidentialSend" /\ b \in Accounts
      /\ a # b /\ m.senderUpdate = OwnUpdate(tx) /\ m.transferCommitment = tx.amount
  BY DEF SendBuilt, ConfidentialSendMsg
<1>2. /\ a \in Accounts /\ m.denom = denom /\ pubkey[a] \in Keys
      /\ HasRegisteredKey(a)
      /\ OwnUpdate(tx) \in Ciphertext /\ OwnUpdate(tx).v = tx.amount
      /\ DecryptsUnder(OwnUpdate(tx), pubkey[a])
      /\ tx.amount \in 1 .. (RangeBound - 1)
      /\ m.remainingCommitment < RangeBound
      /\ verifyCommitmentEquality(m.remainingCommitmentProof, pubkey[a],
             subCiphertexts(available[a][denom], OwnUpdate(tx)), m.remainingCommitment)
  BY RemainderVerified
<1>3. pubkey[b] \in Keys /\ HasRegisteredKey(b) /\ auditor \in Keys /\ auditor # NoKey
  BY <1>1, NilAssumption, AccountsAssumption
     DEF TransactionsInv, WalletTypes, HasRegisteredKey
<1>4. /\ m.receiverUpdate.key \in {pubkey[b], AnyKey} /\ m.receiverUpdate.v = tx.amount
      /\ m.auditorUpdate.key \in {auditor, AnyKey} /\ m.auditorUpdate.v = tx.amount
  BY DEF SendBuilt, EncryptWithRandomness, Canonical
<1>5. verifyEquality(pubkey[a], pubkey[b], auditor,
                     m.senderUpdate, m.receiverUpdate, m.auditorUpdate)
  BY <1>1, <1>2, <1>4 DEF verifyEquality, DecryptsUnder
<1>6. verifyCommitmentEquality(m.senderUpdate, pubkey[a], m.senderUpdate,
                               m.transferCommitment)
  BY <1>1, <1>2 DEF verifyCommitmentEquality
<1>7. verifyAggregateRange({m.transferCommitment, m.remainingCommitment})
  BY <1>1, <1>2, RangeAssumption DEF verifyAggregateRange
<1>8. SendVerified(m)
  BY <1>1, <1>2, <1>3, <1>5, <1>6, <1>7 DEF SendVerified
<1> QED
  BY <1>1, <1>8 DEF Accepted

(* Whatever a wallet proved against the balance it saw is accepted as long  *)
(* as its own account executed nothing since: others can credit it, spend,  *)
(* withdraw, crash, and cannot make its proof fail; only a new auditor key  *)
(* can, and only that of a transfer.                                        *)
THEOREM ProofsSurviveOthers ==
    ASSUME HKDFReduced
    PROVE  WalletSpec => []OthersCannotInvalidate
<1>1. ASSUME TransactionsInv, NEW tx \in SpendingTxs,
             tx.msg.type = "Unshield" \/ tx.sawAuditor = auditor
      PROVE  Accepted(tx.msg)
  <2>1. SendBuilt(tx) \/ UnshieldBuilt(tx)
    BY <1>1, RemainderVerified
  <2>2. CASE UnshieldBuilt(tx)
    BY <1>1, <2>2, WithdrawalStaysGood
  <2>3. CASE SendBuilt(tx)
    <3>1. tx.msg.type # "Unshield"
      BY <2>3 DEF SendBuilt, ConfidentialSendMsg
    <3> QED
      BY <1>1, <2>3, <3>1, TransferStaysGood
  <2> QED
    BY <2>1, <2>2, <2>3
<1>2. TransactionsInv => OthersCannotInvalidate
  BY <1>1 DEF OthersCannotInvalidate
<1> QED
  BY <1>2, TransactionsInvariance, PTL

(***************************************************************************)
(* Randomness is never reused                                               *)
(***************************************************************************)

Seed(tx, op, receiver) ==
    <<pubkey[tx.msg.sender], tx.sawAvailable, <<op, tx.seq, tx.amount, receiver>>>>

(* What the randomness of a transaction is derived from. *)
Seeds(tx) ==
    CASE tx.msg.type = "Shield"           -> {Seed(tx, "shield", Nil)}
      [] tx.msg.type = "ApplyPending"     -> {Seed(tx, "apply_pending", Nil)}
      [] tx.msg.type = "Unshield"         -> {Seed(tx, "unshield", Nil)}
      [] tx.msg.type = "ConfidentialSend" ->
           {Seed(tx, op, tx.msg.receiver) :
              op \in {"send/sender", "send/receiver", "send/auditor"}}

(* HKDF does not collide on what was ever derived from. *)
HKDFSeparates ==
    LET seeds == UNION {Seeds(tx) : tx \in broadcast}
    IN  \A i, j \in seeds : HKDF(i[1], i[2], i[3]) = HKDF(j[1], j[2], j[3]) => i = j

(* Every ciphertext of a transaction encrypts its amount, with randomness   *)
(* derived from a seed that contains the amount.                            *)
LEMMA CiphertextDerived ==
    ASSUME NEW tx, Built(tx), NEW c \in CiphertextsOf(tx.msg)
    PROVE  \E i \in Seeds(tx) :
               c.r = HKDF(i[1], i[2], i[3]) /\ c.v = tx.amount /\ i[3][3] = tx.amount
<1> DEFINE m == tx.msg
           Good(op, receiver) ==
             /\ c.r = Derived(tx, op, receiver) /\ c.v = tx.amount
             /\ Seed(tx, op, receiver) \in Seeds(tx)
<1>1. ASSUME NEW op, NEW receiver, Good(op, receiver)
      PROVE  \E i \in Seeds(tx) :
               c.r = HKDF(i[1], i[2], i[3]) /\ c.v = tx.amount /\ i[3][3] = tx.amount
  BY <1>1 DEF Derived, Seed
<1>2. CASE ShieldBuilt(tx)
  <2>1. m.type = "Shield" /\ c = OwnUpdate(tx) /\ tx.r = Derived(tx, "shield", Nil)
    BY <1>2 DEF ShieldBuilt, ShieldMsg, CiphertextsOf
  <2>2. Good("shield", Nil)
    BY <2>1 DEF OwnUpdate, EncryptWithRandomness, Canonical, Seeds
  <2> QED
    BY <1>1, <2>2
<1>3. CASE ApplyBuilt(tx)
  <2>1. m.type = "ApplyPending" /\ c = OwnUpdate(tx)
        /\ tx.r = Derived(tx, "apply_pending", Nil)
    BY <1>3 DEF ApplyBuilt, ApplyPendingMsg, CiphertextsOf
  <2>2. Good("apply_pending", Nil)
    BY <2>1 DEF OwnUpdate, EncryptWithRandomness, Canonical, Seeds
  <2> QED
    BY <1>1, <2>2
<1>4. CASE UnshieldBuilt(tx)
  <2>1. m.type = "Unshield" /\ c = OwnUpdate(tx) /\ tx.r = Derived(tx, "unshield", Nil)
    BY <1>4 DEF UnshieldBuilt, UnshieldMsg, CiphertextsOf
  <2>2. Good("unshield", Nil)
    BY <2>1 DEF OwnUpdate, EncryptWithRandomness, Canonical, Seeds
  <2> QED
    BY <1>1, <2>2
<1>5. CASE SendBuilt(tx)
  <2>1. m.type = "ConfidentialSend"
    BY <1>5 DEF SendBuilt, ConfidentialSendMsg
  <2>2. c \in {m.senderUpdate, m.receiverUpdate, m.auditorUpdate}
    BY <2>1 DEF CiphertextsOf
  <2>3. \A op \in {"send/sender", "send/receiver", "send/auditor"} :
          Seed(tx, op, m.receiver) \in Seeds(tx)
    BY <2>1 DEF Seeds
  <2>4. CASE c = m.senderUpdate
    <3>1. Good("send/sender", m.receiver)
      BY <1>5, <2>3, <2>4 DEF SendBuilt, OwnUpdate, EncryptWithRandomness, Canonical
    <3> QED
      BY <1>1, <3>1
  <2>5. CASE c = m.receiverUpdate
    <3>1. Good("send/receiver", m.receiver)
      BY <1>5, <2>3, <2>5 DEF SendBuilt, EncryptWithRandomness, Canonical
    <3> QED
      BY <1>1, <3>1
  <2>6. CASE c = m.auditorUpdate
    <3>1. Good("send/auditor", m.receiver)
      BY <1>5, <2>3, <2>6 DEF SendBuilt, EncryptWithRandomness, Canonical
    <3> QED
      BY <1>1, <3>1
  <2> QED
    BY <2>2, <2>4, <2>5, <2>6
<1> QED
  BY <1>2, <1>3, <1>4, <1>5 DEF Built

(* As long as HKDF does not collide, no two ciphertexts of different        *)
(* amounts are ever broadcast with the same randomness under one key, over  *)
(* retries, refusals, rotations and lost wallets.                           *)
THEOREM RandomnessNeverReused ==
    ASSUME HKDFReduced
    PROVE  WalletSpec => [](HKDFSeparates => NoRandomnessReuse)
<1>1. ASSUME TransactionsInv, HKDFSeparates,
             NEW t1 \in broadcast, NEW t2 \in broadcast,
             NEW c1 \in CiphertextsOf(t1.msg), NEW c2 \in CiphertextsOf(t2.msg),
             c1.r = c2.r
      PROVE  c1.v = c2.v
  <2>1. Built(t1) /\ Built(t2)
    BY <1>1 DEF TransactionsInv
  <2>2. PICK i \in Seeds(t1) :
          c1.r = HKDF(i[1], i[2], i[3]) /\ c1.v = t1.amount /\ i[3][3] = t1.amount
    BY <2>1, CiphertextDerived
  <2>3. PICK j \in Seeds(t2) :
          c2.r = HKDF(j[1], j[2], j[3]) /\ c2.v = t2.amount /\ j[3][3] = t2.amount
    BY <2>1, CiphertextDerived
  <2>4. i = j
    BY <1>1, <2>2, <2>3 DEF HKDFSeparates
  <2> QED
    BY <2>2, <2>3, <2>4
<1>2. TransactionsInv => (HKDFSeparates => NoRandomnessReuse)
  BY <1>1 DEF NoRandomnessReuse
<1> QED
  BY <1>2, TransactionsInvariance, PTL
=============================================================================
