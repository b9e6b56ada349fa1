----------------------------- MODULE BrowserProofs -----------------------------
(***************************************************************************)
(* The pages at work on the keeper: what holds of the memos they send, for  *)
(* every number of accounts, tabs, transactions and blocks.                 *)
(***************************************************************************)
EXTENDS Browser, WalletsProofs

(***************************************************************************)
(* What a transaction of a page holds from the moment it is prepared        *)
(***************************************************************************)

(* The memo opens what a good proof was made about. *)
MemoProved(tx) ==
    LET proof == tx.msg.remainingCommitmentProof
    IN  IsSpend(tx) /\ proof # NoProof =>
          proof = EncryptWithRandomness(tx.memo.amount, pubkey[tx.msg.sender],
                                        tx.memo.randomness)

Operations(m) ==
    CASE m.type = "Shield"           -> {"shield"}
      [] m.type = "ApplyPending"     -> {"apply_pending"}
      [] m.type = "Unshield"         -> {"unshield"}
      [] m.type = "ConfidentialSend" -> {"send/sender", "send/receiver", "send/auditor"}

ReceiverOf(m) == IF m.type = "ConfidentialSend" THEN m.receiver ELSE Nil

PageSeed(tx, op) ==
    <<pubkey[tx.msg.sender], tx.sawAvailable,
      <<op, tx.sawSequence, tx.amount, ReceiverOf(tx.msg)>>>>

(* What the randomness of a transaction is derived from. *)
PageSeeds(tx) == {PageSeed(tx, op) : op \in Operations(tx.msg)}

(* A ciphertext with randomness from a seed that names its amount. *)
DerivedFrom(c, tx, i) ==
    c.r = HKDF(i[1], i[2], i[3]) /\ c.v = tx.amount /\ i[3][3] = tx.amount

Derives(tx) == \A c \in CiphertextsOf(tx.msg) : \E i \in PageSeeds(tx) : DerivedFrom(c, tx, i)

PageBuilt(tx) ==
    /\ tx \in PageTransaction
    /\ Carries(tx)
    /\ MemoProved(tx)
    /\ Derives(tx)

(* The memo is what the transaction makes of a local state. *)
Follows(tx, state) ==
    /\ tx.memo.amount = MovedValue(tx, state.amount)
    /\ tx.memo.randomness = IF IsSpend(tx) THEN FieldSub(state.randomness, tx.r)
                                           ELSE FieldAdd(state.randomness, tx.r)

(***************************************************************************)
(* The invariant of every page, whatever other tabs do                      *)
(***************************************************************************)

KeeperReady ==
    /\ IInv
    /\ pubkey \in [Accounts -> Keys]
    /\ auditor \in Keys

PageTypes ==
    /\ sequence \in [Accounts -> Nat]
    /\ page \in [Accounts -> PageState]
    /\ shown \in [Tabs -> Field]
    /\ job \in [Tabs -> PageTransaction \cup {Nil}]
    /\ height \in Nat
    /\ timeouts \in Nat

(* A transaction is executed at most once, with the sequence number it was  *)
(* signed with.                                                             *)
SignedOnce ==
    /\ landed \subseteq broadcast
    /\ \A tx \in broadcast :
         tx.signed /\ PageBuilt(tx) /\ tx.seq <= sequence[tx.msg.sender]
    /\ \A tx \in landed : tx.seq < sequence[tx.msg.sender]

JobsBuilt ==
    \A t \in Tabs : job[t] # Nil => PageBuilt(job[t]) /\ job[t].msg.sender = Owner[t]

PagesInv ==
    /\ KeeperReady
    /\ PageTypes
    /\ SignedOnce
    /\ JobsBuilt

(***************************************************************************)
(* Preparing                                                                *)
(***************************************************************************)

(* A panel has prepared tx: nothing else has changed. *)
Prepares(t, tx) ==
    /\ job[t] = Nil
    /\ job' = [job EXCEPT ![t] = tx]
    /\ UNCHANGED <<allVars, page, shown, height, events, timeouts>>
    /\ PageBuilt(tx) /\ tx.msg.sender = Owner[t] /\ ~tx.signed
    /\ Follows(tx, page[Owner[t]])

(* What a panel reads and derives. *)
LEMMA PanelSees ==
    ASSUME HKDFReduced, PagesInv, NEW t \in Tabs
    PROVE  LET a == Owner[t]
           IN  /\ \A op, amount, receiver : deriveRandomness(a, op, amount, receiver) \in Field
               /\ a \in Accounts /\ sequence[a] \in Nat /\ pubkey[a] \in Keys
               /\ available[a][denom] \in Ciphertext \cup {Nil}
               /\ pending[a][denom] \in Ciphertext \cup {Nil}
               /\ page[a] \in PageState
               /\ page[a].amount \in Nat /\ page[a].randomness \in Field
<1>1. Owner[t] \in Accounts /\ denom \in Denoms
  BY BrowserAssumption, WalletsAssumption
<1>2. page[Owner[t]] \in PageState
  BY <1>1 DEF PagesInv, PageTypes
<1> QED
  BY <1>1, <1>2 DEF HKDFReduced, deriveRandomness, PagesInv, KeeperReady, PageTypes, IInv,
     TypeOK, PageState

(* A memo with the state after a receipt or a spend. *)
LEMMA MemoType ==
    ASSUME NEW x \in Nat, NEW q \in Field
    PROVE  /\ wasmEncryptMemo(q, x) \in PageState
           /\ wasmEncryptMemo(q, x).amount = x /\ wasmEncryptMemo(q, x).randomness = q
  BY DEF wasmEncryptMemo, PageState

(* The transaction of a panel, from what its parts are. *)
LEMMA PreparedType ==
    ASSUME PagesInv, NEW t \in Tabs, NEW m \in Message, NEW n \in Field, NEW r \in Field,
           NEW memo \in PageState, m.sender = Owner[t]
    PROVE  /\ PageTx(m, n, r, memo) \in PageTransaction
           /\ PageTx(m, n, r, memo).msg = m /\ PageTx(m, n, r, memo).amount = n
           /\ PageTx(m, n, r, memo).r = r /\ PageTx(m, n, r, memo).memo = memo
           /\ PageTx(m, n, r, memo).sawAvailable = available[m.sender][denom]
           /\ PageTx(m, n, r, memo).sawSequence = sequence[m.sender]
           /\ ~PageTx(m, n, r, memo).signed
<1>1. sequence[m.sender] \in Nat /\ available[m.sender][denom] \in Ciphertext \cup {Nil}
  BY BrowserAssumption, WalletsAssumption DEF PagesInv, PageTypes, KeeperReady, IInv, TypeOK
<1> QED
  BY <1>1 DEF PageTx, PageTransaction

(* What a panel encrypts with what it derives. *)
LEMMA PanelDerives ==
    ASSUME NEW tx, NEW op \in Operations(tx.msg), NEW pk, NEW c,
           c = EncryptWithRandomness(tx.amount, pk,
                 deriveRandomness(tx.msg.sender, op, tx.amount, ReceiverOf(tx.msg))),
           tx.sawAvailable = available[tx.msg.sender][denom],
           tx.sawSequence = sequence[tx.msg.sender]
    PROVE  \E i \in PageSeeds(tx) : DerivedFrom(c, tx, i)
<1>1. DerivedFrom(c, tx, PageSeed(tx, op))
  BY DEF DerivedFrom, PageSeed, deriveRandomness, encode, EncryptWithRandomness, Canonical
<1> QED
  BY <1>1 DEF PageSeeds

(* Preparing a deposit. *)
LEMMA PageShieldPrepares ==
    ASSUME HKDFReduced, PagesInv, NEW t \in Tabs, NEW n \in SendAmounts, PageShield(t, n)
    PROVE  \E tx : Prepares(t, tx)
<1> DEFINE a == Owner[t]
           r == deriveRandomness(a, "shield", n, Nil)
           ct == EncryptWithRandomness(n, pubkey[a], r)
           m == [type |-> "Shield", sender |-> a, denom |-> denom, amount |-> n,
                 ciphertext |-> ct]
           memo == MemoAfterReceipt(page[a], n, r)
           tx == PageTx(m, n, r, memo)
<1>1. Prepare(t, m, n, r, memo)
  BY DEF PageShield, wasmShield
<1>2. /\ r \in Field /\ a \in Accounts /\ pubkey[a] \in Keys
      /\ page[a].amount \in Nat /\ page[a].randomness \in Field
  BY PanelSees
<1>3. n \in Field /\ n \in Nat /\ n \in Int
  BY AskedAmount
<1>4. ct \in Ciphertext
  BY <1>2, <1>3, EncryptType
<1>5. m \in ShieldMsg
  BY <1>2, <1>3, <1>4, WalletsAssumption DEF ShieldMsg
<1>6. m.sender = a /\ m.denom = denom /\ m.ciphertext = ct /\ m.type = "Shield"
  OBVIOUS
<1>7. FieldAdd(page[a].randomness, r) \in Field /\ page[a].amount + n \in Nat
  <2>1. FieldAdd(page[a].randomness, r) \in Field
    BY <1>2, FieldArithmetic
  <2>2. page[a].amount + n \in Nat
    BY <1>2, <1>3
  <2> QED
    BY <2>1, <2>2
<1>8. /\ memo \in PageState
      /\ memo.amount = page[a].amount + n
      /\ memo.randomness = FieldAdd(page[a].randomness, r)
  BY <1>7, MemoType DEF MemoAfterReceipt
<1>ct. ct = EncryptWithRandomness(n, pubkey[a], deriveRandomness(a, "shield", n, Nil))
  OBVIOUS
<1> HIDE DEF r, ct, m, memo
<1>9. /\ tx \in PageTransaction
      /\ tx.msg = m /\ tx.amount = n /\ tx.r = r /\ tx.memo = memo /\ ~tx.signed
      /\ tx.sawAvailable = available[a][denom] /\ tx.sawSequence = sequence[a]
  <2>1. m \in Message /\ n \in Field /\ r \in Field
    BY <1>2, <1>3, <1>5 DEF Message
  <2>2. m.sender = Owner[t] /\ memo \in PageState
    BY <1>2, <1>3, <1>5, <1>6, <1>8
  <2> QED
    BY <2>1, <2>2, PreparedType
<1>10. job[t] = Nil /\ job' = [job EXCEPT ![t] = tx]
       /\ UNCHANGED <<allVars, page, shown, height, events, timeouts>>
  BY <1>1 DEF Prepare
<1> HIDE DEF tx
<1>11. OwnUpdate(tx) = ct /\ ~IsSpend(tx)
  BY <1>6, <1>9 DEF OwnUpdate, IsSpend, ct
<1>derives. Derives(tx)
  <2>1. tx.msg.sender = a /\ tx.msg.type = "Shield" /\ CiphertextsOf(tx.msg) = {ct}
    BY <1>6, <1>9 DEF CiphertextsOf
  <2>2. "shield" \in Operations(tx.msg) /\ ReceiverOf(tx.msg) = Nil
    BY <2>1 DEF Operations, ReceiverOf
  <2>3. \E i \in PageSeeds(tx) : DerivedFrom(ct, tx, i)
    BY <1>ct, <1>9, <2>1, <2>2, PanelDerives
  <2> QED
    BY <2>1, <2>3 DEF Derives
<1>12. PageBuilt(tx)
  BY <1>2, <1>3, <1>5, <1>6, <1>9, <1>11, <1>derives DEF PageBuilt, Carries, MemoProved
<1>13. Follows(tx, page[a])
  BY <1>8, <1>9, <1>11 DEF Follows, MovedValue
<1> QED
  BY <1>6, <1>9, <1>10, <1>12, <1>13 DEF Prepares

(* Preparing the application of what is pending. *)
LEMMA PageApplyPendingPrepares ==
    ASSUME HKDFReduced, PagesInv, NEW t \in Tabs, PageApplyPending(t)
    PROVE  \E tx : Prepares(t, tx)
<1> DEFINE a == Owner[t]
           seen == pending[a][denom]
           n == shown[t]
           r == deriveRandomness(a, "apply_pending", n, Nil)
           ct == EncryptWithRandomness(n, pubkey[a], r)
           m == [type |-> "ApplyPending", sender |-> a, denom |-> denom,
                 newAvailableUpdate |-> ct, proof |-> seen]
           memo == MemoAfterReceipt(page[a], n, r)
           tx == PageTx(m, n, r, memo)
<1>1. Prepare(t, m, n, r, memo) /\ seen # Nil
  BY DEF PageApplyPending, wasmApplyPending
<1>2. /\ r \in Field /\ a \in Accounts /\ pubkey[a] \in Keys
      /\ seen \in Ciphertext
      /\ page[a].amount \in Nat /\ page[a].randomness \in Field
  BY <1>1, PanelSees
<1>3. n \in Field /\ n \in Nat
  BY FieldAssumption DEF PagesInv, PageTypes, Field
<1>4. ct \in Ciphertext
  BY <1>2, <1>3, EncryptType
<1>5. m \in ApplyPendingMsg
  BY <1>2, <1>3, <1>4, WalletsAssumption DEF ApplyPendingMsg
<1>6. m.sender = a /\ m.denom = denom /\ m.newAvailableUpdate = ct /\ m.type = "ApplyPending"
  OBVIOUS
<1>7. FieldAdd(page[a].randomness, r) \in Field /\ page[a].amount + n \in Nat
  BY <1>2, <1>3, FieldArithmetic
<1>8. /\ memo \in PageState
      /\ memo.amount = page[a].amount + n
      /\ memo.randomness = FieldAdd(page[a].randomness, r)
  BY <1>7, MemoType DEF MemoAfterReceipt
<1>ct. ct = EncryptWithRandomness(n, pubkey[a], deriveRandomness(a, "apply_pending", n, Nil))
  OBVIOUS
<1> HIDE DEF n, r, ct, m, memo
<1>9. /\ tx \in PageTransaction
      /\ tx.msg = m /\ tx.amount = n /\ tx.r = r /\ tx.memo = memo /\ ~tx.signed
      /\ tx.sawAvailable = available[a][denom] /\ tx.sawSequence = sequence[a]
  <2>1. m \in Message /\ n \in Field /\ r \in Field
    BY <1>2, <1>3, <1>5 DEF Message
  <2>2. m.sender = Owner[t] /\ memo \in PageState
    BY <1>2, <1>3, <1>5, <1>6, <1>8
  <2> QED
    BY <2>1, <2>2, PreparedType
<1>10. job[t] = Nil /\ job' = [job EXCEPT ![t] = tx]
       /\ UNCHANGED <<allVars, page, shown, height, events, timeouts>>
  BY <1>1 DEF Prepare
<1> HIDE DEF tx
<1>11. OwnUpdate(tx) = ct /\ ~IsSpend(tx)
  BY <1>6, <1>9 DEF OwnUpdate, IsSpend, ct
<1>derives. Derives(tx)
  <2>1. tx.msg.sender = a /\ tx.msg.type = "ApplyPending" /\ CiphertextsOf(tx.msg) = {ct}
    BY <1>6, <1>9 DEF CiphertextsOf
  <2>2. "apply_pending" \in Operations(tx.msg) /\ ReceiverOf(tx.msg) = Nil
    BY <2>1 DEF Operations, ReceiverOf
  <2>3. \E i \in PageSeeds(tx) : DerivedFrom(ct, tx, i)
    BY <1>ct, <1>9, <2>1, <2>2, PanelDerives
  <2> QED
    BY <2>1, <2>3 DEF Derives
<1>12. PageBuilt(tx)
  BY <1>2, <1>3, <1>5, <1>6, <1>9, <1>11, <1>derives DEF PageBuilt, Carries, MemoProved
<1>13. Follows(tx, page[a])
  BY <1>8, <1>9, <1>11 DEF Follows, MovedValue
<1> QED
  BY <1>6, <1>9, <1>10, <1>12, <1>13 DEF Prepares

(* The remainder of a spend: what is proved about it, and what its memo     *)
(* says.                                                                    *)
LEMMA RemainingProved ==
    ASSUME HKDFReduced, PagesInv, NEW t \in Tabs, NEW n \in SendAmounts,
           NEW r \in Field, NEW ct, ct = EncryptWithRandomness(n, pubkey[Owner[t]], r),
           wasmSpendable(page[Owner[t]], n), page[Owner[t]].amount - n < RangeBound
    PROVE  LET a == Owner[t]
               remaining == ProveRemaining(a, page[a], ct, n, r)
               memo == MemoAfterSpend(page[a], n, remaining)
           IN  /\ remaining.commitment \in Field
               /\ remaining.proof \in Ciphertext
               /\ remaining.proof # NoProof =>
                    remaining.proof =
                      EncryptWithRandomness(memo.amount, pubkey[a], memo.randomness)
               /\ memo \in PageState
               /\ memo.amount = page[a].amount - n
               /\ memo.randomness = FieldSub(page[a].randomness, r)
<1> DEFINE a == Owner[t]
           left == page[a].amount - n
           q == FieldSub(page[a].randomness, r)
           rest == subCiphertexts(available[a][denom], ct)
           proof == ProveCommitment(left, q, pubkey[a], rest)
           remaining == ProveRemaining(a, page[a], ct, n, r)
           memo == MemoAfterSpend(page[a], n, remaining)
<1>1. /\ a \in Accounts /\ pubkey[a] \in Keys
      /\ available[a][denom] \in Ciphertext \cup {Nil}
      /\ page[a].amount \in Nat /\ page[a].randomness \in Field
  BY PanelSees
<1>2. n \in Field /\ n \in Int /\ n > 0
  BY AskedAmount
<1>3. left \in Nat /\ left \in Field
  BY <1>1, <1>2, RangeAssumption, FieldAssumption DEF wasmSpendable, Field
<1>4. q \in Field
  BY <1>1, FieldArithmetic
<1>5. ct \in Ciphertext
  BY <1>1, <1>2, EncryptType
<1>6. rest \in Ciphertext
  BY <1>1, <1>5, HomomorphicOperations
<1>7. NoProof \in Ciphertext
  BY FieldAssumption, NilAssumption
     DEF NoProof, EncryptWithRandomness, Canonical, Ciphertext, Field
<1>8. remaining.randomness = q /\ remaining.commitment = left /\ remaining.proof = proof
  BY DEF ProveRemaining
<1>9. proof = IF EncryptWithRandomness(left, pubkey[a], q) = rest THEN rest ELSE NoProof
  BY DEF ProveCommitment
<1> HIDE DEF a, left, q, rest, proof, remaining
<1>10. memo \in PageState /\ memo.amount = left /\ memo.randomness = q
  BY <1>3, <1>4, <1>8, MemoType DEF MemoAfterSpend, left, a
<1> HIDE DEF memo
<1>11. proof \in Ciphertext
  BY <1>6, <1>7, <1>9
<1>12. proof # NoProof => proof = EncryptWithRandomness(memo.amount, pubkey[a], memo.randomness)
  BY <1>9, <1>10
<1>13. /\ remaining.commitment \in Field /\ remaining.proof \in Ciphertext
       /\ remaining.proof # NoProof =>
            remaining.proof = EncryptWithRandomness(memo.amount, pubkey[a], memo.randomness)
  BY <1>3, <1>8, <1>11, <1>12
<1> QED
  BY <1>10, <1>13 DEF memo, remaining, left, q, a

(* Preparing a withdrawal. *)
LEMMA PageUnshieldPrepares ==
    ASSUME HKDFReduced, PagesInv, NEW t \in Tabs, NEW n \in SendAmounts, PageUnshield(t, n)
    PROVE  \E tx : Prepares(t, tx)
<1> DEFINE a == Owner[t]
           r == deriveRandomness(a, "unshield", n, Nil)
           ct == EncryptWithRandomness(n, pubkey[a], r)
           remaining == ProveRemaining(a, page[a], ct, n, r)
           memo == MemoAfterSpend(page[a], n, remaining)
           m == [type |-> "Unshield", sender |-> a, denom |-> denom, amount |-> n,
                 ciphertext |-> ct, remainingCommitment |-> remaining.commitment,
                 remainingCommitmentProof |-> remaining.proof]
           tx == PageTx(m, n, r, memo)
<1>1. /\ Prepare(t, m, n, r, memo)
      /\ wasmSpendable(page[a], n) /\ page[a].amount - n < RangeBound
  BY DEF PageUnshield, wasmUnshield, ProveRange
<1>2. r \in Field /\ a \in Accounts /\ pubkey[a] \in Keys
  BY PanelSees
<1>3. n \in Field /\ n \in Int
  BY AskedAmount
<1>4. ct \in Ciphertext
  BY <1>2, <1>3, EncryptType
<1>5. /\ remaining.commitment \in Field
      /\ remaining.proof \in Ciphertext
      /\ remaining.proof # NoProof =>
           remaining.proof = EncryptWithRandomness(memo.amount, pubkey[a], memo.randomness)
      /\ memo \in PageState
      /\ memo.amount = page[a].amount - n
      /\ memo.randomness = FieldSub(page[a].randomness, r)
  BY <1>1, <1>2, RemainingProved
<1>ct. ct = EncryptWithRandomness(n, pubkey[a], deriveRandomness(a, "unshield", n, Nil))
  OBVIOUS
<1> HIDE DEF r, ct, remaining, memo
<1>6. m \in UnshieldMsg
  BY <1>2, <1>3, <1>4, <1>5, WalletsAssumption DEF UnshieldMsg
<1>7. /\ m.sender = a /\ m.denom = denom /\ m.ciphertext = ct /\ m.type = "Unshield"
      /\ m.amount = n /\ m.remainingCommitmentProof = remaining.proof
  OBVIOUS
<1> HIDE DEF m
<1>8. /\ tx \in PageTransaction
      /\ tx.msg = m /\ tx.amount = n /\ tx.r = r /\ tx.memo = memo /\ ~tx.signed
      /\ tx.sawAvailable = available[a][denom] /\ tx.sawSequence = sequence[a]
  <2>1. m \in Message /\ n \in Field /\ r \in Field
    BY <1>2, <1>3, <1>6 DEF Message
  <2>2. m.sender = Owner[t] /\ memo \in PageState
    BY <1>2, <1>3, <1>5, <1>6, <1>7
  <2> QED
    BY <2>1, <2>2, PreparedType
<1>9. job[t] = Nil /\ job' = [job EXCEPT ![t] = tx]
      /\ UNCHANGED <<allVars, page, shown, height, events, timeouts>>
  BY <1>1 DEF Prepare
<1> HIDE DEF tx
<1>10. OwnUpdate(tx) = ct /\ IsSpend(tx)
  BY <1>7, <1>8 DEF OwnUpdate, IsSpend, ct
<1>derives. Derives(tx)
  <2>1. tx.msg.sender = a /\ tx.msg.type = "Unshield" /\ CiphertextsOf(tx.msg) = {ct}
    BY <1>7, <1>8 DEF CiphertextsOf
  <2>2. "unshield" \in Operations(tx.msg) /\ ReceiverOf(tx.msg) = Nil
    BY <2>1 DEF Operations, ReceiverOf
  <2>3. \E i \in PageSeeds(tx) : DerivedFrom(ct, tx, i)
    BY <1>ct, <1>8, <2>1, <2>2, PanelDerives
  <2> QED
    BY <2>1, <2>3 DEF Derives
<1>11. PageBuilt(tx)
  BY <1>2, <1>3, <1>5, <1>6, <1>7, <1>8, <1>10, <1>derives DEF PageBuilt, Carries, MemoProved
<1>12. Follows(tx, page[a])
  BY <1>5, <1>8, <1>10 DEF Follows, MovedValue
<1> QED
  BY <1>7, <1>8, <1>9, <1>11, <1>12 DEF Prepares

(* Preparing a transfer. *)
LEMMA PageSendPrepares ==
    ASSUME HKDFReduced, PagesInv, NEW t \in Tabs, NEW b \in Accounts, NEW n \in SendAmounts,
           PageSend(t, b, n)
    PROVE  \E tx : Prepares(t, tx)
<1> DEFINE a == Owner[t]
           r == deriveRandomness(a, "send/sender", n, b)
           rReceiver == deriveRandomness(a, "send/receiver", n, b)
           rAuditor == deriveRandomness(a, "send/auditor", n, b)
           ct == EncryptWithRandomness(n, pubkey[a], r)
           ctReceiver == EncryptWithRandomness(n, pubkey[b], rReceiver)
           ctAuditor == EncryptWithRandomness(n, auditor, rAuditor)
           remaining == ProveRemaining(a, page[a], ct, n, r)
           memo == MemoAfterSpend(page[a], n, remaining)
           m == [type |-> "ConfidentialSend", sender |-> a, receiver |-> b, denom |-> denom,
                 senderUpdate |-> ct, receiverUpdate |-> ctReceiver,
                 auditorUpdate |-> ctAuditor, transferCommitment |-> n,
                 remainingCommitment |-> remaining.commitment,
                 remainingCommitmentProof |-> remaining.proof]
           tx == PageTx(m, n, r, memo)
<1>1. /\ Prepare(t, m, n, r, memo)
      /\ wasmSpendable(page[a], n) /\ page[a].amount - n < RangeBound
  BY DEF PageSend, wasmSend, ProveRange
<1>2. /\ r \in Field /\ rReceiver \in Field /\ rAuditor \in Field
      /\ a \in Accounts /\ pubkey[a] \in Keys
      /\ pubkey[b] \in Keys /\ auditor \in Keys
  BY PanelSees DEF PagesInv, KeeperReady
<1>3. n \in Field /\ n \in Int
  BY AskedAmount
<1>4. ct \in Ciphertext /\ ctReceiver \in Ciphertext /\ ctAuditor \in Ciphertext
  BY <1>2, <1>3, EncryptType
<1>5. /\ remaining.commitment \in Field
      /\ remaining.proof \in Ciphertext
      /\ remaining.proof # NoProof =>
           remaining.proof = EncryptWithRandomness(memo.amount, pubkey[a], memo.randomness)
      /\ memo \in PageState
      /\ memo.amount = page[a].amount - n
      /\ memo.randomness = FieldSub(page[a].randomness, r)
  BY <1>1, <1>2, RemainingProved
<1>ct. /\ ct = EncryptWithRandomness(n, pubkey[a], deriveRandomness(a, "send/sender", n, b))
      /\ ctReceiver =
           EncryptWithRandomness(n, pubkey[b], deriveRandomness(a, "send/receiver", n, b))
      /\ ctAuditor =
           EncryptWithRandomness(n, auditor, deriveRandomness(a, "send/auditor", n, b))
  OBVIOUS
<1> HIDE DEF r, ct, ctReceiver, ctAuditor, remaining, memo
<1>6. m \in ConfidentialSendMsg
  BY <1>2, <1>3, <1>4, <1>5, WalletsAssumption DEF ConfidentialSendMsg
<1>7. /\ m.sender = a /\ m.denom = denom /\ m.senderUpdate = ct
      /\ m.type = "ConfidentialSend" /\ m.remainingCommitmentProof = remaining.proof
      /\ m.receiver = b /\ m.receiverUpdate = ctReceiver /\ m.auditorUpdate = ctAuditor
  OBVIOUS
<1> HIDE DEF m
<1>8. /\ tx \in PageTransaction
      /\ tx.msg = m /\ tx.amount = n /\ tx.r = r /\ tx.memo = memo /\ ~tx.signed
      /\ tx.sawAvailable = available[a][denom] /\ tx.sawSequence = sequence[a]
  <2>1. m \in Message /\ n \in Field /\ r \in Field
    BY <1>2, <1>3, <1>6 DEF Message
  <2>2. m.sender = Owner[t] /\ memo \in PageState
    BY <1>2, <1>3, <1>5, <1>6, <1>7
  <2> QED
    BY <2>1, <2>2, PreparedType
<1>9. job[t] = Nil /\ job' = [job EXCEPT ![t] = tx]
      /\ UNCHANGED <<allVars, page, shown, height, events, timeouts>>
  BY <1>1 DEF Prepare
<1> HIDE DEF tx
<1>10. OwnUpdate(tx) = ct /\ IsSpend(tx)
  BY <1>7, <1>8 DEF OwnUpdate, IsSpend, ct
<1>derives. Derives(tx)
  <2>1. /\ tx.msg.sender = a /\ tx.msg.type = "ConfidentialSend" /\ tx.msg.receiver = b
        /\ CiphertextsOf(tx.msg) = {ct, ctReceiver, ctAuditor}
    BY <1>7, <1>8 DEF CiphertextsOf
  <2>2. /\ Operations(tx.msg) = {"send/sender", "send/receiver", "send/auditor"}
        /\ ReceiverOf(tx.msg) = b
    BY <2>1 DEF Operations, ReceiverOf
  <2>3. \E i \in PageSeeds(tx) : DerivedFrom(ct, tx, i)
    BY <1>ct, <1>8, <2>1, <2>2, PanelDerives
  <2>4. \E i \in PageSeeds(tx) : DerivedFrom(ctReceiver, tx, i)
    BY <1>ct, <1>8, <2>1, <2>2, PanelDerives
  <2>5. \E i \in PageSeeds(tx) : DerivedFrom(ctAuditor, tx, i)
    BY <1>ct, <1>8, <2>1, <2>2, PanelDerives
  <2> QED
    BY <2>1, <2>3, <2>4, <2>5 DEF Derives
<1>11. PageBuilt(tx)
  BY <1>2, <1>3, <1>5, <1>6, <1>7, <1>8, <1>10, <1>derives DEF PageBuilt, Carries, MemoProved
<1>12. Follows(tx, page[a])
  BY <1>5, <1>8, <1>10 DEF Follows, MovedValue
<1> QED
  BY <1>7, <1>8, <1>9, <1>11, <1>12 DEF Prepares

(***************************************************************************)
(* Each step preserves the invariant                                        *)
(***************************************************************************)

(* The sender of a transaction of a page, and its kinds. *)
LEMMA PageTxKind ==
    ASSUME NEW tx, PageBuilt(tx)
    PROVE  /\ tx \in PageTransaction /\ tx # Nil
           /\ tx.msg.sender \in Accounts /\ tx.seq \in Nat /\ tx.memo \in PageState
           /\ tx.amount \in Field /\ tx.r \in Field /\ tx.signed \in BOOLEAN
           /\ tx.msg.type \in {"Shield", "ApplyPending", "ConfidentialSend", "Unshield"}
  BY BrowserAssumption
     DEF PageBuilt, PageTransaction, Carries, ShieldMsg, ApplyPendingMsg,
         ConfidentialSendMsg, UnshieldMsg

(* What a transaction was built from does not change with the balances. *)
LEMMA StaysPageBuilt ==
    ASSUME NEW tx, PageBuilt(tx), pubkey' = pubkey
    PROVE  PageBuilt(tx)'
<1>1. Derives(tx)'
  BY DEF PageBuilt, Derives, PageSeeds, PageSeed
<1> QED
  BY <1>1 DEF PageBuilt, Carries, OwnUpdate, MemoProved, NoProof, IsSpend

(* A page stores a state, a tab takes up or puts down a transaction that is *)
(* built: the keeper and the transactions in flight are untouched.          *)
LEMMA TabStep ==
    ASSUME PagesInv, UNCHANGED <<vars, broadcast, landed, sequence, shown, height>>,
           page' \in [Accounts -> PageState],
           timeouts' \in Nat,
           NEW t \in Tabs, NEW tx,
           tx = Nil \/ (PageBuilt(tx) /\ tx.msg.sender = Owner[t]),
           job' = [job EXCEPT ![t] = tx]
    PROVE  PagesInv'
<1>1. UNCHANGED <<pubkey, auditor>>
  BY DEF vars
<1>2. KeeperReady'
  BY <1>1, KeeperUntouched DEF PagesInv, KeeperReady
<1>3. tx \in PageTransaction \cup {Nil}
  BY DEF PageBuilt
<1>4. PageTypes'
  BY <1>3 DEF PagesInv, PageTypes
<1>5. SignedOnce'
  BY <1>1, StaysPageBuilt DEF PagesInv, SignedOnce
<1>6. JobsBuilt'
  <2> SUFFICES ASSUME NEW u \in Tabs, NEW v, v = job'[u], v # Nil
               PROVE  PageBuilt(v)' /\ v.msg.sender = Owner[u]
    BY DEF JobsBuilt
  <2>1. PageBuilt(v) /\ v.msg.sender = Owner[u]
    BY DEF PagesInv, PageTypes, JobsBuilt
  <2> QED
    BY <1>1, <2>1, StaysPageBuilt
<1> QED
  BY <1>2, <1>4, <1>5, <1>6 DEF PagesInv

LEMMA PrepareStep ==
    ASSUME PagesInv, NEW t \in Tabs, NEW tx, Prepares(t, tx)
    PROVE  PagesInv'
<1>1. /\ UNCHANGED <<vars, broadcast, landed, sequence, shown, height, page, timeouts>>
      /\ PageBuilt(tx) /\ tx.msg.sender = Owner[t]
      /\ job' = [job EXCEPT ![t] = tx]
  BY DEF Prepares, allVars, walletVars
<1>2. page' \in [Accounts -> PageState] /\ timeouts' \in Nat
  BY <1>1 DEF PagesInv, PageTypes
<1> QED
  BY <1>1, <1>2, TabStep

(* The local state a tab stores is the memo of its transaction. *)
LEMMA SaveStep ==
    ASSUME PagesInv, NEW t \in Tabs, Save(t)
    PROVE  PagesInv'
<1>1. /\ UNCHANGED <<vars, broadcast, landed, sequence, shown, height, timeouts>>
      /\ job[t] \in landed
      /\ page' = [page EXCEPT ![Owner[t]] = job[t].memo]
      /\ job' = [job EXCEPT ![t] = Nil]
  BY DEF Save, allVars, walletVars
<1>2. job[t].memo \in PageState
  BY <1>1, PageTxKind DEF PagesInv, SignedOnce
<1>3. page' \in [Accounts -> PageState] /\ timeouts' \in Nat
  BY <1>1, <1>2 DEF PagesInv, PageTypes
<1> QED
  BY <1>1, <1>3, TabStep

LEMMA FailStep ==
    ASSUME PagesInv, NEW t \in Tabs, Fail(t) \/ GiveUp(t)
    PROVE  PagesInv'
<1>1. /\ UNCHANGED <<vars, broadcast, landed, sequence, shown, height, page>>
      /\ job' = [job EXCEPT ![t] = Nil]
      /\ timeouts' = timeouts \/ timeouts' = timeouts + 1
  BY DEF Fail, GiveUp, allVars, walletVars
<1>2. page' \in [Accounts -> PageState] /\ timeouts' \in Nat
  BY <1>1 DEF PagesInv, PageTypes
<1> QED
  BY <1>1, <1>2, TabStep

(* What a tab signs: its transaction, with the sequence number of now. *)
Signs(t, tx) ==
    /\ job[t] # Nil /\ ~job[t].signed
    /\ tx = [job[t] EXCEPT !.seq = sequence[Owner[t]], !.signed = TRUE]
    /\ tx \notin broadcast
    /\ job' = [job EXCEPT ![t] = tx]
    /\ broadcast' = broadcast \cup {tx}
    /\ UNCHANGED <<vars, sdkVars, landed, sequence, page, shown, height, events, timeouts>>

LEMMA SignedTx ==
    ASSUME PagesInv, NEW t \in Tabs, NEW tx, Signs(t, tx)
    PROVE  /\ PageBuilt(tx) /\ PageBuilt(job[t])
           /\ tx.msg = job[t].msg /\ tx.memo = job[t].memo
           /\ tx.amount = job[t].amount /\ tx.r = job[t].r
           /\ tx.signed /\ tx.seq = sequence[Owner[t]] /\ tx.msg.sender = Owner[t]
<1>1. PageBuilt(job[t]) /\ job[t].msg.sender = Owner[t]
  BY DEF Signs, PagesInv, JobsBuilt
<1>2. sequence[Owner[t]] \in Nat
  BY BrowserAssumption DEF PagesInv, PageTypes
<1>3. job[t] \in PageTransaction
  BY <1>1 DEF PageBuilt
<1>4. /\ tx.msg = job[t].msg /\ tx.memo = job[t].memo
      /\ tx.amount = job[t].amount /\ tx.r = job[t].r
      /\ tx.signed /\ tx.seq = sequence[Owner[t]]
      /\ tx.sawAvailable = job[t].sawAvailable /\ tx.sawSequence = job[t].sawSequence
      /\ tx \in PageTransaction
  BY <1>2, <1>3 DEF Signs, PageTransaction
<1>5. PageBuilt(tx)
  <2>1. PageSeeds(tx) = PageSeeds(job[t])
    BY <1>4 DEF PageSeeds, PageSeed
  <2>2. Derives(tx)
    BY <1>1, <1>4, <2>1 DEF PageBuilt, Derives, DerivedFrom
  <2> QED
    BY <1>1, <1>4, <2>2 DEF PageBuilt, Carries, OwnUpdate, MemoProved, IsSpend
<1> QED
  BY <1>1, <1>4, <1>5

LEMMA SignStep ==
    ASSUME PagesInv, NEW t \in Tabs, NEW tx, Signs(t, tx)
    PROVE  PagesInv'
<1>1. /\ PageBuilt(tx) /\ tx.signed /\ tx.seq = sequence[Owner[t]]
      /\ tx.msg.sender = Owner[t] /\ Owner[t] \in Accounts
  BY SignedTx, BrowserAssumption
<1>2. /\ UNCHANGED <<vars, landed, sequence, page, shown, height, timeouts>>
      /\ broadcast' = broadcast \cup {tx}
      /\ job' = [job EXCEPT ![t] = tx]
  BY DEF Signs
<1>3. UNCHANGED <<pubkey, auditor>>
  BY <1>2 DEF vars
<1>4. KeeperReady'
  BY <1>2, <1>3, KeeperUntouched DEF PagesInv, KeeperReady
<1>5. PageTypes'
  BY <1>1, <1>2 DEF PagesInv, PageTypes, PageBuilt
<1>6. SignedOnce'
  <2>1. /\ landed' \subseteq broadcast'
        /\ \A u \in landed' : u.seq < sequence'[u.msg.sender]
    BY <1>2 DEF PagesInv, SignedOnce
  <2>2. ASSUME NEW u \in broadcast'
        PROVE  u.signed /\ PageBuilt(u) /\ u.seq <= sequence[u.msg.sender]
    <3>1. sequence[Owner[t]] \in Nat
      BY <1>1 DEF PagesInv, PageTypes
    <3> QED
      BY <1>1, <1>2, <3>1 DEF PagesInv, SignedOnce
  <2> QED
    BY <1>2, <1>3, <2>1, <2>2, StaysPageBuilt DEF SignedOnce
<1>7. JobsBuilt'
  <2> SUFFICES ASSUME NEW u \in Tabs, NEW v, v = job'[u], v # Nil
               PROVE  PageBuilt(v)' /\ v.msg.sender = Owner[u]
    BY DEF JobsBuilt
  <2>1. PageBuilt(v) /\ v.msg.sender = Owner[u]
    BY <1>1, <1>2 DEF PagesInv, PageTypes, JobsBuilt
  <2> QED
    BY <1>3, <2>1, StaysPageBuilt
<1> QED
  BY <1>4, <1>5, <1>6, <1>7 DEF PagesInv

(* The transactions are admitted one after the other, and their senders are *)
(* left with what they carry.                                               *)
LEMMA PageTxSettles ==
    ASSUME PagesInv, NEW tx \in broadcast, Execute(tx)
    PROVE  /\ Settles(tx) /\ PageBuilt(tx)
           /\ tx.msg.sender \in Accounts
           /\ tx.seq = sequence[tx.msg.sender]
           /\ sequence' = [sequence EXCEPT ![tx.msg.sender] = @ + 1]
           /\ landed' = landed \cup {tx} /\ broadcast' = broadcast
           /\ tx \notin landed
<1>1. PageBuilt(tx) /\ tx.msg.sender \in Accounts
  BY PageTxKind DEF PagesInv, SignedOnce
<1>2. Executable(tx)
  BY <1>1 DEF Executable, PagesInv, KeeperReady, PageBuilt
<1>3. Settles(tx)
  BY <1>2, HandledSettles DEF Execute
<1>4. /\ tx.seq = sequence[tx.msg.sender]
      /\ sequence' = [sequence EXCEPT ![tx.msg.sender] = @ + 1]
      /\ landed' = landed \cup {tx} /\ broadcast' = broadcast
  BY DEF Execute, Admit
<1>5. tx \notin landed
  BY <1>1, <1>4 DEF PagesInv, SignedOnce, PageTypes
<1> QED
  BY <1>1, <1>3, <1>4, <1>5

(* A sequence number is spent, by a transaction executed or refused.        *)
LEMMA ChainStep ==
    ASSUME PagesInv, NEW tx \in broadcast, KeeperReady', pubkey' = pubkey,
           tx.seq = sequence[tx.msg.sender],
           sequence' = [sequence EXCEPT ![tx.msg.sender] = @ + 1],
           landed' \subseteq landed \cup {tx},
           UNCHANGED <<broadcast, page, shown, job, height, timeouts>>
    PROVE  PagesInv'
<1> DEFINE a == tx.msg.sender
<1>1. /\ a \in Accounts /\ sequence \in [Accounts -> Nat]
      /\ \A u \in broadcast : u.msg.sender \in Accounts /\ u.seq \in Nat
      /\ landed \subseteq broadcast
  BY PageTxKind DEF PagesInv, SignedOnce, PageTypes
<1>2. sequence[a] \in Nat
  BY <1>1
<1> HIDE DEF a
<1>3. /\ sequence' \in [Accounts -> Nat]
      /\ \A b \in Accounts : sequence'[b] = IF b = a THEN sequence[a] + 1 ELSE sequence[b]
  BY <1>1, <1>2 DEF a
<1>4. PageTypes'
  BY <1>3 DEF PagesInv, PageTypes
<1>5. SignedOnce'
  <2>1. landed' \subseteq broadcast'
    BY <1>1
  <2>2. ASSUME NEW u \in broadcast
        PROVE  /\ u.seq <= sequence'[u.msg.sender]
               /\ u \in landed' => u.seq < sequence'[u.msg.sender]
    <3>1. /\ u.seq <= sequence[u.msg.sender]
          /\ u \in landed => u.seq < sequence[u.msg.sender]
      BY DEF PagesInv, SignedOnce
    <3>2. u.msg.sender \in Accounts /\ u.seq \in Nat /\ sequence[u.msg.sender] \in Nat
      BY <1>1
    <3>3. CASE u.msg.sender = a
      BY <1>2, <1>3, <3>1, <3>2, <3>3
    <3>4. CASE u.msg.sender # a
      BY <1>3, <3>1, <3>2, <3>4 DEF a
    <3> QED
      BY <3>3, <3>4
  <2>3. \A u \in broadcast : u.signed /\ PageBuilt(u)'
    BY StaysPageBuilt DEF PagesInv, SignedOnce
  <2> QED
    BY <2>1, <2>2, <2>3 DEF SignedOnce
<1>6. JobsBuilt'
  BY StaysPageBuilt DEF PagesInv, JobsBuilt
<1> QED
  BY <1>4, <1>5, <1>6 DEF PagesInv

LEMMA ExecuteInBlockStep ==
    ASSUME PagesInv, NEW tx \in broadcast, ExecuteInBlock(tx)
    PROVE  PagesInv'
<1>1. Execute(tx) /\ UNCHANGED <<page, shown, job, height, timeouts>>
  BY DEF ExecuteInBlock
<1>2. /\ Settles(tx) /\ tx.seq = sequence[tx.msg.sender]
      /\ sequence' = [sequence EXCEPT ![tx.msg.sender] = @ + 1]
      /\ landed' = landed \cup {tx} /\ broadcast' = broadcast
  BY <1>1, PageTxSettles
<1>3. KeeperReady' /\ pubkey' = pubkey
  BY <1>2 DEF Settles, PagesInv, KeeperReady
<1> QED
  BY <1>1, <1>2, <1>3, ChainStep

LEMMA RejectInBlockStep ==
    ASSUME PagesInv, NEW tx \in broadcast, RejectInBlock(tx)
    PROVE  PagesInv'
<1>1. /\ tx.seq = sequence[tx.msg.sender]
      /\ sequence' = [sequence EXCEPT ![tx.msg.sender] = @ + 1]
      /\ UNCHANGED <<vars, landed, broadcast, page, shown, job, height, timeouts>>
  BY DEF RejectInBlock, Reject, Admit, pageVars
<1>2. UNCHANGED <<pubkey, auditor>>
  BY <1>1 DEF vars
<1>3. KeeperReady'
  BY <1>1, <1>2, KeeperUntouched DEF PagesInv, KeeperReady
<1> QED
  BY <1>1, <1>2, <1>3, ChainStep

(* What a tab displays is an amount. *)
LEMMA RefreshShows ==
    ASSUME PagesInv, NEW t \in Tabs, Refresh(t)
    PROVE  shown' \in [Tabs -> Field]
<1>1. pending[Owner[t]][denom] \in Ciphertext \cup {Nil}
  BY BrowserAssumption, WalletsAssumption DEF PagesInv, KeeperReady, IInv, TypeOK
<1>2. unmarshalOrZero(pending[Owner[t]][denom]).v \in Field
  BY <1>1, PlaintextType DEF Plaintext
<1> QED
  BY <1>2 DEF Refresh, wasmDecryptBalance, PagesInv, PageTypes

(* Nothing but the height or what is displayed changes, or nothing at all. *)
LEMMA BlockStep ==
    ASSUME PagesInv, EndBlock \/ UNCHANGED browserVars \/ \E t \in Tabs : Refresh(t)
    PROVE  PagesInv'
<1>1. /\ UNCHANGED <<vars, broadcast, landed, sequence, page, job, timeouts>>
      /\ height' = height \/ height' = height + 1
      /\ shown' \in [Tabs -> Field]
  <2>1. shown' = shown \/ \E t \in Tabs : Refresh(t)
    BY DEF EndBlock, browserVars, pageVars
  <2>2. shown' \in [Tabs -> Field]
    BY <2>1, RefreshShows DEF PagesInv, PageTypes
  <2>3. /\ UNCHANGED <<vars, broadcast, landed, sequence, page, job, timeouts>>
        /\ height' = height \/ height' = height + 1
    BY DEF EndBlock, Refresh, browserVars, allVars, walletVars, pageVars
  <2> QED
    BY <2>2, <2>3
<1>2. UNCHANGED <<pubkey, auditor>>
  BY <1>1 DEF vars
<1>3. KeeperReady'
  BY <1>1, <1>2, KeeperUntouched DEF PagesInv, KeeperReady
<1>4. PageTypes'
  BY <1>1 DEF PagesInv, PageTypes
<1>5. SignedOnce' /\ JobsBuilt'
  BY <1>1, <1>2, StaysPageBuilt DEF PagesInv, SignedOnce, JobsBuilt
<1> QED
  BY <1>3, <1>4, <1>5 DEF PagesInv

(* What a step of the system is. *)
PageStep ==
    \/ \E t \in Tabs :
         \/ \E tx : Prepares(t, tx) \/ Signs(t, tx)
         \/ Save(t) \/ Fail(t) \/ GiveUp(t) \/ Refresh(t)
    \/ \E tx \in broadcast : ExecuteInBlock(tx) \/ RejectInBlock(tx)
    \/ EndBlock \/ UNCHANGED browserVars

LEMMA EveryPageSteps ==
    ASSUME HKDFReduced, PagesInv, [BrowserNext]_browserVars
    PROVE  PageStep
<1>1. ASSUME NEW t \in Tabs, NEW n \in SendAmounts,
             PageShield(t, n) \/ PageUnshield(t, n) \/ \E b \in Accounts : PageSend(t, b, n)
      PROVE  \E tx : Prepares(t, tx)
  BY <1>1, PageShieldPrepares, PageUnshieldPrepares, PageSendPrepares
<1>2. ASSUME NEW t \in Tabs, PageApplyPending(t)
      PROVE  \E tx : Prepares(t, tx)
  BY <1>2, PageApplyPendingPrepares
<1>3. ASSUME NEW t \in Tabs, Sign(t)
      PROVE  \E tx : Signs(t, tx)
  BY <1>3 DEF Sign, Signs
<1> QED
  BY <1>1, <1>2, <1>3 DEF BrowserNext, PageStep

LEMMA PageStepInvariant ==
    ASSUME PagesInv, PageStep
    PROVE  PagesInv'
  BY PrepareStep, SignStep, SaveStep, FailStep, ExecuteInBlockStep, RejectInBlockStep,
     BlockStep DEF PageStep

LEMMA PagesInit ==
    ASSUME BrowserInit
    PROVE  PagesInv
<1>1. TransactionsInv
  BY WalletInitInvariant DEF BrowserInit
<1>2. broadcast = {} /\ landed = {}
  BY DEF BrowserInit, WalletInit
<1>3. KeeperReady /\ sequence \in [Accounts -> Nat]
  BY <1>1 DEF TransactionsInv, WalletTypes, KeeperReady
<1>4. NoState \in PageState
  BY FieldAssumption DEF NoState, PageState, Field
<1>5. PageTypes
  BY <1>3, <1>4, FieldAssumption DEF BrowserInit, PageTypes, Field
<1>6. SignedOnce /\ JobsBuilt
  BY <1>2 DEF BrowserInit, SignedOnce, JobsBuilt
<1> QED
  BY <1>3, <1>5, <1>6 DEF PagesInv

(* Everything a page ever prepared carries what its memo says, and keeps    *)
(* doing so through other tabs, late executions and refusals.               *)
THEOREM PagesInvariance ==
    ASSUME HKDFReduced
    PROVE  BrowserSpec => []PagesInv
<1>1. PagesInv /\ [BrowserNext]_browserVars => PagesInv'
  BY EveryPageSteps, PageStepInvariant
<1> QED
  BY <1>1, PagesInit, PTL DEF BrowserSpec

(***************************************************************************)
(* The memos of spends                                                      *)
(***************************************************************************)

(* An executed spend leaves what its memo opens. *)
LEMMA SpendOpens ==
    ASSUME PagesInv, NEW tx \in broadcast, Execute(tx), IsSpend(tx)
    PROVE  Opens(tx.memo, tx.msg.sender, available'[tx.msg.sender][denom])
<1> DEFINE a == tx.msg.sender
           new == available'[a][denom]
           proof == tx.msg.remainingCommitmentProof
<1>1. Settles(tx) /\ PageBuilt(tx)
  BY PageTxSettles
<1>2. proof # NoProof /\ proof = Moved(tx, available[a][denom])
      /\ new = Moved(tx, available[a][denom]) /\ new \in Ciphertext
  BY <1>1 DEF Settles
<1>3. new = EncryptWithRandomness(tx.memo.amount, pubkey[a], tx.memo.randomness)
  BY <1>1, <1>2 DEF PageBuilt, MemoProved
<1>4. unmarshalOrZero(new) = new
  BY <1>2, NilAssumption DEF unmarshalOrZero
<1> QED
  BY <1>3, <1>4 DEF Opens

(* A spend is executed only if its page held the true opening, so the memo  *)
(* that came with it is exact: with any number of tabs that know nothing of *)
(* each other, pages that gave up waiting, and other accounts at work.      *)
THEOREM ExecutedSpendsLeaveExactMemos ==
    ASSUME HKDFReduced
    PROVE  BrowserSpec => []SpendMemosExact
<1>1. BrowserInit => SpendMemosExact
  BY DEF BrowserInit, SpendMemosExact
<1>2. ASSUME PagesInv, SpendMemosExact, PageStep
      PROVE  SpendMemosExact'
  <2>1. CASE UNCHANGED <<pubkey, events>>
    BY <1>2, <2>1 DEF SpendMemosExact, Opens
  <2>2. ASSUME NEW tx \in broadcast, ExecuteInBlock(tx)
        PROVE  SpendMemosExact'
    <3>1. Execute(tx) /\ \A e \in events' : e \in events
                            \/ (e.tx = tx /\ e.after = available'[tx.msg.sender][denom])
      BY <2>2 DEF ExecuteInBlock
    <3>2. pubkey' = pubkey
      BY <1>2, <3>1, PageTxSettles DEF Settles
    <3>3. IsSpend(tx) => Opens(tx.memo, tx.msg.sender, available'[tx.msg.sender][denom])
      BY <1>2, <3>1, SpendOpens
    <3> QED
      BY <1>2, <3>1, <3>2, <3>3 DEF SpendMemosExact, Opens, IsSpend
  <2>3. ASSUME ~\E tx \in broadcast : ExecuteInBlock(tx)
        PROVE  UNCHANGED <<pubkey, events>>
    BY <1>2, <2>3 DEF PageStep, Prepares, Signs, Save, Fail, GiveUp, Refresh, RejectInBlock,
       Reject, EndBlock, browserVars, allVars, pageVars, vars
  <2> QED
    BY <2>1, <2>2, <2>3
<1>3. PagesInv /\ SpendMemosExact /\ [BrowserNext]_browserVars => SpendMemosExact'
  BY <1>2, EveryPageSteps
<1> QED
  BY <1>1, <1>3, PagesInvariance, PTL DEF BrowserSpec

(***************************************************************************)
(* One page for each account                                                *)
(***************************************************************************)

OnePagePerAccount == \A t, u \in Tabs : Owner[t] = Owner[u] => t = u

(* A transaction that may still be executed is one that a tab waits for. *)
InFlightAwaited ==
    \A tx \in broadcast :
        tx.seq = sequence[tx.msg.sender] => \E t \in Tabs : job[t] = tx

JobsFollow == \A t \in Tabs : job[t] # Nil => Follows(job[t], page[Owner[t]])

(* What a page knows of its balance: from its transaction, once that is     *)
(* executed, and until then from what it has stored.                        *)
Knows(t) == IF job[t] \in landed THEN job[t].memo ELSE page[Owner[t]]

PagesOpen == \A t \in Tabs : Opens(Knows(t), Owner[t], available[Owner[t]][denom])

(* As long as no page has given up on a transaction. *)
TrailInv == timeouts = 0 => InFlightAwaited /\ JobsFollow /\ PagesOpen

(* A transaction in flight, with the tab it belongs to. *)
LEMMA AwaitedByOwner ==
    ASSUME PagesInv, InFlightAwaited, NEW tx \in broadcast,
           tx.seq = sequence[tx.msg.sender]
    PROVE  \E t \in Tabs : job[t] = tx /\ tx # Nil /\ Owner[t] = tx.msg.sender
<1>1. PICK t \in Tabs : job[t] = tx
  BY DEF InFlightAwaited
<1>2. tx # Nil
  BY PageTxKind DEF PagesInv, SignedOnce
<1> QED
  BY <1>1, <1>2 DEF PagesInv, JobsBuilt

(* What follows from an opening of the balance opens what the transaction   *)
(* makes of the balance.                                                    *)
LEMMA FollowingOpens ==
    ASSUME PagesInv, NEW tx \in broadcast, Execute(tx), NEW state \in PageState,
           Follows(tx, state),
           Opens(state, tx.msg.sender, available[tx.msg.sender][denom])
    PROVE  Opens(tx.memo, tx.msg.sender, available'[tx.msg.sender][denom])
<1> DEFINE a == tx.msg.sender
           stored == available[a][denom]
           new == available'[a][denom]
           v == state.amount
           q == state.randomness
           pk == pubkey[a]
           w == IF IsSpend(tx) THEN FieldSub(v, tx.amount) ELSE FieldAdd(v, tx.amount)
           p == IF IsSpend(tx) THEN FieldSub(q, tx.r) ELSE FieldAdd(q, tx.r)
<1>1. /\ Settles(tx) /\ a \in Accounts /\ Carries(tx)
      /\ tx.amount \in Field /\ tx.r \in Field
  BY PageTxSettles, PageTxKind DEF PageBuilt
<1>2. /\ new = Moved(tx, stored) /\ new \in Ciphertext
      /\ new.v = MovedValue(tx, Plaintext(stored))
  BY <1>1 DEF Settles
<1>3. pk \in Keys /\ stored \in Ciphertext \cup {Nil}
  BY <1>1, WalletsAssumption DEF PagesInv, KeeperReady, IInv, TypeOK
<1>4. q \in Field
  BY DEF PageState
<1>5. unmarshalOrZero(stored) = EncryptWithRandomness(v, pk, q)
  BY DEF Opens
<1>6. v = Plaintext(stored)
  BY <1>5 DEF EncryptWithRandomness, Canonical, Plaintext
<1>7. v \in Field
  BY <1>3, <1>6, PlaintextType
<1> HIDE DEF a, stored, new, v, q, pk
<1>8. new = EncryptWithRandomness(w, pk, p)
  BY <1>1, <1>2, <1>3, <1>4, <1>5, <1>7, MovedOpens DEF a, pk
<1> HIDE DEF w, p
<1>9. new.v = w
  BY <1>8 DEF EncryptWithRandomness, Canonical
<1>10. w = MovedValue(tx, v)
  BY <1>2, <1>6, <1>9
<1>11. tx.memo.amount = w /\ tx.memo.randomness = p
  BY <1>10 DEF Follows, v, q, p
<1>12. unmarshalOrZero(new) = new
  BY <1>2, NilAssumption DEF unmarshalOrZero
<1> QED
  BY <1>8, <1>11, <1>12 DEF Opens, a, pk, new

(* A page takes up a transaction: what it knows stays what it stored. *)
LEMMA TrailPrepare ==
    ASSUME PagesInv, TrailInv, timeouts = 0, NEW t \in Tabs, NEW tx, Prepares(t, tx)
    PROVE  TrailInv'
<1>1. /\ job[t] = Nil /\ job' = [job EXCEPT ![t] = tx] /\ ~tx.signed
      /\ Follows(tx, page[Owner[t]])
      /\ UNCHANGED <<pubkey, available, broadcast, landed, sequence, page>>
  BY DEF Prepares, allVars, walletVars, vars, balances
<1>2. /\ \A u \in broadcast : u.signed /\ u # Nil
      /\ landed \subseteq broadcast
      /\ job \in [Tabs -> PageTransaction \cup {Nil}]
  BY PageTxKind DEF PagesInv, SignedOnce, PageTypes
<1>3. InFlightAwaited'
  BY <1>1, <1>2 DEF TrailInv, InFlightAwaited
<1>4. JobsFollow'
  BY <1>1, <1>2 DEF TrailInv, JobsFollow, Follows, MovedValue, IsSpend
<1>5. \A u \in Tabs : Knows(u)' = Knows(u)
  BY <1>1, <1>2 DEF Knows
<1>6. PagesOpen'
  BY <1>1, <1>5 DEF TrailInv, PagesOpen, Opens
<1> QED
  BY <1>3, <1>4, <1>6 DEF TrailInv

LEMMA TrailSign ==
    ASSUME PagesInv, TrailInv, timeouts = 0, NEW t \in Tabs, NEW tx, Signs(t, tx)
    PROVE  TrailInv'
<1>1. /\ job[t] # Nil /\ ~job[t].signed /\ tx \notin broadcast
      /\ job' = [job EXCEPT ![t] = tx] /\ broadcast' = broadcast \cup {tx}
      /\ UNCHANGED <<pubkey, available, landed, sequence, page>>
  BY DEF Signs, vars, balances
<1>2. /\ \A u \in broadcast : u.signed
      /\ landed \subseteq broadcast
      /\ job \in [Tabs -> PageTransaction \cup {Nil}]
  BY DEF PagesInv, SignedOnce, PageTypes
<1>3. /\ tx.msg = job[t].msg /\ tx.memo = job[t].memo
      /\ tx.amount = job[t].amount /\ tx.r = job[t].r
  BY SignedTx
<1>4. InFlightAwaited'
  BY <1>1, <1>2 DEF TrailInv, InFlightAwaited
<1>5. JobsFollow'
  <2>1. Follows(tx, page[Owner[t]])
    BY <1>1, <1>3 DEF TrailInv, JobsFollow, Follows, MovedValue, IsSpend
  <2> QED
    BY <1>1, <1>2, <2>1 DEF TrailInv, JobsFollow, Follows, MovedValue, IsSpend
<1>6. \A u \in Tabs : Knows(u)' = Knows(u)
  BY <1>1, <1>2 DEF Knows
<1>7. PagesOpen'
  BY <1>1, <1>6 DEF TrailInv, PagesOpen, Opens
<1> QED
  BY <1>4, <1>5, <1>7 DEF TrailInv

(* A page stores what it already knew. *)
LEMMA TrailSave ==
    ASSUME OnePagePerAccount, PagesInv, TrailInv, timeouts = 0, NEW t \in Tabs, Save(t)
    PROVE  TrailInv'
<1>1. /\ job[t] \in landed /\ job' = [job EXCEPT ![t] = Nil]
      /\ page' = [page EXCEPT ![Owner[t]] = job[t].memo]
      /\ UNCHANGED <<pubkey, available, broadcast, landed, sequence>>
  BY DEF Save, allVars, walletVars, vars, balances
<1>2. /\ \A u \in broadcast : u # Nil /\ u.msg.sender \in Accounts /\ u.seq \in Nat
      /\ landed \subseteq broadcast
      /\ \A u \in landed : u.seq < sequence[u.msg.sender]
      /\ sequence \in [Accounts -> Nat] /\ page \in [Accounts -> PageState]
      /\ job \in [Tabs -> PageTransaction \cup {Nil}]
  BY PageTxKind DEF PagesInv, SignedOnce, PageTypes
<1>3. Owner \in [Tabs -> Accounts]
  BY BrowserAssumption
<1>4. \A u \in Tabs : u # t => job'[u] = job[u] /\ page'[Owner[u]] = page[Owner[u]]
  BY <1>1, <1>2, <1>3 DEF OnePagePerAccount
<1>5. job'[t] = Nil /\ page'[Owner[t]] = job[t].memo /\ Nil \notin landed
  BY <1>1, <1>2, <1>3
<1>6. InFlightAwaited'
  <2> SUFFICES ASSUME NEW tx \in broadcast, tx.seq = sequence[tx.msg.sender]
               PROVE  \E u \in Tabs : job'[u] = tx
    BY <1>1 DEF InFlightAwaited
  <2>1. PICK u \in Tabs : job[u] = tx
    BY DEF TrailInv, InFlightAwaited
  <2>2. tx.seq \in Nat /\ tx \notin landed
    BY <1>2
  <2> QED
    BY <1>1, <1>4, <2>1, <2>2
<1>7. JobsFollow'
  BY <1>4, <1>5 DEF TrailInv, JobsFollow, Follows, MovedValue, IsSpend
<1>8. \A u \in Tabs : Knows(u)' = Knows(u)
  BY <1>1, <1>4, <1>5 DEF Knows
<1>9. PagesOpen'
  BY <1>1, <1>8 DEF TrailInv, PagesOpen, Opens
<1> QED
  BY <1>6, <1>7, <1>9 DEF TrailInv

(* A page drops a transaction that will never be executed. *)
LEMMA TrailFail ==
    ASSUME PagesInv, TrailInv, timeouts = 0, NEW t \in Tabs, Fail(t)
    PROVE  TrailInv'
<1>1. /\ job[t] \notin landed /\ job' = [job EXCEPT ![t] = Nil]
      /\ job[t].seq < sequence[job[t].msg.sender]
      /\ UNCHANGED <<pubkey, available, broadcast, landed, sequence, page>>
  BY DEF Fail, Expired, allVars, walletVars, vars, balances
<1>2. /\ \A u \in broadcast : u # Nil /\ u.msg.sender \in Accounts /\ u.seq \in Nat
      /\ landed \subseteq broadcast
      /\ sequence \in [Accounts -> Nat]
      /\ job \in [Tabs -> PageTransaction \cup {Nil}]
  BY PageTxKind DEF PagesInv, SignedOnce, PageTypes
<1>3. InFlightAwaited'
  BY <1>1, <1>2 DEF TrailInv, InFlightAwaited
<1>4. JobsFollow'
  BY <1>1, <1>2 DEF TrailInv, JobsFollow, Follows, MovedValue, IsSpend
<1>5. \A u \in Tabs : Knows(u)' = Knows(u)
  BY <1>1, <1>2 DEF Knows
<1>6. PagesOpen'
  BY <1>1, <1>5 DEF TrailInv, PagesOpen, Opens
<1> QED
  BY <1>3, <1>4, <1>6 DEF TrailInv

(* An executed transaction is the one its page waits for; the page knows    *)
(* what it left.                                                            *)
LEMMA TrailExecute ==
    ASSUME OnePagePerAccount, PagesInv, TrailInv, timeouts = 0, NEW tx \in broadcast,
           ExecuteInBlock(tx)
    PROVE  TrailInv'
<1> DEFINE a == tx.msg.sender
<1>1. Execute(tx) /\ UNCHANGED <<page, job>>
  BY DEF ExecuteInBlock
<1>2. /\ Settles(tx) /\ PageBuilt(tx) /\ a \in Accounts
      /\ tx.seq = sequence[a] /\ sequence' = [sequence EXCEPT ![a] = @ + 1]
      /\ landed' = landed \cup {tx} /\ broadcast' = broadcast
      /\ tx \notin landed
  BY <1>1, PageTxSettles
<1>3. /\ pubkey' = pubkey
      /\ \A b \in Accounts \ {a} : available'[b][denom] = available[b][denom]
  BY <1>2 DEF Settles
<1>4. PICK t \in Tabs : job[t] = tx /\ tx # Nil /\ Owner[t] = a
  BY <1>2, AwaitedByOwner DEF TrailInv
<1>5. /\ \A u \in Tabs : u # t => Owner[u] # a /\ job[u] # tx
      /\ Owner \in [Tabs -> Accounts]
  BY <1>4, BrowserAssumption DEF OnePagePerAccount, PagesInv, JobsBuilt
<1>6. Opens(tx.memo, a, available'[a][denom])
  <2>1. /\ Follows(tx, page[a]) /\ page[a] \in PageState
        /\ Opens(page[a], a, available[a][denom])
    BY <1>2, <1>4 DEF TrailInv, JobsFollow, PagesOpen, Knows, PagesInv, PageTypes
  <2> QED
    BY <1>1, <2>1, FollowingOpens
<1>7. PagesOpen'
  <2> SUFFICES ASSUME NEW u \in Tabs
               PROVE  Opens(IF job[u] \in landed' THEN job[u].memo ELSE page[Owner[u]],
                            Owner[u], available'[Owner[u]][denom])
    BY <1>1, <1>3 DEF PagesOpen, Knows, Opens
  <2>1. CASE u = t
    BY <1>2, <1>4, <1>6, <2>1
  <2>2. CASE u # t
    BY <1>2, <1>3, <1>5, <2>2 DEF TrailInv, PagesOpen, Knows
  <2> QED
    BY <2>1, <2>2
<1>8. InFlightAwaited'
  <2> SUFFICES ASSUME NEW u \in broadcast, u.seq = sequence'[u.msg.sender]
               PROVE  \E s \in Tabs : job[s] = u
    BY <1>1, <1>2 DEF InFlightAwaited
  <2>1. /\ u.seq <= sequence[u.msg.sender] /\ u.seq \in Nat /\ u.msg.sender \in Accounts
        /\ sequence \in [Accounts -> Nat]
    BY PageTxKind DEF PagesInv, SignedOnce, PageTypes
  <2>2. u.seq = sequence[u.msg.sender]
    BY <1>2, <2>1
  <2> QED
    BY <2>2 DEF TrailInv, InFlightAwaited
<1>9. JobsFollow'
  BY <1>1 DEF TrailInv, JobsFollow, Follows, MovedValue, IsSpend
<1> QED
  BY <1>7, <1>8, <1>9 DEF TrailInv

(* A refusal, a new block, a new display, and nothing at all. *)
LEMMA TrailQuiet ==
    ASSUME PagesInv, TrailInv, timeouts = 0,
           EndBlock \/ UNCHANGED browserVars \/ (\E tx \in broadcast : RejectInBlock(tx))
             \/ \E t \in Tabs : Refresh(t)
    PROVE  TrailInv'
<1>1. UNCHANGED <<pubkey, available, broadcast, landed, page, job>>
  BY DEF EndBlock, Refresh, browserVars, allVars, walletVars, pageVars, vars, balances,
         RejectInBlock, Reject, Admit
<1>2. \A u \in broadcast :
        u.seq = sequence'[u.msg.sender] => u.seq = sequence[u.msg.sender]
  <2>1. /\ sequence \in [Accounts -> Nat]
        /\ \A u \in broadcast : /\ u.seq <= sequence[u.msg.sender] /\ u.seq \in Nat
                                 /\ u.msg.sender \in Accounts
    BY PageTxKind DEF PagesInv, SignedOnce, PageTypes
  <2>2. CASE sequence' = sequence
    BY <2>2
  <2>3. ASSUME NEW tx \in broadcast, RejectInBlock(tx)
        PROVE  sequence' = [sequence EXCEPT ![tx.msg.sender] = @ + 1]
    BY <2>3 DEF RejectInBlock, Reject, Admit
  <2>4. ASSUME NEW tx \in broadcast, RejectInBlock(tx), NEW u \in broadcast,
               u.seq = sequence'[u.msg.sender]
        PROVE  u.seq = sequence[u.msg.sender]
    BY <2>1, <2>3, <2>4
  <2>5. EndBlock \/ UNCHANGED browserVars \/ (\E t \in Tabs : Refresh(t)) =>
          sequence' = sequence
    BY DEF EndBlock, Refresh, browserVars, allVars, walletVars
  <2> QED
    BY <2>2, <2>4, <2>5
<1>3. InFlightAwaited'
  BY <1>1, <1>2 DEF TrailInv, InFlightAwaited
<1>4. JobsFollow'
  BY <1>1 DEF TrailInv, JobsFollow, Follows, MovedValue, IsSpend
<1>5. PagesOpen'
  BY <1>1 DEF TrailInv, PagesOpen, Opens, Knows
<1> QED
  BY <1>3, <1>4, <1>5 DEF TrailInv

(* Once a page has given up, nothing is claimed any more. *)
LEMMA TimeoutsStay ==
    ASSUME PagesInv, PageStep, timeouts' = 0
    PROVE  timeouts = 0 /\ \A t \in Tabs : ~GiveUp(t)
<1>1. timeouts \in Nat
  BY DEF PagesInv, PageTypes
<1>2. timeouts' = timeouts \/ timeouts' = timeouts + 1
  BY DEF PageStep, Prepares, Signs, Save, Fail, GiveUp, Refresh, ExecuteInBlock,
     RejectInBlock, EndBlock, browserVars, pageVars
<1>3. \A t \in Tabs : GiveUp(t) => timeouts' = timeouts + 1
  BY DEF GiveUp
<1> QED
  BY <1>1, <1>2, <1>3

LEMMA TrailStep ==
    ASSUME OnePagePerAccount, PagesInv, TrailInv, PageStep
    PROVE  TrailInv'
<1>1. CASE timeouts' # 0
  BY <1>1 DEF TrailInv
<1>2. CASE timeouts' = 0
  <2>1. timeouts = 0 /\ \A t \in Tabs : ~GiveUp(t)
    BY <1>2, TimeoutsStay
  <2> QED
    BY <2>1, TrailPrepare, TrailSign, TrailSave, TrailFail, TrailExecute, TrailQuiet
       DEF PageStep
<1> QED
  BY <1>1, <1>2

LEMMA TrailInit ==
    ASSUME BrowserInit
    PROVE  TrailInv
<1>1. /\ broadcast = {} /\ landed = {} /\ job = [t \in Tabs |-> Nil]
      /\ available = [a \in Accounts |-> [d \in Denoms |-> Nil]]
      /\ page = [a \in Accounts |-> NoState]
  BY DEF BrowserInit, WalletInit
<1>2. PagesInv
  BY PagesInit
<1>3. \A a \in Accounts : pubkey[a] # Garbled
  BY <1>2, NilAssumption DEF PagesInv, KeeperReady
<1>4. \A a \in Accounts : Opens(NoState, a, Nil)
  BY <1>3 DEF Opens, NoState, unmarshalOrZero, EncryptWithRandomness, Canonical
<1>5. PagesOpen
  BY <1>1, <1>4, BrowserAssumption, WalletsAssumption DEF PagesOpen, Knows
<1> QED
  BY <1>1, <1>5 DEF TrailInv, InFlightAwaited, JobsFollow

LEMMA TrailInvariance ==
    ASSUME HKDFReduced, OnePagePerAccount
    PROVE  BrowserSpec => [](PagesInv /\ TrailInv)
<1>1. PagesInv /\ TrailInv /\ [BrowserNext]_browserVars => TrailInv'
  BY EveryPageSteps, TrailStep
<1> QED
  BY <1>1, TrailInit, PagesInvariance, PTL DEF BrowserSpec

(* A page that is alone with its account, waits for nothing and has given   *)
(* up on nothing holds the opening of its balance: it can spend all it      *)
(* shows.                                                                   *)
THEOREM IdlePagesCanSpend ==
    ASSUME HKDFReduced, OnePagePerAccount
    PROVE  BrowserSpec => [](timeouts = 0 => IdlePageOpensBalance)
<1>1. PagesInv /\ TrailInv => (timeouts = 0 => IdlePageOpensBalance)
  <2>1. PagesInv => Nil \notin landed
    BY PageTxKind DEF PagesInv, SignedOnce
  <2> QED
    BY <2>1 DEF TrailInv, PagesOpen, Knows, IdlePageOpensBalance
<1> QED
  BY <1>1, TrailInvariance, PTL

(***************************************************************************)
(* What the chain remembers of the transactions                             *)
(***************************************************************************)

EventTypes == {"Shield", "Unshield", "ConfidentialSend", "ApplyPending"}

History(a, type) == {e \in events : e.tx.msg.sender = a /\ e.tx.msg.type = type}

AllOf(a) == {e \in events : e.tx.msg.sender = a}

Newest(e, S) == e \in S /\ \A f \in S : ~Newer(f, e)

(* Events are numbered in the order they happened, one for each executed    *)
(* transaction; what happened last is found.                                *)
LogInv ==
    /\ IsFiniteSet(events)
    /\ \A e \in events :
         /\ e.index \in Nat /\ e.index < Cardinality(events)
         /\ e.height \in Nat /\ e.height <= height
         /\ e.tx \in landed
    /\ \A e, f \in events : e.tx = f.tx => e = f
    /\ \A a \in Accounts, type \in EventTypes :
         History(a, type) # {} => \E e \in events : Newest(e, History(a, type))
    /\ \A a \in Accounts : AllOf(a) # {} => \E e \in events : Newest(e, AllOf(a))

(* The event of an executed transaction. *)
Logs(tx, e) ==
    /\ e.tx = tx /\ e.height = height /\ e.index = Cardinality(events)
    /\ events' = events \cup {e}

LEMMA ExecuteLogs ==
    ASSUME NEW tx, ExecuteInBlock(tx)
    PROVE  \E e : Logs(tx, e)
<1> DEFINE e == [tx |-> tx, height |-> height, index |-> Cardinality(events),
                 after |-> available'[tx.msg.sender][denom]]
<1>1. e.tx = tx /\ e.height = height /\ e.index = Cardinality(events)
  OBVIOUS
<1>2. events' = events \cup {e}
  BY DEF ExecuteInBlock
<1> HIDE DEF e
<1> QED
  BY <1>1, <1>2 DEF Logs

(* The event of an executed transaction is the newest. *)
LEMMA LogExecute ==
    ASSUME PagesInv, LogInv, NEW tx \in broadcast, ExecuteInBlock(tx)
    PROVE  LogInv'
<1>1. PICK new : Logs(tx, new)
  BY ExecuteLogs
<1>2. /\ new.tx = tx /\ new.height = height /\ new.index = Cardinality(events)
      /\ events' = events \cup {new}
  BY <1>1 DEF Logs
<1>3. /\ landed' = landed \cup {tx} /\ tx \notin landed /\ height' = height
      /\ height \in Nat
  BY PageTxSettles DEF ExecuteInBlock, PagesInv, PageTypes
<1>4. IsFiniteSet(events) /\ Cardinality(events) \in Nat
  BY FS_CardinalityType DEF LogInv
<1>5. \A e \in events : /\ e.index \in Nat /\ e.index < Cardinality(events)
                        /\ e.height \in Nat /\ e.height <= height
                        /\ e.tx \in landed
  BY DEF LogInv
<1>6. new \notin events
  BY <1>2, <1>4, <1>5
<1>7. IsFiniteSet(events') /\ Cardinality(events') = Cardinality(events) + 1
  BY <1>2, <1>4, <1>6, FS_AddElement
<1>8. \A e \in events' : /\ e.index \in Nat /\ e.index < Cardinality(events')
                         /\ e.height \in Nat /\ e.height <= height'
                         /\ e.tx \in landed'
  BY <1>2, <1>3, <1>4, <1>5, <1>7
<1>9. \A e, f \in events' : e.tx = f.tx => e = f
  BY <1>2, <1>3, <1>5 DEF LogInv
<1>10. ASSUME NEW a \in Accounts, NEW type \in EventTypes, History(a, type)' # {}
       PROVE  \E e \in events' : Newest(e, History(a, type)')
  <2>1. CASE tx.msg.sender = a /\ tx.msg.type = type
    <3>1. new \in History(a, type)'
      BY <1>2, <2>1 DEF History
    <3>2. \A f \in History(a, type)' : ~Newer(f, new)
      BY <1>2, <1>4, <1>5 DEF History, Newer
    <3> QED
      BY <1>2, <3>1, <3>2 DEF Newest
  <2>2. CASE ~(tx.msg.sender = a /\ tx.msg.type = type)
    <3>1. History(a, type)' = History(a, type)
      BY <1>2, <2>2 DEF History
    <3> QED
      BY <1>2, <1>10, <3>1 DEF LogInv
  <2> QED
    BY <2>1, <2>2
<1>11. ASSUME NEW a \in Accounts, AllOf(a)' # {}
       PROVE  \E e \in events' : Newest(e, AllOf(a)')
  <2>1. CASE tx.msg.sender = a
    <3>1. new \in AllOf(a)'
      BY <1>2, <2>1 DEF AllOf
    <3>2. \A f \in AllOf(a)' : ~Newer(f, new)
      BY <1>2, <1>4, <1>5 DEF AllOf, Newer
    <3> QED
      BY <1>2, <3>1, <3>2 DEF Newest
  <2>2. CASE tx.msg.sender # a
    <3>1. AllOf(a)' = AllOf(a)
      BY <1>2, <2>2 DEF AllOf
    <3> QED
      BY <1>2, <1>11, <3>1 DEF LogInv
  <2> QED
    BY <2>1, <2>2
<1> QED
  BY <1>7, <1>8, <1>9, <1>10, <1>11 DEF LogInv, Newest, Newer

LEMMA LogStep ==
    ASSUME PagesInv, LogInv, PageStep
    PROVE  LogInv'
<1>1. CASE \E tx \in broadcast : ExecuteInBlock(tx)
  BY <1>1, LogExecute
<1>2. CASE ~\E tx \in broadcast : ExecuteInBlock(tx)
  <2>1. UNCHANGED <<events, landed>> /\ (height' = height \/ height' = height + 1)
    BY <1>2 DEF PageStep, Prepares, Signs, Save, Fail, GiveUp, Refresh, RejectInBlock, Reject,
       EndBlock, browserVars, allVars, pageVars, walletVars
  <2>2. height \in Nat
    BY DEF PagesInv, PageTypes
  <2>3. \A e \in events : e.height \in Nat /\ e.height <= height'
    BY <2>1, <2>2 DEF LogInv
  <2> QED
    BY <2>1, <2>3 DEF LogInv, History, AllOf, Newest, Newer
<1> QED
  BY <1>1, <1>2

(* As long as no page has given up: the transactions of one account follow  *)
(* one another in different blocks, and the memo of the last one opens its  *)
(* balance.                                                                 *)
RecentAwaited ==
    \A e \in events : e.height < height \/ \E t \in Tabs : job[t] = e.tx

BlocksApart ==
    \A e, f \in events :
        e.tx.msg.sender = f.tx.msg.sender /\ Newer(f, e) => e.height < f.height

LastOpens ==
    \A e \in events :
        LET a == e.tx.msg.sender
        IN  (\A f \in events : f.tx.msg.sender = a => ~Newer(f, e)) =>
              Opens(e.tx.memo, a, available[a][denom])

OrderInv == timeouts = 0 => RecentAwaited /\ BlocksApart /\ LastOpens

LEMMA OrderExecute ==
    ASSUME OnePagePerAccount, PagesInv, TrailInv, LogInv, OrderInv, timeouts = 0,
           NEW tx \in broadcast, ExecuteInBlock(tx)
    PROVE  OrderInv'
<1> DEFINE a == tx.msg.sender
<1>1. PICK new : Logs(tx, new)
  BY ExecuteLogs
<1>2. /\ new.tx = tx /\ new.height = height /\ new.index = Cardinality(events)
      /\ events' = events \cup {new}
  BY <1>1 DEF Logs
<1>3. Execute(tx) /\ UNCHANGED <<page, job, height>>
  BY DEF ExecuteInBlock
<1>4. /\ Settles(tx) /\ a \in Accounts /\ tx.seq = sequence[a]
      /\ landed' = landed \cup {tx} /\ tx \notin landed
  BY <1>3, PageTxSettles
<1>5. /\ pubkey' = pubkey
      /\ \A b \in Accounts \ {a} : available'[b][denom] = available[b][denom]
  BY <1>4 DEF Settles
<1>6. PICK t \in Tabs : job[t] = tx /\ tx # Nil /\ Owner[t] = a
  BY <1>4, AwaitedByOwner DEF TrailInv
<1>7. /\ \A e \in events : /\ e.index \in Nat /\ e.index < Cardinality(events)
                            /\ e.height \in Nat /\ e.tx \in landed
                            /\ e.tx.msg.sender \in Accounts /\ e.tx # Nil
      /\ Cardinality(events) \in Nat /\ height \in Nat
  BY PageTxKind, FS_CardinalityType DEF LogInv, PagesInv, PageTypes, SignedOnce
<1>8. RecentAwaited'
  BY <1>2, <1>3, <1>6 DEF OrderInv, RecentAwaited
<1>9. ASSUME NEW e \in events, e.tx.msg.sender = a
      PROVE  e.height < height
  <2>1. ASSUME NEW u \in Tabs, job[u] = e.tx
        PROVE  FALSE
    <3>1. Owner[u] = a
      BY <1>7, <1>9, <2>1 DEF PagesInv, JobsBuilt
    <3>2. u = t
      BY <1>6, <3>1 DEF OnePagePerAccount
    <3> QED
      BY <1>4, <1>6, <1>7, <2>1, <3>2
  <2> QED
    BY <2>1 DEF OrderInv, RecentAwaited
<1>10. BlocksApart'
  <2> SUFFICES ASSUME NEW e \in events', NEW f \in events',
                      e.tx.msg.sender = f.tx.msg.sender, Newer(f, e)
               PROVE  e.height < f.height
    BY DEF BlocksApart, Newer
  <2>1. CASE e \in events /\ f \in events
    BY <2>1 DEF OrderInv, BlocksApart
  <2>2. CASE e \in events /\ f = new
    BY <1>2, <1>9, <2>2
  <2>3. CASE e = new
    BY <1>2, <1>7, <2>3 DEF Newer
  <2> QED
    BY <1>2, <2>1, <2>2, <2>3
<1>11. LastOpens'
  <2>1. Opens(tx.memo, a, available'[a][denom])
    <3>1. TrailInv' /\ timeouts' = 0
      BY TrailExecute DEF ExecuteInBlock
    <3>2. job'[t] = tx /\ tx \in landed'
      BY <1>3, <1>4, <1>6
    <3>3. Opens(IF job'[t] \in landed' THEN job'[t].memo ELSE page'[Owner[t]], Owner[t],
                available'[Owner[t]][denom])
      BY <3>1, <1>5 DEF TrailInv, PagesOpen, Knows, Opens
    <3> QED
      BY <1>6, <3>2, <3>3
  <2> SUFFICES ASSUME NEW e \in events',
                      \A f \in events' : f.tx.msg.sender = e.tx.msg.sender => ~Newer(f, e)
               PROVE  Opens(e.tx.memo, e.tx.msg.sender, available'[e.tx.msg.sender][denom])
    BY <1>5 DEF LastOpens, Newer, Opens
  <2>2. CASE e = new
    BY <1>2, <2>1, <2>2
  <2>3. CASE e \in events /\ e.tx.msg.sender = a
    <3>1. Newer(new, e)
      BY <1>2, <1>7, <2>3 DEF Newer
    <3> QED
      BY <1>2, <2>3, <3>1
  <2>4. CASE e \in events /\ e.tx.msg.sender # a
    BY <1>2, <1>5, <1>7, <2>4 DEF OrderInv, LastOpens
  <2> QED
    BY <1>2, <2>2, <2>3, <2>4
<1> QED
  BY <1>8, <1>10, <1>11 DEF OrderInv

(* A step of a tab leaves the events; what it no longer waits for is of an  *)
(* earlier block.                                                           *)
LEMMA OrderTab ==
    ASSUME UNCHANGED <<pubkey, available, events, height>>, OrderInv, timeouts = 0,
           NEW t \in Tabs, \A u \in Tabs : u # t => job'[u] = job[u],
           \A e \in events : e.tx = job[t] => e.height < height
    PROVE  OrderInv'
<1>1. RecentAwaited'
  BY DEF OrderInv, RecentAwaited
<1>2. BlocksApart' /\ LastOpens'
  BY DEF OrderInv, BlocksApart, LastOpens, Newer, Opens
<1> QED
  BY <1>1, <1>2 DEF OrderInv

LEMMA OrderTabStep ==
    ASSUME PagesInv, LogInv, OrderInv, timeouts = 0, NEW t \in Tabs, NEW tx,
           Prepares(t, tx) \/ Signs(t, tx) \/ Save(t) \/ Fail(t)
    PROVE  OrderInv'
<1>1. /\ UNCHANGED <<pubkey, available, events, height>>
      /\ \E j : job' = [job EXCEPT ![t] = j]
  BY DEF Prepares, Signs, Save, Fail, allVars, vars, balances
<1>2. \A u \in Tabs : u # t => job'[u] = job[u]
  BY <1>1 DEF PagesInv, PageTypes
<1>3. \A e \in events : e.tx \in landed /\ e.tx # Nil /\ e.tx.signed
  BY PageTxKind DEF LogInv, PagesInv, SignedOnce
<1>4. ASSUME NEW e \in events, e.tx = job[t]
      PROVE  e.height < height
  <2>1. Save(t)
    BY <1>3, <1>4 DEF Prepares, Signs, Fail, Expired
  <2> QED
    BY <1>4, <2>1 DEF Save, LogInv
<1> QED
  BY <1>1, <1>2, <1>4, OrderTab

LEMMA OrderQuiet ==
    ASSUME PagesInv, LogInv, OrderInv, timeouts = 0,
           EndBlock \/ UNCHANGED browserVars \/ (\E tx \in broadcast : RejectInBlock(tx))
             \/ \E t \in Tabs : Refresh(t)
    PROVE  OrderInv'
<1>1. /\ UNCHANGED <<pubkey, available, events, job>>
      /\ height' = height \/ height' = height + 1
  BY DEF EndBlock, Refresh, browserVars, allVars, pageVars, vars, balances, RejectInBlock, Reject
<1>2. height \in Nat /\ \A e \in events : e.height \in Nat
  BY DEF PagesInv, PageTypes, LogInv
<1>3. RecentAwaited'
  BY <1>1, <1>2 DEF OrderInv, RecentAwaited
<1>4. BlocksApart' /\ LastOpens'
  BY <1>1 DEF OrderInv, BlocksApart, LastOpens, Newer, Opens
<1> QED
  BY <1>3, <1>4 DEF OrderInv

LEMMA OrderStep ==
    ASSUME OnePagePerAccount, PagesInv, TrailInv, LogInv, OrderInv, PageStep
    PROVE  OrderInv'
<1>1. CASE timeouts' # 0
  BY <1>1 DEF OrderInv
<1>2. CASE timeouts' = 0
  <2>1. timeouts = 0 /\ \A t \in Tabs : ~GiveUp(t)
    BY <1>2, TimeoutsStay
  <2> QED
    BY <2>1, OrderExecute, OrderTabStep, OrderQuiet DEF PageStep
<1> QED
  BY <1>1, <1>2

(***************************************************************************)
(* Recovery                                                                 *)
(***************************************************************************)

(* Of each type, the first page of results has the newest event.            *)
LEMMA NewestIsFound ==
    ASSUME NEW a, NEW type, NEW e, Newest(e, History(a, type))
    PROVE  e \in txSearch(a, type)
<1>1. {f \in History(a, type) : Newer(f, e)} = {}
  BY DEF Newest
<1>2. Cardinality({f \in History(a, type) : Newer(f, e)}) < PerPage
  BY <1>1, FS_EmptySet, BrowserAssumption
<1> QED
  BY <1>2 DEF txSearch, Newest, History

LEMMA SearchFindsNewest ==
    ASSUME LogInv, NEW a \in Accounts, NEW type \in EventTypes
    PROVE  /\ txSearch(a, type) \subseteq History(a, type)
           /\ History(a, type) # {} =>
                \E e \in txSearch(a, type) : Newest(e, History(a, type))
<1>1. txSearch(a, type) \subseteq History(a, type)
  BY DEF txSearch, History
<1> QED
  BY <1>1, NewestIsFound DEF LogInv

(* Unless its search failed, the last transaction of an account is found.   *)
LEMMA LastIsFound ==
    ASSUME PagesInv, LogInv, NEW a \in Accounts, NEW failed, LastSearched(a, failed),
           NEW g \in events, Newest(g, AllOf(a)),
           NEW i
    PROVE  g.height \in heightsSeen(a, i, failed)
<1>1. g.tx.msg.sender = a /\ \A f \in events : f.tx.msg.sender = a => ~Newer(f, g)
  BY DEF Newest, AllOf
<1>2. PICK j \in Searched(failed) : EVENT_TYPES[j] = g.tx.msg.type
  BY <1>1 DEF LastSearched
<1>3. EVENT_TYPES[j] \in EventTypes
  BY <1>2 DEF Searched, EVENT_TYPES, EventTypes
<1>4. g \in txSearch(a, EVENT_TYPES[j])
  BY <1>1, <1>2, <1>3, NewestIsFound DEF Newest, History
<1> QED
  BY <1>2, <1>4 DEF heightsSeen

(* The newest memo of one type that is no older than anything else found is *)
(* the memo of the last transaction of the account.                         *)
LEMMA NotStaleIsLast ==
    ASSUME PagesInv, LogInv, BlocksApart, NEW a \in Accounts,
           NEW failed, LastSearched(a, failed),
           NEW first \in DOMAIN EVENT_TYPES,
           NEW latest, Newest(latest, txSearch(a, EVENT_TYPES[first])),
           \A h \in heightsSeen(a, first, failed) : ~(h > latest.height)
    PROVE  /\ latest \in events /\ latest.tx.msg.sender = a
           /\ \A f \in events : f.tx.msg.sender = a => ~Newer(f, latest)
<1>1. latest \in events /\ latest.tx.msg.sender = a
  BY DEF Newest, txSearch
<1>2. ASSUME NEW f \in events, f.tx.msg.sender = a, Newer(f, latest)
      PROVE  FALSE
  <2>1. PICK g \in events : Newest(g, AllOf(a))
    BY <1>2 DEF LogInv, AllOf
  <2>2. g.tx.msg.sender = a /\ ~Newer(f, g)
    BY <1>2, <2>1 DEF Newest, AllOf
  <2>3. /\ g.index \in Nat /\ f.index \in Nat /\ latest.index \in Nat
        /\ g.height \in Nat /\ latest.height \in Nat
    BY <1>1 DEF LogInv
  <2>4. Newer(g, latest)
    BY <1>2, <2>2, <2>3 DEF Newer
  <2>5. latest.height < g.height
    BY <1>1, <2>2, <2>4 DEF BlocksApart
  <2>6. g.height \in heightsSeen(a, first, failed)
    BY <2>1, LastIsFound
  <2> QED
    BY <2>3, <2>5, <2>6
<1> QED
  BY <1>1, <1>2

(* Recovery takes the newest memo of the first type it finds one of. *)
LEMMA RecoveryTakesNewest ==
    ASSUME PagesInv, LogInv, NEW a \in Accounts, NEW failed, syncFromChain(a, failed) # Nil
    PROVE  \E first \in DOMAIN EVENT_TYPES : \E latest :
               /\ Newest(latest, txSearch(a, EVENT_TYPES[first]))
               /\ syncFromChain(a, failed) =
                    [amount |-> latest.tx.memo.amount,
                     randomness |-> latest.tx.memo.randomness,
                     height |-> latest.height,
                     stale |-> \E h \in heightsSeen(a, first, failed) : h > latest.height]
<1> DEFINE found == {i \in Searched(failed) : txSearch(a, EVENT_TYPES[i]) # {}}
           first == CHOOSE i \in found : \A j \in found : i <= j
           results == txSearch(a, EVENT_TYPES[first])
           latest == CHOOSE e \in results : \A f \in results : ~Newer(f, e)
<1>1. found # {} /\ found \subseteq {1, 2, 3, 4}
  <2>1. found # {}
    BY DEF syncFromChain
  <2>2. Searched(failed) \subseteq {1, 2, 3, 4}
    BY DEF Searched, EVENT_TYPES
  <2> QED
    BY <2>1, <2>2
<1>2. \E i \in found : \A j \in found : i <= j
  <2> HIDE DEF found
  <2>1. CASE 1 \in found
    BY <1>1, <2>1
  <2>2. CASE 1 \notin found /\ 2 \in found
    BY <1>1, <2>2
  <2>3. CASE 1 \notin found /\ 2 \notin found /\ 3 \in found
    BY <1>1, <2>3
  <2>4. CASE found = {4}
    BY <2>4
  <2> QED
    BY <1>1, <2>1, <2>2, <2>3, <2>4
<1>3. first \in found
  <2> HIDE DEF found
  <2> QED
    BY <1>2
<1>4. first \in DOMAIN EVENT_TYPES /\ results # {}
  BY <1>3 DEF Searched
<1>5. syncFromChain(a, failed) =
        [amount |-> latest.tx.memo.amount, randomness |-> latest.tx.memo.randomness,
         height |-> latest.height,
         stale |-> \E h \in heightsSeen(a, first, failed) : h > latest.height]
  BY <1>1 DEF syncFromChain, wasmDecryptMemo
<1> HIDE DEF found, first
<1>6. EVENT_TYPES[first] \in EventTypes
  BY <1>4 DEF EVENT_TYPES, EventTypes
<1>7. results \subseteq History(a, EVENT_TYPES[first]) /\ History(a, EVENT_TYPES[first]) # {}
  BY <1>4, <1>6, SearchFindsNewest
<1>8. PICK e \in results : Newest(e, History(a, EVENT_TYPES[first]))
  BY <1>6, <1>7, SearchFindsNewest
<1>9. \E x \in results : \A f \in results : ~Newer(f, x)
  BY <1>7, <1>8 DEF Newest
<1> HIDE DEF results
<1>10. Newest(latest, results)
  BY <1>9 DEF Newest
<1> HIDE DEF latest
<1> QED
  BY <1>4, <1>5, <1>10 DEF results

LEMMA LogInit ==
    ASSUME BrowserInit
    PROVE  LogInv /\ OrderInv
<1>1. events = {}
  BY DEF BrowserInit
<1> QED
  BY <1>1, FS_EmptySet
     DEF LogInv, History, AllOf, OrderInv, RecentAwaited, BlocksApart, LastOpens

LEMMA OrderInvariance ==
    ASSUME HKDFReduced, OnePagePerAccount
    PROVE  BrowserSpec => [](PagesInv /\ LogInv /\ OrderInv)
<1>1. PagesInv /\ TrailInv /\ LogInv /\ OrderInv /\ [BrowserNext]_browserVars
        => LogInv' /\ OrderInv'
  BY EveryPageSteps, LogStep, OrderStep
<1> QED
  BY <1>1, LogInit, TrailInvariance, PTL DEF BrowserSpec

(* What recovery from the memos on chain returns as not stale opens the     *)
(* balance, for pages that are alone with their account and have given up   *)
(* on nothing, if the search that finds the last transaction did not fail:  *)
(* although other searches may have failed, only the first results of each  *)
(* are read, and the memo is that of the first type that has any.           *)
THEOREM RecoveryOpensBalance ==
    ASSUME HKDFReduced, OnePagePerAccount
    PROVE  BrowserSpec => [](timeouts = 0 => RecoveredStateOpensBalance)
<1>1. ASSUME PagesInv, LogInv, OrderInv, timeouts = 0, NEW a \in Accounts,
             NEW failed, LastSearched(a, failed),
             syncFromChain(a, failed) # Nil, ~syncFromChain(a, failed).stale
      PROVE  Opens(syncFromChain(a, failed), a, available[a][denom])
  <2>1. PICK first \in DOMAIN EVENT_TYPES :
          \E latest :
            /\ Newest(latest, txSearch(a, EVENT_TYPES[first]))
            /\ syncFromChain(a, failed) =
                 [amount |-> latest.tx.memo.amount,
                  randomness |-> latest.tx.memo.randomness,
                  height |-> latest.height,
                  stale |-> \E h \in heightsSeen(a, first, failed) : h > latest.height]
    BY <1>1, RecoveryTakesNewest
  <2>2. PICK latest :
            /\ Newest(latest, txSearch(a, EVENT_TYPES[first]))
            /\ syncFromChain(a, failed) =
                 [amount |-> latest.tx.memo.amount,
                  randomness |-> latest.tx.memo.randomness,
                  height |-> latest.height,
                  stale |-> \E h \in heightsSeen(a, first, failed) : h > latest.height]
    BY <2>1
  <2>3. /\ syncFromChain(a, failed).amount = latest.tx.memo.amount
        /\ syncFromChain(a, failed).randomness = latest.tx.memo.randomness
    BY <2>2
  <2>4. \A h \in heightsSeen(a, first, failed) : ~(h > latest.height)
    BY <1>1, <2>2
  <2>5. /\ latest \in events /\ latest.tx.msg.sender = a
        /\ \A f \in events : f.tx.msg.sender = a => ~Newer(f, latest)
    BY <1>1, <2>2, <2>4, NotStaleIsLast DEF OrderInv
  <2>6. Opens(latest.tx.memo, a, available[a][denom])
    BY <1>1, <2>5 DEF OrderInv, LastOpens
  <2> QED
    BY <2>3, <2>6 DEF Opens
<1>2. PagesInv /\ LogInv /\ OrderInv => (timeouts = 0 => RecoveredStateOpensBalance)
  BY <1>1 DEF RecoveredStateOpensBalance
<1> QED
  BY <1>2, OrderInvariance, PTL

(***************************************************************************)
(* Randomness is never reused                                               *)
(***************************************************************************)

(* HKDF does not collide on what pages ever derived from. *)
PageHKDFSeparates ==
    LET seeds == UNION {PageSeeds(tx) : tx \in broadcast}
    IN  \A i, j \in seeds : HKDF(i[1], i[2], i[3]) = HKDF(j[1], j[2], j[3]) => i = j

(* As long as HKDF does not collide, no two ciphertexts of different        *)
(* amounts are broadcast with the same randomness under one key, although   *)
(* tabs derive from the same state and transactions are signed with later   *)
(* sequence numbers than those they were derived for.                       *)
THEOREM PagesNeverReuseRandomness ==
    ASSUME HKDFReduced
    PROVE  BrowserSpec => [](PageHKDFSeparates => NoRandomnessReuse)
<1>1. ASSUME PagesInv, PageHKDFSeparates,
             NEW t1 \in broadcast, NEW t2 \in broadcast,
             NEW c1 \in CiphertextsOf(t1.msg), NEW c2 \in CiphertextsOf(t2.msg),
             c1.r = c2.r
      PROVE  c1.v = c2.v
  <2>1. Derives(t1) /\ Derives(t2)
    BY <1>1 DEF PagesInv, SignedOnce, PageBuilt
  <2>2. PICK i \in PageSeeds(t1) : DerivedFrom(c1, t1, i)
    BY <1>1, <2>1 DEF Derives
  <2>3. PICK j \in PageSeeds(t2) : DerivedFrom(c2, t2, j)
    BY <1>1, <2>1 DEF Derives
  <2>4. i = j
    BY <1>1, <2>2, <2>3 DEF PageHKDFSeparates, DerivedFrom
  <2> QED
    BY <2>2, <2>3, <2>4 DEF DerivedFrom
<1>2. PagesInv => (PageHKDFSeparates => NoRandomnessReuse)
  BY <1>1 DEF NoRandomnessReuse
<1> QED
  BY <1>2, PagesInvariance, PTL
=============================================================================
