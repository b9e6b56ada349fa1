------------------------------- MODULE Wallets -------------------------------
(***************************************************************************)
(* The Go client SDK (client/sdk) at work on the keeper: honest wallets     *)
(* that query the chain, build proofs against what they saw, broadcast, and *)
(* learn later whether the transaction was executed.  Between the query and *)
(* the execution anything may happen: another transaction of the same       *)
(* account, an incoming transfer, a rotation of the auditor key.  A         *)
(* transaction may also never be executed at all.                           *)
(*                                                                         *)
(* A wallet keeps no more than a BalanceState: the plaintext and the        *)
(* cumulative randomness of its available balance.                          *)
(***************************************************************************)
EXTENDS Confidential

CONSTANTS
    denom,             \* the denomination the wallets hold
    SendAmounts,       \* the amounts users ask for
    MaxBroadcasts,     \* MaxBroadcasts[a]: bound on the transactions a builds
    MaxCrashes,        \* bound on the crashes of wallets
    CrashInFlight,     \* whether a wallet may recover with transactions in flight
    MaxRotations,      \* bound on the rotations of the auditor key
    AuditorKeys,       \* the keys governance rotates between
    MaxUint64,         \* the largest value a BalanceState holds, 2^64 - 1
    HKDF(_, _, _)      \* HKDF(sk, salt, info), reduced to a scalar

(* Users ask for amounts that a message may carry: not 0, which             *)
(* ValidateBasic refuses, and of at most MaxTransferBits bits, as the       *)
(* SDK's uint64 are at the default of 64.                                   *)
ASSUME WalletsAssumption ==
    /\ denom \in Denoms
    /\ SendAmounts \subseteq 1 .. (RangeBound - 1)
    /\ AuditorKeys # {} /\ AuditorKeys \subseteq Keys
    /\ \A a \in Accounts : Controls[a] # {}
    /\ MaxUint64 \in Nat

VARIABLES
    wallet,      \* the BalanceState of each account
    awaiting,    \* the transactions a wallet waits for
    broadcast,   \* every transaction ever broadcast
    landed,      \* those that were executed without an error
    sequence,    \* the account sequence numbers, kept by the SDK
    crashes,     \* crashes so far
    rotations    \* auditor key rotations so far

walletVars == <<wallet, awaiting, broadcast, landed, sequence, crashes, rotations>>
allVars == <<vars, walletVars>>

(***************************************************************************)
(* BalanceState (client/sdk/state.go)                                       *)
(***************************************************************************)

BalanceState == [Value : Nat, Randomness : Field, RandomnessKnown : BOOLEAN]

EmptyState == [Value |-> 0, Randomness |-> 0, RandomnessKnown |-> FALSE]

AfterShield(s, amount, r) ==
    [Value |-> s.Value + amount, Randomness |-> FieldAdd(s.Randomness, r),
     RandomnessKnown |-> TRUE]

(* Fault: a difference of randomness that is not reduced. *)
AfterSendUnreduced(s, amount, r) ==
    [s EXCEPT !.Value = @ - amount, !.Randomness = @ - r]

AfterSend(s, amount, r) ==
    [s EXCEPT !.Value = @ - amount, !.Randomness = FieldSub(@, r)]

AfterUnshield(s, amount, r) ==
    [s EXCEPT !.Value = @ - amount, !.Randomness = FieldSub(@, r)]

(* Fault: the randomness of the balance is replaced, not accumulated. *)
AfterApplyPendingAnew(s, amount, r) ==
    [Value |-> s.Value + amount, Randomness |-> r, RandomnessKnown |-> TRUE]

AfterApplyPending(s, amount, r) ==
    [Value |-> s.Value + amount, Randomness |-> FieldAdd(s.Randomness, r),
     RandomnessKnown |-> TRUE]

(***************************************************************************)
(* Building transactions (client/sdk/client.go, randomness.go)              *)
(***************************************************************************)

(* Fault: the amount is left out of the derivation. *)
DeriveAnyAmount(a, op, amount, receiver) ==
    HKDF(pubkey[a], available[a][denom], <<op, sequence[a], 0, receiver>>)

(* Fault: one randomness for all transactions of an account. *)
DeriveOnce(a, op, amount, receiver) == HKDF(pubkey[a], Nil, <<"shield", 0, 0, Nil>>)

(* The secret key, the current balance ciphertext as salt, and everything   *)
(* that can differ between two transactions.                                *)
DeriveRandomness(a, op, amount, receiver) ==
    HKDF(pubkey[a], available[a][denom],
         <<op, sequence[a], amount, receiver>>)

(* A transaction with what its wallet remembers of it: the sequence number, *)
(* the amount, the randomness, and the chain state it was built against.    *)
Tx(m, amount, r) ==
    [msg |-> m, seq |-> sequence[m.sender], amount |-> amount, r |-> r,
     sawAvailable |-> available[m.sender][denom],
     sawPending |-> pending[m.sender][denom], sawAuditor |-> auditor]

Of(a) == {tx \in broadcast : tx.msg.sender = a}

Broadcast(tx) ==
    LET a == tx.msg.sender
    IN /\ Cardinality(Of(a)) < MaxBroadcasts[a]
       /\ tx \notin broadcast
       /\ broadcast' = broadcast \cup {tx}
       /\ awaiting' = [awaiting EXCEPT ![a] = @ \cup {tx}]
       /\ UNCHANGED <<vars, wallet, landed, sequence, crashes, rotations>>

BuildShield(a, amount) ==
    LET r == DeriveRandomness(a, "shield", amount, Nil)
    IN Broadcast(Tx(
         [type |-> "Shield", sender |-> a, denom |-> denom, amount |-> amount,
          ciphertext |-> EncryptWithRandomness(amount, pubkey[a], r)],
         amount, r))

(* The prover is given a plaintext and a randomness from the local state    *)
(* and the remainder the chain will derive.  If they do not open it, what   *)
(* comes out verifies against no ciphertext.                                *)
NoProof == EncryptWithRandomness(0, Garbled, 0)

ProveCommitment(value, randomness, pk, ct) ==
    IF EncryptWithRandomness(value, pk, randomness) = ct THEN ct ELSE NoProof

(* What Send and Unshield check before proving.                             *)
Spendable(state, amount) == state.RandomnessKnown /\ amount <= state.Value

(* A range proof can only be made for values in range.                      *)
ProveRange(values) == \A v \in values : v < RangeBound

RemainingProof(a, ct, amount, r) ==
    ProveCommitment(wallet[a].Value - amount, FieldSub(wallet[a].Randomness, r),
                    pubkey[a], subCiphertexts(available[a][denom], ct))

BuildSend(a, b, amount) ==
    LET r == DeriveRandomness(a, "send/sender", amount, b)
        ct == EncryptWithRandomness(amount, pubkey[a], r)
        rReceiver == DeriveRandomness(a, "send/receiver", amount, b)
        rAuditor == DeriveRandomness(a, "send/auditor", amount, b)
    IN /\ a # b
       /\ auditor # NoKey
       /\ Spendable(wallet[a], amount)
       /\ ProveRange({amount, wallet[a].Value - amount})
       /\ Broadcast(Tx(
            [type |-> "ConfidentialSend", sender |-> a, receiver |-> b,
             denom |-> denom, senderUpdate |-> ct,
             receiverUpdate |-> EncryptWithRandomness(amount, pubkey[b], rReceiver),
             auditorUpdate |-> EncryptWithRandomness(amount, auditor, rAuditor),
             transferCommitment |-> amount,
             remainingCommitment |-> wallet[a].Value - amount,
             remainingCommitmentProof |-> RemainingProof(a, ct, amount, r)],
            amount, r))

BuildUnshield(a, amount) ==
    LET r == DeriveRandomness(a, "unshield", amount, Nil)
        ct == EncryptWithRandomness(amount, pubkey[a], r)
    IN /\ Spendable(wallet[a], amount)
       /\ ProveRange({wallet[a].Value - amount})
       /\ Broadcast(Tx(
            [type |-> "Unshield", sender |-> a, denom |-> denom,
             amount |-> amount, ciphertext |-> ct,
             remainingCommitment |-> wallet[a].Value - amount,
             remainingCommitmentProof |-> RemainingProof(a, ct, amount, r)],
            amount, r))

(* Decrypts what is pending now and re-encrypts that very amount. *)
BuildApplyPending(a) ==
    LET pendingCt == pending[a][denom]
        r == DeriveRandomness(a, "apply_pending", pendingCt.v, Nil)
    IN /\ pendingCt # Nil
       /\ Broadcast(Tx(
            [type |-> "ApplyPending", sender |-> a, denom |-> denom,
             newAvailableUpdate |-> EncryptWithRandomness(pendingCt.v, pubkey[a], r),
             proof |-> pendingCt],
            pendingCt.v, r))

(***************************************************************************)
(* The chain executes, the wallets learn of it                              *)
(***************************************************************************)

Accepted(m) ==
    CASE m.type = "Shield"           -> ShieldVerified(m)
      [] m.type = "ConfidentialSend" -> SendVerified(m)
      [] m.type = "ApplyPending"     -> ApplyVerified(m)
      [] m.type = "Unshield"         -> /\ UnshieldVerified(m)
                                        /\ m.amount <= escrow[m.denom]

(* The SDK admits a transaction with the next sequence number of its        *)
(* account only, and spends the number whether the handler succeeds or not. *)
Admit(tx) ==
    /\ tx.seq = sequence[tx.msg.sender]
    /\ sequence' = [sequence EXCEPT ![tx.msg.sender] = @ + 1]
    /\ UNCHANGED <<wallet, awaiting, broadcast, crashes, rotations>>

Execute(tx) ==
    /\ Admit(tx)
    /\ Handle(tx.msg)
    /\ landed' = landed \cup {tx}

Reject(tx) ==
    /\ Admit(tx)
    /\ ~Accepted(tx.msg)
    /\ UNCHANGED <<vars, landed>>

After(s, tx) ==
    CASE tx.msg.type = "Shield"           -> AfterShield(s, tx.amount, tx.r)
      [] tx.msg.type = "ConfidentialSend" -> AfterSend(s, tx.amount, tx.r)
      [] tx.msg.type = "ApplyPending"     -> AfterApplyPending(s, tx.amount, tx.r)
      [] tx.msg.type = "Unshield"         -> AfterUnshield(s, tx.amount, tx.r)

(* Fault: the result of a transaction is applied every time it is seen. *)
ConfirmAgain(tx) ==
    LET a == tx.msg.sender
    IN /\ tx \in awaiting[a] \cap landed
       /\ wallet' = [wallet EXCEPT ![a] = After(@, tx)]
       /\ UNCHANGED <<vars, awaiting, broadcast, landed, sequence, crashes, rotations>>

Confirm(tx) ==
    LET a == tx.msg.sender
    IN /\ tx \in awaiting[a] \cap landed
       /\ wallet' = [wallet EXCEPT ![a] = After(@, tx)]
       /\ awaiting' = [awaiting EXCEPT ![a] = @ \ {tx}]
       /\ UNCHANGED <<vars, broadcast, landed, sequence, crashes, rotations>>

Expired(tx) == tx \notin landed /\ tx.seq < sequence[tx.msg.sender]

Abandon(tx) ==
    /\ tx \in awaiting[tx.msg.sender]
    /\ Expired(tx)
    /\ awaiting' = [awaiting EXCEPT ![tx.msg.sender] = @ \ {tx}]
    /\ UNCHANGED <<vars, wallet, broadcast, landed, sequence, crashes, rotations>>

RecoverStateSimple(ct) ==
    IF ct = Nil
    THEN EmptyState
    ELSE [Value |-> ct.v, Randomness |-> 0, RandomnessKnown |-> FALSE]

(* Fault: results already part of the recovered balance are applied to it. *)
CrashThenReplay(a) ==
    /\ crashes < MaxCrashes
    /\ crashes' = crashes + 1
    /\ wallet' = [wallet EXCEPT ![a] = RecoverStateSimple(available[a][denom])]
    /\ UNCHANGED <<vars, awaiting, broadcast, landed, sequence, rotations>>

(* A wallet that lost its state starts over from the balance on chain, at   *)
(* any time or once none of its transactions can be executed any more.      *)
Crash(a) ==
    /\ crashes < MaxCrashes
    /\ CrashInFlight \/ \A tx \in Of(a) : tx.seq < sequence[a]
    /\ crashes' = crashes + 1
    /\ wallet' = [wallet EXCEPT ![a] = RecoverStateSimple(available[a][denom])]
    /\ awaiting' = [awaiting EXCEPT ![a] = {}]
    /\ UNCHANGED <<vars, broadcast, landed, sequence, rotations>>

Rotate(k) ==
    /\ rotations < MaxRotations
    /\ k # auditor
    /\ SetAuditorKey([type |-> "SetAuditorKey", authority |-> Authority, pubkey |-> k])
    /\ rotations' = rotations + 1
    /\ UNCHANGED <<wallet, awaiting, broadcast, landed, sequence, crashes>>

(***************************************************************************)
(* The system starts where every account has registered its key and         *)
(* governance has set an auditor.                                           *)
(***************************************************************************)

OwnKey(a) == CHOOSE k \in Controls[a] : TRUE

WalletInit ==
    /\ bank = InitialFunds
    /\ escrow = [d \in Denoms |-> 0]
    /\ pubkey = [a \in Accounts |-> OwnKey(a)]
    /\ available = [a \in Accounts |-> [d \in Denoms |-> Nil]]
    /\ pending = [a \in Accounts |-> [d \in Denoms |-> Nil]]
    /\ pendingIsZero = [a \in Accounts |-> [d \in Denoms |-> FALSE]]
    /\ auditor = CHOOSE k \in AuditorKeys : TRUE
    /\ event = [type |-> "set_auditor_key"]
    /\ wallet = [a \in Accounts |-> EmptyState]
    /\ awaiting = [a \in Accounts |-> {}]
    /\ broadcast = {}
    /\ landed = {}
    /\ sequence = [a \in Accounts |-> 0]
    /\ crashes = 0
    /\ rotations = 0

WalletNext ==
    \/ \E a \in Accounts :
         \/ \E n \in SendAmounts :
              \/ BuildShield(a, n)
              \/ \E b \in Accounts : BuildSend(a, b, n)
              \/ BuildUnshield(a, n)
         \/ BuildApplyPending(a)
         \/ Crash(a)
    \/ \E tx \in broadcast :
         \/ Execute(tx)
         \/ Reject(tx)
         \/ Confirm(tx)
         \/ Abandon(tx)
    \/ \E k \in AuditorKeys : Rotate(k)

WalletSpec == WalletInit /\ [][WalletNext]_allVars

(***************************************************************************)
(* Correctness                                                              *)
(***************************************************************************)

WalletTypeOK ==
    /\ TypeOK
    /\ wallet \in [Accounts -> BalanceState]
    /\ landed \subseteq broadcast
    /\ \A a \in Accounts : awaiting[a] \subseteq Of(a)
    /\ sequence \in [Accounts -> Nat]

(* What a wallet has still to hear of: executed, and awaited. *)
Outstanding(a) == awaiting[a] \cap landed

(* A wallet that has heard of everything it did, and believes it knows its  *)
(* randomness, holds exactly the opening of the ciphertext on chain:        *)
(* otherwise none of its sends or withdrawals can ever verify again.        *)
KnownRandomnessOpensBalance ==
    \A a \in Accounts :
        wallet[a].RandomnessKnown /\ Outstanding(a) = {} =>
            available[a][denom] =
                EncryptWithRandomness(wallet[a].Value, pubkey[a], wallet[a].Randomness)

IsSpend(tx) == tx.msg.type \in {"ConfidentialSend", "Unshield"}

(* AfterSend and AfterUnshield panic on an amount above the local value.  A *)
(* wallet never hears of a spend its state cannot take, in whatever order   *)
(* results reach it, and even if it lost its state in between.              *)
SpendsNeverPanic ==
    \A a \in Accounts : \A tx \in Outstanding(a) :
        IsSpend(tx) => tx.amount <= wallet[a].Value

(* AfterShield and AfterApplyPending panic on a sum above MaxUint64.  Where *)
(* the supply fits a uint64, a wallet that hears of its transactions in the *)
(* order they were executed hears of no receipt it cannot hold.             *)
ReceiptsNeverPanic ==
    \A a \in Accounts : \A tx \in Outstanding(a) :
        (~IsSpend(tx) /\ \A other \in Outstanding(a) : tx.seq <= other.seq)
            => tx.amount <= MaxUint64 - wallet[a].Value

(* A wallet that has yet to hear of something it did does not open the      *)
(* balance on chain by coincidence, so that no spend it builds now verifies. *)
StaleWalletOpensNothing ==
    \A a \in Accounts :
        Outstanding(a) # {} =>
            available[a][denom] #
                EncryptWithRandomness(wallet[a].Value, pubkey[a], wallet[a].Randomness)

SpendingTxs == {tx \in broadcast :
    /\ IsSpend(tx)
    /\ tx.msg.remainingCommitmentProof # NoProof
    /\ tx.seq = sequence[tx.msg.sender]}

(* A proof that was good when it was built stays good until its own account *)
(* executes something else: no transfer, application or withdrawal of       *)
(* anyone else can invalidate it.                                           *)
OthersCannotInvalidate ==
    \A tx \in SpendingTxs :
        tx.msg.type = "Unshield" \/ tx.sawAuditor = auditor => Accepted(tx.msg)

CiphertextsOf(m) ==
    CASE m.type = "Shield"           -> {m.ciphertext}
      [] m.type = "ConfidentialSend" -> {m.senderUpdate, m.receiverUpdate, m.auditorUpdate}
      [] m.type = "ApplyPending"     -> {m.newAvailableUpdate}
      [] m.type = "Unshield"         -> {m.ciphertext}

(* Two ciphertexts under one key with one randomness reveal the difference  *)
(* of their plaintexts.  No two that were ever broadcast, executed or not,  *)
(* have different plaintexts and the same key and randomness.               *)
NoRandomnessReuse ==
    LET seen == UNION {CiphertextsOf(tx.msg) : tx \in broadcast}
    IN \A c1, c2 \in seen : c1.key = c2.key /\ c1.r = c2.r => c1.v = c2.v
=============================================================================
