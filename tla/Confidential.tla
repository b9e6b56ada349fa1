---------------------------- MODULE Confidential ----------------------------
(***************************************************************************)
(* The keeper of x/confidential: the store it keeps, the escrow it holds    *)
(* in x/bank and its six message handlers.                                  *)
(*                                                                         *)
(* A handler is one action: the chain runs the messages of a block one      *)
(* after the other, and a handler that returns an error has its writes      *)
(* discarded by the SDK, so a refused message is a stuttering step.         *)
(*                                                                         *)
(* A proof is kept as the statement it was made for.  The proof systems are *)
(* assumed sound: verification accepts exactly the true statements, and     *)
(* only against the very ciphertexts the proof was made for.                *)
(*                                                                         *)
(* Definitions marked "Fault" are no part of the specification: each is a   *)
(* handler or a check with one mistake in it, which a property must notice. *)
(***************************************************************************)
EXTENDS ElGamal, Totals

CONSTANTS
    Accounts,         \* the accounts of the chain
    Denoms,           \* the denominations
    Controls,         \* Controls[a]: the keys whose secret the owner of a holds
    Authority,        \* the governance account
    NoKey,            \* the empty auditor_pub_key
    RangeBound,       \* 2^MaxTransferBits: the exclusive bound of a range proof
    InitialFunds,     \* InitialFunds[a][d]: the coins of a in x/bank at genesis
    ResetRandomness,  \* the randomness deterministicZeroEncrypt can derive
    Messages          \* the messages that may be submitted

RegisterKeyMsg ==
    [type : {"RegisterKey"}, sender : Accounts, pubkey : Keys \cup {NoKey},
     pop : [key : Keys, sender : Accounts]]

ShieldMsg ==
    [type : {"Shield"}, sender : Accounts, denom : Denoms, amount : Int,
     ciphertext : Ciphertext]

(* remainingCommitmentProof is the ciphertext the proof was made about: the *)
(* (available - update) of the balance its sender saw.                      *)
ConfidentialSendMsg ==
    [type : {"ConfidentialSend"}, sender : Accounts, receiver : Accounts,
     denom : Denoms, senderUpdate : Ciphertext, receiverUpdate : Ciphertext,
     auditorUpdate : Ciphertext, transferCommitment : Field,
     remainingCommitment : Field, remainingCommitmentProof : Ciphertext]

(* proof is the pending ciphertext the proof was made about. *)
ApplyPendingMsg ==
    [type : {"ApplyPending"}, sender : Accounts, denom : Denoms,
     newAvailableUpdate : Ciphertext, proof : Ciphertext]

UnshieldMsg ==
    [type : {"Unshield"}, sender : Accounts, denom : Denoms, amount : Int,
     ciphertext : Ciphertext, remainingCommitment : Field,
     remainingCommitmentProof : Ciphertext]

SetAuditorKeyMsg ==
    [type : {"SetAuditorKey"}, authority : Accounts \cup {Authority},
     pubkey : Keys \cup {NoKey}]

Message == RegisterKeyMsg \cup ShieldMsg \cup ConfidentialSendMsg
           \cup ApplyPendingMsg \cup UnshieldMsg \cup SetAuditorKeyMsg

(* The coins, and the plaintexts, that the accounts hold of one denomination. *)
CoinsOf(store, d) == [a \in Accounts |-> store[a][d]]
PlaintextsOf(store, d) == [a \in Accounts |-> Plaintext(store[a][d])]

Supply(d) == Total(CoinsOf(InitialFunds, d))

ASSUME AccountsAssumption == IsFiniteSet(Accounts) /\ NoKey \notin Keys

ASSUME FundsAssumption ==
    /\ InitialFunds \in [Accounts -> [Denoms -> Nat]]
    /\ \A d \in Denoms : Supply(d) < FieldOrder

(* Two numbers in range never add up past the field order, so a range proof *)
(* over the transfer and the remainder rules out a wrapped subtraction.     *)
ASSUME RangeAssumption == RangeBound \in Nat /\ 2 * RangeBound <= FieldOrder

ASSUME ResetAssumption == ResetRandomness \subseteq Field

(* The owner of an account makes proofs of possession for keys whose secret *)
(* it holds, bound to its own address; others can only replay them.         *)
ASSUME MessagesAssumption ==
    /\ Messages \subseteq Message
    /\ Controls \in [Accounts -> SUBSET Keys]
    /\ \A m \in Messages :
         m.type = "RegisterKey" => m.pop.key \in Controls[m.pop.sender]

VARIABLES
    bank,           \* x/bank: the public coins of each account
    escrow,         \* x/bank: the coins of the module account
    pubkey,         \* confidential/pk/: the key an account registered
    available,      \* confidential/ab/: the spendable ciphertext
    pending,        \* confidential/pb/: the incoming ciphertext
    pendingIsZero,  \* confidential/pz/: set by ApplyPending, cleared by a send
    auditor,        \* params.AuditorPubKey
    event           \* the event the last message emitted

balances == <<available, pending, pendingIsZero>>
coins == <<bank, escrow>>
vars == <<coins, pubkey, balances, auditor, event>>

Init ==
    /\ bank = InitialFunds
    /\ escrow = [d \in Denoms |-> 0]
    /\ pubkey = [a \in Accounts |-> Nil]
    /\ available = [a \in Accounts |-> [d \in Denoms |-> Nil]]
    /\ pending = [a \in Accounts |-> [d \in Denoms |-> Nil]]
    /\ pendingIsZero = [a \in Accounts |-> [d \in Denoms |-> FALSE]]
    /\ auditor = NoKey
    /\ event = Nil

(***************************************************************************)
(* Verification (keeper/verify.go)                                          *)
(***************************************************************************)

HasRegisteredKey(a) == pubkey[a] # Nil

(* Fault: a transcript that does not bind the registering address. *)
verifyPossessionUnbound(pop, pk, sender) == pop.key = pk

(* The transcript binds the registering address. *)
verifyPossession(pop, pk, sender) == pop.key = pk /\ pop.sender = sender

verifyDLEQ(pk, ct, amount) == DecryptsUnder(ct, pk) /\ ct.v = amount

(* Fault: the equality proof leaves the auditor out. *)
verifyEqualityOfTwo(pk1, pk2, pk3, ct1, ct2, ct3) ==
    DecryptsUnder(ct1, pk1) /\ DecryptsUnder(ct2, pk2) /\ ct1.v = ct2.v

verifyEquality(pk1, pk2, pk3, ct1, ct2, ct3) ==
    /\ DecryptsUnder(ct1, pk1) /\ DecryptsUnder(ct2, pk2) /\ DecryptsUnder(ct3, pk3)
    /\ ct1.v = ct2.v /\ ct2.v = ct3.v

(* The commitment is binding: it is kept as the value it commits to. *)
verifyCommitmentEquality(proof, pk, ct, commitment) ==
    /\ proof = ct
    /\ DecryptsUnder(ct, pk)
    /\ ct.v = commitment

(* Fault: a range that starts at 1. *)
verifyPositiveRange(commitments) ==
    \A c \in commitments : 0 < c /\ c < RangeBound

verifyAggregateRange(commitments) == \A c \in commitments : c < RangeBound

verifyApplyPending(proof, pk, pendingCt, newCt) ==
    /\ proof = pendingCt
    /\ DecryptsUnder(pendingCt, pk)
    /\ DecryptsUnder(newCt, pk)
    /\ newCt.v = pendingCt.v

(* BitLen(amount) <= MaxTransferBits, for a positive amount. *)
ValidAmount(amount) == amount > 0 /\ amount < RangeBound

(***************************************************************************)
(* The message handlers                                                     *)
(***************************************************************************)

(* Fault: a key that is already registered may be replaced. *)
RegisterAgain(m) ==
    /\ m.pubkey \in Keys
    /\ verifyPossession(m.pop, m.pubkey, m.sender)

RegisterVerified(m) ==
    /\ m.pubkey \in Keys
    /\ ~HasRegisteredKey(m.sender)
    /\ verifyPossession(m.pop, m.pubkey, m.sender)

RegisterKey(m) ==
    /\ m.type = "RegisterKey"
    /\ RegisterVerified(m)
    /\ pubkey' = [pubkey EXCEPT ![m.sender] = m.pubkey]
    /\ event' = [type |-> "register_key"]
    /\ UNCHANGED <<coins, balances, auditor>>

(* Fault: coins are taken that the account does not have. *)
ShieldUnfunded(m) ==
    /\ HasRegisteredKey(m.sender)
    /\ ValidAmount(m.amount)
    /\ verifyDLEQ(pubkey[m.sender], m.ciphertext, m.amount)

(* Needs no auditor key: the amount of a shield is public.  The last        *)
(* conjunct is the bank's refusal.                                          *)
ShieldVerified(m) ==
    /\ HasRegisteredKey(m.sender)
    /\ ValidAmount(m.amount)
    /\ verifyDLEQ(pubkey[m.sender], m.ciphertext, m.amount)
    /\ m.amount <= bank[m.sender][m.denom]

Shield(m) ==
    /\ m.type = "Shield"
    /\ ShieldVerified(m)
    /\ bank' = [bank EXCEPT ![m.sender][m.denom] = @ - m.amount]
    /\ escrow' = [escrow EXCEPT ![m.denom] = @ + m.amount]
    /\ available' = [available EXCEPT
                       ![m.sender][m.denom] = addCiphertexts(@, m.ciphertext)]
    /\ event' = [type |-> "shield"]
    /\ UNCHANGED <<pubkey, pending, pendingIsZero, auditor>>

(* Fault: the range of the remainder is not checked. *)
SendRemainderUnchecked(m) ==
    LET remaining == subCiphertexts(available[m.sender][m.denom], m.senderUpdate)
    IN /\ m.sender # m.receiver
       /\ HasRegisteredKey(m.sender) /\ HasRegisteredKey(m.receiver)
       /\ auditor # NoKey
       /\ verifyEquality(pubkey[m.sender], pubkey[m.receiver], auditor,
                         m.senderUpdate, m.receiverUpdate, m.auditorUpdate)
       /\ verifyCommitmentEquality(m.remainingCommitmentProof, pubkey[m.sender],
                                   remaining, m.remainingCommitment)
       /\ verifyAggregateRange({m.transferCommitment})

(* Fault: an account may send to itself. *)
SendToSelf(m) ==
    LET remaining == subCiphertexts(available[m.sender][m.denom], m.senderUpdate)
    IN /\ HasRegisteredKey(m.sender) /\ HasRegisteredKey(m.receiver)
       /\ auditor # NoKey
       /\ verifyEquality(pubkey[m.sender], pubkey[m.receiver], auditor,
                         m.senderUpdate, m.receiverUpdate, m.auditorUpdate)
       /\ verifyCommitmentEquality(m.senderUpdate, pubkey[m.sender],
                                   m.senderUpdate, m.transferCommitment)
       /\ verifyCommitmentEquality(m.remainingCommitmentProof, pubkey[m.sender],
                                   remaining, m.remainingCommitment)
       /\ verifyAggregateRange({m.transferCommitment, m.remainingCommitment})

(* Steps 1-9 of ConfidentialSend: nothing is written before all of them     *)
(* pass.  The remainder is computed from the stored balance.                *)
SendVerified(m) ==
    LET remaining == subCiphertexts(available[m.sender][m.denom], m.senderUpdate)
    IN /\ m.sender # m.receiver
       /\ HasRegisteredKey(m.sender)
       /\ HasRegisteredKey(m.receiver)
       /\ auditor # NoKey
       /\ verifyEquality(pubkey[m.sender], pubkey[m.receiver], auditor,
                         m.senderUpdate, m.receiverUpdate, m.auditorUpdate)
       /\ verifyCommitmentEquality(m.senderUpdate, pubkey[m.sender],
                                   m.senderUpdate, m.transferCommitment)
       /\ verifyCommitmentEquality(m.remainingCommitmentProof, pubkey[m.sender],
                                   remaining, m.remainingCommitment)
       /\ verifyAggregateRange({m.transferCommitment, m.remainingCommitment})

(* Fault: the flag of an emptied balance outlives the next credit. *)
SendKeepsFlag(m) ==
    /\ m.type = "ConfidentialSend"
    /\ SendVerified(m)
    /\ available' = [available EXCEPT
                       ![m.sender][m.denom] = subCiphertexts(@, m.senderUpdate)]
    /\ pending' = [pending EXCEPT
                     ![m.receiver][m.denom] = addCiphertexts(@, m.receiverUpdate)]
    /\ event' = [type |-> "confidential_send", auditor_ciphertext |-> m.auditorUpdate]
    /\ UNCHANGED <<coins, pubkey, pendingIsZero, auditor>>

(* Fault: the receiver is credited at once, without an ApplyPending. *)
SendCreditsAvailable(m) ==
    /\ m.type = "ConfidentialSend"
    /\ SendVerified(m)
    /\ available' = [available EXCEPT
          ![m.sender][m.denom] = subCiphertexts(@, m.senderUpdate),
          ![m.receiver][m.denom] = addCiphertexts(@, m.receiverUpdate)]
    /\ event' = [type |-> "confidential_send", auditor_ciphertext |-> m.auditorUpdate]
    /\ UNCHANGED <<coins, pubkey, pending, pendingIsZero, auditor>>

ConfidentialSend(m) ==
    /\ m.type = "ConfidentialSend"
    /\ SendVerified(m)
    /\ available' = [available EXCEPT
                       ![m.sender][m.denom] = subCiphertexts(@, m.senderUpdate)]
    /\ pending' = [pending EXCEPT
                     ![m.receiver][m.denom] = addCiphertexts(@, m.receiverUpdate)]
    /\ pendingIsZero' = [pendingIsZero EXCEPT ![m.receiver][m.denom] = FALSE]
    /\ event' = [type |-> "confidential_send", auditor_ciphertext |-> m.auditorUpdate]
    /\ UNCHANGED <<coins, pubkey, auditor>>

ApplyVerified(m) ==
    /\ HasRegisteredKey(m.sender)
    /\ ~pendingIsZero[m.sender][m.denom]
    /\ pending[m.sender][m.denom] # Nil
    /\ verifyApplyPending(m.proof, pubkey[m.sender],
                          pending[m.sender][m.denom], m.newAvailableUpdate)

(* The block height the new zero is derived from is left open: any of the   *)
(* randomness it can yield.                                                 *)
ApplyPending(m) ==
    /\ m.type = "ApplyPending"
    /\ ApplyVerified(m)
    /\ available' = [available EXCEPT ![m.sender][m.denom] =
                       addCiphertexts(@, m.newAvailableUpdate)]
    /\ \E r \in ResetRandomness :
         pending' = [pending EXCEPT ![m.sender][m.denom] =
                       EncryptWithRandomness(0, pubkey[m.sender], r)]
    /\ pendingIsZero' = [pendingIsZero EXCEPT ![m.sender][m.denom] = TRUE]
    /\ event' = [type |-> "apply_pending"]
    /\ UNCHANGED <<coins, pubkey, auditor>>

(* Fault: the range of the remainder is not checked. *)
UnshieldRemainderUnchecked(m) ==
    LET pk == pubkey[m.sender]
        remaining == subCiphertexts(available[m.sender][m.denom], m.ciphertext)
    IN /\ HasRegisteredKey(m.sender)
       /\ ValidAmount(m.amount)
       /\ verifyDLEQ(pk, m.ciphertext, m.amount)
       /\ verifyCommitmentEquality(m.remainingCommitmentProof, pk, remaining,
                                   m.remainingCommitment)

(* Steps 1-11 of Unshield: the checks, all against the stored balance. *)
UnshieldVerified(m) ==
    LET pk == pubkey[m.sender]
        remaining == subCiphertexts(available[m.sender][m.denom], m.ciphertext)
    IN /\ HasRegisteredKey(m.sender)
       /\ ValidAmount(m.amount)
       /\ verifyDLEQ(pk, m.ciphertext, m.amount)
       /\ verifyCommitmentEquality(m.remainingCommitmentProof, pk, remaining,
                                   m.remainingCommitment)
       /\ verifyAggregateRange({m.remainingCommitment})

(* Step 13 may still fail: the bank refuses what the escrow does not hold,  *)
(* after the balance was written, and the SDK discards that write.          *)
Unshield(m) ==
    /\ m.type = "Unshield"
    /\ UnshieldVerified(m)
    /\ m.amount <= escrow[m.denom]
    /\ available' = [available EXCEPT
                       ![m.sender][m.denom] = subCiphertexts(@, m.ciphertext)]
    /\ escrow' = [escrow EXCEPT ![m.denom] = @ - m.amount]
    /\ bank' = [bank EXCEPT ![m.sender][m.denom] = @ + m.amount]
    /\ event' = [type |-> "unshield"]
    /\ UNCHANGED <<pubkey, pending, pendingIsZero, auditor>>

(* Overwrites the key: no previous key and no grace period is kept. *)
SetAuditorVerified(m) == m.authority = Authority /\ m.pubkey \in Keys

SetAuditorKey(m) ==
    /\ m.type = "SetAuditorKey"
    /\ SetAuditorVerified(m)
    /\ auditor' = m.pubkey
    /\ event' = [type |-> "set_auditor_key"]
    /\ UNCHANGED <<coins, pubkey, balances>>

Handle(m) ==
    \/ RegisterKey(m)
    \/ Shield(m)
    \/ ConfidentialSend(m)
    \/ ApplyPending(m)
    \/ Unshield(m)
    \/ SetAuditorKey(m)

RegisterKeyMsgs == Messages \cap RegisterKeyMsg
ShieldMsgs == Messages \cap ShieldMsg
SendMsgs == Messages \cap ConfidentialSendMsg
ApplyPendingMsgs == Messages \cap ApplyPendingMsg
UnshieldMsgs == Messages \cap UnshieldMsg
SetAuditorKeyMsgs == Messages \cap SetAuditorKeyMsg

Next ==
    \/ \E m \in RegisterKeyMsgs : RegisterKey(m)
    \/ \E m \in ShieldMsgs : Shield(m)
    \/ \E m \in SendMsgs : ConfidentialSend(m)
    \/ \E m \in ApplyPendingMsgs : ApplyPending(m)
    \/ \E m \in UnshieldMsgs : Unshield(m)
    \/ \E m \in SetAuditorKeyMsgs : SetAuditorKey(m)

Spec == Init /\ [][Next]_vars
(***************************************************************************)
(* Correctness                                                              *)
(***************************************************************************)

TypeOK ==
    /\ bank \in [Accounts -> [Denoms -> Nat]]
    /\ escrow \in [Denoms -> Nat]
    /\ pubkey \in [Accounts -> Keys \cup {Nil}]
    /\ available \in [Accounts -> [Denoms -> Ciphertext \cup {Nil}]]
    /\ pending \in [Accounts -> [Denoms -> Ciphertext \cup {Nil}]]
    /\ pendingIsZero \in [Accounts -> [Denoms -> BOOLEAN]]
    /\ auditor \in Keys \cup {NoKey}

(* The coins the module account holds are, to the unit, the sum of every    *)
(* encrypted balance: no handler lets a confidential balance grow, shrink   *)
(* or wrap without the bank moving the same amount (README, "escrow-only"). *)
EscrowBacksBalances ==
    \A d \in Denoms :
        escrow[d] = Total(PlaintextsOf(available, d)) + Total(PlaintextsOf(pending, d))

(* The bank cannot refuse a withdrawal whose proofs verify: the failing     *)
(* branch of step 13 of Unshield, after the balance was written, is dead.   *)
UnshieldNeverShort ==
    \A m \in UnshieldMsgs :
        UnshieldVerified(m) => m.amount <= escrow[m.denom]

(* Whatever others send and whatever the account did before, each of its    *)
(* stored ciphertexts decrypts under one key, whose secret its owner holds: *)
(* nothing is stranded under a replaced, foreign or mixed key.              *)
OwnerCanDecrypt ==
    \A a \in Accounts, d \in Denoms :
        \A ct \in {available[a][d], pending[a][d]} \ {Nil} :
            pubkey[a] \in Controls[a] /\ DecryptsUnder(ct, pubkey[a])

(* ApplyPending is refused as "nothing to apply" only when the pending      *)
(* ciphertext really is an encryption of zero.                              *)
PendingZeroFlagSound ==
    \A a \in Accounts, d \in Denoms :
        pendingIsZero[a][d] => pending[a][d] # Nil /\ pending[a][d].v = 0

(* What an account is owed of one denomination, spendable and incoming. *)
Owed(a, d) == Plaintext(available[a][d]) + Plaintext(pending[a][d])

(* A step that makes an account richer without a deposit leaves the         *)
(* ciphertext its spending proofs are built on untouched: "a sender cannot  *)
(* invalidate a proof you are concurrently building" (README).              *)
IncomingLeavesAvailable ==
    [][\A a \in Accounts, d \in Denoms :
         Owed(a, d)' > Owed(a, d) /\ escrow'[d] = escrow[d]
           => available'[a][d] = available[a][d]]_vars

(* Every confidential transfer is announced by an event whose auditor       *)
(* ciphertext decrypts, under the auditor key in force, to the amount the   *)
(* receiver is credited: a sender cannot hide a transfer from audit.        *)
TransfersAreAudited ==
    [][\A a \in Accounts, d \in Denoms :
         Owed(a, d)' > Owed(a, d) /\ escrow'[d] = escrow[d] =>
             /\ event'.type = "confidential_send"
             /\ DecryptsUnder(event'.auditor_ciphertext, auditor)
             /\ event'.auditor_ciphertext.v = Owed(a, d)' - Owed(a, d)]_vars

(* The honest unshield of n from the balance now stored. *)
UnshieldMessage(a, d, n) ==
    LET ct == EncryptWithRandomness(n, pubkey[a], 0)
        remaining == subCiphertexts(available[a][d], ct)
    IN [type |-> "Unshield", sender |-> a, denom |-> d, amount |-> n,
        ciphertext |-> ct, remainingCommitment |-> remaining.v,
        remainingCommitmentProof |-> remaining]

(* A spendable balance can be moved back to public coins, in one or more    *)
(* withdrawals: some unshield of some amount is accepted.                   *)
AvailableWithdrawable ==
    \A a \in Accounts, d \in Denoms :
        Plaintext(available[a][d]) > 0 =>
            \E n \in 1 .. (RangeBound - 1) :
                UnshieldVerified(UnshieldMessage(a, d, n))

(* The keeper implements the plain ledger: public coins and the plaintexts  *)
(* of the two encrypted balances move as in ConfidentialLedger.             *)
Ledger == INSTANCE ConfidentialLedger WITH
    public    <- bank,
    spendable <- [a \in Accounts |-> [d \in Denoms |-> Plaintext(available[a][d])]],
    incoming  <- [a \in Accounts |-> [d \in Denoms |-> Plaintext(pending[a][d])]],
    members   <- {a \in Accounts : HasRegisteredKey(a)}

ImplementsLedger == Ledger!Spec
=============================================================================
