------------------------------ MODULE Browser ------------------------------
(***************************************************************************)
(* The browser client on the keeper: the entry points of its WASM module    *)
(* (client/web/wasm), the state a page keeps in local storage and the memo  *)
(* it sends along with every transaction, and the recovery of that state    *)
(* from the memos on chain (client/web/src/lib/syncFromChain.ts).           *)
(*                                                                         *)
(* The page is any caller that gives the entry points what they require:    *)
(* amounts as strings and the account sequence.  Amounts are below 2^53, up *)
(* to which numbers in JavaScript are exact.  Between the moment a page     *)
(* reads the chain and the moment its wallet signs, other tabs of the same  *)
(* account may send transactions; and it may give up waiting for one that   *)
(* is executed later.  Every transaction carries a memo that its account    *)
(* can decrypt, and the searches of one recovery all see one state of the   *)
(* chain, though any of them may fail.                                      *)
(***************************************************************************)
EXTENDS Wallets

CONSTANTS
    Tabs,          \* the open pages
    Owner,         \* Owner[t]: the account the page t is open for
    minSendAmount, \* the dust floor of wasmSend
    PerPage,       \* the results of one search for transactions (20)
    MaxHeight,     \* bound on the blocks
    MaxTimeouts    \* bound on the transactions the pages give up on

VARIABLES
    page,      \* what local storage holds for each account
    shown,     \* the pending amount each tab displays
    job,       \* the transaction each tab is busy with
    height,    \* the block being executed
    events,    \* the events of executed transactions, and the balance after each
    timeouts   \* the transactions given up on so far

pageVars == <<page, shown, job, height, events, timeouts>>
sdkVars == <<wallet, awaiting, crashes, rotations>>
browserVars == <<allVars, pageVars>>

PageState == [amount : Nat, randomness : Field, known : BOOLEAN]

NoState == [amount |-> 0, randomness |-> 0, known |-> FALSE]

(* A transaction of a page, with the memo it carries, and the balance and   *)
(* the sequence number its randomness was derived from.                     *)
PageTransaction ==
    [msg : Message, seq : Nat, amount : Field, r : Field, memo : PageState,
     sawAvailable : Ciphertext \cup {Nil}, sawSequence : Nat, signed : BOOLEAN]

(* A page is open for one account, one search returns something, and a tab  *)
(* with nothing to do is not one with a transaction.                        *)
ASSUME BrowserAssumption ==
    /\ Owner \in [Tabs -> Accounts]
    /\ PerPage \in Nat \ {0}
    /\ Nil \notin PageTransaction

(***************************************************************************)
(* Entry points (client/web/wasm/main.go)                                   *)
(***************************************************************************)

(* Fault: the amount is left out of the context. *)
encodeAnyAmount(op, seq, amount, receiver) == <<op, seq, 0, receiver>>

encode(op, seq, amount, receiver) == <<op, seq, amount, receiver>>

deriveRandomness(a, op, amount, receiver) ==
    HKDF(pubkey[a], available[a][denom], encode(op, sequence[a], amount, receiver))

wasmShield(a, amount) ==
    LET r == deriveRandomness(a, "shield", amount, Nil)
    IN [ciphertext |-> EncryptWithRandomness(amount, pubkey[a], r), randomness |-> r]

wasmSpendable(state, amount) == state.amount >= amount

(* The opening of the remainder, and the proof about it. *)
ProveRemaining(a, state, ct, amount, r) ==
    LET remaining == subCiphertexts(available[a][denom], ct)
        newRandomness == FieldSub(state.randomness, r)
    IN [randomness |-> newRandomness,
        commitment |-> state.amount - amount,
        proof |-> ProveCommitment(state.amount - amount, newRandomness, pubkey[a], remaining)]

wasmSend(a, state, b, amount) ==
    LET r == deriveRandomness(a, "send/sender", amount, b)
        rReceiver == deriveRandomness(a, "send/receiver", amount, b)
        rAuditor == deriveRandomness(a, "send/auditor", amount, b)
        ct == EncryptWithRandomness(amount, pubkey[a], r)
    IN [senderCt |-> ct,
        receiverCt |-> EncryptWithRandomness(amount, pubkey[b], rReceiver),
        auditorCt |-> EncryptWithRandomness(amount, auditor, rAuditor),
        randomness |-> r,
        remaining |-> ProveRemaining(a, state, ct, amount, r)]

wasmApplyPending(a, pendingAmount) ==
    LET r == deriveRandomness(a, "apply_pending", pendingAmount, Nil)
    IN [newAvailable |-> EncryptWithRandomness(pendingAmount, pubkey[a], r),
        randomness |-> r]

wasmUnshield(a, state, amount) ==
    LET r == deriveRandomness(a, "unshield", amount, Nil)
        ct == EncryptWithRandomness(amount, pubkey[a], r)
    IN [ciphertext |-> ct, randomness |-> r,
        remaining |-> ProveRemaining(a, state, ct, amount, r)]

(* The table of baby steps ends far below the integers a JS number rounds.  *)
wasmDecryptBalance(ct) == ct.v

wasmEncryptMemo(randomness, amount) ==
    [amount |-> amount, randomness |-> randomness, known |-> TRUE]

(* The amount comes back as a JS number. *)
wasmDecryptMemo(memo) == [amount |-> memo.amount, randomness |-> memo.randomness]

(***************************************************************************)
(* The panels (client/web/src/components)                                   *)
(***************************************************************************)

(* The transaction a panel holds until it is signed and committed. *)
PageTx(m, amount, r, memo) ==
    [msg |-> m, seq |-> sequence[m.sender], amount |-> amount, r |-> r, memo |-> memo,
     sawAvailable |-> available[m.sender][denom], sawSequence |-> sequence[m.sender],
     signed |-> FALSE]

(* What the memo says, and what is stored once the transaction is           *)
(* committed, is computed from the local state before signing.              *)
Prepare(tab, m, amount, r, memo) ==
    LET a == Owner[tab]
    IN /\ job[tab] = Nil
       /\ Cardinality(Of(a)) < MaxBroadcasts[a]
       /\ job' = [job EXCEPT ![tab] = PageTx(m, amount, r, memo)]
       /\ UNCHANGED <<allVars, page, shown, height, events, timeouts>>

(* Fault: the randomness of the receipt replaces that of the balance. *)
MemoAfterReceiptAnew(state, amount, r) == wasmEncryptMemo(r, state.amount + amount)

MemoAfterReceipt(state, amount, r) ==
    wasmEncryptMemo(FieldAdd(state.randomness, r), state.amount + amount)

(* Fault: the randomness of the spend is not taken off. *)
MemoAfterSpendOldRandomness(state, amount, remaining) ==
    wasmEncryptMemo(state.randomness, state.amount - amount)

MemoAfterSpend(state, amount, remaining) ==
    wasmEncryptMemo(remaining.randomness, state.amount - amount)

PageShield(tab, n) ==
    LET a == Owner[tab]
        result == wasmShield(a, n)
    IN Prepare(tab,
         [type |-> "Shield", sender |-> a, denom |-> denom, amount |-> n,
          ciphertext |-> result.ciphertext],
         n, result.randomness, MemoAfterReceipt(page[a], n, result.randomness))

(* A local state is there, and its amount is the one on chain: the          *)
(* randomness is not compared.                                              *)
InSync(a) ==
    /\ page[a].known
    /\ available[a][denom] # Nil =>
         wasmDecryptBalance(available[a][denom]) = page[a].amount

PageSend(tab, b, n) ==
    LET a == Owner[tab]
        result == wasmSend(a, page[a], b, n)
    IN /\ a # b /\ auditor # NoKey
       /\ InSync(a)
       /\ n >= minSendAmount /\ wasmSpendable(page[a], n)
       /\ ProveRange({n, page[a].amount - n})
       /\ Prepare(tab,
            [type |-> "ConfidentialSend", sender |-> a, receiver |-> b, denom |-> denom,
             senderUpdate |-> result.senderCt, receiverUpdate |-> result.receiverCt,
             auditorUpdate |-> result.auditorCt, transferCommitment |-> n,
             remainingCommitment |-> result.remaining.commitment,
             remainingCommitmentProof |-> result.remaining.proof],
            n, result.randomness, MemoAfterSpend(page[a], n, result.remaining))

PageUnshield(tab, n) ==
    LET a == Owner[tab]
        result == wasmUnshield(a, page[a], n)
    IN /\ InSync(a)
       /\ wasmSpendable(page[a], n)
       /\ ProveRange({page[a].amount - n})
       /\ Prepare(tab,
            [type |-> "Unshield", sender |-> a, denom |-> denom, amount |-> n,
             ciphertext |-> result.ciphertext,
             remainingCommitment |-> result.remaining.commitment,
             remainingCommitmentProof |-> result.remaining.proof],
            n, result.randomness, MemoAfterSpend(page[a], n, result.remaining))

(* The dashboard reads the balances when it is opened, when it is loaded    *)
(* again, and after each transaction, and shows them until the next time.   *)
Refresh(tab) ==
    LET a == Owner[tab]
    IN /\ shown' = [shown EXCEPT
                      ![tab] = wasmDecryptBalance(unmarshalOrZero(pending[a][denom]))]
       /\ UNCHANGED <<allVars, page, job, height, events, timeouts>>

(* The amount is the one on display; the ciphertext is read anew.           *)
PageApplyPending(tab) ==
    LET a == Owner[tab]
        ct == pending[a][denom]
        n == shown[tab]
        result == wasmApplyPending(a, n)
    IN /\ ct # Nil /\ n > 0
       /\ Prepare(tab,
            [type |-> "ApplyPending", sender |-> a, denom |-> denom,
             newAvailableUpdate |-> result.newAvailable, proof |-> ct],
            n, result.randomness, MemoAfterReceipt(page[a], n, result.randomness))

(* The signer asks for the account sequence anew. *)
Sign(tab) ==
    LET tx == [job[tab] EXCEPT !.seq = sequence[Owner[tab]], !.signed = TRUE]
    IN /\ job[tab] # Nil /\ ~job[tab].signed
       /\ tx \notin broadcast
       /\ job' = [job EXCEPT ![tab] = tx]
       /\ broadcast' = broadcast \cup {tx}
       /\ UNCHANGED <<vars, sdkVars, landed, sequence, page, shown, height, events, timeouts>>

(* broadcastMsg returns once the block of the transaction is committed; the *)
(* state computed before signing then replaces the one stored.              *)
Save(tab) ==
    LET a == Owner[tab]
    IN /\ job[tab] \in landed
       /\ \E e \in events : e.tx = job[tab] /\ e.height < height
       /\ page' = [page EXCEPT ![a] = job[tab].memo]
       /\ job' = [job EXCEPT ![tab] = Nil]
       /\ UNCHANGED <<allVars, shown, height, events, timeouts>>

(* A transaction that failed, or was never executed, changes nothing.       *)
Fail(tab) ==
    /\ job[tab] # Nil /\ job[tab].signed
    /\ Expired(job[tab])
    /\ job' = [job EXCEPT ![tab] = Nil]
    /\ UNCHANGED <<allVars, page, shown, height, events, timeouts>>

(* broadcastMsg stops waiting; the transaction may still be executed.       *)
GiveUp(tab) ==
    /\ timeouts < MaxTimeouts
    /\ job[tab] # Nil /\ job[tab].signed
    /\ timeouts' = timeouts + 1
    /\ job' = [job EXCEPT ![tab] = Nil]
    /\ UNCHANGED <<allVars, page, shown, height, events>>

(***************************************************************************)
(* The chain                                                                *)
(***************************************************************************)

ExecuteInBlock(tx) ==
    /\ Execute(tx)
    /\ events' = events \cup
         {[tx |-> tx, height |-> height, index |-> Cardinality(events),
           after |-> available'[tx.msg.sender][denom]]}
    /\ UNCHANGED <<page, shown, job, height, timeouts>>

RejectInBlock(tx) ==
    /\ Reject(tx)
    /\ UNCHANGED pageVars

EndBlock ==
    /\ height < MaxHeight
    /\ \E e \in events : e.height = height
    /\ height' = height + 1
    /\ UNCHANGED <<allVars, page, shown, job, events, timeouts>>

BrowserInit ==
    /\ WalletInit
    /\ page = [a \in Accounts |-> NoState]
    /\ shown = [t \in Tabs |-> 0]
    /\ job = [t \in Tabs |-> Nil]
    /\ height = 1
    /\ events = {}
    /\ timeouts = 0

BrowserNext ==
    \/ \E t \in Tabs :
         \/ \E n \in SendAmounts :
              \/ PageShield(t, n)
              \/ \E b \in Accounts : PageSend(t, b, n)
              \/ PageUnshield(t, n)
         \/ Refresh(t)
         \/ PageApplyPending(t)
         \/ Sign(t)
         \/ Save(t)
         \/ Fail(t)
         \/ GiveUp(t)
    \/ \E tx \in broadcast : ExecuteInBlock(tx) \/ RejectInBlock(tx)
    \/ EndBlock

BrowserSpec == BrowserInit /\ [][BrowserNext]_browserVars

(***************************************************************************)
(* Recovery (client/web/src/lib/syncFromChain.ts)                           *)
(***************************************************************************)

EVENT_TYPES == <<"Shield", "Unshield", "ConfidentialSend", "ApplyPending">>

Newer(e, f) == e.index > f.index

(* Newest first, the first page only. *)
txSearch(a, type) ==
    LET all == {e \in events : e.tx.msg.sender = a /\ e.tx.msg.type = type}
    IN {e \in all : Cardinality({f \in all : Newer(f, e)}) < PerPage}

(* The types are searched one after the other; a search that fails is       *)
(* passed over.                                                             *)
Searched(failed) == DOMAIN EVENT_TYPES \ failed

(* Fault: once a memo is kept, later types are not looked at for heights.   *)
heightsUntil(a, i, failed) ==
    {e.height : e \in UNION {txSearch(a, EVENT_TYPES[j]) : j \in Searched(failed) \cap 1 .. i}}

(* The heights seen, whichever type a memo was found under. *)
heightsSeen(a, i, failed) ==
    {e.height : e \in UNION {txSearch(a, EVENT_TYPES[j]) : j \in Searched(failed)}}

(* The newest memo of the first type that has one. *)
syncFromChain(a, failed) ==
    LET found == {i \in Searched(failed) : txSearch(a, EVENT_TYPES[i]) # {}}
        first == CHOOSE i \in found : \A j \in found : i <= j
        results == txSearch(a, EVENT_TYPES[first])
        latest == CHOOSE e \in results : \A f \in results : ~Newer(f, e)
        state == wasmDecryptMemo(latest.tx.memo)
    IN IF found = {} THEN Nil
       ELSE [amount |-> state.amount, randomness |-> state.randomness,
             height |-> latest.height,
             stale |-> \E h \in heightsSeen(a, first, failed) : h > latest.height]

(***************************************************************************)
(* Correctness                                                              *)
(***************************************************************************)

Opens(state, a, ct) ==
    unmarshalOrZero(ct) = EncryptWithRandomness(state.amount, pubkey[a], state.randomness)

(* The search that would have found the last transaction did not fail. *)
LastSearched(a, failed) ==
    \A e \in events :
        e.tx.msg.sender = a /\ (\A f \in events : f.tx.msg.sender = a => ~Newer(f, e)) =>
            \E i \in Searched(failed) : EVENT_TYPES[i] = e.tx.msg.type

(* What recovery returns as not stale opens the balance on chain, for an    *)
(* account with one page, whichever other searches failed.  When the one    *)
(* for the last transaction did, its height is not seen, and an older memo  *)
(* of another type may be returned as not stale (comment in                 *)
(* recoverState.ts: "encrypted memos carry the exact randomness, so         *)
(* recovery reads it rather than guessing it").                             *)
RecoveredStateOpensBalance ==
    \A a \in Accounts, failed \in SUBSET DOMAIN EVENT_TYPES :
        LET recovered == syncFromChain(a, failed)
        IN recovered # Nil /\ ~recovered.stale /\ LastSearched(a, failed) =>
             Opens(recovered, a, available[a][denom])

(* A spend is executed only if it was built from the true opening, so its   *)
(* memo is exact whatever other tabs did and whatever the page missed: one  *)
(* executed spend repairs the trail of memos.                               *)
SpendMemosExact ==
    \A e \in events :
        e.tx.msg.type \in {"ConfidentialSend", "Unshield"} =>
            Opens(e.tx.memo, e.tx.msg.sender, e.after)

(* A page that is not waiting for anything and has missed nothing can spend *)
(* what the chain holds for it.                                             *)
IdlePageOpensBalance ==
    \A t \in Tabs :
        job[t] = Nil /\ page[Owner[t]].known =>
            Opens(page[Owner[t]], Owner[t], available[Owner[t]][denom])

(* syncFromChain.ts: "Only keep the latest memo per denom". *)
LatestMemoKept ==
    \A a \in Accounts :
        LET recovered == syncFromChain(a, {})
        IN recovered # Nil =>
             \A e \in events : e.tx.msg.sender = a => e.height <= recovered.height
=============================================================================
