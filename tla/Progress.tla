------------------------------ MODULE Progress ------------------------------
(***************************************************************************)
(* What must eventually happen in Wallets.  Some accounts only receive:     *)
(* their application applies whatever is pending, one transaction at a      *)
(* time, and tries again when it was refused.  The others deposit, send and *)
(* withdraw as they like, and may stop at any time; governance may rotate   *)
(* the auditor key under them.                                              *)
(*                                                                         *)
(* A transfer to a receiver changes the pending ciphertext that an          *)
(* application in flight was proved for, and so invalidates it: a receiver  *)
(* makes progress only because the senders' transactions are finitely many  *)
(* (MaxBroadcasts).                                                         *)
(***************************************************************************)
EXTENDS Wallets

CONSTANT Receivers

(* The receiver queries, sees something to apply, and is not waiting. *)
Reapply(a) ==
    /\ awaiting[a] = {}
    /\ ~pendingIsZero[a][denom]
    /\ BuildApplyPending(a)

Deliver(a) == \E tx \in Of(a) : Execute(tx) \/ Reject(tx)

Learn(a) == \E tx \in awaiting[a] : Confirm(tx) \/ Abandon(tx)

Spend(a) ==
    \E n \in SendAmounts :
        \/ BuildShield(a, n)
        \/ \E b \in Receivers : BuildSend(a, b, n)
        \/ BuildUnshield(a, n)

ProgressNext ==
    \/ \E a \in Receivers : Reapply(a)
    \/ \E a \in Accounts \ Receivers : Spend(a)
    \/ \E a \in Accounts : Deliver(a) \/ Learn(a)
    \/ \E pk \in AuditorKeys : Rotate(pk)

(* Blocks are produced and pick up what is executable; a wallet looks up    *)
(* its transactions until each has a result; a receiver's application       *)
(* applies what it sees.  Nobody is obliged to send or to rotate.           *)
Fairness ==
    /\ \A a \in Accounts : WF_allVars(Deliver(a)) /\ WF_allVars(Learn(a))
    /\ \A a \in Receivers : WF_allVars(Reapply(a))

ProgressSpec == WalletInit /\ [][ProgressNext]_allVars /\ Fairness

(***************************************************************************)
(* Correctness                                                              *)
(***************************************************************************)

(* Whatever is credited to a receiver reaches its spendable balance,        *)
(* although transfers that arrive in between invalidate its attempts and    *)
(* although the flag of an earlier application may still be set: pending    *)
(* funds are never stuck (msg_apply_pending.go, steps 4 and 7; the flag     *)
(* cleared by msg_send.go).                                                 *)
PendingFundsApplied ==
    \A a \in Receivers :
        unmarshalOrZero(pending[a][denom]).v > 0
            ~> unmarshalOrZero(pending[a][denom]).v = 0
=============================================================================
