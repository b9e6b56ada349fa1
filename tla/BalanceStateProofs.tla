-------------------------- MODULE BalanceStateProofs --------------------------
(***************************************************************************)
(* The local state of a wallet (client/sdk/state.go) against the balance on *)
(* chain: results reach a wallet late and in any order, and still its state *)
(* plus what it has yet to hear of is the opening of its balance.           *)
(***************************************************************************)
EXTENDS WalletsProofs

(***************************************************************************)
(* Applying results in any order                                            *)
(***************************************************************************)

(* Replay(O, w, P): P[S] is w after the transactions of S, for every part S *)
(* of O and in whatever order they are applied.                             *)
Replay(O, w, P) ==
    /\ P \in [SUBSET O -> LocalState]
    /\ P[{}] = w
    /\ \A S \in SUBSET O, t \in O : t \notin S => P[S \cup {t}] = After(P[S], t)

(* The replay with one more transaction executed, and with one heard of. *)
Lands(O, P, tx) ==
    [S \in SUBSET (O \cup {tx}) |-> IF tx \in S THEN After(P[S \ {tx}], tx) ELSE P[S]]

Hears(O, P, tx) == [S \in SUBSET (O \ {tx}) |-> P[S \cup {tx}]]

(* Additions and subtractions of scalars commute. *)
LEMMA FieldCommutes ==
    ASSUME NEW x \in Field, NEW y \in Field, NEW z \in Field
    PROVE  /\ FieldAdd(FieldAdd(x, y), z) = FieldAdd(FieldAdd(x, z), y)
           /\ FieldSub(FieldSub(x, y), z) = FieldSub(FieldSub(x, z), y)
           /\ FieldSub(FieldAdd(x, y), z) = FieldAdd(FieldSub(x, z), y)
<1>1. FieldAdd(FieldAdd(x, y), z) = FieldAdd(FieldAdd(x, z), y)
  BY FieldAssumption DEF Field, FieldAdd
<1>2. FieldSub(FieldSub(x, y), z) = FieldSub(FieldSub(x, z), y)
  BY FieldAssumption DEF Field, FieldSub
<1>3. FieldSub(FieldAdd(x, y), z) = FieldAdd(FieldSub(x, z), y)
  BY FieldAssumption DEF Field, FieldAdd, FieldSub
<1> QED
  BY <1>1, <1>2, <1>3

(* What one transaction does to each part of a local state. *)
LEMMA AfterParts ==
    ASSUME NEW tx, NEW s \in LocalState, Built(tx)
    PROVE  /\ After(s, tx) \in LocalState
           /\ After(s, tx).Value = MovedValue(tx, s.Value)
           /\ After(s, tx).Randomness =
                IF IsSpend(tx) THEN FieldSub(s.Randomness, tx.r) ELSE FieldAdd(s.Randomness, tx.r)
           /\ After(s, tx).RandomnessKnown <=> (s.RandomnessKnown \/ ~IsSpend(tx))
           /\ s.Value \in Int /\ s.Randomness \in Field /\ s.RandomnessKnown \in BOOLEAN
<1>1. s.Value \in Int /\ s.Randomness \in Field /\ s.RandomnessKnown \in BOOLEAN
  BY DEF LocalState
<1>2. After(s, tx) \in LocalState
  BY AfterEffect
<1>3. After(s, tx) =
        [Value |-> MovedValue(tx, s.Value),
         Randomness |-> IF IsSpend(tx) THEN FieldSub(s.Randomness, tx.r)
                                       ELSE FieldAdd(s.Randomness, tx.r),
         RandomnessKnown |-> IF IsSpend(tx) THEN s.RandomnessKnown ELSE TRUE]
  BY AfterEffect
<1>4. /\ After(s, tx).Value = MovedValue(tx, s.Value)
      /\ After(s, tx).Randomness =
           IF IsSpend(tx) THEN FieldSub(s.Randomness, tx.r) ELSE FieldAdd(s.Randomness, tx.r)
  BY <1>3
<1>5. After(s, tx).RandomnessKnown <=> (s.RandomnessKnown \/ ~IsSpend(tx))
  <2>1. CASE IsSpend(tx)
    <3>1. After(s, tx).RandomnessKnown = s.RandomnessKnown
      BY <1>3, <2>1
    <3> QED
      BY <2>1, <3>1
  <2>2. CASE ~IsSpend(tx)
    <3>1. After(s, tx).RandomnessKnown = TRUE
      BY <1>3, <2>2
    <3> QED
      BY <2>2, <3>1
  <2> QED
    BY <2>1, <2>2
<1> QED
  BY <1>1, <1>2, <1>4, <1>5

(* Local states with the same parts are the same. *)
LEMMA SameState ==
    ASSUME NEW s \in LocalState, NEW t \in LocalState, s.Value = t.Value,
           s.Randomness = t.Randomness, s.RandomnessKnown <=> t.RandomnessKnown
    PROVE  s = t
<1>1. s.RandomnessKnown \in BOOLEAN /\ t.RandomnessKnown \in BOOLEAN
  BY DEF LocalState
<1>2. s.RandomnessKnown = t.RandomnessKnown
  BY <1>1
<1> QED
  BY <1>2 DEF LocalState

(* Two results may be applied in either order. *)
LEMMA AfterCommutes ==
    ASSUME NEW t, NEW u, Built(t), Built(u), NEW s \in LocalState
    PROVE  After(After(s, t), u) = After(After(s, u), t)
<1> DEFINE x == After(After(s, t), u)
           y == After(After(s, u), t)
<1>1. /\ t.amount \in Int /\ t.r \in Field /\ u.amount \in Int /\ u.r \in Field
      /\ s.Value \in Int /\ s.Randomness \in Field /\ s.RandomnessKnown \in BOOLEAN
  BY AfterParts, FieldAssumption DEF Built, Field
<1>2. /\ After(s, t) \in LocalState /\ After(s, u) \in LocalState
      /\ x \in LocalState /\ y \in LocalState
  BY AfterParts
<1>3. x.Value = y.Value
  <2>1. /\ x.Value = MovedValue(u, MovedValue(t, s.Value))
        /\ y.Value = MovedValue(t, MovedValue(u, s.Value))
    BY <1>2, AfterParts
  <2> QED
    BY <1>1, <2>1 DEF MovedValue
<1>4. x.Randomness = y.Randomness
  <2> DEFINE move(tx, q) == IF IsSpend(tx) THEN FieldSub(q, tx.r) ELSE FieldAdd(q, tx.r)
  <2>1. /\ x.Randomness = move(u, move(t, s.Randomness))
        /\ y.Randomness = move(t, move(u, s.Randomness))
    BY <1>2, AfterParts
  <2>2. CASE IsSpend(t) /\ IsSpend(u)
    BY <1>1, <2>1, <2>2, FieldCommutes
  <2>3. CASE IsSpend(t) /\ ~IsSpend(u)
    BY <1>1, <2>1, <2>3, FieldCommutes
  <2>4. CASE ~IsSpend(t) /\ IsSpend(u)
    BY <1>1, <2>1, <2>4, FieldCommutes
  <2>5. CASE ~IsSpend(t) /\ ~IsSpend(u)
    BY <1>1, <2>1, <2>5, FieldCommutes
  <2> QED
    BY <2>2, <2>3, <2>4, <2>5
<1>5. x.RandomnessKnown <=> y.RandomnessKnown
  <2>1. /\ x.RandomnessKnown <=> (After(s, t).RandomnessKnown \/ ~IsSpend(u))
        /\ y.RandomnessKnown <=> (After(s, u).RandomnessKnown \/ ~IsSpend(t))
    BY <1>2, AfterParts
  <2>2. /\ After(s, t).RandomnessKnown <=> (s.RandomnessKnown \/ ~IsSpend(t))
        /\ After(s, u).RandomnessKnown <=> (s.RandomnessKnown \/ ~IsSpend(u))
    BY AfterParts
  <2> QED
    BY <2>1, <2>2
<1> QED
  BY <1>2, <1>3, <1>4, <1>5, SameState

(* A transaction is executed: it is one more to replay, last in the balance *)
(* on chain and anywhere in what the wallet hears.                          *)
LEMMA ReplayLands ==
    ASSUME NEW O, NEW w, NEW P, Replay(O, w, P), NEW tx, tx \notin O,
           \A t \in O \cup {tx} : Built(t)
    PROVE  /\ Replay(O \cup {tx}, w, Lands(O, P, tx))
           /\ Lands(O, P, tx)[O \cup {tx}] = After(P[O], tx)
<1> DEFINE Q == Lands(O, P, tx)
           all == O \cup {tx}
<1>1. \A S \in SUBSET all :
        Q[S] = IF tx \in S THEN After(P[S \ {tx}], tx) ELSE P[S]
  BY DEF Lands
<1>2. \A S \in SUBSET O : P[S] \in LocalState /\ After(P[S], tx) \in LocalState
  BY AfterParts DEF Replay
<1>3. \A S \in SUBSET all : S \ {tx} \in SUBSET O /\ (tx \notin S => S \in SUBSET O)
  OBVIOUS
<1>4. ASSUME NEW S \in SUBSET all
      PROVE  (IF tx \in S THEN After(P[S \ {tx}], tx) ELSE P[S]) \in LocalState
  <2>1. CASE tx \in S
    BY <1>2, <1>3, <2>1
  <2>2. CASE tx \notin S
    BY <1>2, <1>3, <2>2
  <2> QED
    BY <2>1, <2>2
<1>5. Q \in [SUBSET all -> LocalState]
  BY <1>4 DEF Lands
<1>6. Q[{}] = w
  BY <1>1 DEF Replay
<1> HIDE DEF Q
<1>7. ASSUME NEW S \in SUBSET all, NEW t \in all, t \notin S
      PROVE  Q[S \cup {t}] = After(Q[S], t)
  <2>1. CASE t = tx
    <3>1. S \in SUBSET O /\ (S \cup {t}) \ {tx} = S /\ tx \notin S
      BY <1>7, <2>1
    <3> QED
      BY <1>1, <2>1, <3>1
  <2>2. CASE t # tx /\ tx \in S
    <3> DEFINE R == S \ {tx}
    <3>1. /\ R \in SUBSET O /\ t \in O /\ t \notin R
          /\ (S \cup {t}) \ {tx} = R \cup {t}
          /\ S \cup {t} \in SUBSET all /\ tx \in S \cup {t}
      BY <1>7, <2>2
    <3> HIDE DEF R
    <3>2. P[R \cup {t}] = After(P[R], t)
      BY <3>1 DEF Replay
    <3>3. Q[S \cup {t}] = After(After(P[R], t), tx)
      BY <1>1, <3>1, <3>2
    <3>4. Q[S] = After(P[R], tx)
      BY <1>1, <2>2 DEF R
    <3>5. After(After(P[R], t), tx) = After(After(P[R], tx), t)
      BY <1>2, <3>1, AfterCommutes
    <3> QED
      BY <3>3, <3>4, <3>5
  <2>3. CASE t # tx /\ tx \notin S
    <3>1. S \in SUBSET O /\ t \in O /\ tx \notin S \cup {t} /\ S \cup {t} \in SUBSET all
      BY <1>7, <2>3
    <3>2. P[S \cup {t}] = After(P[S], t)
      BY <1>7, <3>1 DEF Replay
    <3> QED
      BY <1>1, <2>3, <3>1, <3>2
  <2> QED
    BY <2>1, <2>2, <2>3
<1>8. Q[all] = After(P[O], tx)
  <2>1. all \ {tx} = O /\ tx \in all /\ all \in SUBSET all
    OBVIOUS
  <2> QED
    BY <1>1, <2>1
<1> QED
  BY <1>5, <1>6, <1>7, <1>8 DEF Replay, Q

(* A wallet hears of one of its transactions, first executed or not. *)
LEMMA ReplayHears ==
    ASSUME NEW O, NEW w, NEW P, Replay(O, w, P), NEW tx \in O
    PROVE  /\ Replay(O \ {tx}, After(w, tx), Hears(O, P, tx))
           /\ Hears(O, P, tx)[O \ {tx}] = P[O]
<1> DEFINE Q == Hears(O, P, tx)
           left == O \ {tx}
<1>1. \A S \in SUBSET left : Q[S] = P[S \cup {tx}] /\ S \cup {tx} \in SUBSET O
  BY DEF Hears
<1>2. Q \in [SUBSET left -> LocalState]
  <2>1. \A S \in SUBSET left : P[S \cup {tx}] \in LocalState
    BY <1>1 DEF Replay
  <2> QED
    BY <2>1 DEF Hears
<1>3. Q[{}] = After(w, tx)
  <2>1. {} \in SUBSET left /\ {} \in SUBSET O /\ tx \notin {}
    OBVIOUS
  <2>2. P[{} \cup {tx}] = After(P[{}], tx)
    BY <2>1 DEF Replay
  <2> QED
    BY <1>1, <2>1, <2>2 DEF Replay
<1> HIDE DEF Q
<1>4. ASSUME NEW S \in SUBSET left, NEW t \in left, t \notin S
      PROVE  Q[S \cup {t}] = After(Q[S], t)
  <2> DEFINE R == S \cup {tx}
  <2>1. R \in SUBSET O /\ t \in O /\ t \notin R /\ (S \cup {t}) \cup {tx} = R \cup {t}
        /\ S \cup {t} \in SUBSET left
    BY <1>4
  <2> HIDE DEF R
  <2>2. P[R \cup {t}] = After(P[R], t)
    BY <2>1 DEF Replay
  <2> QED
    BY <1>1, <2>1, <2>2 DEF R
<1>5. Q[left] = P[O]
  <2>1. left \cup {tx} = O /\ left \in SUBSET left
    OBVIOUS
  <2> QED
    BY <1>1, <2>1
<1> QED
  BY <1>2, <1>3, <1>4, <1>5 DEF Replay, Q

(***************************************************************************)
(* What a step is to one account                                            *)
(***************************************************************************)

(* What may still be executed: of what the wallet waits for, and of what it *)
(* lost track of.                                                           *)
Live(a) == {tx \in awaiting[a] : tx.seq = sequence[a]}

Forgotten(a) == {tx \in Of(a) : tx.seq = sequence[a] /\ tx \notin awaiting[a]}

(* Neither the account nor its wallet does anything that matters to it. *)
Rests(a) ==
    /\ Outstanding(a)' = Outstanding(a)
    /\ wallet'[a] = wallet[a] /\ available'[a][denom] = available[a][denom]
    /\ Live(a)' \subseteq Live(a) /\ Forgotten(a)' \subseteq Forgotten(a)

(* A transaction of the account is broadcast. *)
Builds(a, tx) ==
    /\ Fresh(tx) /\ tx.msg.sender = a
    /\ Outstanding(a)' = Outstanding(a)
    /\ wallet'[a] = wallet[a] /\ available'[a][denom] = available[a][denom]
    /\ Live(a)' \subseteq Live(a) \cup {tx} /\ Forgotten(a)' \subseteq Forgotten(a)

(* One is executed: no other one of the same sequence number can be. *)
Executes(a, tx) ==
    /\ Settles(tx) /\ tx.msg.sender = a /\ Built(tx)
    /\ tx \in Live(a) \cup Forgotten(a)
    /\ \A t \in Outstanding(a) : t.seq < tx.seq
    /\ Outstanding(a)' = IF tx \in awaiting[a] THEN Outstanding(a) \cup {tx}
                                               ELSE Outstanding(a)
    /\ wallet'[a] = wallet[a]
    /\ Live(a)' = {} /\ Forgotten(a)' = {}

(* The wallet hears of one. *)
HearsOf(a, tx) ==
    /\ tx \in Outstanding(a)
    /\ Outstanding(a)' = Outstanding(a) \ {tx}
    /\ wallet'[a] = After(wallet[a], tx)
    /\ available'[a][denom] = available[a][denom]
    /\ Live(a)' \subseteq Live(a) /\ Forgotten(a)' \subseteq Forgotten(a)

(* The wallet loses its state, and recovers what it can from the chain. *)
Recovers(a) ==
    /\ crashes' = crashes + 1
    /\ Outstanding(a)' = {} /\ Live(a)' = {}
    /\ wallet'[a] = RecoverStateSimple(available[a][denom])

AccountStep(a) ==
    \/ Rests(a)
    \/ \E tx : Builds(a, tx) \/ Executes(a, tx) \/ HearsOf(a, tx)
    \/ Recovers(a)

(* Crashes are counted. *)
CrashesCounted == crashes' = crashes \/ crashes' = crashes + 1

(* The sequence numbers of an account: none above the next one, and those   *)
(* of executed transactions below it.                                       *)
LEMMA SequenceNumbers ==
    ASSUME TransactionsInv, NEW a \in Accounts
    PROVE  /\ sequence[a] \in Nat /\ crashes \in Nat
           /\ \A t \in Of(a) : t \in broadcast /\ t.seq \in Nat /\ t.seq <= sequence[a]
                               /\ Built(t)
           /\ \A t \in awaiting[a] : t \in Of(a)
           /\ \A t \in Outstanding(a) : t \in Of(a) /\ t \in landed /\ t.seq < sequence[a]
           /\ landed \subseteq broadcast
<1>1. /\ sequence[a] \in Nat /\ crashes \in Nat /\ awaiting[a] \subseteq Of(a)
      /\ landed \subseteq broadcast
  BY DEF TransactionsInv, WalletTypes
<1>2. \A t \in Of(a) : t \in broadcast /\ t.seq \in Nat /\ t.seq <= sequence[a] /\ Built(t)
  BY DEF TransactionsInv, SequenceGuardsBalance, Of, Built
<1>3. \A t \in Outstanding(a) : t \in Of(a) /\ t \in landed /\ t.seq < sequence[a]
  BY <1>1 DEF TransactionsInv, SequenceGuardsBalance, Of, Outstanding
<1> QED
  BY <1>1, <1>2, <1>3

(* Broadcasting. *)
LEMMA BroadcastView ==
    ASSUME TransactionsInv, NEW a \in Accounts, NEW tx, Broadcast(tx), Fresh(tx)
    PROVE  AccountStep(a) /\ CrashesCounted
<1> DEFINE b == tx.msg.sender
<1>1. /\ broadcast' = broadcast \cup {tx}
      /\ awaiting' = [awaiting EXCEPT ![b] = @ \cup {tx}]
      /\ UNCHANGED <<wallet, landed, sequence, crashes>>
      /\ available' = available
      /\ tx \notin broadcast
  BY DEF Broadcast, vars, balances
<1>2. b \in Accounts /\ awaiting \in [Accounts -> SUBSET broadcast]
  BY DEF Fresh, Built, TransactionsInv, WalletTypes
<1>3. landed \subseteq broadcast
  BY SequenceNumbers
<1>4. CASE a = b
  <2>1. awaiting'[a] = awaiting[a] \cup {tx}
    BY <1>1, <1>2, <1>4
  <2>2. Outstanding(a)' = Outstanding(a)
    BY <1>1, <1>3, <2>1 DEF Outstanding
  <2>3. Live(a)' \subseteq Live(a) \cup {tx} /\ Forgotten(a)' \subseteq Forgotten(a)
    BY <1>1, <2>1 DEF Live, Forgotten, Of
  <2>4. Builds(a, tx)
    BY <1>1, <1>4, <2>2, <2>3 DEF Builds
  <2> QED
    BY <1>1, <2>4 DEF AccountStep, CrashesCounted
<1>5. CASE a # b
  <2>1. awaiting'[a] = awaiting[a]
    BY <1>1, <1>2, <1>5
  <2>2. Outstanding(a)' = Outstanding(a)
    BY <1>1, <2>1 DEF Outstanding
  <2>3. Live(a)' = Live(a) /\ Forgotten(a)' = Forgotten(a)
    BY <1>1, <1>5, <2>1 DEF Live, Forgotten, Of
  <2>4. Rests(a)
    BY <1>1, <2>2, <2>3 DEF Rests
  <2> QED
    BY <1>1, <2>4 DEF AccountStep, CrashesCounted
<1> QED
  BY <1>4, <1>5

(* Executing. *)
LEMMA ExecuteView ==
    ASSUME TransactionsInv, NEW a \in Accounts, NEW tx \in broadcast, Execute(tx)
    PROVE  AccountStep(a) /\ CrashesCounted
<1> DEFINE b == tx.msg.sender
<1>1. /\ tx.seq = sequence[b]
      /\ sequence' = [sequence EXCEPT ![b] = @ + 1]
      /\ landed' = landed \cup {tx}
      /\ UNCHANGED <<wallet, awaiting, broadcast, crashes>>
  BY DEF Execute, Admit
<1>2. /\ b \in Accounts /\ Built(tx) /\ sequence \in [Accounts -> Nat]
      /\ awaiting \in [Accounts -> SUBSET broadcast]
  BY DEF TransactionsInv, WalletTypes, Built
<1>3. Settles(tx)
  BY ExecuteSettles
<1>4. CASE a = b
  <2>1. sequence'[a] = sequence[a] + 1
    BY <1>1, <1>2, <1>4
  <2>2. Live(a)' = {} /\ Forgotten(a)' = {}
    BY <1>1, <2>1, SequenceNumbers DEF Live, Forgotten, Of
  <2>3. Outstanding(a)' = IF tx \in awaiting[a] THEN Outstanding(a) \cup {tx}
                                               ELSE Outstanding(a)
    BY <1>1 DEF Outstanding
  <2>4. tx \in Live(a) \cup Forgotten(a)
    BY <1>1, <1>4 DEF Live, Forgotten, Of
  <2>5. \A t \in Outstanding(a) : t.seq < tx.seq
    BY <1>1, <1>4, SequenceNumbers
  <2>6. Executes(a, tx)
    BY <1>1, <1>2, <1>3, <1>4, <2>2, <2>3, <2>4, <2>5 DEF Executes
  <2> QED
    BY <1>1, <2>6 DEF AccountStep, CrashesCounted
<1>5. CASE a # b
  <2>1. sequence'[a] = sequence[a] /\ available'[a][denom] = available[a][denom]
    BY <1>1, <1>2, <1>3, <1>5 DEF Settles
  <2>2. tx \notin Of(a)
    BY <1>5 DEF Of
  <2>3. tx \notin awaiting[a]
    BY <2>2, SequenceNumbers
  <2>4. Outstanding(a)' = Outstanding(a)
    BY <1>1, <2>3 DEF Outstanding
  <2>5. Live(a)' = Live(a) /\ Forgotten(a)' = Forgotten(a)
    BY <1>1, <2>1 DEF Live, Forgotten, Of
  <2>6. Rests(a)
    BY <1>1, <2>1, <2>4, <2>5 DEF Rests
  <2> QED
    BY <1>1, <2>6 DEF AccountStep, CrashesCounted
<1> QED
  BY <1>4, <1>5

(* Being refused. *)
LEMMA RejectView ==
    ASSUME TransactionsInv, NEW a \in Accounts, NEW tx \in broadcast, Reject(tx)
    PROVE  AccountStep(a) /\ CrashesCounted
<1> DEFINE b == tx.msg.sender
<1>1. /\ sequence' = [sequence EXCEPT ![b] = @ + 1]
      /\ UNCHANGED <<wallet, awaiting, broadcast, landed, crashes, available>>
  BY DEF Reject, Admit, vars, balances
<1>2. b \in Accounts /\ sequence \in [Accounts -> Nat]
  BY DEF TransactionsInv, WalletTypes, Built
<1>3. Outstanding(a)' = Outstanding(a)
  BY <1>1 DEF Outstanding
<1>4. Live(a)' \subseteq Live(a) /\ Forgotten(a)' \subseteq Forgotten(a)
  <2>1. CASE a = b
    <3>1. sequence'[a] = sequence[a] + 1
      BY <1>1, <1>2, <2>1
    <3> QED
      BY <1>1, <3>1, SequenceNumbers DEF Live, Forgotten, Of
  <2>2. CASE a # b
    <3>1. sequence'[a] = sequence[a]
      BY <1>1, <1>2, <2>2
    <3> QED
      BY <1>1, <3>1 DEF Live, Forgotten, Of
  <2> QED
    BY <2>1, <2>2
<1>5. Rests(a)
  BY <1>1, <1>3, <1>4 DEF Rests
<1> QED
  BY <1>1, <1>5 DEF AccountStep, CrashesCounted

(* Hearing of a result. *)
LEMMA ConfirmView ==
    ASSUME TransactionsInv, NEW a \in Accounts, NEW tx \in broadcast, Confirm(tx)
    PROVE  AccountStep(a) /\ CrashesCounted
<1> DEFINE b == tx.msg.sender
<1>1. /\ tx \in awaiting[b] \cap landed
      /\ wallet' = [wallet EXCEPT ![b] = After(wallet[b], tx)]
      /\ awaiting' = [awaiting EXCEPT ![b] = @ \ {tx}]
      /\ UNCHANGED <<available, broadcast, landed, sequence, crashes>>
  BY DEF Confirm, vars, balances
<1>2. /\ b \in Accounts /\ wallet \in [Accounts -> LocalState]
      /\ awaiting \in [Accounts -> SUBSET broadcast]
  BY DEF TransactionsInv, WalletTypes, Built
<1>3. CASE a = b
  <2>1. awaiting'[a] = awaiting[a] \ {tx} /\ wallet'[a] = After(wallet[a], tx)
    BY <1>1, <1>2, <1>3
  <2>2. tx \in Outstanding(a) /\ Outstanding(a)' = Outstanding(a) \ {tx}
    BY <1>1, <1>3, <2>1 DEF Outstanding
  <2>3. tx.seq < sequence[a] /\ tx.seq \in Nat /\ sequence[a] \in Nat
    BY <2>2, SequenceNumbers
  <2>4. Live(a)' \subseteq Live(a) /\ Forgotten(a)' \subseteq Forgotten(a)
    BY <1>1, <2>1, <2>3 DEF Live, Forgotten, Of
  <2>5. HearsOf(a, tx)
    BY <1>1, <2>1, <2>2, <2>4 DEF HearsOf
  <2> QED
    BY <1>1, <2>5 DEF AccountStep, CrashesCounted
<1>4. CASE a # b
  <2>1. awaiting'[a] = awaiting[a] /\ wallet'[a] = wallet[a]
    BY <1>1, <1>2, <1>4
  <2>2. Outstanding(a)' = Outstanding(a)
    BY <1>1, <2>1 DEF Outstanding
  <2>3. Live(a)' = Live(a) /\ Forgotten(a)' = Forgotten(a)
    BY <1>1, <2>1 DEF Live, Forgotten, Of
  <2>4. Rests(a)
    BY <1>1, <2>1, <2>2, <2>3 DEF Rests
  <2> QED
    BY <1>1, <2>4 DEF AccountStep, CrashesCounted
<1> QED
  BY <1>3, <1>4

(* Giving up on what can no longer be executed. *)
LEMMA AbandonView ==
    ASSUME TransactionsInv, NEW a \in Accounts, NEW tx \in broadcast, Abandon(tx)
    PROVE  AccountStep(a) /\ CrashesCounted
<1> DEFINE b == tx.msg.sender
<1>1. /\ tx \notin landed /\ tx.seq < sequence[b]
      /\ awaiting' = [awaiting EXCEPT ![b] = @ \ {tx}]
      /\ UNCHANGED <<wallet, available, broadcast, landed, sequence, crashes>>
  BY DEF Abandon, Expired, vars, balances
<1>2. b \in Accounts /\ awaiting \in [Accounts -> SUBSET broadcast]
      /\ tx \in Of(b)
  BY DEF TransactionsInv, WalletTypes, Built, Of
<1>3. /\ awaiting'[a] \subseteq awaiting[a]
      /\ awaiting[a] \subseteq awaiting'[a] \cup {tx}
      /\ a # b => awaiting'[a] = awaiting[a]
  BY <1>1, <1>2
<1>4. Outstanding(a)' = Outstanding(a)
  BY <1>1, <1>3 DEF Outstanding
<1>5. tx.seq \in Nat /\ sequence[b] \in Nat
  BY <1>2, SequenceNumbers
<1>6. Live(a)' \subseteq Live(a) /\ Forgotten(a)' \subseteq Forgotten(a)
  BY <1>1, <1>2, <1>3, <1>5 DEF Live, Forgotten, Of
<1>7. Rests(a)
  BY <1>1, <1>3, <1>4, <1>6 DEF Rests
<1> QED
  BY <1>1, <1>7 DEF AccountStep, CrashesCounted

(* Losing the local state. *)
LEMMA CrashView ==
    ASSUME TransactionsInv, NEW a \in Accounts, NEW b \in Accounts, Crash(b)
    PROVE  AccountStep(a) /\ CrashesCounted
<1>1. /\ crashes' = crashes + 1
      /\ wallet' = [wallet EXCEPT ![b] = RecoverStateSimple(available[b][denom])]
      /\ awaiting' = [awaiting EXCEPT ![b] = {}]
      /\ UNCHANGED <<available, broadcast, landed, sequence>>
  BY DEF Crash, vars, balances
<1>2. /\ wallet \in [Accounts -> LocalState]
      /\ awaiting \in [Accounts -> SUBSET broadcast]
  BY DEF TransactionsInv, WalletTypes
<1>3. CASE a = b
  <2>1. awaiting'[a] = {} /\ wallet'[a] = RecoverStateSimple(available[a][denom])
    BY <1>1, <1>2, <1>3
  <2>2. Outstanding(a)' = {} /\ Live(a)' = {}
    BY <2>1 DEF Outstanding, Live
  <2>3. Recovers(a)
    BY <1>1, <2>1, <2>2 DEF Recovers
  <2> QED
    BY <1>1, <2>3 DEF AccountStep, CrashesCounted
<1>4. CASE a # b
  <2>1. awaiting'[a] = awaiting[a] /\ wallet'[a] = wallet[a]
    BY <1>1, <1>2, <1>4
  <2>2. Outstanding(a)' = Outstanding(a)
    BY <1>1, <2>1 DEF Outstanding
  <2>3. Live(a)' = Live(a) /\ Forgotten(a)' = Forgotten(a)
    BY <1>1, <2>1 DEF Live, Forgotten, Of
  <2>4. Rests(a)
    BY <1>1, <2>1, <2>2, <2>3 DEF Rests
  <2> QED
    BY <1>1, <2>4 DEF AccountStep, CrashesCounted
<1> QED
  BY <1>3, <1>4

(* A step of which no account notices anything. *)
LEMMA UnnoticedView ==
    ASSUME NEW a \in Accounts,
           UNCHANGED <<wallet, awaiting, broadcast, landed, sequence, crashes, available>>
    PROVE  AccountStep(a) /\ CrashesCounted
<1>1. /\ Outstanding(a)' = Outstanding(a)
      /\ Live(a)' = Live(a) /\ Forgotten(a)' = Forgotten(a)
  BY DEF Outstanding, Live, Forgotten, Of
<1>2. Rests(a)
  BY <1>1 DEF Rests
<1> QED
  BY <1>2 DEF AccountStep, CrashesCounted

(* Every step of the system is one of these to every account, and changes   *)
(* no key.                                                                  *)
LEMMA EveryAccountSteps ==
    ASSUME HKDFReduced, TransactionsInv, [WalletNext]_allVars, NEW a \in Accounts
    PROVE  AccountStep(a) /\ CrashesCounted /\ pubkey' = pubkey
<1>1. ASSUME NEW tx, Broadcast(tx), Fresh(tx)
      PROVE  AccountStep(a) /\ CrashesCounted /\ pubkey' = pubkey
  <2>1. pubkey' = pubkey
    BY <1>1 DEF Broadcast, vars
  <2> QED
    BY <1>1, <2>1, BroadcastView
<1>2. ASSUME NEW b \in Accounts, NEW n \in SendAmounts, BuildShield(b, n)
      PROVE  AccountStep(a) /\ CrashesCounted /\ pubkey' = pubkey
  BY <1>1, <1>2, BuildShieldFresh
<1>3. ASSUME NEW b \in Accounts, NEW c \in Accounts, NEW n \in SendAmounts,
             BuildSend(b, c, n)
      PROVE  AccountStep(a) /\ CrashesCounted /\ pubkey' = pubkey
  BY <1>1, <1>3, BuildSendFresh
<1>4. ASSUME NEW b \in Accounts, NEW n \in SendAmounts, BuildUnshield(b, n)
      PROVE  AccountStep(a) /\ CrashesCounted /\ pubkey' = pubkey
  BY <1>1, <1>4, BuildUnshieldFresh
<1>5. ASSUME NEW b \in Accounts, BuildApplyPending(b)
      PROVE  AccountStep(a) /\ CrashesCounted /\ pubkey' = pubkey
  BY <1>1, <1>5, BuildApplyPendingFresh
<1>6. ASSUME NEW b \in Accounts, Crash(b)
      PROVE  AccountStep(a) /\ CrashesCounted /\ pubkey' = pubkey
  <2>1. pubkey' = pubkey
    BY <1>6 DEF Crash, vars
  <2> QED
    BY <1>6, <2>1, CrashView
<1>7. ASSUME NEW tx \in broadcast, Execute(tx)
      PROVE  AccountStep(a) /\ CrashesCounted /\ pubkey' = pubkey
  <2>1. pubkey' = pubkey
    BY <1>7, ExecuteSettles DEF Settles
  <2> QED
    BY <1>7, <2>1, ExecuteView
<1>8. ASSUME NEW tx \in broadcast, Reject(tx) \/ Confirm(tx) \/ Abandon(tx)
      PROVE  AccountStep(a) /\ CrashesCounted /\ pubkey' = pubkey
  <2>1. pubkey' = pubkey
    BY <1>8 DEF Reject, Confirm, Abandon, vars
  <2> QED
    BY <1>8, <2>1, RejectView, ConfirmView, AbandonView
<1>9. ASSUME NEW k \in AuditorKeys, Rotate(k)
      PROVE  AccountStep(a) /\ CrashesCounted /\ pubkey' = pubkey
  <2>1. UNCHANGED <<wallet, awaiting, broadcast, landed, sequence, crashes, available,
                    pubkey>>
    BY <1>9 DEF Rotate, SetAuditorKey, balances
  <2> QED
    BY <2>1, UnnoticedView
<1>10. CASE UNCHANGED allVars
  <2>1. UNCHANGED <<wallet, awaiting, broadcast, landed, sequence, crashes, available,
                    pubkey>>
    BY <1>10 DEF allVars, walletVars, vars, balances
  <2> QED
    BY <2>1, UnnoticedView
<1> QED
  BY <1>2, <1>3, <1>4, <1>5, <1>6, <1>7, <1>8, <1>9, <1>10 DEF WalletNext

(***************************************************************************)
(* The local state and what is outstanding open the balance                 *)
(***************************************************************************)

(* The local state w, after the transactions of O, is the opening of the    *)
(* balance that is stored.                                                  *)
Tracks(O, w, stored, pk, P) ==
    /\ Replay(O, w, P)
    /\ P[O].Value = Plaintext(stored)
    /\ unmarshalOrZero(stored) = EncryptWithRandomness(P[O].Value, pk, P[O].Randomness)
    /\ P[O].RandomnessKnown => stored # Nil

TracksBalance(a, P) ==
    Tracks(Outstanding(a), wallet[a], available[a][denom], pubkey[a], P)

(* A wallet that never crashed waits for all that may still be executed,    *)
(* and its state and the results it has yet to hear of open its balance.    *)
KeepsTrack(a) ==
    crashes = 0 => Forgotten(a) = {} /\ \E P : TracksBalance(a, P)

(* How the replay of an account goes on in one step. *)
GoesOn(a, P, Q) ==
    \/ Outstanding(a)' = Outstanding(a) /\ Q = P
    \/ \E tx : /\ Executes(a, tx) /\ tx \in awaiting[a]
               /\ Q = Lands(Outstanding(a), P, tx)
    \/ \E tx : HearsOf(a, tx) /\ Q = Hears(Outstanding(a), P, tx)

(* The balance moves as the replayed state does. *)
LEMMA LandsTracks ==
    ASSUME TransactionsInv, NEW a \in Accounts, NEW tx, Executes(a, tx),
           tx \in awaiting[a], pubkey' = pubkey, NEW P, TracksBalance(a, P)
    PROVE  Tracks(Outstanding(a)', wallet'[a], available'[a][denom], pubkey'[a],
                  Lands(Outstanding(a), P, tx))
<1> DEFINE O == Outstanding(a)
           Q == Lands(O, P, tx)
           s == P[O]
           stored == available[a][denom]
           new == available'[a][denom]
           pk == pubkey[a]
<1>1. /\ O' = O \cup {tx} /\ wallet'[a] = wallet[a] /\ Built(tx) /\ tx.msg.sender = a
      /\ tx \notin O /\ Settles(tx)
  <2>1. tx \notin Outstanding(a)
    BY SequenceNumbers DEF Executes, Live, Forgotten
  <2> QED
    BY <2>1 DEF Executes
<1>2. \A t \in O \cup {tx} : Built(t)
  BY <1>1, SequenceNumbers
<1>3. /\ Replay(O, wallet[a], P) /\ s.Value = Plaintext(stored)
      /\ unmarshalOrZero(stored) = EncryptWithRandomness(s.Value, pk, s.Randomness)
  BY DEF TracksBalance, Tracks
<1> HIDE DEF O
<1>4. Replay(O \cup {tx}, wallet[a], Q) /\ Q[O \cup {tx}] = After(s, tx)
  BY <1>1, <1>2, <1>3, ReplayLands
<1>5. s \in LocalState
  BY <1>3 DEF Replay
<1>6. /\ new = Moved(tx, stored) /\ new \in Ciphertext
      /\ new.v = MovedValue(tx, Plaintext(stored))
  BY <1>1 DEF Settles
<1>7. /\ pk \in Keys /\ stored \in Ciphertext \cup {Nil}
  BY WalletsAssumption DEF TransactionsInv, WalletTypes, IInv, TypeOK
<1>8. s.Value \in Field /\ s.Randomness \in Field /\ tx.amount \in Field /\ tx.r \in Field
  BY <1>1, <1>3, <1>5, <1>7, PlaintextType DEF LocalState, Built
<1>9. new # Nil /\ unmarshalOrZero(new) = new /\ Plaintext(new) = new.v
  BY <1>6, NilAssumption DEF unmarshalOrZero, Plaintext
<1> HIDE DEF s, stored, new, pk, Q
<1>10. new =
         IF IsSpend(tx)
         THEN EncryptWithRandomness(FieldSub(s.Value, tx.amount), pk, FieldSub(s.Randomness, tx.r))
         ELSE EncryptWithRandomness(FieldAdd(s.Value, tx.amount), pk, FieldAdd(s.Randomness, tx.r))
  BY <1>1, <1>3, <1>6, <1>7, <1>8, BuiltCarries, MovedOpens DEF pk
<1>11. /\ After(s, tx).Value = MovedValue(tx, s.Value)
       /\ After(s, tx).Randomness =
            IF IsSpend(tx) THEN FieldSub(s.Randomness, tx.r) ELSE FieldAdd(s.Randomness, tx.r)
  BY <1>1, <1>5, AfterParts
<1>12. new = EncryptWithRandomness(After(s, tx).Value, pk, After(s, tx).Randomness)
  <2>1. \A v, r : EncryptWithRandomness(v, pk, r).v = v
    BY DEF EncryptWithRandomness, Canonical
  <2>2. new.v = After(s, tx).Value
    BY <1>3, <1>6, <1>11
  <2>3. CASE IsSpend(tx)
    BY <1>10, <1>11, <2>1, <2>2, <2>3
  <2>4. CASE ~IsSpend(tx)
    BY <1>10, <1>11, <2>1, <2>2, <2>4
  <2> QED
    BY <2>3, <2>4
<1>13. Tracks(O \cup {tx}, wallet[a], new, pk, Q)
  BY <1>3, <1>4, <1>6, <1>9, <1>11, <1>12 DEF Tracks
<1>14. pubkey'[a] = pk
  BY DEF pk
<1> QED
  BY <1>1, <1>13, <1>14 DEF new, Q, O

(* One step of an account whose wallet did not crash. *)
LEMMA TracksStep ==
    ASSUME TransactionsInv, NEW a \in Accounts, AccountStep(a), pubkey' = pubkey,
           crashes' = 0, Forgotten(a) = {}, NEW P, TracksBalance(a, P)
    PROVE  \E Q : TracksBalance(a, Q)' /\ GoesOn(a, P, Q)
<1>1. ASSUME Outstanding(a)' = Outstanding(a), wallet'[a] = wallet[a],
             available'[a][denom] = available[a][denom]
      PROVE  TracksBalance(a, P)' /\ GoesOn(a, P, P)
  BY <1>1 DEF TracksBalance, GoesOn
<1>2. CASE Rests(a)
  BY <1>1, <1>2 DEF Rests
<1>3. ASSUME NEW tx, Builds(a, tx)
      PROVE  \E Q : TracksBalance(a, Q)' /\ GoesOn(a, P, Q)
  BY <1>1, <1>3 DEF Builds
<1>4. ASSUME NEW tx, Executes(a, tx)
      PROVE  \E Q : TracksBalance(a, Q)' /\ GoesOn(a, P, Q)
  <2>1. PICK Q : Q = Lands(Outstanding(a), P, tx)
    OBVIOUS
  <2>2. tx \in awaiting[a]
    BY <1>4 DEF Executes, Live
  <2>3. TracksBalance(a, Q)'
    BY <1>4, <2>1, <2>2, LandsTracks DEF TracksBalance
  <2>4. GoesOn(a, P, Q)
    BY <1>4, <2>1, <2>2 DEF GoesOn
  <2> QED
    BY <2>3, <2>4
<1>5. ASSUME NEW tx, HearsOf(a, tx)
      PROVE  \E Q : TracksBalance(a, Q)' /\ GoesOn(a, P, Q)
  <2>1. PICK Q : Q = Hears(Outstanding(a), P, tx)
    OBVIOUS
  <2>2. /\ tx \in Outstanding(a) /\ Outstanding(a)' = Outstanding(a) \ {tx}
        /\ wallet'[a] = After(wallet[a], tx)
        /\ available'[a][denom] = available[a][denom]
    BY <1>5 DEF HearsOf
  <2>3. /\ Replay(Outstanding(a) \ {tx}, After(wallet[a], tx), Q)
        /\ Q[Outstanding(a) \ {tx}] = P[Outstanding(a)]
    BY <2>1, <2>2, ReplayHears DEF TracksBalance, Tracks
  <2>4. Tracks(Outstanding(a) \ {tx}, After(wallet[a], tx), available[a][denom],
               pubkey[a], Q)
    BY <2>3 DEF TracksBalance, Tracks
  <2>5. TracksBalance(a, Q)'
    BY <2>2, <2>4 DEF TracksBalance
  <2>6. GoesOn(a, P, Q)
    BY <1>5, <2>1 DEF GoesOn
  <2> QED
    BY <2>5, <2>6
<1>6. ~Recovers(a)
  BY SequenceNumbers DEF Recovers
<1> QED
  BY <1>2, <1>3, <1>4, <1>5, <1>6 DEF AccountStep

(* A wallet forgets a transaction only by crashing. *)
LEMMA NothingForgotten ==
    ASSUME TransactionsInv, NEW a \in Accounts, AccountStep(a), crashes' = 0,
           Forgotten(a) = {}
    PROVE  Forgotten(a)' = {}
<1>1. ~Recovers(a)
  BY SequenceNumbers DEF Recovers
<1> QED
  BY <1>1 DEF AccountStep, Rests, Builds, Executes, HearsOf

(* While no wallet crashed, none was crashed before. *)
LEMMA NoCrashBefore ==
    ASSUME TransactionsInv, NEW a \in Accounts, CrashesCounted, crashes' = 0
    PROVE  crashes = 0
  BY SequenceNumbers DEF CrashesCounted

(* At the start there is nothing to replay. *)
LEMMA KeepsTrackInit ==
    ASSUME WalletInit, NEW a \in Accounts
    PROVE  /\ Forgotten(a) = {} /\ Outstanding(a) = {} /\ Live(a) = {}
           /\ \E P : TracksBalance(a, P)
<1>1. /\ Outstanding(a) = {} /\ Forgotten(a) = {} /\ Live(a) = {}
      /\ wallet[a] = EmptyState /\ available[a][denom] = Nil
  BY WalletsAssumption DEF WalletInit, Outstanding, Forgotten, Live, Of
<1>2. EmptyState \in LocalState
  BY FieldAssumption DEF EmptyState, LocalState, Field
<1>3. PICK P : P = [S \in SUBSET {} |-> EmptyState]
  OBVIOUS
<1>4. P[{}] = EmptyState /\ P \in [SUBSET {} -> LocalState]
  BY <1>2, <1>3
<1>5. Replay({}, EmptyState, P)
  BY <1>4 DEF Replay
<1>6. pubkey[a] \in Keys
  BY WalletInitInvariant DEF TransactionsInv, WalletTypes
<1>7. Plaintext(Nil) = 0
      /\ unmarshalOrZero(Nil) = EncryptWithRandomness(0, pubkey[a], 0)
  BY <1>6, NilAssumption DEF Plaintext, unmarshalOrZero, EncryptWithRandomness, Canonical
<1>8. EmptyState.Value = 0 /\ EmptyState.Randomness = 0 /\ ~EmptyState.RandomnessKnown
  BY DEF EmptyState
<1>9. Tracks({}, EmptyState, Nil, pubkey[a], P)
  BY <1>4, <1>5, <1>7, <1>8 DEF Tracks
<1> QED
  BY <1>1, <1>9 DEF TracksBalance

(* A wallet that never lost its state, believes it knows its randomness and *)
(* has heard of all it did holds the opening of its balance, in whatever    *)
(* order the results reached it.                                            *)
THEOREM LocalStateOpensBalance ==
    ASSUME HKDFReduced
    PROVE  WalletSpec => [](crashes = 0 => KnownRandomnessOpensBalance)
<1> DEFINE Inv == \A a \in Accounts : KeepsTrack(a)
<1>1. WalletInit => Inv
  BY KeepsTrackInit DEF KeepsTrack
<1>2. TransactionsInv /\ Inv /\ [WalletNext]_allVars => Inv'
  <2> SUFFICES ASSUME TransactionsInv, Inv, [WalletNext]_allVars,
                      NEW a \in Accounts, crashes' = 0
               PROVE  Forgotten(a)' = {} /\ \E Q : TracksBalance(a, Q)'
    BY DEF KeepsTrack
  <2>1. AccountStep(a) /\ CrashesCounted /\ pubkey' = pubkey
    BY EveryAccountSteps
  <2>2. crashes = 0
    BY <2>1, NoCrashBefore
  <2>3. Forgotten(a) = {} /\ \E P : TracksBalance(a, P)
    BY <2>2 DEF KeepsTrack
  <2>4. PICK P : TracksBalance(a, P)
    BY <2>3
  <2> QED
    BY <2>1, <2>3, <2>4, TracksStep, NothingForgotten
<1>3. Inv => (crashes = 0 => KnownRandomnessOpensBalance)
  <2> SUFFICES ASSUME Inv, crashes = 0, NEW a \in Accounts,
                      wallet[a].RandomnessKnown, Outstanding(a) = {}
               PROVE  available[a][denom] =
                        EncryptWithRandomness(wallet[a].Value, pubkey[a], wallet[a].Randomness)
    BY DEF KnownRandomnessOpensBalance
  <2>1. PICK P : TracksBalance(a, P)
    BY DEF KeepsTrack
  <2>2. /\ P[{}] = wallet[a]
        /\ unmarshalOrZero(available[a][denom])
             = EncryptWithRandomness(P[{}].Value, pubkey[a], P[{}].Randomness)
        /\ P[{}].RandomnessKnown => available[a][denom] # Nil
    BY <2>1 DEF TracksBalance, Tracks, Replay
  <2> QED
    BY <2>2 DEF unmarshalOrZero
<1> HIDE DEF Inv
<1> QED
  BY <1>1, <1>2, <1>3, TransactionsInvariance, PTL DEF WalletSpec

(***************************************************************************)
(* No result panics                                                         *)
(***************************************************************************)

GoodSpend(tx) == IsSpend(tx) /\ tx.msg.remainingCommitmentProof # NoProof

(* A spend that verifies is built only by a wallet that has nothing to hear *)
(* of, from an amount it holds: so what it has to hear of later is that     *)
(* spend and receipts that came after it.                                   *)
KeepsUp(a) ==
    /\ wallet[a].Value \in Nat
    /\ \A t \in Live(a) :
         GoodSpend(t) => Outstanding(a) = {} /\ t.amount <= wallet[a].Value
    /\ \A t \in Outstanding(a) :
         IsSpend(t) => /\ t.amount <= wallet[a].Value
                       /\ \A u \in Outstanding(a) : t.seq <= u.seq
    /\ \A t, u \in Outstanding(a) : t.seq = u.seq => t = u

(* Nothing changes but what may be executed. *)
LEMMA KeepsUpBuilding ==
    ASSUME TransactionsInv, StaleWalletOpensNothing, NEW a \in Accounts, KeepsUp(a),
           NEW tx, Builds(a, tx)
    PROVE  KeepsUp(a)'
<1>1. /\ Outstanding(a)' = Outstanding(a) /\ wallet'[a] = wallet[a]
      /\ Live(a)' \subseteq Live(a) \cup {tx} /\ tx.msg.sender = a /\ Fresh(tx)
  BY DEF Builds
<1>2. GoodSpend(tx) => OpensBalance(a) /\ tx.amount <= wallet[a].Value
  BY <1>1 DEF Fresh, GoodSpend
<1>3. OpensBalance(a) => Outstanding(a) = {}
  BY DEF StaleWalletOpensNothing, OpensBalance
<1> QED
  BY <1>1, <1>2, <1>3 DEF KeepsUp

(* A spend is executed only where its wallet has heard of all the rest. *)
LEMMA KeepsUpExecuting ==
    ASSUME TransactionsInv, NEW a \in Accounts, KeepsUp(a), NEW tx, Executes(a, tx)
    PROVE  KeepsUp(a)'
<1>1. /\ wallet'[a] = wallet[a] /\ Live(a)' = {} /\ Settles(tx)
      /\ Outstanding(a)' = IF tx \in awaiting[a] THEN Outstanding(a) \cup {tx}
                                                ELSE Outstanding(a)
      /\ \A t \in Outstanding(a) : t.seq < tx.seq
      /\ Built(tx)
  BY DEF Executes
<1>2. tx.seq \in Nat /\ \A t \in Outstanding(a) : t.seq \in Nat
  BY <1>1, SequenceNumbers DEF Built
<1>3. CASE tx \notin awaiting[a]
  BY <1>1, <1>3 DEF KeepsUp
<1>4. CASE tx \in awaiting[a] /\ ~IsSpend(tx)
  <2>1. Outstanding(a)' = Outstanding(a) \cup {tx}
    BY <1>1, <1>4
  <2>2. \A t \in Outstanding(a)' : IsSpend(t) => t \in Outstanding(a)
    BY <1>4, <2>1
  <2>3. \A t, u \in Outstanding(a)' : t.seq = u.seq => t = u
    BY <1>1, <1>2, <2>1 DEF KeepsUp
  <2>4. \A t \in Outstanding(a)' :
          IsSpend(t) => /\ t.amount <= wallet[a].Value
                        /\ \A u \in Outstanding(a)' : t.seq <= u.seq
    BY <1>1, <1>2, <2>1, <2>2 DEF KeepsUp
  <2> QED
    BY <1>1, <2>3, <2>4 DEF KeepsUp, IsSpend
<1>5. CASE tx \in awaiting[a] /\ IsSpend(tx)
  <2>1. GoodSpend(tx)
    BY <1>1, <1>5 DEF Settles, GoodSpend
  <2>2. tx \in Live(a)
    BY <1>5 DEF Executes, Live, Forgotten
  <2>3. Outstanding(a) = {} /\ tx.amount <= wallet[a].Value
    BY <2>1, <2>2 DEF KeepsUp
  <2>4. Outstanding(a)' = {tx}
    BY <1>1, <1>5, <2>3
  <2> QED
    BY <1>1, <1>2, <2>3, <2>4 DEF KeepsUp
<1> QED
  BY <1>3, <1>4, <1>5

(* A result that is heard of can be applied, and leaves the others so. *)
LEMMA KeepsUpHearing ==
    ASSUME TransactionsInv, NEW a \in Accounts, KeepsUp(a), NEW tx, HearsOf(a, tx)
    PROVE  KeepsUp(a)'
<1>1. /\ tx \in Outstanding(a) /\ Outstanding(a)' = Outstanding(a) \ {tx}
      /\ wallet'[a] = After(wallet[a], tx) /\ Live(a)' \subseteq Live(a)
  BY DEF HearsOf
<1>2. Built(tx) /\ wallet[a] \in LocalState
  BY <1>1, SequenceNumbers DEF TransactionsInv, WalletTypes
<1>3. wallet'[a].Value = MovedValue(tx, wallet[a].Value)
  BY <1>1, <1>2, AfterParts
<1>4. tx.amount \in Nat /\ tx.seq \in Nat
      /\ \A t \in Outstanding(a) : t.seq \in Nat /\ t.amount \in Nat
  BY <1>1, SequenceNumbers, FieldAssumption DEF Built, Field
<1>5. \A t \in Live(a) : ~GoodSpend(t)
  BY <1>1 DEF KeepsUp
<1>6. wallet[a].Value \in Nat
  BY DEF KeepsUp
<1>7. CASE IsSpend(tx)
  <2>1. wallet'[a].Value = wallet[a].Value - tx.amount /\ tx.amount <= wallet[a].Value
    BY <1>1, <1>3, <1>7 DEF MovedValue, KeepsUp
  <2>2. \A t \in Outstanding(a) : IsSpend(t) => t.seq <= tx.seq /\ tx.seq <= t.seq
    BY <1>1, <1>7 DEF KeepsUp
  <2>3. \A t \in Outstanding(a) : IsSpend(t) => t = tx
    BY <1>1, <1>4, <2>2 DEF KeepsUp
  <2>4. wallet'[a].Value \in Nat
    BY <1>4, <1>6, <2>1
  <2> QED
    BY <1>1, <1>5, <2>3, <2>4 DEF KeepsUp
<1>8. CASE ~IsSpend(tx)
  <2>1. wallet'[a].Value = wallet[a].Value + tx.amount
    BY <1>3, <1>8 DEF MovedValue
  <2>2. wallet'[a].Value \in Nat /\ wallet[a].Value <= wallet'[a].Value
    BY <1>4, <1>6, <2>1
  <2>3. \A t \in Outstanding(a)' : IsSpend(t) => t.amount <= wallet'[a].Value
    BY <1>1, <1>4, <1>6, <2>2 DEF KeepsUp
  <2> QED
    BY <1>1, <1>5, <2>2, <2>3 DEF KeepsUp
<1> QED
  BY <1>7, <1>8

LEMMA KeepsUpStep ==
    ASSUME TransactionsInv, StaleWalletOpensNothing, NEW a \in Accounts,
           AccountStep(a), KeepsUp(a)
    PROVE  KeepsUp(a)'
<1>1. CASE Rests(a)
  BY <1>1 DEF Rests, KeepsUp
<1>2. CASE Recovers(a)
  BY <1>2, RecoveredState DEF Recovers, KeepsUp
<1> QED
  BY <1>1, <1>2, KeepsUpBuilding, KeepsUpExecuting, KeepsUpHearing DEF AccountStep

LEMMA KeepsUpInit ==
    ASSUME WalletInit, NEW a \in Accounts
    PROVE  KeepsUp(a)
<1>1. wallet[a].Value = 0
  BY DEF WalletInit, EmptyState
<1> QED
  BY <1>1, KeepsTrackInit DEF KeepsUp

(* Unless a wallet that has something to hear of opens its balance by       *)
(* coincidence, every account keeps up, also over crashes.                  *)
THEOREM WalletsKeepUp ==
    ASSUME HKDFReduced
    PROVE  WalletSpec /\ []StaleWalletOpensNothing => [](\A a \in Accounts : KeepsUp(a))
<1> DEFINE Inv == \A a \in Accounts : KeepsUp(a)
<1>1. WalletInit => Inv
  BY KeepsUpInit
<1>2. TransactionsInv /\ StaleWalletOpensNothing /\ Inv /\ [WalletNext]_allVars => Inv'
  BY EveryAccountSteps, KeepsUpStep
<1> HIDE DEF Inv
<1>3. WalletSpec /\ []StaleWalletOpensNothing => []Inv
  BY <1>1, <1>2, TransactionsInvariance, PTL DEF WalletSpec
<1> QED
  BY <1>3 DEF Inv

(* AfterSend and AfterUnshield never panic, in whatever order the results   *)
(* reach a wallet, and even if it lost its state in between.                *)
THEOREM SpendsApply ==
    ASSUME HKDFReduced
    PROVE  WalletSpec /\ []StaleWalletOpensNothing => []SpendsNeverPanic
<1>1. (\A a \in Accounts : KeepsUp(a)) => SpendsNeverPanic
  BY DEF KeepsUp, SpendsNeverPanic
<1> QED
  BY <1>1, WalletsKeepUp, PTL

(* The value of a local state never goes below 0. *)
THEOREM WalletTypeCorrectness ==
    ASSUME HKDFReduced
    PROVE  WalletSpec /\ []StaleWalletOpensNothing => []WalletTypeOK
<1>1. ASSUME TransactionsInv, \A a \in Accounts : KeepsUp(a)
      PROVE  WalletTypeOK
  <2>1. \A a \in Accounts : wallet[a] \in LocalState /\ wallet[a].Value \in Nat
    BY <1>1 DEF TransactionsInv, WalletTypes, KeepsUp
  <2>2. \A a \in Accounts : wallet[a] \in BalanceState
    BY <2>1 DEF LocalState, BalanceState
  <2>3. wallet \in [Accounts -> BalanceState]
    BY <1>1, <2>2 DEF TransactionsInv, WalletTypes
  <2> QED
    BY <1>1, <2>3 DEF TransactionsInv, WalletTypes, WalletTypeOK, IInv
<1>2. TransactionsInv /\ (\A a \in Accounts : KeepsUp(a)) => WalletTypeOK
  BY <1>1
<1> QED
  BY <1>2, WalletsKeepUp, TransactionsInvariance, PTL

(* What a wallet has yet to hear of never takes it higher than the balance  *)
(* on chain, as long as it hears of its spend first.                        *)
Dominated(O, P) ==
    \A S \in SUBSET O :
        {t \in O : IsSpend(t)} \subseteq S => P[S].Value <= P[O].Value

NeverAbove(a) ==
    crashes = 0 =>
        /\ Forgotten(a) = {}
        /\ \E P : TracksBalance(a, P) /\ Dominated(Outstanding(a), P)

LEMMA DominatedStep ==
    ASSUME TransactionsInv, NEW a \in Accounts, KeepsUp(a),
           NEW P, TracksBalance(a, P), Dominated(Outstanding(a), P),
           NEW Q, GoesOn(a, P, Q)
    PROVE  Dominated(Outstanding(a)', Q)
<1> DEFINE O == Outstanding(a)
<1>1. CASE Outstanding(a)' = O /\ Q = P
  BY <1>1
<1>2. ASSUME NEW tx, Executes(a, tx), tx \in awaiting[a], Q = Lands(O, P, tx)
      PROVE  Dominated(Outstanding(a)', Q)
  <2>1. /\ Outstanding(a)' = O \cup {tx} /\ Built(tx) /\ Settles(tx)
        /\ tx \in Live(a) /\ tx \notin O
    BY <1>2, SequenceNumbers DEF Executes, Live, Forgotten
  <2>2. \A S \in SUBSET O : P[S] \in LocalState /\ P[S].Value \in Int
                            /\ After(P[S], tx).Value = MovedValue(tx, P[S].Value)
    <3>1. \A S \in SUBSET O : P[S] \in LocalState
      BY DEF TracksBalance, Tracks, Replay
    <3> QED
      BY <2>1, <3>1, AfterParts
  <2>3. \A S \in SUBSET (O \cup {tx}) :
          Q[S] = IF tx \in S THEN After(P[S \ {tx}], tx) ELSE P[S]
    BY <1>2 DEF Lands
  <2>4. tx.amount \in Nat
    BY <2>1, FieldAssumption DEF Built, Field
  <2>5. CASE IsSpend(tx)
    <3>1. O = {}
      BY <2>1, <2>5 DEF KeepsUp, GoodSpend, Settles
    <3>2. \A S \in SUBSET (O \cup {tx}) : tx \in S => S = O \cup {tx}
      BY <3>1
    <3>3. Q[O \cup {tx}].Value \in Int
      <4>1. (O \cup {tx}) \ {tx} = O /\ tx \in O \cup {tx} /\ O \in SUBSET O
        BY <2>1
      <4>2. Q[O \cup {tx}] = After(P[O], tx)
        BY <2>3, <4>1
      <4> QED
        BY <2>2, <2>4, <4>1, <4>2 DEF MovedValue
    <3>4. ASSUME NEW S \in SUBSET (O \cup {tx}),
                 {t \in O \cup {tx} : IsSpend(t)} \subseteq S
          PROVE  Q[S].Value <= Q[O \cup {tx}].Value
      <4>1. S = O \cup {tx}
        BY <2>5, <3>2, <3>4
      <4> QED
        BY <3>3, <4>1
    <3> HIDE DEF O
    <3> QED
      BY <2>1, <3>4 DEF Dominated
  <2>6. CASE ~IsSpend(tx)
    <3>1. Q[O \cup {tx}].Value = P[O].Value + tx.amount
      <4>1. (O \cup {tx}) \ {tx} = O /\ tx \in O \cup {tx}
        BY <2>1
      <4>2. Q[O \cup {tx}] = After(P[O], tx)
        BY <2>3, <4>1
      <4> QED
        BY <2>2, <2>6, <4>2 DEF MovedValue
    <3>2. ASSUME NEW S \in SUBSET (O \cup {tx}),
                 {t \in O \cup {tx} : IsSpend(t)} \subseteq S
          PROVE  Q[S].Value <= Q[O \cup {tx}].Value
      <4> DEFINE R == S \ {tx}
      <4>1. R \in SUBSET O /\ {t \in O : IsSpend(t)} \subseteq R
        BY <2>6, <3>2
      <4>2. P[R].Value <= P[O].Value /\ P[R].Value \in Int /\ P[O].Value \in Int
        BY <2>2, <4>1 DEF Dominated
      <4>3. CASE tx \in S
        <5>1. Q[S] = After(P[R], tx)
          BY <2>3, <4>3
        <5>2. Q[S].Value = P[R].Value + tx.amount
          BY <2>2, <2>6, <4>1, <5>1 DEF MovedValue
        <5> HIDE DEF R
        <5> QED
          BY <2>4, <3>1, <4>2, <5>2
      <4>4. CASE tx \notin S
        <5>1. Q[S] = P[S] /\ R = S
          BY <2>3, <4>4
        <5> HIDE DEF R
        <5> QED
          BY <2>4, <3>1, <4>2, <5>1
      <4> QED
        BY <4>3, <4>4
    <3> HIDE DEF O
    <3> QED
      BY <2>1, <3>2 DEF Dominated
  <2> QED
    BY <2>5, <2>6
<1>3. ASSUME NEW tx, HearsOf(a, tx), Q = Hears(O, P, tx)
      PROVE  Dominated(Outstanding(a)', Q)
  <2>1. tx \in O /\ Outstanding(a)' = O \ {tx}
    BY <1>3 DEF HearsOf
  <2>2. \A S \in SUBSET (O \ {tx}) : Q[S] = P[S \cup {tx}]
    BY <1>3 DEF Hears
  <2>3. Q[O \ {tx}] = P[O]
    <3>1. (O \ {tx}) \cup {tx} = O
      BY <2>1
    <3> QED
      BY <2>2, <3>1
  <2>4. ASSUME NEW S \in SUBSET (O \ {tx}),
               {t \in O \ {tx} : IsSpend(t)} \subseteq S
        PROVE  P[S \cup {tx}].Value <= P[O].Value
    <3>1. S \cup {tx} \in SUBSET O /\ {t \in O : IsSpend(t)} \subseteq S \cup {tx}
      BY <2>1, <2>4
    <3> QED
      BY <3>1 DEF Dominated
  <2> HIDE DEF O
  <2> QED
    BY <2>1, <2>2, <2>3, <2>4 DEF Dominated
<1> QED
  BY <1>1, <1>2, <1>3 DEF GoesOn

(* The receipt a wallet hears of next fits, if all the coins there are do. *)
LEMMA ReceiptFits ==
    ASSUME TransactionsInv, NEW a \in Accounts, KeepsUp(a), NEW P, TracksBalance(a, P),
           Dominated(Outstanding(a), P), Supply(denom) <= MaxUint64,
           NEW tx \in Outstanding(a), ~IsSpend(tx),
           \A other \in Outstanding(a) : tx.seq <= other.seq
    PROVE  tx.amount <= MaxUint64 - wallet[a].Value
<1> DEFINE O == Outstanding(a)
<1>1. \A t \in O : ~IsSpend(t)
  <2> SUFFICES ASSUME NEW t \in O, IsSpend(t)
               PROVE  FALSE
    OBVIOUS
  <2>1. t.seq <= tx.seq /\ tx.seq <= t.seq /\ t.seq \in Nat /\ tx.seq \in Nat
    BY SequenceNumbers DEF KeepsUp
  <2>2. t = tx
    BY <2>1 DEF KeepsUp
  <2> QED
    BY <2>2
<1>2. P[{tx}].Value <= P[O].Value
  BY <1>1 DEF Dominated
<1>3. P[{tx}].Value = wallet[a].Value + tx.amount
  <2>1. P[{} \cup {tx}] = After(P[{}], tx) /\ P[{}] = wallet[a]
    BY DEF TracksBalance, Tracks, Replay
  <2>2. wallet[a] \in LocalState /\ Built(tx)
    BY SequenceNumbers DEF TransactionsInv, WalletTypes
  <2>3. {} \cup {tx} = {tx}
    OBVIOUS
  <2> QED
    BY <2>1, <2>2, <2>3, AfterParts DEF MovedValue
<1>4. P[O].Value = Plaintext(available[a][denom])
  BY DEF TracksBalance, Tracks
<1>5. /\ Plaintext(available[a][denom]) <= Supply(denom)
      /\ Supply(denom) \in Nat /\ Plaintext(available[a][denom]) \in Nat
  BY WalletsAssumption, BalanceWithinSupply DEF TransactionsInv
<1>6. tx.amount \in Nat /\ wallet[a].Value \in Nat /\ MaxUint64 \in Nat
  BY SequenceNumbers, WalletsAssumption, FieldAssumption DEF Built, Field, KeepsUp
<1> QED
  BY <1>2, <1>3, <1>4, <1>5, <1>6

(* While no wallet lost its state, and where the supply fits a uint64,      *)
(* AfterShield and AfterApplyPending never panic on results heard of in the *)
(* order they were executed.                                                *)
THEOREM ReceiptsApply ==
    ASSUME HKDFReduced
    PROVE  WalletSpec /\ []StaleWalletOpensNothing
             => [](crashes = 0 /\ Supply(denom) <= MaxUint64 => ReceiptsNeverPanic)
<1> DEFINE Sync == \A a \in Accounts : KeepsUp(a)
           Inv == \A a \in Accounts : NeverAbove(a)
<1>1. WalletInit => Inv
  <2> SUFFICES ASSUME WalletInit, NEW a \in Accounts
               PROVE  NeverAbove(a)
    OBVIOUS
  <2>1. Forgotten(a) = {} /\ Outstanding(a) = {}
    BY KeepsTrackInit
  <2>2. PICK P : TracksBalance(a, P)
    BY KeepsTrackInit
  <2>3. P[{}].Value \in Int
    BY <2>1, <2>2 DEF TracksBalance, Tracks, Replay, LocalState
  <2>4. Dominated(Outstanding(a), P)
    BY <2>1, <2>3 DEF Dominated
  <2> QED
    BY <2>1, <2>2, <2>4 DEF NeverAbove
<1>2. TransactionsInv /\ Sync /\ Inv /\ [WalletNext]_allVars => Inv'
  <2> SUFFICES ASSUME TransactionsInv, Sync, Inv, [WalletNext]_allVars,
                      NEW a \in Accounts, crashes' = 0
               PROVE  /\ Forgotten(a)' = {}
                      /\ \E Q : TracksBalance(a, Q)' /\ Dominated(Outstanding(a)', Q)
    BY DEF NeverAbove, Dominated
  <2>1. AccountStep(a) /\ CrashesCounted /\ pubkey' = pubkey
    BY EveryAccountSteps
  <2>2. crashes = 0
    BY <2>1, NoCrashBefore
  <2>3. Forgotten(a) = {}
    BY <2>2 DEF NeverAbove
  <2>4. PICK P : TracksBalance(a, P) /\ Dominated(Outstanding(a), P)
    BY <2>2 DEF NeverAbove
  <2>5. PICK Q : TracksBalance(a, Q)' /\ GoesOn(a, P, Q)
    BY <2>1, <2>3, <2>4, TracksStep
  <2>6. Dominated(Outstanding(a)', Q)
    BY <2>4, <2>5, DominatedStep
  <2> QED
    BY <2>1, <2>3, <2>5, <2>6, NothingForgotten
<1>3. TransactionsInv /\ Sync /\ Inv
        => (crashes = 0 /\ Supply(denom) <= MaxUint64 => ReceiptsNeverPanic)
  <2> SUFFICES ASSUME TransactionsInv, Sync, Inv, crashes = 0,
                      Supply(denom) <= MaxUint64,
                      NEW a \in Accounts, NEW tx \in Outstanding(a), ~IsSpend(tx),
                      \A other \in Outstanding(a) : tx.seq <= other.seq
               PROVE  tx.amount <= MaxUint64 - wallet[a].Value
    BY DEF ReceiptsNeverPanic
  <2>1. PICK P : TracksBalance(a, P) /\ Dominated(Outstanding(a), P)
    BY DEF NeverAbove
  <2> QED
    BY <2>1, ReceiptFits
<1>4. WalletSpec /\ []StaleWalletOpensNothing => []Sync
  BY WalletsKeepUp
<1> HIDE DEF Sync, Inv
<1> QED
  BY <1>1, <1>2, <1>3, <1>4, TransactionsInvariance, PTL DEF WalletSpec
=============================================================================
