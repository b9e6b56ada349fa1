------------------------- MODULE ConfidentialLedger -------------------------
(***************************************************************************)
(* What x/confidential promises, with the cryptography taken away: every    *)
(* account has public coins, a spendable confidential balance and an        *)
(* incoming one, and an operation moves a whole amount from one place to    *)
(* another.  Nothing is created, nothing is destroyed, nothing goes below   *)
(* zero, and only members (accounts with a key) hold confidential coins.    *)
(***************************************************************************)
EXTENDS Integers

CONSTANTS Accounts, Denoms, InitialFunds

VARIABLES public, spendable, incoming, members

vars == <<public, spendable, incoming, members>>

Empty == [a \in Accounts |-> [d \in Denoms |-> 0]]

Init ==
    /\ public = InitialFunds
    /\ spendable = Empty
    /\ incoming = Empty
    /\ members = {}

Join(a) ==
    /\ a \notin members
    /\ members' = members \cup {a}
    /\ UNCHANGED <<public, spendable, incoming>>

Deposit(a, d) ==
    /\ a \in members
    /\ \E n \in 1 .. public[a][d] :
         /\ public' = [public EXCEPT ![a][d] = @ - n]
         /\ spendable' = [spendable EXCEPT ![a][d] = @ + n]
    /\ UNCHANGED <<incoming, members>>

Transfer(a, b, d) ==
    /\ a # b
    /\ {a, b} \subseteq members
    /\ \E n \in 1 .. spendable[a][d] :
         /\ spendable' = [spendable EXCEPT ![a][d] = @ - n]
         /\ incoming' = [incoming EXCEPT ![b][d] = @ + n]
    /\ UNCHANGED <<public, members>>

(* Accepting takes everything that has arrived, never a part of it. *)
Accept(a, d) ==
    /\ spendable' = [spendable EXCEPT ![a][d] = @ + incoming[a][d]]
    /\ incoming' = [incoming EXCEPT ![a][d] = 0]
    /\ UNCHANGED <<public, members>>

Withdraw(a, d) ==
    /\ \E n \in 1 .. spendable[a][d] :
         /\ spendable' = [spendable EXCEPT ![a][d] = @ - n]
         /\ public' = [public EXCEPT ![a][d] = @ + n]
    /\ UNCHANGED <<incoming, members>>

Next ==
    \E a \in Accounts :
        \/ Join(a)
        \/ \E d \in Denoms :
              \/ Deposit(a, d)
              \/ \E b \in Accounts : Transfer(a, b, d)
              \/ Accept(a, d)
              \/ Withdraw(a, d)

Spec == Init /\ [][Next]_vars
=============================================================================
