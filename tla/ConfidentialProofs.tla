------------------------- MODULE ConfidentialProofs -------------------------
(***************************************************************************)
(* The safety of the keeper for every set of accounts, denominations and    *)
(* messages, every field order and every range bound.                       *)
(***************************************************************************)
EXTENDS Confidential, LibraryProofs

(***************************************************************************)
(* What the homomorphic operations of the keeper return                     *)
(***************************************************************************)

(* A stored balance stands for a scalar. *)
LEMMA PlaintextType ==
    ASSUME NEW stored \in Ciphertext \cup {Nil}
    PROVE  /\ Plaintext(stored) \in Field
           /\ Plaintext(stored) \in Nat
           /\ Plaintext(stored) < FieldOrder
<1>1. unmarshalOrZero(stored) \in Ciphertext
  BY FieldAssumption DEF unmarshalOrZero, Ciphertext, Field
<1> QED
  BY <1>1, FieldAssumption DEF Plaintext, Ciphertext, Field

(* Scalars are closed under addition and subtraction; a sum below the order *)
(* of the field and a difference of ordered scalars are those of numbers.   *)
LEMMA FieldArithmetic ==
    ASSUME NEW x \in Field, NEW y \in Field
    PROVE  /\ FieldAdd(x, y) \in Field
           /\ FieldSub(x, y) \in Field
           /\ x + y < FieldOrder => FieldAdd(x, y) = x + y
           /\ y <= x => FieldSub(x, y) = x - y
  BY FieldAssumption DEF Field, FieldAdd, FieldSub

(* A range proof over the subtrahend and the difference rules out wrapping. *)
LEMMA InRangeNoWrap ==
    ASSUME NEW x \in Field, NEW y \in Field, NEW bound \in Nat,
           2 * bound <= FieldOrder, y < bound, FieldSub(x, y) < bound
    PROVE  y <= x /\ FieldSub(x, y) = x - y
  BY FieldAssumption DEF Field, FieldSub

(* The key a sum is under. *)
LEMMA CommonKeyDecrypts ==
    ASSUME NEW a \in Ciphertext, NEW b \in Ciphertext, NEW pk \in Keys
    PROVE  /\ CommonKey(a, b) \in Keys \cup {AnyKey, Garbled}
           /\ DecryptsUnder(a, pk) /\ DecryptsUnder(b, pk)
                => CommonKey(a, b) \in {pk, AnyKey}
  BY NilAssumption DEF CommonKey, DecryptsUnder, Ciphertext

(* Canonical yields a ciphertext with the plaintext it is given. *)
LEMMA CanonicalType ==
    ASSUME NEW k \in Keys \cup {AnyKey, Garbled}, NEW v \in Field, NEW r \in Field
    PROVE  /\ Canonical(k, v, r) \in Ciphertext
           /\ Canonical(k, v, r).v = v
           /\ \A pk \in Keys : k \in {pk, AnyKey} => DecryptsUnder(Canonical(k, v, r), pk)
  BY NilAssumption DEF Canonical, Ciphertext, DecryptsUnder

(* An encryption decrypts under its key, to its plaintext. *)
LEMMA EncryptType ==
    ASSUME NEW v \in Field, NEW pk \in Keys, NEW r \in Field
    PROVE  /\ EncryptWithRandomness(v, pk, r) \in Ciphertext
           /\ EncryptWithRandomness(v, pk, r).v = v
           /\ DecryptsUnder(EncryptWithRandomness(v, pk, r), pk)
  BY CanonicalType DEF EncryptWithRandomness

(* Adding to and subtracting from a stored balance works on plaintexts, and *)
(* leaves a balance under the key both operands are under.                  *)
LEMMA HomomorphicOperations ==
    ASSUME NEW stored \in Ciphertext \cup {Nil}, NEW ct \in Ciphertext
    PROVE  /\ addCiphertexts(stored, ct) \in Ciphertext
           /\ addCiphertexts(stored, ct).v = FieldAdd(Plaintext(stored), ct.v)
           /\ subCiphertexts(stored, ct) \in Ciphertext
           /\ subCiphertexts(stored, ct).v = FieldSub(Plaintext(stored), ct.v)
           /\ \A pk \in Keys :
                (stored = Nil \/ DecryptsUnder(stored, pk)) /\ DecryptsUnder(ct, pk)
                  => /\ DecryptsUnder(addCiphertexts(stored, ct), pk)
                     /\ DecryptsUnder(subCiphertexts(stored, ct), pk)
<1> DEFINE a == unmarshalOrZero(stored)
<1>1. a \in Ciphertext /\ a.v = Plaintext(stored)
  BY FieldAssumption DEF unmarshalOrZero, Ciphertext, Field, Plaintext
<1>2. /\ a.v \in Field /\ a.r \in Field /\ ct.v \in Field /\ ct.r \in Field
  BY <1>1 DEF Ciphertext
<1>3. \A pk \in Keys :
        stored = Nil \/ DecryptsUnder(stored, pk) => DecryptsUnder(a, pk)
  BY DEF unmarshalOrZero, DecryptsUnder
<1> HIDE DEF a
<1>4. CommonKey(a, ct) \in Keys \cup {AnyKey, Garbled}
  BY <1>1, NilAssumption DEF CommonKey, Ciphertext
<1>5. /\ FieldAdd(a.v, ct.v) \in Field /\ FieldAdd(a.r, ct.r) \in Field
      /\ FieldSub(a.v, ct.v) \in Field /\ FieldSub(a.r, ct.r) \in Field
  BY <1>2, FieldArithmetic
<1>6. /\ Add(a, ct) \in Ciphertext /\ Add(a, ct).v = FieldAdd(a.v, ct.v)
      /\ Sub(a, ct) \in Ciphertext /\ Sub(a, ct).v = FieldSub(a.v, ct.v)
  <2>1. Add(a, ct) \in Ciphertext /\ Add(a, ct).v = FieldAdd(a.v, ct.v)
    BY <1>4, <1>5, CanonicalType, ZenonT(60) DEF Add
  <2>2. Sub(a, ct) \in Ciphertext /\ Sub(a, ct).v = FieldSub(a.v, ct.v)
    BY <1>4, <1>5, CanonicalType, ZenonT(60) DEF Sub
  <2> QED
    BY <2>1, <2>2
<1>7. ASSUME NEW pk \in Keys, DecryptsUnder(a, pk), DecryptsUnder(ct, pk)
      PROVE  DecryptsUnder(Add(a, ct), pk) /\ DecryptsUnder(Sub(a, ct), pk)
  <2>1. CommonKey(a, ct) \in {pk, AnyKey}
    BY <1>1, <1>7, CommonKeyDecrypts
  <2> QED
    BY <2>1, <1>4, <1>5, CanonicalType DEF Add, Sub
<1> QED
  BY <1>1, <1>3, <1>6, <1>7 DEF addCiphertexts, subCiphertexts, a

(* Encryptions under one key add up and subtract to the encryption of the   *)
(* sum and of the difference, under the sum and the difference of their     *)
(* randomness: who knows the openings of the operands knows the result's.   *)
LEMMA OpeningsCombine ==
    ASSUME NEW pk \in Keys, NEW v \in Field, NEW r \in Field,
           NEW w \in Field, NEW q \in Field
    PROVE  /\ Add(EncryptWithRandomness(v, pk, r), EncryptWithRandomness(w, pk, q))
                = EncryptWithRandomness(FieldAdd(v, w), pk, FieldAdd(r, q))
           /\ Sub(EncryptWithRandomness(v, pk, r), EncryptWithRandomness(w, pk, q))
                = EncryptWithRandomness(FieldSub(v, w), pk, FieldSub(r, q))
<1> DEFINE a == EncryptWithRandomness(v, pk, r)
           b == EncryptWithRandomness(w, pk, q)
<1>1. /\ a = [key |-> IF r = 0 THEN AnyKey ELSE pk, v |-> v, r |-> r]
      /\ b = [key |-> IF q = 0 THEN AnyKey ELSE pk, v |-> w, r |-> q]
  BY NilAssumption DEF EncryptWithRandomness, Canonical
<1>2. CommonKey(a, b) = IF r = 0 /\ q = 0 THEN AnyKey ELSE pk
  BY <1>1, NilAssumption DEF CommonKey
<1>3. r = 0 /\ q = 0 => FieldAdd(r, q) = 0 /\ FieldSub(r, q) = 0
  BY FieldAssumption DEF FieldAdd, FieldSub
<1>4. a.v = v /\ a.r = r /\ b.v = w /\ b.r = q
  BY <1>1
<1> HIDE DEF a, b
<1>5. /\ Add(a, b) = EncryptWithRandomness(FieldAdd(v, w), pk, FieldAdd(r, q))
      /\ Sub(a, b) = EncryptWithRandomness(FieldSub(v, w), pk, FieldSub(r, q))
  BY <1>2, <1>3, <1>4, NilAssumption DEF Add, Sub, EncryptWithRandomness, Canonical
<1> QED
  BY <1>5 DEF a, b

(* No wallet holds an opening that the garbled ciphertext has. *)
LEMMA EncryptionNotGarbled ==
    ASSUME NEW pk \in Keys, NEW v, NEW r
    PROVE  /\ EncryptWithRandomness(v, pk, r) # EncryptWithRandomness(0, Garbled, 0)
           /\ ~DecryptsUnder(EncryptWithRandomness(0, Garbled, 0), pk)
  BY NilAssumption DEF EncryptWithRandomness, Canonical, DecryptsUnder

(* The opening of an encryption is unique. *)
LEMMA OpeningUnique ==
    ASSUME NEW pk, NEW v, NEW r, NEW w, NEW q,
           EncryptWithRandomness(v, pk, r) = EncryptWithRandomness(w, pk, q)
    PROVE  v = w /\ r = q
  BY DEF EncryptWithRandomness, Canonical

(***************************************************************************)
(* The inductive invariant                                                  *)
(***************************************************************************)

(* A registered key is one whose secret the owner of the account holds. *)
KeysOwned == \A a \in Accounts : pubkey[a] \in Controls[a] \cup {Nil}

(* x/bank moves coins between the accounts and the escrow, and mints none. *)
CoinsConserved ==
    \A d \in Denoms : Total(CoinsOf(bank, d)) + escrow[d] = Supply(d)

IInv ==
    /\ TypeOK
    /\ KeysOwned
    /\ OwnerCanDecrypt
    /\ PendingZeroFlagSound
    /\ CoinsConserved
    /\ EscrowBacksBalances

(***************************************************************************)
(* Sums over the accounts                                                   *)
(***************************************************************************)

(* TotalChange for the accounts of the chain. *)
LEMMA OneAccountChanges ==
    ASSUME NEW f, NEW g, NEW a \in Accounts,
           f \in [Accounts -> Nat], g \in [Accounts -> Nat],
           \A b \in Accounts \ {a} : f[b] = g[b]
    PROVE  Total(g) = Total(f) - f[a] + g[a] /\ f[a] <= Total(f)
<1>1. IsFiniteSet(Accounts)
  BY AccountsAssumption
<1> QED
  BY <1>1, TotalChange

(* t is s with the coins of a in d set to n, and what that does to the sums. *)
CoinsWritten(s, t, a, d, n) ==
    /\ t \in [Accounts -> [Denoms -> Nat]]
    /\ \A e \in Denoms : Total(CoinsOf(s, e)) \in Nat
    /\ \A e \in Denoms \ {d} : CoinsOf(t, e) = CoinsOf(s, e)
    /\ Total(CoinsOf(t, d)) = Total(CoinsOf(s, d)) - s[a][d] + n
    /\ s[a][d] <= Total(CoinsOf(s, d))

(* The same for ct in a store of ciphertexts, and the sums of plaintexts. *)
BalanceWritten(s, t, a, d, ct) ==
    /\ t \in [Accounts -> [Denoms -> Ciphertext \cup {Nil}]]
    /\ t[a][d] = ct
    /\ \A b \in Accounts, e \in Denoms : b # a \/ e # d => t[b][e] = s[b][e]
    /\ \A e \in Denoms : Total(PlaintextsOf(s, e)) \in Nat
    /\ \A e \in Denoms \ {d} : PlaintextsOf(t, e) = PlaintextsOf(s, e)
    /\ Total(PlaintextsOf(t, d))
         = Total(PlaintextsOf(s, d)) - Plaintext(s[a][d]) + ct.v
    /\ Plaintext(s[a][d]) <= Total(PlaintextsOf(s, d))

(* A store of coins that changes in one cell changes one sum. *)
LEMMA CoinsChange ==
    ASSUME NEW s \in [Accounts -> [Denoms -> Nat]], NEW a \in Accounts,
           NEW d \in Denoms, NEW n \in Nat
    PROVE  CoinsWritten(s, [s EXCEPT ![a][d] = n], a, d, n)
<1> DEFINE t == [s EXCEPT ![a][d] = n]
<1>1. /\ t \in [Accounts -> [Denoms -> Nat]]
      /\ t[a][d] = n
      /\ \A b \in Accounts, e \in Denoms : b # a \/ e # d => t[b][e] = s[b][e]
  OBVIOUS
<1> HIDE DEF t
<1>2. ASSUME NEW e \in Denoms
      PROVE  Total(CoinsOf(s, e)) \in Nat
  <2>1. CoinsOf(s, e) \in [Accounts -> Nat]
    BY DEF CoinsOf
  <2> QED
    BY <2>1, UnitsFinite, AccountsAssumption
<1>3. \A e \in Denoms \ {d} : CoinsOf(t, e) = CoinsOf(s, e)
  BY <1>1 DEF CoinsOf
<1> DEFINE f == CoinsOf(s, d)
           g == CoinsOf(t, d)
<1>4. /\ f \in [Accounts -> Nat] /\ g \in [Accounts -> Nat]
      /\ \A b \in Accounts \ {a} : f[b] = g[b]
      /\ f[a] = s[a][d] /\ g[a] = n
  BY <1>1 DEF CoinsOf
<1> HIDE DEF f, g
<1>5. Total(g) = Total(f) - f[a] + g[a] /\ f[a] <= Total(f)
  BY <1>4, OneAccountChanges
<1>6. CoinsWritten(s, t, a, d, n)
  BY <1>1, <1>2, <1>3, <1>4, <1>5 DEF f, g, CoinsWritten
<1> QED
  BY <1>6 DEF t

(* A store of balances that changes in one cell changes one sum. *)
LEMMA BalanceChange ==
    ASSUME NEW s \in [Accounts -> [Denoms -> Ciphertext \cup {Nil}]],
           NEW a \in Accounts, NEW d \in Denoms, NEW ct \in Ciphertext
    PROVE  BalanceWritten(s, [s EXCEPT ![a][d] = ct], a, d, ct)
<1> DEFINE t == [s EXCEPT ![a][d] = ct]
<1>1. /\ t \in [Accounts -> [Denoms -> Ciphertext \cup {Nil}]]
      /\ t[a][d] = ct
      /\ \A b \in Accounts, e \in Denoms : b # a \/ e # d => t[b][e] = s[b][e]
  OBVIOUS
<1> HIDE DEF t
<1>2. \A b \in Accounts, e \in Denoms :
        Plaintext(s[b][e]) \in Nat /\ Plaintext(t[b][e]) \in Nat
  BY <1>1, PlaintextType
<1>3. ASSUME NEW e \in Denoms
      PROVE  Total(PlaintextsOf(s, e)) \in Nat
  <2>1. PlaintextsOf(s, e) \in [Accounts -> Nat]
    BY <1>2 DEF PlaintextsOf
  <2> QED
    BY <2>1, UnitsFinite, AccountsAssumption
<1>4. \A e \in Denoms \ {d} : PlaintextsOf(t, e) = PlaintextsOf(s, e)
  BY <1>1 DEF PlaintextsOf
<1>5. Plaintext(t[a][d]) = ct.v
  BY <1>1, NilAssumption DEF Plaintext, unmarshalOrZero
<1> DEFINE f == PlaintextsOf(s, d)
           g == PlaintextsOf(t, d)
<1>6. /\ f \in [Accounts -> Nat] /\ g \in [Accounts -> Nat]
      /\ \A b \in Accounts \ {a} : f[b] = g[b]
      /\ f[a] = Plaintext(s[a][d]) /\ g[a] = ct.v
  BY <1>1, <1>2, <1>5 DEF PlaintextsOf
<1> HIDE DEF f, g
<1>7. Total(g) = Total(f) - f[a] + g[a] /\ f[a] <= Total(f)
  BY <1>6, OneAccountChanges
<1>8. BalanceWritten(s, t, a, d, ct)
  BY <1>1, <1>3, <1>4, <1>6, <1>7 DEF f, g, BalanceWritten
<1> QED
  BY <1>8 DEF t

(***************************************************************************)
(* What the invariant says of the numbers of one account                    *)
(***************************************************************************)

(* Every balance, and the sum of any two of them, is below the field order: *)
(* the public coins and the escrow share one supply, and the encrypted      *)
(* balances share the escrow.                                               *)
LEMMA BalancesBounded ==
    ASSUME IInv, NEW a \in Accounts, NEW d \in Denoms
    PROVE  /\ Plaintext(available[a][d]) \in Field /\ Plaintext(pending[a][d]) \in Field
           /\ Total(PlaintextsOf(available, d)) \in Nat
           /\ Total(PlaintextsOf(pending, d)) \in Nat
           /\ Plaintext(available[a][d]) <= Total(PlaintextsOf(available, d))
           /\ Plaintext(pending[a][d]) <= Total(PlaintextsOf(pending, d))
           /\ Total(PlaintextsOf(available, d)) + Total(PlaintextsOf(pending, d)) = escrow[d]
           /\ bank[a][d] + escrow[d] < FieldOrder
           /\ bank[a][d] \in Nat /\ escrow[d] \in Nat
<1>1. /\ available \in [Accounts -> [Denoms -> Ciphertext \cup {Nil}]]
      /\ pending \in [Accounts -> [Denoms -> Ciphertext \cup {Nil}]]
      /\ bank \in [Accounts -> [Denoms -> Nat]]
      /\ escrow \in [Denoms -> Nat]
  BY DEF IInv, TypeOK
<1>2. /\ Plaintext(available[a][d]) \in Field
      /\ Plaintext(pending[a][d]) \in Field
  BY <1>1, PlaintextType
<1>3. PICK ct \in Ciphertext : TRUE
  <2>1. EncryptWithRandomness(0, AnyKey, 0) \in Ciphertext
    BY FieldAssumption DEF EncryptWithRandomness, Canonical, Ciphertext, Field
  <2> QED
    BY <2>1
<1>4. /\ Total(PlaintextsOf(available, d)) \in Nat
      /\ Plaintext(available[a][d]) <= Total(PlaintextsOf(available, d))
  <2>1. BalanceWritten(available, [available EXCEPT ![a][d] = ct], a, d, ct)
    BY <1>1, BalanceChange
  <2> QED
    BY <2>1 DEF BalanceWritten
<1>5. /\ Total(PlaintextsOf(pending, d)) \in Nat
      /\ Plaintext(pending[a][d]) <= Total(PlaintextsOf(pending, d))
  <2>1. BalanceWritten(pending, [pending EXCEPT ![a][d] = ct], a, d, ct)
    BY <1>1, BalanceChange
  <2> QED
    BY <2>1 DEF BalanceWritten
<1>6. /\ Total(CoinsOf(bank, d)) \in Nat
      /\ bank[a][d] <= Total(CoinsOf(bank, d))
  <2>1. CoinsWritten(bank, [bank EXCEPT ![a][d] = 0], a, d, 0)
    BY <1>1, CoinsChange
  <2> QED
    BY <2>1 DEF CoinsWritten
<1>7. Total(CoinsOf(bank, d)) + escrow[d] = Supply(d) /\ Supply(d) < FieldOrder
  BY FundsAssumption DEF IInv, CoinsConserved
<1>8. /\ bank[a][d] \in Nat /\ escrow[d] \in Nat
  BY <1>1
<1>9. bank[a][d] + escrow[d] < FieldOrder
  BY <1>6, <1>7, <1>8, FieldAssumption
<1>10. Total(PlaintextsOf(available, d)) + Total(PlaintextsOf(pending, d)) = escrow[d]
  BY DEF IInv, EscrowBacksBalances
<1> QED
  BY <1>2, <1>4, <1>5, <1>8, <1>9, <1>10

(***************************************************************************)
(* Each handler preserves the invariant                                     *)
(***************************************************************************)

(* The key an account has registered is a key. *)
LEMMA RegisteredKey ==
    ASSUME IInv, NEW a \in Accounts, HasRegisteredKey(a)
    PROVE  pubkey[a] \in Keys /\ pubkey[a] \in Controls[a]
  BY NilAssumption DEF IInv, TypeOK, KeysOwned, HasRegisteredKey

(* The sums keep their relations when coins move between one account and    *)
(* the escrow, and the balances of one denomination move by as much.        *)
EscrowMoved(d, n) ==
    /\ escrow' \in [Denoms -> Nat]
    /\ escrow'[d] = escrow[d] + n
    /\ \A e \in Denoms \ {d} : escrow'[e] = escrow[e]

(* Coins that leave an account for the escrow (or come back) are conserved. *)
LEMMA CoinsKept ==
    ASSUME IInv, NEW a \in Accounts, NEW d \in Denoms, NEW n \in Int,
           NEW coins1, coins1 = bank[a][d] - n,
           CoinsWritten(bank, bank', a, d, coins1), EscrowMoved(d, n)
    PROVE  CoinsConserved'
<1>1. ASSUME NEW e \in Denoms, e # d
      PROVE  Total(CoinsOf(bank', e)) + escrow'[e] = Supply(e)
  BY <1>1 DEF IInv, CoinsConserved, CoinsWritten, EscrowMoved
<1>2. Total(CoinsOf(bank', d)) + escrow'[d] = Supply(d)
  <2>1. Total(CoinsOf(bank, d)) \in Nat /\ bank[a][d] \in Nat /\ escrow[d] \in Nat
    BY DEF CoinsWritten, IInv, TypeOK
  <2>2. Total(CoinsOf(bank, d)) + escrow[d] = Supply(d)
    BY DEF IInv, CoinsConserved
  <2>3. Total(CoinsOf(bank', d)) = Total(CoinsOf(bank, d)) - n
    BY <2>1 DEF CoinsWritten
  <2> QED
    BY <2>1, <2>2, <2>3 DEF EscrowMoved
<1> QED
  BY <1>1, <1>2 DEF CoinsConserved, Supply

(* The escrow still backs the balances when both grow by the same amount.  *)
LEMMA BackingKept ==
    ASSUME IInv, NEW d \in Denoms,
           \A e \in Denoms \ {d} :
               /\ PlaintextsOf(available', e) = PlaintextsOf(available, e)
               /\ PlaintextsOf(pending', e) = PlaintextsOf(pending, e)
               /\ escrow'[e] = escrow[e],
           escrow'[d] - escrow[d]
             = (Total(PlaintextsOf(available', d)) - Total(PlaintextsOf(available, d)))
               + (Total(PlaintextsOf(pending', d)) - Total(PlaintextsOf(pending, d))),
           {Total(PlaintextsOf(available, d)), Total(PlaintextsOf(pending, d)),
            Total(PlaintextsOf(available', d)), Total(PlaintextsOf(pending', d)),
            escrow[d], escrow'[d]} \subseteq Int
    PROVE  EscrowBacksBalances'
<1>1. ASSUME NEW e \in Denoms, e # d
      PROVE  escrow'[e] = Total(PlaintextsOf(available', e)) + Total(PlaintextsOf(pending', e))
  BY <1>1 DEF IInv, EscrowBacksBalances
<1>2. escrow'[d] = Total(PlaintextsOf(available', d)) + Total(PlaintextsOf(pending', d))
  BY DEF IInv, EscrowBacksBalances
<1> QED
  BY <1>1, <1>2 DEF EscrowBacksBalances

(* n coins of an account go into the escrow (or, for n < 0, come back), and *)
(* its spendable balance becomes new, which stands for n more.              *)
EscrowExchange(a, d, n, new) ==
    /\ pubkey[a] \in Controls[a]
    /\ new \in Ciphertext
    /\ new.v = Plaintext(available[a][d]) + n
    /\ DecryptsUnder(new, pubkey[a])
    /\ CoinsWritten(bank, bank', a, d, bank[a][d] - n)
    /\ EscrowMoved(d, n)
    /\ BalanceWritten(available, available', a, d, new)
    /\ UNCHANGED <<pubkey, pending, pendingIsZero, auditor>>

(* Such an exchange preserves the invariant. *)
LEMMA EscrowExchangeStep ==
    ASSUME IInv, NEW a \in Accounts, NEW d \in Denoms, NEW n \in Int, NEW new,
           EscrowExchange(a, d, n, new)
    PROVE  IInv'
<1>1. /\ pubkey[a] \in Controls[a]
      /\ new \in Ciphertext /\ new.v = Plaintext(available[a][d]) + n
      /\ DecryptsUnder(new, pubkey[a])
      /\ CoinsWritten(bank, bank', a, d, bank[a][d] - n)
      /\ EscrowMoved(d, n)
      /\ BalanceWritten(available, available', a, d, new)
      /\ UNCHANGED <<pubkey, pending, pendingIsZero, auditor>>
  BY DEF EscrowExchange
<1>2. TypeOK'
  <2>1. bank' \in [Accounts -> [Denoms -> Nat]]
    BY <1>1 DEF IInv, TypeOK, CoinsWritten
  <2>2. available' \in [Accounts -> [Denoms -> Ciphertext \cup {Nil}]]
    BY <1>1 DEF IInv, TypeOK, BalanceWritten
  <2>3. escrow' \in [Denoms -> Nat]
    BY <1>1 DEF IInv, TypeOK, EscrowMoved
  <2> QED
    BY <1>1, <2>1, <2>2, <2>3 DEF IInv, TypeOK
<1>3. KeysOwned'
  BY <1>1 DEF IInv, KeysOwned
<1>4. OwnerCanDecrypt'
  BY <1>1, ZenonT(60) DEF IInv, OwnerCanDecrypt, BalanceWritten
<1>5. PendingZeroFlagSound'
  BY <1>1 DEF IInv, PendingZeroFlagSound
<1>6. CoinsConserved'
  BY <1>1, CoinsKept
<1>7. EscrowBacksBalances'
  <2>1. /\ Total(PlaintextsOf(available', d)) = Total(PlaintextsOf(available, d)) + n
        /\ Total(PlaintextsOf(available, d)) \in Nat
        /\ Total(PlaintextsOf(pending, d)) \in Nat
    BY <1>1, BalancesBounded DEF BalanceWritten, Field
  <2>2. \A e \in Denoms \ {d} :
          /\ PlaintextsOf(available', e) = PlaintextsOf(available, e)
          /\ PlaintextsOf(pending', e) = PlaintextsOf(pending, e)
          /\ escrow'[e] = escrow[e]
    BY <1>1 DEF BalanceWritten, EscrowMoved
  <2>3. /\ Total(PlaintextsOf(pending', d)) = Total(PlaintextsOf(pending, d))
        /\ escrow'[d] = escrow[d] + n
        /\ escrow[d] \in Nat
    BY <1>1 DEF EscrowMoved, IInv, TypeOK
  <2> QED
    BY <2>1, <2>2, <2>3, BackingKept
<1> QED
  BY <1>2, <1>3, <1>4, <1>5, <1>6, <1>7 DEF IInv

(* Shielding takes its amount from the coins of the account and adds it to  *)
(* the escrow and to the spendable balance: the bank's supply keeps both    *)
(* from wrapping.                                                           *)
LEMMA ShieldEffect ==
    ASSUME IInv, NEW m \in ShieldMsg, Shield(m)
    PROVE  LET a == m.sender
               d == m.denom
               new == addCiphertexts(available[a][d], m.ciphertext)
           IN  /\ a \in Accounts /\ d \in Denoms
               /\ m.amount \in Nat \ {0} /\ m.amount <= bank[a][d]
               /\ EscrowExchange(a, d, m.amount, new)
<1> DEFINE a == m.sender
           d == m.denom
           old == available[a][d]
           new == addCiphertexts(old, m.ciphertext)
           coins1 == bank[a][d] - m.amount
<1>1. /\ a \in Accounts /\ d \in Denoms /\ m.amount \in Int
      /\ m.ciphertext \in Ciphertext
  BY DEF ShieldMsg
<1>2. /\ HasRegisteredKey(a) /\ m.amount > 0 /\ m.amount <= bank[a][d]
      /\ DecryptsUnder(m.ciphertext, pubkey[a]) /\ m.ciphertext.v = m.amount
  BY DEF Shield, ShieldVerified, ValidAmount, verifyDLEQ
<1>3. /\ bank' = [bank EXCEPT ![a][d] = coins1]
      /\ available' = [available EXCEPT ![a][d] = new]
      /\ UNCHANGED <<pubkey, pending, pendingIsZero, auditor>>
  BY DEF Shield
<1>4. pubkey[a] \in Keys /\ pubkey[a] \in Controls[a]
  BY <1>1, <1>2, RegisteredKey
<1>5. /\ available \in [Accounts -> [Denoms -> Ciphertext \cup {Nil}]]
      /\ bank \in [Accounts -> [Denoms -> Nat]]
      /\ escrow \in [Denoms -> Nat]
      /\ old \in Ciphertext \cup {Nil}
  BY <1>1 DEF IInv, TypeOK
<1>6. old = Nil \/ DecryptsUnder(old, pubkey[a])
  BY <1>1 DEF IInv, OwnerCanDecrypt
<1>7. /\ Plaintext(old) \in Field
      /\ Plaintext(old) + m.amount < FieldOrder
  BY <1>1, <1>2, BalancesBounded, FieldAssumption DEF Field
<1>8. /\ new \in Ciphertext
      /\ new.v = Plaintext(old) + m.amount
      /\ DecryptsUnder(new, pubkey[a])
  <2>1. m.ciphertext.v \in Field
    BY <1>1 DEF Ciphertext
  <2>2. FieldAdd(Plaintext(old), m.ciphertext.v) = Plaintext(old) + m.amount
    BY <2>1, <1>2, <1>7, FieldArithmetic
  <2> QED
    BY <2>2, <1>1, <1>2, <1>4, <1>5, <1>6, HomomorphicOperations
<1>9. coins1 \in Nat
  BY <1>1, <1>2, <1>5
<1>10. CoinsWritten(bank, bank', a, d, coins1)
  <2>1. CoinsWritten(bank, [bank EXCEPT ![a][d] = coins1], a, d, coins1)
    BY <1>1, <1>5, <1>9, CoinsChange
  <2> QED
    BY <2>1, <1>3
<1>11. BalanceWritten(available, available', a, d, new)
  <2>1. BalanceWritten(available, [available EXCEPT ![a][d] = new], a, d, new)
    BY <1>1, <1>5, <1>8, BalanceChange
  <2> QED
    BY <2>1, <1>3
<1>12. EscrowMoved(d, m.amount)
  BY <1>1, <1>2, <1>5 DEF Shield, EscrowMoved
<1> HIDE DEF a, d, old, new, coins1
<1>13. m.amount \in Nat \ {0}
  BY <1>1, <1>2
<1>14. /\ a \in Accounts /\ d \in Denoms
       /\ m.amount \in Nat \ {0} /\ m.amount <= bank[a][d]
       /\ EscrowExchange(a, d, m.amount, new)
  BY <1>1, <1>2, <1>3, <1>4, <1>8, <1>10, <1>11, <1>12, <1>13 DEF EscrowExchange, coins1, old
<1> QED
  BY <1>14 DEF a, d, old, new

(* Shielding preserves the invariant. *)
LEMMA ShieldStep ==
    ASSUME IInv, NEW m \in ShieldMsg, Shield(m)
    PROVE  IInv'
<1>1. m.amount \in Int
  BY DEF ShieldMsg
<1> QED
  BY <1>1, ShieldEffect, EscrowExchangeStep

(* A withdrawal that verifies is covered by the balance: a remainder in     *)
(* range cannot be a wrapped difference.                                    *)
LEMMA UnshieldCovered ==
    ASSUME IInv, NEW m \in UnshieldMsg, UnshieldVerified(m)
    PROVE  /\ m.amount \in Nat \ {0}
           /\ m.amount <= Plaintext(available[m.sender][m.denom])
           /\ m.amount <= escrow[m.denom]
<1> DEFINE a == m.sender
           d == m.denom
           old == available[a][d]
           new == subCiphertexts(old, m.ciphertext)
<1>1. /\ a \in Accounts /\ d \in Denoms /\ m.amount \in Int
      /\ m.ciphertext \in Ciphertext
  BY DEF UnshieldMsg
<1>2. /\ m.amount > 0 /\ m.amount < RangeBound
      /\ m.ciphertext.v = m.amount
      /\ new.v = m.remainingCommitment /\ m.remainingCommitment < RangeBound
  BY DEF UnshieldVerified, ValidAmount, verifyDLEQ, verifyCommitmentEquality, verifyAggregateRange
<1>3. old \in Ciphertext \cup {Nil}
  BY <1>1 DEF IInv, TypeOK
<1>4. new.v = FieldSub(Plaintext(old), m.amount)
  BY <1>1, <1>2, <1>3, HomomorphicOperations
<1>5. m.amount \in Field
  BY <1>1, <1>2 DEF Ciphertext
<1>6. Plaintext(old) \in Field
  BY <1>3, PlaintextType
<1> HIDE DEF old, new
<1>7. m.amount <= Plaintext(old)
  BY <1>2, <1>4, <1>5, <1>6, InRangeNoWrap, RangeAssumption
<1>8. /\ Plaintext(old) <= Total(PlaintextsOf(available, d))
      /\ Total(PlaintextsOf(available, d)) \in Nat
      /\ Total(PlaintextsOf(pending, d)) \in Nat
      /\ Total(PlaintextsOf(available, d)) + Total(PlaintextsOf(pending, d)) = escrow[d]
  BY <1>1, BalancesBounded DEF old
<1> QED
  BY <1>1, <1>2, <1>6, <1>7, <1>8 DEF old, Field

(* Unshielding takes its amount from the spendable balance and the escrow   *)
(* and pays it out, without wrapping.                                       *)
LEMMA UnshieldEffect ==
    ASSUME IInv, NEW m \in UnshieldMsg, Unshield(m)
    PROVE  LET a == m.sender
               d == m.denom
               new == subCiphertexts(available[a][d], m.ciphertext)
           IN  /\ a \in Accounts /\ d \in Denoms
               /\ m.amount \in Nat \ {0}
               /\ m.amount <= Plaintext(available[a][d])
               /\ EscrowExchange(a, d, 0 - m.amount, new)
<1> DEFINE a == m.sender
           d == m.denom
           old == available[a][d]
           new == subCiphertexts(old, m.ciphertext)
           coins1 == bank[a][d] + m.amount
<1>1. /\ a \in Accounts /\ d \in Denoms /\ m.amount \in Int
      /\ m.ciphertext \in Ciphertext
  BY DEF UnshieldMsg
<1>2. /\ HasRegisteredKey(a)
      /\ DecryptsUnder(m.ciphertext, pubkey[a]) /\ m.ciphertext.v = m.amount
  BY DEF Unshield, UnshieldVerified, verifyDLEQ
<1>3. /\ bank' = [bank EXCEPT ![a][d] = coins1]
      /\ available' = [available EXCEPT ![a][d] = new]
      /\ UNCHANGED <<pubkey, pending, pendingIsZero, auditor>>
  BY DEF Unshield
<1>4. pubkey[a] \in Keys /\ pubkey[a] \in Controls[a]
  BY <1>1, <1>2, RegisteredKey
<1>5. /\ available \in [Accounts -> [Denoms -> Ciphertext \cup {Nil}]]
      /\ bank \in [Accounts -> [Denoms -> Nat]]
      /\ escrow \in [Denoms -> Nat]
      /\ old \in Ciphertext \cup {Nil}
  BY <1>1 DEF IInv, TypeOK
<1>6. old = Nil \/ DecryptsUnder(old, pubkey[a])
  BY <1>1 DEF IInv, OwnerCanDecrypt
<1>7. /\ m.amount \in Nat \ {0}
      /\ m.amount <= Plaintext(old)
      /\ m.amount <= escrow[d]
  BY UnshieldCovered DEF Unshield
<1>8. /\ new \in Ciphertext
      /\ new.v = Plaintext(old) - m.amount
      /\ DecryptsUnder(new, pubkey[a])
  <2>1. m.ciphertext.v \in Field /\ Plaintext(old) \in Field
    BY <1>1, <1>5, PlaintextType DEF Ciphertext
  <2>2. FieldSub(Plaintext(old), m.ciphertext.v) = Plaintext(old) - m.amount
    BY <2>1, <1>2, <1>7, FieldArithmetic
  <2> QED
    BY <2>2, <1>1, <1>2, <1>4, <1>5, <1>6, HomomorphicOperations
<1>9. coins1 \in Nat
  BY <1>1, <1>5, <1>7
<1>10. CoinsWritten(bank, bank', a, d, coins1)
  <2>1. CoinsWritten(bank, [bank EXCEPT ![a][d] = coins1], a, d, coins1)
    BY <1>1, <1>5, <1>9, CoinsChange
  <2> QED
    BY <2>1, <1>3
<1>11. BalanceWritten(available, available', a, d, new)
  <2>1. BalanceWritten(available, [available EXCEPT ![a][d] = new], a, d, new)
    BY <1>1, <1>5, <1>8, BalanceChange
  <2> QED
    BY <2>1, <1>3
<1>12. EscrowMoved(d, 0 - m.amount)
  BY <1>1, <1>7, <1>5 DEF Unshield, EscrowMoved
<1> HIDE DEF a, d, old, new, coins1
<1>13. coins1 = bank[a][d] - (0 - m.amount)
  BY <1>1, <1>5 DEF coins1
<1>14. new.v = Plaintext(old) + (0 - m.amount)
  <2>1. Plaintext(old) \in Nat
    BY <1>5, PlaintextType
  <2> QED
    BY <2>1, <1>1, <1>8
<1>15. /\ a \in Accounts /\ d \in Denoms
       /\ m.amount \in Nat \ {0}
       /\ m.amount <= Plaintext(old)
       /\ EscrowExchange(a, d, 0 - m.amount, new)
  BY <1>1, <1>3, <1>4, <1>7, <1>8, <1>10, <1>11, <1>12, <1>13, <1>14
     DEF EscrowExchange, old
<1> QED
  BY <1>15 DEF a, d, old, new

(* Unshielding preserves the invariant. *)
LEMMA UnshieldStep ==
    ASSUME IInv, NEW m \in UnshieldMsg, Unshield(m)
    PROVE  IInv'
<1>1. 0 - m.amount \in Int
  BY DEF UnshieldMsg
<1> QED
  BY <1>1, UnshieldEffect, EscrowExchangeStep

(* Registering a key preserves the invariant: an account without a key has *)
(* no balance yet, and the proof of possession shows who holds the secret.  *)
LEMMA RegisterKeyStep ==
    ASSUME IInv, NEW m \in RegisterKeyMsgs, RegisterKey(m)
    PROVE  IInv'
<1>1. m \in Messages /\ m.sender \in Accounts /\ m.type = "RegisterKey"
  BY DEF RegisterKeyMsgs, RegisterKeyMsg
<1>2. /\ m.pubkey \in Keys /\ pubkey[m.sender] = Nil
      /\ m.pop.key = m.pubkey /\ m.pop.sender = m.sender
      /\ pubkey' = [pubkey EXCEPT ![m.sender] = m.pubkey]
      /\ UNCHANGED <<coins, balances, auditor>>
  BY DEF RegisterKey, RegisterVerified, HasRegisteredKey, verifyPossession
<1>3. m.pubkey \in Controls[m.sender]
  BY <1>1, <1>2, MessagesAssumption
<1>4. TypeOK'
  BY <1>1, <1>2 DEF IInv, TypeOK, coins, balances
<1>5. KeysOwned'
  BY <1>1, <1>2, <1>3 DEF IInv, TypeOK, KeysOwned
<1>6. OwnerCanDecrypt'
  <2>1. SUFFICES ASSUME NEW a \in Accounts, NEW d \in Denoms,
                        NEW ct \in {available[a][d], pending[a][d]} \ {Nil}
                 PROVE  pubkey'[a] \in Controls[a] /\ DecryptsUnder(ct, pubkey'[a])
    BY <1>2 DEF OwnerCanDecrypt, balances
  <2>2. pubkey[a] \in Controls[a] /\ DecryptsUnder(ct, pubkey[a])
    BY DEF IInv, OwnerCanDecrypt
  <2>3. Controls[a] \subseteq Keys
    BY MessagesAssumption
  <2>4. a # m.sender
    BY <1>2, <2>2, <2>3, NilAssumption
  <2>5. pubkey'[a] = pubkey[a]
    BY <1>2, <2>4 DEF IInv, TypeOK
  <2> QED
    BY <2>2, <2>5
<1>7. PendingZeroFlagSound'
  BY <1>2 DEF IInv, PendingZeroFlagSound, balances
<1>8. CoinsConserved'
  BY <1>2 DEF IInv, CoinsConserved, coins, Supply
<1>9. EscrowBacksBalances'
  BY <1>2 DEF IInv, EscrowBacksBalances, coins, balances
<1> QED
  BY <1>4, <1>5, <1>6, <1>7, <1>8, <1>9 DEF IInv

(* Changing the auditor key preserves the invariant. *)
LEMMA SetAuditorKeyStep ==
    ASSUME IInv, NEW m \in SetAuditorKeyMsg, SetAuditorKey(m)
    PROVE  IInv'
<1>1. /\ auditor' \in Keys
      /\ UNCHANGED <<bank, escrow, pubkey, available, pending, pendingIsZero>>
  BY DEF SetAuditorKey, SetAuditorVerified, coins, balances
<1> QED
  BY <1>1 DEF IInv, TypeOK, KeysOwned, OwnerCanDecrypt, PendingZeroFlagSound,
              CoinsConserved, Supply, EscrowBacksBalances

(* Applying moves all that is incoming to the spendable balance, without    *)
(* wrapping, and leaves an encryption of zero behind.                       *)
LEMMA ApplyPendingEffect ==
    ASSUME IInv, NEW m \in ApplyPendingMsg, ApplyPending(m)
    PROVE  LET a == m.sender
               d == m.denom
               incoming == pending[a][d]
               new == addCiphertexts(available[a][d], m.newAvailableUpdate)
           IN  /\ a \in Accounts /\ d \in Denoms
               /\ pubkey[a] \in Controls[a]
               /\ new \in Ciphertext
               /\ new.v = Plaintext(available[a][d]) + Plaintext(incoming)
               /\ Plaintext(available[a][d]) \in Nat /\ Plaintext(incoming) \in Nat
               /\ DecryptsUnder(new, pubkey[a])
               /\ BalanceWritten(available, available', a, d, new)
               /\ \E zero \in Ciphertext :
                    /\ zero.v = 0 /\ DecryptsUnder(zero, pubkey[a])
                    /\ BalanceWritten(pending, pending', a, d, zero)
<1> DEFINE a == m.sender
           d == m.denom
           old == available[a][d]
           incoming == pending[a][d]
           new == addCiphertexts(old, m.newAvailableUpdate)
<1>1. /\ a \in Accounts /\ d \in Denoms /\ m.newAvailableUpdate \in Ciphertext
  BY DEF ApplyPendingMsg
<1>2. /\ HasRegisteredKey(a) /\ incoming # Nil
      /\ DecryptsUnder(m.newAvailableUpdate, pubkey[a])
      /\ m.newAvailableUpdate.v = incoming.v
  BY DEF ApplyPending, ApplyVerified, verifyApplyPending
<1>3. pubkey[a] \in Keys /\ pubkey[a] \in Controls[a]
  BY <1>1, <1>2, RegisteredKey
<1>4. PICK r \in ResetRandomness :
        pending' = [pending EXCEPT ![a][d] = EncryptWithRandomness(0, pubkey[a], r)]
  BY DEF ApplyPending
<1> DEFINE zero == EncryptWithRandomness(0, pubkey[a], r)
<1>5. zero \in Ciphertext /\ zero.v = 0 /\ DecryptsUnder(zero, pubkey[a])
  BY <1>3, EncryptType, ResetAssumption, FieldAssumption DEF Field
<1>6. available' = [available EXCEPT ![a][d] = new]
  BY DEF ApplyPending
<1>7. /\ available \in [Accounts -> [Denoms -> Ciphertext \cup {Nil}]]
      /\ pending \in [Accounts -> [Denoms -> Ciphertext \cup {Nil}]]
      /\ old \in Ciphertext \cup {Nil}
  BY <1>1 DEF IInv, TypeOK
<1>8. Plaintext(incoming) = m.newAvailableUpdate.v
  BY <1>2 DEF Plaintext, unmarshalOrZero
<1>9. /\ Plaintext(old) \in Field /\ Plaintext(incoming) \in Field
      /\ Plaintext(old) + Plaintext(incoming) < FieldOrder
  BY <1>1, BalancesBounded, FieldAssumption DEF Field
<1>10. /\ new \in Ciphertext
       /\ new.v = Plaintext(old) + Plaintext(incoming)
       /\ DecryptsUnder(new, pubkey[a])
  <2>1. old = Nil \/ DecryptsUnder(old, pubkey[a])
    BY <1>1 DEF IInv, OwnerCanDecrypt
  <2>2. FieldAdd(Plaintext(old), m.newAvailableUpdate.v) = Plaintext(old) + Plaintext(incoming)
    BY <1>8, <1>9, FieldArithmetic
  <2> QED
    BY <2>1, <2>2, <1>1, <1>2, <1>3, <1>7, HomomorphicOperations
<1>11. BalanceWritten(available, available', a, d, new)
  <2>1. BalanceWritten(available, [available EXCEPT ![a][d] = new], a, d, new)
    BY <1>1, <1>7, <1>10, BalanceChange
  <2> QED
    BY <2>1, <1>6
<1>12. BalanceWritten(pending, pending', a, d, zero)
  <2>1. BalanceWritten(pending, [pending EXCEPT ![a][d] = zero], a, d, zero)
    BY <1>1, <1>5, <1>7, BalanceChange
  <2> QED
    BY <2>1, <1>4
<1>13. Plaintext(old) \in Nat /\ Plaintext(incoming) \in Nat
  BY <1>9 DEF Field
<1> HIDE DEF a, d, old, incoming, new, zero
<1>14. /\ a \in Accounts /\ d \in Denoms
       /\ pubkey[a] \in Controls[a]
       /\ new \in Ciphertext
       /\ new.v = Plaintext(old) + Plaintext(incoming)
       /\ Plaintext(old) \in Nat /\ Plaintext(incoming) \in Nat
       /\ DecryptsUnder(new, pubkey[a])
       /\ BalanceWritten(available, available', a, d, new)
       /\ \E z \in Ciphertext :
            /\ z.v = 0 /\ DecryptsUnder(z, pubkey[a])
            /\ BalanceWritten(pending, pending', a, d, z)
  BY <1>1, <1>3, <1>5, <1>10, <1>11, <1>12, <1>13
<1> QED
  BY <1>14 DEF a, d, old, incoming, new

(* Applying what is pending preserves the invariant. *)
LEMMA ApplyPendingStep ==
    ASSUME IInv, NEW m \in ApplyPendingMsg, ApplyPending(m)
    PROVE  IInv'
<1> DEFINE a == m.sender
           d == m.denom
           incoming == pending[a][d]
           new == addCiphertexts(available[a][d], m.newAvailableUpdate)
<1>1. /\ a \in Accounts /\ d \in Denoms
      /\ pubkey[a] \in Controls[a]
      /\ new.v = Plaintext(available[a][d]) + Plaintext(incoming)
      /\ Plaintext(available[a][d]) \in Nat /\ Plaintext(incoming) \in Nat
      /\ DecryptsUnder(new, pubkey[a])
      /\ BalanceWritten(available, available', a, d, new)
  BY ApplyPendingEffect
<1>2. PICK zero \in Ciphertext :
        /\ zero.v = 0 /\ DecryptsUnder(zero, pubkey[a])
        /\ BalanceWritten(pending, pending', a, d, zero)
  BY ApplyPendingEffect
<1>3. /\ pendingIsZero' = [pendingIsZero EXCEPT ![a][d] = TRUE]
      /\ UNCHANGED <<bank, escrow, pubkey, auditor>>
  BY DEF ApplyPending, coins
<1>4. /\ pendingIsZero \in [Accounts -> [Denoms -> BOOLEAN]]
      /\ escrow \in [Denoms -> Nat]
  BY DEF IInv, TypeOK
<1>5. /\ pendingIsZero' \in [Accounts -> [Denoms -> BOOLEAN]]
      /\ \A b \in Accounts, e \in Denoms :
           b # a \/ e # d => pendingIsZero'[b][e] = pendingIsZero[b][e]
  BY <1>3, <1>4
<1> HIDE DEF a, d, incoming, new
<1>6. TypeOK'
  BY <1>1, <1>2, <1>3, <1>5 DEF IInv, TypeOK, BalanceWritten
<1>7. KeysOwned'
  BY <1>3 DEF IInv, KeysOwned
<1>8. OwnerCanDecrypt'
  <2>1. \A b \in Accounts, e \in Denoms :
          available'[b][e] # Nil =>
            pubkey[b] \in Controls[b] /\ DecryptsUnder(available'[b][e], pubkey[b])
    BY <1>1 DEF IInv, OwnerCanDecrypt, BalanceWritten
  <2>2. \A b \in Accounts, e \in Denoms :
          pending'[b][e] # Nil =>
            pubkey[b] \in Controls[b] /\ DecryptsUnder(pending'[b][e], pubkey[b])
    BY <1>1, <1>2 DEF IInv, OwnerCanDecrypt, BalanceWritten
  <2> QED
    BY <1>3, <2>1, <2>2 DEF OwnerCanDecrypt
<1>9. PendingZeroFlagSound'
  BY <1>2, <1>5, NilAssumption DEF IInv, PendingZeroFlagSound, BalanceWritten
<1>10. CoinsConserved'
  BY <1>3 DEF IInv, CoinsConserved, Supply
<1>11. EscrowBacksBalances'
  <2>1. /\ Total(PlaintextsOf(available', d))
             = Total(PlaintextsOf(available, d)) + Plaintext(incoming)
        /\ Total(PlaintextsOf(pending', d))
             = Total(PlaintextsOf(pending, d)) - Plaintext(incoming)
        /\ Total(PlaintextsOf(available, d)) \in Nat
        /\ Total(PlaintextsOf(pending, d)) \in Nat
    BY <1>1, <1>2, BalancesBounded DEF BalanceWritten, incoming
  <2>2. \A e \in Denoms \ {d} :
          /\ PlaintextsOf(available', e) = PlaintextsOf(available, e)
          /\ PlaintextsOf(pending', e) = PlaintextsOf(pending, e)
          /\ escrow'[e] = escrow[e]
    BY <1>1, <1>2, <1>3 DEF BalanceWritten
  <2>3. escrow'[d] = escrow[d] /\ escrow[d] \in Nat
    BY <1>1, <1>3, <1>4
  <2> QED
    BY <1>1, <2>1, <2>2, <2>3, BackingKept
<1> QED
  BY <1>6, <1>7, <1>8, <1>9, <1>10, <1>11 DEF IInv

(* A transfer that verifies is covered by the balance of its sender.        *)
LEMMA SendCovered ==
    ASSUME IInv, NEW m \in ConfidentialSendMsg, SendVerified(m)
    PROVE  /\ m.senderUpdate.v \in Field
           /\ m.senderUpdate.v <= Plaintext(available[m.sender][m.denom])
           /\ m.receiverUpdate.v = m.senderUpdate.v
           /\ m.auditorUpdate.v = m.senderUpdate.v
<1> DEFINE old == available[m.sender][m.denom]
           new == subCiphertexts(old, m.senderUpdate)
<1>1. /\ m.sender \in Accounts /\ m.denom \in Denoms
      /\ m.senderUpdate \in Ciphertext
  BY DEF ConfidentialSendMsg
<1>2. /\ m.senderUpdate.v = m.transferCommitment /\ m.transferCommitment < RangeBound
      /\ new.v = m.remainingCommitment /\ m.remainingCommitment < RangeBound
      /\ m.receiverUpdate.v = m.senderUpdate.v
      /\ m.auditorUpdate.v = m.senderUpdate.v
  BY DEF SendVerified, verifyEquality, verifyCommitmentEquality, verifyAggregateRange
<1>3. old \in Ciphertext \cup {Nil}
  BY <1>1 DEF IInv, TypeOK
<1>4. new.v = FieldSub(Plaintext(old), m.senderUpdate.v)
  BY <1>1, <1>3, HomomorphicOperations
<1>5. m.senderUpdate.v \in Field /\ Plaintext(old) \in Field
  BY <1>1, <1>3, PlaintextType DEF Ciphertext
<1> HIDE DEF old, new
<1>6. m.senderUpdate.v <= Plaintext(old)
  BY <1>2, <1>4, <1>5, InRangeNoWrap, RangeAssumption
<1> QED
  BY <1>2, <1>5, <1>6 DEF old

(* A transfer takes its amount from the spendable balance of the sender and *)
(* adds it to the incoming balance of the receiver, both without wrapping.  *)
LEMMA ConfidentialSendEffect ==
    ASSUME IInv, NEW m \in ConfidentialSendMsg, ConfidentialSend(m)
    PROVE  LET a == m.sender
               b == m.receiver
               d == m.denom
               n == m.senderUpdate.v
               new == subCiphertexts(available[a][d], m.senderUpdate)
               credit == addCiphertexts(pending[b][d], m.receiverUpdate)
           IN  /\ a \in Accounts /\ b \in Accounts /\ d \in Denoms /\ n \in Nat
               /\ pubkey[a] \in Controls[a] /\ pubkey[b] \in Controls[b]
               /\ new \in Ciphertext /\ credit \in Ciphertext
               /\ n <= Plaintext(available[a][d])
               /\ new.v = Plaintext(available[a][d]) - n
               /\ credit.v = Plaintext(pending[b][d]) + n
               /\ Plaintext(available[a][d]) \in Nat /\ Plaintext(pending[b][d]) \in Nat
               /\ DecryptsUnder(new, pubkey[a]) /\ DecryptsUnder(credit, pubkey[b])
               /\ BalanceWritten(available, available', a, d, new)
               /\ BalanceWritten(pending, pending', b, d, credit)
               /\ m.receiverUpdate.v = n /\ m.auditorUpdate.v = n
<1> DEFINE a == m.sender
           b == m.receiver
           d == m.denom
           n == m.senderUpdate.v
           old == available[a][d]
           owed == pending[b][d]
           new == subCiphertexts(old, m.senderUpdate)
           credit == addCiphertexts(owed, m.receiverUpdate)
<1>1. /\ a \in Accounts /\ b \in Accounts /\ d \in Denoms
      /\ m.senderUpdate \in Ciphertext /\ m.receiverUpdate \in Ciphertext
  BY DEF ConfidentialSendMsg
<1>2. /\ HasRegisteredKey(a) /\ HasRegisteredKey(b)
      /\ DecryptsUnder(m.senderUpdate, pubkey[a])
      /\ DecryptsUnder(m.receiverUpdate, pubkey[b])
  BY DEF ConfidentialSend, SendVerified, verifyEquality
<1>3. /\ pubkey[a] \in Keys /\ pubkey[a] \in Controls[a]
      /\ pubkey[b] \in Keys /\ pubkey[b] \in Controls[b]
  BY <1>1, <1>2, RegisteredKey
<1>4. /\ n \in Field /\ n <= Plaintext(old)
      /\ m.receiverUpdate.v = n /\ m.auditorUpdate.v = n
  BY SendCovered DEF ConfidentialSend
<1>5. /\ available' = [available EXCEPT ![a][d] = new]
      /\ pending' = [pending EXCEPT ![b][d] = credit]
      /\ pendingIsZero' = [pendingIsZero EXCEPT ![b][d] = FALSE]
      /\ UNCHANGED <<bank, escrow, pubkey, auditor>>
  BY DEF ConfidentialSend, coins
<1>6. /\ available \in [Accounts -> [Denoms -> Ciphertext \cup {Nil}]]
      /\ pending \in [Accounts -> [Denoms -> Ciphertext \cup {Nil}]]
      /\ pendingIsZero \in [Accounts -> [Denoms -> BOOLEAN]]
      /\ escrow \in [Denoms -> Nat]
      /\ old \in Ciphertext \cup {Nil} /\ owed \in Ciphertext \cup {Nil}
  BY <1>1 DEF IInv, TypeOK
<1>7. /\ Plaintext(old) \in Nat /\ Plaintext(owed) \in Nat
      /\ Plaintext(old) \in Field /\ Plaintext(owed) \in Field
  BY <1>6, PlaintextType
<1>8. Plaintext(owed) + n < FieldOrder
  <2>1. /\ Plaintext(old) <= Total(PlaintextsOf(available, d))
        /\ Plaintext(owed) <= Total(PlaintextsOf(pending, d))
        /\ Total(PlaintextsOf(available, d)) \in Nat
        /\ Total(PlaintextsOf(pending, d)) \in Nat
        /\ Total(PlaintextsOf(available, d)) + Total(PlaintextsOf(pending, d)) = escrow[d]
        /\ bank[a][d] + escrow[d] < FieldOrder /\ bank[a][d] \in Nat
    BY <1>1, BalancesBounded
  <2>2. n \in Nat
    BY <1>4 DEF Field
  <2> HIDE DEF a, b, d, n, old, owed
  <2> QED
    BY <1>4, <1>7, <2>1, <2>2, FieldAssumption
<1>9. /\ new \in Ciphertext /\ new.v = Plaintext(old) - n
      /\ DecryptsUnder(new, pubkey[a])
  <2>1. old = Nil \/ DecryptsUnder(old, pubkey[a])
    BY <1>1 DEF IInv, OwnerCanDecrypt
  <2>2. FieldSub(Plaintext(old), n) = Plaintext(old) - n
    BY <1>4, <1>7, FieldArithmetic
  <2> QED
    BY <2>1, <2>2, <1>1, <1>2, <1>3, <1>6, HomomorphicOperations
<1>10. /\ credit \in Ciphertext /\ credit.v = Plaintext(owed) + n
       /\ DecryptsUnder(credit, pubkey[b])
  <2>1. owed = Nil \/ DecryptsUnder(owed, pubkey[b])
    BY <1>1 DEF IInv, OwnerCanDecrypt
  <2>2. FieldAdd(Plaintext(owed), n) = Plaintext(owed) + n
    BY <1>4, <1>7, <1>8, FieldArithmetic
  <2> QED
    BY <2>1, <2>2, <1>1, <1>2, <1>3, <1>4, <1>6, HomomorphicOperations
<1>11. BalanceWritten(available, available', a, d, new)
  <2>1. BalanceWritten(available, [available EXCEPT ![a][d] = new], a, d, new)
    BY <1>1, <1>6, <1>9, BalanceChange
  <2> QED
    BY <2>1, <1>5
<1>12. BalanceWritten(pending, pending', b, d, credit)
  <2>1. BalanceWritten(pending, [pending EXCEPT ![b][d] = credit], b, d, credit)
    BY <1>1, <1>6, <1>10, BalanceChange
  <2> QED
    BY <2>1, <1>5
<1>13. n \in Nat
  BY <1>4 DEF Field
<1> HIDE DEF a, b, d, n, old, owed, new, credit
<1>14. /\ a \in Accounts /\ b \in Accounts /\ d \in Denoms /\ n \in Nat
       /\ pubkey[a] \in Controls[a] /\ pubkey[b] \in Controls[b]
       /\ new \in Ciphertext /\ credit \in Ciphertext
       /\ n <= Plaintext(old)
       /\ new.v = Plaintext(old) - n
       /\ credit.v = Plaintext(owed) + n
       /\ Plaintext(old) \in Nat /\ Plaintext(owed) \in Nat
       /\ DecryptsUnder(new, pubkey[a]) /\ DecryptsUnder(credit, pubkey[b])
       /\ BalanceWritten(available, available', a, d, new)
       /\ BalanceWritten(pending, pending', b, d, credit)
       /\ m.receiverUpdate.v = n /\ m.auditorUpdate.v = n
  BY <1>1, <1>3, <1>4, <1>7, <1>9, <1>10, <1>11, <1>12, <1>13
<1> QED
  BY <1>14 DEF a, b, d, n, old, owed, new, credit

(* A transfer preserves the invariant. *)
LEMMA ConfidentialSendStep ==
    ASSUME IInv, NEW m \in ConfidentialSendMsg, ConfidentialSend(m)
    PROVE  IInv'
<1> DEFINE a == m.sender
           b == m.receiver
           d == m.denom
           n == m.senderUpdate.v
           old == available[a][d]
           owed == pending[b][d]
           new == subCiphertexts(old, m.senderUpdate)
           credit == addCiphertexts(owed, m.receiverUpdate)
<1>1. a \in Accounts /\ b \in Accounts /\ d \in Denoms /\ n \in Nat
  BY ConfidentialSendEffect
<1>2. pubkey[a] \in Controls[a] /\ pubkey[b] \in Controls[b]
  BY ConfidentialSendEffect
<1>3. /\ new.v = Plaintext(old) - n /\ credit.v = Plaintext(owed) + n
      /\ Plaintext(old) \in Nat /\ Plaintext(owed) \in Nat
      /\ DecryptsUnder(new, pubkey[a]) /\ DecryptsUnder(credit, pubkey[b])
  BY ConfidentialSendEffect
<1>4. /\ BalanceWritten(available, available', a, d, new)
      /\ BalanceWritten(pending, pending', b, d, credit)
  BY ConfidentialSendEffect
<1>5. /\ pendingIsZero' = [pendingIsZero EXCEPT ![b][d] = FALSE]
      /\ UNCHANGED <<bank, escrow, pubkey, auditor>>
  BY DEF ConfidentialSend, coins
<1>6. /\ pendingIsZero \in [Accounts -> [Denoms -> BOOLEAN]]
      /\ escrow \in [Denoms -> Nat]
  BY DEF IInv, TypeOK
<1>7. /\ pendingIsZero' \in [Accounts -> [Denoms -> BOOLEAN]]
      /\ ~pendingIsZero'[b][d]
      /\ \A x \in Accounts, e \in Denoms :
           x # b \/ e # d => pendingIsZero'[x][e] = pendingIsZero[x][e]
  BY <1>1, <1>5, <1>6
<1> HIDE DEF a, b, d, n, old, owed, new, credit
<1>8. TypeOK'
  BY <1>4, <1>5, <1>7 DEF IInv, TypeOK, BalanceWritten
<1>9. KeysOwned'
  BY <1>5 DEF IInv, KeysOwned
<1>10. OwnerCanDecrypt'
  <2>1. \A x \in Accounts, e \in Denoms :
          available'[x][e] # Nil =>
            pubkey[x] \in Controls[x] /\ DecryptsUnder(available'[x][e], pubkey[x])
    BY <1>2, <1>3, <1>4 DEF IInv, OwnerCanDecrypt, BalanceWritten
  <2>2. \A x \in Accounts, e \in Denoms :
          pending'[x][e] # Nil =>
            pubkey[x] \in Controls[x] /\ DecryptsUnder(pending'[x][e], pubkey[x])
    BY <1>2, <1>3, <1>4 DEF IInv, OwnerCanDecrypt, BalanceWritten
  <2> QED
    BY <1>5, <2>1, <2>2 DEF OwnerCanDecrypt
<1>11. PendingZeroFlagSound'
  <2>1. \A x \in Accounts, e \in Denoms :
          x # b \/ e # d => pending'[x][e] = pending[x][e]
    BY <1>4 DEF BalanceWritten
  <2> QED
    BY <1>7, <2>1 DEF IInv, PendingZeroFlagSound
<1>12. CoinsConserved'
  BY <1>5 DEF IInv, CoinsConserved, Supply
<1>13. EscrowBacksBalances'
  <2>1. /\ Total(PlaintextsOf(available', d)) = Total(PlaintextsOf(available, d)) - n
        /\ Total(PlaintextsOf(pending', d)) = Total(PlaintextsOf(pending, d)) + n
        /\ Total(PlaintextsOf(available, d)) \in Nat
        /\ Total(PlaintextsOf(pending, d)) \in Nat
    BY <1>1, <1>3, <1>4 DEF BalanceWritten, old, owed
  <2>2. \A e \in Denoms \ {d} :
          /\ PlaintextsOf(available', e) = PlaintextsOf(available, e)
          /\ PlaintextsOf(pending', e) = PlaintextsOf(pending, e)
          /\ escrow'[e] = escrow[e]
    BY <1>4, <1>5 DEF BalanceWritten
  <2>3. escrow'[d] = escrow[d] /\ escrow[d] \in Nat
    BY <1>1, <1>5, <1>6
  <2> QED
    BY <2>1, <2>2, <2>3, <1>1, BackingKept
<1> QED
  BY <1>8, <1>9, <1>10, <1>11, <1>12, <1>13 DEF IInv

(***************************************************************************)
(* The theorems                                                             *)
(***************************************************************************)

(* While nothing is encrypted the supply is all in public coins. *)
LEMMA NothingEncrypted ==
    ASSUME bank = InitialFunds, escrow = [d \in Denoms |-> 0],
           available = [a \in Accounts |-> [d \in Denoms |-> Nil]],
           pending = [a \in Accounts |-> [d \in Denoms |-> Nil]]
    PROVE  CoinsConserved /\ EscrowBacksBalances
<1>1. ASSUME NEW d \in Denoms
      PROVE  /\ Total(PlaintextsOf(available, d)) = 0
             /\ Total(PlaintextsOf(pending, d)) = 0
             /\ escrow[d] = 0
             /\ Total(CoinsOf(bank, d)) = Supply(d)
             /\ Supply(d) \in Nat
  <2>1. \A a \in Accounts : /\ PlaintextsOf(available, d)[a] = 0
                            /\ PlaintextsOf(pending, d)[a] = 0
    BY DEF PlaintextsOf, Plaintext, unmarshalOrZero
  <2>2. /\ PlaintextsOf(available, d) \in [Accounts -> Nat]
        /\ PlaintextsOf(pending, d) \in [Accounts -> Nat]
    BY <2>1 DEF PlaintextsOf
  <2>3. /\ Total(PlaintextsOf(available, d)) = 0
        /\ Total(PlaintextsOf(pending, d)) = 0
    BY <2>1, <2>2, TotalZero
  <2>4. CoinsOf(InitialFunds, d) \in [Accounts -> Nat]
    BY FundsAssumption DEF CoinsOf
  <2>5. Supply(d) \in Nat
    BY <2>4, UnitsFinite, AccountsAssumption DEF Supply
  <2> QED
    BY <2>3, <2>5 DEF Supply
<1> QED
  BY <1>1 DEF CoinsConserved, EscrowBacksBalances

(* The invariant holds at genesis, where nothing is encrypted yet. *)
LEMMA InitInvariant == Init => IInv
<1> SUFFICES ASSUME Init PROVE IInv
  OBVIOUS
<1>1. TypeOK
  BY FundsAssumption DEF Init, TypeOK
<1>2. KeysOwned /\ OwnerCanDecrypt /\ PendingZeroFlagSound
  BY DEF Init, KeysOwned, OwnerCanDecrypt, PendingZeroFlagSound
<1>3. CoinsConserved /\ EscrowBacksBalances
  BY NothingEncrypted DEF Init
<1> QED
  BY <1>1, <1>2, <1>3 DEF IInv

(* Every message preserves the invariant, and so does a refused one. *)
LEMMA NextInvariant == IInv /\ [Next]_vars => IInv'
<1> SUFFICES ASSUME IInv, [Next]_vars PROVE IInv'
  OBVIOUS
<1>1. CASE \E m \in RegisterKeyMsgs : RegisterKey(m)
  BY <1>1, RegisterKeyStep
<1>2. CASE \E m \in ShieldMsgs : Shield(m)
  BY <1>2, ShieldStep DEF ShieldMsgs
<1>3. CASE \E m \in SendMsgs : ConfidentialSend(m)
  BY <1>3, ConfidentialSendStep DEF SendMsgs
<1>4. CASE \E m \in ApplyPendingMsgs : ApplyPending(m)
  BY <1>4, ApplyPendingStep DEF ApplyPendingMsgs
<1>5. CASE \E m \in UnshieldMsgs : Unshield(m)
  BY <1>5, UnshieldStep DEF UnshieldMsgs
<1>6. CASE \E m \in SetAuditorKeyMsgs : SetAuditorKey(m)
  BY <1>6, SetAuditorKeyStep DEF SetAuditorKeyMsgs
<1>7. CASE UNCHANGED vars
  BY <1>7 DEF IInv, TypeOK, KeysOwned, OwnerCanDecrypt, PendingZeroFlagSound,
              CoinsConserved, Supply, EscrowBacksBalances, vars, coins, balances
<1> QED
  BY <1>1, <1>2, <1>3, <1>4, <1>5, <1>6, <1>7 DEF Next

(* The invariant, from which the properties of the keeper follow. *)
THEOREM Invariance == Spec => []IInv
  BY InitInvariant, NextInvariant, PTL DEF Spec

(* Every variable of the keeper keeps its type. *)
THEOREM TypeCorrectness == Spec => []TypeOK
<1>1. IInv => TypeOK
  BY DEF IInv
<1> QED
  BY <1>1, Invariance, PTL

(* The escrow account holds exactly what the encrypted balances add up to:  *)
(* no sequence of messages creates, destroys or wraps a confidential coin.  *)
THEOREM Solvency == Spec => []EscrowBacksBalances
<1>1. IInv => EscrowBacksBalances
  BY DEF IInv
<1> QED
  BY <1>1, Invariance, PTL

(* The bank never refuses the last step of an Unshield whose proofs verify. *)
THEOREM WithdrawalsCovered == Spec => []UnshieldNeverShort
<1>1. IInv => UnshieldNeverShort
  BY UnshieldCovered DEF UnshieldNeverShort, UnshieldMsgs
<1> QED
  BY <1>1, Invariance, PTL

(* No balance is ever under a key its owner does not hold the secret of. *)
THEOREM BalancesDecryptable == Spec => []OwnerCanDecrypt
<1>1. IInv => OwnerCanDecrypt
  BY DEF IInv
<1> QED
  BY <1>1, Invariance, PTL

(* The flag that makes ApplyPending refuse is set only over a zero balance. *)
THEOREM FlagSoundness == Spec => []PendingZeroFlagSound
<1>1. IInv => PendingZeroFlagSound
  BY DEF IInv
<1> QED
  BY <1>1, Invariance, PTL

(***************************************************************************)
(* Action properties                                                        *)
(***************************************************************************)

(* A cell of a store of balances stands for what was last written to it.    *)
LEMMA PlaintextWritten ==
    ASSUME NEW s, NEW t, NEW a \in Accounts, NEW d \in Denoms,
           NEW ct \in Ciphertext, BalanceWritten(s, t, a, d, ct)
    PROVE  Plaintext(t[a][d]) = ct.v
  BY NilAssumption DEF BalanceWritten, Plaintext, unmarshalOrZero

(* An account is owed more, without a deposit, only by a transfer to it,    *)
(* which credits the incoming balance and nothing else.                     *)
LEMMA OnlySendsCredit ==
    ASSUME IInv, [Next]_vars, NEW a \in Accounts, NEW d \in Denoms,
           Plaintext(available'[a][d]) + Plaintext(pending'[a][d])
             > Plaintext(available[a][d]) + Plaintext(pending[a][d]),
           escrow'[d] = escrow[d]
    PROVE  \E m \in SendMsgs :
               /\ ConfidentialSend(m)
               /\ available'[a][d] = available[a][d]
               /\ Plaintext(pending'[a][d])
                    = Plaintext(pending[a][d]) + m.senderUpdate.v
               /\ Plaintext(available[a][d]) \in Nat
               /\ Plaintext(pending[a][d]) \in Nat
               /\ m.senderUpdate.v \in Nat
               /\ m.auditorUpdate.v = m.senderUpdate.v
<1>1. Plaintext(available[a][d]) \in Nat /\ Plaintext(pending[a][d]) \in Nat
  BY BalancesBounded DEF Field
<1>2. ~(available'[a][d] = available[a][d] /\ pending'[a][d] = pending[a][d])
  BY <1>1
<1>3. ASSUME NEW m \in ApplyPendingMsgs, ApplyPending(m)
      PROVE  FALSE
  <2> DEFINE new == addCiphertexts(available[m.sender][m.denom], m.newAvailableUpdate)
  <2>1. /\ m.sender \in Accounts /\ m.denom \in Denoms
        /\ new.v = Plaintext(available[m.sender][m.denom])
                     + Plaintext(pending[m.sender][m.denom])
        /\ BalanceWritten(available, available', m.sender, m.denom, new)
    BY <1>3, ApplyPendingEffect DEF ApplyPendingMsgs
  <2>2. PICK zero \in Ciphertext :
          zero.v = 0 /\ BalanceWritten(pending, pending', m.sender, m.denom, zero)
    BY <1>3, ApplyPendingEffect DEF ApplyPendingMsgs
  <2>3. new \in Ciphertext
    BY <1>3, ApplyPendingEffect DEF ApplyPendingMsgs
  <2> HIDE DEF new
  <2>4. a = m.sender /\ d = m.denom
    BY <1>2, <2>1, <2>2 DEF BalanceWritten
  <2>5. /\ Plaintext(available'[m.sender][m.denom]) = new.v
        /\ Plaintext(pending'[m.sender][m.denom]) = 0
    <3>1. Plaintext(available'[m.sender][m.denom]) = new.v
      BY <2>1, <2>3, PlaintextWritten
    <3>2. Plaintext(pending'[m.sender][m.denom]) = zero.v
      BY <2>1, <2>2, PlaintextWritten
    <3> QED
      BY <2>2, <3>1, <3>2
  <2> QED
    BY <1>1, <2>1, <2>4, <2>5
<1>4. ASSUME NEW m \in SendMsgs, ConfidentialSend(m)
      PROVE  /\ available'[a][d] = available[a][d]
             /\ Plaintext(pending'[a][d])
                  = Plaintext(pending[a][d]) + m.senderUpdate.v
             /\ m.senderUpdate.v \in Nat
             /\ m.auditorUpdate.v = m.senderUpdate.v
  <2> DEFINE new == subCiphertexts(available[m.sender][m.denom], m.senderUpdate)
             credit == addCiphertexts(pending[m.receiver][m.denom], m.receiverUpdate)
  <2>1. /\ m.sender \in Accounts /\ m.receiver \in Accounts /\ m.denom \in Denoms
        /\ m.senderUpdate.v \in Nat
        /\ m.auditorUpdate.v = m.senderUpdate.v
        /\ new.v = Plaintext(available[m.sender][m.denom]) - m.senderUpdate.v
        /\ credit.v = Plaintext(pending[m.receiver][m.denom]) + m.senderUpdate.v
    BY <1>4, ConfidentialSendEffect DEF SendMsgs
  <2>2. /\ BalanceWritten(available, available', m.sender, m.denom, new)
        /\ BalanceWritten(pending, pending', m.receiver, m.denom, credit)
    BY <1>4, ConfidentialSendEffect DEF SendMsgs
  <2>3. new \in Ciphertext /\ credit \in Ciphertext
    BY <1>4, ConfidentialSendEffect DEF SendMsgs
  <2>4. m.sender # m.receiver
    BY <1>4 DEF ConfidentialSend, SendVerified
  <2> HIDE DEF new, credit
  <2>5. /\ Plaintext(available'[m.sender][m.denom]) = new.v
        /\ Plaintext(pending'[m.receiver][m.denom]) = credit.v
    <3>1. Plaintext(available'[m.sender][m.denom]) = new.v
      BY <2>1, <2>2, <2>3, PlaintextWritten
    <3>2. Plaintext(pending'[m.receiver][m.denom]) = credit.v
      BY <2>1, <2>2, <2>3, PlaintextWritten
    <3> QED
      BY <3>1, <3>2
  <2>6. ~(a = m.sender /\ d = m.denom)
    <3>1. ASSUME a = m.sender, d = m.denom
          PROVE  FALSE
      <4>1. pending'[a][d] = pending[a][d]
        BY <2>2, <2>4, <3>1 DEF BalanceWritten
      <4> QED
        BY <1>1, <2>1, <2>5, <3>1, <4>1
    <3> QED
      BY <3>1
  <2>7. available'[a][d] = available[a][d]
    BY <2>2, <2>6 DEF BalanceWritten
  <2>8. a = m.receiver /\ d = m.denom
    BY <1>2, <2>2, <2>7 DEF BalanceWritten
  <2> QED
    BY <2>1, <2>5, <2>7, <2>8
<1>5. CASE \E m \in RegisterKeyMsgs : RegisterKey(m)
  BY <1>2, <1>5 DEF RegisterKey, balances
<1>6. ASSUME NEW m \in ShieldMsgs, Shield(m)
      PROVE  FALSE
  <2>1. /\ m.sender \in Accounts /\ m.denom \in Denoms
        /\ m.amount \in Int /\ m.amount > 0
    BY <1>6 DEF ShieldMsgs, ShieldMsg, Shield, ShieldVerified, ValidAmount
  <2>2. d # m.denom
    BY <1>6, <2>1 DEF Shield, IInv, TypeOK
  <2> QED
    BY <1>2, <1>6, <2>1, <2>2 DEF Shield, IInv, TypeOK
<1>7. ASSUME NEW m \in UnshieldMsgs, Unshield(m)
      PROVE  FALSE
  <2>1. /\ m.sender \in Accounts /\ m.denom \in Denoms
        /\ m.amount \in Int /\ m.amount > 0
    BY <1>7 DEF UnshieldMsgs, UnshieldMsg, Unshield, UnshieldVerified, ValidAmount
  <2>2. d # m.denom
    BY <1>7, <2>1 DEF Unshield, IInv, TypeOK
  <2> QED
    BY <1>2, <1>7, <2>1, <2>2 DEF Unshield, IInv, TypeOK
<1>8. CASE \E m \in SetAuditorKeyMsgs : SetAuditorKey(m)
  BY <1>2, <1>8 DEF SetAuditorKey, balances
<1>9. CASE UNCHANGED vars
  BY <1>2, <1>9 DEF vars, balances
<1>10. CASE \E m \in SendMsgs : ConfidentialSend(m)
  BY <1>1, <1>4, <1>10
<1> QED
  BY <1>3, <1>5, <1>6, <1>7, <1>8, <1>9, <1>10 DEF Next

(* A transfer in never touches the ciphertext that the proofs of its        *)
(* receiver are built on.                                                   *)
THEOREM IncomingIsolated == Spec => IncomingLeavesAvailable
<1>1. IInv /\ [Next]_vars =>
        \A a \in Accounts, d \in Denoms :
          Owed(a, d)' > Owed(a, d) /\ escrow'[d] = escrow[d]
            => available'[a][d] = available[a][d]
  BY OnlySendsCredit DEF Owed
<1> QED
  BY <1>1, Invariance, PTL DEF Spec, IncomingLeavesAvailable

(* Every transfer is announced by an event that the auditor in force can    *)
(* decrypt, to the amount its receiver is credited.                         *)
THEOREM AuditCompleteness == Spec => TransfersAreAudited
<1>1. ASSUME IInv, [Next]_vars, NEW a \in Accounts, NEW d \in Denoms,
             Owed(a, d)' > Owed(a, d), escrow'[d] = escrow[d]
      PROVE  /\ event'.type = "confidential_send"
             /\ DecryptsUnder(event'.auditor_ciphertext, auditor)
             /\ event'.auditor_ciphertext.v = Owed(a, d)' - Owed(a, d)
  <2>1. PICK m \in SendMsgs :
          /\ ConfidentialSend(m)
          /\ available'[a][d] = available[a][d]
          /\ Plaintext(pending'[a][d]) = Plaintext(pending[a][d]) + m.senderUpdate.v
          /\ Plaintext(available[a][d]) \in Nat
          /\ Plaintext(pending[a][d]) \in Nat
          /\ m.senderUpdate.v \in Nat
          /\ m.auditorUpdate.v = m.senderUpdate.v
    BY <1>1, OnlySendsCredit DEF Owed
  <2>2. /\ event'.type = "confidential_send"
        /\ event'.auditor_ciphertext = m.auditorUpdate
        /\ DecryptsUnder(m.auditorUpdate, auditor)
    BY <2>1 DEF ConfidentialSend, SendVerified, verifyEquality
  <2>3. m.senderUpdate.v = Owed(a, d)' - Owed(a, d)
    BY <2>1 DEF Owed
  <2> QED
    BY <2>1, <2>2, <2>3
<1>2. IInv /\ [Next]_vars =>
        \A a \in Accounts, d \in Denoms :
          Owed(a, d)' > Owed(a, d) /\ escrow'[d] = escrow[d] =>
            /\ event'.type = "confidential_send"
            /\ DecryptsUnder(event'.auditor_ciphertext, auditor)
            /\ event'.auditor_ciphertext.v = Owed(a, d)' - Owed(a, d)
  BY <1>1
<1> QED
  BY <1>2, Invariance, PTL DEF Spec, TransfersAreAudited

(***************************************************************************)
(* What can be taken out                                                    *)
(***************************************************************************)

(* One withdrawal moves less than RangeBound, and must leave less than      *)
(* RangeBound: a balance can be drawn on when it is below 2 * RangeBound - 1. *)
Withdrawable(a, d) ==
    \E n \in 1 .. (RangeBound - 1) : UnshieldVerified(UnshieldMessage(a, d, n))

WithinCapacity(n) == 0 < n /\ n < 2 * RangeBound - 1

(* The remainder of an honest withdrawal is the difference of the plaintexts, *)
(* under the key of the account.                                            *)
LEMMA HonestRemainder ==
    ASSUME IInv, NEW a \in Accounts, NEW d \in Denoms, NEW n \in Field,
           HasRegisteredKey(a), n <= Plaintext(available[a][d])
    PROVE  LET m == UnshieldMessage(a, d, n)
               remaining == subCiphertexts(available[a][d], m.ciphertext)
           IN  /\ DecryptsUnder(m.ciphertext, pubkey[a]) /\ m.ciphertext.v = n
               /\ DecryptsUnder(remaining, pubkey[a])
               /\ remaining.v = Plaintext(available[a][d]) - n
<1> DEFINE stored == available[a][d]
           ct == EncryptWithRandomness(n, pubkey[a], 0)
           remaining == subCiphertexts(stored, ct)
<1>1. pubkey[a] \in Keys
  BY RegisteredKey
<1>2. 0 \in Field
  BY FieldAssumption DEF Field
<1>3. ct \in Ciphertext /\ ct.v = n /\ DecryptsUnder(ct, pubkey[a])
  BY <1>1, <1>2, EncryptType
<1>4. /\ stored \in Ciphertext \cup {Nil}
      /\ stored = Nil \/ DecryptsUnder(stored, pubkey[a])
  BY DEF IInv, TypeOK, OwnerCanDecrypt
<1>5. Plaintext(stored) \in Field
  BY <1>4, PlaintextType
<1>6. UnshieldMessage(a, d, n).ciphertext = ct
  BY DEF UnshieldMessage
<1> HIDE DEF stored, ct
<1>7. remaining.v = FieldSub(Plaintext(stored), n) /\ DecryptsUnder(remaining, pubkey[a])
  BY <1>1, <1>3, <1>4, HomomorphicOperations
<1>8. remaining.v = Plaintext(stored) - n
  BY <1>5, <1>7, FieldArithmetic DEF stored
<1> QED
  BY <1>3, <1>6, <1>7, <1>8 DEF stored

(* An honest withdrawal verifies exactly when it leaves less than the bound. *)
LEMMA HonestUnshield ==
    ASSUME IInv, NEW a \in Accounts, NEW d \in Denoms,
           NEW n \in 1 .. (RangeBound - 1),
           HasRegisteredKey(a), n <= Plaintext(available[a][d])
    PROVE  UnshieldVerified(UnshieldMessage(a, d, n))
             <=> Plaintext(available[a][d]) - n < RangeBound
<1> DEFINE m == UnshieldMessage(a, d, n)
           remaining == subCiphertexts(available[a][d], m.ciphertext)
<1>1. n \in Field /\ n > 0 /\ n < RangeBound
  BY RangeAssumption, FieldAssumption DEF Field
<1>2. /\ m.sender = a /\ m.denom = d /\ m.amount = n
      /\ m.remainingCommitment = remaining.v
      /\ m.remainingCommitmentProof = remaining
  BY DEF UnshieldMessage
<1>3. /\ DecryptsUnder(m.ciphertext, pubkey[a]) /\ m.ciphertext.v = n
      /\ DecryptsUnder(remaining, pubkey[a])
      /\ remaining.v = Plaintext(available[a][d]) - n
  BY <1>1, HonestRemainder
<1> HIDE DEF m
<1> QED
  BY <1>1, <1>2, <1>3
     DEF UnshieldVerified, ValidAmount, verifyDLEQ, verifyCommitmentEquality,
         verifyAggregateRange, m

(* A balance within capacity can be drawn on; a larger one by no honest     *)
(* withdrawal of any amount.                                                *)
LEMMA CapacityExact ==
    ASSUME IInv, NEW a \in Accounts, NEW d \in Denoms,
           Plaintext(available[a][d]) > 0
    PROVE  Withdrawable(a, d) <=> WithinCapacity(Plaintext(available[a][d]))
<1> DEFINE n == Plaintext(available[a][d])
<1>1. available[a][d] # Nil
  BY DEF Plaintext, unmarshalOrZero
<1>2. HasRegisteredKey(a)
  BY <1>1, MessagesAssumption, NilAssumption DEF IInv, OwnerCanDecrypt, HasRegisteredKey
<1>3. n \in Nat /\ n \in Field /\ n > 0
  BY BalancesBounded, FieldAssumption DEF Field
<1>4. ASSUME WithinCapacity(n)
      PROVE  Withdrawable(a, d)
  <2> HIDE DEF n
  <2>1. PICK k \in 1 .. (RangeBound - 1) : k <= n /\ n - k < RangeBound
    <3>1. CASE n < RangeBound
      <4>1. n \in 1 .. (RangeBound - 1) /\ n - n < RangeBound
        BY <1>3, <3>1, RangeAssumption
      <4> QED
        BY <4>1, <1>3
    <3>2. CASE n >= RangeBound
      <4>1. /\ RangeBound - 1 \in 1 .. (RangeBound - 1)
            /\ RangeBound - 1 <= n
            /\ n - (RangeBound - 1) < RangeBound
        BY <1>3, <1>4, <3>2, RangeAssumption DEF WithinCapacity
      <4> QED
        BY <4>1
    <3> QED
      BY <1>3, <3>1, <3>2, RangeAssumption
  <2>2. UnshieldVerified(UnshieldMessage(a, d, k))
    BY <1>2, <2>1, HonestUnshield DEF n
  <2> QED
    BY <2>2 DEF Withdrawable
<1>5. ASSUME Withdrawable(a, d)
      PROVE  WithinCapacity(n)
  <2>1. PICK k \in 1 .. (RangeBound - 1) : UnshieldVerified(UnshieldMessage(a, d, k))
    BY <1>5 DEF Withdrawable
  <2> DEFINE m == UnshieldMessage(a, d, k)
  <2>2. /\ m.sender = a /\ m.denom = d /\ m.amount = k
        /\ m.remainingCommitment
             = subCiphertexts(available[a][d], EncryptWithRandomness(k, pubkey[a], 0)).v
    BY DEF UnshieldMessage
  <2>3. m.remainingCommitment < RangeBound
    BY <2>1 DEF UnshieldVerified, verifyAggregateRange
  <2>4. k \in Field /\ 0 \in Field /\ k < RangeBound /\ RangeBound \in Nat
    BY RangeAssumption, FieldAssumption DEF Field
  <2>5. /\ EncryptWithRandomness(k, pubkey[a], 0) \in Ciphertext
        /\ EncryptWithRandomness(k, pubkey[a], 0).v = k
    BY <1>2, <2>4, RegisteredKey, EncryptType
  <2>6. available[a][d] \in Ciphertext \cup {Nil}
    BY DEF IInv, TypeOK
  <2>7. m.remainingCommitment = FieldSub(n, k)
    BY <2>2, <2>5, <2>6, HomomorphicOperations
  <2> HIDE DEF n, m
  <2>8. k <= n /\ FieldSub(n, k) = n - k
    BY <1>3, <2>3, <2>4, <2>7, InRangeNoWrap, RangeAssumption
  <2> QED
    BY <1>3, <2>3, <2>4, <2>7, <2>8 DEF WithinCapacity
<1> QED
  BY <1>4, <1>5

(* In every reachable state a balance can be drawn on exactly when it is    *)
(* within capacity: 2 * RangeBound - 1 is where the funds of an account     *)
(* become stuck, and the only thing that makes them so.                     *)
THEOREM CapacityIsTheLimit ==
    Spec => [](\A a \in Accounts, d \in Denoms :
                 Plaintext(available[a][d]) > 0 =>
                   (Withdrawable(a, d) <=> WithinCapacity(Plaintext(available[a][d]))))
<1>1. IInv => \A a \in Accounts, d \in Denoms :
                Plaintext(available[a][d]) > 0 =>
                  (Withdrawable(a, d) <=> WithinCapacity(Plaintext(available[a][d])))
  BY CapacityExact
<1> QED
  BY <1>1, Invariance, PTL

(* No account holds more than all the coins there are. *)
LEMMA BalanceWithinSupply ==
    ASSUME IInv, NEW a \in Accounts, NEW d \in Denoms
    PROVE  /\ Plaintext(available[a][d]) \in Nat /\ Supply(d) \in Nat
           /\ Plaintext(available[a][d]) <= Supply(d)
<1>1. /\ Plaintext(available[a][d]) \in Nat
      /\ Plaintext(available[a][d]) <= escrow[d]
      /\ escrow[d] \in Nat
  BY BalancesBounded DEF Field
<1>2. Total(CoinsOf(bank, d)) \in Nat
  <2>1. CoinsOf(bank, d) \in [Accounts -> Nat]
    BY DEF CoinsOf, IInv, TypeOK
  <2> QED
    BY <2>1, UnitsFinite, AccountsAssumption
<1>3. Total(CoinsOf(bank, d)) + escrow[d] = Supply(d)
  BY DEF IInv, CoinsConserved
<1> QED
  BY <1>1, <1>2, <1>3

SupplyWithinCapacity == \A d \in Denoms : Supply(d) < 2 * RangeBound - 1

(* Where no denomination has 2 * RangeBound - 1 coins, every spendable      *)
(* balance can be moved back to public coins.                               *)
THEOREM FundsAreWithdrawable ==
    Spec => [](SupplyWithinCapacity => AvailableWithdrawable)
<1>1. ASSUME IInv, SupplyWithinCapacity, NEW a \in Accounts, NEW d \in Denoms,
             Plaintext(available[a][d]) > 0
      PROVE  Withdrawable(a, d)
  <2>1. WithinCapacity(Plaintext(available[a][d]))
    BY <1>1, BalanceWithinSupply, RangeAssumption DEF WithinCapacity, SupplyWithinCapacity
  <2> QED
    BY <1>1, <2>1, CapacityExact
<1>2. IInv => (SupplyWithinCapacity => AvailableWithdrawable)
  BY <1>1 DEF AvailableWithdrawable, Withdrawable
<1> QED
  BY <1>2, Invariance, PTL

(***************************************************************************)
(* The keeper implements the plain ledger: each handler is one operation of *)
(* ConfidentialLedger on the plaintexts, or changes nothing the ledger      *)
(* knows of.  The inductive invariant keeps the plaintexts from wrapping.   *)
(***************************************************************************)

(* The balances of a store, as the ledger sees them. *)
Plaintexts(store) == [a \in Accounts |-> [d \in Denoms |-> Plaintext(store[a][d])]]

Members == {a \in Accounts : HasRegisteredKey(a)}

(* The ledger's balances before and after one of them becomes n. *)
LedgerWritten(s, t, a, d, n) == Plaintexts(t) = [Plaintexts(s) EXCEPT ![a][d] = n]

(* Writing one cell of a store changes one balance of the ledger. *)
LEMMA PlaintextsWritten ==
    ASSUME NEW s, NEW t, NEW a \in Accounts, NEW d \in Denoms,
           NEW ct \in Ciphertext, BalanceWritten(s, t, a, d, ct)
    PROVE  LedgerWritten(s, t, a, d, ct.v)
<1>1. Plaintext(t[a][d]) = ct.v
  BY PlaintextWritten
<1>2. \A b \in Accounts, e \in Denoms :
        b # a \/ e # d => Plaintext(t[b][e]) = Plaintext(s[b][e])
  BY DEF BalanceWritten
<1> QED
  BY <1>1, <1>2, ZenonT(60) DEF Plaintexts, LedgerWritten

(* Writing what was there changes nothing. *)
LEMMA PlaintextsRewritten ==
    ASSUME NEW s, NEW t, NEW a \in Accounts, NEW d \in Denoms,
           LedgerWritten(s, t, a, d, Plaintexts(s)[a][d])
    PROVE  Plaintexts(t) = Plaintexts(s)
<1> DEFINE f == Plaintexts(s)
<1>1. f = [x \in Accounts |-> [e \in Denoms |-> f[x][e]]]
  BY DEF Plaintexts
<1> HIDE DEF f
<1>2. [f EXCEPT ![a][d] = f[a][d]] = f
  BY <1>1
<1> QED
  BY <1>2 DEF LedgerWritten, f

(* A shield is a deposit. *)
LEMMA ShieldDeposits ==
    ASSUME IInv, NEW m \in ShieldMsg, Shield(m)
    PROVE  Ledger!Deposit(m.sender, m.denom)
<1> DEFINE a == m.sender
           d == m.denom
           n == m.amount
           new == addCiphertexts(available[a][d], m.ciphertext)
<1>1. /\ a \in Accounts /\ d \in Denoms
      /\ n \in Nat \ {0} /\ n <= bank[a][d]
      /\ EscrowExchange(a, d, n, new)
  BY ShieldEffect
<1>2. /\ HasRegisteredKey(a)
      /\ bank' = [bank EXCEPT ![a][d] = @ - n]
      /\ UNCHANGED <<pubkey, pending>>
  BY DEF Shield, ShieldVerified
<1>3. bank[a][d] \in Nat
  BY <1>1 DEF IInv, TypeOK
<1> HIDE DEF a, d, n, new
<1>4. Plaintexts(available') = [Plaintexts(available) EXCEPT ![a][d] = @ + n]
  <2>1. LedgerWritten(available, available', a, d, new.v)
    BY <1>1, PlaintextsWritten DEF EscrowExchange
  <2>2. new.v = Plaintexts(available)[a][d] + n
    BY <1>1 DEF EscrowExchange, Plaintexts
  <2> QED
    BY <2>1, <2>2 DEF LedgerWritten
<1>5. Plaintexts(pending') = Plaintexts(pending) /\ Members' = Members
  BY <1>2 DEF Members, HasRegisteredKey
<1>6. a \in Members /\ n \in 1 .. bank[a][d]
  BY <1>1, <1>2, <1>3 DEF Members
<1> QED
  BY <1>2, <1>4, <1>5, <1>6 DEF Ledger!Deposit, Plaintexts, Members, a, d

(* An unshield is a withdrawal. *)
LEMMA UnshieldWithdraws ==
    ASSUME IInv, NEW m \in UnshieldMsg, Unshield(m)
    PROVE  Ledger!Withdraw(m.sender, m.denom)
<1> DEFINE a == m.sender
           d == m.denom
           n == m.amount
           new == subCiphertexts(available[a][d], m.ciphertext)
<1>1. /\ a \in Accounts /\ d \in Denoms
      /\ n \in Nat \ {0} /\ n <= Plaintext(available[a][d])
      /\ EscrowExchange(a, d, 0 - n, new)
  BY UnshieldEffect
<1>2. /\ bank' = [bank EXCEPT ![a][d] = @ + n]
      /\ UNCHANGED <<pubkey, pending>>
  BY DEF Unshield
<1>3. Plaintext(available[a][d]) \in Nat
  BY <1>1, BalancesBounded DEF Field
<1> HIDE DEF a, d, n, new
<1>4. Plaintexts(available') = [Plaintexts(available) EXCEPT ![a][d] = @ - n]
  <2>1. LedgerWritten(available, available', a, d, new.v)
    BY <1>1, PlaintextsWritten DEF EscrowExchange
  <2>2. new.v = Plaintexts(available)[a][d] - n
    BY <1>1, <1>3 DEF EscrowExchange, Plaintexts
  <2> QED
    BY <2>1, <2>2 DEF LedgerWritten
<1>5. Plaintexts(pending') = Plaintexts(pending) /\ Members' = Members
  BY <1>2 DEF Members, HasRegisteredKey
<1>6. n \in 1 .. Plaintexts(available)[a][d]
  BY <1>1, <1>3 DEF Plaintexts
<1> QED
  BY <1>2, <1>4, <1>5, <1>6 DEF Ledger!Withdraw, Plaintexts, Members, a, d

(* An application accepts all that has arrived. *)
LEMMA ApplyPendingAccepts ==
    ASSUME IInv, NEW m \in ApplyPendingMsg, ApplyPending(m)
    PROVE  Ledger!Accept(m.sender, m.denom)
<1> DEFINE a == m.sender
           d == m.denom
           new == addCiphertexts(available[a][d], m.newAvailableUpdate)
<1>1. /\ a \in Accounts /\ d \in Denoms
      /\ new \in Ciphertext
      /\ new.v = Plaintext(available[a][d]) + Plaintext(pending[a][d])
      /\ BalanceWritten(available, available', a, d, new)
  BY ApplyPendingEffect
<1>2. PICK zero \in Ciphertext :
        zero.v = 0 /\ BalanceWritten(pending, pending', a, d, zero)
  BY ApplyPendingEffect
<1>3. UNCHANGED <<bank, pubkey>>
  BY DEF ApplyPending, coins
<1> HIDE DEF a, d, new
<1>4. Plaintexts(available')
        = [Plaintexts(available) EXCEPT ![a][d] = @ + Plaintexts(pending)[a][d]]
  <2>1. LedgerWritten(available, available', a, d, new.v)
    BY <1>1, PlaintextsWritten
  <2>2. new.v = Plaintexts(available)[a][d] + Plaintexts(pending)[a][d]
    BY <1>1 DEF Plaintexts
  <2> QED
    BY <2>1, <2>2 DEF LedgerWritten
<1>5. Plaintexts(pending') = [Plaintexts(pending) EXCEPT ![a][d] = 0]
  BY <1>1, <1>2, PlaintextsWritten DEF LedgerWritten
<1>6. Members' = Members
  BY <1>3 DEF Members, HasRegisteredKey
<1> QED
  BY <1>3, <1>4, <1>5, <1>6 DEF Ledger!Accept, Plaintexts, Members, a, d

(* A send is a transfer.  Nothing forbids to send 0, and then the ledger    *)
(* sees nothing at all.                                                     *)
LEMMA SendTransfers ==
    ASSUME IInv, NEW m \in ConfidentialSendMsg, ConfidentialSend(m)
    PROVE  \/ Ledger!Transfer(m.sender, m.receiver, m.denom)
           \/ UNCHANGED Ledger!vars
<1> DEFINE a == m.sender
           b == m.receiver
           d == m.denom
           n == m.senderUpdate.v
           new == subCiphertexts(available[a][d], m.senderUpdate)
           credit == addCiphertexts(pending[b][d], m.receiverUpdate)
<1>1. /\ a \in Accounts /\ b \in Accounts /\ d \in Denoms /\ n \in Nat
      /\ new \in Ciphertext /\ credit \in Ciphertext
      /\ n <= Plaintext(available[a][d])
      /\ new.v = Plaintext(available[a][d]) - n
      /\ credit.v = Plaintext(pending[b][d]) + n
      /\ Plaintext(available[a][d]) \in Nat /\ Plaintext(pending[b][d]) \in Nat
      /\ BalanceWritten(available, available', a, d, new)
      /\ BalanceWritten(pending, pending', b, d, credit)
  BY ConfidentialSendEffect
<1>2. /\ a # b /\ HasRegisteredKey(a) /\ HasRegisteredKey(b)
      /\ UNCHANGED <<bank, pubkey>>
  BY DEF ConfidentialSend, SendVerified, coins
<1> HIDE DEF a, b, d, n, new, credit
<1>3. Plaintexts(available') = [Plaintexts(available) EXCEPT ![a][d] = @ - n]
  <2>1. LedgerWritten(available, available', a, d, new.v)
    BY <1>1, PlaintextsWritten
  <2>2. new.v = Plaintexts(available)[a][d] - n
    BY <1>1 DEF Plaintexts
  <2> QED
    BY <2>1, <2>2 DEF LedgerWritten
<1>4. Plaintexts(pending') = [Plaintexts(pending) EXCEPT ![b][d] = @ + n]
  <2>1. LedgerWritten(pending, pending', b, d, credit.v)
    BY <1>1, PlaintextsWritten
  <2>2. credit.v = Plaintexts(pending)[b][d] + n
    BY <1>1 DEF Plaintexts
  <2> QED
    BY <2>1, <2>2 DEF LedgerWritten
<1>5. Members' = Members /\ {a, b} \subseteq Members
  BY <1>1, <1>2 DEF Members, HasRegisteredKey
<1>6. CASE n = 0
  <2>1. Plaintexts(available') = Plaintexts(available)
    <3>1. new.v = Plaintexts(available)[a][d]
      BY <1>1, <1>6 DEF Plaintexts
    <3>2. LedgerWritten(available, available', a, d, new.v)
      BY <1>1, PlaintextsWritten
    <3> QED
      BY <1>1, <3>1, <3>2, PlaintextsRewritten
  <2>2. Plaintexts(pending') = Plaintexts(pending)
    <3>1. credit.v = Plaintexts(pending)[b][d]
      BY <1>1, <1>6 DEF Plaintexts
    <3>2. LedgerWritten(pending, pending', b, d, credit.v)
      BY <1>1, PlaintextsWritten
    <3> QED
      BY <1>1, <3>1, <3>2, PlaintextsRewritten
  <2> QED
    BY <1>2, <1>5, <2>1, <2>2 DEF Ledger!vars, Plaintexts, Members
<1>7. CASE n # 0
  <2>1. n \in 1 .. Plaintexts(available)[a][d]
    BY <1>1, <1>7 DEF Plaintexts
  <2> QED
    BY <1>2, <1>3, <1>4, <1>5, <2>1
       DEF Ledger!Transfer, Plaintexts, Members, a, b, d
<1> QED
  BY <1>6, <1>7

(* To register a key is to join. *)
LEMMA RegisterJoins ==
    ASSUME IInv, NEW m \in RegisterKeyMsgs, RegisterKey(m)
    PROVE  m.sender \in Accounts /\ Ledger!Join(m.sender)
<1>1. m.sender \in Accounts
  BY DEF RegisterKeyMsgs, RegisterKeyMsg
<1>2. /\ m.pubkey \in Keys /\ ~HasRegisteredKey(m.sender)
      /\ pubkey' = [pubkey EXCEPT ![m.sender] = m.pubkey]
      /\ UNCHANGED <<bank, available, pending>>
  BY DEF RegisterKey, RegisterVerified, coins, balances
<1>3. m.sender \notin Members
  BY <1>2 DEF Members
<1>4. Members' = Members \cup {m.sender}
  BY <1>1, <1>2, NilAssumption DEF Members, HasRegisteredKey, IInv, TypeOK
<1> QED
  BY <1>1, <1>2, <1>3, <1>4 DEF Ledger!Join, Members

(* Every step of the keeper is a step of the ledger, or none. *)
LEMMA StepRefines == IInv /\ [Next]_vars => [Ledger!Next]_Ledger!vars
<1> SUFFICES ASSUME IInv, [Next]_vars
             PROVE  Ledger!Next \/ UNCHANGED Ledger!vars
  OBVIOUS
<1>1. CASE \E m \in RegisterKeyMsgs : RegisterKey(m)
  BY <1>1, RegisterJoins DEF Ledger!Next
<1>2. CASE \E m \in ShieldMsgs : Shield(m)
  <2>1. PICK m \in ShieldMsg : Shield(m)
    BY <1>2 DEF ShieldMsgs
  <2>2. m.sender \in Accounts /\ m.denom \in Denoms
    BY DEF ShieldMsg
  <2> QED
    BY <2>1, <2>2, ShieldDeposits DEF Ledger!Next
<1>3. CASE \E m \in SendMsgs : ConfidentialSend(m)
  <2>1. PICK m \in ConfidentialSendMsg : ConfidentialSend(m)
    BY <1>3 DEF SendMsgs
  <2>2. m.sender \in Accounts /\ m.receiver \in Accounts /\ m.denom \in Denoms
    BY DEF ConfidentialSendMsg
  <2> QED
    BY <2>1, <2>2, SendTransfers DEF Ledger!Next
<1>4. CASE \E m \in ApplyPendingMsgs : ApplyPending(m)
  <2>1. PICK m \in ApplyPendingMsg : ApplyPending(m)
    BY <1>4 DEF ApplyPendingMsgs
  <2>2. m.sender \in Accounts /\ m.denom \in Denoms
    BY DEF ApplyPendingMsg
  <2> QED
    BY <2>1, <2>2, ApplyPendingAccepts DEF Ledger!Next
<1>5. CASE \E m \in UnshieldMsgs : Unshield(m)
  <2>1. PICK m \in UnshieldMsg : Unshield(m)
    BY <1>5 DEF UnshieldMsgs
  <2>2. m.sender \in Accounts /\ m.denom \in Denoms
    BY DEF UnshieldMsg
  <2> QED
    BY <2>1, <2>2, UnshieldWithdraws DEF Ledger!Next
<1>6. CASE \E m \in SetAuditorKeyMsgs : SetAuditorKey(m)
  BY <1>6 DEF SetAuditorKey, coins, balances, Ledger!vars, HasRegisteredKey
<1>7. CASE UNCHANGED vars
  BY <1>7 DEF vars, coins, balances, Ledger!vars, HasRegisteredKey
<1> QED
  BY <1>1, <1>2, <1>3, <1>4, <1>5, <1>6, <1>7 DEF Next

(* The keeper implements the plain ledger: whatever messages are submitted, *)
(* public coins and the plaintexts of the two encrypted balances move as    *)
(* whole amounts from one place to another (the handlers of keeper/).       *)
THEOREM ImplementsPlainLedger == Spec => ImplementsLedger
<1>1. Init => Ledger!Init
  BY DEF Init, Ledger!Init, Ledger!Empty, Plaintext, unmarshalOrZero, HasRegisteredKey
<1> QED
  BY <1>1, StepRefines, Invariance, PTL DEF Spec, ImplementsLedger, Ledger!Spec
=============================================================================
