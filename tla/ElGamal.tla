------------------------------ MODULE ElGamal ------------------------------
(***************************************************************************)
(* Twisted ElGamal ciphertexts over the BN254 scalar field, as the keeper   *)
(* and the clients use them (elgamal-bn254 itself is outside the            *)
(* repository).  A ciphertext Enc(v, pk, r) = (r*G, v*G + r*pk) is kept as  *)
(* the record of what determines it: the key it decrypts under, its         *)
(* plaintext v and its randomness r, both scalars.  With r = 0 the key      *)
(* leaves no trace in it, and it decrypts to v under every key.  Records    *)
(* are therefore equal exactly when the 128 bytes are.                      *)
(*                                                                         *)
(* Scalars wrap: sending "-1" is sending FieldOrder - 1, which is what the  *)
(* range proofs are there to refuse.                                        *)
(***************************************************************************)
EXTENDS Integers

CONSTANTS
    FieldOrder,  \* the order of the scalar field (about 2^254)
    Keys,        \* the valid public keys: points on the curve, not the identity
    AnyKey,      \* the "key" of a ciphertext with randomness 0
    Garbled,     \* the "key" of a ciphertext that no key decrypts
    Nil          \* a store lookup that finds nothing

ASSUME FieldAssumption == FieldOrder \in Nat \ {0}

Field == 0 .. (FieldOrder - 1)

FieldAdd(x, y) == IF x + y < FieldOrder THEN x + y ELSE x + y - FieldOrder

FieldSub(x, y) == IF y <= x THEN x - y ELSE x - y + FieldOrder

Ciphertext == [key : Keys \cup {AnyKey, Garbled}, v : Field, r : Field]

(* Only the plaintext decrypts back: DecryptsUnder(ct, pk) says that the    *)
(* holder of the secret of pk reads ct.v.                                   *)
DecryptsUnder(ct, pk) == ct.key \in {pk, AnyKey}

Canonical(pk, v, r) ==
    [key |-> IF r = 0 /\ pk # Garbled THEN AnyKey ELSE pk, v |-> v, r |-> r]

EncryptWithRandomness(v, pk, r) == Canonical(pk, v, r)

ASSUME NilAssumption ==
    /\ Nil \notin Ciphertext \cup Keys
    /\ AnyKey \notin Keys
    /\ Garbled \notin Keys \cup {AnyKey}

(* The sum of ciphertexts under different keys decrypts under neither.      *)
CommonKey(a, b) ==
    IF a.key = AnyKey THEN b.key
    ELSE IF b.key \in {a.key, AnyKey} THEN a.key
    ELSE Garbled

Add(a, b) == Canonical(CommonKey(a, b), FieldAdd(a.v, b.v), FieldAdd(a.r, b.r))

Sub(a, b) == Canonical(CommonKey(a, b), FieldSub(a.v, b.v), FieldSub(a.r, b.r))

(* A missing balance is read as the identity ciphertext. *)
unmarshalOrZero(stored) ==
    IF stored = Nil THEN [key |-> AnyKey, v |-> 0, r |-> 0] ELSE stored

addCiphertexts(stored, ct) == Add(unmarshalOrZero(stored), ct)

subCiphertexts(stored, ct) == Sub(unmarshalOrZero(stored), ct)

(* The plaintext a stored balance stands for. *)
Plaintext(stored) == unmarshalOrZero(stored).v
=============================================================================
