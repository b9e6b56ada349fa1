------------------------------ MODULE Encoding ------------------------------
(***************************************************************************)
(* The byte strings that keep two uses of one secret apart: the context     *)
(* that randomness is derived for (client/sdk/randomness.go), the           *)
(* transcript a proof is bound to (keeper/verify.go), the salt of the fresh *)
(* zero that ApplyPending leaves, and the payload of a memo                 *)
(* (client/web/wasm/main.go).                                               *)
(*                                                                         *)
(* A byte is a number below Base and a machine word has two of them.  Two   *)
(* uses are looked at side by side; the steps change one thing in one of    *)
(* them, as a retry, a second denomination or a later block does.           *)
(***************************************************************************)
EXTENDS Integers, SequencesExt

CONSTANTS
    Base,        \* the number of values of a byte
    SlashByte,   \* '/'
    ChainIDs, DenomNames, Ops, Addresses,  \* byte strings
    Words,       \* sequence numbers, amounts, heights
    Indices,     \* the indices of DeriveRandomnessWithIndex
    RandomnessWidth

ASSUME WordAssumption ==
    /\ Words \cup Indices \subseteq 0 .. Base * Base - 1
    /\ RandomnessWidth \in Nat

(* Strings of bytes, whose lengths fit a word; addresses stand between      *)
(* slashes without a length, so none goes on, after a slash, where another  *)
(* ends: they are hashes of 20 or 32 bytes.  A coin has a denomination.     *)
ASSUME StringsAssumption ==
    /\ Base \in Nat \ {0}
    /\ SlashByte \in 0 .. Base - 1
    /\ \A s \in ChainIDs \cup DenomNames \cup Ops \cup Addresses :
         s \in Seq(0 .. Base - 1) /\ Len(s) < Base * Base
    /\ <<>> \notin DenomNames
    /\ \A a, b \in Addresses : a # b => ~IsPrefix(a \o <<SlashByte>>, b)

VARIABLES one, two   \* two uses

encodingVars == <<one, two>>

(* Big-endian. *)
PutUint(n) == <<n \div Base, n % Base>>
Uint(bytes) == bytes[1] * Base + bytes[2]

(* No operation of randomness.go is another with a slash and an index.      *)
ASSUME OpsAssumption ==
    \A o, p \in Ops, i \in Indices : p # o \o <<SlashByte>> \o PutUint(i)

(***************************************************************************)
(* DerivationContext                                                        *)
(***************************************************************************)

appendField(b) == PutUint(Len(b)) \o b

(* Fault: the lengths are left out. *)
encodeUnprefixed(c) ==
    c.ChainID \o c.Denom \o c.Op \o c.Receiver \o PutUint(c.Sequence) \o PutUint(c.Amount)

encode(c) ==
    appendField(c.ChainID) \o appendField(c.Denom) \o appendField(c.Op)
      \o appendField(c.Receiver) \o PutUint(c.Sequence) \o PutUint(c.Amount)

(* Fault: the index takes the place of the operation. *)
WithIndexOnly(c, index) == [c EXCEPT !.Op = <<SlashByte>> \o PutUint(index)]

(* DeriveRandomnessWithIndex *)
WithIndex(c, index) == [c EXCEPT !.Op = @ \o <<SlashByte>> \o PutUint(index)]

(***************************************************************************)
(* Transcripts: what was appended, each piece under its label               *)
(***************************************************************************)

AppendBytes(label, data) == <<[label |-> label, data |-> data]>>

(* Fault: only the presence of a receiver is recorded. *)
buildTranscriptAnyReceiver(c) ==
    AppendBytes("chain_id", c.ChainID) \o AppendBytes("sender", c.Sender)
      \o (IF c.Receiver = <<>> THEN <<>> ELSE AppendBytes("receiver", <<>>))
      \o AppendBytes("denom", c.Denom)

buildTranscript(c) ==
    AppendBytes("chain_id", c.ChainID) \o AppendBytes("sender", c.Sender)
      \o (IF c.Receiver = <<>> THEN <<>> ELSE AppendBytes("receiver", c.Receiver))
      \o AppendBytes("denom", c.Denom)

AppendRole(t, role) == t \o AppendBytes("commitment_role", role)

Roles == {"transfer", "remaining"}
ProofKinds == {"possession", "dleq", "apply", "equality", "range"} \cup Roles

(* What a proof is about: possession of a key belongs to an account alone,  *)
(* a deposit and an application have no receiver.                           *)
Subject(proof, c) ==
    CASE proof = "possession" -> [c EXCEPT !.Receiver = <<>>, !.Denom = <<>>]
      [] proof \in {"dleq", "apply"} -> [c EXCEPT !.Receiver = <<>>]
      [] OTHER -> c

(* The transcript of each of the proofs of the messages; the commitment     *)
(* proofs add their role.                                                   *)
Transcripts(c) ==
    [proof \in ProofKinds |->
        LET t == buildTranscript(Subject(proof, c))
        IN IF proof \in Roles THEN AppendRole(t, proof) ELSE t]

(***************************************************************************)
(* The salt of a fresh encryption of zero                                   *)
(***************************************************************************)

(* Fault: the height is left out. *)
zeroSaltAnyHeight(c) == c.Sender \o <<SlashByte>> \o c.Denom \o <<SlashByte>>

(* deterministicZeroEncrypt *)
zeroSalt(c) ==
    c.Sender \o <<SlashByte>> \o c.Denom \o <<SlashByte>> \o PutUint(c.Height)

(***************************************************************************)
(* Memos                                                                    *)
(***************************************************************************)

Zeros(n) == [i \in 1 .. n |-> 0]

(* Shorter randomness is padded on the left, longer is cut. *)
FixedWidth(r) ==
    IF Len(r) < RandomnessWidth THEN Zeros(RandomnessWidth - Len(r)) \o r
    ELSE SubSeq(r, 1, RandomnessWidth)

(* Fault: shorter randomness is padded on the right. *)
memoPayloadLeft(r, amount, txAmount) ==
    SubSeq(r \o Zeros(RandomnessWidth), 1, RandomnessWidth)
      \o PutUint(amount) \o PutUint(txAmount)

memoPayload(r, amount, txAmount) ==
    FixedWidth(r) \o PutUint(amount) \o PutUint(txAmount)

(* Memos without the last word are still read. *)
readMemo(payload) ==
    LET word(at) == Uint(SubSeq(payload, at, at + 1))
    IN IF Len(payload) < RandomnessWidth + 2 THEN <<>>
       ELSE [randomness |-> SubSeq(payload, 1, RandomnessWidth),
             amount |-> word(RandomnessWidth + 1),
             txAmount |-> IF Len(payload) >= RandomnessWidth + 4
                          THEN word(RandomnessWidth + 3) ELSE 0]

(***************************************************************************)
(* Two uses, side by side                                                   *)
(***************************************************************************)

(* The context randomness is derived for, with the account it belongs to    *)
(* and the height of the block the transaction is executed in.              *)
Contexts ==
    [ChainID : ChainIDs, Denom : DenomNames, Op : Ops, Sender : Addresses,
     Receiver : Addresses \cup {<<>>}, Sequence : Words, Amount : Words,
     Height : Words]

EncodingInit ==
    /\ one \in Contexts
    /\ two = one

(* Another transaction of the same wallet, differing in one thing. *)
Vary ==
    /\ \/ \E v \in ChainIDs : two' = [two EXCEPT !.ChainID = v]
       \/ \E v \in DenomNames : two' = [two EXCEPT !.Denom = v]
       \/ \E v \in Ops : two' = [two EXCEPT !.Op = v]
       \/ \E v \in Addresses : two' = [two EXCEPT !.Sender = v]
       \/ \E v \in Addresses \cup {<<>>} : two' = [two EXCEPT !.Receiver = v]
       \/ \E v \in Words : two' = [two EXCEPT !.Sequence = v]
       \/ \E v \in Words : two' = [two EXCEPT !.Amount = v]
       \/ \E v \in Words : two' = [two EXCEPT !.Height = v]
    /\ UNCHANGED one

EncodingSpec == EncodingInit /\ [][Vary]_encodingVars

(***************************************************************************)
(* Correctness                                                              *)
(***************************************************************************)

Same(fields) == \A f \in fields : one[f] = two[f]

DerivationFields == {"ChainID", "Denom", "Op", "Receiver", "Sequence", "Amount"}

(* Two transactions derive the same randomness from the same balance only   *)
(* if they are the same transaction (randomness.go: "two distinct contexts  *)
(* cannot produce the same byte string"), also where an index tells several *)
(* values of one operation apart.                                           *)
DerivationSeparates ==
    /\ encode(one) = encode(two) => Same(DerivationFields)
    /\ \A i \in Indices :
         /\ encode(WithIndex(one, i)) # encode(two)
         /\ \A j \in Indices :
              encode(WithIndex(one, i)) = encode(WithIndex(two, j)) =>
                  Same(DerivationFields) /\ i = j

(* A transcript is shared only by proofs about the same chain, sender,      *)
(* receiver and denomination; a commitment proof's is not another's in the  *)
(* same message, and a possession proof's is no other proof's: without a    *)
(* receiver the labels still keep the denomination apart from one, and only *)
(* possession is proved for no denomination.  It does not tell apart two    *)
(* messages between the same accounts: what is proved, and the account's    *)
(* sequence number, do that.                                                *)
TranscriptsBind ==
    \A p, q \in ProofKinds :
        Transcripts(one)[p] = Transcripts(two)[q] =>
            /\ \A f \in {"ChainID", "Sender", "Receiver", "Denom"} :
                 Subject(p, one)[f] = Subject(q, two)[f]
            /\ p \in Roles \cup {"possession"} \/ q \in Roles \cup {"possession"} => p = q

(* Applications of different accounts, of different denominations or in     *)
(* different blocks leave zeros of different randomness behind, although    *)
(* the parts of the salt are joined by a byte that occurs in denominations  *)
(* and addresses: no address goes on where another ends.  Two applications  *)
(* of one account and denomination in one block do leave the same zero.     *)
ZerosApart == zeroSalt(one) = zeroSalt(two) => Same({"Sender", "Denom", "Height"})

(* The number that a string spells, by its digits from the last one on. *)
Digits(s) ==
    [i \in 0 .. RandomnessWidth - 1 |-> IF i < Len(s) THEN s[Len(s) - i] ELSE 0]

(* The state a memo was written with is the state read from it, and a memo  *)
(* of the older, shorter layout still yields it.  Any string stands for the *)
(* randomness; a scalar is not wider than its field in the memo.            *)
MemoReadsBack ==
    LET r == one.Denom
        payload == memoPayload(r, one.Amount, two.Amount)
        Reads(memo, txAmount) ==
            /\ Digits(memo.randomness) = Digits(r)
            /\ memo.amount = one.Amount
            /\ memo.txAmount = txAmount
    IN Len(r) <= RandomnessWidth =>
         /\ Reads(readMemo(payload), two.Amount)
         /\ Reads(readMemo(SubSeq(payload, 1, RandomnessWidth + 2)), 0)
=============================================================================
