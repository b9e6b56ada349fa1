----------------------------- MODULE Admission -----------------------------
(***************************************************************************)
(* The way of one message from the client that builds it, through the       *)
(* stateless ValidateBasic, into the checks a handler makes of its format,  *)
(* to the coins it moves.                                                   *)
(*                                                                         *)
(* A message is a shape: the lengths of its byte fields, the spellings of   *)
(* its addresses, whether its denomination is one, the amount it names and  *)
(* the amount its ciphertext and proofs are about.  What the chain holds is *)
(* left open: a handler may refuse any message for a reason of state.       *)
(***************************************************************************)
EXTENDS Integers

CONSTANTS
    Accounts,         \* the accounts of the chain
    Word,             \* the width of an unsigned integer (64 in the code)
    MaxTransferBits,  \* params.MaxTransferBits, at most Word
    Significand,      \* the bits of the significand of a JS number (53)
    Amounts,          \* the integers an amount string may stand for
    MemoLengths,      \* the lengths of the memos clients encrypt
    OddLengths        \* the lengths a field may have by mistake

ASSUME WidthAssumption ==
    Word \in Nat /\ MaxTransferBits \in 1 .. Word /\ Significand \in Nat

(* What follows of their powers of two. *)
ASSUME PowersAssumption ==
    /\ 2 ^ Word \in Nat \ {0} /\ 2 ^ MaxTransferBits \in 1 .. 2 ^ Word
    /\ 2 ^ Significand \in Nat \ {0}

(* Clients encrypt memos up to the documented bound. *)
ASSUME InputsAssumption == Amounts \subseteq Int /\ MemoLengths \subseteq 0 .. 1024

VARIABLES
    stage,     \* where the message is
    msg,       \* the message
    origin,    \* what built it
    debited,   \* the coins it took from one side
    credited   \* the coins or the plaintext it gave to the other

admissionVars == <<stage, msg, origin, debited, credited>>

NoMessage == [type |-> "none"]

(***************************************************************************)
(* Lengths in bytes (types/msgs.go; elgamal-bn254 and bulletproofs-bn254)   *)
(***************************************************************************)

(* Ephemeral key, nonce and authentication tag, around at most 1024 bytes.  *)
MemoEnvelope == 64 + 12 + 16

(* Fault: the envelope is not allowed for. *)
MemoPlaintextSize == 1024

MaxEncryptedMemoSize == 1024 + MemoEnvelope

MaxProofSize == [dleq |-> 640, equality |-> 2048, apply |-> 1408, range |-> 4096]
PedersenCommitmentSize == 64
CommitmentEqualityProofSize == 288
PopProofSize == 96

(* The fields of each message and the lengths honest provers give them.     *)
Marshalled == [
    RegisterKey      |-> [pubkey |-> 64, pop |-> 96],
    Shield           |-> [ciphertext |-> 128, proof |-> 160],
    ConfidentialSend |-> [senderUpdate |-> 128, receiverUpdate |-> 128,
                          auditorUpdate |-> 128, rangeProof |-> 740,
                          equalityProof |-> 512, transferCommitment |-> 64,
                          remainingCommitment |-> 64, transferCommitmentProof |-> 288,
                          remainingCommitmentProof |-> 288],
    ApplyPending     |-> [newAvailableUpdate |-> 128, proof |-> 352],
    Unshield         |-> [ciphertext |-> 128, rangeProof |-> 740,
                          decryptionProof |-> 160, remainingCommitment |-> 64,
                          remainingCommitmentProof |-> 288],
    SetAuditorKey    |-> [pubkey |-> 64]]

Types == DOMAIN Marshalled

(***************************************************************************)
(* ValidateBasic (types/msgs.go)                                            *)
(***************************************************************************)

(* Bech32 accepts an address in lower case and in upper case. *)
Spellings == [account : Accounts, upper : BOOLEAN]
Malformed == [account |-> "none", upper |-> FALSE]

IsAddress(s) == s.account \in Accounts

(* A transfer carries a second memo, for the auditor, with the same bound.  *)
MemoFits(m) == m.memo <= MaxEncryptedMemoSize

ValidateRegisterKey(m) ==
    /\ IsAddress(m.sender)
    /\ m.len.pubkey = 64
    /\ m.len.pop = PopProofSize

(* Fault: the denomination is left to the handler. *)
ValidateShieldAnyDenom(m) ==
    /\ IsAddress(m.sender)
    /\ m.amount > 0
    /\ m.len.ciphertext = 128
    /\ m.len.proof \in 1 .. MaxProofSize.dleq
    /\ MemoFits(m)

ValidateShield(m) ==
    /\ IsAddress(m.sender)
    /\ m.denomValid
    /\ m.amount > 0
    /\ m.len.ciphertext = 128
    /\ m.len.proof \in 1 .. MaxProofSize.dleq
    /\ MemoFits(m)

(* The addresses are compared as they are spelled. *)
ValidateConfidentialSend(m) ==
    /\ IsAddress(m.sender) /\ IsAddress(m.receiver)
    /\ m.sender # m.receiver
    /\ m.denomValid
    /\ \A f \in {"senderUpdate", "receiverUpdate", "auditorUpdate"} : m.len[f] = 128
    /\ m.len.rangeProof \in 1 .. MaxProofSize.range
    /\ \A f \in {"transferCommitment", "remainingCommitment"} :
         m.len[f] = PedersenCommitmentSize
    /\ \A f \in {"transferCommitmentProof", "remainingCommitmentProof"} :
         m.len[f] = CommitmentEqualityProofSize
    /\ m.len.equalityProof \in 1 .. MaxProofSize.equality
    /\ MemoFits(m)

ValidateApplyPending(m) ==
    /\ IsAddress(m.sender)
    /\ m.denomValid
    /\ m.len.newAvailableUpdate = 128
    /\ m.len.proof \in 1 .. MaxProofSize.apply
    /\ MemoFits(m)

ValidateUnshield(m) ==
    /\ IsAddress(m.sender)
    /\ m.denomValid
    /\ m.amount > 0
    /\ m.len.ciphertext = 128
    /\ m.len.rangeProof \in 1 .. MaxProofSize.range
    /\ m.len.decryptionProof \in 1 .. MaxProofSize.dleq
    /\ m.len.remainingCommitment = PedersenCommitmentSize
    /\ m.len.remainingCommitmentProof = CommitmentEqualityProofSize
    /\ MemoFits(m)

ValidateSetAuditorKey(m) == IsAddress(m.sender) /\ m.len.pubkey = 64

ValidateBasic(m) ==
    CASE m.type = "RegisterKey"      -> ValidateRegisterKey(m)
      [] m.type = "Shield"           -> ValidateShield(m)
      [] m.type = "ConfidentialSend" -> ValidateConfidentialSend(m)
      [] m.type = "ApplyPending"     -> ValidateApplyPending(m)
      [] m.type = "Unshield"         -> ValidateUnshield(m)
      [] m.type = "SetAuditorKey"    -> ValidateSetAuditorKey(m)

(***************************************************************************)
(* Clients                                                                  *)
(***************************************************************************)

(* A memo of n bytes, encrypted; none for n = 0. *)
EncryptMemo(n) == IF n = 0 THEN 0 ELSE n + MemoEnvelope

Lower(a) == [account |-> a, upper |-> FALSE]

(* What a caller of the Go SDK makes of its results: every field is set.    *)
HonestMessage(type, a, b, amount, memo) ==
    [type |-> type, sender |-> Lower(a), receiver |-> Lower(b), denomValid |-> TRUE,
     amount |-> amount, proved |-> amount, len |-> Marshalled[type],
     memo |-> EncryptMemo(memo)]

HonestMessages ==
    {HonestMessage(type, a, b, amount, memo) :
        type \in Types, a \in Accounts, b \in Accounts,
        amount \in Amounts \cap 1 .. (2 ^ MaxTransferBits - 1), memo \in MemoLengths}

SdkMessages == {m \in HonestMessages : m.sender # m.receiver}

(* Messages with one thing wrong, by mistake or on purpose. *)
OddMessages(m) ==
    {[m EXCEPT !.len[f] = n] : f \in DOMAIN m.len, n \in OddLengths}
    \cup {[m EXCEPT !.sender = s] : s \in Spellings \cup {Malformed}}
    \cup {[m EXCEPT !.receiver = s] : s \in Spellings \cup {Malformed}}
    \cup {[m EXCEPT !.amount = n] : n \in Amounts}
    \cup {[m EXCEPT !.memo = n] : n \in OddLengths}
    \cup {[m EXCEPT !.denomValid = FALSE]}

RawMessages == UNION {OddMessages(m) : m \in {m \in SdkMessages : m.memo = 0}}

(* A client that sets only some of the fields leaves the others empty.      *)
OnlyFields(m, fields) ==
    [m EXCEPT !.len = [f \in DOMAIN m.len |-> IF f \in fields THEN m.len[f] ELSE 0]]

(* The commands of client/cli/tx.go, given arguments made for message m.    *)
CmdRegisterKey(m) == OnlyFields(m, {"pubkey"})
CmdShield(m) == OnlyFields(m, {"ciphertext", "proof"})
CmdConfidentialSend(m) ==
    OnlyFields(m, {"senderUpdate", "receiverUpdate", "auditorUpdate",
                   "rangeProof", "equalityProof"})

(* Fault: the fields are those of an earlier version of the message. *)
CmdApplyPendingUnproved(m) == OnlyFields(m, {"newAvailableUpdate"})

CmdApplyPending(m) == OnlyFields(m, {"newAvailableUpdate", "proof"})
CmdUnshield(m) == OnlyFields(m, {"ciphertext", "rangeProof", "decryptionProof"})
CmdSetAuditorKey(m) == OnlyFields(m, {"pubkey"})

Cmd(m) ==
    CASE m.type = "RegisterKey"      -> CmdRegisterKey(m)
      [] m.type = "Shield"           -> CmdShield(m)
      [] m.type = "ConfidentialSend" -> CmdConfidentialSend(m)
      [] m.type = "ApplyPending"     -> CmdApplyPending(m)
      [] m.type = "Unshield"         -> CmdUnshield(m)
      [] m.type = "SetAuditorKey"    -> CmdSetAuditorKey(m)

(* Two commands look at the length of a key before they build a message.    *)
CmdAccepts(m) == m.type \in {"RegisterKey", "SetAuditorKey"} => m.len.pubkey = 64

(* The fields the encoders of client/web/src/lib/messages.ts write; there   *)
(* is none for SetAuditorKey.                                               *)
WebFields == [
    RegisterKey      |-> {"pubkey"},
    Shield           |-> {"ciphertext", "proof"},
    ConfidentialSend |-> {"senderUpdate", "receiverUpdate", "auditorUpdate",
                          "rangeProof", "equalityProof"},
    ApplyPending     |-> {"newAvailableUpdate", "proof"},
    Unshield         |-> {"ciphertext", "rangeProof", "decryptionProof"}]

(* Integers at the size of n are told apart up to a power of two ... *)
Spacing(n) ==
    2 ^ (CHOOSE e \in 0 .. n : /\ n < 2 ^ (Significand + e)
                               /\ \A f \in 0 .. e - 1 : n >= 2 ^ (Significand + f))

(* ... and read as the nearest multiple of it, the even one at a tie.       *)
JsNumber(n) ==
    LET q == n \div Spacing(n)
        rest == 2 * (n % Spacing(n))
        up == rest > Spacing(n) \/ (rest = Spacing(n) /\ q % 2 = 1)
    IN Spacing(n) * (IF up THEN q + 1 ELSE q)

(* String(Number(n)): a text that reads as the same number, left open which *)
(* of them; below 2^53 the integer itself.                                  *)
JsTexts(n) ==
    IF n < 2 ^ Significand
    THEN {n}
    ELSE {k \in 2 ^ Significand .. 2 * n : JsNumber(k) = JsNumber(n)}

(* The amount of a message is the text of a number.  The proofs are about   *)
(* that text too, as crypto-worker.js passes it on, or about the exact      *)
(* amount, which the entry points of the WASM module take as a string.      *)
encodeMsg(m, text, proved) ==
    [OnlyFields(m, WebFields[m.type]) EXCEPT !.amount = text, !.proved = proved]

(***************************************************************************)
(* The format checks of the handlers                                        *)
(***************************************************************************)

Uint64(n) == n % 2 ^ Word

(* Fault: the amount is cut to a word without a look at what is cut off. *)
AmountCut(n) == n > 0

(* BitLen(amount) <= MaxTransferBits, and IsUint64. *)
AmountFits(n) == n > 0 /\ n < 2 ^ MaxTransferBits /\ n < 2 ^ Word

(* Proofs of another length do not unmarshal, or do not verify. *)
ProofsUnmarshal(m) == m.len = Marshalled[m.type]

SendFormat(m) ==
    /\ m.sender.account # m.receiver.account
    /\ ProofsUnmarshal(m)

(* The proof is verified against the amount as a word. *)
AmountFormat(m) ==
    /\ AmountFits(m.amount)
    /\ ProofsUnmarshal(m)
    /\ m.proved = Uint64(m.amount)

HandlerAccepts(m) ==
    CASE m.type = "ConfidentialSend"        -> SendFormat(m)
      [] m.type \in {"Shield", "Unshield"} -> AmountFormat(m)
      [] OTHER                              -> ProofsUnmarshal(m)

(***************************************************************************)
(* One message at a time                                                    *)
(***************************************************************************)

AdmissionInit ==
    /\ stage = "idle"
    /\ msg = NoMessage
    /\ origin = "none"
    /\ debited = 0
    /\ credited = 0

Build(m, client) ==
    /\ stage = "idle"
    /\ stage' = "built"
    /\ msg' = m
    /\ origin' = client
    /\ UNCHANGED <<debited, credited>>

BuildWithCli(m) == CmdAccepts(m) /\ Build(Cmd(m), "cli")

BuildWithWeb(m) ==
    /\ m.type \in DOMAIN WebFields
    /\ \E text \in JsTexts(m.amount) : \E proved \in {m.proved, text} :
         Build(encodeMsg(m, text, proved), "web")

(* The command line calls ValidateBasic before it signs, the node before it *)
(* runs the message.                                                        *)
Check ==
    /\ stage = "built"
    /\ stage' = IF ValidateBasic(msg) THEN "admitted" ELSE "turned away"
    /\ UNCHANGED <<msg, origin, debited, credited>>

Refuse ==
    /\ stage = "admitted"
    /\ stage' = "refused"
    /\ UNCHANGED <<msg, origin, debited, credited>>

(* NewCoin panics on what is not a denomination.  The coins that move are   *)
(* the whole amount, the balance moves by what was proved.                  *)
MoveCoins ==
    /\ stage = "admitted"
    /\ msg.type \in {"Shield", "Unshield"}
    /\ HandlerAccepts(msg)
    /\ stage' = IF msg.denomValid THEN "executed" ELSE "panicked"
    /\ debited' = IF msg.type = "Shield" THEN msg.amount ELSE msg.proved
    /\ credited' = IF msg.type = "Shield" THEN msg.proved ELSE msg.amount
    /\ UNCHANGED <<msg, origin>>

Run ==
    /\ stage = "admitted"
    /\ msg.type \notin {"Shield", "Unshield"}
    /\ HandlerAccepts(msg)
    /\ stage' = "executed"
    /\ UNCHANGED <<msg, origin, debited, credited>>

Forget ==
    /\ stage \in {"turned away", "refused", "executed", "panicked"}
    /\ stage' = "idle"
    /\ msg' = NoMessage
    /\ origin' = "none"
    /\ debited' = 0
    /\ credited' = 0

AdmissionNext ==
    \/ \E m \in SdkMessages : Build(m, "sdk")
    \/ \E m \in SdkMessages : BuildWithCli(m)
    \/ \E m \in SdkMessages : BuildWithWeb(m)
    \/ \E m \in RawMessages : Build(m, "raw")
    \/ Check
    \/ Refuse
    \/ MoveCoins
    \/ Run
    \/ Forget

AdmissionSpec == AdmissionInit /\ [][AdmissionNext]_admissionVars

(***************************************************************************)
(* Correctness                                                              *)
(***************************************************************************)

(* What ValidateBasic lets through cannot make a handler panic: Shield and  *)
(* Unshield build their coin late, after the last of their own checks.      *)
HandlersNeverPanic == stage # "panicked"

(* The bank moves the amount as an integer of any size, the proofs are      *)
(* verified for it as a 64-bit word, and a page may have rounded one of the *)
(* two; what is executed moves the same on both sides, whatever             *)
(* MaxTransferBits the chain chose.                                         *)
BothSidesMoveTheSame == stage = "executed" => debited = credited

(* A message the SDK's provers filled in completely, with a memo of any     *)
(* length up to the documented 1024 bytes, meets every format check of      *)
(* ValidateBasic and of its handler.                                        *)
HonestMessagesAccepted ==
    origin = "sdk" =>
        /\ stage # "turned away"
        /\ stage = "admitted" => HandlerAccepts(msg)

(* Messages that later gained fields the two other clients do not set.      *)
OutgrownTypes == {"RegisterKey", "ConfidentialSend", "Unshield"}

(* The command line and the web wallet write the messages field by field:   *)
(* what they write of a deposit, an application or an auditor key is all    *)
(* that ValidateBasic and the handler ask for, as long as a page keeps to   *)
(* the integers that JS numbers hold exactly; what they write of the other  *)
(* messages never gets past ValidateBasic.                                  *)
OtherClientsAccepted ==
    origin \in {"cli", "web"} =>
        IF msg.type \in OutgrownTypes
        THEN stage \in {"built", "turned away"}
        ELSE /\ stage # "turned away"
             /\ stage = "admitted" /\ (origin = "web" => msg.proved < 2 ^ Significand) =>
                  HandlerAccepts(msg)
=============================================================================
