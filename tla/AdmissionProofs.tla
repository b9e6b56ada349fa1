--------------------------- MODULE AdmissionProofs ---------------------------
(***************************************************************************)
(* What ValidateBasic and the handlers promise of a message, for every      *)
(* width of a word, every MaxTransferBits within it, every amount and every *)
(* memo up to the documented bound.                                         *)
(***************************************************************************)
EXTENDS Admission, TLAPS

(***************************************************************************)
(* What clients build                                                       *)
(***************************************************************************)

(* A message with all its fields. *)
Filled(m) ==
    /\ m.type \in Types
    /\ m.sender.account \in Accounts /\ m.receiver.account \in Accounts
    /\ m.sender.account # m.receiver.account /\ m.sender # m.receiver
    /\ m.denomValid
    /\ m.amount \in Int /\ m.amount > 0
    /\ m.len = Marshalled[m.type]
    /\ m.memo \in 0 .. MaxEncryptedMemoSize

(* A message of the SDK has an amount in range, too, and proofs about it. *)
Complete(m) ==
    /\ Filled(m)
    /\ m.amount < 2 ^ MaxTransferBits
    /\ m.proved = m.amount

LEMMA SdkComplete ==
    ASSUME NEW m \in SdkMessages
    PROVE  Complete(m)
<1>1. PICK type \in Types, a \in Accounts, b \in Accounts,
           amount \in Amounts \cap 1 .. (2 ^ MaxTransferBits - 1), memo \in MemoLengths :
         m = HonestMessage(type, a, b, amount, memo)
  BY DEF SdkMessages, HonestMessages
<1>2. /\ m.type = type /\ m.sender = Lower(a) /\ m.receiver = Lower(b) /\ m.denomValid
      /\ m.amount = amount /\ m.proved = amount /\ m.len = Marshalled[type]
      /\ m.memo = EncryptMemo(memo)
  BY <1>1 DEF HonestMessage
<1>3. m.sender # m.receiver
  BY DEF SdkMessages
<1>4. /\ m.sender.account = a /\ m.receiver.account = b /\ a # b
  <2>1. Lower(a) # Lower(b)
    BY <1>2, <1>3
  <2>2. a # b
    BY <2>1
  <2>3. Lower(a).account = a /\ Lower(b).account = b
    BY DEF Lower
  <2> QED
    BY <1>2, <2>2, <2>3
<1>5. amount \in Int /\ amount > 0 /\ amount < 2 ^ MaxTransferBits
  BY <1>1, PowersAssumption, InputsAssumption
<1>6. EncryptMemo(memo) \in 0 .. MaxEncryptedMemoSize
  BY InputsAssumption DEF EncryptMemo, MaxEncryptedMemoSize, MemoEnvelope
<1> QED
  BY <1>2, <1>3, <1>4, <1>5, <1>6 DEF Complete, Filled

(* A filled message meets every check of ValidateBasic ... *)
LEMMA FilledIsValid ==
    ASSUME NEW m, Filled(m)
    PROVE  ValidateBasic(m)
<1>1. /\ IsAddress(m.sender) /\ IsAddress(m.receiver) /\ m.sender # m.receiver
      /\ m.denomValid /\ m.amount > 0 /\ MemoFits(m)
      /\ m.len = Marshalled[m.type]
  <2>1. MemoFits(m)
    BY DEF Filled, MemoFits, MaxEncryptedMemoSize, MemoEnvelope
  <2>2. IsAddress(m.sender) /\ IsAddress(m.receiver)
    BY DEF Filled, IsAddress
  <2> QED
    BY <2>1, <2>2 DEF Filled
<1>2. m.type \in {"RegisterKey", "Shield", "ConfidentialSend", "ApplyPending",
                  "Unshield", "SetAuditorKey"}
  BY DEF Filled, Types, Marshalled
<1>3. CASE m.type = "RegisterKey"
  BY <1>1, <1>3 DEF ValidateBasic, ValidateRegisterKey, Marshalled, PopProofSize
<1>4. CASE m.type = "Shield"
  BY <1>1, <1>4 DEF ValidateBasic, ValidateShield, Marshalled, MaxProofSize
<1>5. CASE m.type = "ConfidentialSend"
  <2>1. /\ \A f \in {"senderUpdate", "receiverUpdate", "auditorUpdate"} : m.len[f] = 128
        /\ m.len.rangeProof = 740 /\ m.len.equalityProof = 512
        /\ \A f \in {"transferCommitment", "remainingCommitment"} : m.len[f] = 64
        /\ \A f \in {"transferCommitmentProof", "remainingCommitmentProof"} :
             m.len[f] = 288
    BY <1>1, <1>5 DEF Marshalled
  <2> QED
    BY <1>1, <1>5, <2>1
       DEF ValidateBasic, ValidateConfidentialSend, MaxProofSize, PedersenCommitmentSize,
           CommitmentEqualityProofSize
<1>6. CASE m.type = "ApplyPending"
  BY <1>1, <1>6 DEF ValidateBasic, ValidateApplyPending, Marshalled, MaxProofSize
<1>7. CASE m.type = "Unshield"
  BY <1>1, <1>7 DEF ValidateBasic, ValidateUnshield, Marshalled, MaxProofSize,
     PedersenCommitmentSize, CommitmentEqualityProofSize
<1>8. CASE m.type = "SetAuditorKey"
  BY <1>1, <1>8 DEF ValidateBasic, ValidateSetAuditorKey, Marshalled
<1> QED
  BY <1>2, <1>3, <1>4, <1>5, <1>6, <1>7, <1>8

(* ... and a complete one every check its handler makes of its format: an   *)
(* amount of MaxTransferBits bits fits a word.                              *)
LEMMA CompleteIsAccepted ==
    ASSUME NEW m, Complete(m)
    PROVE  HandlerAccepts(m)
<1>1. ProofsUnmarshal(m) /\ m.sender.account # m.receiver.account
  BY DEF Complete, Filled, ProofsUnmarshal
<1>2. AmountFits(m.amount) /\ m.proved = Uint64(m.amount)
  BY PowersAssumption DEF Complete, Filled, AmountFits, Uint64
<1> QED
  BY <1>1, <1>2 DEF HandlerAccepts, SendFormat, AmountFormat

(* What a client writes who sets some fields of a message, with an amount   *)
(* and proofs of its own.                                                   *)
Written(m, fields, text, proved) ==
    [OnlyFields(m, fields) EXCEPT !.amount = text, !.proved = proved]

(* The fields of what is written. *)
LEMMA WrittenFields ==
    ASSUME NEW m \in SdkMessages, NEW fields, NEW text \in Int, NEW proved
    PROVE  LET w == Written(m, fields, text, proved)
           IN  /\ w.type = m.type /\ w.amount = text /\ w.proved = proved
               /\ \A f \in DOMAIN m.len : f \notin fields => w.len[f] = 0
               /\ DOMAIN m.len \subseteq fields /\ text > 0 => Filled(w)
               /\ OnlyFields(m, fields) = Written(m, fields, m.amount, m.amount)
<1>1. PICK type \in Types, a \in Accounts, b \in Accounts, amount \in Int,
            memo \in MemoLengths :
         m = HonestMessage(type, a, b, amount, memo)
  BY InputsAssumption DEF SdkMessages, HonestMessages
<1> DEFINE len == [f \in DOMAIN m.len |-> IF f \in fields THEN m.len[f] ELSE 0]
           w == Written(m, fields, text, proved)
<1>2. OnlyFields(m, fields) = [m EXCEPT !.len = len]
  BY DEF OnlyFields
<1>3. \A f \in DOMAIN m.len : f \notin fields => len[f] = 0
  OBVIOUS
<1>4. DOMAIN m.len \subseteq fields => len = m.len
  <2>1. m.len = Marshalled[type]
    BY <1>1 DEF HonestMessage
  <2>2. m.len = [f \in DOMAIN m.len |-> m.len[f]]
    BY <2>1 DEF Marshalled, Types
  <2> QED
    BY <2>2
<1> HIDE DEF len
<1>5. /\ w.type = m.type /\ w.amount = text /\ w.proved = proved /\ w.len = len
      /\ w.sender = m.sender /\ w.receiver = m.receiver
      /\ w.denomValid = m.denomValid /\ w.memo = m.memo
  BY <1>1, <1>2 DEF HonestMessage, Written
<1>6. OnlyFields(m, fields) = Written(m, fields, m.amount, m.amount)
  BY <1>1, <1>2 DEF HonestMessage, Written
<1> HIDE DEF w
<1>7. DOMAIN m.len \subseteq fields /\ text > 0 => Filled(w)
  BY <1>4, <1>5, SdkComplete DEF Complete, Filled
<1> QED
  BY <1>3, <1>5, <1>6, <1>7 DEF w

(***************************************************************************)
(* The way of a message                                                     *)
(***************************************************************************)

(* What a client other than the SDK wrote: all fields or too few; and what  *)
(* it says is what its proofs are about, unless a page rounded it.          *)
WrittenBy(client, m) ==
    IF m.type \in OutgrownTypes
    THEN ~ValidateBasic(m)
    ELSE /\ Filled(m)
         /\ (client = "web" => m.proved < 2 ^ Significand) => Complete(m)

(* What a client built. *)
BuiltBy(client, m) ==
    /\ m.amount \in Int
    /\ client = "sdk" => m \in SdkMessages
    /\ client \in {"cli", "web"} => WrittenBy(client, m)

(* Where a message is says which checks it has passed, and nothing moves    *)
(* before it is executed.                                                   *)
AdmissionInv ==
    /\ stage \in {"idle", "built", "turned away", "admitted", "refused", "executed"}
    /\ stage = "idle" => origin = "none"
    /\ stage # "idle" => BuiltBy(origin, msg)
    /\ stage = "turned away" => ~ValidateBasic(msg)
    /\ stage \in {"admitted", "refused", "executed"} => ValidateBasic(msg)
    /\ stage = "executed" => HandlerAccepts(msg)
    /\ stage \in {"idle", "built", "admitted"} => debited = 0 /\ credited = 0
    /\ debited = credited

(* Amounts that fit a word are the word. *)
LEMMA AmountIsItsWord ==
    ASSUME NEW n \in Int, AmountFits(n)
    PROVE  Uint64(n) = n
  BY PowersAssumption DEF AmountFits, Uint64

(* The fields a client sets of a message: all, or not the one that was      *)
(* added later.                                                             *)
SetsFields(m, fields) ==
    /\ m.type = "RegisterKey" => "pop" \notin fields
    /\ m.type = "ConfidentialSend" => "transferCommitment" \notin fields
    /\ m.type = "Unshield" => "remainingCommitment" \notin fields
    /\ m.type \notin OutgrownTypes => DOMAIN m.len \subseteq fields

(* What is written without the fields that were added later is turned away. *)
LEMMA OutgrownTurnedAway ==
    ASSUME NEW m \in SdkMessages, NEW fields, NEW text \in Int, NEW proved,
           SetsFields(m, fields), m.type \in OutgrownTypes
    PROVE  ~ValidateBasic(Written(m, fields, text, proved))
<1> DEFINE w == Written(m, fields, text, proved)
<1>1. w.type = m.type /\ \A f \in DOMAIN m.len : f \notin fields => w.len[f] = 0
  BY WrittenFields
<1>2. m.len = Marshalled[m.type]
  BY SdkComplete DEF Complete, Filled
<1> HIDE DEF w
<1>3. CASE m.type = "RegisterKey"
  <2>1. w.len["pop"] = 0
    BY <1>1, <1>2, <1>3 DEF SetsFields, Marshalled
  <2> QED
    BY <1>1, <1>3, <2>1 DEF w, ValidateBasic, ValidateRegisterKey, PopProofSize
<1>4. CASE m.type = "ConfidentialSend"
  <2>1. w.len["transferCommitment"] = 0
    BY <1>1, <1>2, <1>4 DEF SetsFields, Marshalled
  <2> QED
    BY <1>1, <1>4, <2>1 DEF w, ValidateBasic, ValidateConfidentialSend, PedersenCommitmentSize
<1>5. CASE m.type = "Unshield"
  <2>1. w.len["remainingCommitment"] = 0
    BY <1>1, <1>2, <1>5 DEF SetsFields, Marshalled
  <2> QED
    BY <1>1, <1>5, <2>1 DEF w, ValidateBasic, ValidateUnshield, PedersenCommitmentSize
<1> QED
  BY <1>3, <1>4, <1>5 DEF OutgrownTypes

(* A client that sets these fields, with the amount as it is or as a number *)
(* reads it.                                                                *)
LEMMA ClientWrites ==
    ASSUME NEW m \in SdkMessages, NEW fields, SetsFields(m, fields), NEW client,
           NEW text \in Int, text > 0, NEW proved \in {m.proved, text},
           \/ text = m.amount
           \/ client = "web" /\ text >= 2 ^ Significand /\ m.amount >= 2 ^ Significand
    PROVE  /\ Written(m, fields, text, proved).amount \in Int
           /\ WrittenBy(client, Written(m, fields, text, proved))
<1> DEFINE w == Written(m, fields, text, proved)
<1>1. /\ w.type = m.type /\ w.amount = text /\ w.proved = proved
      /\ DOMAIN m.len \subseteq fields => Filled(w)
  BY WrittenFields
<1>2. Complete(m) /\ m.proved = m.amount /\ m.amount \in Int
  BY SdkComplete DEF Complete, Filled
<1> HIDE DEF w
<1>3. CASE m.type \in OutgrownTypes
  BY <1>1, <1>3, OutgrownTurnedAway DEF w, WrittenBy
<1>4. CASE m.type \notin OutgrownTypes
  <2>1. Filled(w)
    BY <1>1, <1>4 DEF SetsFields
  <2>2. ASSUME client = "web" => w.proved < 2 ^ Significand
        PROVE  text = m.amount
    <3>1. proved \in Int /\ 2 ^ Significand \in Int
      BY <1>2, PowersAssumption
    <3>2. proved >= 2 ^ Significand \/ text = m.amount
      BY <1>2
    <3> QED
      BY <1>1, <2>2, <3>1, <3>2
  <2>3. (client = "web" => w.proved < 2 ^ Significand) => Complete(w)
    BY <1>1, <1>2, <2>1, <2>2 DEF Complete
  <2> QED
    BY <1>1, <1>4, <2>1, <2>3 DEF w, WrittenBy
<1> QED
  BY <1>1, <1>3, <1>4 DEF w

(* What the commands write of each message. *)
LEMMA CmdBuilds ==
    ASSUME NEW m \in SdkMessages
    PROVE  BuiltBy("cli", Cmd(m))
<1>1. Complete(m)
  BY SdkComplete
<1>2. /\ m.type \in Types /\ m.len = Marshalled[m.type]
      /\ m.amount \in Int /\ m.amount > 0 /\ m.proved = m.amount
  BY <1>1 DEF Complete, Filled
<1>3. PICK fields : Cmd(m) = OnlyFields(m, fields) /\ SetsFields(m, fields)
  <2>1. m.type \in {"RegisterKey", "Shield", "ConfidentialSend", "ApplyPending",
                    "Unshield", "SetAuditorKey"}
    BY <1>2 DEF Types, Marshalled
  <2>2. CASE m.type = "RegisterKey"
    BY <2>2 DEF Cmd, CmdRegisterKey, SetsFields, OutgrownTypes
  <2>3. CASE m.type = "Shield"
    BY <1>2, <2>3 DEF Cmd, CmdShield, SetsFields, Marshalled
  <2>4. CASE m.type = "ConfidentialSend"
    BY <2>4 DEF Cmd, CmdConfidentialSend, SetsFields, OutgrownTypes
  <2>5. CASE m.type = "ApplyPending"
    BY <1>2, <2>5 DEF Cmd, CmdApplyPending, SetsFields, Marshalled
  <2>6. CASE m.type = "Unshield"
    BY <2>6 DEF Cmd, CmdUnshield, SetsFields, OutgrownTypes
  <2>7. CASE m.type = "SetAuditorKey"
    BY <1>2, <2>7 DEF Cmd, CmdSetAuditorKey, SetsFields, Marshalled
  <2> QED
    BY <2>1, <2>2, <2>3, <2>4, <2>5, <2>6, <2>7
<1>4. Cmd(m) = Written(m, fields, m.amount, m.amount)
  BY <1>2, <1>3, WrittenFields
<1>5. /\ Written(m, fields, m.amount, m.amount).amount \in Int
      /\ WrittenBy("cli", Written(m, fields, m.amount, m.amount))
  BY <1>2, <1>3, ClientWrites
<1> QED
  BY <1>4, <1>5 DEF BuiltBy

(* What the encoders of the web wallet write of each message. *)
LEMMA WebBuilds ==
    ASSUME NEW m \in SdkMessages, m.type \in DOMAIN WebFields,
           NEW text \in JsTexts(m.amount), NEW proved \in {m.proved, text}
    PROVE  BuiltBy("web", encodeMsg(m, text, proved))
<1>1. Complete(m)
  BY SdkComplete
<1>2. /\ m.type \in Types /\ m.len = Marshalled[m.type]
      /\ m.amount \in Int /\ m.amount > 0
  BY <1>1 DEF Complete, Filled
<1>3. SetsFields(m, WebFields[m.type])
  <2>1. m.type \in {"RegisterKey", "Shield", "ConfidentialSend", "ApplyPending", "Unshield"}
    BY DEF WebFields
  <2> QED
    BY <1>2, <2>1 DEF SetsFields, OutgrownTypes, WebFields, Marshalled
<1>4. /\ text \in Int /\ text > 0
      /\ text = m.amount \/ (text >= 2 ^ Significand /\ m.amount >= 2 ^ Significand)
  <2>1. 2 ^ Significand \in Nat \ {0}
    BY PowersAssumption
  <2>2. CASE m.amount < 2 ^ Significand
    BY <1>2, <2>2 DEF JsTexts
  <2>3. CASE ~(m.amount < 2 ^ Significand)
    <3>1. text \in 2 ^ Significand .. 2 * m.amount
      BY <2>3 DEF JsTexts
    <3> QED
      BY <1>2, <2>1, <2>3, <3>1
  <2> QED
    BY <2>2, <2>3
<1>5. encodeMsg(m, text, proved) = Written(m, WebFields[m.type], text, proved)
  BY DEF encodeMsg, Written
<1>6. /\ Written(m, WebFields[m.type], text, proved).amount \in Int
      /\ WrittenBy("web", Written(m, WebFields[m.type], text, proved))
  BY <1>3, <1>4, ClientWrites
<1> QED
  BY <1>5, <1>6 DEF BuiltBy

(* A message with one thing wrong still has an amount. *)
LEMMA RawBuilds ==
    ASSUME NEW m \in RawMessages
    PROVE  BuiltBy("raw", m)
<1>1. PICK k \in SdkMessages : m \in OddMessages(k)
  BY DEF RawMessages
<1>2. PICK type \in Types, a \in Accounts, b \in Accounts, amount \in Int,
            memo \in MemoLengths :
         k = HonestMessage(type, a, b, amount, memo)
  BY InputsAssumption DEF SdkMessages, HonestMessages
<1>3. k.amount \in Int
  BY <1>2 DEF HonestMessage
<1>4. /\ \A l : [k EXCEPT !.len = l].amount = k.amount
      /\ \A s : [k EXCEPT !.sender = s].amount = k.amount
      /\ \A s : [k EXCEPT !.receiver = s].amount = k.amount
      /\ \A n : [k EXCEPT !.amount = n].amount = n
      /\ \A n : [k EXCEPT !.memo = n].amount = k.amount
      /\ [k EXCEPT !.denomValid = FALSE].amount = k.amount
  BY <1>2 DEF HonestMessage
<1>5. m.amount = k.amount \/ m.amount \in Amounts
  <2>1. CASE \E f \in DOMAIN k.len, n \in OddLengths : m = [k EXCEPT !.len[f] = n]
    <3>1. PICK f, n : m = [k EXCEPT !.len = [k.len EXCEPT ![f] = n]]
      BY <2>1
    <3> QED
      BY <1>4, <3>1
  <2>2. CASE \E s : m = [k EXCEPT !.sender = s]
    BY <1>4, <2>2
  <2>3. CASE \E s : m = [k EXCEPT !.receiver = s]
    BY <1>4, <2>3
  <2>4. CASE \E n \in Amounts : m = [k EXCEPT !.amount = n]
    BY <1>4, <2>4
  <2>5. CASE \E n : m = [k EXCEPT !.memo = n]
    BY <1>4, <2>5
  <2>6. CASE m = [k EXCEPT !.denomValid = FALSE]
    BY <1>4, <2>6
  <2> QED
    BY <1>1, <2>1, <2>2, <2>3, <2>4, <2>5, <2>6 DEF OddMessages
<1>6. Amounts \subseteq Int
  BY InputsAssumption
<1>7. m.amount \in Int
  BY <1>3, <1>5, <1>6
<1> QED
  BY <1>7 DEF BuiltBy

(* Building any message leads into the invariant. *)
LEMMA BuildStep ==
    ASSUME AdmissionInv, NEW m, NEW client, Build(m, client), BuiltBy(client, m)
    PROVE  AdmissionInv'
<1>1. /\ stage' = "built" /\ msg' = m /\ origin' = client
      /\ debited' = debited /\ credited' = credited /\ stage = "idle"
  BY DEF Build
<1>2. BuiltBy(origin', msg')
  BY <1>1
<1> QED
  BY <1>1, <1>2 DEF AdmissionInv, BuiltBy

(* The coins that move are as many as the balance moves by. *)
LEMMA MoveCoinsStep ==
    ASSUME AdmissionInv, MoveCoins
    PROVE  AdmissionInv'
<1>1. /\ stage = "admitted" /\ msg.type \in {"Shield", "Unshield"}
      /\ HandlerAccepts(msg) /\ ValidateBasic(msg) /\ BuiltBy(origin, msg)
      /\ UNCHANGED <<msg, origin>>
  BY DEF MoveCoins, AdmissionInv
<1>2. msg.denomValid
  <2>1. CASE msg.type = "Shield"
    BY <1>1, <2>1 DEF ValidateBasic, ValidateShield
  <2>2. CASE msg.type = "Unshield"
    BY <1>1, <2>2 DEF ValidateBasic, ValidateUnshield
  <2> QED
    BY <1>1, <2>1, <2>2
<1>3. AmountFits(msg.amount) /\ msg.proved = Uint64(msg.amount)
  BY <1>1 DEF HandlerAccepts, AmountFormat
<1>4. msg.proved = msg.amount
  BY <1>1, <1>3, AmountIsItsWord DEF BuiltBy
<1>5. stage' = "executed" /\ debited' = credited'
  BY <1>2, <1>4 DEF MoveCoins
<1> QED
  BY <1>1, <1>5 DEF AdmissionInv, BuiltBy, HandlerAccepts, SendFormat, AmountFormat,
     ProofsUnmarshal, AmountFits

(* No step breaks the invariant. *)
LEMMA AdmissionNextInvariant ==
    ASSUME AdmissionInv, [AdmissionNext]_admissionVars
    PROVE  AdmissionInv'
<1>1. ASSUME NEW m \in SdkMessages, Build(m, "sdk")
      PROVE  AdmissionInv'
  <2>1. BuiltBy("sdk", m)
    BY SdkComplete DEF Complete, Filled, BuiltBy
  <2> QED
    BY <1>1, <2>1, BuildStep
<1>2. ASSUME NEW m \in SdkMessages, BuildWithCli(m)
      PROVE  AdmissionInv'
  BY <1>2, CmdBuilds, BuildStep DEF BuildWithCli
<1>3. ASSUME NEW m \in SdkMessages, BuildWithWeb(m)
      PROVE  AdmissionInv'
  BY <1>3, WebBuilds, BuildStep DEF BuildWithWeb
<1>4. ASSUME NEW m \in RawMessages, Build(m, "raw")
      PROVE  AdmissionInv'
  BY <1>4, RawBuilds, BuildStep
<1>5. CASE Check
  <2>1. UNCHANGED <<msg, origin, debited, credited>> /\ stage = "built"
    BY <1>5 DEF Check
  <2>2. CASE ValidateBasic(msg)
    <3>1. stage' = "admitted" /\ ValidateBasic(msg')
      BY <1>5, <2>1, <2>2 DEF Check
    <3> QED
      BY <2>1, <3>1 DEF AdmissionInv, BuiltBy
  <2>3. CASE ~ValidateBasic(msg)
    <3>1. stage' = "turned away" /\ ~ValidateBasic(msg')
      BY <1>5, <2>1, <2>3 DEF Check
    <3> QED
      BY <2>1, <3>1 DEF AdmissionInv, BuiltBy
  <2> QED
    BY <2>2, <2>3
<1>6. CASE Refuse
  BY <1>6 DEF Refuse, AdmissionInv, BuiltBy
<1>7. CASE MoveCoins
  BY <1>7, MoveCoinsStep
<1>8. CASE Run
  <2>1. /\ stage = "admitted" /\ stage' = "executed" /\ HandlerAccepts(msg)
        /\ UNCHANGED <<msg, origin, debited, credited>>
    BY <1>8 DEF Run
  <2>2. HandlerAccepts(msg')
    BY <2>1
  <2> QED
    BY <2>1, <2>2 DEF AdmissionInv, BuiltBy
<1>9. CASE Forget
  BY <1>9 DEF Forget, AdmissionInv
<1>10. CASE UNCHANGED admissionVars
  <2>1. /\ UNCHANGED <<stage, msg, origin, debited, credited>>
    BY <1>10 DEF admissionVars
  <2>2. ValidateBasic(msg') = ValidateBasic(msg) /\ HandlerAccepts(msg') = HandlerAccepts(msg)
    BY <2>1
  <2> QED
    BY <2>1, <2>2 DEF AdmissionInv, BuiltBy
<1> QED
  BY <1>1, <1>2, <1>3, <1>4, <1>5, <1>6, <1>7, <1>8, <1>9, <1>10 DEF AdmissionNext

(* At every stage a message has passed the checks that lead there. *)
THEOREM AdmissionInvariance == AdmissionSpec => []AdmissionInv
<1>1. AdmissionInit => AdmissionInv
  BY DEF AdmissionInit, AdmissionInv
<1>2. AdmissionInv /\ [AdmissionNext]_admissionVars => AdmissionInv'
  BY AdmissionNextInvariant
<1> QED
  BY <1>1, <1>2, PTL DEF AdmissionSpec

(* No message panics in a handler: a denomination that is none does not get *)
(* past ValidateBasic, whoever built the message.                           *)
THEOREM NoPanic == AdmissionSpec => []HandlersNeverPanic
<1>1. AdmissionInv => HandlersNeverPanic
  BY DEF AdmissionInv, HandlersNeverPanic
<1> QED
  BY <1>1, AdmissionInvariance, PTL

(* What is executed moves as many coins as the proofs were made for, at     *)
(* every MaxTransferBits.                                                   *)
THEOREM AmountsAgree == AdmissionSpec => []BothSidesMoveTheSame
<1>1. AdmissionInv => BothSidesMoveTheSame
  BY DEF AdmissionInv, BothSidesMoveTheSame
<1> QED
  BY <1>1, AdmissionInvariance, PTL

(* A message with all its fields meets every check of its format. *)
LEMMA SdkPasses ==
    ASSUME NEW m \in SdkMessages
    PROVE  ValidateBasic(m) /\ HandlerAccepts(m)
  BY SdkComplete, FilledIsValid, CompleteIsAccepted DEF Complete

(* What the SDK's provers filled in, with a memo of any length up to the    *)
(* documented bound, is turned away by no check of its format.              *)
THEOREM HonestMessagesPass == AdmissionSpec => []HonestMessagesAccepted
<1>1. AdmissionInv => HonestMessagesAccepted
  <2> SUFFICES ASSUME AdmissionInv, stage # "idle", msg \in SdkMessages
               PROVE  stage # "turned away" /\ (stage = "admitted" => HandlerAccepts(msg))
    BY DEF AdmissionInv, BuiltBy, HonestMessagesAccepted
  <2> QED
    BY SdkPasses DEF AdmissionInv
<1> QED
  BY <1>1, AdmissionInvariance, PTL

(* Nor is what the command line and the web wallet write of a deposit, an   *)
(* application or an auditor key, at amounts that JS numbers hold exactly;  *)
(* what they write of the other messages is always turned away.             *)
THEOREM OtherClientsPass == AdmissionSpec => []OtherClientsAccepted
<1>1. AdmissionInv => OtherClientsAccepted
  <2> SUFFICES ASSUME AdmissionInv, origin \in {"cli", "web"}
               PROVE  OtherClientsAccepted
    BY DEF OtherClientsAccepted
  <2>1. stage # "idle" /\ WrittenBy(origin, msg)
    BY DEF AdmissionInv, BuiltBy
  <2>2. CASE msg.type \in OutgrownTypes
    BY <2>1, <2>2 DEF OtherClientsAccepted, AdmissionInv, WrittenBy
  <2>3. CASE msg.type \notin OutgrownTypes
    <3>1. stage # "turned away"
      BY <2>1, <2>3, FilledIsValid DEF AdmissionInv, WrittenBy
    <3>2. (origin = "web" => msg.proved < 2 ^ Significand) => HandlerAccepts(msg)
      BY <2>1, <2>3, CompleteIsAccepted DEF WrittenBy
    <3> QED
      BY <2>3, <3>1, <3>2 DEF OtherClientsAccepted
  <2> QED
    BY <2>2, <2>3
<1> QED
  BY <1>1, AdmissionInvariance, PTL
=============================================================================
