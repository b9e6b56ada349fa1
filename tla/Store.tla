------------------------------- MODULE Store -------------------------------
(***************************************************************************)
(* The keeper over the store it really has: one map from byte strings to    *)
(* values, in which every account and denomination has four keys, and which *)
(* is carried from one chain to the next through a genesis file.            *)
(*                                                                         *)
(* The handlers check what Confidential says they check, against what the   *)
(* accessors read, and write key by key.  A byte string is a sequence of    *)
(* chunks: a prefix is one chunk, an address and a denomination are any     *)
(* number of them, and the slash between them may occur inside both.        *)
(***************************************************************************)
EXTENDS Integers, SequencesExt

CONSTANTS
    Bytes,             \* the chunks that addresses and denominations are made of
    Accounts, Denoms,  \* byte strings: the addresses, the denominations
    Slash,             \* the byte between the two
    MaxTransferBits,   \* the MaxTransferBits of DefaultParams
    FieldOrder, Keys, AnyKey, Garbled, Nil, NoKey,
    Controls, Authority, InitialFunds, ResetRandomness, Messages

VARIABLES
    store,   \* the KV store of the module
    bank,    \* x/bank: the public coins of each account
    escrow,  \* x/bank: the coins of the module account
    event    \* the event the last message emitted

storeVars == <<store, bank, escrow, event>>

(* Keys of two accounts never meet if no address goes on, after a slash,    *)
(* where another ends.  Addresses are hashes of 20 or 32 bytes.             *)
ASSUME AddressAssumption ==
    \A a, b \in Accounts : a # b => ~IsPrefix(a \o <<Slash>>, b)

ASSUME DenomAssumption == <<>> \notin Denoms

ASSUME BytesAssumption == Slash \in Bytes /\ Accounts \cup Denoms \subseteq Seq(Bytes)

(***************************************************************************)
(* Keys (types/keys.go)                                                     *)
(***************************************************************************)

ParamsKey == <<"confidential/params">>
accountPubkeyPrefix == <<"confidential/pk/">>
availableBalancePrefix == <<"confidential/ab/">>
pendingBalancePrefix == <<"confidential/pb/">>
pendingIsZeroPrefix == <<"confidential/pz/">>

AccountPubkeyKey(addr) == accountPubkeyPrefix \o addr

(* Fault: the denomination is not copied into the key. *)
AvailableKeyWithoutDenom(addr, denom) == availableBalancePrefix \o addr \o <<Slash>>

AvailableBalanceKey(addr, denom) == availableBalancePrefix \o addr \o <<Slash>> \o denom
PendingBalanceKey(addr, denom) == pendingBalancePrefix \o addr \o <<Slash>> \o denom

PendingIsZeroKey(addr, denom) == pendingIsZeroPrefix \o addr \o <<Slash>> \o denom

(***************************************************************************)
(* Accessors (keeper/keeper.go)                                             *)
(***************************************************************************)

Get(key) == IF key \in DOMAIN store THEN store[key] ELSE Nil

(* The writes of a handler are a set of pairs of a key and a value. *)
Put(key, value) == {<<key, value>>}

(* A map after writes to it.  Were one key written twice, either value      *)
(* would do.                                                                *)
Written(writes, old) ==
    LET keys == {w[1] : w \in writes}
    IN [key \in keys \cup DOMAIN old |->
          IF key \in keys THEN (CHOOSE w \in writes : w[1] = key)[2] ELSE old[key]]

DefaultParams == [AuditorPubKey |-> NoKey, MaxTransferBits |-> MaxTransferBits]

ParamsValid(params) ==
    /\ params.AuditorPubKey \in Keys \cup {NoKey}
    /\ params.MaxTransferBits \in 1 .. 64

GetParams == IF Get(ParamsKey) = Nil THEN DefaultParams ELSE Get(ParamsKey)
GetAccountPubkey(a) == Get(AccountPubkeyKey(a))
GetAvailableBalance(a, d) == Get(AvailableBalanceKey(a, d))
GetPendingBalance(a, d) == Get(PendingBalanceKey(a, d))

(* The flag is the byte 0 or 1, and a missing one is read as FALSE. *)
FlagByte(isZero) == <<IF isZero THEN 1 ELSE 0>>
SetPendingIsZero(a, d, isZero) == Put(PendingIsZeroKey(a, d), FlagByte(isZero))
GetPendingIsZero(a, d) == Get(PendingIsZeroKey(a, d)) = <<1>>

(* What the accessors make of the store: the state of Confidential. *)
K == INSTANCE Confidential WITH
    RangeBound    <- 2 ^ MaxTransferBits,
    pubkey        <- [a \in Accounts |-> GetAccountPubkey(a)],
    available     <- [a \in Accounts |-> [d \in Denoms |-> GetAvailableBalance(a, d)]],
    pending       <- [a \in Accounts |-> [d \in Denoms |-> GetPendingBalance(a, d)]],
    pendingIsZero <- [a \in Accounts |-> [d \in Denoms |-> GetPendingIsZero(a, d)]],
    auditor       <- GetParams.AuditorPubKey

(* DefaultParams are valid (64 bits; the clients agree).                    *)
ASSUME ParamsAssumption == MaxTransferBits \in 1 .. 64

ASSUME ScalarsAssumption == FieldOrder \in Nat \ {0} /\ ResetRandomness \subseteq K!Field

(* Nothing that is stored reads as nothing.                                 *)
ASSUME StoredAssumption ==
    Nil \notin Keys \cup K!Ciphertext \cup {<<0>>, <<1>>}
              \cup [AuditorPubKey : Keys \cup {NoKey}, MaxTransferBits : {MaxTransferBits}]

(***************************************************************************)
(* The handlers: the checks of Confidential, then their writes              *)
(***************************************************************************)

(* The writes of one message, and its event. *)
Write(writes, type) ==
    /\ store' = Written(writes, store)
    /\ event' = [type |-> type]

RegisterKey(m) ==
    /\ K!RegisterVerified(m)
    /\ Write(Put(AccountPubkeyKey(m.sender), m.pubkey), "register_key")
    /\ UNCHANGED <<bank, escrow>>

Shield(m) ==
    /\ K!ShieldVerified(m)
    /\ bank' = [bank EXCEPT ![m.sender][m.denom] = @ - m.amount]
    /\ escrow' = [escrow EXCEPT ![m.denom] = @ + m.amount]
    /\ Write(Put(AvailableBalanceKey(m.sender, m.denom),
                 K!addCiphertexts(GetAvailableBalance(m.sender, m.denom), m.ciphertext)),
             "shield")

ConfidentialSend(m) ==
    LET debited == K!subCiphertexts(GetAvailableBalance(m.sender, m.denom), m.senderUpdate)
        credited == K!addCiphertexts(GetPendingBalance(m.receiver, m.denom), m.receiverUpdate)
    IN /\ K!SendVerified(m)
       /\ store' = Written(Put(AvailableBalanceKey(m.sender, m.denom), debited)
                             \cup Put(PendingBalanceKey(m.receiver, m.denom), credited)
                             \cup SetPendingIsZero(m.receiver, m.denom, FALSE), store)
       /\ event' = [type |-> "confidential_send", auditor_ciphertext |-> m.auditorUpdate]
       /\ UNCHANGED <<bank, escrow>>

ApplyPending(m) ==
    LET credited == K!addCiphertexts(GetAvailableBalance(m.sender, m.denom),
                                     m.newAvailableUpdate)
    IN /\ K!ApplyVerified(m)
       /\ \E r \in ResetRandomness :
            Write(Put(AvailableBalanceKey(m.sender, m.denom), credited)
                  \cup Put(PendingBalanceKey(m.sender, m.denom),
                           K!EncryptWithRandomness(0, GetAccountPubkey(m.sender), r))
                  \cup SetPendingIsZero(m.sender, m.denom, TRUE),
                  "apply_pending")
       /\ UNCHANGED <<bank, escrow>>

Unshield(m) ==
    /\ K!UnshieldVerified(m)
    /\ m.amount <= escrow[m.denom]
    /\ escrow' = [escrow EXCEPT ![m.denom] = @ - m.amount]
    /\ bank' = [bank EXCEPT ![m.sender][m.denom] = @ + m.amount]
    /\ Write(Put(AvailableBalanceKey(m.sender, m.denom),
                 K!subCiphertexts(GetAvailableBalance(m.sender, m.denom), m.ciphertext)),
             "unshield")

(* SetParams validates what it is given; the other parameter is kept. *)
SetAuditorKey(m) ==
    LET params == [GetParams EXCEPT !.AuditorPubKey = m.pubkey]
    IN /\ K!SetAuditorVerified(m)
       /\ ParamsValid(params)
       /\ Write(Put(ParamsKey, params), "set_auditor_key")
       /\ UNCHANGED <<bank, escrow>>

(***************************************************************************)
(* Queries (keeper/query_server.go), as the clients ask them                *)
(***************************************************************************)

QueryBalance(a, d) ==
    [Available |-> GetAvailableBalance(a, d), Pending |-> GetPendingBalance(a, d)]

QueryParams == GetParams

QueryAuditorKey == QueryParams.AuditorPubKey

QueryAccountInfo(a) ==
    [Pubkey |-> GetAccountPubkey(a), Registered |-> GetAccountPubkey(a) # Nil]

(***************************************************************************)
(* Genesis (keeper/genesis.go, types/genesis.go)                            *)
(*                                                                         *)
(* The lists of the file are sets: they are written in the order of the     *)
(* keys, and every key has one value.                                       *)
(***************************************************************************)

Bech32(addr) == [bech32 |-> addr]
AccAddressFromBech32(s) == s.bech32

iteratePrefix(prefix) == {key \in DOMAIN store : IsPrefix(prefix, key)}

AfterPrefix(prefix, key) == SubSeq(key, Len(prefix) + 1, Len(key))

Entries(prefix) ==
    {[Denom |-> AfterPrefix(prefix, key), Value |-> store[key]] : key \in iteratePrefix(prefix)}

FlagEntries(prefix) ==
    {[Denom |-> e.Denom, IsZero |-> Len(e.Value) > 0 /\ e.Value[1] = 1] : e \in Entries(prefix)}

(* Fault: the entries of an account are looked for under its address alone. *)
ExportByAddress(addr) ==
    [Address |-> Bech32(addr), Pubkey |-> GetAccountPubkey(addr),
     AvailableBalances |-> Entries(availableBalancePrefix \o addr),
     PendingBalances |-> Entries(pendingBalancePrefix \o addr),
     PendingIsZero |-> FlagEntries(pendingIsZeroPrefix \o addr)]

(* Fault: the flags are not exported. *)
ExportWithoutFlags(addr) ==
    [Address |-> Bech32(addr), Pubkey |-> GetAccountPubkey(addr),
     AvailableBalances |-> Entries(AvailableBalanceKey(addr, <<>>)),
     PendingBalances |-> Entries(PendingBalanceKey(addr, <<>>)),
     PendingIsZero |-> {}]

ExportAccount(addr) ==
    [Address |-> Bech32(addr), Pubkey |-> GetAccountPubkey(addr),
     AvailableBalances |-> Entries(AvailableBalanceKey(addr, <<>>)),
     PendingBalances |-> Entries(PendingBalanceKey(addr, <<>>)),
     PendingIsZero |-> FlagEntries(PendingIsZeroKey(addr, <<>>))]

(* Only accounts with a registered key are found. *)
ExportGenesis ==
    [Params |-> GetParams,
     Accounts |-> {ExportAccount(AfterPrefix(accountPubkeyPrefix, key)) :
                     key \in iteratePrefix(accountPubkeyPrefix)}]

DefaultGenesis == [Params |-> DefaultParams, Accounts |-> {}]

(* Validate: a missing Params is refused, the flags are not looked at. *)
BalancesValid(entries) ==
    /\ \A e \in entries : e.Denom # <<>> /\ e.Value \in K!Ciphertext
    /\ \A e, f \in entries : e.Denom = f.Denom => e = f

Validate(gs) ==
    /\ gs.Params # Nil /\ ParamsValid(gs.Params)
    /\ \A acct \in gs.Accounts :
         /\ acct.Pubkey \in Keys
         /\ BalancesValid(acct.AvailableBalances)
         /\ BalancesValid(acct.PendingBalances)
    /\ \A a, b \in gs.Accounts : a.Address = b.Address => a = b

AccountWrites(acct) ==
    LET addr == AccAddressFromBech32(acct.Address)
    IN Put(AccountPubkeyKey(addr), acct.Pubkey)
       \cup {<<AvailableBalanceKey(addr, e.Denom), e.Value>> : e \in acct.AvailableBalances}
       \cup {<<PendingBalanceKey(addr, e.Denom), e.Value>> : e \in acct.PendingBalances}
       \cup {<<PendingIsZeroKey(addr, e.Denom), FlagByte(e.IsZero)>> : e \in acct.PendingIsZero}

(* Into an empty store; a missing Params becomes the default. *)
InitGenesis(gs) ==
    LET params == IF gs.Params = Nil THEN DefaultParams ELSE gs.Params
    IN Written(Put(ParamsKey, params) \cup UNION {AccountWrites(acct) : acct \in gs.Accounts},
               <<>>)

(* The chain is stopped, exported, and started anew from the file; x/bank   *)
(* carries its own state over.                                              *)
Restart ==
    /\ ParamsValid(ExportGenesis.Params)
    /\ store' = InitGenesis(ExportGenesis)
    /\ UNCHANGED <<bank, escrow, event>>

StoreInit ==
    /\ store = InitGenesis(DefaultGenesis)
    /\ bank = InitialFunds
    /\ escrow = [d \in Denoms |-> 0]
    /\ event = Nil

StoreNext ==
    \/ \E m \in K!RegisterKeyMsgs : RegisterKey(m)
    \/ \E m \in K!ShieldMsgs : Shield(m)
    \/ \E m \in K!SendMsgs : ConfidentialSend(m)
    \/ \E m \in K!ApplyPendingMsgs : ApplyPending(m)
    \/ \E m \in K!UnshieldMsgs : Unshield(m)
    \/ \E m \in K!SetAuditorKeyMsgs : SetAuditorKey(m)
    \/ Restart

StoreSpec == StoreInit /\ [][StoreNext]_storeVars

(***************************************************************************)
(* Correctness                                                              *)
(***************************************************************************)

(* The store, key by key and restart after restart, is the keeper of        *)
(* Confidential: what is written under one account and denomination is read *)
(* under no other, and no upgrade through a file loses, adds or changes     *)
(* anything a handler can read.                                             *)
ImplementsKeeper == K!Spec

(* An export leaves nothing behind: importing it restores every key of the  *)
(* store, the ones no accessor of a registered account reads included.      *)
ExportRoundTrips == InitGenesis(ExportGenesis) = store

(* What the chain exports is accepted by its own validation, at any moment. *)
ExportValidates == Validate(ExportGenesis)

(* What a client asked before it builds a transaction is still true when it *)
(* is executed, as far as the chain promises: the key of a receiver is      *)
(* never replaced, by no message and no upgrade, and an upgrade on its own  *)
(* changes no answer.                                                       *)
AnswersStayTrue ==
    [][/\ \A a \in Accounts :
            QueryAccountInfo(a).Registered => QueryAccountInfo(a)' = QueryAccountInfo(a)
       /\ Restart =>
            /\ QueryAuditorKey' = QueryAuditorKey
            /\ \A a \in Accounts, d \in Denoms : QueryBalance(a, d)' = QueryBalance(a, d)
      ]_storeVars
=============================================================================
