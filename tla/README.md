# x/confidential in TLA+

A specification of the Cosmos SDK module `x/confidential`, of the Go client that
talks to it and of the browser client, model-checked with TLC. Nearly all of the
safety properties are also proved with TLAPS, for every value of the constants.
Paths below are relative to the root of the repository.

## The system

Coins of `x/bank` are *shielded* into the escrow account of the module and from
then on held as twisted ElGamal ciphertexts, which the keeper adds and
subtracts without being able to read them. Every message carries zero-knowledge
proofs of what its ciphertexts hold.

| Part | State | Operations | Where |
|---|---|---|---|
| Message handlers | per account a key; per account and denomination an `available` and a `pending` ciphertext and a pending-is-zero flag | `RegisterKey`, `Shield`, `ConfidentialSend`, `ApplyPending`, `Unshield`, `SetAuditorKey` | `keeper/msg_*.go` |
| Verification | none | DLEQ, equality, commitment equality, aggregate range, possession, apply-pending; homomorphic sums | `keeper/verify.go`, `crypto/commitments.go` |
| Store, parameters | the KV store; `AuditorPubKey`, `MaxTransferBits` | accessors, key layout, validation | `keeper/keeper.go`, `types/keys.go`, `types/params.go` |
| `x/bank`, `x/auth`, baseapp | public coins, escrow; account sequence numbers; rollback of a failed message | external | the SDK |
| Client SDK | `BalanceState`: value, cumulative randomness, whether that is known | `Shield`, `Send`, `ApplyPending`, `Unshield`, `RecoverStateSimple`, `After...` | `client/sdk` |
| Genesis, queries | a file; none | import, export, validate; four questions | `keeper/genesis.go`, `types/genesis.go`, `keeper/query_server.go` |
| Stateless validation | none | `ValidateBasic` of each message | `types/msgs.go` |
| Command line | none | one command per message, one per query | `client/cli` |
| Browser client | local storage per account, memos in events | WASM entry points, panels, recovery by searching events | `client/web` |
| Wiring, generated code | none | | `module/`, `types/*.pb.go` |

How the parts interact: a client queries the balance ciphertexts and the
auditor key, derives its randomness from what it saw, proves its statements
about that very balance and broadcasts. The chain runs messages one after the
other, each against the store as it is *then*. A transfer writes two accounts:
the sender's `available`, on which its next proofs depend, and the receiver's
`pending`, which no proof but that of `ApplyPending` depends on. The client
hears of the result later and moves its local state along.

What is hard here, and what the properties are for:

- **Arithmetic.** Balances are elements of a prime field: an overdraft wraps to
  a huge balance. Only range proofs over *binding commitments* to the transfer
  and to the remainder, each tied to the ciphertext, keep balances numbers.
- **Keys.** Registration is permanent; a ciphertext under the wrong key, or a
  sum of ciphertexts under two keys, is lost for good.
- **Two copies of one fact.** The pending-is-zero flag and the pending
  ciphertext; the escrow and the sum of all balances; a wallet's state and the
  ciphertext on chain; the event for the auditor and the credit of the receiver.
- **Time between query and execution.** Other transactions, incoming transfers,
  an auditor rotation, eviction and rebuilding, a wallet that loses its state.
- **Time between reading and writing, in the browser.** Local storage is read,
  the chain is asked, a proof is made, the user signs, a block is awaited, and
  then what was computed at the start is stored. Other tabs do the same.
- **Byte strings.** Store keys, derivation contexts, transcripts and salts join
  parts that may contain the separator.
- **Checks in two places.** `ValidateBasic` and the handlers each check part of a
  message; three clients assemble messages field by field.
- **Starvation.** Each transfer in invalidates the `ApplyPending` in flight.
- **Limits.** Sums have no bound, range proofs have; local values are 64 bits.

`PROJECT.json` lists these hazards line by line with the properties that cover
them.

## The modules

| Module | What it is |
|---|---|
| `ElGamal` | Ciphertexts and scalars by what determines them; the keeper's `addCiphertexts`, `subCiphertexts`, `unmarshalOrZero` |
| `Totals` | The sum of a function, defined by counting, so that it can be proved about without recursion |
| `Confidential` | **The keeper**: store, escrow and six handlers |
| `ConfidentialLedger` | The abstract specification: plain balances, no cryptography |
| `Store` | The keeper over the KV store it really has: key layout, accessors, queries, genesis. Implements `Confidential` |
| `Wallets` | The Go client composed with `Confidential`: wallets build, the chain executes, wallets learn of it, crash and recover |
| `Progress` | `Wallets` with the fairness that blocks and applications give: what must eventually happen |
| `Browser` | The browser client composed with `Confidential`: tabs, local storage, memos, blocks, recovery by searching events. Extends `Wallets` for the chain's side |
| `Admission` | One message from the client that builds it through `ValidateBasic` and the handler's format checks to the coins it moves |
| `Encoding` | The byte strings that keep two uses of a secret apart |
| `MC...` | The instances TLC checks |
| `LibraryProofs` | Lemmas: sums over accounts, strings that are joined and read back |
| `ConfidentialProofs` | Lemmas: arithmetic of ciphertexts. Theorems about the keeper, and that it implements the ledger |
| `StoreProofs` | Theorems about the byte-keyed store and its genesis file |
| `WalletsProofs`, `BalanceStateProofs` | Theorems about transactions in flight; about what wallets know |
| `BrowserProofs` | Theorems about pages, memos and recovery from them |
| `AdmissionProofs`, `EncodingProofs` | Theorems about the modules of these names |

`ConfidentialLedger` <- `Confidential` <- `Store` is a chain of refinements: each
is a `PROPERTY` of the next (`ImplementsLedger`, `ImplementsKeeper`). `Wallets` and
`Browser` act on `Confidential`, whose handlers they call.

**Ciphertexts.** `Enc(v, pk, r) = (r*G, v*G + r*pk)` is a record of the key it
decrypts under, `v` and `r`. A ciphertext with `r = 0` decrypts under every key
(`AnyKey`); the sum of ciphertexts under different keys decrypts under none
(`Garbled`), although a range or equality proof could still be wrong about it if
a handler forgot to check. Two records are equal exactly when the bytes are.
Scalars wrap at `FieldOrder`.

**Proofs.** The proof systems are assumed sound and non-malleable: a proof is
represented by the ciphertext or the key it was made about, and verification
accepts exactly when the statement is true of what is being verified. A
message can therefore carry a proof made against an old balance, or made by
somebody else and replayed, and the model says what happens. Commitments are
binding and are represented by the value they commit to.

**Handlers.** One action each, guarded by all the checks in the code's order of
dependence; the writes and the event are the primed variables. A handler that
fails writes nothing (the SDK discards its writes), so a refused message is a
stuttering step. `Messages` is the set of messages that may be submitted; the
only assumption about it is that a proof of possession for an account was made
by its owner, for a key whose secret the owner holds. `MaxTransferBits` has no
handler that changes it and is the constant `RangeBound` (two to that power).
The block height that `ApplyPending` derives its fresh zero from is left open:
any randomness of `ResetRandomness`.

**Wallets.** `Build...` are the functions of `client/sdk/client.go`, given the
chain state at the moment of the query; the proof of the remainder is a real
one only if the local state opens the ciphertext the chain will derive,
otherwise it verifies against nothing. `Admit` is the SDK's sequence check:
a transaction is executed (`Execute`) or refused (`Reject`) when its number is
next, and never afterwards. `Confirm` applies `After...` to the local state, in
any order; `Abandon` gives up on a transaction whose number is spent. `Crash`
replaces the local state by what `RecoverStateSimple` makes of the chain; the
recovered wallet never hears of what it broadcast before, so a result is not counted
twice.
`Rotate` is governance. HKDF is a constant operator; the instance's stand-in
tells apart the inputs that occur.

**Store.** One map from byte strings to values. A byte string is a sequence of
chunks; a prefix is one, the slash is one, addresses and denominations are
several. The handlers take their checks from `Confidential`, through the
accessors, and write keys. `Restart` is a chain upgrade: `ExportGenesis` by prefix
scans, `InitGenesis` into an empty store; `x/bank` carries over its own state. The
queries are operators of the store.

**Browser.** The entry points of the WASM module (`wasmShield`, ...) are
operators; the panels are actions: `Page...` reads local storage and the chain,
makes the proofs and computes the state and the memo of the outcome; `Sign` takes
the account sequence of that later moment and broadcasts; `Save` overwrites local
storage once the block is committed; `Fail` and `GiveUp` are the two ways
`broadcastMsg` throws. `ExecuteInBlock` adds the event, with its height and its
place. `syncFromChain` is an operator of the events, checked in every state: there
is no moment at which it may be called and no caller in the repository. It is given
the set of event types whose search fails, and passes over them, as its `catch`
does; the searches of one recovery see one state of the chain. Every transaction
carries a memo, and its account can decrypt it: transactions of other clients
without one, and memos that fail to decrypt, are not modelled. `page` is what local
storage holds of one denomination, keys and seed being fixed; `shown` is the pending
amount a dashboard displays, read by `Refresh` at any time and applied later by
`PageApplyPending` with a ciphertext queried anew.

The panels as shipped do not get as far: `crypto-worker.js` demands
`accountSequence` and `maxBits`, which no panel passes, and hands memo amounts to
WASM as numbers, which `parseAmount` refuses. The model is of a page that gives the
entry points what they demand, as `keeper/browser_lifecycle_test.go` does, and
otherwise does what the panels do. A page is taken to read local storage and chain
in one step; another tab's `Save` and other transactions come before or after, and
since what is stored is always some tab's older computation, stale combinations
arise all the same. The dashboard's own display checks (a button disabled while out
of step) are not relied on, nor are the limits of the decryption table.

**Progress.** `Receivers` only apply what is pending, one transaction at a time
(`Reapply`); the other accounts spend as they like; governance may rotate.

**Admission.** A message is its shape: the length of each byte field, the
spelling of its addresses (bech32 has two for one account), whether its
denomination is one, the amount it names and the one it proves. The lengths of
honest proofs are those of the two proof libraries. A message is the Go client's,
the command line's or the web encoders' (`OnlyFields`: what these do not write is
empty), or has any one thing wrong. A page's amounts are JS numbers: what it writes
is some text that reads as the nearest number with `Significand` bits (`JsTexts`),
and its proofs are about that text, as the worker passes it on, or about the exact
amount, which the entry points of the WASM module take as a string.

**Encoding.** Bytes are numbers below `Base`, machine words have two of them.
`one` and `two` are two transactions, each with its account and the height of the
block it is executed in; the step changes one thing in one of them. Hash functions are not modelled: the properties are about their inputs.

Definitions marked *Fault* are not part of any specification. Each is a handler,
a check or a client function with one plausible mistake, and `PROJECT.json`
(`mutants`) pairs it with the property that notices the mistake.

## What is checked

| Run | Shows |
|---|---|
| `keeper` (`MCConfidential.cfg`) | For every sequence of messages: escrow equals the sum of balances (`EscrowBacksBalances`); the bank never refuses a verified withdrawal (`UnshieldNeverShort`); every ciphertext decrypts under its owner's key (`OwnerCanDecrypt`); the flag is sound (`PendingZeroFlagSound`); credits leave `available` alone (`IncomingLeavesAvailable`); transfers are audited (`TransfersAreAudited`); what is spendable can be withdrawn (`AvailableWithdrawable`); the keeper implements `ConfidentialLedger` (`ImplementsLedger`) |
| `genesis` (`MCStore.cfg`) | Keys of different accounts and denominations do not meet, and no restart through a file loses or changes anything (`ImplementsKeeper`, `ExportRoundTrips`); exports validate (`ExportValidates`, without the check for empty addresses of `types/genesis.go:29`, which no export can fail); a key that was looked up stays (`AnswersStayTrue`) |
| `in_flight` (`MCInFlight.cfg`) | With up to five transactions in flight, results in any order: a wallet that has heard of everything holds the opening of its balance (`KnownRandomnessOpensBalance`), no receipt heard of in the order of execution overflows (`ReceiptsNeverPanic`), a wallet that is behind never opens the balance by coincidence (`StaleWalletOpensNothing`), no randomness serves two amounts (`NoRandomnessReuse`), and a good proof stays good until its own account executes something else (`OthersCannotInvalidate`) |
| `crash` (`MCCrash.cfg`) | Losing and recovering the local state, also with transactions in flight, makes no later spend panic when it is heard of (`SpendsNeverPanic`) and reuses no randomness (`NoRandomnessReuse`); an auditor rotation invalidates sends built for the old key and nothing else (`OthersCannotInvalidate`) |
| `progress` (`MCProgress.cfg`) | Pending funds are eventually applied (`PendingFundsApplied`), although transfers refuse the attempts |
| `browser` (`MCBrowser.cfg`) | With one page per account and several transactions in a block, a page that waits for nothing holds the opening of its balance (`IdlePageOpensBalance`), although the pending amount it applies may be out of date, and so does what is recovered from the memos, unless it is marked stale or the search for the account's last transaction failed (`RecoveredStateOpensBalance`) |
| `tabs` (`MCTabs.cfg`) | With two tabs that overwrite each other's state, and transactions given up on that are executed after all, an executed spend still carries an exact memo (`SpendMemosExact`) and randomness is not reused (`NoRandomnessReuse`) |
| `admission` (`MCAdmission.cfg`) | What passes `ValidateBasic` cannot make a handler panic (`HandlersNeverPanic`); coins and plaintext move by the same amount at the width of a word and where a page rounds (`BothSidesMoveTheSame`); honest messages with memos of every length are accepted (`HonestMessagesAccepted`); of the other clients' messages, deposits, applications and auditor keys are accepted, while amounts are exact as JS numbers, and the other three are always turned away (`OtherClientsAccepted`) |
| `encoding` (`MCEncoding.cfg`) | Derivation contexts of different uses differ (`DerivationSeparates`); transcripts are shared only by proofs about the same chain, sender, receiver and denomination, never by the two commitment proofs of a message nor by a possession proof and another (`TranscriptsBind`); salts only within one account, denomination and block (`ZerosApart`), although denominations contain the separator; memos of both layouts read back (`MemoReadsBack`) |
| `capacity`, `recovery`, `latest_memo` | *Violations*, see below |

### Disagreements between the code and its documents

With a run:

- **`capacity`.** A withdrawal and its remainder must each be below
  `2^MaxTransferBits`, sums need not be. An `available` balance above twice the
  largest such amount, `2 * (2^MaxTransferBits - 1)`, can be neither withdrawn nor
  sent, not even in parts. In the `keeper` run all the coins fit and the property
  holds. In `capacity` the range bound is 2, so that 1 is the largest amount a
  handler takes, and three deposits of 1 go beyond it. With 64 bits it takes more
  than `2^65 - 2` base units, at least three deposits or transfers; of a token of 18
  decimals that is about 37 tokens in one account.
- **`recovery`.** After `RecoverStateSimple` the randomness is unknown, and the
  comments say that `ApplyPending` (or `Shield`) regains it. `AfterShield` and
  `AfterApplyPending` set the flag, but add to a randomness that lacks that of
  the recovered balance: the wallet's next proofs verify against nothing.
- **`latest_memo`.** `syncFromChain` says it keeps the latest memo per
  denomination. It goes through the event types one after the other and keeps the
  first memo it meets, so a shield of any age hides every newer send, withdrawal
  and application. (The result is marked stale; nothing usable is returned.)

Met while modelling, and outside the runs:

- The staleness check of `syncFromChain` is to notice "any tx for this denom" that is
  newer. A search that fails is logged and passed over (lines 33 and 80-82), with the
  heights it would have shown, so an older memo of another type comes back as current:
  a shield, a send in a later block, and a failed search for sends. Hence the
  condition `LastSearched` in `RecoveredStateOpensBalance`: whichever other searches
  fail, recovery can be relied on if that for the last transaction succeeds.
- `INTEGRATION.md:220` has users register with `tx confidential register-key
  <64-byte-hex-pubkey>`, and gives commands for sends and withdrawals. These three
  commands, and the web encoders of the same messages, leave out the proof of
  possession, or the commitments and their proofs, which `ValidateBasic` requires:
  what they build is always turned away, as `OtherClientsAccepted` says.
- Two tabs that shield from the same local state: the second memo lacks the
  randomness of the first, and recovery returns it as current, since it compares
  heights only. `RecoveredStateOpensBalance` fails when `AliceTabs` of
  `MCBrowser.cfg` gets a second tab; that is why `browser` has one page per account.
- `SendPanel.tsx:88` advises "Try shielding a small amount first to resync". A
  shield adds to the local state, whatever that is, and so keeps it out of step.
- `wasmDecryptMemo` returns the amount as a JS number, which rounds from 2^53 on,
  while amounts going in must be strings for that very reason (`main.go:180`).
- `messages.ts:87` and `messages.ts:191` write the amount from a JS number, rounded
  from 2^53 on. The worker makes the proof about the same rounded number, so the two
  agree and another amount than the user's moves; a caller that gives the entry
  point the exact string, as they demand, is refused.
- Two `ApplyPending` of one account and denomination in one block, with a transfer to
  it in between, leave the same fresh zero: the salt has the height and nothing finer.
- `INTEGRATION.md:270` says that genesis validation asks for an auditor key;
  `Validate` does not, and `Shield` works without one.
- `INTEGRATION.md:420` promises a grace period for sends built for the previous
  auditor key; the code keeps no previous key, as line 441 of the same file says.

### Bounds, and why they are enough

`MCConfidential`: two accounts suffice for every handler (none touches more),
one denomination because no handler relates two, two auditor keys for one
rotation each way. The field has order 8, the range bound is 4, its half, so
that wrapping happens one step beyond the range; the supply is 4. Amounts are 0, 1, the bound and its predecessor,
and -1. For each handler the messages are the honest ones for *every* balance
the instance can reach, including balances the sender no longer has, and
variants with one field exchanged. All ciphertexts are made with one randomness
that is its own inverse, so sums have that randomness or none; what matters to
the keeper is only whether a ciphertext still shows its key. Counters are not
needed: the state space is finite.

`MCStore`: two accounts and two denominations chosen to collide where they can:
one address is the beginning of the other, one denomination contains the slash
and ends as the other. Three coins, so that every key of the store gets written
and rewritten; a restart is possible in every state. That no address continues,
after a slash, where another ends is assumed (`AddressAssumption`): addresses are
hashes of one or two fixed lengths.

`MCWallets`: `MaxBroadcasts` bounds the transactions of each wallet (2 and 3,
or 3 and 2), enough for a deposit, a transfer in, an application and a spend to
overlap; `MaxCrashes` and `MaxRotations` are 0 or 1. `CrashInFlight` says
whether a wallet may recover while a transaction of its own may still land: the
`crash` run allows it (and has 2 and 2 transactions), `recovery` does not, so that
its counterexample blames the recovered randomness and nothing else. `MaxUint64`
is the supply, as in a chain whose supply fits a word: a local value can then
overflow only if results are applied out of order. So `SpendsNeverPanic` claims
that spends never panic in any order and over crashes, `ReceiptsNeverPanic` that
receipts do not in the order of execution and without crashes: heard of in another
order, or by a wallet that recovered while a spend was in flight and so never takes
it off, `AfterShield` and `AfterApplyPending` could overflow. The field of
these runs is large because randomness is real there. These runs switch deadlock
checking off: wallets that have used up their transactions stop. The keeper never
stops (governance can always set a key).

`MCProgress`: the sender has 3 transactions, the receiver 4, more than can be
made useless to it: with a smaller budget the receiver would end up with pending
funds because the bound stopped it. One rotation.

`MCBrowser`: 3 transactions of one account and 2 of the other (`browser`), 3 of
one account with two tabs (`tabs`): two competing deposits and a spend. Blocks
(`MaxHeight`) are as many as there can be non-empty ones. `PerPage` is 2, so that
the first page of results can be full. `MaxTimeouts` is 1 in `tabs`, where a page may
stop waiting for a transaction that is executed later, and 0 in `browser`: a page
that gave up does not have the state. The tabs of one account differ in nothing, so
their symmetry is sound. Every subset of the four searches may fail. Amounts stay
below 2^53.

`MCAdmission`: words of 3 bits and JS numbers of 2, so that 5 and 7 fit a word and
are rounded; amounts at 0, 1 and around both widths (0, 1, 3, 5, 7, 8, 9); as odd
lengths every right one, every limit and one more. `MCEncoding`: bytes with 5
values, one of them the slash; strings that are prefixes of each other and
denominations and addresses that contain the slash; addresses of two widths; two words, of which each of sequence number, amount and
height takes either.

### Fairness

Only `Progress` assumes any. *Weak fairness of `Deliver`*, per account: blocks are
produced, and a transaction whose sequence number is next is executed or refused
(CometBFT and the SDK's mempool). *Of `Learn`*: an application looks up its
transactions until each is found or can no longer be executed, as the SDK's
`BalanceState` requires before it builds again. *Of `Reapply`*: a receiver's
application applies what it sees, and tries again when it was refused; it is not
waiting for anything then, so it is continuously enabled until it acts. Senders,
deposits and rotations are not fair: users may stop. They are finite
(`MaxBroadcasts`), and must be: against endless senders `PendingFundsApplied` is
false by design, since any transfer in changes the ciphertext an application was
proved for; the client's `MinSendAmount` only makes that costly. No other part of
the code loops or schedules, and no other module assumes fairness.

## What is proved

Every theorem is about the specifications that TLC checks, for all values of their
constants: any finite set of accounts, any denominations, messages, field order,
range bound, number of transactions, crashes and rotations. Each states a property
of a run, unless marked *(inv)*, an inductive invariant, or *(new)*.

| Module | Theorem | States |
|---|---|---|
| `ConfidentialProofs` | `Invariance` | `IInv` *(inv)* |
| | `TypeCorrectness`, `Solvency`, `WithdrawalsCovered`, `BalancesDecryptable`, `FlagSoundness` | `TypeOK`, `EscrowBacksBalances`, `UnshieldNeverShort`, `OwnerCanDecrypt`, `PendingZeroFlagSound` |
| | `IncomingIsolated`, `AuditCompleteness` | the action properties `IncomingLeavesAvailable`, `TransfersAreAudited` |
| | `CapacityIsTheLimit` | a positive balance can be withdrawn from if *and only if* it is within capacity *(new)* |
| | `FundsAreWithdrawable` | `AvailableWithdrawable`, where the supply is within capacity |
| | `ImplementsPlainLedger` | the refinement `ImplementsLedger` |
| `StoreProofs` | `StoreStaysTyped` | `StoreInv` *(inv)* |
| | `StoreImplementsKeeper` | the refinement `ImplementsKeeper`, restarts included |
| | `ExportsRoundTrip`, `ExportsValidate` | `ExportRoundTrips`, `ExportValidates` |
| | `AnswersLast` | the action property `AnswersStayTrue` |
| `WalletsProofs` | `TransactionsInvariance` | `TransactionsInv` *(inv)* |
| | `ProofsSurviveOthers` | `OthersCannotInvalidate` |
| | `RandomnessNeverReused` | `NoRandomnessReuse`, while HKDF does not collide |
| `BalanceStateProofs` | `LocalStateOpensBalance` | `KnownRandomnessOpensBalance`, before the first crash |
| | `WalletsKeepUp` | every wallet's record of what it has yet to hear of explains its local value *(inv)* |
| | `SpendsApply`, `WalletTypeCorrectness` | `SpendsNeverPanic`, `WalletTypeOK`, given `StaleWalletOpensNothing` |
| | `ReceiptsApply` | `ReceiptsNeverPanic`, likewise, before the first crash and where the supply fits a word |
| `BrowserProofs` | `PagesInvariance` | `PagesInv` *(inv)* |
| | `ExecutedSpendsLeaveExactMemos` | `SpendMemosExact`, with any number of tabs |
| | `IdlePagesCanSpend` | `IdlePageOpensBalance`, with one page per account, until a page gives up on a transaction |
| | `RecoveryOpensBalance` | `RecoveredStateOpensBalance`, likewise, whichever searches fail |
| | `PagesNeverReuseRandomness` | `NoRandomnessReuse`, while HKDF does not collide |
| `AdmissionProofs` | `AdmissionInvariance` | `AdmissionInv` *(inv)* |
| | `NoPanic`, `AmountsAgree` | `HandlersNeverPanic`, `BothSidesMoveTheSame` |
| | `HonestMessagesPass`, `OtherClientsPass` | `HonestMessagesAccepted`, `OtherClientsAccepted` |
| `EncodingProofs` | `ContextsSeparate`, `ProofsAreBound`, `ZerosStayApart` | `DerivationSeparates`, `TranscriptsBind`, `ZerosApart` |
| | `MemosReadBack` | `MemoReadsBack` |

### Assumptions

On the constants, all named in the modules and evaluated by TLC in the runs:

- `FieldAssumption`, `NilAssumption`, `AccountsAssumption`: a field, distinct markers,
  finitely many accounts. `FundsAssumption`: the supply of a denomination is below
  the field order. `RangeAssumption`: twice the range bound is at most the field
  order (2^65 against 2^254). `ResetAssumption`. `MessagesAssumption`: proofs of
  possession are made by owners.
- `WalletsAssumption`: the wallets' denomination is one; amounts sent are within the
  range; there is an auditor key, and every account has a key of its own.
- Of `Store`: `AddressAssumption` (no address goes on, after a slash, where another
  ends, see below), `DenomAssumption` and `BytesAssumption` (denominations are not
  empty; the slash is a byte), `ParamsAssumption` (the default parameters are valid),
  `ScalarsAssumption` (as `FieldAssumption`), `StoredAssumption` (nothing that is
  stored reads as "not found": the getters tell the two apart by `nil`).
- `BrowserAssumption`: a page is open for an account, one search returns at least one
  result, and an idle tab is not one with a transaction.
- `WidthAssumption`, `InputsAssumption`, and `PowersAssumption`: the powers of
  two in `Admission` are positive, and two of them ordered, which the provers cannot
  compute.
- `WordAssumption`, `StringsAssumption`: lengths and words fit their fields,
  denominations are not empty, and, as
  in `Store`, no address goes on, after a slash, where another ends. Addresses are raw
  hashes of 20 or 32
  bytes, so the second can only fail where the first 21 bytes of one hash are
  another hash and a slash. `OpsAssumption`: no operation is another one with an
  index (the operations of `randomness.go` are literals without a slash).

In the statements:

- `HKDFReduced`: what HKDF returns is a scalar (it is reduced modulo the order).
- `HKDFSeparates` and, for pages, `PageHKDFSeparates`: HKDF tells apart the inputs in
  use in that state. Without it reuse of randomness is a matter of luck; with it, it
  is a matter of the code.
- `[]StaleWalletOpensNothing`: a wallet that has not heard of everything it did
  does not, by coincidence, hold the opening of its balance. Its local randomness
  lacks a term of the sum on chain, so this is a statement about accidents in a
  field of 254 bits; it does not follow from HKDF telling its inputs apart, since
  sums may coincide. The `in_flight` run checks it.
- `OnePagePerAccount`, and `timeouts = 0` in the conclusion: two pages that are open
  for one account overwrite each other's state, and one that stops waiting for a
  transaction that is executed later does not have its outcome. Without the one or
  the other `IdlePageOpensBalance` and `RecoveredStateOpensBalance` are false (see the
  two tabs above), while `SpendMemosExact` needs neither.
- The hypotheses on the supply. They are what the `capacity` run is about, and
  `CapacityIsTheLimit` says that this limit is exact.

### The arguments

**The keeper.** `EscrowBacksBalances` is not inductive by itself. A deposit
could wrap a balance unless balances are bounded; they are, because the escrow
backs them and the bank's coins are conserved (`CoinsConserved`), so no balance
exceeds the supply (`BalancesBounded`). A transfer could wrap unless the range
proofs hold; `InRangeNoWrap` shows that a subtrahend and a difference both in
range rule it out (`SendCovered`, `UnshieldCovered`). That ciphertexts stay
decryptable needs that registered keys are owned (`KeysOwned`) and that a key
never changes under a balance. Hence `IInv`, the conjunction of `TypeOK`,
`KeysOwned`, `OwnerCanDecrypt`, `PendingZeroFlagSound`, `CoinsConserved` and
`EscrowBacksBalances`. One lemma per handler shows that it is preserved
(`ShieldStep`, ..., `ConfidentialSendStep`); sums over accounts are handled by
`TotalChange`: changing one account changes the total by the difference. What a
transfer and an application do is stated once (`ConfidentialSendEffect`,
`ApplyPendingEffect`) and used again for the action properties, and for the
refinement: each handler, in a state of `IInv`, is the
ledger's action of that name on the plaintexts, and setting the auditor key or
registering one leaves the plaintexts alone.

`CapacityIsTheLimit` exhibits the withdrawal: all of a balance that is in range, the
largest amount in range of one that is not, whose remainder is in range because the
balance is within capacity. Above, the amount or the remainder is out of range,
whatever the amount. `FundsAreWithdrawable` adds that no balance exceeds the supply.

**The store.** Four facts make up `StoreInv`: the store is a function; every key in it
is the key of the parameters, of an account or of a balance and holds a value of that
kind (`MayHold`); the parameters are there; and nobody has a balance or a flag without
a registered key. That two keys are the same only if prefix, account and denomination
are follows from `AddressAssumption`, reading a key chunk by chunk; denominations may
contain slashes, because they come last. Reading any key after a handler's writes thus
gives what the handler meant to write (`Written` on a set of pairs, of which no two
share a key), and each handler is the one of `Confidential` under the mapping. For the
restart, export looks for accounts by their registered keys and for an account's
balances by prefix. A prefix scan finds the account's keys and no others, again by
`AddressAssumption`. It would still miss the balances of an account that has no key:
hence the last conjunct of the invariant, which holds because every handler that
credits an account asks for its key. So import restores the store exactly
(`ImportRestores`), and a restart is a step of `Confidential` that changes nothing.

**Transactions in flight.** `TransactionsInv` says of every transaction ever
broadcast that its message is what its builder makes of the chain state it saw (`Built`), and
that *the sequence number guards the balance* (`SequenceGuardsBalance`): while it is
still the next one, the ciphertext the transaction was built against is the one on
chain. Anything that changes `available` is a transaction of the account
itself, and each of these takes a number (`Admit`). `ProofsSurviveOthers` follows:
the remaining conditions of `Accepted` are about keys, which never change, and the
auditor key, which the property excepts. For `RandomnessNeverReused`, HKDF's inputs
contain the key, the amount, and (through the salt) the balance the transaction was
built against, so equal randomness means equal inputs means equal amounts.

**What wallets know.** Results are applied in any order, and rejections and
abandoned transactions never. The invariant behind `LocalStateOpensBalance` is that
*replaying* what is yet to be heard of on the local state gives the opening of the
balance on chain (`TracksBalance`, a function that says what the state is after each
subset of the outstanding transactions, in whatever order). Executing a transaction
adds one to the set; hearing of one moves it from the set into the local state; that
both keep the function right is that what `After...` do commutes. With crashes there is no such relation any
more: a transaction in flight at a recovery may change the balance afterwards, and the
recovered wallet never hears of it. What remains is `KeepsUp`: a spend that verifies was
built by a wallet that had nothing to hear of, from a value that covers it, and so it
is the first of what that wallet has yet to hear of; only receipts come after it. This is where `[]StaleWalletOpensNothing` is needed, and the reason it is a
hypothesis and no lemma. `ReceiptsApply` bounds the local value by the balance from
the other side (`NeverAbove`).

**Pages.** `PagesInv` holds for any number of tabs: what a tab has prepared and what was
broadcast comes from an entry point, with a memo that is the one its proof of the
remainder was made with (`PageBuilt`); numbers at signing are those of the chain, and a
number below the chain's is spent, so nothing is executed twice. A spend carries a proof
that the remainder opens under the memo's randomness; if it is executed, the proof was
verified against the ciphertext that is then stored, so the memo opens it, and it does so
whatever the page believed and whichever tab came first: `SpendMemosExact`. A page signs
with a later sequence number than the one its randomness was derived from, so a
transaction carries the balance and the number it saw (`sawAvailable`, `sawSequence`):
`Derives` says that each of its ciphertexts comes from an input that names the amount,
hence `PagesNeverReuseRandomness`, although two tabs may well derive from one state.

Deposits and applications prove nothing about the rest of the balance, so for
`IdlePageOpensBalance` the pages must be followed. `TrailInv`: while nobody has given up,
what may still be executed is what a tab waits for, what a tab waits for follows from
its stored state, and what the page *knows* opens the balance: the memo of the
transaction it waits for once that has been executed, and the stored state until then.
Nobody but the page can change `available` of its account, and `Save` stores what the
memo says.

Recovery reads memos instead. `LogInv` says that the chain's record is one: events are
numbered, one for each executed transaction, and each kind has a newest one (which
the first page of a search, in descending order, must contain). `OrderInv`: the events
of one account lie in different blocks, because the page waits for a block before it
prepares the next transaction, and the memo of the last event opens the balance. Then
comparing heights is enough: as long as the type of the account's last transaction is
searched, `NewestIsFound` puts its height among those seen, and a memo that is not
stale is that transaction's (`LastIsFound`), although the search takes the first type
that has any. Whichever other searches fail does not matter. That the amount a page
applies may be out of date does not matter either: the proof of an application is
verified against the ciphertext on chain, so an executed one has applied what its
memo says (`RefreshShows` keeps the displayed amount typed).

**Admission.** `AdmissionInv` says of each stage which checks have been passed and by
whom the message was built; the properties are read off it, field by field
(`CompleteIsValid`, `CompleteIsAccepted`). What a page rounds makes no difference below
`2^Significand`, where the text of an amount is the amount, nor wherever the proof is
about the text.

**Encodings.** A string with its length in front is read from the beginning
(`FieldRead`), words have one width (`SplitAt`), hence a context is read field by
field (`EncodeInjective`). Transcripts are told apart piece by piece, where the labels
matter: without a receiver, the denomination stands in the receiver's place, and only possession is proved for an
empty one (`SubjectDenom`). In salts
the address is read up to its slash (`AddressRead`) and the denomination off what
is left, because heights have one width: that it may contain slashes does no harm.
In memos the fields are read where they stand (`MemoRead`), and padding on the left
does not change a number (`PaddingKeepsNumber`). That numbers are equal if their digits
are keeps the proof free of induction.

### Only model-checked

- `PendingFundsApplied`: liveness is beyond the prover, as is `ENABLED`.
- `StaleWalletOpensNothing`, for the reason given above.

## Not modelled

- The inside of the proof systems and of the hash functions (assumed sound and
  collision free), the bytes of points and proofs, the blindings of Pedersen
  commitments, gas, logging.
- Of the browser client: deriving and unlocking keys, the display, and more than
  one denomination. Results are searched twenty at a time over all
  denominations, so that one denomination's newest may be crowded out; the model
  has one, where the first page always holds the newest. `recoverState.ts` always
  throws.
- Of the command line: parsing of flags and files, the query commands, which print
  what the chain answers.
- Wiring, codec, error codes, generated code: no state of their own.

## Plan

Done: the inventory; `ElGamal`, `Totals`, `Confidential`, `ConfidentialLedger`,
`Wallets`, `Store`, `Admission`, `Encoding`, `Browser`, `Progress` and their runs;
the proofs of the keeper's safety and refinement, of the store and its restarts, of the
wallets, of the pages, of admission and of the encodings. What is left:

1. **Two denominations** in `Browser`, with fewer transactions, for the search that
   is shared between them.
2. **`StaleWalletOpensNothing`** as a statement about probabilities, which this
   logic does not have: it would make the theorems that assume it unconditional.
