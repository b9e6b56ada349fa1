----------------------------- MODULE StoreProofs -----------------------------
(***************************************************************************)
(* The store of the keeper, key by key and restart after restart, is the    *)
(* state of Confidential, for every set of addresses and denominations and  *)
(* whatever bytes they are made of.                                         *)
(***************************************************************************)
EXTENDS Store, LibraryProofs

(***************************************************************************)
(* Keys                                                                     *)
(***************************************************************************)

balancePrefixes == {availableBalancePrefix, pendingBalancePrefix, pendingIsZeroPrefix}

prefixes == balancePrefixes \cup {ParamsKey, accountPubkeyPrefix}

Chunks == Bytes \cup {p[1] : p \in prefixes}

(* The three kinds of keys that an account has for a denomination. *)
BalanceKey(prefix, addr, denom) == prefix \o addr \o <<Slash>> \o denom

LEMMA PrefixTypes == \A p \in prefixes : p \in Strings(Chunks) /\ Len(p) = 1
<1>1. \A p \in prefixes : Len(p) = 1 /\ p = <<p[1]>>
  BY DEF prefixes, balancePrefixes, ParamsKey, accountPubkeyPrefix,
         availableBalancePrefix, pendingBalancePrefix, pendingIsZeroPrefix
<1>2. \A c \in Chunks : <<c>> \in Seq(Chunks)
  OBVIOUS
<1>3. \A p \in prefixes : p[1] \in Chunks
  BY DEF Chunks
<1> QED
  BY <1>1, <1>2, <1>3 DEF Strings

LEMMA PrefixesDiffer ==
    /\ accountPubkeyPrefix \notin balancePrefixes
    /\ ParamsKey \notin balancePrefixes
    /\ ParamsKey # accountPubkeyPrefix
    /\ availableBalancePrefix # pendingBalancePrefix
    /\ availableBalancePrefix # pendingIsZeroPrefix
    /\ pendingBalancePrefix # pendingIsZeroPrefix
<1>1. /\ ParamsKey[1] = "confidential/params"
      /\ accountPubkeyPrefix[1] = "confidential/pk/"
      /\ availableBalancePrefix[1] = "confidential/ab/"
      /\ pendingBalancePrefix[1] = "confidential/pb/"
      /\ pendingIsZeroPrefix[1] = "confidential/pz/"
  BY DEF ParamsKey, accountPubkeyPrefix,
         availableBalancePrefix, pendingBalancePrefix, pendingIsZeroPrefix
<1> QED
  BY <1>1 DEF balancePrefixes

LEMMA ByteStrings ==
    /\ \A s \in Accounts \cup Denoms : s \in Strings(Chunks)
    /\ <<Slash>> \in Strings(Chunks)
    /\ <<>> \in Strings(Chunks)
<1>1. Bytes \subseteq Chunks
  BY DEF Chunks
<1>2. \A s \in Accounts \cup Denoms : s \in Seq(Bytes)
  BY BytesAssumption
<1> QED
  BY <1>1, <1>2, SeqMonotonic, BytesAssumption DEF Strings

(* A key is read chunk by chunk: its prefix, then what follows. *)
LEMMA PrefixRead ==
    \A p, q \in prefixes : \A t, v \in Strings(Chunks) :
        Join(p, t) = Join(q, v) => p = q /\ t = v
  BY PrefixTypes, JoinSplits

Ended(addr) == Join(addr, <<Slash>>)

LEMMA EndedTypes == \A a \in Accounts : Ended(a) \in Strings(Chunks)
  BY ByteStrings, StringsJoin DEF Ended

(* An address is read up to its slash, whatever slashes follow. *)
LEMMA AddressRead ==
    \A a, b \in Accounts : \A t, v \in Strings(Chunks) :
        Join(Ended(a), t) = Join(Ended(b), v) => a = b /\ t = v
<1>1. Accounts \subseteq Strings(Chunks) /\ <<Slash>> \in Strings(Chunks)
  BY ByteStrings
<1>2. \A a, b \in Accounts : IsPrefix(Join(a, <<Slash>>), b) => a = b
  BY AddressAssumption, Zenon DEF Join
<1>3. \A a, b \in Accounts : \A t, v \in Strings(Chunks) :
        Join(Join(a, <<Slash>>), t) = Join(Join(b, <<Slash>>), v) => a = b /\ t = v
  BY <1>1, <1>2, SeparatorRead
<1> QED
  BY <1>3, Zenon DEF Ended

(* The parts of a key. *)
LEMMA KeyParts ==
    /\ \A a \in Accounts : AccountPubkeyKey(a) = Join(accountPubkeyPrefix, a)
    /\ \A p \in prefixes, a \in Accounts, d \in Strings(Chunks) :
         /\ BalanceKey(p, a, d) = Join(p, Join(Ended(a), d))
         /\ BalanceKey(p, a, d) = Join(Join(p, Ended(a)), d)
         /\ BalanceKey(p, a, <<>>) = Join(p, Ended(a))
         /\ Join(p, Ended(a)) \in Strings(Chunks)
         /\ Join(Ended(a), d) \in Strings(Chunks)
<1>1. \A a \in Accounts : AccountPubkeyKey(a) = Join(accountPubkeyPrefix, a)
  BY DEF AccountPubkeyKey, Join
<1>2. ASSUME NEW p \in prefixes, NEW a \in Accounts, NEW d \in Strings(Chunks)
      PROVE  /\ BalanceKey(p, a, d) = Join(p, Join(Ended(a), d))
             /\ BalanceKey(p, a, d) = Join(Join(p, Ended(a)), d)
             /\ BalanceKey(p, a, <<>>) = Join(p, Ended(a))
             /\ Join(p, Ended(a)) \in Strings(Chunks)
             /\ Join(Ended(a), d) \in Strings(Chunks)
  <2>1. /\ p \in Strings(Chunks) /\ a \in Strings(Chunks) /\ <<Slash>> \in Strings(Chunks)
        /\ <<>> \in Strings(Chunks) /\ Ended(a) \in Strings(Chunks)
    BY PrefixTypes, ByteStrings, EndedTypes
  <2>2. /\ Join(p, Ended(a)) \in Strings(Chunks)
        /\ Join(Ended(a), d) \in Strings(Chunks)
    BY <2>1, StringsJoin
  <2>3. \A e : BalanceKey(p, a, e) = Join(Join(Join(p, a), <<Slash>>), e)
    BY Zenon DEF BalanceKey, Join
  <2>4. Join(Join(p, a), <<Slash>>) = Join(p, Ended(a))
    BY <2>1, JoinAssociative DEF Ended
  <2>5. Join(Join(p, Ended(a)), <<>>) = Join(p, Ended(a))
    BY <2>2, ConcatEmptySeq DEF Join, Strings
  <2>6. Join(Join(p, Ended(a)), d) = Join(p, Join(Ended(a), d))
    BY <2>1, JoinAssociative
  <2> QED
    BY <2>2, <2>3, <2>4, <2>5, <2>6
<1> QED
  BY <1>1, <1>2

(* Balance keys of one kind, account and denomination only.                 *)
LEMMA BalanceKeyInjective ==
    \A p, q \in prefixes, a, b \in Accounts, d, e \in Strings(Chunks) :
        BalanceKey(p, a, d) = BalanceKey(q, b, e) => p = q /\ a = b /\ d = e
<1> SUFFICES ASSUME NEW p \in prefixes, NEW q \in prefixes,
                    NEW a \in Accounts, NEW b \in Accounts,
                    NEW d \in Strings(Chunks), NEW e \in Strings(Chunks),
                    BalanceKey(p, a, d) = BalanceKey(q, b, e)
             PROVE  p = q /\ a = b /\ d = e
  BY Zenon
<1>1. p = q /\ Join(Ended(a), d) = Join(Ended(b), e)
  BY KeyParts, PrefixRead
<1> QED
  BY <1>1, AddressRead

LEMMA PubkeyKeyInjective ==
    \A a, b \in Accounts : AccountPubkeyKey(a) = AccountPubkeyKey(b) => a = b
<1>1. accountPubkeyPrefix \in prefixes
  BY DEF prefixes
<1> QED
  BY <1>1, KeyParts, PrefixRead, ByteStrings

(* Keys with different prefixes differ. *)
LEMMA KindsDiffer ==
    /\ \A a \in Accounts : AccountPubkeyKey(a) # ParamsKey
    /\ \A b \in Accounts, p \in balancePrefixes, d \in Denoms :
         /\ BalanceKey(p, b, d) # ParamsKey
         /\ \A a \in Accounts : BalanceKey(p, b, d) # AccountPubkeyKey(a)
<1>1. /\ accountPubkeyPrefix \in prefixes /\ ParamsKey \in prefixes
      /\ \A p \in balancePrefixes :
           p \in prefixes /\ p # ParamsKey /\ p # accountPubkeyPrefix
      /\ ParamsKey # accountPubkeyPrefix
  BY PrefixesDiffer DEF prefixes
<1>2. ParamsKey = Join(ParamsKey, <<>>) /\ <<>> \in Strings(Chunks)
  BY <1>1, PrefixTypes, ByteStrings, ConcatEmptySeq DEF Join, Strings
<1>3. ASSUME NEW a \in Accounts
      PROVE  /\ AccountPubkeyKey(a) = Join(accountPubkeyPrefix, a) /\ a \in Strings(Chunks)
             /\ AccountPubkeyKey(a) # ParamsKey
  <2>1. AccountPubkeyKey(a) = Join(accountPubkeyPrefix, a) /\ a \in Strings(Chunks)
    BY KeyParts, ByteStrings
  <2>2. Join(accountPubkeyPrefix, a) # Join(ParamsKey, <<>>)
    BY <1>1, <1>2, <2>1, PrefixRead
  <2> QED
    BY <1>2, <2>1, <2>2
<1>4. ASSUME NEW b \in Accounts, NEW p \in balancePrefixes, NEW d \in Denoms
      PROVE  /\ BalanceKey(p, b, d) # ParamsKey
             /\ \A a \in Accounts : BalanceKey(p, b, d) # AccountPubkeyKey(a)
  <2>1. /\ BalanceKey(p, b, d) = Join(p, Join(Ended(b), d))
        /\ Join(Ended(b), d) \in Strings(Chunks)
    BY <1>1, KeyParts, ByteStrings
  <2>2. /\ Join(p, Join(Ended(b), d)) # Join(ParamsKey, <<>>)
        /\ \A a \in Accounts :
             Join(p, Join(Ended(b), d)) # Join(accountPubkeyPrefix, a)
    BY <1>1, <1>2, <1>3, <2>1, PrefixRead
  <2> QED
    BY <1>2, <1>3, <2>1, <2>2
<1> QED
  BY <1>3, <1>4

(* Scanning for a kind of keys of one account finds those and no others,    *)
(* and what follows the scanned prefix is the denomination.                 *)
LEMMA BalanceKeysScanned ==
    ASSUME NEW p \in balancePrefixes, NEW a \in Accounts
    PROVE  /\ ~IsPrefix(BalanceKey(p, a, <<>>), ParamsKey)
           /\ \A b \in Accounts : ~IsPrefix(BalanceKey(p, a, <<>>), AccountPubkeyKey(b))
           /\ \A q \in balancePrefixes, b \in Accounts, d \in Denoms :
                IsPrefix(BalanceKey(p, a, <<>>), BalanceKey(q, b, d)) <=> q = p /\ b = a
           /\ \A d \in Denoms :
                AfterPrefix(BalanceKey(p, a, <<>>), BalanceKey(p, a, d)) = d
<1> DEFINE scan == Join(p, Ended(a))
<1>1. /\ p \in prefixes /\ accountPubkeyPrefix \in prefixes /\ ParamsKey \in prefixes
      /\ balancePrefixes \subseteq prefixes
  BY DEF prefixes
<1>2. /\ scan \in Strings(Chunks) /\ BalanceKey(p, a, <<>>) = scan
      /\ Ended(a) \in Strings(Chunks)
  BY <1>1, KeyParts, EndedTypes, ByteStrings
<1>3. p # ParamsKey /\ p # accountPubkeyPrefix
  BY PrefixesDiffer
<1>4. ASSUME NEW t \in Strings(Chunks)
      PROVE  Join(scan, t) = Join(p, Join(Ended(a), t)) /\ Join(Ended(a), t) \in Strings(Chunks)
  BY <1>1, <1>2, PrefixTypes, JoinAssociative, StringsJoin
<1> HIDE DEF scan
<1>5. ~IsPrefix(scan, ParamsKey)
  <2> SUFFICES ASSUME IsPrefix(scan, ParamsKey)
               PROVE  FALSE
    OBVIOUS
  <2>1. ParamsKey \in Strings(Chunks) /\ ParamsKey = Join(ParamsKey, <<>>)
    BY <1>1, PrefixTypes, ConcatEmptySeq DEF Join, Strings
  <2>2. PICK t \in Strings(Chunks) : ParamsKey = Join(scan, t)
    BY <1>2, <2>1, PrefixSplits
  <2> QED
    BY <1>1, <1>3, <1>4, <2>1, <2>2, PrefixRead, ByteStrings
<1>6. ASSUME NEW b \in Accounts, IsPrefix(scan, AccountPubkeyKey(b))
      PROVE  FALSE
  <2>1. AccountPubkeyKey(b) = Join(accountPubkeyPrefix, b) /\ b \in Strings(Chunks)
    BY KeyParts, ByteStrings
  <2>2. Join(accountPubkeyPrefix, b) \in Strings(Chunks)
    BY <1>1, <2>1, PrefixTypes, StringsJoin
  <2>3. PICK t \in Strings(Chunks) : AccountPubkeyKey(b) = Join(scan, t)
    BY <1>2, <1>6, <2>1, <2>2, PrefixSplits
  <2>4. /\ Join(accountPubkeyPrefix, b) = Join(p, Join(Ended(a), t))
        /\ Join(Ended(a), t) \in Strings(Chunks)
    BY <1>4, <2>1, <2>3
  <2>5. accountPubkeyPrefix = p
    BY <1>1, <2>1, <2>4, PrefixRead, Zenon
  <2> QED
    BY <1>3, <2>5
<1>7. ASSUME NEW q \in balancePrefixes, NEW b \in Accounts, NEW d \in Denoms
      PROVE  IsPrefix(scan, BalanceKey(q, b, d)) <=> q = p /\ b = a
  <2>1. /\ d \in Strings(Chunks)
        /\ BalanceKey(q, b, d) = Join(q, Join(Ended(b), d))
        /\ Join(Ended(b), d) \in Strings(Chunks)
    BY <1>1, KeyParts, ByteStrings
  <2>2. BalanceKey(q, b, d) \in Strings(Chunks)
    BY <1>1, <2>1, PrefixTypes, StringsJoin
  <2>3. ASSUME IsPrefix(scan, BalanceKey(q, b, d))
        PROVE  q = p /\ b = a
    <3>1. PICK t \in Strings(Chunks) : BalanceKey(q, b, d) = Join(scan, t)
      BY <1>2, <2>2, <2>3, PrefixSplits
    <3>2. /\ Join(q, Join(Ended(b), d)) = Join(p, Join(Ended(a), t))
          /\ Join(Ended(a), t) \in Strings(Chunks)
      BY <1>4, <2>1, <3>1
    <3>3. q \in prefixes
      BY <1>1
    <3>4. q = p /\ Join(Ended(b), d) = Join(Ended(a), t)
      <4> DEFINE t1 == Join(Ended(b), d)
                 t2 == Join(Ended(a), t)
      <4>1. t1 \in Strings(Chunks) /\ t2 \in Strings(Chunks) /\ Join(q, t1) = Join(p, t2)
        BY <2>1, <3>2
      <4> HIDE DEF t1, t2
      <4>2. q = p /\ t1 = t2
        BY <1>1, <3>3, <4>1, PrefixRead
      <4> QED
        BY <4>2 DEF t1, t2
    <3> QED
      BY <2>1, <3>2, <3>4, AddressRead
  <2>4. ASSUME q = p, b = a
        PROVE  IsPrefix(scan, BalanceKey(q, b, d))
    <3>1. BalanceKey(q, b, d) = Join(scan, d)
      BY <1>4, <2>1, <2>4
    <3> QED
      BY <1>2, <2>1, <3>1, PrefixOfJoin
  <2> QED
    BY <2>3, <2>4
<1>8. ASSUME NEW d \in Denoms
      PROVE  AfterPrefix(scan, BalanceKey(p, a, d)) = d
  <2>1. d \in Strings(Chunks) /\ BalanceKey(p, a, d) = Join(scan, d)
    BY <1>1, KeyParts, ByteStrings DEF scan
  <2> QED
    BY <1>2, <2>1, PartAfter DEF AfterPrefix
<1> QED
  BY <1>2, <1>5, <1>6, <1>7, <1>8

LEMMA PubkeyKeysScanned ==
    /\ ~IsPrefix(accountPubkeyPrefix, ParamsKey)
    /\ \A a \in Accounts :
         /\ IsPrefix(accountPubkeyPrefix, AccountPubkeyKey(a))
         /\ AfterPrefix(accountPubkeyPrefix, AccountPubkeyKey(a)) = a
    /\ \A p \in balancePrefixes, a \in Accounts, d \in Denoms :
         ~IsPrefix(accountPubkeyPrefix, BalanceKey(p, a, d))
<1>1. /\ accountPubkeyPrefix \in prefixes /\ ParamsKey \in prefixes
      /\ balancePrefixes \subseteq prefixes
      /\ accountPubkeyPrefix \in Strings(Chunks)
  BY PrefixTypes DEF prefixes
<1>2. ~IsPrefix(accountPubkeyPrefix, ParamsKey)
  <2> SUFFICES ASSUME IsPrefix(accountPubkeyPrefix, ParamsKey)
               PROVE  FALSE
    OBVIOUS
  <2>1. ParamsKey \in Strings(Chunks) /\ ParamsKey = Join(ParamsKey, <<>>)
    BY <1>1, PrefixTypes, ConcatEmptySeq DEF Join, Strings
  <2>2. PICK t \in Strings(Chunks) : ParamsKey = Join(accountPubkeyPrefix, t)
    BY <1>1, <2>1, PrefixSplits
  <2> QED
    BY <1>1, <2>1, <2>2, PrefixRead, PrefixesDiffer, ByteStrings
<1>3. ASSUME NEW a \in Accounts
      PROVE  /\ IsPrefix(accountPubkeyPrefix, AccountPubkeyKey(a))
             /\ AfterPrefix(accountPubkeyPrefix, AccountPubkeyKey(a)) = a
  <2>1. a \in Strings(Chunks) /\ AccountPubkeyKey(a) = Join(accountPubkeyPrefix, a)
    BY KeyParts, ByteStrings
  <2> QED
    BY <1>1, <2>1, PrefixOfJoin, PartAfter DEF AfterPrefix
<1>4. ASSUME NEW p \in balancePrefixes, NEW a \in Accounts, NEW d \in Denoms,
             IsPrefix(accountPubkeyPrefix, BalanceKey(p, a, d))
      PROVE  FALSE
  <2>1. /\ BalanceKey(p, a, d) = Join(p, Join(Ended(a), d))
        /\ Join(Ended(a), d) \in Strings(Chunks)
    BY <1>1, KeyParts, ByteStrings
  <2>2. BalanceKey(p, a, d) \in Strings(Chunks)
    BY <1>1, <2>1, PrefixTypes, StringsJoin
  <2>3. PICK t \in Strings(Chunks) : BalanceKey(p, a, d) = Join(accountPubkeyPrefix, t)
    BY <1>1, <1>4, <2>2, PrefixSplits
  <2> QED
    BY <1>1, <2>1, <2>3, PrefixRead, PrefixesDiffer
<1> QED
  BY <1>2, <1>3, <1>4

(* The keys of the accessors. *)
LEMMA KeyNames ==
    \A a, d : /\ AvailableBalanceKey(a, d) = BalanceKey(availableBalancePrefix, a, d)
              /\ PendingBalanceKey(a, d) = BalanceKey(pendingBalancePrefix, a, d)
              /\ PendingIsZeroKey(a, d) = BalanceKey(pendingIsZeroPrefix, a, d)
  BY Zenon DEF AvailableBalanceKey, PendingBalanceKey, PendingIsZeroKey, BalanceKey

(***************************************************************************)
(* The inductive invariant: what the store may hold, and that only accounts *)
(* with a registered key have balances, which an export relies on.          *)
(***************************************************************************)

ParamsValues == [AuditorPubKey : Keys \cup {NoKey}, MaxTransferBits : {MaxTransferBits}]

BalanceValues(prefix) ==
    IF prefix = pendingIsZeroPrefix THEN {<<0>>, <<1>>} ELSE K!Ciphertext

(* A key of the parameters, of an account or of a balance, with a value of  *)
(* that kind.                                                               *)
MayHold(key, v) ==
    \/ key = ParamsKey /\ v \in ParamsValues
    \/ \E a \in Accounts : key = AccountPubkeyKey(a) /\ v \in Keys
    \/ \E p \in balancePrefixes, a \in Accounts, d \in Denoms :
         key = BalanceKey(p, a, d) /\ v \in BalanceValues(p)

StoreInv ==
    /\ store = [key \in DOMAIN store |-> store[key]]
    /\ \A key \in DOMAIN store : MayHold(key, store[key])
    /\ ParamsKey \in DOMAIN store
    /\ \A p \in balancePrefixes, a \in Accounts, d \in Denoms :
         BalanceKey(p, a, d) \in DOMAIN store => AccountPubkeyKey(a) \in DOMAIN store

(* A key determines the kind of its value. *)
LEMMA ValueKinds ==
    \A v :
        /\ MayHold(ParamsKey, v) => v \in ParamsValues
        /\ \A a \in Accounts : MayHold(AccountPubkeyKey(a), v) => v \in Keys
        /\ \A p \in balancePrefixes, a \in Accounts, d \in Denoms :
             MayHold(BalanceKey(p, a, d), v) => v \in BalanceValues(p)
<1> TAKE v
<1>1. MayHold(ParamsKey, v) => v \in ParamsValues
  BY KindsDiffer DEF MayHold
<1>2. ASSUME NEW a \in Accounts, MayHold(AccountPubkeyKey(a), v)
      PROVE  v \in Keys
  BY <1>2, KindsDiffer DEF MayHold
<1>3. ASSUME NEW p \in balancePrefixes, NEW a \in Accounts, NEW d \in Denoms,
             MayHold(BalanceKey(p, a, d), v)
      PROVE  v \in BalanceValues(p)
  <2>1. PICK q \in balancePrefixes, b \in Accounts, e \in Denoms :
          BalanceKey(p, a, d) = BalanceKey(q, b, e) /\ v \in BalanceValues(q)
    BY <1>3, KindsDiffer DEF MayHold
  <2>2. p \in prefixes /\ q \in prefixes /\ d \in Strings(Chunks) /\ e \in Strings(Chunks)
    BY ByteStrings DEF prefixes
  <2>3. p = q
    BY <2>1, <2>2, BalanceKeyInjective
  <2> QED
    BY <2>1, <2>3
<1> QED
  BY <1>1, <1>2, <1>3

(* The values that are read are of their kind, and none of them is Nil.     *)
LEMMA StoredValues ==
    ASSUME StoreInv
    PROVE  /\ GetParams = store[ParamsKey] /\ GetParams \in ParamsValues
           /\ \A a \in Accounts :
                /\ AccountPubkeyKey(a) \in DOMAIN store =>
                     GetAccountPubkey(a) = store[AccountPubkeyKey(a)] /\ GetAccountPubkey(a) \in Keys
                /\ GetAccountPubkey(a) # Nil <=> AccountPubkeyKey(a) \in DOMAIN store
           /\ \A p \in balancePrefixes, a \in Accounts, d \in Denoms :
                BalanceKey(p, a, d) \in DOMAIN store =>
                    /\ Get(BalanceKey(p, a, d)) = store[BalanceKey(p, a, d)]
                    /\ store[BalanceKey(p, a, d)] \in BalanceValues(p)
<1>1. store[ParamsKey] \in ParamsValues /\ Get(ParamsKey) = store[ParamsKey]
  BY ValueKinds DEF StoreInv, Get
<1>2. GetParams = store[ParamsKey]
  BY <1>1, StoredAssumption DEF GetParams, ParamsValues
<1>3. ASSUME NEW a \in Accounts
      PROVE  /\ AccountPubkeyKey(a) \in DOMAIN store =>
                  GetAccountPubkey(a) = store[AccountPubkeyKey(a)] /\ GetAccountPubkey(a) \in Keys
             /\ GetAccountPubkey(a) # Nil <=> AccountPubkeyKey(a) \in DOMAIN store
  <2>1. ASSUME AccountPubkeyKey(a) \in DOMAIN store
        PROVE  store[AccountPubkeyKey(a)] \in Keys
    BY <2>1, ValueKinds DEF StoreInv
  <2> QED
    BY <2>1, StoredAssumption DEF GetAccountPubkey, Get
<1>4. ASSUME NEW p \in balancePrefixes, NEW a \in Accounts, NEW d \in Denoms,
             BalanceKey(p, a, d) \in DOMAIN store
      PROVE  /\ Get(BalanceKey(p, a, d)) = store[BalanceKey(p, a, d)]
             /\ store[BalanceKey(p, a, d)] \in BalanceValues(p)
  BY <1>4, ValueKinds DEF StoreInv, Get
<1> QED
  BY <1>1, <1>2, <1>3, <1>4

(***************************************************************************)
(* Restarts                                                                 *)
(***************************************************************************)

(* The denominations for which an account has a balance of a kind. *)
StoredDenoms(p, a) == {d \in Denoms : BalanceKey(p, a, d) \in DOMAIN store}

(* An account and a denomination determine the entry that is exported. *)
LEMMA EntriesOf ==
    ASSUME StoreInv, NEW p \in balancePrefixes, NEW a \in Accounts
    PROVE  Entries(BalanceKey(p, a, <<>>))
             = {[Denom |-> d, Value |-> store[BalanceKey(p, a, d)]] : d \in StoredDenoms(p, a)}
<1> DEFINE scan == BalanceKey(p, a, <<>>)
           found == {BalanceKey(p, a, d) : d \in StoredDenoms(p, a)}
<1>1. iteratePrefix(scan) = found
  <2>1. ASSUME NEW key \in DOMAIN store, IsPrefix(scan, key)
        PROVE  key \in found
    <3>1. MayHold(key, store[key])
      BY DEF StoreInv
    <3>2. PICK q \in balancePrefixes, b \in Accounts, d \in Denoms : key = BalanceKey(q, b, d)
      BY <2>1, <3>1, BalanceKeysScanned DEF MayHold
    <3>3. q = p /\ b = a
      BY <2>1, <3>2, BalanceKeysScanned
    <3> QED
      BY <3>2, <3>3 DEF StoredDenoms
  <2>2. ASSUME NEW d \in StoredDenoms(p, a)
        PROVE  BalanceKey(p, a, d) \in DOMAIN store /\ IsPrefix(scan, BalanceKey(p, a, d))
    BY BalanceKeysScanned DEF StoredDenoms
  <2> QED
    BY <2>1, <2>2 DEF iteratePrefix
<1>2. \A d \in StoredDenoms(p, a) : AfterPrefix(scan, BalanceKey(p, a, d)) = d
  BY BalanceKeysScanned DEF StoredDenoms
<1> HIDE DEF scan
<1>3. Entries(scan) = {[Denom |-> AfterPrefix(scan, key), Value |-> store[key]] : key \in found}
  BY <1>1 DEF Entries
<1>4. @ = {[Denom |-> AfterPrefix(scan, BalanceKey(p, a, d)),
            Value |-> store[BalanceKey(p, a, d)]] : d \in StoredDenoms(p, a)}
  OBVIOUS
<1>5. @ = {[Denom |-> d, Value |-> store[BalanceKey(p, a, d)]] : d \in StoredDenoms(p, a)}
  BY <1>2
<1> QED
  BY <1>3, <1>4, <1>5 DEF scan

Registered == {a \in Accounts : AccountPubkeyKey(a) \in DOMAIN store}

LEMMA AccountsOf ==
    ASSUME StoreInv
    PROVE  ExportGenesis.Accounts = {ExportAccount(a) : a \in Registered}
<1> DEFINE found == {AccountPubkeyKey(a) : a \in Registered}
<1>1. iteratePrefix(accountPubkeyPrefix) = found
  <2>1. ASSUME NEW key \in DOMAIN store, IsPrefix(accountPubkeyPrefix, key)
        PROVE  key \in found
    <3>1. MayHold(key, store[key])
      BY DEF StoreInv
    <3>2. PICK a \in Accounts : key = AccountPubkeyKey(a)
      BY <2>1, <3>1, PubkeyKeysScanned DEF MayHold
    <3> QED
      BY <3>2 DEF Registered
  <2>2. ASSUME NEW a \in Registered
        PROVE  /\ AccountPubkeyKey(a) \in DOMAIN store
               /\ IsPrefix(accountPubkeyPrefix, AccountPubkeyKey(a))
    BY PubkeyKeysScanned DEF Registered
  <2> QED
    BY <2>1, <2>2 DEF iteratePrefix
<1>2. \A a \in Registered : AfterPrefix(accountPubkeyPrefix, AccountPubkeyKey(a)) = a
  BY PubkeyKeysScanned DEF Registered
<1>3. ExportGenesis.Accounts
        = {ExportAccount(AfterPrefix(accountPubkeyPrefix, key)) : key \in found}
  BY <1>1 DEF ExportGenesis
<1>4. @ = {ExportAccount(AfterPrefix(accountPubkeyPrefix, AccountPubkeyKey(a))) :
             a \in Registered}
  OBVIOUS
<1>5. @ = {ExportAccount(a) : a \in Registered}
  BY <1>2
<1> QED
  BY <1>3, <1>4, <1>5

(* What is written when what was exported of one account is imported.       *)
LEMMA AccountReturns ==
    ASSUME StoreInv, NEW a \in Registered
    PROVE  AccountWrites(ExportAccount(a))
             = {<<AccountPubkeyKey(a), store[AccountPubkeyKey(a)]>>}
               \cup UNION {{<<BalanceKey(p, a, d), store[BalanceKey(p, a, d)]>> :
                              d \in StoredDenoms(p, a)} : p \in balancePrefixes}
<1> DEFINE acct == ExportAccount(a)
           pairs(p) == {<<BalanceKey(p, a, d), store[BalanceKey(p, a, d)]>> :
                          d \in StoredDenoms(p, a)}
<1>1. a \in Accounts /\ AccountPubkeyKey(a) \in DOMAIN store
  BY DEF Registered
<1>2. AccAddressFromBech32(acct.Address) = a
  BY DEF ExportAccount, Bech32, AccAddressFromBech32
<1>3. Put(AccountPubkeyKey(a), acct.Pubkey) = {<<AccountPubkeyKey(a), store[AccountPubkeyKey(a)]>>}
  BY <1>1, StoredValues DEF ExportAccount, Put
<1>4. {<<AvailableBalanceKey(a, e.Denom), e.Value>> : e \in acct.AvailableBalances}
        = pairs(availableBalancePrefix)
  <2> DEFINE entry(d) == [Denom |-> d, Value |-> store[BalanceKey(availableBalancePrefix, a, d)]]
             write(e) == <<AvailableBalanceKey(a, e.Denom), e.Value>>
             pair(d) == <<BalanceKey(availableBalancePrefix, a, d),
                          store[BalanceKey(availableBalancePrefix, a, d)]>>
             denoms == StoredDenoms(availableBalancePrefix, a)
  <2>1. acct.AvailableBalances = {entry(d) : d \in denoms}
    BY <1>1, EntriesOf, KeyNames DEF ExportAccount, balancePrefixes
  <2>2. \A d \in denoms : write(entry(d)) = pair(d)
    BY KeyNames
  <2> HIDE DEF acct, entry, write, pair, denoms
  <2>3. {write(e) : e \in acct.AvailableBalances} = {write(entry(d)) : d \in denoms}
    BY <2>1
  <2>4. @ = {pair(d) : d \in denoms}
    BY <2>2
  <2> QED
    BY <2>3, <2>4 DEF write, pair, denoms
<1>5. {<<PendingBalanceKey(a, e.Denom), e.Value>> : e \in acct.PendingBalances}
        = pairs(pendingBalancePrefix)
  <2> DEFINE entry(d) == [Denom |-> d, Value |-> store[BalanceKey(pendingBalancePrefix, a, d)]]
             write(e) == <<PendingBalanceKey(a, e.Denom), e.Value>>
             pair(d) == <<BalanceKey(pendingBalancePrefix, a, d),
                          store[BalanceKey(pendingBalancePrefix, a, d)]>>
             denoms == StoredDenoms(pendingBalancePrefix, a)
  <2>1. acct.PendingBalances = {entry(d) : d \in denoms}
    BY <1>1, EntriesOf, KeyNames DEF ExportAccount, balancePrefixes
  <2>2. \A d \in denoms : write(entry(d)) = pair(d)
    BY KeyNames
  <2> HIDE DEF acct, entry, write, pair, denoms
  <2>3. {write(e) : e \in acct.PendingBalances} = {write(entry(d)) : d \in denoms}
    BY <2>1
  <2>4. @ = {pair(d) : d \in denoms}
    BY <2>2
  <2> QED
    BY <2>3, <2>4 DEF write, pair, denoms
<1>6. {<<PendingIsZeroKey(a, e.Denom), FlagByte(e.IsZero)>> : e \in acct.PendingIsZero}
        = pairs(pendingIsZeroPrefix)
  <2> DEFINE flag(d) == store[BalanceKey(pendingIsZeroPrefix, a, d)]
             isZero(v) == Len(v) > 0 /\ v[1] = 1
             denoms == StoredDenoms(pendingIsZeroPrefix, a)
             entries == Entries(PendingIsZeroKey(a, <<>>))
  <2>1. \A d \in denoms : FlagByte(isZero(flag(d))) = flag(d)
    <3>1. \A v \in {<<0>>, <<1>>} : FlagByte(isZero(v)) = v
      BY DEF FlagByte
    <3>2. \A d \in denoms : flag(d) \in {<<0>>, <<1>>}
      BY <1>1, StoredValues DEF StoredDenoms, BalanceValues, balancePrefixes
    <3> HIDE DEF flag, isZero
    <3> QED
      BY <3>1, <3>2
  <2>2. acct.PendingIsZero = {[Denom |-> e.Denom, IsZero |-> isZero(e.Value)] : e \in entries}
    BY DEF ExportAccount, FlagEntries
  <2>3. entries = {[Denom |-> d, Value |-> flag(d)] : d \in denoms}
    BY <1>1, EntriesOf, KeyNames DEF balancePrefixes
  <2> DEFINE entry(d) == [Denom |-> d, Value |-> flag(d)]
             exported(e) == [Denom |-> e.Denom, IsZero |-> isZero(e.Value)]
             write(e) == <<PendingIsZeroKey(a, e.Denom), FlagByte(e.IsZero)>>
             pair(d) == <<BalanceKey(pendingIsZeroPrefix, a, d), flag(d)>>
  <2>4. \A d \in denoms : write(exported(entry(d))) = pair(d)
    BY <2>1, KeyNames
  <2> HIDE DEF acct, flag, denoms, isZero, entries, entry, exported, write, pair
  <2>5. acct.PendingIsZero = {exported(entry(d)) : d \in denoms}
    <3>1. acct.PendingIsZero = {exported(e) : e \in entries}
      BY <2>2 DEF exported
    <3>2. entries = {entry(d) : d \in denoms}
      BY <2>3 DEF entry
    <3> QED
      BY <3>1, <3>2
  <2>6. {write(e) : e \in acct.PendingIsZero} = {write(exported(entry(d))) : d \in denoms}
    BY <2>5
  <2>7. @ = {pair(d) : d \in denoms}
    BY <2>4
  <2> QED
    BY <2>6, <2>7 DEF flag, denoms, write, pair
<1>7. AccountWrites(acct)
        = {<<AccountPubkeyKey(a), store[AccountPubkeyKey(a)]>>}
          \cup pairs(availableBalancePrefix) \cup pairs(pendingBalancePrefix)
          \cup pairs(pendingIsZeroPrefix)
  <2> HIDE DEF acct, pairs
  <2> QED
    BY <1>2, <1>3, <1>4, <1>5, <1>6, Zenon DEF AccountWrites
<1>8. UNION {pairs(p) : p \in balancePrefixes}
        = pairs(availableBalancePrefix) \cup pairs(pendingBalancePrefix)
          \cup pairs(pendingIsZeroPrefix)
  <2> HIDE DEF pairs
  <2> QED
    BY DEF balancePrefixes
<1> QED
  BY <1>7, <1>8

(* Importing what was exported writes every key with the value it had.      *)
LEMMA ImportRestores == StoreInv => ExportRoundTrips
<1> SUFFICES ASSUME StoreInv
             PROVE  InitGenesis(ExportGenesis) = store
  BY DEF ExportRoundTrips
<1> DEFINE gs == ExportGenesis
           writes == {<<ParamsKey, store[ParamsKey]>>}
                     \cup UNION {AccountWrites(acct) : acct \in gs.Accounts}
           pairs == {<<key, store[key]>> : key \in DOMAIN store}
<1>1. InitGenesis(gs) = Written(writes, <<>>)
  <2>1. gs.Params = store[ParamsKey] /\ gs.Params # Nil
    BY StoredValues, StoredAssumption DEF ExportGenesis, ParamsValues
  <2> QED
    BY <2>1 DEF InitGenesis, Put
<1>2. writes \subseteq pairs
  <2>1. <<ParamsKey, store[ParamsKey]>> \in pairs
    BY DEF StoreInv
  <2>2. ASSUME NEW a \in Registered, NEW w \in AccountWrites(ExportAccount(a))
        PROVE  w \in pairs
    <3>1. CASE w = <<AccountPubkeyKey(a), store[AccountPubkeyKey(a)]>>
      BY <3>1 DEF Registered
    <3>2. CASE \E p \in balancePrefixes : \E d \in StoredDenoms(p, a) :
                 w = <<BalanceKey(p, a, d), store[BalanceKey(p, a, d)]>>
      BY <3>2 DEF StoredDenoms
    <3> QED
      BY <2>2, <3>1, <3>2, AccountReturns
  <2> QED
    BY <2>1, <2>2, AccountsOf
<1>3. pairs \subseteq writes
  <2>1. ASSUME NEW key \in DOMAIN store
        PROVE  <<key, store[key]>> \in writes
    <3>1. MayHold(key, store[key])
      BY DEF StoreInv
    <3>2. CASE key = ParamsKey
      BY <3>2
    <3>3. ASSUME NEW a \in Accounts, key = AccountPubkeyKey(a)
          PROVE  <<key, store[key]>> \in writes
      <4>1. a \in Registered
        BY <3>3 DEF Registered
      <4>2. <<key, store[key]>> \in AccountWrites(ExportAccount(a))
        BY <3>3, <4>1, AccountReturns
      <4> QED
        BY <4>1, <4>2, AccountsOf
    <3>4. ASSUME NEW p \in balancePrefixes, NEW a \in Accounts, NEW d \in Denoms,
                 key = BalanceKey(p, a, d)
          PROVE  <<key, store[key]>> \in writes
      <4>1. a \in Registered /\ d \in StoredDenoms(p, a)
        BY <3>4 DEF Registered, StoredDenoms, StoreInv
      <4>2. <<key, store[key]>> \in AccountWrites(ExportAccount(a))
        BY <3>4, <4>1, AccountReturns
      <4> QED
        BY <4>1, <4>2, AccountsOf
    <3> QED
      BY <3>1, <3>2, <3>3, <3>4 DEF MayHold
  <2> QED
    BY <2>1
<1> HIDE DEF gs, writes
<1>4. Written(pairs, <<>>) = store
  <2> DEFINE pair(key) == <<key, store[key]>>
             first(w) == w[1]
  <2>1. {w[1] : w \in pairs} = DOMAIN store
    <3>1. \A key \in DOMAIN store : first(pair(key)) = key
      OBVIOUS
    <3>2. pairs = {pair(key) : key \in DOMAIN store}
      OBVIOUS
    <3> HIDE DEF pairs, pair, first
    <3>3. {first(w) : w \in pairs} = {first(pair(key)) : key \in DOMAIN store}
      BY <3>2
    <3>4. @ = DOMAIN store
      BY <3>1
    <3> QED
      BY <3>3, <3>4 DEF first
  <2>2. DOMAIN <<>> = {}
    OBVIOUS
  <2>3. \A key \in DOMAIN store : (CHOOSE w \in pairs : w[1] = key)[2] = store[key]
    <3> TAKE key \in DOMAIN store
    <3>1. \E w \in pairs : w[1] = key
      <4>1. pair(key) \in pairs /\ pair(key)[1] = key
        OBVIOUS
      <4> HIDE DEF pairs, pair
      <4> QED
        BY <4>1
    <3>2. \A w \in pairs : w[1] = key => w[2] = store[key]
      OBVIOUS
    <3> HIDE DEF pairs
    <3> QED
      BY <3>1, <3>2
  <2> HIDE DEF pairs
  <2>4. Written(pairs, <<>>) = [key \in DOMAIN store |-> store[key]]
    BY <2>1, <2>2, <2>3 DEF Written
  <2> QED
    BY <2>4 DEF StoreInv
<1>5. writes = pairs
  <2> HIDE DEF pairs
  <2> QED
    BY <1>2, <1>3
<1> QED
  BY <1>1, <1>4, <1>5 DEF gs

(* A file that was exported at any moment is accepted.                      *)
LEMMA ExportIsValid == StoreInv => ExportValidates
<1> SUFFICES ASSUME StoreInv
             PROVE  Validate(ExportGenesis)
  BY DEF ExportValidates
<1>1. ExportGenesis.Params # Nil /\ ParamsValid(ExportGenesis.Params)
  <2>1. ExportGenesis.Params \in ParamsValues
    BY StoredValues DEF ExportGenesis
  <2> QED
    BY <2>1, StoredAssumption, ParamsAssumption DEF ParamsValues, ParamsValid
<1>2. ASSUME NEW a \in Registered
      PROVE  /\ ExportAccount(a).Pubkey \in Keys
             /\ BalancesValid(ExportAccount(a).AvailableBalances)
             /\ BalancesValid(ExportAccount(a).PendingBalances)
  <2>1. a \in Accounts /\ GetAccountPubkey(a) \in Keys
    BY StoredValues DEF Registered
  <2>2. ASSUME NEW p \in balancePrefixes, p # pendingIsZeroPrefix
        PROVE  BalancesValid(Entries(BalanceKey(p, a, <<>>)))
    <3>1. Entries(BalanceKey(p, a, <<>>))
            = {[Denom |-> d, Value |-> store[BalanceKey(p, a, d)]] : d \in StoredDenoms(p, a)}
      BY <2>1, EntriesOf
    <3>2. \A d \in StoredDenoms(p, a) :
            d # <<>> /\ store[BalanceKey(p, a, d)] \in K!Ciphertext
      BY <2>1, <2>2, StoredValues, DenomAssumption DEF StoredDenoms, BalanceValues
    <3> QED
      BY <3>1, <3>2 DEF BalancesValid
  <2>3. /\ BalancesValid(Entries(BalanceKey(availableBalancePrefix, a, <<>>)))
        /\ BalancesValid(Entries(BalanceKey(pendingBalancePrefix, a, <<>>)))
    BY <2>2, PrefixesDiffer DEF balancePrefixes
  <2> QED
    BY <2>1, <2>3, KeyNames DEF ExportAccount
<1>3. \A a, b \in Registered :
        ExportAccount(a).Address = ExportAccount(b).Address => a = b
  BY DEF ExportAccount, Bech32
<1> QED
  BY <1>1, <1>2, <1>3, AccountsOf DEF Validate

(***************************************************************************)
(* Writes                                                                   *)
(***************************************************************************)

(* What is read of a store after writes of different keys to it.            *)
LEMMA WrittenReads ==
    ASSUME NEW writes, store' = Written(writes, store),
           \A w \in writes : w = <<w[1], w[2]>>,
           \A v, w \in writes : v[1] = w[1] => v = w
    PROVE  /\ DOMAIN store' = {w[1] : w \in writes} \cup DOMAIN store
           /\ store' = [key \in DOMAIN store' |-> store'[key]]
           /\ \A w \in writes : store'[w[1]] = w[2]
           /\ \A key \in DOMAIN store : (\A w \in writes : w[1] # key) => store'[key] = store[key]
<1> DEFINE keys == {w[1] : w \in writes}
           value(key) == (CHOOSE w \in writes : w[1] = key)[2]
<1>1. store' = [key \in keys \cup DOMAIN store |->
                  IF key \in keys THEN value(key) ELSE store[key]]
  BY DEF Written
<1>2. \A w \in writes : w[1] \in keys /\ value(w[1]) = w[2]
  OBVIOUS
<1>3. \A key : key \in keys <=> \E w \in writes : w[1] = key
  OBVIOUS
<1> HIDE DEF keys, value
<1>4. DOMAIN store' = keys \cup DOMAIN store
  BY <1>1
<1>5. \A w \in writes : store'[w[1]] = w[2]
  BY <1>1, <1>2
<1>6. \A key \in DOMAIN store : (\A w \in writes : w[1] # key) => store'[key] = store[key]
  BY <1>1, <1>3
<1>7. store' = [key \in DOMAIN store' |-> store'[key]]
  BY <1>1, <1>4
<1> QED
  BY <1>4, <1>5, <1>6, <1>7 DEF keys

(* Writes a handler may make: values of the kind of their key, balances of  *)
(* registered accounts, no key twice.                                       *)
GoodWrites(writes) ==
    /\ \A w \in writes : w = <<w[1], w[2]>> /\ MayHold(w[1], w[2])
    /\ \A v, w \in writes : v[1] = w[1] => v = w
    /\ \A p \in balancePrefixes, a \in Accounts, d \in Denoms, w \in writes :
         w[1] = BalanceKey(p, a, d) => AccountPubkeyKey(a) \in DOMAIN store

LEMMA GoodWritesKeep ==
    ASSUME StoreInv, NEW writes, GoodWrites(writes), store' = Written(writes, store)
    PROVE  StoreInv'
<1>1. /\ DOMAIN store' = {w[1] : w \in writes} \cup DOMAIN store
      /\ store' = [key \in DOMAIN store' |-> store'[key]]
      /\ \A w \in writes : store'[w[1]] = w[2]
      /\ \A key \in DOMAIN store : (\A w \in writes : w[1] # key) => store'[key] = store[key]
  BY WrittenReads DEF GoodWrites
<1>2. ASSUME NEW key \in DOMAIN store'
      PROVE  MayHold(key, store'[key])
  <2>1. CASE \E w \in writes : w[1] = key
    BY <1>1, <2>1 DEF GoodWrites
  <2>2. CASE \A w \in writes : w[1] # key
    BY <1>1, <2>2 DEF StoreInv
  <2> QED
    BY <2>1, <2>2
<1>3. ParamsKey \in DOMAIN store'
  BY <1>1 DEF StoreInv
<1>4. ASSUME NEW p \in balancePrefixes, NEW a \in Accounts, NEW d \in Denoms,
             BalanceKey(p, a, d) \in DOMAIN store'
      PROVE  AccountPubkeyKey(a) \in DOMAIN store'
  BY <1>1, <1>4 DEF GoodWrites, StoreInv
<1> QED
  BY <1>1, <1>2, <1>3, <1>4 DEF StoreInv

(* Reads after good writes. *)
LEMMA GoodWritesRead ==
    ASSUME NEW writes, GoodWrites(writes), store' = Written(writes, store)
    PROVE  /\ \A w \in writes : Get(w[1])' = w[2]
           /\ \A key : (\A w \in writes : w[1] # key) => Get(key)' = Get(key)
<1>1. /\ DOMAIN store' = {w[1] : w \in writes} \cup DOMAIN store
      /\ \A w \in writes : store'[w[1]] = w[2]
      /\ \A key \in DOMAIN store : (\A w \in writes : w[1] # key) => store'[key] = store[key]
  BY WrittenReads DEF GoodWrites
<1>2. \A w \in writes : w[1] \in DOMAIN store'
  BY <1>1
<1>3. \A key : (\A w \in writes : w[1] # key) => (key \in DOMAIN store' <=> key \in DOMAIN store)
  BY <1>1
<1> QED
  BY <1>1, <1>2, <1>3 DEF Get

(* The sums and differences that are written are ciphertexts.               *)
LEMMA ScalarTypes ==
    /\ 0 \in K!Field
    /\ \A x, y \in K!Field : K!FieldAdd(x, y) \in K!Field /\ K!FieldSub(x, y) \in K!Field
  BY ScalarsAssumption DEF K!Field, K!FieldAdd, K!FieldSub

LEMMA CanonicalType ==
    \A k \in Keys \cup {AnyKey, Garbled}, v, r \in K!Field :
        K!Canonical(k, v, r) \in K!Ciphertext
  BY DEF K!Canonical, K!Ciphertext

LEMMA CiphertextsWritten ==
    /\ \A stored \in K!Ciphertext \cup {Nil}, ct \in K!Ciphertext :
         /\ K!addCiphertexts(stored, ct) \in K!Ciphertext
         /\ K!subCiphertexts(stored, ct) \in K!Ciphertext
    /\ \A pk \in Keys, r \in K!Field : K!EncryptWithRandomness(0, pk, r) \in K!Ciphertext
<1>1. \A stored \in K!Ciphertext \cup {Nil} : K!unmarshalOrZero(stored) \in K!Ciphertext
  BY ScalarTypes DEF K!unmarshalOrZero, K!Ciphertext
<1>2. ASSUME NEW a \in K!Ciphertext, NEW b \in K!Ciphertext
      PROVE  K!Add(a, b) \in K!Ciphertext /\ K!Sub(a, b) \in K!Ciphertext
  <2>1. K!CommonKey(a, b) \in Keys \cup {AnyKey, Garbled}
    BY DEF K!CommonKey, K!Ciphertext
  <2>2. /\ K!FieldAdd(a.v, b.v) \in K!Field /\ K!FieldAdd(a.r, b.r) \in K!Field
        /\ K!FieldSub(a.v, b.v) \in K!Field /\ K!FieldSub(a.r, b.r) \in K!Field
    BY ScalarTypes DEF K!Ciphertext
  <2>3. K!Add(a, b) \in K!Ciphertext
    BY <2>1, <2>2, CanonicalType, ZenonT(60) DEF K!Add
  <2>4. K!Sub(a, b) \in K!Ciphertext
    BY <2>1, <2>2, CanonicalType, ZenonT(60) DEF K!Sub
  <2> QED
    BY <2>3, <2>4
<1>3. \A pk \in Keys, r \in K!Field : K!EncryptWithRandomness(0, pk, r) \in K!Ciphertext
  BY ScalarTypes, CanonicalType DEF K!EncryptWithRandomness
<1> QED
  BY <1>1, <1>2, <1>3 DEF K!addCiphertexts, K!subCiphertexts

(***************************************************************************)
(* The handlers                                                             *)
(***************************************************************************)

(* The accessors, over all accounts and denominations.                      *)
Pubkeys == [a \in Accounts |-> GetAccountPubkey(a)]
Availables == [a \in Accounts |-> [d \in Denoms |-> GetAvailableBalance(a, d)]]
Pendings == [a \in Accounts |-> [d \in Denoms |-> GetPendingBalance(a, d)]]
Flags == [a \in Accounts |-> [d \in Denoms |-> GetPendingIsZero(a, d)]]

(* Writing no key of a kind changes no answer of that kind.                 *)
LEMMA KindUnwritten ==
    ASSUME NEW writes, GoodWrites(writes), store' = Written(writes, store)
    PROVE  /\ (\A w \in writes : w[1] # ParamsKey) => GetParams' = GetParams
           /\ (\A w \in writes, a \in Accounts : w[1] # AccountPubkeyKey(a)) => Pubkeys' = Pubkeys
           /\ (\A w \in writes, a \in Accounts, d \in Denoms :
                 w[1] # BalanceKey(availableBalancePrefix, a, d)) => Availables' = Availables
           /\ (\A w \in writes, a \in Accounts, d \in Denoms :
                 w[1] # BalanceKey(pendingBalancePrefix, a, d)) => Pendings' = Pendings
           /\ (\A w \in writes, a \in Accounts, d \in Denoms :
                 w[1] # BalanceKey(pendingIsZeroPrefix, a, d)) => Flags' = Flags
<1>1. \A key : (\A w \in writes : w[1] # key) => Get(key)' = Get(key)
  BY GoodWritesRead
<1>2. (\A w \in writes : w[1] # ParamsKey) => GetParams' = GetParams
  BY <1>1 DEF GetParams
<1>3. (\A w \in writes, a \in Accounts : w[1] # AccountPubkeyKey(a)) => Pubkeys' = Pubkeys
  BY <1>1 DEF Pubkeys, GetAccountPubkey
<1>4. (\A w \in writes, a \in Accounts, d \in Denoms :
         w[1] # BalanceKey(availableBalancePrefix, a, d)) => Availables' = Availables
  BY <1>1, KeyNames DEF Availables, GetAvailableBalance
<1>5. (\A w \in writes, a \in Accounts, d \in Denoms :
         w[1] # BalanceKey(pendingBalancePrefix, a, d)) => Pendings' = Pendings
  BY <1>1, KeyNames DEF Pendings, GetPendingBalance
<1>6. (\A w \in writes, a \in Accounts, d \in Denoms :
         w[1] # BalanceKey(pendingIsZeroPrefix, a, d)) => Flags' = Flags
  BY <1>1, KeyNames DEF Flags, GetPendingIsZero
<1> QED
  BY <1>2, <1>3, <1>4, <1>5, <1>6

(* Keys of one kind are those of one account and denomination.              *)
LEMMA SameKind ==
    \A p \in balancePrefixes, a, b \in Accounts, d, e \in Denoms :
        BalanceKey(p, a, d) = BalanceKey(p, b, e) <=> a = b /\ d = e
<1>1. balancePrefixes \subseteq prefixes /\ \A d \in Denoms : d \in Strings(Chunks)
  BY ByteStrings DEF prefixes
<1> QED
  BY <1>1, BalanceKeyInjective

LEMMA OtherKind ==
    \A p, q \in balancePrefixes, a, b \in Accounts, d, e \in Denoms :
        p # q => BalanceKey(p, a, d) # BalanceKey(q, b, e)
<1>1. balancePrefixes \subseteq prefixes /\ \A d \in Denoms : d \in Strings(Chunks)
  BY ByteStrings DEF prefixes
<1> QED
  BY <1>1, BalanceKeyInjective

LEMMA BalanceKinds ==
    /\ availableBalancePrefix \in balancePrefixes
    /\ pendingBalancePrefix \in balancePrefixes
    /\ pendingIsZeroPrefix \in balancePrefixes
    /\ BalanceValues(availableBalancePrefix) = K!Ciphertext
    /\ BalanceValues(pendingBalancePrefix) = K!Ciphertext
    /\ BalanceValues(pendingIsZeroPrefix) = {<<0>>, <<1>>}
  BY PrefixesDiffer DEF balancePrefixes, BalanceValues

(* Writing one available balance.                                           *)
LEMMA AvailableWritten ==
    ASSUME StoreInv, NEW a \in Accounts, NEW d \in Denoms, NEW ct \in K!Ciphertext,
           GetAccountPubkey(a) # Nil,
           store' = Written(Put(AvailableBalanceKey(a, d), ct), store)
    PROVE  /\ StoreInv'
           /\ Availables' = [Availables EXCEPT ![a][d] = ct]
           /\ Pubkeys' = Pubkeys /\ Pendings' = Pendings /\ Flags' = Flags
           /\ GetParams' = GetParams
<1> DEFINE key == BalanceKey(availableBalancePrefix, a, d)
           writes == Put(AvailableBalanceKey(a, d), ct)
<1>1. writes = {<<key, ct>>}
  BY KeyNames DEF Put
<1>2. GoodWrites(writes)
  <2>1. MayHold(key, ct)
    BY BalanceKinds DEF MayHold
  <2>2. AccountPubkeyKey(a) \in DOMAIN store
    BY StoredValues
  <2>3. \A p \in balancePrefixes, b \in Accounts, e \in Denoms :
          key = BalanceKey(p, b, e) => b = a
    BY SameKind, OtherKind, BalanceKinds
  <2> HIDE DEF key
  <2> QED
    BY <1>1, <2>1, <2>2, <2>3 DEF GoodWrites
<1>3. StoreInv'
  BY <1>2, GoodWritesKeep
<1>4. /\ \A w \in writes : Get(w[1])' = w[2]
      /\ \A k : (\A w \in writes : w[1] # k) => Get(k)' = Get(k)
  BY <1>2, GoodWritesRead
<1>5. \A w \in writes : w[1] = key
  BY <1>1
<1>6. Get(key)' = ct /\ \A k : k # key => Get(k)' = Get(k)
  <2> HIDE DEF key, writes
  <2>1. <<key, ct>> \in writes /\ <<key, ct>>[1] = key /\ <<key, ct>>[2] = ct
    BY <1>1
  <2>2. Get(key)' = ct
    BY <1>4, <2>1
  <2> QED
    BY <1>4, <1>5, <2>2
<1>7. Availables' = [Availables EXCEPT ![a][d] = ct]
  <2>1. \A b \in Accounts, e \in Denoms :
          GetAvailableBalance(b, e)' = IF b = a /\ e = d THEN ct ELSE GetAvailableBalance(b, e)
    BY <1>6, KeyNames, SameKind, BalanceKinds DEF GetAvailableBalance
  <2> QED
    BY <2>1 DEF Availables
<1>8. /\ key # ParamsKey
      /\ \A b \in Accounts : key # AccountPubkeyKey(b)
      /\ \A b \in Accounts, e \in Denoms :
           key # BalanceKey(pendingBalancePrefix, b, e) /\ key # BalanceKey(pendingIsZeroPrefix, b, e)
  BY KindsDiffer, OtherKind, BalanceKinds, PrefixesDiffer
<1> HIDE DEF key, writes
<1>9. /\ Pubkeys' = Pubkeys /\ Pendings' = Pendings /\ Flags' = Flags
      /\ GetParams' = GetParams
  BY <1>2, <1>5, <1>8, KindUnwritten DEF writes
<1> QED
  BY <1>3, <1>7, <1>9

(* Writing an available balance, and a pending balance with its flag.       *)
LEMMA BalancesWritten ==
    ASSUME StoreInv, NEW a \in Accounts, NEW b \in Accounts, NEW d \in Denoms,
           NEW x \in K!Ciphertext, NEW y \in K!Ciphertext, NEW z \in BOOLEAN,
           GetAccountPubkey(a) # Nil, GetAccountPubkey(b) # Nil,
           store' = Written(Put(AvailableBalanceKey(a, d), x)
                            \cup Put(PendingBalanceKey(b, d), y)
                            \cup SetPendingIsZero(b, d, z), store)
    PROVE  /\ StoreInv'
           /\ Availables' = [Availables EXCEPT ![a][d] = x]
           /\ Pendings' = [Pendings EXCEPT ![b][d] = y]
           /\ Flags' = [Flags EXCEPT ![b][d] = z]
           /\ Pubkeys' = Pubkeys
           /\ GetParams' = GetParams
<1> DEFINE ak == BalanceKey(availableBalancePrefix, a, d)
           pk == BalanceKey(pendingBalancePrefix, b, d)
           zk == BalanceKey(pendingIsZeroPrefix, b, d)
           writes == Put(AvailableBalanceKey(a, d), x) \cup Put(PendingBalanceKey(b, d), y)
                     \cup SetPendingIsZero(b, d, z)
<1>1. writes = {<<ak, x>>, <<pk, y>>, <<zk, FlagByte(z)>>}
  BY KeyNames DEF Put, SetPendingIsZero
<1>2. ak # pk /\ ak # zk /\ pk # zk
  BY OtherKind, BalanceKinds, PrefixesDiffer
<1>3. FlagByte(z) \in {<<0>>, <<1>>} /\ (FlagByte(z) = <<1>> <=> z)
  BY DEF FlagByte
<1>4. GoodWrites(writes)
  <2>1. MayHold(ak, x) /\ MayHold(pk, y) /\ MayHold(zk, FlagByte(z))
    BY <1>3, BalanceKinds DEF MayHold
  <2>2. AccountPubkeyKey(a) \in DOMAIN store /\ AccountPubkeyKey(b) \in DOMAIN store
    BY StoredValues
  <2>3. \A p \in balancePrefixes, c \in Accounts, e \in Denoms :
          BalanceKey(p, c, e) \in {ak, pk, zk} => c \in {a, b}
    BY SameKind, OtherKind, BalanceKinds
  <2> HIDE DEF ak, pk, zk
  <2>4. /\ \A w \in writes : w = <<w[1], w[2]>> /\ MayHold(w[1], w[2]) /\ w[1] \in {ak, pk, zk}
        /\ \A v, w \in writes : v[1] = w[1] => v = w
    BY <1>1, <1>2, <2>1
  <2> HIDE DEF writes
  <2> QED
    BY <2>2, <2>3, <2>4 DEF GoodWrites
<1>5. StoreInv'
  BY <1>4, GoodWritesKeep
<1>6. \A w \in writes : w[1] \in {ak, pk, zk}
  BY <1>1
<1>7. /\ Get(ak)' = x /\ Get(pk)' = y /\ Get(zk)' = FlagByte(z)
      /\ \A k : k \notin {ak, pk, zk} => Get(k)' = Get(k)
  <2> HIDE DEF ak, pk, zk, writes
  <2>1. /\ \A w \in writes : Get(w[1])' = w[2]
        /\ \A k : (\A w \in writes : w[1] # k) => Get(k)' = Get(k)
    BY <1>4, GoodWritesRead DEF writes
  <2>2. /\ <<ak, x>>[1] = ak /\ <<ak, x>>[2] = x
        /\ <<pk, y>>[1] = pk /\ <<pk, y>>[2] = y
        /\ <<zk, FlagByte(z)>>[1] = zk /\ <<zk, FlagByte(z)>>[2] = FlagByte(z)
    OBVIOUS
  <2>3. <<ak, x>> \in writes /\ <<pk, y>> \in writes /\ <<zk, FlagByte(z)>> \in writes
    BY <1>1
  <2>4. Get(ak)' = x
    BY <2>1, <2>2, <2>3
  <2>5. Get(pk)' = y
    BY <2>1, <2>2, <2>3
  <2>6. Get(zk)' = FlagByte(z)
    BY <2>1, <2>2, <2>3
  <2> QED
    BY <1>6, <2>1, <2>4, <2>5, <2>6
<1>8. Availables' = [Availables EXCEPT ![a][d] = x]
  <2>1. \A c \in Accounts, e \in Denoms :
          GetAvailableBalance(c, e)' = IF c = a /\ e = d THEN x ELSE GetAvailableBalance(c, e)
    BY <1>7, KeyNames, SameKind, OtherKind, BalanceKinds, PrefixesDiffer DEF GetAvailableBalance
  <2> QED
    BY <2>1 DEF Availables
<1>9. Pendings' = [Pendings EXCEPT ![b][d] = y]
  <2>1. \A c \in Accounts, e \in Denoms :
          GetPendingBalance(c, e)' = IF c = b /\ e = d THEN y ELSE GetPendingBalance(c, e)
    BY <1>7, KeyNames, SameKind, OtherKind, BalanceKinds, PrefixesDiffer DEF GetPendingBalance
  <2> QED
    BY <2>1 DEF Pendings
<1>10. Flags' = [Flags EXCEPT ![b][d] = z]
  <2>1. \A c \in Accounts, e \in Denoms :
          Get(PendingIsZeroKey(c, e))'
            = IF c = b /\ e = d THEN FlagByte(z) ELSE Get(PendingIsZeroKey(c, e))
    BY <1>7, KeyNames, SameKind, OtherKind, BalanceKinds, PrefixesDiffer
  <2>2. \A c \in Accounts, e \in Denoms :
          GetPendingIsZero(c, e)' = IF c = b /\ e = d THEN z ELSE GetPendingIsZero(c, e)
    BY <1>3, <2>1 DEF GetPendingIsZero
  <2> QED
    BY <2>2 DEF Flags
<1>11. /\ ParamsKey \notin {ak, pk, zk}
       /\ \A c \in Accounts : AccountPubkeyKey(c) \notin {ak, pk, zk}
  BY KindsDiffer, BalanceKinds
<1> HIDE DEF ak, pk, zk, writes
<1>12. Pubkeys' = Pubkeys /\ GetParams' = GetParams
  BY <1>4, <1>6, <1>11, KindUnwritten DEF writes
<1> QED
  BY <1>5, <1>8, <1>9, <1>10, <1>12

(* Writing the key of an account.                                           *)
LEMMA PubkeyWritten ==
    ASSUME StoreInv, NEW a \in Accounts, NEW k \in Keys,
           store' = Written(Put(AccountPubkeyKey(a), k), store)
    PROVE  /\ StoreInv'
           /\ Pubkeys' = [Pubkeys EXCEPT ![a] = k]
           /\ Availables' = Availables /\ Pendings' = Pendings /\ Flags' = Flags
           /\ GetParams' = GetParams
<1> DEFINE key == AccountPubkeyKey(a)
           writes == Put(AccountPubkeyKey(a), k)
<1>1. writes = {<<key, k>>}
  BY DEF Put
<1>2. \A p \in balancePrefixes, b \in Accounts, e \in Denoms : key # BalanceKey(p, b, e)
  BY KindsDiffer
<1>3. key # ParamsKey
  BY KindsDiffer
<1>4. GoodWrites(writes)
  <2>1. MayHold(key, k)
    BY DEF MayHold
  <2> HIDE DEF key
  <2> QED
    BY <1>1, <1>2, <2>1 DEF GoodWrites
<1>5. StoreInv'
  BY <1>4, GoodWritesKeep
<1>6. \A w \in writes : w[1] = key
  BY <1>1
<1>7. Get(key)' = k /\ \A j : j # key => Get(j)' = Get(j)
  <2> HIDE DEF key, writes
  <2>1. /\ \A w \in writes : Get(w[1])' = w[2]
        /\ \A j : (\A w \in writes : w[1] # j) => Get(j)' = Get(j)
    BY <1>4, GoodWritesRead DEF writes
  <2>2. <<key, k>> \in writes /\ <<key, k>>[1] = key /\ <<key, k>>[2] = k
    BY <1>1
  <2> QED
    BY <1>6, <2>1, <2>2
<1>8. Pubkeys' = [Pubkeys EXCEPT ![a] = k]
  <2>1. \A b \in Accounts : GetAccountPubkey(b)' = IF b = a THEN k ELSE GetAccountPubkey(b)
    BY <1>7, PubkeyKeyInjective DEF GetAccountPubkey
  <2> QED
    BY <2>1 DEF Pubkeys
<1> HIDE DEF key, writes
<1>9. /\ Availables' = Availables /\ Pendings' = Pendings /\ Flags' = Flags
      /\ GetParams' = GetParams
  BY <1>2, <1>3, <1>4, <1>6, KindUnwritten, BalanceKinds DEF writes
<1> QED
  BY <1>5, <1>8, <1>9

(* Writing the parameters.                                                  *)
LEMMA ParamsWritten ==
    ASSUME StoreInv, NEW params \in ParamsValues,
           store' = Written(Put(ParamsKey, params), store)
    PROVE  /\ StoreInv'
           /\ GetParams' = params
           /\ Pubkeys' = Pubkeys
           /\ Availables' = Availables /\ Pendings' = Pendings /\ Flags' = Flags
<1> DEFINE writes == Put(ParamsKey, params)
<1>1. writes = {<<ParamsKey, params>>}
  BY DEF Put
<1>2. /\ \A a \in Accounts : ParamsKey # AccountPubkeyKey(a)
      /\ \A p \in balancePrefixes, b \in Accounts, e \in Denoms : ParamsKey # BalanceKey(p, b, e)
  BY KindsDiffer
<1>3. GoodWrites(writes)
  <2>1. MayHold(ParamsKey, params)
    BY DEF MayHold
  <2> QED
    BY <1>1, <1>2, <2>1 DEF GoodWrites
<1>4. StoreInv'
  BY <1>3, GoodWritesKeep
<1>5. \A w \in writes : w[1] = ParamsKey
  BY <1>1
<1>6. Get(ParamsKey)' = params
  <2> HIDE DEF writes
  <2>1. \A w \in writes : Get(w[1])' = w[2]
    BY <1>3, GoodWritesRead DEF writes
  <2>2. /\ <<ParamsKey, params>> \in writes
        /\ <<ParamsKey, params>>[1] = ParamsKey /\ <<ParamsKey, params>>[2] = params
    BY <1>1
  <2> QED
    BY <2>1, <2>2
<1>7. GetParams' = params
  BY <1>6, StoredAssumption DEF GetParams, ParamsValues
<1> HIDE DEF writes
<1>8. Pubkeys' = Pubkeys /\ Availables' = Availables /\ Pendings' = Pendings /\ Flags' = Flags
  BY <1>2, <1>3, <1>5, KindUnwritten, BalanceKinds DEF writes
<1> QED
  BY <1>4, <1>7, <1>8

(* What the handlers read.                                                  *)
LEMMA BalancesRead ==
    ASSUME StoreInv, NEW a \in Accounts, NEW d \in Denoms
    PROVE  /\ GetAvailableBalance(a, d) \in K!Ciphertext \cup {Nil}
           /\ GetPendingBalance(a, d) \in K!Ciphertext \cup {Nil}
           /\ GetAccountPubkey(a) # Nil => GetAccountPubkey(a) \in Keys
           /\ K!HasRegisteredKey(a) <=> GetAccountPubkey(a) # Nil
<1>1. \A p \in balancePrefixes :
        Get(BalanceKey(p, a, d)) # Nil => Get(BalanceKey(p, a, d)) \in BalanceValues(p)
  BY StoredValues DEF Get
<1>2. /\ GetAvailableBalance(a, d) \in K!Ciphertext \cup {Nil}
      /\ GetPendingBalance(a, d) \in K!Ciphertext \cup {Nil}
  BY <1>1, BalanceKinds, KeyNames DEF GetAvailableBalance, GetPendingBalance
<1>3. GetAccountPubkey(a) # Nil => GetAccountPubkey(a) \in Keys
  BY StoredValues
<1>4. K!HasRegisteredKey(a) <=> GetAccountPubkey(a) # Nil
  BY DEF K!HasRegisteredKey
<1> QED
  BY <1>2, <1>3, <1>4

LEMMA RegisterKeyStep ==
    ASSUME StoreInv, NEW m \in K!RegisterKeyMsgs, RegisterKey(m)
    PROVE  StoreInv' /\ K!RegisterKey(m)
<1>1. m \in Messages /\ m.type = "RegisterKey" /\ m.sender \in Accounts
  BY DEF K!RegisterKeyMsgs, K!RegisterKeyMsg
<1>2. /\ K!RegisterVerified(m) /\ m.pubkey \in Keys
      /\ store' = Written(Put(AccountPubkeyKey(m.sender), m.pubkey), store)
      /\ event' = [type |-> "register_key"] /\ UNCHANGED <<bank, escrow>>
  BY DEF RegisterKey, Write, K!RegisterVerified
<1>3. /\ StoreInv'
      /\ Pubkeys' = [Pubkeys EXCEPT ![m.sender] = m.pubkey]
      /\ Availables' = Availables /\ Pendings' = Pendings /\ Flags' = Flags
      /\ GetParams' = GetParams
  BY <1>1, <1>2, PubkeyWritten
<1> QED
  BY <1>1, <1>2, <1>3
     DEF K!RegisterKey, K!coins, K!balances, Pubkeys, Availables, Pendings, Flags

LEMMA ShieldStep ==
    ASSUME StoreInv, NEW m \in K!ShieldMsgs, Shield(m)
    PROVE  StoreInv' /\ K!Shield(m)
<1>1. /\ m \in Messages /\ m.type = "Shield" /\ m.sender \in Accounts /\ m.denom \in Denoms
      /\ m.ciphertext \in K!Ciphertext
  BY DEF K!ShieldMsgs, K!ShieldMsg
<1> DEFINE ct == K!addCiphertexts(GetAvailableBalance(m.sender, m.denom), m.ciphertext)
<1>2. /\ K!ShieldVerified(m)
      /\ bank' = [bank EXCEPT ![m.sender][m.denom] = @ - m.amount]
      /\ escrow' = [escrow EXCEPT ![m.denom] = @ + m.amount]
      /\ store' = Written(Put(AvailableBalanceKey(m.sender, m.denom), ct), store)
      /\ event' = [type |-> "shield"]
  BY DEF Shield, Write
<1>3. GetAccountPubkey(m.sender) # Nil
  BY <1>1, <1>2, BalancesRead DEF K!ShieldVerified
<1>4. ct \in K!Ciphertext
  BY <1>1, BalancesRead, CiphertextsWritten
<1>5. /\ StoreInv'
      /\ Availables' = [Availables EXCEPT ![m.sender][m.denom] = ct]
      /\ Pubkeys' = Pubkeys /\ Pendings' = Pendings /\ Flags' = Flags
      /\ GetParams' = GetParams
  BY <1>1, <1>2, <1>3, <1>4, AvailableWritten
<1>6. Availables[m.sender][m.denom] = GetAvailableBalance(m.sender, m.denom)
  BY <1>1 DEF Availables
<1> QED
  BY <1>1, <1>2, <1>5, <1>6
     DEF K!Shield, Pubkeys, Availables, Pendings, Flags

LEMMA SendStep ==
    ASSUME StoreInv, NEW m \in K!SendMsgs, ConfidentialSend(m)
    PROVE  StoreInv' /\ K!ConfidentialSend(m)
<1>1. /\ m \in Messages /\ m.type = "ConfidentialSend" /\ m.denom \in Denoms
      /\ m.sender \in Accounts /\ m.receiver \in Accounts
      /\ m.senderUpdate \in K!Ciphertext /\ m.receiverUpdate \in K!Ciphertext
  BY DEF K!SendMsgs, K!ConfidentialSendMsg
<1> DEFINE debited == K!subCiphertexts(GetAvailableBalance(m.sender, m.denom), m.senderUpdate)
           credited == K!addCiphertexts(GetPendingBalance(m.receiver, m.denom), m.receiverUpdate)
<1>2. /\ K!SendVerified(m)
      /\ store' = Written(Put(AvailableBalanceKey(m.sender, m.denom), debited)
                          \cup Put(PendingBalanceKey(m.receiver, m.denom), credited)
                          \cup SetPendingIsZero(m.receiver, m.denom, FALSE), store)
      /\ event' = [type |-> "confidential_send", auditor_ciphertext |-> m.auditorUpdate]
      /\ UNCHANGED <<bank, escrow>>
  BY DEF ConfidentialSend
<1>3. GetAccountPubkey(m.sender) # Nil /\ GetAccountPubkey(m.receiver) # Nil
  BY <1>1, <1>2, BalancesRead DEF K!SendVerified
<1>4. debited \in K!Ciphertext /\ credited \in K!Ciphertext
  BY <1>1, BalancesRead, CiphertextsWritten
<1>5. /\ StoreInv'
      /\ Availables' = [Availables EXCEPT ![m.sender][m.denom] = debited]
      /\ Pendings' = [Pendings EXCEPT ![m.receiver][m.denom] = credited]
      /\ Flags' = [Flags EXCEPT ![m.receiver][m.denom] = FALSE]
      /\ Pubkeys' = Pubkeys
      /\ GetParams' = GetParams
  BY <1>1, <1>2, <1>3, <1>4, BalancesWritten
<1>6. /\ Availables[m.sender][m.denom] = GetAvailableBalance(m.sender, m.denom)
      /\ Pendings[m.receiver][m.denom] = GetPendingBalance(m.receiver, m.denom)
  BY <1>1 DEF Availables, Pendings
<1> QED
  BY <1>1, <1>2, <1>5, <1>6
     DEF K!ConfidentialSend, K!coins, Pubkeys, Availables, Pendings, Flags

LEMMA ApplyPendingStep ==
    ASSUME StoreInv, NEW m \in K!ApplyPendingMsgs, ApplyPending(m)
    PROVE  StoreInv' /\ K!ApplyPending(m)
<1>1. /\ m \in Messages /\ m.type = "ApplyPending" /\ m.denom \in Denoms
      /\ m.sender \in Accounts /\ m.newAvailableUpdate \in K!Ciphertext
  BY DEF K!ApplyPendingMsgs, K!ApplyPendingMsg
<1> DEFINE credited == K!addCiphertexts(GetAvailableBalance(m.sender, m.denom),
                                        m.newAvailableUpdate)
           zero(r) == K!EncryptWithRandomness(0, GetAccountPubkey(m.sender), r)
<1>2. /\ K!ApplyVerified(m)
      /\ event' = [type |-> "apply_pending"] /\ UNCHANGED <<bank, escrow>>
  BY DEF ApplyPending, Write
<1>3. PICK r \in ResetRandomness :
        store' = Written(Put(AvailableBalanceKey(m.sender, m.denom), credited)
                         \cup Put(PendingBalanceKey(m.sender, m.denom), zero(r))
                         \cup SetPendingIsZero(m.sender, m.denom, TRUE), store)
  BY DEF ApplyPending, Write
<1>4. GetAccountPubkey(m.sender) # Nil /\ GetAccountPubkey(m.sender) \in Keys
  BY <1>1, <1>2, BalancesRead DEF K!ApplyVerified
<1>5. credited \in K!Ciphertext /\ zero(r) \in K!Ciphertext
  BY <1>1, <1>4, BalancesRead, CiphertextsWritten, ScalarsAssumption
<1>6. /\ StoreInv'
      /\ Availables' = [Availables EXCEPT ![m.sender][m.denom] = credited]
      /\ Pendings' = [Pendings EXCEPT ![m.sender][m.denom] = zero(r)]
      /\ Flags' = [Flags EXCEPT ![m.sender][m.denom] = TRUE]
      /\ Pubkeys' = Pubkeys
      /\ GetParams' = GetParams
  BY <1>1, <1>3, <1>4, <1>5, BalancesWritten
<1>7. /\ Availables[m.sender][m.denom] = GetAvailableBalance(m.sender, m.denom)
      /\ Pubkeys[m.sender] = GetAccountPubkey(m.sender)
  BY <1>1 DEF Availables, Pubkeys
<1> QED
  BY <1>1, <1>2, <1>6, <1>7
     DEF K!ApplyPending, K!coins, Pubkeys, Availables, Pendings, Flags

LEMMA UnshieldStep ==
    ASSUME StoreInv, NEW m \in K!UnshieldMsgs, Unshield(m)
    PROVE  StoreInv' /\ K!Unshield(m)
<1>1. /\ m \in Messages /\ m.type = "Unshield" /\ m.sender \in Accounts /\ m.denom \in Denoms
      /\ m.ciphertext \in K!Ciphertext
  BY DEF K!UnshieldMsgs, K!UnshieldMsg
<1> DEFINE ct == K!subCiphertexts(GetAvailableBalance(m.sender, m.denom), m.ciphertext)
<1>2. /\ K!UnshieldVerified(m) /\ m.amount <= escrow[m.denom]
      /\ escrow' = [escrow EXCEPT ![m.denom] = @ - m.amount]
      /\ bank' = [bank EXCEPT ![m.sender][m.denom] = @ + m.amount]
      /\ store' = Written(Put(AvailableBalanceKey(m.sender, m.denom), ct), store)
      /\ event' = [type |-> "unshield"]
  BY DEF Unshield, Write
<1>3. GetAccountPubkey(m.sender) # Nil
  BY <1>1, <1>2, BalancesRead DEF K!UnshieldVerified
<1>4. ct \in K!Ciphertext
  BY <1>1, BalancesRead, CiphertextsWritten
<1>5. /\ StoreInv'
      /\ Availables' = [Availables EXCEPT ![m.sender][m.denom] = ct]
      /\ Pubkeys' = Pubkeys /\ Pendings' = Pendings /\ Flags' = Flags
      /\ GetParams' = GetParams
  BY <1>1, <1>2, <1>3, <1>4, AvailableWritten
<1>6. Availables[m.sender][m.denom] = GetAvailableBalance(m.sender, m.denom)
  BY <1>1 DEF Availables
<1> QED
  BY <1>1, <1>2, <1>5, <1>6
     DEF K!Unshield, Pubkeys, Availables, Pendings, Flags

LEMMA SetAuditorKeyStep ==
    ASSUME StoreInv, NEW m \in K!SetAuditorKeyMsgs, SetAuditorKey(m)
    PROVE  StoreInv' /\ K!SetAuditorKey(m)
<1>1. m \in Messages /\ m.type = "SetAuditorKey"
  BY DEF K!SetAuditorKeyMsgs, K!SetAuditorKeyMsg
<1> DEFINE params == [GetParams EXCEPT !.AuditorPubKey = m.pubkey]
<1>2. /\ K!SetAuditorVerified(m) /\ m.pubkey \in Keys
      /\ store' = Written(Put(ParamsKey, params), store)
      /\ event' = [type |-> "set_auditor_key"] /\ UNCHANGED <<bank, escrow>>
  BY DEF SetAuditorKey, Write, K!SetAuditorVerified
<1>3. params \in ParamsValues /\ params.AuditorPubKey = m.pubkey
  <2>1. GetParams \in ParamsValues
    BY StoredValues
  <2> QED
    BY <1>2, <2>1 DEF ParamsValues
<1>4. /\ StoreInv'
      /\ GetParams' = params
      /\ Pubkeys' = Pubkeys
      /\ Availables' = Availables /\ Pendings' = Pendings /\ Flags' = Flags
  BY <1>2, <1>3, ParamsWritten
<1> QED
  BY <1>1, <1>2, <1>3, <1>4
     DEF K!SetAuditorKey, K!coins, K!balances, Pubkeys, Availables, Pendings, Flags

(* A restart through a file changes nothing at all. *)
LEMMA RestartStep ==
    ASSUME StoreInv, Restart
    PROVE  UNCHANGED storeVars
<1>1. InitGenesis(ExportGenesis) = store
  BY ImportRestores DEF ExportRoundTrips
<1> QED
  BY <1>1 DEF Restart, storeVars

LEMMA NothingChanges ==
    ASSUME StoreInv, UNCHANGED storeVars
    PROVE  StoreInv' /\ UNCHANGED K!vars
<1>1. store' = store /\ bank' = bank /\ escrow' = escrow /\ event' = event
  BY DEF storeVars
<1>2. StoreInv'
  BY <1>1 DEF StoreInv
<1>3. UNCHANGED K!vars
  BY <1>1 DEF K!vars, K!coins, K!balances, GetAccountPubkey, GetAvailableBalance,
              GetPendingBalance, GetPendingIsZero, GetParams, Get
<1> QED
  BY <1>2, <1>3

(* Every step of the store is a step of the keeper, or changes nothing.     *)
LEMMA StoreStep == StoreInv /\ [StoreNext]_storeVars => StoreInv' /\ [K!Next]_(K!vars)
<1> SUFFICES ASSUME StoreInv, [StoreNext]_storeVars
             PROVE  StoreInv' /\ [K!Next]_(K!vars)
  OBVIOUS
<1>1. ASSUME NEW m \in K!RegisterKeyMsgs, RegisterKey(m)
      PROVE  StoreInv' /\ K!Next
  BY <1>1, RegisterKeyStep DEF K!Next
<1>2. ASSUME NEW m \in K!ShieldMsgs, Shield(m)
      PROVE  StoreInv' /\ K!Next
  BY <1>2, ShieldStep DEF K!Next
<1>3. ASSUME NEW m \in K!SendMsgs, ConfidentialSend(m)
      PROVE  StoreInv' /\ K!Next
  BY <1>3, SendStep DEF K!Next
<1>4. ASSUME NEW m \in K!ApplyPendingMsgs, ApplyPending(m)
      PROVE  StoreInv' /\ K!Next
  BY <1>4, ApplyPendingStep DEF K!Next
<1>5. ASSUME NEW m \in K!UnshieldMsgs, Unshield(m)
      PROVE  StoreInv' /\ K!Next
  BY <1>5, UnshieldStep DEF K!Next
<1>6. ASSUME NEW m \in K!SetAuditorKeyMsgs, SetAuditorKey(m)
      PROVE  StoreInv' /\ K!Next
  BY <1>6, SetAuditorKeyStep DEF K!Next
<1>7. CASE Restart
  BY <1>7, RestartStep, NothingChanges
<1>8. CASE UNCHANGED storeVars
  BY <1>8, NothingChanges
<1> QED
  BY <1>1, <1>2, <1>3, <1>4, <1>5, <1>6, <1>7, <1>8 DEF StoreNext

(* The store of a new chain holds the parameters, and reads as the initial  *)
(* state of the keeper.                                                     *)
LEMMA StoreStarts == StoreInit => StoreInv /\ K!Init
<1> SUFFICES ASSUME StoreInit
             PROVE  StoreInv /\ K!Init
  OBVIOUS
<1> DEFINE writes == {<<ParamsKey, DefaultParams>>}
<1>1. store = [key \in {ParamsKey} |-> DefaultParams]
  <2>1. DefaultGenesis.Params = DefaultParams /\ DefaultGenesis.Accounts = {}
    BY DEF DefaultGenesis
  <2>2. store = Written(writes, <<>>)
    BY <2>1 DEF StoreInit, InitGenesis, Put
  <2>3. {w[1] : w \in writes} = {ParamsKey} /\ DOMAIN <<>> = {}
    OBVIOUS
  <2>4. (CHOOSE w \in writes : w[1] = ParamsKey)[2] = DefaultParams
    <3>1. /\ \A w \in writes : w[1] = ParamsKey /\ w[2] = DefaultParams
          /\ \E w \in writes : TRUE
      OBVIOUS
    <3> HIDE DEF writes
    <3> QED
      BY <3>1
  <2> DEFINE keys == {w[1] : w \in writes}
             value(key) == (CHOOSE w \in writes : w[1] = key)[2]
  <2>5. store = [key \in keys \cup DOMAIN <<>> |->
                   IF key \in keys THEN value(key) ELSE <<>>[key]]
    BY <2>2 DEF Written
  <2>6. keys = {ParamsKey} /\ value(ParamsKey) = DefaultParams
    BY <2>3, <2>4
  <2> HIDE DEF writes, keys, value
  <2> QED
    BY <2>3, <2>5, <2>6
<1>2. DefaultParams \in ParamsValues /\ DefaultParams.AuditorPubKey = NoKey
  BY DEF DefaultParams, ParamsValues
<1>3. DOMAIN store = {ParamsKey} /\ store[ParamsKey] = DefaultParams
  BY <1>1
<1>4. StoreInv
  <2>1. \A p \in balancePrefixes, a \in Accounts, d \in Denoms : BalanceKey(p, a, d) # ParamsKey
    BY KindsDiffer
  <2>2. store = [key \in DOMAIN store |-> store[key]]
    BY <1>1
  <2>3. \A key \in DOMAIN store : MayHold(key, store[key])
    BY <1>2, <1>3 DEF MayHold
  <2> QED
    BY <1>3, <2>1, <2>2, <2>3 DEF StoreInv
<1>5. /\ \A a \in Accounts : GetAccountPubkey(a) = Nil
      /\ \A a \in Accounts, d \in Denoms :
           /\ GetAvailableBalance(a, d) = Nil /\ GetPendingBalance(a, d) = Nil
           /\ GetPendingIsZero(a, d) = FALSE
  <2>1. \A key : key # ParamsKey => Get(key) = Nil
    BY <1>3 DEF Get
  <2>2. \A p \in balancePrefixes, a \in Accounts, d \in Denoms : Get(BalanceKey(p, a, d)) = Nil
    BY <2>1, KindsDiffer
  <2>3. \A a \in Accounts : GetAccountPubkey(a) = Nil
    BY <2>1, KindsDiffer DEF GetAccountPubkey
  <2> QED
    BY <2>2, <2>3, KeyNames, BalanceKinds, StoredAssumption
       DEF GetAvailableBalance, GetPendingBalance, GetPendingIsZero
<1>6. GetParams.AuditorPubKey = NoKey
  BY <1>2, <1>3, <1>4, StoredValues
<1>7. K!Init
  BY <1>5, <1>6 DEF K!Init, StoreInit
<1> QED
  BY <1>4, <1>7

(* What the store holds, always: values of the kind of their key, and       *)
(* balances of registered accounts only.                                    *)
THEOREM StoreStaysTyped == StoreSpec => []StoreInv
<1>1. StoreInit => StoreInv
  BY StoreStarts
<1>2. StoreInv /\ [StoreNext]_storeVars => StoreInv'
  BY StoreStep
<1> QED
  BY <1>1, <1>2, PTL DEF StoreSpec

(* The keeper over its real store, with restarts through a genesis file at  *)
(* any moment, implements the keeper of Confidential, whatever the          *)
(* addresses and denominations: no key of one account or denomination is    *)
(* taken for another's, and no restart is visible to a handler.             *)
THEOREM StoreImplementsKeeper == StoreSpec => ImplementsKeeper
<1>1. StoreInit => K!Init
  BY StoreStarts
<1>2. StoreInv /\ [StoreNext]_storeVars => [K!Next]_(K!vars)
  BY StoreStep
<1>3. StoreSpec => []StoreInv
  BY StoreStaysTyped
<1> QED
  BY <1>1, <1>2, <1>3, PTL DEF StoreSpec, ImplementsKeeper, K!Spec

(* An export leaves nothing behind: importing it restores every key.        *)
THEOREM ExportsRoundTrip == StoreSpec => []ExportRoundTrips
<1>1. StoreInv => ExportRoundTrips
  BY ImportRestores
<1> QED
  BY <1>1, StoreStaysTyped, PTL

(* What the chain exports at any moment is accepted by its own validation.  *)
THEOREM ExportsValidate == StoreSpec => []ExportValidates
<1>1. StoreInv => ExportValidates
  BY ExportIsValid
<1> QED
  BY <1>1, StoreStaysTyped, PTL

(* The public key of a registered account, the auditor key and the balances *)
(* that a client was told survive every restart, and the public key every   *)
(* message too.                                                             *)
THEOREM AnswersLast == StoreSpec => AnswersStayTrue
<1> DEFINE Same ==
      /\ \A a \in Accounts :
           QueryAccountInfo(a).Registered => QueryAccountInfo(a)' = QueryAccountInfo(a)
      /\ Restart =>
           /\ QueryAuditorKey' = QueryAuditorKey
           /\ \A a \in Accounts, d \in Denoms : QueryBalance(a, d)' = QueryBalance(a, d)
<1>1. ASSUME StoreInv, [StoreNext]_storeVars
      PROVE  [Same]_storeVars
  <2>1. ASSUME UNCHANGED storeVars
        PROVE  [Same]_storeVars
    BY <2>1
  <2>2. ASSUME NEW a \in Accounts, QueryAccountInfo(a).Registered, ~UNCHANGED storeVars
        PROVE  QueryAccountInfo(a)' = QueryAccountInfo(a)
    <3>1. GetAccountPubkey(a) # Nil
      BY <2>2 DEF QueryAccountInfo
    <3>2. GetAccountPubkey(a)' = GetAccountPubkey(a)
      <4>1. \/ \E m \in K!RegisterKeyMsgs : K!RegisterKey(m)
            \/ UNCHANGED Pubkeys
        BY <1>1, <2>2, RegisterKeyStep, ShieldStep, SendStep, ApplyPendingStep, UnshieldStep,
           SetAuditorKeyStep, RestartStep
           DEF StoreNext, Pubkeys, K!Shield, K!ConfidentialSend, K!ApplyPending, K!Unshield,
               K!SetAuditorKey
      <4>2. Pubkeys[a] = GetAccountPubkey(a) /\ Pubkeys'[a] = GetAccountPubkey(a)'
        BY DEF Pubkeys
      <4>3. ASSUME NEW m \in K!RegisterKeyMsgs, K!RegisterKey(m)
            PROVE  Pubkeys'[a] = Pubkeys[a]
        <5>1. /\ Pubkeys' = [Pubkeys EXCEPT ![m.sender] = m.pubkey]
              /\ m.sender \in Accounts /\ GetAccountPubkey(m.sender) = Nil
          BY <4>3 DEF K!RegisterKey, K!RegisterVerified, K!HasRegisteredKey, Pubkeys,
                      K!RegisterKeyMsgs, K!RegisterKeyMsg
        <5> QED
          BY <3>1, <5>1 DEF Pubkeys
      <4> QED
        BY <4>1, <4>2, <4>3
    <3> QED
      BY <3>2 DEF QueryAccountInfo
  <2>3. ~UNCHANGED storeVars => ~Restart
    BY <1>1, RestartStep
  <2> QED
    BY <2>1, <2>2, <2>3
<1>2. StoreSpec => [][Same]_storeVars
  BY <1>1, StoreStaysTyped, PTL DEF StoreSpec
<1> QED
  BY <1>2 DEF AnswersStayTrue
=============================================================================
