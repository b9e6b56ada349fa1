--------------------------- MODULE EncodingProofs ---------------------------
(***************************************************************************)
(* The byte strings that are derived from, proved under and salted with     *)
(* determine what they were made of, for every set of strings and words.    *)
(***************************************************************************)
EXTENDS Encoding, LibraryProofs

Bytes == Strings(Int)

(***************************************************************************)
(* Reading a byte string from its beginning                                 *)
(***************************************************************************)

LEMMA JoinTypes == \A s, t \in Bytes : Join(s, t) \in Bytes
  BY StringsJoin DEF Bytes

LEMMA Associative == \A s, t, u \in Bytes : Join(Join(s, t), u) = Join(s, Join(t, u))
  BY JoinAssociative DEF Bytes

LEMMA JoinedLength == \A s, t \in Bytes : Len(Join(s, t)) = Len(s) + Len(t)
  BY JoinLength DEF Bytes

LEMMA SplitAt ==
    \A s, t, u, v \in Bytes : Len(s) = Len(u) /\ Join(s, t) = Join(u, v) => s = u /\ t = v
  BY JoinSplits DEF Bytes

(* A word takes two bytes, and determines its number. *)
LEMMA WordTypes == \A n \in Nat : PutUint(n) \in Bytes /\ Len(PutUint(n)) = 2
<1>1. \A n \in Nat : n \div Base \in Int /\ n % Base \in Int
  BY StringsAssumption
<1> QED
  BY <1>1 DEF PutUint, Bytes, Strings

LEMMA WordInjective == \A m, n \in Nat : PutUint(m) = PutUint(n) => m = n
<1> SUFFICES ASSUME NEW m \in Nat, NEW n \in Nat, PutUint(m) = PutUint(n)
             PROVE  m = n
  OBVIOUS
<1>1. /\ m = Base * (m \div Base) + (m % Base)
      /\ n = Base * (n \div Base) + (n % Base)
  BY StringsAssumption
<1>2. m \div Base = n \div Base /\ m % Base = n % Base
  BY DEF PutUint
<1> QED
  BY <1>1, <1>2

LEMMA FieldType == \A s \in Bytes : appendField(s) \in Bytes
<1> SUFFICES ASSUME NEW s \in Bytes
             PROVE  appendField(s) \in Bytes
  OBVIOUS
<1>1. Len(s) \in Nat
  BY LenProperties DEF Bytes, Strings
<1>2. PutUint(Len(s)) \in Bytes
  BY <1>1, WordTypes
<1>3. appendField(s) = Join(PutUint(Len(s)), s)
  BY DEF appendField, Join
<1> QED
  BY <1>2, <1>3, JoinTypes

(* A field with its length in front is read from the beginning. *)
LEMMA FieldRead ==
    \A s, t, u, v \in Bytes :
        Join(appendField(s), t) = Join(appendField(u), v) => s = u /\ t = v
<1> SUFFICES ASSUME NEW s \in Bytes, NEW t \in Bytes, NEW u \in Bytes, NEW v \in Bytes,
                    Join(appendField(s), t) = Join(appendField(u), v)
             PROVE  s = u /\ t = v
  OBVIOUS
<1> DEFINE ls == PutUint(Len(s))
           lu == PutUint(Len(u))
<1>1. Len(s) \in Nat /\ Len(u) \in Nat
  BY LenProperties DEF Bytes, Strings
<1>2. /\ ls \in Bytes /\ lu \in Bytes /\ Len(ls) = Len(lu)
      /\ ls = lu => Len(s) = Len(u)
  BY <1>1, WordTypes, WordInjective
<1>3. appendField(s) = Join(ls, s) /\ appendField(u) = Join(lu, u)
  BY DEF appendField, Join
<1> HIDE DEF ls, lu
<1>4. Join(ls, Join(s, t)) = Join(lu, Join(u, v))
  BY <1>2, <1>3, Associative
<1>5. ls = lu /\ Join(s, t) = Join(u, v)
  BY <1>2, <1>4, JoinTypes, SplitAt
<1> QED
  BY <1>2, <1>5, SplitAt

(***************************************************************************)
(* Contexts                                                                 *)
(***************************************************************************)

(* What encode is given: strings and words. *)
IsContext(c) ==
    /\ c.ChainID \in Bytes /\ c.Denom \in Bytes /\ c.Op \in Bytes /\ c.Receiver \in Bytes
    /\ c.Sequence \in Nat /\ c.Amount \in Nat

Numbers(c) == Join(PutUint(c.Sequence), PutUint(c.Amount))

(* A context is four fields and two words. *)
LEMMA EncodeParts ==
    ASSUME NEW c, IsContext(c)
    PROVE  encode(c) = Join(appendField(c.ChainID), Join(appendField(c.Denom),
                         Join(appendField(c.Op), Join(appendField(c.Receiver), Numbers(c)))))
<1> DEFINE a == appendField(c.ChainID)
           b == appendField(c.Denom)
           o == appendField(c.Op)
           r == appendField(c.Receiver)
           s == PutUint(c.Sequence)
           n == PutUint(c.Amount)
<1>1. /\ a \in Bytes /\ b \in Bytes /\ o \in Bytes /\ r \in Bytes
      /\ s \in Bytes /\ n \in Bytes
  BY FieldType, WordTypes DEF IsContext
<1>2. encode(c) = Join(Join(Join(Join(Join(a, b), o), r), s), n)
  BY DEF encode, Join
<1> HIDE DEF a, b, o, r, s, n
<1>3. /\ Join(a, b) \in Bytes /\ Join(Join(a, b), o) \in Bytes
      /\ Join(Join(Join(a, b), o), r) \in Bytes
      /\ Join(s, n) \in Bytes /\ Join(r, Join(s, n)) \in Bytes
      /\ Join(o, Join(r, Join(s, n))) \in Bytes
  BY <1>1, JoinTypes
<1>4. /\ Join(Join(Join(Join(Join(a, b), o), r), s), n)
           = Join(Join(Join(Join(a, b), o), r), Join(s, n))
      /\ Join(Join(Join(Join(a, b), o), r), Join(s, n))
           = Join(Join(Join(a, b), o), Join(r, Join(s, n)))
      /\ Join(Join(Join(a, b), o), Join(r, Join(s, n)))
           = Join(Join(a, b), Join(o, Join(r, Join(s, n))))
      /\ Join(Join(a, b), Join(o, Join(r, Join(s, n))))
           = Join(a, Join(b, Join(o, Join(r, Join(s, n)))))
  BY <1>1, <1>3, Associative
<1> QED
  BY <1>2, <1>4 DEF Numbers, a, b, o, r, s, n

(* encode renders different contexts as different strings. *)
LEMMA EncodeInjective ==
    ASSUME NEW c, NEW d, IsContext(c), IsContext(d), encode(c) = encode(d)
    PROVE  /\ c.ChainID = d.ChainID /\ c.Denom = d.Denom
           /\ c.Op = d.Op /\ c.Receiver = d.Receiver
           /\ c.Sequence = d.Sequence /\ c.Amount = d.Amount
<1> DEFINE fromReceiver(x) == Join(appendField(x.Receiver), Numbers(x))
           fromOp(x) == Join(appendField(x.Op), fromReceiver(x))
           fromDenom(x) == Join(appendField(x.Denom), fromOp(x))
<1>1. \A x \in {c, d} :
        /\ Numbers(x) \in Bytes /\ fromReceiver(x) \in Bytes
        /\ fromOp(x) \in Bytes /\ fromDenom(x) \in Bytes
        /\ encode(x) = Join(appendField(x.ChainID), fromDenom(x))
  <2>1. \A x \in {c, d} : Numbers(x) \in Bytes
    BY WordTypes, JoinTypes DEF IsContext, Numbers
  <2>2. \A x \in {c, d} : fromReceiver(x) \in Bytes
    BY <2>1, FieldType, JoinTypes DEF IsContext
  <2>3. \A x \in {c, d} : fromOp(x) \in Bytes
    BY <2>2, FieldType, JoinTypes DEF IsContext
  <2>4. \A x \in {c, d} : fromDenom(x) \in Bytes
    BY <2>3, FieldType, JoinTypes DEF IsContext
  <2> QED
    BY <2>1, <2>2, <2>3, <2>4, EncodeParts
<1>2. /\ c.ChainID = d.ChainID /\ c.Denom = d.Denom
      /\ c.Op = d.Op /\ c.Receiver = d.Receiver
      /\ Numbers(c) = Numbers(d)
  <2> HIDE DEF fromDenom
  <2>1. c.ChainID = d.ChainID /\ fromDenom(c) = fromDenom(d)
    <3>1. Join(appendField(c.ChainID), fromDenom(c)) = Join(appendField(d.ChainID), fromDenom(d))
      BY <1>1
    <3>2. fromDenom(c) \in Bytes /\ fromDenom(d) \in Bytes
      BY <1>1
    <3> QED
      BY <3>1, <3>2, FieldRead DEF IsContext
  <2> HIDE DEF fromOp
  <2>2. c.Denom = d.Denom /\ fromOp(c) = fromOp(d)
    BY <1>1, <2>1, FieldRead DEF IsContext, fromDenom
  <2> HIDE DEF fromReceiver
  <2>3. c.Op = d.Op /\ fromReceiver(c) = fromReceiver(d)
    BY <1>1, <2>2, FieldRead DEF IsContext, fromOp
  <2>4. c.Receiver = d.Receiver /\ Numbers(c) = Numbers(d)
    BY <1>1, <2>3, FieldRead DEF IsContext, fromReceiver
  <2> QED
    BY <2>1, <2>2, <2>3, <2>4
<1>3. PutUint(c.Sequence) = PutUint(d.Sequence) /\ PutUint(c.Amount) = PutUint(d.Amount)
  BY <1>2, SplitAt, WordTypes DEF Numbers, IsContext
<1> QED
  BY <1>2, <1>3, WordInjective DEF IsContext
(***************************************************************************)
(* Two uses                                                                 *)
(***************************************************************************)

(* The strings and words of two uses are what they should be. *)
LEMMA ContextTypes ==
    ASSUME NEW c \in Contexts
    PROVE  /\ IsContext(c)
           /\ c.Op \in Ops /\ c.Sender \in Addresses /\ c.Sender \in Bytes
           /\ c.Height \in Nat
<1>1. \A s \in ChainIDs \cup DenomNames \cup Ops \cup Addresses : s \in Bytes
  <2>1. 0 .. Base - 1 \subseteq Int
    BY StringsAssumption
  <2> QED
    BY <2>1, StringsAssumption, SeqMonotonic DEF Bytes, Strings
<1>2. <<>> \in Bytes
  BY DEF Bytes, Strings
<1>3. Words \subseteq Nat
  BY WordAssumption, StringsAssumption
<1> QED
  BY <1>1, <1>2, <1>3 DEF Contexts, IsContext

LEMMA IndexTypes == Indices \subseteq Nat
  BY WordAssumption, StringsAssumption

TwoUses == one \in Contexts /\ two \in Contexts

LEMMA TwoUsesStay == EncodingSpec => []TwoUses
<1>1. EncodingInit => TwoUses
  BY DEF EncodingInit, TwoUses
<1>2. TwoUses /\ [Vary]_encodingVars => TwoUses'
  BY DEF TwoUses, Vary, encodingVars, Contexts
<1> QED
  BY <1>1, <1>2, PTL DEF EncodingSpec

(***************************************************************************)
(* Derivation contexts                                                      *)
(***************************************************************************)

OpWithIndex(op, i) == Join(Join(op, <<SlashByte>>), PutUint(i))

LEMMA SlashType == <<SlashByte>> \in Bytes /\ Len(<<SlashByte>>) = 1
  BY StringsAssumption DEF Bytes, Strings

(* An index changes the operation and nothing else. *)
LEMMA WithIndexContext ==
    ASSUME NEW c \in Contexts, NEW i \in Indices
    PROVE  LET w == WithIndex(c, i)
           IN  /\ IsContext(w)
               /\ w.Op = OpWithIndex(c.Op, i)
               /\ w.ChainID = c.ChainID /\ w.Denom = c.Denom /\ w.Receiver = c.Receiver
               /\ w.Sequence = c.Sequence /\ w.Amount = c.Amount
<1> DEFINE w == WithIndex(c, i)
<1>1. IsContext(c)
  BY ContextTypes
<1>2. w = [c EXCEPT !.Op = OpWithIndex(c.Op, i)]
  BY DEF WithIndex, OpWithIndex, Join
<1>3. OpWithIndex(c.Op, i) \in Bytes
  BY <1>1, IndexTypes, SlashType, WordTypes, JoinTypes DEF OpWithIndex, IsContext
<1>4. /\ w.Op = OpWithIndex(c.Op, i)
      /\ w.ChainID = c.ChainID /\ w.Denom = c.Denom /\ w.Receiver = c.Receiver
      /\ w.Sequence = c.Sequence /\ w.Amount = c.Amount
  BY <1>2 DEF Contexts
<1> QED
  BY <1>1, <1>3, <1>4 DEF IsContext

(* The operation and the index are read off an operation with an index. *)
LEMMA IndexRead ==
    ASSUME NEW o \in Bytes, NEW p \in Bytes, NEW i \in Nat, NEW j \in Nat,
           OpWithIndex(o, i) = OpWithIndex(p, j)
    PROVE  o = p /\ i = j
<1> DEFINE os == Join(o, <<SlashByte>>)
           ps == Join(p, <<SlashByte>>)
<1>1. /\ os \in Bytes /\ Len(os) = Len(o) + 1
      /\ ps \in Bytes /\ Len(ps) = Len(p) + 1
      /\ Len(o) \in Nat /\ Len(p) \in Nat
  BY SlashType, JoinTypes, JoinedLength, LenProperties DEF Bytes, Strings
<1> HIDE DEF os, ps
<1>2. /\ PutUint(i) \in Bytes /\ Len(PutUint(i)) = 2
      /\ PutUint(j) \in Bytes /\ Len(PutUint(j)) = 2
  BY WordTypes
<1>3. Join(os, PutUint(i)) = Join(ps, PutUint(j))
  BY DEF OpWithIndex, os, ps
<1>4. Len(Join(os, PutUint(i))) = Len(os) + 2 /\ Len(Join(ps, PutUint(j))) = Len(ps) + 2
  BY <1>1, <1>2, JoinedLength
<1>5. Len(os) = Len(ps) /\ Len(o) = Len(p)
  BY <1>1, <1>3, <1>4
<1>6. os = ps /\ PutUint(i) = PutUint(j)
  BY <1>1, <1>2, <1>3, <1>5, SplitAt
<1>7. o = p
  BY <1>5, <1>6, SlashType, SplitAt DEF os, ps
<1> QED
  BY <1>6, <1>7, WordInjective

(* Whatever the strings and words, randomness is derived from one context    *)
(* only if it is derived for one transaction, and never for an operation    *)
(* with an index as for one without.                                        *)
THEOREM ContextsSeparate == EncodingSpec => []DerivationSeparates
<1>1. ASSUME TwoUses
      PROVE  DerivationSeparates
  <2>1. IsContext(one) /\ IsContext(two) /\ one.Op \in Ops /\ two.Op \in Ops
    BY <1>1, ContextTypes DEF TwoUses
  <2>2. encode(one) = encode(two) => Same(DerivationFields)
    BY <2>1, EncodeInjective DEF Same, DerivationFields
  <2>3. ASSUME NEW i \in Indices
        PROVE  encode(WithIndex(one, i)) # encode(two)
    <3>1. two.Op # OpWithIndex(one.Op, i)
      BY <2>1, OpsAssumption DEF OpWithIndex, Join
    <3> QED
      BY <1>1, <2>1, <3>1, WithIndexContext, EncodeInjective DEF TwoUses
  <2>4. ASSUME NEW i \in Indices, NEW j \in Indices,
               encode(WithIndex(one, i)) = encode(WithIndex(two, j))
        PROVE  Same(DerivationFields) /\ i = j
    <3>1. /\ one.ChainID = two.ChainID /\ one.Denom = two.Denom
          /\ one.Receiver = two.Receiver
          /\ one.Sequence = two.Sequence /\ one.Amount = two.Amount
          /\ OpWithIndex(one.Op, i) = OpWithIndex(two.Op, j)
      BY <1>1, <2>4, WithIndexContext, EncodeInjective DEF TwoUses
    <3>2. one.Op = two.Op /\ i = j
      BY <2>1, <3>1, IndexTypes, IndexRead DEF IsContext
    <3> QED
      BY <3>1, <3>2 DEF Same, DerivationFields
  <2> QED
    BY <2>2, <2>3, <2>4 DEF DerivationSeparates
<1>2. TwoUses => DerivationSeparates
  BY <1>1
<1> QED
  BY <1>2, TwoUsesStay, PTL

(***************************************************************************)
(* Transcripts                                                              *)
(***************************************************************************)

(* One more piece, unfolded only where positions matter. *)
Put(t, x) == t \o <<x>>

(* The new piece comes last. *)
LEMMA Appended ==
    ASSUME NEW S, NEW t \in Seq(S), NEW x \in S
    PROVE  /\ t \o <<x>> \in Seq(S)
           /\ Len(t) \in Nat /\ Len(t \o <<x>>) = Len(t) + 1
           /\ \A i \in 1 .. Len(t) : (t \o <<x>>)[i] = t[i]
           /\ (t \o <<x>>)[Len(t) + 1] = x
<1>1. <<x>> \in Seq(S) /\ Len(<<x>>) = 1 /\ <<x>>[1] = x
  OBVIOUS
<1>2. Len(t) \in Nat
  BY LenProperties
<1> DEFINE u == <<x>>
<1> HIDE DEF u
<1>3. /\ t \o u \in Seq(S)
      /\ Len(t \o u) = Len(t) + Len(u)
      /\ \A i \in 1 .. Len(t) + Len(u) :
           (t \o u)[i] = IF i <= Len(t) THEN t[i] ELSE u[i - Len(t)]
  BY <1>1, ConcatProperties DEF u
<1>4. Len(u) = 1 /\ u[1] = x
  BY <1>1 DEF u
<1>5. (t \o u)[Len(t) + 1] = x
  BY <1>2, <1>3, <1>4
<1> QED
  BY <1>2, <1>3, <1>4, <1>5 DEF u

(* A sequence that is another one with one more element. *)
LEMMA PutIs ==
    \A S : \A t \in Seq(S) : \A x \in S, u \in Seq(S) :
        Len(u) = Len(t) + 1 /\ (\A i \in 1 .. Len(t) : u[i] = t[i]) /\ u[Len(t) + 1] = x
          => Put(t, x) = u
<1> TAKE S
<1> TAKE t \in Seq(S)
<1> TAKE x \in S, u \in Seq(S)
<1> HAVE Len(u) = Len(t) + 1 /\ (\A i \in 1 .. Len(t) : u[i] = t[i]) /\ u[Len(t) + 1] = x
<1>1. /\ Put(t, x) \in Seq(S) /\ Len(Put(t, x)) = Len(u) /\ Len(t) \in Nat
      /\ \A i \in 1 .. Len(t) : Put(t, x)[i] = u[i]
      /\ Put(t, x)[Len(t) + 1] = u[Len(t) + 1]
  BY Appended DEF Put
<1>2. \A i \in 1 .. Len(Put(t, x)) : Put(t, x)[i] = u[i]
  BY <1>1
<1> QED
  BY <1>1, <1>2, SeqEqual

(* Sequences of up to five pieces. *)
LEMMA Put2 == \A a, b : Put(<<a>>, b) = <<a, b>>
<1> TAKE a, b
<1> DEFINE S == {a, b}
           t == <<a>>
           u == <<a, b>>
<1>1. t \in Seq(S) /\ u \in Seq(S) /\ b \in S /\ Len(t) = 1 /\ Len(u) = 2
  OBVIOUS
<1>2. u[2] = b /\ \A i \in 1 .. 1 : u[i] = t[i]
  OBVIOUS
<1> HIDE DEF S, t, u
<1>3. Len(u) = Len(t) + 1 /\ (\A i \in 1 .. Len(t) : u[i] = t[i]) /\ u[Len(t) + 1] = b
  BY <1>1, <1>2
<1>4. t \in Seq(S) /\ u \in Seq(S) /\ b \in S
  BY <1>1
<1>5. Put(t, b) = u
  BY <1>3, <1>4, PutIs
<1> QED
  BY <1>5 DEF t, u

LEMMA Put3 == \A a, b, c : Put(<<a, b>>, c) = <<a, b, c>>
<1> TAKE a, b, c
<1> DEFINE S == {a, b, c}
           t == <<a, b>>
           u == <<a, b, c>>
<1>1. t \in Seq(S) /\ u \in Seq(S) /\ c \in S /\ Len(t) = 2 /\ Len(u) = 3
  OBVIOUS
<1>2. u[3] = c /\ \A i \in 1 .. 2 : u[i] = t[i]
  OBVIOUS
<1> HIDE DEF S, t, u
<1>3. Len(u) = Len(t) + 1 /\ (\A i \in 1 .. Len(t) : u[i] = t[i]) /\ u[Len(t) + 1] = c
  BY <1>1, <1>2
<1>4. t \in Seq(S) /\ u \in Seq(S) /\ c \in S
  BY <1>1
<1>5. Put(t, c) = u
  BY <1>3, <1>4, PutIs
<1> QED
  BY <1>5 DEF t, u

LEMMA Put4 == \A a, b, c, d : Put(<<a, b, c>>, d) = <<a, b, c, d>>
<1> TAKE a, b, c, d
<1> DEFINE S == {a, b, c, d}
           t == <<a, b, c>>
           u == <<a, b, c, d>>
<1>1. t \in Seq(S) /\ u \in Seq(S) /\ d \in S /\ Len(t) = 3 /\ Len(u) = 4
  OBVIOUS
<1>2. u[4] = d /\ \A i \in 1 .. 3 : u[i] = t[i]
  OBVIOUS
<1> HIDE DEF S, t, u
<1>3. Len(u) = Len(t) + 1 /\ (\A i \in 1 .. Len(t) : u[i] = t[i]) /\ u[Len(t) + 1] = d
  BY <1>1, <1>2
<1>4. t \in Seq(S) /\ u \in Seq(S) /\ d \in S
  BY <1>1
<1>5. Put(t, d) = u
  BY <1>3, <1>4, PutIs
<1> QED
  BY <1>5 DEF t, u

LEMMA Put5 == \A a, b, c, d, e : Put(<<a, b, c, d>>, e) = <<a, b, c, d, e>>
<1> TAKE a, b, c, d, e
<1> DEFINE S == {a, b, c, d, e}
           t == <<a, b, c, d>>
           u == <<a, b, c, d, e>>
<1>1. t \in Seq(S) /\ u \in Seq(S) /\ e \in S /\ Len(t) = 4 /\ Len(u) = 5
  OBVIOUS
<1>2. u[5] = e /\ \A i \in 1 .. 4 : u[i] = t[i]
  OBVIOUS
<1> HIDE DEF S, t, u
<1>3. Len(u) = Len(t) + 1 /\ (\A i \in 1 .. Len(t) : u[i] = t[i]) /\ u[Len(t) + 1] = e
  BY <1>1, <1>2
<1>4. t \in Seq(S) /\ u \in Seq(S) /\ e \in S
  BY <1>1
<1>5. Put(t, e) = u
  BY <1>3, <1>4, PutIs
<1> QED
  BY <1>5 DEF t, u

Piece(label, data) == [label |-> label, data |-> data]

(* A transcript: the chain, the sender, the receiver if there is one, and   *)
(* the denomination.                                                        *)
LEMMA TranscriptPieces ==
    \A c :
        /\ c.Receiver = <<>> =>
             buildTranscript(c) = <<Piece("chain_id", c.ChainID), Piece("sender", c.Sender),
                                    Piece("denom", c.Denom)>>
        /\ c.Receiver # <<>> =>
             buildTranscript(c) = <<Piece("chain_id", c.ChainID), Piece("sender", c.Sender),
                                    Piece("receiver", c.Receiver), Piece("denom", c.Denom)>>
<1> TAKE c
<1> DEFINE chain == Piece("chain_id", c.ChainID)
           sender == Piece("sender", c.Sender)
           receiver == Piece("receiver", c.Receiver)
           last == Piece("denom", c.Denom)
<1>1. ASSUME c.Receiver = <<>>
      PROVE  buildTranscript(c) = <<chain, sender, last>>
  <2>1. buildTranscript(c) = <<chain>> \o <<sender>> \o <<>> \o <<last>>
    BY <1>1 DEF buildTranscript, AppendBytes, Piece
  <2> HIDE DEF chain, sender, last
  <2>2. <<chain>> \o <<sender>> = <<chain, sender>>
    BY Put2 DEF Put
  <2>3. <<chain, sender>> \o <<>> = <<chain, sender>>
    OBVIOUS
  <2>4. <<chain, sender>> \o <<last>> = <<chain, sender, last>>
    BY Put3 DEF Put
  <2> QED
    BY <2>1, <2>2, <2>3, <2>4
<1>2. ASSUME c.Receiver # <<>>
      PROVE  buildTranscript(c) = <<chain, sender, receiver, last>>
  <2>1. buildTranscript(c) = <<chain>> \o <<sender>> \o <<receiver>> \o <<last>>
    BY <1>2 DEF buildTranscript, AppendBytes, Piece
  <2> HIDE DEF chain, sender, receiver, last
  <2>2. <<chain>> \o <<sender>> = <<chain, sender>>
    BY Put2 DEF Put
  <2>3. <<chain, sender>> \o <<receiver>> = <<chain, sender, receiver>>
    BY Put3 DEF Put
  <2>4. <<chain, sender, receiver>> \o <<last>> = <<chain, sender, receiver, last>>
    BY Put4 DEF Put
  <2> QED
    BY <2>1, <2>2, <2>3, <2>4
<1> QED
  BY <1>1, <1>2

(* A commitment proof's role comes after it all.                            *)
LEMMA RolePieces ==
    \A c, role :
        /\ c.Receiver = <<>> =>
             AppendRole(buildTranscript(c), role)
               = <<Piece("chain_id", c.ChainID), Piece("sender", c.Sender),
                   Piece("denom", c.Denom), Piece("commitment_role", role)>>
        /\ c.Receiver # <<>> =>
             AppendRole(buildTranscript(c), role)
               = <<Piece("chain_id", c.ChainID), Piece("sender", c.Sender),
                   Piece("receiver", c.Receiver), Piece("denom", c.Denom),
                   Piece("commitment_role", role)>>
<1> TAKE c, role
<1>1. AppendRole(buildTranscript(c), role)
        = Put(buildTranscript(c), Piece("commitment_role", role))
  BY DEF AppendRole, AppendBytes, Put, Piece
<1> QED
  BY <1>1, TranscriptPieces, Put4, Put5

(* The labels tell whether there is a receiver and whether there is a role. *)
LEMMA TranscriptRead ==
    \A c, d : buildTranscript(c) = buildTranscript(d) =>
        c.ChainID = d.ChainID /\ c.Sender = d.Sender
          /\ c.Receiver = d.Receiver /\ c.Denom = d.Denom
<1> TAKE c, d
<1> QED
  BY TranscriptPieces, c.Receiver = <<>> \/ c.Receiver # <<>> DEF Piece

LEMMA RoleRead ==
    \A c, d, role, other :
        AppendRole(buildTranscript(c), role) = AppendRole(buildTranscript(d), other) =>
            /\ c.ChainID = d.ChainID /\ c.Sender = d.Sender
            /\ c.Receiver = d.Receiver /\ c.Denom = d.Denom
            /\ role = other
  BY RolePieces DEF Piece

LEMMA RoleShows ==
    \A c, d, role : AppendRole(buildTranscript(c), role) # buildTranscript(d)
<1> TAKE c, d, role
<1>1. CASE c.Receiver = <<>> /\ d.Receiver = <<>>
  <2>1. Len(AppendRole(buildTranscript(c), role)) = 4
    BY <1>1, RolePieces
  <2>2. Len(buildTranscript(d)) = 3
    BY <1>1, TranscriptPieces
  <2> QED
    BY <2>1, <2>2
<1>2. CASE c.Receiver # <<>> /\ d.Receiver # <<>>
  <2>1. Len(AppendRole(buildTranscript(c), role)) = 5
    BY <1>2, RolePieces
  <2>2. Len(buildTranscript(d)) = 4
    BY <1>2, TranscriptPieces
  <2> QED
    BY <2>1, <2>2
<1>3. CASE c.Receiver = <<>> /\ d.Receiver # <<>>
  BY <1>3, RolePieces, TranscriptPieces DEF Piece
<1>4. CASE c.Receiver # <<>> /\ d.Receiver = <<>>
  BY <1>4, RolePieces, TranscriptPieces DEF Piece
<1> QED
  BY <1>1, <1>2, <1>3, <1>4

(* Every transcript is of a subject, and a commitment proof's has its role. *)
LEMMA TranscriptOf ==
    \A c : \A p \in ProofKinds :
        /\ p \in Roles => Transcripts(c)[p] = AppendRole(buildTranscript(Subject(p, c)), p)
        /\ p \notin Roles => Transcripts(c)[p] = buildTranscript(Subject(p, c))
  BY DEF Transcripts

(* Only possession is proved for no denomination. *)
LEMMA SubjectDenom ==
    \A c \in Contexts : \A p \in ProofKinds :
        /\ p = "possession" => Subject(p, c).Denom = <<>>
        /\ p # "possession" => Subject(p, c).Denom = c.Denom
        /\ c.Denom # <<>>
<1> SUFFICES ASSUME NEW c \in Contexts, NEW p \in ProofKinds
             PROVE  /\ p = "possession" => Subject(p, c).Denom = <<>>
                    /\ p # "possession" => Subject(p, c).Denom = c.Denom
                    /\ c.Denom # <<>>
  OBVIOUS
<1>1. c.Denom # <<>>
  BY StringsAssumption DEF Contexts
<1>2. CASE p = "possession"
  BY <1>1, <1>2 DEF Subject, Contexts
<1>3. CASE p \in {"dleq", "apply"}
  BY <1>1, <1>3 DEF Subject, Contexts
<1>4. CASE p \notin {"possession", "dleq", "apply"}
  BY <1>1, <1>4 DEF Subject
<1> QED
  BY <1>2, <1>3, <1>4

(* A transcript tells chain, sender, receiver and denomination of what is    *)
(* proved, and the commitment proofs' and the possession proof's are no     *)
(* other proofs'.                                                           *)
THEOREM ProofsAreBound == EncodingSpec => []TranscriptsBind
<1>1. ASSUME TwoUses, NEW p \in ProofKinds, NEW q \in ProofKinds,
             Transcripts(one)[p] = Transcripts(two)[q]
      PROVE  /\ \A f \in {"ChainID", "Sender", "Receiver", "Denom"} :
                  Subject(p, one)[f] = Subject(q, two)[f]
             /\ p \in Roles \cup {"possession"} \/ q \in Roles \cup {"possession"} => p = q
  <2> DEFINE c == Subject(p, one)
             d == Subject(q, two)
  <2>1. /\ p \in Roles => Transcripts(one)[p] = AppendRole(buildTranscript(c), p)
        /\ p \notin Roles => Transcripts(one)[p] = buildTranscript(c)
        /\ q \in Roles => Transcripts(two)[q] = AppendRole(buildTranscript(d), q)
        /\ q \notin Roles => Transcripts(two)[q] = buildTranscript(d)
    BY <1>1, TranscriptOf
  <2>2. c.Denom = d.Denom => (p = "possession" <=> q = "possession")
    BY <1>1, SubjectDenom DEF TwoUses
  <2> HIDE DEF c, d
  <2>3. /\ p \in Roles <=> q \in Roles
        /\ c.ChainID = d.ChainID /\ c.Sender = d.Sender
        /\ c.Receiver = d.Receiver /\ c.Denom = d.Denom
        /\ p \in Roles => p = q
    <3>1. CASE p \in Roles /\ q \in Roles
      BY <1>1, <2>1, <3>1, RoleRead
    <3>2. CASE p \notin Roles /\ q \notin Roles
      BY <1>1, <2>1, <3>2, TranscriptRead
    <3>3. CASE p \in Roles /\ q \notin Roles
      BY <1>1, <2>1, <3>3, RoleShows
    <3>4. CASE p \notin Roles /\ q \in Roles
      BY <1>1, <2>1, <3>4, RoleShows
    <3> QED
      BY <3>1, <3>2, <3>3, <3>4
  <2>4. \A f \in {"ChainID", "Sender", "Receiver", "Denom"} : c[f] = d[f]
    BY <2>3
  <2>5. p \in Roles \cup {"possession"} \/ q \in Roles \cup {"possession"} => p = q
    BY <2>2, <2>3
  <2> QED
    BY <2>4, <2>5 DEF c, d
<1>2. TwoUses => TranscriptsBind
  BY <1>1 DEF TranscriptsBind
<1> QED
  BY <1>2, TwoUsesStay, PTL

(***************************************************************************)
(* Salts                                                                    *)
(***************************************************************************)

LEMMA AddressTypes == \A a \in Addresses : a \in Bytes
<1>1. 0 .. Base - 1 \subseteq Int
  BY StringsAssumption
<1> QED
  BY <1>1, StringsAssumption, SeqMonotonic DEF Bytes, Strings

Slashed(s) == Join(s, <<SlashByte>>)

LEMMA NoneGoesOn == \A a, b \in Addresses : IsPrefix(Slashed(a), b) => a = b
<1>1. \A a, b \in Addresses : a # b => ~IsPrefix(a \o <<SlashByte>>, b)
  BY Zenon, StringsAssumption
<1> QED
  BY Zenon, <1>1 DEF Slashed, Join

(* An address is read up to its slash. *)
LEMMA AddressRead ==
    \A a, b \in Addresses : \A t, v \in Bytes :
        Join(Slashed(a), t) = Join(Slashed(b), v) => a = b /\ t = v
<1>1. Addresses \subseteq Strings(Int) /\ <<SlashByte>> \in Strings(Int)
  BY AddressTypes, SlashType DEF Bytes
<1>2. \A a, b \in Addresses : IsPrefix(Join(a, <<SlashByte>>), b) => a = b
  BY NoneGoesOn DEF Slashed
<1>3. \A a, b \in Addresses : \A t, v \in Strings(Int) :
        Join(Join(a, <<SlashByte>>), t) = Join(Join(b, <<SlashByte>>), v) => a = b /\ t = v
  BY <1>1, <1>2, SeparatorRead
<1> QED
  BY <1>3, Zenon DEF Slashed, Bytes

(* A denomination is read off what comes before the height, whose width is   *)
(* fixed.                                                                   *)
LEMMA DenomRead ==
    \A d, e \in Bytes : \A m, n \in Nat :
        Join(Slashed(d), PutUint(m)) = Join(Slashed(e), PutUint(n)) => d = e /\ m = n
<1> SUFFICES ASSUME NEW d \in Bytes, NEW e \in Bytes, NEW m \in Nat, NEW n \in Nat,
                    Join(Slashed(d), PutUint(m)) = Join(Slashed(e), PutUint(n))
             PROVE  d = e /\ m = n
  OBVIOUS
<1> QED
  BY IndexRead DEF OpWithIndex, Slashed

(* Equal salts are of one account, one denomination and one block, whatever *)
(* the denominations.                                                       *)
THEOREM ZerosStayApart == EncodingSpec => []ZerosApart
<1>1. ASSUME NEW c \in Contexts
      PROVE  /\ c.Sender \in Addresses /\ c.Denom \in Bytes /\ c.Height \in Nat
             /\ Join(Slashed(c.Denom), PutUint(c.Height)) \in Bytes
             /\ zeroSalt(c) = Join(Slashed(c.Sender), Join(Slashed(c.Denom), PutUint(c.Height)))
  <2>1. /\ c.Sender \in Addresses /\ c.Sender \in Bytes
        /\ c.Denom \in Bytes /\ c.Height \in Nat
    BY ContextTypes DEF IsContext
  <2> DEFINE a == c.Sender
             d == c.Denom
             w == PutUint(c.Height)
             l == <<SlashByte>>
  <2>2. w \in Bytes /\ l \in Bytes
    BY <2>1, WordTypes, SlashType
  <2>3. zeroSalt(c) = Join(Join(Join(Join(a, l), d), l), w)
    BY DEF zeroSalt, Join
  <2> HIDE DEF a, d, w, l
  <2>4. /\ Join(a, l) \in Bytes /\ Join(Join(a, l), d) \in Bytes
        /\ Join(d, l) \in Bytes /\ Join(Join(d, l), w) \in Bytes
    BY <2>1, <2>2, JoinTypes DEF a, d
  <2>5. /\ Join(Join(Join(a, l), d), l) = Join(Join(a, l), Join(d, l))
        /\ Join(Join(Join(a, l), Join(d, l)), w) = Join(Join(a, l), Join(Join(d, l), w))
    BY <2>1, <2>2, <2>4, Associative DEF a, d
  <2> QED
    BY <2>1, <2>3, <2>4, <2>5 DEF Slashed, a, d, w, l
<1>2. TwoUses => ZerosApart
  <2> SUFFICES ASSUME TwoUses, zeroSalt(one) = zeroSalt(two)
               PROVE  one.Sender = two.Sender /\ one.Denom = two.Denom
                      /\ one.Height = two.Height
    BY DEF ZerosApart, Same
  <2>1. /\ one.Sender = two.Sender
        /\ Join(Slashed(one.Denom), PutUint(one.Height))
             = Join(Slashed(two.Denom), PutUint(two.Height))
    BY <1>1, AddressRead DEF TwoUses
  <2> QED
    BY <1>1, <2>1, DenomRead DEF TwoUses
<1> QED
  BY <1>2, TwoUsesStay, PTL


(***************************************************************************)
(* Memos                                                                    *)
(***************************************************************************)

(* A word is read where its two bytes stand. *)
LEMMA WordRead ==
    ASSUME NEW p \in Bytes, NEW at \in Nat, at + 2 <= Len(p), NEW n \in Nat,
           p[at + 1] = n \div Base, p[at + 2] = n % Base
    PROVE  Uint(SubSeq(p, at + 1, at + 2)) = n
<1> DEFINE w == SubSeq(p, at + 1, at + 2)
<1>1. w[1] = p[at + 1] /\ w[2] = p[at + 2]
  BY PartOf DEF Bytes
<1>2. n = Base * (n \div Base) + (n % Base)
  BY StringsAssumption
<1>3. Base * (n \div Base) = (n \div Base) * Base
  BY StringsAssumption
<1> HIDE DEF w
<1>4. Uint(w) = (n \div Base) * Base + (n % Base)
  BY <1>1 DEF Uint
<1> QED
  BY <1>2, <1>3, <1>4 DEF w

(* The beginning of a string, position by position. *)
LEMMA BeginningOf ==
    ASSUME NEW p \in Bytes, NEW n \in Nat, n <= Len(p)
    PROVE  /\ SubSeq(p, 1, n) \in Bytes
           /\ Len(SubSeq(p, 1, n)) = n
           /\ \A i \in 1 .. n : SubSeq(p, 1, n)[i] = p[i]
<1> DEFINE s == SubSeq(p, 1, n)
<1>1. Len(p) \in Nat
  BY StringsLength DEF Bytes
<1>2. \A i \in 1 .. n : p[i] \in Int
  <2>1. \A i \in 1 .. n : i \in 1 .. Len(p)
    BY <1>1
  <2> QED
    BY <2>1, ElementOfSeq DEF Bytes, Strings
<1>3. /\ s \in Seq(Int)
      /\ Len(s) = IF 1 <= n THEN n - 1 + 1 ELSE 0
      /\ \A i \in 1 .. (n - 1 + 1) : s[i] = p[1 + i - 1]
  BY <1>2, SubSeqProperties
<1> HIDE DEF s
<1>4. Len(s) = n /\ \A i \in 1 .. n : s[i] = p[i]
  BY <1>3
<1> QED
  BY <1>3, <1>4 DEF s, Bytes, Strings

(* Two strings in one, position by position. *)
LEMMA JoinedBytes ==
    ASSUME NEW s \in Bytes, NEW t \in Bytes
    PROVE  /\ Join(s, t) \in Bytes
           /\ Len(Join(s, t)) = Len(s) + Len(t)
           /\ \A i \in 1 .. Len(s) : Join(s, t)[i] = s[i]
           /\ \A i \in 1 .. Len(t) : Join(s, t)[Len(s) + i] = t[i]
<1>1. s \in Strings(Int) /\ t \in Strings(Int)
  BY DEF Bytes
<1> QED
  BY <1>1, Joined, JoinTypes

LEMMA ZerosAreBytes == \A n \in Nat : Zeros(n) \in Bytes /\ Len(Zeros(n)) = n
  BY DEF Zeros, Bytes, Strings

(* Padding on the left does not change the number. *)
LEMMA PaddingKeepsNumber ==
    ASSUME NEW r \in Bytes, Len(r) <= RandomnessWidth
    PROVE  /\ FixedWidth(r) \in Bytes
           /\ Len(FixedWidth(r)) = RandomnessWidth
           /\ Digits(FixedWidth(r)) = Digits(r)
<1>1. Len(r) \in Nat /\ RandomnessWidth \in Nat
  BY StringsLength, WordAssumption DEF Bytes
<1>2. CASE Len(r) < RandomnessWidth
  <2> DEFINE k == RandomnessWidth - Len(r)
             z == Zeros(k)
             padded == Join(z, r)
  <2>1. k \in Nat /\ Len(r) + k = RandomnessWidth
    BY <1>1, <1>2
  <2>2. z \in Bytes /\ Len(z) = k /\ \A i \in 1 .. k : z[i] = 0
    BY <2>1, ZerosAreBytes DEF Zeros
  <2>3. FixedWidth(r) = padded
    BY <1>2 DEF FixedWidth, Join
  <2> HIDE DEF k, z
  <2>4. /\ padded \in Bytes /\ Len(padded) = RandomnessWidth
        /\ \A i \in 1 .. k : padded[i] = 0
        /\ \A i \in 1 .. Len(r) : padded[k + i] = r[i]
    <3>1. /\ Len(padded) = Len(z) + Len(r)
          /\ \A i \in 1 .. Len(z) : padded[i] = z[i]
          /\ \A i \in 1 .. Len(r) : padded[Len(z) + i] = r[i]
      BY <2>2, JoinedBytes
    <3> QED
      BY <1>1, <2>1, <2>2, <3>1, JoinTypes
  <2> HIDE DEF padded
  <2>5. ASSUME NEW i \in 0 .. RandomnessWidth - 1
        PROVE  Digits(padded)[i] = Digits(r)[i]
    <3>1. /\ Digits(padded)[i] = padded[RandomnessWidth - i]
          /\ Digits(r)[i] = IF i < Len(r) THEN r[Len(r) - i] ELSE 0
      BY <1>1, <2>4 DEF Digits
    <3>2. CASE i < Len(r)
      <4>1. Len(r) - i \in 1 .. Len(r) /\ RandomnessWidth - i = k + (Len(r) - i)
        BY <1>1, <2>1, <3>2
      <4> QED
        BY <2>4, <3>1, <3>2, <4>1
    <3>3. CASE ~(i < Len(r))
      <4>1. RandomnessWidth - i \in 1 .. k
        BY <1>1, <2>1, <3>3
      <4> QED
        BY <2>4, <3>1, <3>3, <4>1
    <3> QED
      BY <3>2, <3>3
  <2>6. Digits(padded) = Digits(r)
    BY <2>5 DEF Digits
  <2> QED
    BY <2>3, <2>4, <2>6
<1>3. CASE Len(r) = RandomnessWidth
  <2>1. FixedWidth(r) = SubSeq(r, 1, Len(r))
    BY <1>1, <1>3 DEF FixedWidth
  <2>2. FixedWidth(r) = r
    BY <2>1, SubSeqFull DEF Bytes, Strings
  <2> QED
    BY <1>3, <2>2
<1> QED
  BY <1>1, <1>2, <1>3

(* What is read from a memo that begins with some randomness and a word.    *)
LEMMA MemoRead ==
    ASSUME NEW p \in Bytes, NEW r \in Bytes, Len(r) = RandomnessWidth,
           RandomnessWidth + 2 <= Len(p), NEW n \in Nat,
           \A i \in 1 .. RandomnessWidth : p[i] = r[i],
           p[RandomnessWidth + 1] = n \div Base, p[RandomnessWidth + 2] = n % Base
    PROVE  /\ readMemo(p).randomness = r
           /\ readMemo(p).amount = n
           /\ readMemo(p).txAmount =
                IF RandomnessWidth + 4 <= Len(p)
                THEN Uint(SubSeq(p, RandomnessWidth + 3, RandomnessWidth + 4)) ELSE 0
<1>1. RandomnessWidth \in Nat /\ Len(p) \in Nat
  BY StringsLength, WordAssumption DEF Bytes
<1>2. SubSeq(p, 1, RandomnessWidth) = r
  <2> DEFINE s == SubSeq(p, 1, RandomnessWidth)
  <2>1. /\ s \in Bytes /\ Len(s) = RandomnessWidth
        /\ \A i \in 1 .. RandomnessWidth : s[i] = p[i]
    BY <1>1, BeginningOf
  <2> HIDE DEF s
  <2>2. s \in Seq(Int) /\ r \in Seq(Int) /\ Len(s) = Len(r)
        /\ \A i \in 1 .. Len(s) : s[i] = r[i]
    BY <2>1 DEF Bytes, Strings
  <2> QED
    BY <2>2, SeqEqual DEF s
<1>3. Uint(SubSeq(p, RandomnessWidth + 1, RandomnessWidth + 2)) = n
  BY <1>1, WordRead
<1>4. RandomnessWidth + 1 + 1 = RandomnessWidth + 2
      /\ RandomnessWidth + 3 + 1 = RandomnessWidth + 4
      /\ ~(Len(p) < RandomnessWidth + 2)
      /\ (Len(p) >= RandomnessWidth + 4 <=> RandomnessWidth + 4 <= Len(p))
  BY <1>1
<1> QED
  BY <1>2, <1>3, <1>4 DEF readMemo

(* A memo is read as it was written, in both layouts. *)
LEMMA MemoWrittenRead ==
    ASSUME NEW r \in Bytes, Len(r) <= RandomnessWidth, NEW m \in Nat, NEW n \in Nat
    PROVE  LET payload == memoPayload(r, m, n)
               new == readMemo(payload)
               old == readMemo(SubSeq(payload, 1, RandomnessWidth + 2))
           IN  /\ new.randomness = FixedWidth(r) /\ new.amount = m /\ new.txAmount = n
               /\ old.randomness = FixedWidth(r) /\ old.amount = m /\ old.txAmount = 0
<1> DEFINE f == FixedWidth(r)
           v == PutUint(m)
           w == PutUint(n)
           head == Join(f, v)
           p == Join(head, w)
           q == SubSeq(p, 1, RandomnessWidth + 2)
<1>1. RandomnessWidth \in Nat
  BY WordAssumption
<1>2. f \in Bytes /\ Len(f) = RandomnessWidth
  BY PaddingKeepsNumber
<1>3. memoPayload(r, m, n) = p
  BY DEF memoPayload, Join
<1>types. v \in Bytes /\ w \in Bytes
  BY WordTypes
<1>4. /\ v \in Bytes /\ Len(v) = 2 /\ v[1] = m \div Base /\ v[2] = m % Base
      /\ w \in Bytes /\ Len(w) = 2 /\ w[1] = n \div Base /\ w[2] = n % Base
  BY WordTypes DEF PutUint
<1> HIDE DEF f, v, w
<1>5. /\ head \in Bytes /\ Len(head) = RandomnessWidth + 2
      /\ \A i \in 1 .. RandomnessWidth : head[i] = f[i]
      /\ head[RandomnessWidth + 1] = m \div Base /\ head[RandomnessWidth + 2] = m % Base
  <2>1. /\ Len(head) = Len(f) + Len(v)
        /\ \A i \in 1 .. Len(f) : head[i] = f[i]
        /\ \A i \in 1 .. Len(v) : head[Len(f) + i] = v[i]
    BY <1>2, <1>types, JoinedBytes
  <2> QED
    BY <1>1, <1>2, <1>4, <2>1, JoinTypes
<1> HIDE DEF head
<1>6. /\ p \in Bytes /\ Len(p) = RandomnessWidth + 4
      /\ \A i \in 1 .. RandomnessWidth + 2 : p[i] = head[i]
      /\ p[RandomnessWidth + 3] = n \div Base /\ p[RandomnessWidth + 4] = n % Base
  <2>1. /\ Len(p) = Len(head) + Len(w)
        /\ \A i \in 1 .. Len(head) : p[i] = head[i]
        /\ \A i \in 1 .. Len(w) : p[Len(head) + i] = w[i]
    BY <1>5, <1>types, JoinedBytes
  <2>2. p[(RandomnessWidth + 2) + 1] = n \div Base /\ p[(RandomnessWidth + 2) + 2] = n % Base
    BY <1>4, <1>5, <2>1
  <2>3. (RandomnessWidth + 2) + 1 = RandomnessWidth + 3
        /\ (RandomnessWidth + 2) + 2 = RandomnessWidth + 4
    BY <1>1
  <2> QED
    BY <1>1, <1>4, <1>5, <2>1, <2>2, <2>3, JoinTypes
<1> HIDE DEF p
<1>7. /\ q \in Bytes /\ Len(q) = RandomnessWidth + 2
      /\ \A i \in 1 .. RandomnessWidth + 2 : q[i] = p[i]
  <2>1. RandomnessWidth + 2 \in Nat /\ RandomnessWidth + 2 <= Len(p)
    BY <1>1, <1>6
  <2> QED
    BY <1>6, <2>1, BeginningOf
<1> HIDE DEF q
<1>8. /\ readMemo(p).randomness = f /\ readMemo(p).amount = m /\ readMemo(p).txAmount = n
  <2>1. /\ RandomnessWidth + 2 <= Len(p)
        /\ \A i \in 1 .. RandomnessWidth : p[i] = f[i]
        /\ p[RandomnessWidth + 1] = m \div Base /\ p[RandomnessWidth + 2] = m % Base
    BY <1>1, <1>5, <1>6
  <2>2. /\ RandomnessWidth + 2 \in Nat /\ (RandomnessWidth + 2) + 2 <= Len(p)
        /\ (RandomnessWidth + 2) + 1 = RandomnessWidth + 3
        /\ (RandomnessWidth + 2) + 2 = RandomnessWidth + 4
    BY <1>1, <1>6
  <2>3. Uint(SubSeq(p, (RandomnessWidth + 2) + 1, (RandomnessWidth + 2) + 2)) = n
    BY <1>6, <2>2, WordRead
  <2> QED
    BY <1>1, <1>2, <1>6, <2>1, <2>2, <2>3, MemoRead
<1>9. /\ readMemo(q).randomness = f /\ readMemo(q).amount = m /\ readMemo(q).txAmount = 0
  <2>1. /\ RandomnessWidth + 2 <= Len(q) /\ ~(RandomnessWidth + 4 <= Len(q))
        /\ \A i \in 1 .. RandomnessWidth : q[i] = f[i]
        /\ q[RandomnessWidth + 1] = m \div Base /\ q[RandomnessWidth + 2] = m % Base
    BY <1>1, <1>5, <1>6, <1>7
  <2> QED
    BY <1>2, <1>7, <2>1, MemoRead
<1> QED
  BY <1>3, <1>8, <1>9 DEF f, q

(* Memos read back, for all randomness that fits, all words and both        *)
(* layouts.                                                                 *)
THEOREM MemosReadBack == EncodingSpec => []MemoReadsBack
<1>1. TwoUses => MemoReadsBack
  <2> SUFFICES ASSUME TwoUses
               PROVE  MemoReadsBack
    OBVIOUS
  <2>1. one.Denom \in Bytes /\ one.Amount \in Nat /\ two.Amount \in Nat
    BY ContextTypes DEF TwoUses, IsContext
  <2> QED
    BY <2>1, MemoWrittenRead, PaddingKeepsNumber DEF MemoReadsBack
<1> QED
  BY <1>1, TwoUsesStay, PTL
=============================================================================
