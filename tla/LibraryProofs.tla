--------------------------- MODULE LibraryProofs ---------------------------
(***************************************************************************)
(* Facts about the operators the models are built from: the total of a      *)
(* function over a finite set, and strings (sequences of bytes or of larger *)
(* chunks) that are joined and read back.                                   *)
(***************************************************************************)
EXTENDS Totals, SequencesExt, FiniteSetTheorems, SequenceTheorems, TLAPS

(***************************************************************************)
(* Totals: changing a function at one point changes its total by the        *)
(* difference, and a value of the function is at most its total.            *)
(***************************************************************************)

(* The units of one account: as many as its value. *)
LEMMA OneAccount ==
    ASSUME NEW a, NEW n \in Nat
    PROVE  /\ IsFiniteSet({a} \X (1 .. n))
           /\ Cardinality({a} \X (1 .. n)) = n
<1>1. IsFiniteSet({a}) /\ Cardinality({a}) = 1
  BY FS_Singleton
<1>2. IsFiniteSet(1 .. n) /\ Cardinality(1 .. n) = n
  BY FS_Interval
<1>3. /\ IsFiniteSet({a} \X (1 .. n))
      /\ Cardinality({a} \X (1 .. n)) = Cardinality({a}) * Cardinality(1 .. n)
  BY <1>1, <1>2, FS_Product
<1> QED
  BY <1>1, <1>2, <1>3

(* Finitely many accounts have finitely many units. *)
LEMMA UnitsFinite ==
    ASSUME NEW S, IsFiniteSet(S), NEW f \in [S -> Nat]
    PROVE  IsFiniteSet(Units(f)) /\ Total(f) \in Nat
<1> DEFINE Family == {{a} \X (1 .. f[a]) : a \in S}
           F == [a \in S |-> {a} \X (1 .. f[a])]
<1>1. F \in Surjection(S, Family)
  BY DEF Surjection
<1>2. IsFiniteSet(Family)
  BY <1>1, FS_Surjection
<1>3. \A T \in Family : IsFiniteSet(T)
  <2>1. TAKE T \in Family
  <2>2. PICK a \in S : T = {a} \X (1 .. f[a])
    OBVIOUS
  <2>3. f[a] \in Nat
    OBVIOUS
  <2> QED
    BY <2>2, <2>3, OneAccount
<1>4. IsFiniteSet(UNION Family)
  BY <1>2, <1>3, FS_UNION
<1>5. Units(f) = UNION Family
  BY DEF Units
<1> QED
  BY <1>4, <1>5, FS_CardinalityType DEF Total

(* Taking one account out of the total leaves what does not depend on its   *)
(* value.                                                                   *)
LEMMA SplitAccount ==
    ASSUME NEW S, IsFiniteSet(S), NEW f \in [S -> Nat], NEW a \in S
    PROVE  LET Rest == UNION {{b} \X (1 .. f[b]) : b \in S \ {a}}
           IN  /\ IsFiniteSet(Rest)
               /\ Cardinality(Rest) \in Nat
               /\ Total(f) = Cardinality(Rest) + f[a]
<1> DEFINE Rest == UNION {{b} \X (1 .. f[b]) : b \in S \ {a}}
           Own == {a} \X (1 .. f[a])
<1>1. f[a] \in Nat
  OBVIOUS
<1>2. IsFiniteSet(Own) /\ Cardinality(Own) = f[a]
  BY <1>1, OneAccount
<1>3. Units(f) = Rest \cup Own
  BY DEF Units
<1>4. Rest \cap Own = {}
  OBVIOUS
<1>5. IsFiniteSet(Units(f))
  BY UnitsFinite
<1>6. IsFiniteSet(Rest)
  BY <1>3, <1>5, FS_Subset
<1>7. Cardinality(Rest \cup Own)
        = Cardinality(Rest) + Cardinality(Own) - Cardinality(Rest \cap Own)
  BY <1>2, <1>6, FS_Union
<1>8. Cardinality(Rest \cap Own) = 0
  BY <1>4, FS_EmptySet
<1>9. Cardinality(Rest) \in Nat
  BY <1>6, FS_CardinalityType
<1> HIDE DEF Rest, Own
<1>10. Total(f) = Cardinality(Rest) + f[a]
  BY <1>1, <1>2, <1>3, <1>7, <1>8, <1>9 DEF Total
<1>11. /\ IsFiniteSet(Rest)
       /\ Cardinality(Rest) \in Nat
       /\ Total(f) = Cardinality(Rest) + f[a]
  BY <1>6, <1>9, <1>10
<1> QED
  BY <1>11 DEF Rest

(* Functions that differ at one account have totals that differ by as much. *)
LEMMA TotalChange ==
    ASSUME NEW S, IsFiniteSet(S), NEW f \in [S -> Nat], NEW g \in [S -> Nat],
           NEW a \in S, \A b \in S \ {a} : f[b] = g[b]
    PROVE  /\ Total(f) \in Nat /\ Total(g) \in Nat
           /\ Total(g) = Total(f) - f[a] + g[a]
           /\ f[a] <= Total(f)
<1> DEFINE Rest(h) == UNION {{b} \X (1 .. h[b]) : b \in S \ {a}}
<1>1. Rest(f) = Rest(g)
  OBVIOUS
<1>2. Cardinality(Rest(f)) \in Nat /\ Total(f) = Cardinality(Rest(f)) + f[a]
  BY SplitAccount
<1>3. Cardinality(Rest(g)) \in Nat /\ Total(g) = Cardinality(Rest(g)) + g[a]
  BY SplitAccount
<1>4. f[a] \in Nat /\ g[a] \in Nat
  OBVIOUS
<1> HIDE DEF Rest
<1> QED
  BY <1>1, <1>2, <1>3, <1>4

(* The total of a function that is 0 everywhere. *)
LEMMA TotalZero ==
    ASSUME NEW S, NEW f \in [S -> Nat], \A a \in S : f[a] = 0
    PROVE  Total(f) = 0
<1>1. Units(f) = {}
  BY DEF Units
<1> QED
  BY <1>1, FS_EmptySet DEF Total

(***************************************************************************)
(* Strings over any set.  Both operators stay folded in the proofs that use *)
(* the lemmas.                                                              *)
(***************************************************************************)

Strings(S) == Seq(S)

Join(s, t) == s \o t

LEMMA StringsJoin == \A S : \A s, t \in Strings(S) : Join(s, t) \in Strings(S)
  BY ConcatProperties DEF Strings, Join

LEMMA JoinAssociative ==
    \A S : \A s, t, u \in Strings(S) : Join(Join(s, t), u) = Join(s, Join(t, u))
<1> TAKE S
<1> TAKE s, t, u \in Strings(S)
<1>1. s \in Seq(S) /\ t \in Seq(S) /\ u \in Seq(S)
  BY Zenon DEF Strings
<1>2. (s \o t) \o u = s \o (t \o u)
  BY <1>1, ConcatAssociative, SMT
<1> QED
  BY <1>2, Zenon DEF Join

LEMMA StringsLength == \A S : \A s \in Strings(S) : Len(s) \in Nat
  BY LenProperties DEF Strings

(* Joined strings, position by position. *)
LEMMA Joined ==
    ASSUME NEW S, NEW s \in Strings(S), NEW t \in Strings(S)
    PROVE  /\ Len(s) \in Nat /\ Len(t) \in Nat
           /\ Len(Join(s, t)) = Len(s) + Len(t)
           /\ \A i \in 1 .. Len(s) : Join(s, t)[i] = s[i]
           /\ \A i \in 1 .. Len(t) : Join(s, t)[Len(s) + i] = t[i]
<1>1. Len(s) \in Nat /\ Len(t) \in Nat
  BY LenProperties DEF Strings
<1>2. /\ Len(Join(s, t)) = Len(s) + Len(t)
      /\ \A i \in 1 .. Len(s) + Len(t) :
           Join(s, t)[i] = IF i <= Len(s) THEN s[i] ELSE t[i - Len(s)]
  BY ConcatProperties DEF Strings, Join
<1>3. \A i \in 1 .. Len(t) : Join(s, t)[Len(s) + i] = t[i]
  <2> TAKE i \in 1 .. Len(t)
  <2>1. /\ Len(s) + i \in 1 .. Len(s) + Len(t)
        /\ ~(Len(s) + i <= Len(s))
        /\ (Len(s) + i) - Len(s) = i
    BY <1>1
  <2> QED
    BY <1>2, <2>1
<1> QED
  BY <1>1, <1>2, <1>3

LEMMA JoinLength ==
    \A S : \A s, t \in Strings(S) : Len(Join(s, t)) = Len(s) + Len(t)
  BY Joined

(* Equal strings whose beginnings have one length have equal parts. *)
LEMMA JoinSplits ==
    \A S : \A s, t, u, v \in Strings(S) :
        Len(s) = Len(u) /\ Join(s, t) = Join(u, v) => s = u /\ t = v
<1> SUFFICES ASSUME NEW S, NEW s \in Strings(S), NEW t \in Strings(S),
                    NEW u \in Strings(S), NEW v \in Strings(S),
                    Len(s) = Len(u), Join(s, t) = Join(u, v)
             PROVE  s = u /\ t = v
  OBVIOUS
<1>1. s = u
  <2>1. /\ \A i \in 1 .. Len(s) : Join(s, t)[i] = s[i]
        /\ \A i \in 1 .. Len(u) : Join(u, v)[i] = u[i]
    BY Joined
  <2>2. \A i \in 1 .. Len(s) : s[i] = u[i]
    BY <2>1
  <2> QED
    BY <2>2, SeqEqual DEF Strings
<1>2. t = v
  BY <1>1, ConcatSimplifications DEF Strings, Join
<1> QED
  BY <1>1, <1>2

(* A part of a string, position by position. *)
LEMMA PartOf ==
    ASSUME NEW S, NEW s \in Strings(S), NEW m \in Nat, NEW n \in Nat, m + n <= Len(s)
    PROVE  /\ SubSeq(s, m + 1, m + n) \in Strings(S)
           /\ Len(SubSeq(s, m + 1, m + n)) = n
           /\ \A i \in 1 .. n : SubSeq(s, m + 1, m + n)[i] = s[m + i]
<1>1. Len(s) \in Nat
  BY LenProperties DEF Strings
<1>2. \A i \in (m + 1) .. (m + n) : s[i] \in S
  <2>1. \A i \in (m + 1) .. (m + n) : i \in 1 .. Len(s)
    BY <1>1
  <2> QED
    BY <2>1, ElementOfSeq DEF Strings
<1>3. m + 1 \in Int /\ m + n \in Int
  OBVIOUS
<1> DEFINE p == SubSeq(s, m + 1, m + n)
<1>4. /\ p \in Seq(S)
      /\ Len(p) = IF m + 1 <= m + n THEN m + n - (m + 1) + 1 ELSE 0
      /\ \A i \in 1 .. (m + n - (m + 1) + 1) : p[i] = s[m + 1 + i - 1]
  BY <1>2, <1>3, SubSeqProperties
<1> HIDE DEF p
<1>5. Len(p) = n
  BY <1>4
<1>6. \A i \in 1 .. n : p[i] = s[m + i]
  <2> TAKE i \in 1 .. n
  <2>1. i \in 1 .. (m + n - (m + 1) + 1) /\ m + 1 + i - 1 = m + i
    OBVIOUS
  <2> QED
    BY <1>4, <2>1
<1> QED
  BY <1>4, <1>5, <1>6 DEF p, Strings

(* A string begins another one exactly if the other is joined from it.      *)
LEMMA PrefixPositions ==
    ASSUME NEW S, NEW s \in Strings(S), NEW t \in Strings(S)
    PROVE  IsPrefix(s, t) <=> Len(s) <= Len(t) /\ \A i \in 1 .. Len(s) : s[i] = t[i]
<1> DEFINE n == Len(s)
           sn == SubSeq(s, 1, n)
           tn == SubSeq(t, 1, n)
<1>1. n \in Nat /\ Len(t) \in Nat
  BY LenProperties DEF Strings
<1> SUFFICES ASSUME n <= Len(t)
             PROVE  sn = tn <=> \A i \in 1 .. n : s[i] = t[i]
  BY DEF IsPrefix
<1>2. /\ sn \in Strings(S) /\ Len(sn) = n /\ \A i \in 1 .. n : sn[i] = s[i]
      /\ tn \in Strings(S) /\ Len(tn) = n /\ \A i \in 1 .. n : tn[i] = t[i]
  <2>1. 0 \in Nat /\ 0 + n <= Len(s) /\ 0 + n <= Len(t)
    BY <1>1
  <2>2. /\ SubSeq(s, 0 + 1, 0 + n) \in Strings(S) /\ Len(SubSeq(s, 0 + 1, 0 + n)) = n
        /\ \A i \in 1 .. n : SubSeq(s, 0 + 1, 0 + n)[i] = s[0 + i]
    BY <1>1, <2>1, PartOf
  <2>3. /\ SubSeq(t, 0 + 1, 0 + n) \in Strings(S) /\ Len(SubSeq(t, 0 + 1, 0 + n)) = n
        /\ \A i \in 1 .. n : SubSeq(t, 0 + 1, 0 + n)[i] = t[0 + i]
    BY <1>1, <2>1, PartOf
  <2>4. 0 + 1 = 1 /\ 0 + n = n /\ \A i \in 1 .. n : 0 + i = i
    BY <1>1
  <2> QED
    BY <2>2, <2>3, <2>4
<1> HIDE DEF sn, tn
<1>3. (\A i \in 1 .. n : s[i] = t[i]) => sn = tn
  <2> SUFFICES ASSUME \A i \in 1 .. n : s[i] = t[i]
               PROVE  sn = tn
    OBVIOUS
  <2>1. \A i \in 1 .. Len(sn) : sn[i] = tn[i]
    BY <1>2
  <2> QED
    BY <1>2, <2>1, SeqEqual DEF Strings
<1> QED
  BY <1>2, <1>3

LEMMA PrefixOfJoin == \A S : \A s, t \in Strings(S) : IsPrefix(s, Join(s, t))
<1> SUFFICES ASSUME NEW S, NEW s \in Strings(S), NEW t \in Strings(S)
             PROVE  IsPrefix(s, Join(s, t))
  OBVIOUS
<1>1. Join(s, t) \in Strings(S)
  BY StringsJoin
<1>2. /\ Len(s) \in Nat /\ Len(t) \in Nat /\ Len(Join(s, t)) = Len(s) + Len(t)
      /\ \A i \in 1 .. Len(s) : Join(s, t)[i] = s[i]
  BY Joined
<1>3. Len(s) <= Len(Join(s, t))
  BY <1>2
<1> QED
  BY <1>1, <1>2, <1>3, PrefixPositions

(* What follows the first part of a joined string is its second part.       *)
LEMMA PartAfter ==
    \A S : \A s, t \in Strings(S) :
        SubSeq(Join(s, t), Len(s) + 1, Len(Join(s, t))) = t
<1> SUFFICES ASSUME NEW S, NEW s \in Strings(S), NEW t \in Strings(S)
             PROVE  SubSeq(Join(s, t), Len(s) + 1, Len(Join(s, t))) = t
  OBVIOUS
<1>1. Join(s, t) \in Strings(S)
  BY StringsJoin
<1>2. /\ Len(s) \in Nat /\ Len(t) \in Nat /\ Len(Join(s, t)) = Len(s) + Len(t)
      /\ \A i \in 1 .. Len(t) : Join(s, t)[Len(s) + i] = t[i]
  BY Joined
<1> DEFINE p == SubSeq(Join(s, t), Len(s) + 1, Len(s) + Len(t))
<1>3. /\ p \in Strings(S) /\ Len(p) = Len(t)
      /\ \A i \in 1 .. Len(t) : p[i] = Join(s, t)[Len(s) + i]
  <2> DEFINE u == Join(s, t)
             m == Len(s)
             n == Len(t)
  <2>1. u \in Strings(S) /\ m \in Nat /\ n \in Nat /\ m + n <= Len(u)
    BY <1>1, <1>2
  <2> HIDE DEF u, m, n
  <2>2. /\ SubSeq(u, m + 1, m + n) \in Strings(S)
        /\ Len(SubSeq(u, m + 1, m + n)) = n
        /\ \A i \in 1 .. n : SubSeq(u, m + 1, m + n)[i] = u[m + i]
    BY <2>1, PartOf
  <2> QED
    BY <2>2 DEF u, m, n
<1> HIDE DEF p
<1>4. \A i \in 1 .. Len(p) : p[i] = t[i]
  BY <1>2, <1>3
<1>5. p = t
  BY <1>3, <1>4, SeqEqual DEF Strings
<1> QED
  BY <1>2, <1>5 DEF p

LEMMA PrefixSplits ==
    \A S : \A s, u \in Strings(S) :
        IsPrefix(s, u) => \E t \in Strings(S) : u = Join(s, t)
<1> SUFFICES ASSUME NEW S, NEW s \in Strings(S), NEW u \in Strings(S), IsPrefix(s, u)
             PROVE  \E t \in Strings(S) : u = Join(s, t)
  OBVIOUS
<1> DEFINE m == Len(s)
           n == Len(u)
           t == SubSeq(u, m + 1, n)
<1>1. /\ s \in Seq(S) /\ u \in Seq(S) /\ m \in Nat /\ n \in Nat /\ m <= n
      /\ SubSeq(s, 1, m) = SubSeq(u, 1, m)
  BY PrefixPositions, StringsLength DEF Strings, IsPrefix
<1>2. SubSeq(s, 1, m) = s /\ SubSeq(u, 1, n) = u
  BY <1>1, SubSeqFull
<1>3. SubSeq(u, 1, m) \o SubSeq(u, m + 1, n) = SubSeq(u, 1, n)
  <2>1. 1 \in 1 .. Len(u) + 1 /\ m \in 1 - 1 .. Len(u) /\ n \in m .. Len(u)
    BY <1>1
  <2> QED
    BY <1>1, <2>1, ConcatAdjacentSubSeq
<1>4. t \in Strings(S)
  <2>1. (n - m) \in Nat /\ m + (n - m) <= Len(u) /\ m + (n - m) = n
    BY <1>1
  <2>2. SubSeq(u, m + 1, m + (n - m)) \in Strings(S)
    BY <1>1, <2>1, PartOf
  <2> QED
    BY <2>1, <2>2
<1> HIDE DEF m, n, t
<1>5. u = s \o t
  BY <1>1, <1>2, <1>3 DEF t
<1> QED
  BY <1>4, <1>5 DEF Join

(* If no string of A goes on, after a separator, where another one ends,    *)
(* the separator ends it: what follows may contain the separator again.     *)
LEMMA SeparatorRead ==
    ASSUME NEW S, NEW c, <<c>> \in Strings(S), NEW A, A \subseteq Strings(S),
           \A a, b \in A : IsPrefix(Join(a, <<c>>), b) => a = b
    PROVE  \A a, b \in A : \A t, v \in Strings(S) :
               Join(Join(a, <<c>>), t) = Join(Join(b, <<c>>), v) => a = b /\ t = v
<1> DEFINE Ended(a) == Join(a, <<c>>)
<1>1. \A a \in A : a \in Strings(S) /\ Len(a) \in Nat
  BY StringsLength
<1>2. Len(<<c>>) = 1
  OBVIOUS
<1>3. \A a \in A : Ended(a) \in Strings(S) /\ Len(Ended(a)) = Len(a) + 1
  BY <1>1, <1>2, StringsJoin, JoinLength
<1>4. ASSUME NEW a \in A, NEW b \in A, NEW t \in Strings(S), NEW v \in Strings(S),
             Len(a) < Len(b), Join(Ended(a), t) = Join(Ended(b), v)
      PROVE  FALSE
  <2>1. Join(<<c>>, v) \in Strings(S)
    BY StringsJoin
  <2>2. Join(Ended(b), v) = Join(b, Join(<<c>>, v))
    BY <1>1, JoinAssociative
  <2> HIDE DEF Ended
  <2>3. \A i \in 1 .. Len(Ended(a)) : Join(Ended(a), t)[i] = Ended(a)[i]
    <3>1. Ended(a) \in Strings(S)
      BY <1>3
    <3> QED
      BY <3>1, Joined
  <2>4. \A i \in 1 .. Len(b) : Join(b, Join(<<c>>, v))[i] = b[i]
    BY <1>1, <2>1, Joined
  <2>5. \A i \in 1 .. Len(Ended(a)) : Ended(a)[i] = b[i]
    <3> TAKE i \in 1 .. Len(Ended(a))
    <3>1. i \in 1 .. Len(b)
      BY <1>1, <1>3, <1>4
    <3> QED
      BY <1>4, <2>2, <2>3, <2>4, <3>1
  <2>6. Ended(a) \in Strings(S) /\ b \in Strings(S) /\ Len(Ended(a)) <= Len(b)
    BY <1>1, <1>3, <1>4
  <2>7. IsPrefix(Ended(a), b)
    BY <2>5, <2>6, PrefixPositions, Zenon
  <2>8. a = b
    BY <2>7, Zenon DEF Ended
  <2> QED
    BY <1>1, <1>4, <2>8
<1> SUFFICES ASSUME NEW a \in A, NEW b \in A, NEW t \in Strings(S), NEW v \in Strings(S),
                    Join(Ended(a), t) = Join(Ended(b), v)
             PROVE  a = b /\ t = v
  OBVIOUS
<1> HIDE DEF Ended
<1>5. Len(a) = Len(b)
  BY <1>1, <1>4
<1>6. Ended(a) = Ended(b) /\ t = v
  BY <1>3, <1>5, JoinSplits
<1> QED
  BY <1>1, <1>5, <1>6, JoinSplits DEF Ended
=============================================================================
