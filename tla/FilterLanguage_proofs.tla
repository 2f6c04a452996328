----------------------- MODULE FilterLanguage_proofs -----------------------
(***************************************************************************)
(* Proofs about FilterLanguage and FilterPrinting, for every alphabet,     *)
(* every condition and every filter: a text that keeps to the grammar is   *)
(* read as it is meant, filters that are joined are read as all of them,   *)
(* one by one, and the canonical form of what was read is read as that.    *)
(***************************************************************************)
EXTENDS FilterPrinting, FiniteSetTheorems, SequenceTheorems, WellFoundedInduction, TLAPS

\* A set of naturals with 0 and the successors of its elements has them all.
LEMMA Climbing ==
  ASSUME NEW S \in SUBSET Nat, 0 \in S, \A n \in S : n + 1 \in S
  PROVE  S = Nat
<1> DEFINE T == Nat \ S
           R == OpToRel(<, Nat)
<1>1. \A i, j \in Nat : <<i, j>> \in R <=> i < j
  BY DEF OpToRel
<1>2. SUFFICES ASSUME T # {} PROVE FALSE
  OBVIOUS
<1>3. IsWellFoundedOn(R, Nat)
  BY NatLessThanWellFounded
<1> HIDE DEF R
<1>4. PICK n \in T : \A k \in T : <<k, n>> \notin R
  BY <1>2, <1>3, WFMin
<1>5. n \in Nat /\ n # 0 /\ n - 1 \in Nat /\ (n - 1) + 1 = n /\ n - 1 < n
  BY <1>4
<1>6. n - 1 \in S
  BY <1>1, <1>4, <1>5
<1> QED BY <1>4, <1>5, <1>6
-----------------------------------------------------------------------------
(* Sequences. *)

LEMMA Unappend ==
  ASSUME NEW S, NEW v \in Seq(S), NEW k \in Nat, Len(v) = k + 1
  PROVE  \E u \in Seq(S), x \in S : v = Append(u, x) /\ Len(u) = k
<1>1. PICK u \in Seq(S), x \in S : v = Append(u, x)
  BY SequenceEmptyOrAppend
<1> QED BY <1>1

LEMMA ConcatAppend ==
  ASSUME NEW S, NEW u \in Seq(S), NEW v \in Seq(S), NEW x \in S
  PROVE  u \o Append(v, x) = Append(u \o v, x)
<1>1. Append(v, x) = v \o <<x>> /\ Append(u \o v, x) = (u \o v) \o <<x>>
  BY AppendIsConcat
<1> QED BY <1>1, ConcatAssociative

\* Concatenation by a name, which is expanded only where it matters what it does.
Cat(a, b) == a \o b

\* A set of sequences that concatenation does not leave.
Joining(Q) ==
  /\ <<>> \in Q
  /\ \A a, b \in Q : Cat(a, b) \in Q /\ Cat(<<>>, a) = a /\ Cat(a, <<>>) = a
  /\ \A a, b, c \in Q : Cat(Cat(a, b), c) = Cat(a, Cat(b, c))

LEMMA SequencesJoin == ASSUME NEW S PROVE Joining(Seq(S))
<1>1. ASSUME NEW a \in Seq(S), NEW b \in Seq(S) PROVE Cat(a, b) \in Seq(S) /\ Cat(<<>>, a) = a /\ Cat(a, <<>>) = a
  BY ConcatProperties, ConcatEmptySeq DEF Cat
<1>2. ASSUME NEW a \in Seq(S), NEW b \in Seq(S), NEW c \in Seq(S) PROVE Cat(Cat(a, b), c) = Cat(a, Cat(b, c))
  BY ConcatAssociative DEF Cat
<1> QED BY <1>1, <1>2, EmptySeq DEF Joining

LEMMA CatIn ==
  ASSUME NEW Q, Joining(Q), NEW a \in Q, NEW b \in Q
  PROVE  <<>> \in Q /\ Cat(a, b) \in Q /\ Cat(<<>>, a) = a /\ Cat(a, <<>>) = a
  BY DEF Joining

LEMMA CatAssocIn ==
  ASSUME NEW Q, Joining(Q), NEW a \in Q, NEW b \in Q, NEW c \in Q
  PROVE  Cat(Cat(a, b), c) = Cat(a, Cat(b, c))
  BY DEF Joining

\* FlattenSeq as a table of what the first of its sequences make.
LEMMA FlatTable ==
  ASSUME NEW Q, Joining(Q),
         NEW ss, NEW N \in Nat \ {0}, Len(ss) = N, \A i \in 1..N : ss[i] \in Q
  PROVE  \E t \in [1..N -> Q] :
           /\ t[1] = ss[1] /\ FlattenSeq(ss) = t[N]
           /\ \A i \in 1..N : i # 1 => t[i] = Cat(t[i - 1], ss[i])
<1> DEFINE F(f) == [i \in 1..N |-> IF i = 1 THEN ss[i] ELSE Cat(f[i - 1], ss[i])]
           pa == CHOOSE f : f = F(f)
           Table(n, t) == /\ t \in [1..n -> Q] /\ t[1] = ss[1]
                          /\ \A i \in 1..n : i # 1 => t[i] = Cat(t[i - 1], ss[i])
           K == {n \in Nat : n + 1 <= N => \E t : Table(n + 1, t)}
<1>1. 1 \in 1..N
  OBVIOUS
<1>2. 0 \in K
  <2> DEFINE t == [i \in 1..1 |-> ss[1]]
  <2>1. Table(0 + 1, t)
    BY <1>1
  <2> HIDE DEF t, Table
  <2> QED BY <2>1
<1>3. ASSUME NEW n \in K PROVE n + 1 \in K
  <2>1. n \in Nat /\ (n + 1) + 1 = n + 2
    OBVIOUS
  <2>2. SUFFICES ASSUME n + 2 <= N PROVE \E t : Table(n + 2, t)
    <3> HIDE DEF Table
    <3> QED BY <2>1
  <2>3. PICK t : Table(n + 1, t)
    <3> HIDE DEF Table
    <3> QED BY <2>1, <2>2
  <2> DEFINE x == Cat(t[n + 1], ss[n + 2])
             u == [i \in 1..(n + 2) |-> IF i = n + 2 THEN x ELSE t[i]]
  <2>4. x \in Q
    BY <2>1, <2>2, <2>3 DEF Joining
  <2>5. u \in [1..(n + 2) -> Q] /\ u[1] = ss[1]
    <3> HIDE DEF x
    <3> QED BY <2>1, <2>3, <2>4
  <2>6. ASSUME NEW i \in 1..(n + 2), i # 1 PROVE u[i] = Cat(u[i - 1], ss[i])
    <3>1. CASE i = n + 2
      <4>1. u[n + 2] = x /\ u[n + 1] = t[n + 1] /\ (n + 2) - 1 = n + 1
        <5> HIDE DEF x
        <5> QED BY <2>1
      <4> HIDE DEF u
      <4> QED BY <3>1, <4>1
    <3>2. CASE i # n + 2
      <4>1. i \in 1..(n + 1) /\ i - 1 \in 1..(n + 1) /\ u[i] = t[i] /\ u[i - 1] = t[i - 1]
        <5> HIDE DEF x
        <5> QED BY <2>1, <2>6, <3>2
      <4> HIDE DEF u
      <4> QED BY <2>3, <2>6, <4>1
    <3> QED BY <3>1, <3>2
  <2>7. Table(n + 2, u)
    <3> HIDE DEF u
    <3> QED BY <2>5, <2>6
  <2> HIDE DEF Table, u
  <2> QED BY <2>7
<1> HIDE DEF K
<1>4. K = Nat
  BY <1>2, <1>3, Climbing DEF K
<1>5. PICK t : Table(N, t)
  <2>1. N - 1 \in K /\ (N - 1) + 1 = N
    BY <1>4
  <2> HIDE DEF Table
  <2> QED BY <2>1 DEF K
<1>6. t = F(t)
  BY <1>5
<1>7. pa = F(pa)
  <2> HIDE DEF F
  <2> QED BY <1>6
<1>8. FlattenSeq(ss) = pa[N]
  BY DEF FlattenSeq, Cat
<1> HIDE DEF pa
<1>9. pa[1] = ss[1] /\ \A i \in 1..N : i # 1 => pa[i] = Cat(pa[i - 1], ss[i])
  <2>1. \A i \in 1..N : pa[i] = F(pa)[i]
    <3> HIDE DEF F
    <3> QED BY <1>7
  <2>2. \A i \in 1..N : F(pa)[i] = IF i = 1 THEN ss[i] ELSE Cat(pa[i - 1], ss[i])
    OBVIOUS
  <2> HIDE DEF F
  <2> QED BY <1>1, <2>1, <2>2
<1>10. pa[N] = t[N]
  <2> DEFINE M == {n \in Nat : n \in 1..N => pa[n] = t[n]}
  <2>1. 0 \in M
    OBVIOUS
  <2>2. ASSUME NEW n \in M, n + 1 \in 1..N PROVE pa[n + 1] = t[n + 1]
    <3>1. CASE n = 0
      BY <1>5, <1>9, <3>1
    <3>2. CASE n # 0
      <4>1. n \in 1..N /\ pa[n] = t[n] /\ (n + 1) - 1 = n /\ n + 1 # 1
        BY <2>2, <3>2
      <4>2. pa[n + 1] = Cat(pa[n], ss[n + 1])
        BY <1>9, <2>2, <4>1
      <4>3. t[n + 1] = Cat(t[n], ss[n + 1])
        BY <1>5, <2>2, <4>1
      <4> QED BY <4>1, <4>2, <4>3
    <3> QED BY <3>1, <3>2
  <2>3. \A n \in M : n + 1 \in M
    BY <2>2
  <2> HIDE DEF M
  <2>4. M = Nat
    BY <2>1, <2>3, Climbing DEF M
  <2> QED BY <2>4 DEF M
<1> QED BY <1>5, <1>8, <1>10
-----------------------------------------------------------------------------
LEMMA FlatEmpty == FlattenSeq(<<>>) = <<>>
  BY DEF FlattenSeq

Each(Q, ss, N) == \A i \in 1..N : ss[i] \in Q
FlatBy(Q, ss, N, t) ==
  /\ t \in [1..N -> Q] /\ t[1] = ss[1] /\ FlattenSeq(ss) = t[N]
  /\ \A i \in 1..N : i # 1 => t[i] = Cat(t[i - 1], ss[i])

LEMMA FlatTableBy ==
  ASSUME NEW Q, Joining(Q), NEW ss, NEW N \in Nat \ {0}, Len(ss) = N, Each(Q, ss, N)
  PROVE  \E t : FlatBy(Q, ss, N, t)
<1>1. \A i \in 1..N : ss[i] \in Q
  BY DEF Each
<1>2. PICK t \in [1..N -> Q] :
        /\ t[1] = ss[1] /\ FlattenSeq(ss) = t[N]
        /\ \A i \in 1..N : i # 1 => t[i] = Cat(t[i - 1], ss[i])
  BY <1>1, FlatTable
<1>3. FlatBy(Q, ss, N, t)
  BY <1>2 DEF FlatBy
<1> QED BY <1>3

\* One sequence more.
LEMMA FlatStep ==
  ASSUME NEW Q, Joining(Q), NEW N \in Nat \ {0}, NEW P \in Nat \ {0}, P = N + 1,
         NEW ss, Len(ss) = N, \A i \in 1..N : ss[i] \in Q,
         NEW rs, Len(rs) = P, \A i \in 1..P : rs[i] \in Q, \A i \in 1..N : rs[i] = ss[i]
  PROVE  FlattenSeq(ss) \in Q /\ FlattenSeq(rs) = Cat(FlattenSeq(ss), rs[P])
<1>1. PICK u \in [1..P -> Q] :
        /\ u[1] = rs[1] /\ FlattenSeq(rs) = u[P]
        /\ \A i \in 1..P : i # 1 => u[i] = Cat(u[i - 1], rs[i])
  <2>1. Each(Q, rs, P)
    BY DEF Each
  <2>2. PICK u : FlatBy(Q, rs, P, u)
    BY <2>1, FlatTableBy
  <2> QED BY <2>2 DEF FlatBy
<1>2. PICK t \in [1..N -> Q] :
        /\ t[1] = ss[1] /\ FlattenSeq(ss) = t[N]
        /\ \A i \in 1..N : i # 1 => t[i] = Cat(t[i - 1], ss[i])
  <2>1. Each(Q, ss, N)
    BY DEF Each
  <2>2. PICK t : FlatBy(Q, ss, N, t)
    BY <2>1, FlatTableBy
  <2> QED BY <2>2 DEF FlatBy
<1>3. t[N] = u[N]
  <2> DEFINE M == {n \in Nat : n \in 1..N => t[n] = u[n]}
  <2>1. 0 \in M
    OBVIOUS
  <2>2. ASSUME NEW n \in M, n + 1 \in 1..N PROVE t[n + 1] = u[n + 1]
    <3>1. CASE n = 0
      <4>1. n + 1 = 1 /\ 1 \in 1..N
        BY <2>2, <3>1
      <4> QED BY <1>1, <1>2, <4>1
    <3>2. CASE n # 0
      <4>1. n \in 1..N /\ t[n] = u[n] /\ (n + 1) - 1 = n /\ n + 1 # 1 /\ n + 1 \in 1..P
        BY <2>2, <3>2
      <4>2. t[n + 1] = Cat(t[n], ss[n + 1])
        BY <1>2, <2>2, <4>1
      <4>3. u[n + 1] = Cat(u[n], rs[n + 1])
        BY <1>1, <4>1
      <4> QED BY <2>2, <4>1, <4>2, <4>3
    <3> QED BY <3>1, <3>2
  <2>3. \A n \in M : n + 1 \in M
    BY <2>2
  <2> HIDE DEF M
  <2>4. M = Nat
    BY <2>1, <2>3, Climbing DEF M
  <2> QED BY <2>4 DEF M
<1>4. P \in 1..P /\ P # 1 /\ P - 1 = N
  OBVIOUS
<1> QED BY <1>1, <1>2, <1>3, <1>4

LEMMA FlatHead ==
  ASSUME NEW Q, Joining(Q), NEW N \in Nat \ {0}, NEW ss, Len(ss) = N, \A i \in 1..N : ss[i] \in Q
  PROVE  N = 1 => FlattenSeq(ss) = ss[1]
<1>1. PICK t \in [1..N -> Q] :
        /\ t[1] = ss[1] /\ FlattenSeq(ss) = t[N]
        /\ \A i \in 1..N : i # 1 => t[i] = Cat(t[i - 1], ss[i])
  BY FlatTable
<1> QED BY <1>1

LEMMA FlatFirst ==
  ASSUME NEW Q, Joining(Q), NEW N, N = 1, NEW ss, Len(ss) = N, ss[1] \in Q
  PROVE  FlattenSeq(ss) = ss[1]
<1>1. N \in Nat \ {0} /\ \A i \in 1..N : ss[i] \in Q
  OBVIOUS
<1>2. N = 1 => FlattenSeq(ss) = ss[1]
  BY <1>1, FlatHead, Zenon
<1> QED BY <1>2

LEMMA FlatAppend ==
  ASSUME NEW Q, Joining(Q), NEW ss \in Seq(Q), NEW x \in Q
  PROVE  /\ FlattenSeq(ss) \in Q
         /\ FlattenSeq(Append(ss, x)) = Cat(FlattenSeq(ss), x)
<1> DEFINE N == Len(ss)
           P == N + 1
           rs == Append(ss, x)
<1>1. /\ N = Len(ss) /\ N \in Nat /\ P = N + 1 /\ P \in Nat \ {0} /\ Len(rs) = P /\ rs[P] = x
      /\ (\A i \in 1..N : rs[i] = ss[i]) /\ (\A i \in 1..N : ss[i] \in Q) /\ \A i \in 1..P : rs[i] \in Q
      /\ N = 0 => ss = <<>>
  OBVIOUS
<1>2. CASE N = 0
  <2>1. FlattenSeq(ss) = <<>>
    BY <1>1, <1>2, FlatEmpty
  <2>2. P = 1
    BY <1>2
  <2> HIDE DEF P, rs
  <2>3. FlattenSeq(rs) = x
    BY <1>1, <2>2, FlatFirst
  <2> QED BY <2>1, <2>3 DEF Joining, rs
<1>3. CASE N # 0
  <2>1. N \in Nat \ {0}
    BY <1>1, <1>3
  <2> HIDE DEF N, P, rs
  <2>2. FlattenSeq(ss) \in Q /\ FlattenSeq(rs) = Cat(FlattenSeq(ss), rs[P])
    BY <1>1, <2>1, FlatStep
  <2> QED BY <1>1, <2>2 DEF rs
<1> QED BY <1>2, <1>3
-----------------------------------------------------------------------------
(* Texts: their bytes, and texts that are joined. *)

Texts == Seq(Letter)

LEMMA CatAssoc ==
  ASSUME NEW S, NEW u \in Seq(S), NEW v \in Seq(S), NEW w \in Seq(S)
  PROVE  Cat(Cat(u, v), w) = Cat(u, Cat(v, w))
  BY ConcatAssociative DEF Cat

LEMMA CatAppend ==
  ASSUME NEW S, NEW u \in Seq(S), NEW v \in Seq(S), NEW x \in S
  PROVE  Cat(u, Append(v, x)) = Append(Cat(u, v), x)
  BY ConcatAppend DEF Cat

LEMMA CatFacts ==
  ASSUME NEW S, NEW u \in Seq(S), NEW v \in Seq(S)
  PROVE  /\ Cat(u, v) \in Seq(S) /\ Len(Cat(u, v)) = Len(u) + Len(v)
         /\ Cat(u, <<>>) = u /\ Cat(<<>>, u) = u
         /\ \A x \in S : Append(u, x) = Cat(u, <<x>>) /\ <<x>> \in Seq(S)
  BY ConcatProperties, ConcatEmptySeq, AppendIsConcat DEF Cat

LEMMA TextsJoin == Joining(Texts)
  BY SequencesJoin DEF Texts

LEMMA BytesType == \A c \in Letter : Bytes[c] \in Texts
  BY LanguageAssumption DEF Texts

LEMMA BytesEmpty == BytesOf(<<>>) = <<>>
  BY FlatEmpty DEF BytesOf

LEMMA BytesAppend ==
  ASSUME NEW u \in Texts, NEW c \in Letter
  PROVE  BytesOf(u) \in Texts /\ BytesOf(Append(u, c)) = Cat(BytesOf(u), Bytes[c])
<1> DEFINE ss == [i \in DOMAIN u |-> Bytes[u[i]]]
           rs == [i \in DOMAIN Append(u, c) |-> Bytes[Append(u, c)[i]]]
<1>1. /\ Len(u) \in Nat /\ DOMAIN u = 1..Len(u) /\ DOMAIN Append(u, c) = 1..(Len(u) + 1)
      /\ \A i \in 1..Len(u) : u[i] \in Letter /\ Append(u, c)[i] = u[i]
      /\ Append(u, c)[Len(u) + 1] = c
  BY DEF Texts
<1>2. ss \in Seq(Texts) /\ Len(ss) = Len(u)
  BY <1>1, BytesType
<1>3. rs = Append(ss, Bytes[c])
  <2>1. rs \in Seq(Texts) /\ Len(rs) = Len(u) + 1
    BY <1>1, BytesType
  <2>2. Bytes[c] \in Texts
    BY BytesType
  <2>3. Append(ss, Bytes[c]) \in Seq(Texts) /\ Len(Append(ss, Bytes[c])) = Len(u) + 1
    BY <1>2, <2>2, AppendProperties
  <2>4. \A i \in 1..(Len(u) + 1) : rs[i] = Append(ss, Bytes[c])[i]
    <3>1. ASSUME NEW i \in 1..Len(u) PROVE rs[i] = Append(ss, Bytes[c])[i]
      <4>1. rs[i] = ss[i]
        BY <1>1
      <4>2. Append(ss, Bytes[c])[i] = ss[i]
        BY <1>2, <2>2, AppendProperties
      <4> QED BY <4>1, <4>2
    <3>2. rs[Len(u) + 1] = Bytes[c]
      BY <1>1
    <3>3. Append(ss, Bytes[c])[Len(u) + 1] = Bytes[c]
      BY <1>2, <2>2, AppendProperties
    <3> HIDE DEF rs, ss
    <3>4. \A i \in 1..(Len(u) + 1) : i \in 1..Len(u) \/ i = Len(u) + 1
      BY <1>1
    <3>5. rs[Len(u) + 1] = Append(ss, Bytes[c])[Len(u) + 1]
      BY <3>2, <3>3
    <3> QED BY <3>1, <3>4, <3>5
  <2> HIDE DEF rs, ss
  <2> QED BY <2>1, <2>3, <2>4, SeqEqual
<1>4. BytesOf(u) = FlattenSeq(ss) /\ BytesOf(Append(u, c)) = FlattenSeq(rs)
  BY DEF BytesOf
<1> HIDE DEF rs, ss
<1> QED BY <1>2, <1>3, <1>4, BytesType, TextsJoin, FlatAppend

\* The bytes of a text come letter by letter, from the left.
LEMMA BytesCat ==
  ASSUME NEW u \in Texts, NEW v \in Texts
  PROVE  BytesOf(Cat(u, v)) = Cat(BytesOf(u), BytesOf(v)) /\ BytesOf(v) \in Texts
<1> DEFINE K == {k \in Nat : \A w \in Texts : Len(w) = k =>
                   BytesOf(Cat(u, w)) = Cat(BytesOf(u), BytesOf(w)) /\ BytesOf(w) \in Texts}
<1>0. PICK c0 \in Letter : TRUE
  BY LanguageAssumption
<1>1. 0 \in K
  <2>1. \A w \in Texts : Len(w) = 0 => w = <<>>
    BY DEF Texts
  <2>2. BytesOf(u) \in Texts
    BY <1>0, BytesAppend
  <2>3. Cat(u, <<>>) = u /\ Cat(BytesOf(u), <<>>) = BytesOf(u)
    BY <2>2, CatFacts DEF Texts
  <2>4. <<>> \in Texts
    BY DEF Texts
  <2> QED BY <2>1, <2>3, <2>4, BytesEmpty
<1>2. ASSUME NEW k \in K PROVE k + 1 \in K
  <2>1. SUFFICES ASSUME NEW w \in Texts, Len(w) = k + 1
                 PROVE  BytesOf(Cat(u, w)) = Cat(BytesOf(u), BytesOf(w)) /\ BytesOf(w) \in Texts
    OBVIOUS
  <2>2. k \in Nat
    OBVIOUS
  <2>3. PICK x \in Texts, c \in Letter : w = Append(x, c) /\ Len(x) = k
    BY <2>1, <2>2, Unappend DEF Texts
  <2>4. BytesOf(Cat(u, x)) = Cat(BytesOf(u), BytesOf(x)) /\ BytesOf(x) \in Texts
    BY <2>3
  <2> HIDE DEF K
  <2>5. Cat(u, w) = Append(Cat(u, x), c) /\ Cat(u, x) \in Texts
    BY <2>3, CatAppend, CatFacts DEF Texts
  <2>6. BytesOf(Cat(u, w)) = Cat(Cat(BytesOf(u), BytesOf(x)), Bytes[c])
    BY <2>4, <2>5, BytesAppend
  <2>7. BytesOf(w) = Cat(BytesOf(x), Bytes[c])
    BY <2>3, BytesAppend
  <2>8. BytesOf(u) \in Texts /\ Bytes[c] \in Texts
    BY BytesAppend, BytesType
  <2>9. BytesOf(w) \in Texts
    BY <2>4, <2>7, <2>8, TextsJoin, CatIn
  <2> QED BY <2>4, <2>6, <2>7, <2>8, <2>9, CatAssoc DEF Texts
<1> HIDE DEF K
<1>3. K = Nat
  BY <1>1, <1>2, Climbing DEF K
<1>4. Len(v) \in Nat
  BY DEF Texts
<1> QED BY <1>3, <1>4 DEF K
-----------------------------------------------------------------------------
\* Joined parts with one more part, and with a longer last part.
LEMMA JoinAppend ==
  ASSUME NEW Q, Joining(Q), NEW parts \in Seq(Q), NEW sep \in Q, NEW x \in Q
  PROVE  /\ Join(parts, sep) \in Q
         /\ Join(Append(parts, x), sep) = IF parts = <<>> THEN x ELSE Cat(Join(parts, sep), Cat(sep, x))
<1> DEFINE ss == [i \in DOMAIN parts |-> IF i = 1 THEN parts[1] ELSE Cat(sep, parts[i])]
           more == Append(parts, x)
           rs == [i \in DOMAIN more |-> IF i = 1 THEN more[1] ELSE Cat(sep, more[i])]
           last == IF parts = <<>> THEN x ELSE Cat(sep, x)
           N == Len(parts)
<1>1. /\ N \in Nat /\ DOMAIN parts = 1..N /\ DOMAIN more = 1..(N + 1)
      /\ \A i \in 1..N : parts[i] \in Q /\ more[i] = parts[i]
      /\ more[N + 1] = x /\ (N = 0 <=> parts = <<>>)
  OBVIOUS
<1> HIDE DEF more, N
<1>2. ss \in Seq(Q) /\ Len(ss) = N
  <2>1. \A i \in 1..N : ss[i] \in Q
    <3>1. \A i \in 1..N : parts[i] \in Q /\ Cat(sep, parts[i]) \in Q
      BY <1>1, CatIn
    <3> QED BY <1>1, <3>1
  <2> QED BY <1>1, <2>1
<1>3. last \in Q
  BY DEF Joining
<1>4. rs = Append(ss, last)
  <2>1. \A i \in 1..(N + 1) : rs[i] \in Q
    <3>1. \A i \in 1..(N + 1) : more[i] \in Q /\ Cat(sep, more[i]) \in Q
      BY <1>1, CatIn
    <3> QED BY <1>1, <3>1
  <2>2. rs \in Seq(Q) /\ Len(rs) = N + 1
    BY <1>1, <2>1
  <2>3. Append(ss, last) \in Seq(Q) /\ Len(Append(ss, last)) = N + 1
    <3> HIDE DEF ss, last
    <3> QED BY <1>2, <1>3, AppendProperties
  <2>4. \A i \in 1..N : rs[i] = ss[i]
    BY <1>1
  <2>5. rs[N + 1] = last
    BY <1>1
  <2> HIDE DEF ss, rs, last
  <2>6. Append(ss, last)[N + 1] = last /\ \A i \in 1..N : Append(ss, last)[i] = ss[i]
    BY <1>2, <1>3, AppendProperties
  <2>7. \A i \in 1..(N + 1) : i \in 1..N \/ i = N + 1
    BY <1>1
  <2>8. \A i \in 1..(N + 1) : rs[i] = Append(ss, last)[i]
    BY <2>4, <2>5, <2>6, <2>7
  <2> QED BY <2>2, <2>3, <2>8, SeqEqual
<1>5. Join(parts, sep) = FlattenSeq(ss) /\ Join(Append(parts, x), sep) = FlattenSeq(rs)
  BY DEF Join, Cat, more
<1>6. FlattenSeq(ss) \in Q /\ FlattenSeq(rs) = Cat(FlattenSeq(ss), last)
  <2> HIDE DEF ss, rs, last
  <2> QED BY <1>2, <1>3, <1>4, FlatAppend
<1>7. parts = <<>> => FlattenSeq(ss) = <<>>
  <2>1. ASSUME parts = <<>> PROVE ss = <<>>
    <3> HIDE DEF ss
    <3> QED BY <1>1, <1>2, <2>1
  <2> HIDE DEF ss
  <2> QED BY <2>1, FlatEmpty
<1> HIDE DEF ss, rs
<1> QED BY <1>5, <1>6, <1>7 DEF Joining

LEMMA JoinLast ==
  ASSUME NEW Q, Joining(Q), NEW parts \in Seq(Q), NEW sep \in Q, NEW x \in Q, NEW y \in Q
  PROVE  Join(Append(parts, Cat(x, y)), sep) = Cat(Join(Append(parts, x), sep), y)
<1>1. Cat(x, y) \in Q /\ Cat(sep, x) \in Q
  BY DEF Joining
<1>2. Join(parts, sep) \in Q
  BY JoinAppend
<1>3. CASE parts = <<>>
  <2>1. Join(Append(parts, Cat(x, y)), sep) = Cat(x, y)
    BY <1>1, <1>3, JoinAppend
  <2>2. Join(Append(parts, x), sep) = x
    BY <1>3, JoinAppend
  <2> QED BY <2>1, <2>2
<1>4. CASE parts # <<>>
  <2>1. Join(Append(parts, Cat(x, y)), sep) = Cat(Join(parts, sep), Cat(sep, Cat(x, y)))
    BY <1>1, <1>4, JoinAppend
  <2>2. Join(Append(parts, x), sep) = Cat(Join(parts, sep), Cat(sep, x))
    BY <1>4, JoinAppend
  <2> QED BY <1>1, <1>2, <2>1, <2>2 DEF Joining
<1> QED BY <1>3, <1>4
-----------------------------------------------------------------------------
(* Reading a text letter by letter. *)

Nothing == Reading(<<>>, <<>>, FALSE)
ReadSteps(line, n, t) == t = [i \in 0..n |-> IF i = 0 THEN Nothing ELSE ReadLetter(t[i - 1], line[i])]

LEMMA ReadStepsAt ==
  ASSUME NEW line, NEW n \in Nat, NEW t, ReadSteps(line, n, t)
  PROVE  t[0] = Nothing /\ \A i \in 1..n : t[i] = ReadLetter(t[i - 1], line[i])
<1> DEFINE F(f) == [i \in 0..n |-> IF i = 0 THEN Nothing ELSE ReadLetter(f[i - 1], line[i])]
<1>1. t = F(t)
  BY DEF ReadSteps
<1>2. \A i \in 0..n : F(t)[i] = IF i = 0 THEN Nothing ELSE ReadLetter(t[i - 1], line[i])
  OBVIOUS
<1> HIDE DEF F
<1>3. \A i \in 0..n : t[i] = IF i = 0 THEN Nothing ELSE ReadLetter(t[i - 1], line[i])
  BY <1>1, <1>2
<1> QED BY <1>3

LEMMA ReadStepsExist == \A line : \A n \in Nat : \E t : ReadSteps(line, n, t)
<1> SUFFICES ASSUME NEW line PROVE \A n \in Nat : \E t : ReadSteps(line, n, t)
  OBVIOUS
<1> DEFINE K == {n \in Nat : \E t : ReadSteps(line, n, t)}
<1>1. 0 \in K
  <2> DEFINE t == [i \in 0..0 |-> Nothing]
  <2>1. ReadSteps(line, 0, t)
    BY DEF ReadSteps
  <2> HIDE DEF t
  <2> QED BY <2>1
<1>2. ASSUME NEW n \in K PROVE n + 1 \in K
  <2>1. n \in Nat /\ n + 1 \in Nat
    OBVIOUS
  <2>2. PICK t : ReadSteps(line, n, t)
    OBVIOUS
  <2> DEFINE x == ReadLetter(t[n], line[n + 1])
             u == [i \in 0..(n + 1) |-> IF i = n + 1 THEN x ELSE t[i]]
  <2>3. t[0] = Nothing /\ \A i \in 1..n : t[i] = ReadLetter(t[i - 1], line[i])
    BY <2>1, <2>2, ReadStepsAt
  <2>4. \A i \in 0..(n + 1) : u[i] = IF i = 0 THEN Nothing ELSE ReadLetter(u[i - 1], line[i])
    <3>1. u[0] = Nothing
      BY <2>1, <2>3
    <3>2. ASSUME NEW i \in 1..n PROVE u[i] = ReadLetter(u[i - 1], line[i])
      <4>1. u[i] = t[i] /\ u[i - 1] = t[i - 1]
        <5> HIDE DEF x
        <5> QED BY <2>1
      <4> QED BY <2>3, <4>1
    <3>3. u[n + 1] = ReadLetter(u[n], line[n + 1])
      <4>1. u[n + 1] = x /\ u[n] = t[n]
        <5> HIDE DEF x
        <5> QED BY <2>1
      <4> QED BY <4>1
    <3>4. \A i \in 0..(n + 1) : i = 0 \/ i \in 1..n \/ (i = n + 1 /\ i - 1 = n /\ i # 0)
      BY <2>1
    <3> HIDE DEF u
    <3> QED BY <3>1, <3>2, <3>3, <3>4
  <2>5. u = [i \in 0..(n + 1) |-> u[i]]
    OBVIOUS
  <2> HIDE DEF u
  <2>6. ReadSteps(line, n + 1, u)
    BY <2>4, <2>5 DEF ReadSteps
  <2> QED BY <2>1, <2>6
<1> HIDE DEF K
<1>3. K = Nat
  BY <1>1, <1>2, Climbing DEF K
<1> QED BY <1>3 DEF K

\* Two readings of lines that begin alike do so too.
LEMMA ReadStepsAgree ==
  ASSUME NEW a, NEW b, NEW m \in Nat, NEW n \in Nat, m <= n, \A i \in 1..m : a[i] = b[i],
         NEW t, ReadSteps(a, m, t), NEW u, ReadSteps(b, n, u)
  PROVE  t[m] = u[m]
<1> DEFINE K == {k \in Nat : k <= m => t[k] = u[k]}
<1>1. /\ t[0] = Nothing /\ \A i \in 1..m : t[i] = ReadLetter(t[i - 1], a[i])
      /\ u[0] = Nothing /\ \A i \in 1..n : u[i] = ReadLetter(u[i - 1], b[i])
  BY ReadStepsAt
<1>2. 0 \in K
  BY <1>1
<1>3. ASSUME NEW k \in K PROVE k + 1 \in K
  <2>1. SUFFICES ASSUME k + 1 <= m PROVE t[k + 1] = u[k + 1]
    OBVIOUS
  <2>2. k \in Nat /\ t[k] = u[k] /\ k + 1 \in 1..m /\ k + 1 \in 1..n /\ (k + 1) - 1 = k
    BY <2>1
  <2> QED BY <1>1, <2>2
<1> HIDE DEF K
<1>4. K = Nat
  BY <1>2, <1>3, Climbing DEF K
<1> QED BY <1>4 DEF K

LEMMA ReadIs == \A line, t : Len(line) \in Nat /\ ReadSteps(line, Len(line), t) => Read(line) = t[Len(line)]
<1> SUFFICES ASSUME NEW line, NEW t, Len(line) \in Nat, ReadSteps(line, Len(line), t)
             PROVE  Read(line) = t[Len(line)]
  OBVIOUS
<1> DEFINE r == CHOOSE f : ReadSteps(line, Len(line), f)
<1>1. ReadSteps(line, Len(line), r)
  OBVIOUS
<1>2. Read(line) = r[Len(line)]
  BY DEF Read, ReadSteps, Nothing
<1> HIDE DEF r
<1> QED BY <1>1, <1>2, ReadStepsAgree

LEMMA ReadEmpty == Read(<<>>) = Nothing
<1>1. Len(<<>>) = 0
  OBVIOUS
<1>2. PICK t : ReadSteps(<<>>, 0, t)
  BY ReadStepsExist
<1> QED BY <1>1, <1>2, ReadIs, ReadStepsAt

LEMMA ReadAppend ==
  ASSUME NEW u \in Texts, NEW c \in Letter
  PROVE  Read(Append(u, c)) = ReadLetter(Read(u), c)
<1> DEFINE n == Len(u)
           w == Append(u, c)
<1>1. /\ n \in Nat /\ n + 1 \in Nat /\ Len(u) = n /\ Len(w) = n + 1 /\ w[n + 1] = c /\ (n + 1) - 1 = n
      /\ n + 1 \in 1..(n + 1) /\ n <= n + 1 /\ \A i \in 1..n : u[i] = w[i]
  BY DEF Texts
<1> HIDE DEF n, w
<1>2. PICK t : ReadSteps(u, n, t)
  BY <1>1, ReadStepsExist
<1>3. PICK r : ReadSteps(w, n + 1, r)
  BY <1>1, ReadStepsExist
<1>4. Read(u) = t[n] /\ Read(w) = r[n + 1]
  BY <1>1, <1>2, <1>3, ReadIs
<1>5. t[n] = r[n]
  BY <1>1, <1>2, <1>3, ReadStepsAgree
<1>6. r[n + 1] = ReadLetter(r[n], c)
  BY <1>1, <1>3, ReadStepsAt
<1> QED BY <1>4, <1>5, <1>6 DEF w
-----------------------------------------------------------------------------
(* Tokens that are finished do not matter to what is read after them. *)

Series == Seq(Tokens)
Currents == {<<>>} \cup {<<t>> : t \in Tokens}
Readings == [tokens : Series, current : Currents, failed : BOOLEAN]
After(p, s) == Reading(Cat(p, s.tokens), s.current, s.failed)

\* A letter is of one class.
LEMMA Classes ==
  \A c : /\ c \in Spaces => c \notin Words \cup Singles \cup Symbols \cup Quotes
         /\ c \in Singles => c \notin Words \cup Spaces \cup Symbols \cup Quotes
         /\ c \in Symbols => c \notin Words \cup Spaces \cup Singles \cup Quotes
         /\ c \in Quotes => c \notin Words \cup Spaces \cup Singles \cup Symbols
<1> DEFINE classes == <<Words, Spaces, Singles, Symbols, Quotes>>
<1>1. \A i, j \in 1..5 : i # j => classes[i] \cap classes[j] = {}
  BY LanguageAssumption
<1>2. /\ classes[1] = Words /\ classes[2] = Spaces /\ classes[3] = Singles
      /\ classes[4] = Symbols /\ classes[5] = Quotes
  OBVIOUS
<1> HIDE DEF classes
<1>3. \A i, j \in {1, 2, 3, 4, 5} : i # j => classes[i] \cap classes[j] = {}
  BY <1>1
<1>4. /\ Words \cap Spaces = {} /\ Words \cap Singles = {} /\ Words \cap Symbols = {} /\ Words \cap Quotes = {}
      /\ Spaces \cap Singles = {} /\ Spaces \cap Symbols = {} /\ Spaces \cap Quotes = {}
      /\ Singles \cap Symbols = {} /\ Singles \cap Quotes = {} /\ Symbols \cap Quotes = {}
  BY <1>2, <1>3
<1> QED BY <1>4

LEMMA SeriesJoin == Joining(Series)
  BY SequencesJoin DEF Series

LEMMA SeriesAppend ==
  ASSUME NEW p \in Series, NEW ts \in Series, NEW t \in Tokens
  PROVE  <<t>> \in Series /\ Append(ts, t) \in Series /\ Append(ts, t) = Cat(ts, <<t>>)
         /\ Append(Cat(p, ts), t) = Cat(p, Append(ts, t))
<1>1. <<t>> \in Series /\ Append(ts, t) \in Series
  BY DEF Series
<1>2. Append(ts, t) = Cat(ts, <<t>>)
  BY AppendIsConcat DEF Cat, Series
<1>3. Append(Cat(p, ts), t) = Cat(p, Append(ts, t))
  BY CatAppend DEF Series
<1> QED BY <1>1, <1>2, <1>3

LEMMA ReadingParts ==
  ASSUME NEW ts, NEW cur, NEW bad
  PROVE  /\ Reading(ts, cur, bad).tokens = ts
         /\ Reading(ts, cur, bad).current = cur
         /\ Reading(ts, cur, bad).failed = bad
         /\ ts \in Series /\ cur \in Currents /\ bad \in BOOLEAN => Reading(ts, cur, bad) \in Readings
  BY DEF Reading, Readings

LEMMA ClosedAfter ==
  ASSUME NEW p \in Series, NEW s \in Readings
  PROVE  /\ Closed(s) \in Series
         /\ Closed(After(p, s)) = Cat(p, Closed(s))
         /\ After(p, s).tokens = Cat(p, s.tokens)
         /\ After(p, s).current = s.current
         /\ After(p, s).failed = s.failed
<1>1. s.tokens \in Series /\ s.current \in Series
  <2>1. s.tokens \in Series /\ s.current \in Currents
    BY DEF Readings
  <2>2. <<>> \in Series /\ \A t \in Tokens : <<t>> \in Series
    BY DEF Series
  <2> QED BY <2>1, <2>2 DEF Currents
<1>2. After(p, s).tokens = Cat(p, s.tokens) /\ After(p, s).current = s.current /\ After(p, s).failed = s.failed
  BY DEF After, Reading
<1>3. Closed(s) = Cat(s.tokens, s.current) /\ Closed(After(p, s)) = Cat(Cat(p, s.tokens), s.current)
  BY <1>2 DEF Closed, Cat
<1>4. Cat(s.tokens, s.current) \in Series
  BY <1>1, SeriesJoin, CatIn
<1>5. Cat(Cat(p, s.tokens), s.current) = Cat(p, Cat(s.tokens, s.current))
  BY <1>1, SeriesJoin, CatAssocIn
<1> QED BY <1>2, <1>3, <1>4, <1>5

LEMMA ReadLetterAfter ==
  ASSUME NEW p \in Series, NEW s \in Readings, NEW c \in Letter
  PROVE  ReadLetter(s, c) \in Readings /\ ReadLetter(After(p, s), c) = After(p, ReadLetter(s, c))
<1> DEFINE q == After(p, s)
           open == s.current # <<>>
           quoted == open /\ s.current[1].quote # None
           symbol == open /\ s.current[1].symbol
           cur == s.current[1]
           longer == Token(Append(cur.value, c), cur.quote, cur.symbol)
           Both(ts, k, bad) == /\ ReadLetter(s, c) = Reading(ts, k, bad)
                               /\ ReadLetter(q, c) = Reading(Cat(p, ts), k, bad)
<1>1. /\ Closed(s) \in Series /\ Closed(q) = Cat(p, Closed(s))
      /\ q.tokens = Cat(p, s.tokens) /\ q.current = s.current /\ q.failed = s.failed
  BY ClosedAfter
<1>2. s.tokens \in Series /\ s.current \in Currents /\ s.failed \in BOOLEAN
  BY DEF Readings
<1>3. open => cur \in Tokens
  BY <1>2 DEF Currents
<1>4. /\ Quotes \subseteq Letter /\ None \notin Quotes
  BY LanguageAssumption
<1>5. open => longer \in Tokens
  <2>1. ASSUME open PROVE Append(cur.value, c) \in Seq(Letter)
    BY <1>3, <2>1 DEF Tokens
  <2> QED BY <1>3, <2>1 DEF Tokens, Token
<1>6. Token(<<c>>, None, FALSE) \in Tokens /\ Token(<<c>>, None, TRUE) \in Tokens
      /\ (c \in Quotes => Token(<<>>, c, FALSE) \in Tokens)
  BY DEF Token, Tokens
<1>7. \A t \in Tokens : Append(Closed(s), t) \in Series /\ Append(Closed(q), t) = Cat(p, Append(Closed(s), t))
  <2>1. ASSUME NEW t \in Tokens
        PROVE  Append(Closed(s), t) \in Series /\ Append(Cat(p, Closed(s)), t) = Cat(p, Append(Closed(s), t))
    BY <1>1, SeriesAppend
  <2> QED BY <1>1, <2>1
<1>8. \A t \in Tokens : <<t>> \in Currents
  BY DEF Currents
<1>9. <<>> \in Currents
  BY DEF Currents
<1>10. ASSUME NEW ts \in Series, NEW k \in Currents, NEW bad \in BOOLEAN, Both(ts, k, bad)
       PROVE  ReadLetter(s, c) \in Readings /\ ReadLetter(q, c) = After(p, ReadLetter(s, c))
  BY <1>10, ReadingParts DEF After
<1> DEFINE Fine == \E ts \in Series, k \in Currents, bad \in BOOLEAN : Both(ts, k, bad)
<1>11. CASE s.failed
  <2>1. ReadLetter(s, c) = s /\ ReadLetter(q, c) = q
    BY <1>1, <1>11 DEF ReadLetter
  <2> QED BY <2>1
<1>12. CASE ~s.failed
  <2>1. CASE quoted /\ c = cur.quote
    <3>1. Both(Closed(s), <<>>, FALSE)
      BY <1>1, <1>12, <2>1 DEF ReadLetter
    <3> HIDE DEF Both
    <3> QED BY <1>1, <1>9, <1>10, <3>1
  <2>2. CASE quoted /\ c # cur.quote
    <3>1. Both(s.tokens, <<longer>>, FALSE)
      BY <1>1, <1>12, <2>2 DEF ReadLetter, Extended
    <3>2. <<longer>> \in Currents
      BY <1>5, <1>8, <2>2
    <3> HIDE DEF Both
    <3> QED BY <1>2, <1>10, <3>1, <3>2
  <2>3. CASE ~quoted /\ c \in Spaces
    <3>1. Both(Closed(s), <<>>, FALSE)
      BY <1>1, <1>12, <2>3, Classes DEF ReadLetter
    <3> HIDE DEF Both
    <3> QED BY <1>1, <1>9, <1>10, <3>1
  <2>4. CASE ~quoted /\ c \notin Spaces /\ c \in Singles
    <3>1. Both(Append(Closed(s), Token(<<c>>, None, FALSE)), <<>>, FALSE)
      <4>1. ReadLetter(s, c) = Reading(Append(Closed(s), Token(<<c>>, None, FALSE)), <<>>, FALSE)
        BY <1>12, <2>4, Classes DEF ReadLetter
      <4>2. ReadLetter(q, c) = Reading(Append(Closed(q), Token(<<c>>, None, FALSE)), <<>>, FALSE)
        BY <1>1, <1>12, <2>4, Classes DEF ReadLetter
      <4> QED BY <1>6, <1>7, <4>1, <4>2
    <3> HIDE DEF Both
    <3> QED BY <1>6, <1>7, <1>9, <1>10, <3>1
  <2>5. CASE ~quoted /\ c \notin Spaces \cup Singles /\ c \in Symbols
    <3>1. CASE symbol
      <4>1. Both(s.tokens, <<longer>>, FALSE)
        BY <1>1, <1>12, <2>5, <3>1, Classes DEF ReadLetter, Extended
      <4>2. <<longer>> \in Currents
        BY <1>5, <1>8, <3>1
      <4> HIDE DEF Both
      <4> QED BY <1>2, <1>10, <4>1, <4>2
    <3>2. CASE ~symbol
      <4>1. Both(Closed(s), <<Token(<<c>>, None, TRUE)>>, FALSE)
        BY <1>1, <1>12, <2>5, <3>2, Classes DEF ReadLetter, Opened
      <4> HIDE DEF Both
      <4> QED BY <1>1, <1>6, <1>8, <1>10, <4>1
    <3> QED BY <3>1, <3>2
  <2>6. CASE ~quoted /\ c \notin Spaces \cup Singles \cup Symbols /\ c \in Quotes
    <3>1. Both(s.tokens, <<Token(<<>>, c, FALSE)>>, open)
      BY <1>1, <1>12, <2>6 DEF ReadLetter
    <3>2. open \in BOOLEAN
      OBVIOUS
    <3> HIDE DEF Both, open
    <3> QED BY <1>2, <1>6, <1>8, <1>10, <2>6, <3>1, <3>2
  <2>7. CASE ~quoted /\ c \notin Spaces \cup Singles \cup Symbols \cup Quotes
    <3>1. CASE open /\ ~symbol
      <4>1. Both(s.tokens, <<longer>>, FALSE)
        BY <1>1, <1>12, <2>7, <3>1 DEF ReadLetter, Extended
      <4>2. <<longer>> \in Currents
        BY <1>5, <1>8, <3>1
      <4> HIDE DEF Both
      <4> QED BY <1>2, <1>10, <4>1, <4>2
    <3>2. CASE ~(open /\ ~symbol)
      <4>1. Both(Closed(s), <<Token(<<c>>, None, FALSE)>>, FALSE)
        BY <1>1, <1>12, <2>7, <3>2 DEF ReadLetter, Opened
      <4> HIDE DEF Both
      <4> QED BY <1>1, <1>6, <1>8, <1>10, <4>1
    <3> QED BY <3>1, <3>2
  <2> QED BY <2>1, <2>2, <2>3, <2>4, <2>5, <2>6, <2>7
<1> QED BY <1>11, <1>12
-----------------------------------------------------------------------------
(* What lines give, one after another. *)

Mark(c) == Token(<<c>>, None, FALSE)
Gives(line, ts) == line \in Texts /\ ts \in Series /\ Read(line) = Reading(ts, <<>>, FALSE)

LEMMA TextsAppend ==
  ASSUME NEW u \in Texts, NEW c \in Letter
  PROVE  <<c>> \in Texts /\ Append(u, c) \in Texts /\ Append(u, c) = Cat(u, <<c>>) /\ <<>> \in Texts
<1>1. <<c>> \in Texts /\ Append(u, c) \in Texts /\ <<>> \in Texts
  BY DEF Texts
<1>2. Append(u, c) = Cat(u, <<c>>)
  BY AppendIsConcat DEF Cat, Texts
<1> QED BY <1>1, <1>2

LEMMA TextIn ==
  ASSUME NEW u \in Texts, NEW v \in Texts
  PROVE  Cat(u, v) \in Texts /\ Cat(<<>>, u) = u /\ Cat(u, <<>>) = u /\ <<>> \in Texts
  BY TextsJoin, CatIn

LEMMA SeriesIn ==
  ASSUME NEW u \in Series, NEW v \in Series
  PROVE  Cat(u, v) \in Series /\ Cat(<<>>, u) = u /\ Cat(u, <<>>) = u /\ <<>> \in Series
  BY SeriesJoin, CatIn

\* Induction on texts from the left.
LEMMA Appending ==
  ASSUME NEW T, NEW S \in SUBSET Seq(T), <<>> \in S, \A u \in S, c \in T : Append(u, c) \in S
  PROVE  S = Seq(T)
<1> DEFINE K == {k \in Nat : \A u \in Seq(T) : Len(u) = k => u \in S}
<1>1. 0 \in K
  <2>1. \A u \in Seq(T) : Len(u) = 0 => u = <<>>
    OBVIOUS
  <2> QED BY <2>1
<1>2. ASSUME NEW k \in K PROVE k + 1 \in K
  <2>1. SUFFICES ASSUME NEW u \in Seq(T), Len(u) = k + 1 PROVE u \in S
    OBVIOUS
  <2>2. PICK x \in Seq(T), c \in T : u = Append(x, c) /\ Len(x) = k
    BY <2>1, Unappend
  <2> QED BY <2>2
<1> HIDE DEF K
<1>3. K = Nat
  BY <1>1, <1>2, Climbing DEF K
<1>4. \A u \in Seq(T) : Len(u) \in Nat
  OBVIOUS
<1> QED BY <1>3, <1>4 DEF K

LEMMA TextInduction ==
  ASSUME NEW S \in SUBSET Texts, <<>> \in S, \A u \in S, c \in Letter : Append(u, c) \in S
  PROVE  S = Texts
  BY Appending DEF Texts

LEMMA ReadType == \A u \in Texts : Read(u) \in Readings
<1> DEFINE S == {u \in Texts : Read(u) \in Readings}
<1>1. <<>> \in S
  <2>1. Nothing \in Readings
    BY DEF Nothing, Reading, Readings, Series, Currents
  <2>2. <<>> \in Texts
    BY DEF Texts
  <2> QED BY <2>1, <2>2, ReadEmpty
<1>2. ASSUME NEW u \in S, NEW c \in Letter PROVE Append(u, c) \in S
  <2>1. <<>> \in Series
    BY DEF Series
  <2>2. ReadLetter(Read(u), c) \in Readings
    BY <2>1, ReadLetterAfter
  <2> QED BY <2>2, ReadAppend, TextsAppend
<1> HIDE DEF S
<1>3. S = Texts
  BY <1>1, <1>2, TextInduction DEF S
<1> QED BY <1>3 DEF S

LEMMA ReadCat ==
  ASSUME NEW u, NEW p, Gives(u, p), NEW v \in Texts
  PROVE  Read(Cat(u, v)) = After(p, Read(v))
<1>0. u \in Texts /\ p \in Series /\ Read(u) = Reading(p, <<>>, FALSE)
  BY DEF Gives
<1> DEFINE S == {w \in Texts : Read(Cat(u, w)) = After(p, Read(w))}
<1>1. <<>> \in S
  <2>1. Cat(u, <<>>) = u /\ Cat(p, <<>>) = p /\ <<>> \in Texts
    BY <1>0, TextIn, SeriesIn
  <2>2. After(p, Nothing) = Reading(p, <<>>, FALSE)
    BY <2>1 DEF After, Nothing, Reading
  <2> QED BY <1>0, <2>1, <2>2, ReadEmpty
<1>2. ASSUME NEW w \in S, NEW c \in Letter PROVE Append(w, c) \in S
  <2>1. w \in Texts /\ Cat(u, w) \in Texts /\ Append(w, c) \in Texts
    BY <1>0, TextIn, TextsAppend
  <2>2. Cat(u, Append(w, c)) = Append(Cat(u, w), c)
    BY <1>0, <2>1, CatAppend DEF Texts
  <2>3. Read(Append(Cat(u, w), c)) = ReadLetter(After(p, Read(w)), c)
    BY <2>1, ReadAppend
  <2>4. ReadLetter(After(p, Read(w)), c) = After(p, ReadLetter(Read(w), c))
    BY <1>0, <2>1, ReadType, ReadLetterAfter
  <2>5. Read(Append(w, c)) = ReadLetter(Read(w), c)
    BY <2>1, ReadAppend
  <2> QED BY <2>1, <2>2, <2>3, <2>4, <2>5
<1> HIDE DEF S
<1>3. S = Texts
  BY <1>1, <1>2, TextInduction DEF S
<1> QED BY <1>3 DEF S

LEMMA GivesCat ==
  ASSUME NEW u, NEW p, Gives(u, p), NEW v, NEW r, Gives(v, r)
  PROVE  Gives(Cat(u, v), Cat(p, r))
<1>1. /\ u \in Texts /\ v \in Texts /\ p \in Series /\ r \in Series
      /\ Read(v) = Reading(r, <<>>, FALSE)
  BY DEF Gives
<1>2. Read(Cat(u, v)) = After(p, Reading(r, <<>>, FALSE))
  BY <1>1, ReadCat
<1>3. After(p, Reading(r, <<>>, FALSE)) = Reading(Cat(p, r), <<>>, FALSE)
  BY DEF After, Reading
<1> QED BY <1>1, <1>2, <1>3, TextIn, SeriesIn DEF Gives

LEMMA Special ==
  /\ {"(", ")", ","} \subseteq Singles /\ {"and", "or"} \subseteq Words /\ " " \in Spaces
  /\ {"(", ")", ",", "and", "or", " "} \subseteq Letter
  /\ \A c \in {"(", ")", ",", "and", "or", " "} : Bytes[c] = <<c>> /\ BytesOf(<<c>>) = <<c>> /\ Mark(c) \in Tokens
<1>1. /\ {"(", ")", ","} \subseteq Singles /\ {"and", "or"} \subseteq Words /\ " " \in Spaces
      /\ \A c \in {"(", ")", ",", "and", "or", " "} : c \in Letter /\ Bytes[c] = <<c>>
  BY LanguageAssumption DEF Words
<1>2. ASSUME NEW c \in Letter, Bytes[c] = <<c>> PROVE BytesOf(<<c>>) = <<c>> /\ Mark(c) \in Tokens
  <2>1. <<>> \in Texts /\ <<c>> \in Texts /\ Append(<<>>, c) = <<c>>
    BY DEF Texts
  <2>2. BytesOf(Append(<<>>, c)) = Cat(BytesOf(<<>>), Bytes[c])
    BY <2>1, BytesAppend
  <2>3. Mark(c) \in Tokens
    BY DEF Mark, Token, Tokens
  <2> QED BY <1>2, <2>1, <2>2, <2>3, BytesEmpty, TextIn
<1> QED BY <1>1, <1>2

LEMMA Tuples ==
  ASSUME NEW S, NEW x \in S, NEW y \in S
  PROVE  /\ <<x>> \in Seq(S) /\ <<x, y>> \in Seq(S) /\ Append(<<>>, x) = <<x>> /\ Append(<<x>>, y) = <<x, y>>
         /\ <<>> \o <<x>> = <<x>> /\ Cat(<<x>>, <<y>>) = <<x, y>> /\ <<>> \o <<>> = <<>>
<1>1. <<x>> \in Seq(S) /\ <<y>> \in Seq(S) /\ <<x, y>> \in Seq(S) /\ <<>> \in Seq(S)
  OBVIOUS
<1>2. Append(<<>>, x) = <<x>> /\ Append(<<x>>, y) = <<x, y>>
  <2>1. Append(<<>>, x) = <<x>>
    OBVIOUS
  <2>2. Append(<<x>>, y) = <<x, y>>
    <3>1. Append(<<x>>, y) \in Seq(S) /\ Len(Append(<<x>>, y)) = 2
      BY AppendProperties
    <3>2. Append(<<x>>, y)[1] = x /\ Append(<<x>>, y)[2] = y
      BY AppendProperties
    <3>3. Len(<<x, y>>) = 2 /\ <<x, y>>[1] = x /\ <<x, y>>[2] = y
      OBVIOUS
    <3> DEFINE a == Append(<<x>>, y)
               b == <<x, y>>
    <3>4. a \in Seq(S) /\ b \in Seq(S) /\ Len(a) = 2 /\ Len(b) = 2 /\ a[1] = b[1] /\ a[2] = b[2]
      BY <1>1, <3>1, <3>2, <3>3
    <3> HIDE DEF a, b
    <3>5. \A i \in 1..Len(a) : a[i] = b[i]
      BY <3>4
    <3>6. a = b
      BY <3>4, <3>5, SeqEqual
    <3> QED BY <3>6 DEF a, b
  <2> QED BY <2>1, <2>2
<1>3. <<>> \o <<x>> = <<x>> /\ <<>> \o <<>> = <<>>
  BY <1>1, ConcatEmptySeq
<1>4. <<x>> \o <<y>> = Append(<<x>>, y)
  BY <1>1, AppendIsConcat
<1> QED BY <1>1, <1>2, <1>3, <1>4 DEF Cat

LEMMA ReadOne == \A c \in Letter : Read(<<c>>) = ReadLetter(Nothing, c) /\ <<c>> \in Texts
<1> SUFFICES ASSUME NEW c \in Letter PROVE Read(<<c>>) = ReadLetter(Nothing, c) /\ <<c>> \in Texts
  OBVIOUS
<1>1. <<>> \in Texts /\ <<c>> \in Texts /\ Append(<<>>, c) = <<c>>
  BY DEF Texts
<1> QED BY <1>1, ReadAppend, ReadEmpty

LEMMA GivesSpace == Gives(<<" ">>, <<>>)
<1>1. " " \in Letter /\ " " \in Spaces
  BY Special
<1>2. ReadLetter(Nothing, " ") = Reading(<<>>, <<>>, FALSE)
  <2>1. Nothing.failed = FALSE /\ Nothing.current = <<>> /\ Nothing.tokens = <<>>
    BY DEF Reading, Nothing
  <2>2. Closed(Nothing) = <<>>
    BY <1>1, <2>1, Tuples DEF Closed
  <2>3. ReadLetter(Nothing, " ") = Reading(Closed(Nothing), <<>>, FALSE)
    BY <1>1, <2>1, Classes DEF ReadLetter
  <2> QED BY <2>2, <2>3
<1>3. <<>> \in Series
  BY DEF Series
<1> QED BY <1>1, <1>2, <1>3, ReadOne DEF Gives

LEMMA GivesSingle == \A c \in {"(", ")"} : Gives(<<c>>, <<Mark(c)>>)
<1> SUFFICES ASSUME NEW c \in {"(", ")"} PROVE Gives(<<c>>, <<Mark(c)>>)
  OBVIOUS
<1>1. c \in Letter /\ c \in Singles /\ Mark(c) \in Tokens
  BY Special
<1>2. ReadLetter(Nothing, c) = Reading(Append(<<>> \o <<>>, Mark(c)), <<>>, FALSE)
  BY <1>1, Classes DEF ReadLetter, Nothing, Reading, Closed, Mark
<1>3. <<Mark(c)>> \in Series /\ Append(<<>> \o <<>>, Mark(c)) = <<Mark(c)>>
  BY <1>1 DEF Series
<1> QED BY <1>1, <1>2, <1>3, ReadOne DEF Gives

LEMMA GivesWord == \A w \in {"and", "or"} : Gives(<<w, " ">>, <<Mark(w)>>)
<1> SUFFICES ASSUME NEW w \in {"and", "or"} PROVE Gives(<<w, " ">>, <<Mark(w)>>)
  OBVIOUS
<1>1. w \in Letter /\ w \in Words /\ Mark(w) \in Tokens /\ " " \in Letter /\ " " \in Spaces
  BY Special
<1>2. w \notin Spaces \cup Singles \cup Symbols \cup Quotes
  BY <1>1, Classes
<1>3. ReadLetter(Nothing, w) = Reading(<<>>, <<Mark(w)>>, FALSE)
  BY <1>2 DEF ReadLetter, Nothing, Reading, Closed, Opened, Mark
<1>4. ReadLetter(Reading(<<>>, <<Mark(w)>>, FALSE), " ") = Reading(<<Mark(w)>>, <<>>, FALSE)
  <2> DEFINE s == Reading(<<>>, <<Mark(w)>>, FALSE)
  <2>1. s.failed = FALSE /\ s.current = <<Mark(w)>> /\ s.tokens = <<>>
    BY DEF Reading
  <2>2. Mark(w).quote = None
    BY DEF Mark, Token
  <2>3. Closed(s) = <<Mark(w)>>
    BY <1>1, <2>1, Tuples DEF Closed
  <2> HIDE DEF s
  <2>4. ~(s.current # <<>> /\ s.current[1].quote # None)
    BY <2>1, <2>2
  <2>5. " " \notin Singles \cup Symbols \cup Quotes
    BY <1>1, Classes
  <2>6. ReadLetter(s, " ") = Reading(Closed(s), <<>>, FALSE)
    BY <1>1, <2>1, <2>4, <2>5 DEF ReadLetter
  <2> QED BY <2>3, <2>6 DEF s
<1>5. <<w>> \in Texts /\ Append(<<w>>, " ") = <<w, " ">> /\ <<w, " ">> \in Texts
  BY <1>1, Tuples DEF Texts
<1>8. <<Mark(w)>> \in Series
  BY <1>1, Tuples DEF Series
<1>6. Read(<<w>>) = Reading(<<>>, <<Mark(w)>>, FALSE)
  BY <1>1, <1>3, ReadOne
<1>7. Read(<<w, " ">>) = Reading(<<Mark(w)>>, <<>>, FALSE)
  BY <1>1, <1>4, <1>5, <1>6, ReadAppend
<1> QED BY <1>5, <1>7, <1>8 DEF Gives

\* What a space finishes, a parenthesis finishes as well.
LEMMA GivesClosing ==
  ASSUME NEW u \in Texts, NEW ts, Gives(Append(u, " "), ts), NEW c \in {")", ","}
  PROVE  Gives(Append(u, c), Append(ts, Mark(c)))
<1> DEFINE s == Read(u)
           cur == s.current[1]
           quoted == s.current # <<>> /\ cur.quote # None
<1>1. " " \in Letter /\ " " \in Spaces /\ c \in Letter /\ c \in Singles /\ Mark(c) \in Tokens
  BY Special
<1>2. s \in Readings
  BY ReadType
<1>3. ts \in Series /\ ReadLetter(s, " ") = Reading(ts, <<>>, FALSE)
  BY <1>1, ReadAppend DEF Gives
<1> HIDE DEF s
<1>4. s.current \in Currents
  BY <1>2 DEF Readings
<1>5. ~s.failed
  <2>1. Reading(ts, <<>>, FALSE).failed = FALSE
    BY DEF Reading
  <2> QED BY <1>3, <2>1 DEF ReadLetter
<1>6. ~quoted
  <2>1. SUFFICES ASSUME quoted PROVE FALSE
    OBVIOUS
  <2>2. cur \in Tokens
    <3>1. s.current # <<>>
      BY <2>1
    <3>2. PICK t \in Tokens : s.current = <<t>>
      BY <1>4, <3>1 DEF Currents
    <3>3. <<t>>[1] = t
      OBVIOUS
    <3> QED BY <3>2, <3>3
  <2>3. cur.quote \in Quotes
    BY <2>1, <2>2 DEF Tokens
  <2>4. cur.quote # " "
    BY <1>1, <2>3, Classes
  <2>5. ReadLetter(s, " ") = Extended(s, " ")
    BY <1>5, <2>1, <2>4 DEF ReadLetter
  <2>6. Extended(s, " ").current # <<>>
    BY DEF Extended, Reading
  <2>7. Reading(ts, <<>>, FALSE).current = <<>>
    BY DEF Reading
  <2> QED BY <1>3, <2>5, <2>6, <2>7
<1>7. ReadLetter(s, " ") = Reading(Closed(s), <<>>, FALSE)
  BY <1>1, <1>5, <1>6, Classes DEF ReadLetter
<1>8. Closed(s) = ts
  <2>1. Reading(ts, <<>>, FALSE).tokens = ts /\ Reading(Closed(s), <<>>, FALSE).tokens = Closed(s)
    BY DEF Reading
  <2> QED BY <1>3, <1>7, <2>1
<1>9. ReadLetter(s, c) = Reading(Append(Closed(s), Mark(c)), <<>>, FALSE)
  BY <1>1, <1>5, <1>6, Classes DEF ReadLetter, Mark
<1>10. Append(ts, Mark(c)) \in Series
  BY <1>1, <1>3, SeriesAppend
<1> QED BY <1>1, <1>3, <1>8, <1>9, <1>10, ReadAppend, TextsAppend DEF Gives, s

\* A text is read with a space after it.
LEMMA TokenizeGives ==
  ASSUME NEW u \in Texts, NEW ts \in Series
  PROVE  Tokenize(u) = Reading(ts, <<>>, FALSE) <=> Gives(Append(BytesOf(u), " "), ts)
<1> DEFINE line == Append(BytesOf(u), " ")
           s == Read(line)
<1>1. line \in Texts
  <2>1. " " \in Letter /\ BytesOf(u) \in Texts
    BY Special, BytesAppend
  <2> QED BY <2>1, TextsAppend
<1>2. s \in Readings
  BY <1>1, ReadType
<1>3. Tokenize(u) = Reading(s.tokens, <<>>, s.failed \/ s.current # <<>>)
  BY DEF Tokenize
<1> HIDE DEF s, line
<1>4. s.failed \in BOOLEAN /\ s = Reading(s.tokens, s.current, s.failed)
  BY <1>2 DEF Readings, Reading
<1>5. Tokenize(u) = Reading(ts, <<>>, FALSE) <=> s = Reading(ts, <<>>, FALSE)
  <2>1. ASSUME Tokenize(u) = Reading(ts, <<>>, FALSE) PROVE s = Reading(ts, <<>>, FALSE)
    <3>1. Reading(ts, <<>>, FALSE).tokens = ts /\ Reading(ts, <<>>, FALSE).failed = FALSE
      BY DEF Reading
    <3>2. Tokenize(u).tokens = s.tokens /\ Tokenize(u).failed = (s.failed \/ s.current # <<>>)
      BY <1>3, ReadingParts
    <3>3. s.tokens = ts /\ ~s.failed /\ s.current = <<>>
      BY <1>4, <2>1, <3>1, <3>2
    <3>4. s.failed = FALSE
      BY <1>4, <3>3
    <3> QED BY <1>4, <3>3, <3>4
  <2>2. ASSUME s = Reading(ts, <<>>, FALSE) PROVE Tokenize(u) = Reading(ts, <<>>, FALSE)
    <3>1. s.tokens = ts /\ s.current = <<>> /\ s.failed = FALSE
      BY <2>2 DEF Reading
    <3>2. (s.failed \/ s.current # <<>>) = FALSE
      BY <3>1
    <3> QED BY <1>3, <3>1, <3>2
  <2> QED BY <2>1, <2>2
<1> QED BY <1>1, <1>5 DEF Gives, s, line
-----------------------------------------------------------------------------
(* Levels of parentheses. *)

Rise(t) == IF Bare(t, <<"(">>) THEN 1 ELSE IF Bare(t, <<")">>) THEN -1 ELSE 0

LEMMA RiseRange == \A t : Rise(t) \in {-1, 0, 1} /\ (~Bare(t, <<"(">>) => Rise(t) <= 0)
  BY DEF Rise

LEMMA Counting ==
  ASSUME NEW ts, NEW w, NEW n \in Nat
  PROVE  /\ Cardinality({i \in 1..n : Bare(ts[i], w)}) \in Nat
         /\ Cardinality({i \in 1..(n + 1) : Bare(ts[i], w)}) =
              Cardinality({i \in 1..n : Bare(ts[i], w)}) + (IF Bare(ts[n + 1], w) THEN 1 ELSE 0)
<1> DEFINE A == {i \in 1..n : Bare(ts[i], w)}
           B == {i \in 1..(n + 1) : Bare(ts[i], w)}
<1>1. IsFiniteSet(A)
  <2>1. IsFiniteSet(1..n) /\ A \subseteq 1..n
    BY FS_Interval
  <2> QED BY <2>1, FS_Subset
<1>2. Cardinality(A) \in Nat
  BY <1>1, FS_CardinalityType
<1>3. CASE Bare(ts[n + 1], w)
  <2>1. B = A \cup {n + 1} /\ n + 1 \notin A
    BY <1>3
  <2>2. Cardinality(B) = Cardinality(A) + 1
    <3> HIDE DEF A, B
    <3> QED BY <1>1, <2>1, FS_AddElement
  <2> QED BY <1>2, <1>3, <2>2
<1>4. CASE ~Bare(ts[n + 1], w)
  <2>1. B = A
    BY <1>4
  <2> HIDE DEF A, B
  <2>2. Cardinality(B) = Cardinality(A) + 0
    BY <1>2, <2>1
  <2> QED BY <1>2, <1>4, <2>2 DEF A, B
<1> QED BY <1>3, <1>4

LEMMA LevelStep ==
  ASSUME NEW ts, NEW n \in Nat
  PROVE  Level(ts, n) \in Int /\ Level(ts, n + 1) = Level(ts, n) + Rise(ts[n + 1])
<1>1. Bare(ts[n + 1], <<"(">>) => ~Bare(ts[n + 1], <<")">>)
  BY DEF Bare
<1> DEFINE o == Cardinality({i \in 1..n : Bare(ts[i], <<"(">>)})
           c == Cardinality({i \in 1..n : Bare(ts[i], <<")">>)})
           oo == Cardinality({i \in 1..(n + 1) : Bare(ts[i], <<"(">>)})
           cc == Cardinality({i \in 1..(n + 1) : Bare(ts[i], <<")">>)})
<1>2. o \in Nat /\ oo = o + (IF Bare(ts[n + 1], <<"(">>) THEN 1 ELSE 0)
  BY Counting
<1>3. c \in Nat /\ cc = c + (IF Bare(ts[n + 1], <<")">>) THEN 1 ELSE 0)
  BY Counting
<1>4. Level(ts, n) = o - c /\ Level(ts, n + 1) = oo - cc
  BY DEF Level
<1> HIDE DEF o, c, oo, cc
<1> QED BY <1>1, <1>2, <1>3, <1>4 DEF Rise

LEMMA LevelZero == \A ts : Level(ts, 0) = 0
<1> SUFFICES ASSUME NEW ts PROVE Level(ts, 0) = 0
  OBVIOUS
<1>1. \A w : {i \in 1..0 : Bare(ts[i], w)} = {}
  OBVIOUS
<1>2. Cardinality({}) = 0
  BY FS_EmptySet
<1> QED BY <1>1, <1>2 DEF Level

\* After the first m of ts come the first n of us.
Holds(ts, m, us, n) == \A i \in 1..n : ts[m + i] = us[i]

\* A level counts from any position on.
LEMMA LevelShift ==
  ASSUME NEW ts, NEW us, NEW m \in Nat, NEW n \in Nat, Holds(ts, m, us, n)
  PROVE  \A k \in 0..n : Level(ts, m + k) = Level(ts, m) + Level(us, k)
<1> DEFINE K == {k \in Nat : k <= n => Level(ts, m + k) = Level(ts, m) + Level(us, k)}
<1>1. 0 \in K
  <2>1. m + 0 = m /\ Level(us, 0) = 0 /\ Level(ts, m) \in Int
    BY LevelZero, LevelStep
  <2> QED BY <2>1
<1>2. ASSUME NEW k \in K PROVE k + 1 \in K
  <2>1. SUFFICES ASSUME k + 1 <= n PROVE Level(ts, m + (k + 1)) = Level(ts, m) + Level(us, k + 1)
    OBVIOUS
  <2>2. /\ k \in Nat /\ m + k \in Nat /\ m + (k + 1) = (m + k) + 1 /\ k + 1 \in 1..n
        /\ Level(ts, m + k) = Level(ts, m) + Level(us, k)
    BY <2>1
  <2>3. ts[(m + k) + 1] = us[k + 1]
    BY <2>2 DEF Holds
  <2>4. Level(ts, (m + k) + 1) = Level(ts, m + k) + Rise(us[k + 1])
    BY <2>2, <2>3, LevelStep
  <2>5. Level(us, k + 1) = Level(us, k) + Rise(us[k + 1]) /\ Level(us, k) \in Int /\ Level(ts, m) \in Int
    BY <2>2, LevelStep
  <2>6. Rise(us[k + 1]) \in Int
    BY RiseRange
  <2> QED BY <2>2, <2>4, <2>5, <2>6
<1> HIDE DEF K
<1>3. K = Nat
  BY <1>1, <1>2, Climbing DEF K
<1> QED BY <1>3 DEF K

LEMMA LevelSame ==
  ASSUME NEW ts, NEW us, NEW n \in Nat, \A i \in 1..n : ts[i] = us[i]
  PROVE  \A k \in 0..n : Level(ts, k) = Level(us, k)
<1>1. Holds(ts, 0, us, n)
  BY DEF Holds
<1>2. \A k \in 0..n : Level(ts, 0 + k) = Level(ts, 0) + Level(us, k)
  BY <1>1, LevelShift
<1> QED BY <1>2, LevelZero, LevelStep

\* Where a parenthesis closes.
LEMMA ClosesWhere ==
  ASSUME NEW ts, Len(ts) \in Nat, NEW p \in Nat
  PROVE  LET c == Closes(ts, p)
             Ending(n) == Bare(ts[n], <<")">>) /\ Level(ts, n) = Level(ts, p) - 1
         IN /\ c = 0 \/ (c \in p + 1 .. Len(ts) /\ Ending(c))
            /\ \A n \in p + 1 .. Len(ts) : Ending(n) => c # 0 /\ c <= n
<1> DEFINE ends == {n \in p + 1 .. Len(ts) : Bare(ts[n], <<")">>) /\ Level(ts, n) = Level(ts, p) - 1}
<1>1. Closes(ts, p) = IF ends = {} THEN 0 ELSE Min(ends)
  BY DEF Closes
<1>2. ends # {} => Min(ends) \in ends /\ \A n \in ends : Min(ends) <= n
  <2>1. SUFFICES ASSUME ends # {} PROVE \E x \in ends : \A y \in ends : x <= y
    BY DEF Min
  <2>2. ends \in SUBSET Nat
    OBVIOUS
  <2> HIDE DEF ends
  <2> DEFINE R == OpToRel(<, Nat)
  <2>3. \A i, j \in Nat : <<i, j>> \in R <=> i < j
    BY DEF OpToRel
  <2>4. IsWellFoundedOn(R, Nat)
    BY NatLessThanWellFounded
  <2> HIDE DEF R
  <2>5. PICK x \in ends : \A y \in ends : <<y, x>> \notin R
    BY <2>1, <2>2, <2>4, WFMin
  <2>6. ASSUME NEW y \in ends PROVE x <= y
    <3>1. x \in Nat /\ y \in Nat
      BY <2>2
    <3>2. ~(y < x)
      BY <2>3, <2>5, <3>1
    <3> QED BY <3>1, <3>2
  <2> QED BY <2>6
<1>3. \A n \in ends : n # 0
  OBVIOUS
<1> QED BY <1>1, <1>2, <1>3
-----------------------------------------------------------------------------
(* The forms of a condition. *)

IsNullAt(ts, p) == Len(ts) >= p + 3 /\ Bare(ts[p + 2], <<"is">>) /\ ts[p + 3].value = <<"null">>
IsNotNullAt(ts, p) ==
  /\ Len(ts) >= p + 4 /\ Bare(ts[p + 2], <<"is">>) /\ ts[p + 3].value = <<"not">>
  /\ ts[p + 4].value = <<"null">>
ComparesAt(ts, p) == Len(ts) >= p + 3 /\ ts[p + 2].quote = None /\ ts[p + 2].value \in Operations
ValueAt(ts, p) == ComparesAt(ts, p) /\ ~Bare(ts[p + 3], <<"(">>)
Listed(ts, p) == SubSeq(ts, p + 4, Closes(ts, p + 3) - 1)
ListAt(ts, p) ==
  /\ ComparesAt(ts, p) /\ Bare(ts[p + 3], <<"(">>) /\ Closes(ts, p + 3) > 0 /\ ListOf(Listed(ts, p)).ok

LEMMA OperationsPlain == \A w \in {"is", "(", ")", "and", "or"} : <<w>> \notin Operations
  BY DEF Operations

LEMMA ConditionForms ==
  ASSUME NEW ts, Len(ts) \in Nat, NEW p \in Nat
  PROVE  /\ IsNullAt(ts, p) => ParseCondition(ts, p) = Took(p + 3, IsNull(ts[p + 1].value))
         /\ IsNotNullAt(ts, p) => ParseCondition(ts, p) = Took(p + 4, IsNotNull(ts[p + 1].value))
         /\ ValueAt(ts, p) => ParseCondition(ts, p) =
              Took(p + 3, Condition(ts[p + 1].value, ts[p + 2].value, <<ts[p + 3].value>>))
         /\ ListAt(ts, p) => ParseCondition(ts, p) =
              Took(Closes(ts, p + 3), Condition(ts[p + 1].value, ts[p + 2].value, ListOf(Listed(ts, p)).values))
         /\ ~IsNullAt(ts, p) /\ ~IsNotNullAt(ts, p) /\ ~ValueAt(ts, p) /\ ~ListAt(ts, p) =>
              ParseCondition(ts, p) = Took(p, Failed)
<1> DEFINE is == Bare(ts[p + 2], <<"is">>)
           op == ts[p + 2].value
           compares == ts[p + 2].quote = None /\ op \in Operations
           value == ts[p + 3]
           null == value.value = <<"null">>
           not == value.value = <<"not">>
           open == Bare(value, <<"(">>)
           two == Len(ts) >= p + 4 /\ ts[p + 4].value = <<"null">>
           long == Len(ts) >= p + 3
           o == ParseCondition(ts, p)
           name == ts[p + 1].value
           close == Closes(ts, p + 3)
           ok == close > 0 /\ ListOf(Listed(ts, p)).ok
<1>1. ~(is /\ compares)
  BY OperationsPlain DEF Bare
<1>2. ~(null /\ not)
  OBVIOUS
<1>3. ~long \/ ~(is \/ compares) => o = Took(p, Failed)
  BY DEF ParseCondition
<1>4. long /\ is /\ null => o = Took(p + 3, IsNull(name))
  BY <1>1, <1>2 DEF ParseCondition
<1>5. long /\ is /\ not /\ two => o = Took(p + 4, IsNotNull(name))
  BY <1>1, <1>2 DEF ParseCondition
<1>6. long /\ is /\ not /\ ~two => o = Took(p, Failed)
  BY <1>1, <1>2 DEF ParseCondition
<1>7. long /\ is /\ ~not /\ ~null => o = Took(p, Failed)
  BY <1>1, <1>2 DEF ParseCondition
<1>8. long /\ compares /\ ~open => o = Took(p + 3, Condition(name, op, <<value.value>>))
  BY <1>1, <1>2 DEF ParseCondition
<1>9. long /\ compares /\ open /\ ok => o = Took(close, Condition(name, op, ListOf(Listed(ts, p)).values))
  BY <1>1, <1>2 DEF ParseCondition, Listed
<1>10. long /\ compares /\ open /\ ~ok => o = Took(p, Failed)
  BY <1>1, <1>2 DEF ParseCondition, Listed
<1>11. IsNullAt(ts, p) <=> long /\ is /\ null
  BY DEF IsNullAt
<1>12. IsNotNullAt(ts, p) <=> long /\ is /\ not /\ two
  BY DEF IsNotNullAt
<1>13. ValueAt(ts, p) <=> long /\ compares /\ ~open
  BY DEF ValueAt, ComparesAt
<1>14. ListAt(ts, p) <=> long /\ compares /\ open /\ ok
  BY DEF ListAt, ComparesAt
<1> HIDE DEF is, compares, null, not, open, two, long, o, ok
<1> QED BY <1>1, <1>3, <1>4, <1>5, <1>6, <1>7, <1>8, <1>9, <1>10, <1>11, <1>12, <1>13, <1>14 DEF o

\* What an operand takes does not leave a parenthesis open.
LEMMA ConditionTakes ==
  ASSUME NEW ts, Len(ts) \in Nat, NEW p \in Nat, p < Len(ts), ~Bare(ts[p + 1], <<"(">>),
         ParseCondition(ts, p).clause.kind \notin Outcomes
  PROVE  /\ ParseCondition(ts, p).at \in p + 3 .. Len(ts)
         /\ Level(ts, ParseCondition(ts, p).at) <= Level(ts, p)
<1> DEFINE L(k) == Level(ts, p + k)
<1>1. L(0) \in Int /\ L(1) \in Int /\ L(2) \in Int /\ L(3) \in Int /\ L(4) \in Int /\ L(0) = Level(ts, p)
  <2>1. p + 0 = p /\ p + 1 \in Nat /\ p + 2 \in Nat /\ p + 3 \in Nat /\ p + 4 \in Nat
    OBVIOUS
  <2> QED BY <2>1, LevelStep
<1>2. L(1) <= L(0)
  <2>1. Level(ts, p + 1) = Level(ts, p) + Rise(ts[p + 1]) /\ Rise(ts[p + 1]) <= 0 /\ Rise(ts[p + 1]) \in Int
    BY LevelStep, RiseRange
  <2> QED BY <1>1, <2>1
<1>3. \A k \in 1..3 : ~Bare(ts[p + (k + 1)], <<"(">>) => L(k + 1) <= L(k)
  <2>1. SUFFICES ASSUME NEW k \in 1..3, ~Bare(ts[p + (k + 1)], <<"(">>) PROVE L(k + 1) <= L(k)
    OBVIOUS
  <2>2. p + k \in Nat /\ (p + k) + 1 = p + (k + 1)
    OBVIOUS
  <2>3. Level(ts, (p + k) + 1) = Level(ts, p + k) + Rise(ts[(p + k) + 1]) /\ Level(ts, p + k) \in Int
    BY <2>2, LevelStep
  <2>4. Rise(ts[p + (k + 1)]) <= 0 /\ Rise(ts[p + (k + 1)]) \in Int
    BY <2>1, RiseRange
  <2> QED BY <2>2, <2>3, <2>4
<1>4. /\ ~Bare(ts[p + 2], <<"(">>) => L(2) <= L(1)
      /\ ~Bare(ts[p + 3], <<"(">>) => L(3) <= L(2)
      /\ ~Bare(ts[p + 4], <<"(">>) => L(4) <= L(3)
  <2>1. 1 \in 1..3 /\ 2 \in 1..3 /\ 3 \in 1..3
    OBVIOUS
  <2> HIDE DEF L
  <2>2. /\ ~Bare(ts[p + (1 + 1)], <<"(">>) => L(1 + 1) <= L(1)
        /\ ~Bare(ts[p + (2 + 1)], <<"(">>) => L(2 + 1) <= L(2)
        /\ ~Bare(ts[p + (3 + 1)], <<"(">>) => L(3 + 1) <= L(3)
    BY <1>3, <2>1
  <2> QED BY <2>2
<1>5. Failed.kind \in Outcomes /\ \A q, c : Took(q, c).clause = c /\ Took(q, c).at = q
  BY DEF Failed, Outcomes, Took
<1>6. IsNullAt(ts, p) \/ IsNotNullAt(ts, p) \/ ValueAt(ts, p) \/ ListAt(ts, p)
  <2>1. SUFFICES ASSUME ~IsNullAt(ts, p), ~IsNotNullAt(ts, p), ~ValueAt(ts, p), ~ListAt(ts, p) PROVE FALSE
    OBVIOUS
  <2>2. ParseCondition(ts, p) = Took(p, Failed)
    BY <2>1, ConditionForms
  <2> QED BY <1>5, <2>2
<1>7. \A t : Bare(t, <<"is">>) \/ t.value \in Operations \/ t.value \in {<<"null">>, <<"not">>} => ~Bare(t, <<"(">>)
  BY OperationsPlain DEF Bare
<1>8. CASE IsNullAt(ts, p)
  <2>1. ParseCondition(ts, p).at = p + 3
    <3>1. ParseCondition(ts, p) = Took(p + 3, IsNull(ts[p + 1].value))
      BY <1>8, ConditionForms
    <3> QED BY <1>5, <3>1
  <2>2. ~Bare(ts[p + 2], <<"(">>) /\ ~Bare(ts[p + 3], <<"(">>) /\ Len(ts) >= p + 3
    BY <1>7, <1>8 DEF IsNullAt
  <2> HIDE DEF L
  <2>3. L(3) <= L(0)
    BY <1>1, <1>2, <1>4, <2>2
  <2> QED BY <1>1, <2>1, <2>2, <2>3 DEF L
<1>9. CASE IsNotNullAt(ts, p)
  <2>1. ParseCondition(ts, p).at = p + 4
    <3>1. ParseCondition(ts, p) = Took(p + 4, IsNotNull(ts[p + 1].value))
      BY <1>9, ConditionForms
    <3> QED BY <1>5, <3>1
  <2>2. ~Bare(ts[p + 2], <<"(">>) /\ ~Bare(ts[p + 3], <<"(">>) /\ ~Bare(ts[p + 4], <<"(">>) /\ Len(ts) >= p + 4
    BY <1>7, <1>9 DEF IsNotNullAt
  <2> HIDE DEF L
  <2>3. L(4) <= L(0)
    BY <1>1, <1>2, <1>4, <2>2
  <2> QED BY <1>1, <2>1, <2>2, <2>3 DEF L
<1>10. CASE ValueAt(ts, p)
  <2>1. ParseCondition(ts, p).at = p + 3
    <3>1. ParseCondition(ts, p) = Took(p + 3, Condition(ts[p + 1].value, ts[p + 2].value, <<ts[p + 3].value>>))
      BY <1>10, ConditionForms
    <3> QED BY <1>5, <3>1
  <2>2. ~Bare(ts[p + 2], <<"(">>) /\ ~Bare(ts[p + 3], <<"(">>) /\ Len(ts) >= p + 3
    BY <1>7, <1>10 DEF ValueAt, ComparesAt
  <2> HIDE DEF L
  <2>3. L(3) <= L(0)
    BY <1>1, <1>2, <1>4, <2>2
  <2> QED BY <1>1, <2>1, <2>2, <2>3 DEF L
<1>11. CASE ListAt(ts, p)
  <2>1. ParseCondition(ts, p).at = Closes(ts, p + 3)
    <3>1. ParseCondition(ts, p) = Took(Closes(ts, p + 3), Condition(ts[p + 1].value, ts[p + 2].value, ListOf(Listed(ts, p)).values))
      BY <1>11, ConditionForms
    <3> QED BY <1>5, <3>1
  <2>2. ~Bare(ts[p + 2], <<"(">>) /\ Bare(ts[p + 3], <<"(">>) /\ Len(ts) >= p + 3 /\ Closes(ts, p + 3) > 0
    BY <1>7, <1>11 DEF ListAt, ComparesAt
  <2>3. Closes(ts, p + 3) \in p + 4 .. Len(ts) /\ Level(ts, Closes(ts, p + 3)) = Level(ts, p + 3) - 1
    <3>1. p + 3 \in Nat /\ (p + 3) + 1 = p + 4
      OBVIOUS
    <3> QED BY <2>2, <3>1, ClosesWhere
  <2>4. L(3) = L(2) + 1
    <3>1. p + 2 \in Nat /\ (p + 2) + 1 = p + 3
      OBVIOUS
    <3>2. Level(ts, p + 3) = Level(ts, p + 2) + Rise(ts[p + 3])
      BY <3>1, LevelStep
    <3>3. Rise(ts[p + 3]) = 1
      BY <2>2 DEF Rise
    <3> QED BY <3>2, <3>3
  <2>5. Level(ts, Closes(ts, p + 3)) = L(3) - 1
    BY <2>3
  <2> HIDE DEF L
  <2>6. L(3) - 1 <= L(0)
    BY <1>1, <1>2, <1>4, <2>2, <2>4
  <2> QED BY <1>1, <2>1, <2>3, <2>5, <2>6
<1> QED BY <1>6, <1>8, <1>9, <1>10, <1>11
-----------------------------------------------------------------------------
LEMMA OperandForms ==
  ASSUME NEW ts, NEW p \in Nat, NEW inner
  PROVE  LET close == Closes(ts, p + 1) IN
         /\ ~Bare(ts[p + 1], <<"(">>) => ParseOperand(ts, p, inner) = ParseCondition(ts, p)
         /\ Bare(ts[p + 1], <<"(">>) /\ close > 0 =>
              ParseOperand(ts, p, inner) = Took(close, inner[SubSeq(ts, p + 2, close - 1)])
         /\ Bare(ts[p + 1], <<"(">>) /\ close = 0 => ParseOperand(ts, p, inner) = Took(p, Failed)
<1> DEFINE close == Closes(ts, p + 1)
           open == Bare(ts[p + 1], <<"(">>)
<1>1. ~open => ParseOperand(ts, p, inner) = ParseCondition(ts, p)
  BY DEF ParseOperand
<1>2. open /\ close > 0 => ParseOperand(ts, p, inner) = Took(close, inner[SubSeq(ts, p + 2, close - 1)])
  BY DEF ParseOperand
<1>3. open /\ close = 0 => ParseOperand(ts, p, inner) = Took(p, Failed)
  BY DEF ParseOperand
<1> HIDE DEF close, open
<1> QED BY <1>1, <1>2, <1>3 DEF close, open

LEMMA TookParts == \A p, c : Took(p, c).at = p /\ Took(p, c).clause = c
  BY DEF Took

LEMMA FailedKind == Failed.kind \in Outcomes
  BY DEF Failed, Outcomes

LEMMA OperandTakes ==
  ASSUME NEW ts, Len(ts) \in Nat, NEW p \in Nat, p < Len(ts), NEW inner,
         ParseOperand(ts, p, inner).clause.kind \notin Outcomes
  PROVE  /\ ParseOperand(ts, p, inner).at \in p + 1 .. Len(ts)
         /\ Level(ts, ParseOperand(ts, p, inner).at) <= Level(ts, p)
<1> DEFINE close == Closes(ts, p + 1)
           o == ParseOperand(ts, p, inner)
<1>1. CASE ~Bare(ts[p + 1], <<"(">>)
  <2>1. o = ParseCondition(ts, p)
    BY <1>1, OperandForms
  <2>2. ParseCondition(ts, p).at \in p + 3 .. Len(ts) /\ Level(ts, ParseCondition(ts, p).at) <= Level(ts, p)
    BY <1>1, <2>1, ConditionTakes
  <2> QED BY <2>1, <2>2
<1>2. CASE Bare(ts[p + 1], <<"(">>)
  <2>1. close = 0 \/ (close \in p + 2 .. Len(ts) /\ Level(ts, close) = Level(ts, p + 1) - 1)
    <3>1. p + 1 \in Nat /\ (p + 1) + 1 = p + 2
      OBVIOUS
    <3> QED BY <3>1, ClosesWhere
  <2>2. close # 0
    <3>1. SUFFICES ASSUME close = 0 PROVE FALSE
      OBVIOUS
    <3>2. o = Took(p, Failed)
      BY <1>2, <3>1, OperandForms
    <3> QED BY <3>2, TookParts, FailedKind
  <2>3. close > 0
    BY <2>1, <2>2
  <2>4. o = Took(close, inner[SubSeq(ts, p + 2, close - 1)])
    BY <1>2, <2>3, OperandForms
  <2>5. o.at = close
    BY <2>4, TookParts
  <2>6. Level(ts, p + 1) = Level(ts, p) + 1 /\ Level(ts, p) \in Int
    BY <1>2, LevelStep DEF Rise
  <2> HIDE DEF close, o
  <2>7. close \in p + 1 .. Len(ts) /\ Level(ts, close) <= Level(ts, p)
    BY <2>1, <2>2, <2>6
  <2> QED BY <2>5, <2>7 DEF o
<1> QED BY <1>1, <1>2

\* Only what is shorter is read inside.
LEMMA OperandInside ==
  ASSUME NEW ts \in Series, NEW p \in Nat, p < Len(ts), NEW f, NEW g,
         \A us \in Series : Len(us) < Len(ts) => f[us] = g[us]
  PROVE  ParseOperand(ts, p, f) = ParseOperand(ts, p, g)
<1> DEFINE close == Closes(ts, p + 1)
           us == SubSeq(ts, p + 2, close - 1)
<1>1. Len(ts) \in Nat
  BY DEF Series
<1>2. CASE ~Bare(ts[p + 1], <<"(">>)
  BY <1>2, OperandForms
<1>3. CASE Bare(ts[p + 1], <<"(">>)
  <2>1. close = 0 \/ close \in p + 2 .. Len(ts)
    <3>1. p + 1 \in Nat /\ (p + 1) + 1 = p + 2
      OBVIOUS
    <3> QED BY <1>1, <3>1, ClosesWhere
  <2>2. CASE close = 0
    BY <1>3, <2>2, OperandForms
  <2>3. CASE close \in p + 2 .. Len(ts)
    <3>1. close > 0
      BY <2>3
    <3>2. us \in Series /\ Len(us) < Len(ts)
      <4> HIDE DEF close
      <4>1. us \in Seq(Tokens) /\ Len(us) = IF p + 2 <= close - 1 THEN (close - 1) - (p + 2) + 1 ELSE 0
        BY <1>1, <2>3 DEF Series
      <4> QED BY <1>1, <2>3, <4>1 DEF Series
    <3>3. ParseOperand(ts, p, f) = Took(close, f[us])
      BY <1>3, <3>1, OperandForms
    <3>4. ParseOperand(ts, p, g) = Took(close, g[us])
      BY <1>3, <3>1, OperandForms
    <3> HIDE DEF us, close
    <3> QED BY <3>2, <3>3, <3>4
  <2> QED BY <2>1, <2>2, <2>3
<1> QED BY <1>2, <1>3
-----------------------------------------------------------------------------
(* The turns of the loop. *)

LEMMA LoopParts ==
  ASSUME NEW p, NEW ors, NEW ands, NEW e
  PROVE  /\ Loop(p, ors, ands, e).at = p /\ Loop(p, ors, ands, e).ors = ors
         /\ Loop(p, ors, ands, e).ands = ands /\ Loop(p, ors, ands, e).end = e
  BY DEF Loop

Start == Loop(0, <<>>, <<>>, None)
LoopStep(ts, inner, s) == IF Ended(ts, s) THEN s ELSE Turn(ts, s, inner)
LoopSteps(ts, inner, n, t) == t = [k \in 0..n |-> IF k = 0 THEN Start ELSE LoopStep(ts, inner, t[k - 1])]

LEMMA LoopStepsAt ==
  ASSUME NEW ts, NEW inner, NEW n \in Nat, NEW t, LoopSteps(ts, inner, n, t)
  PROVE  t[0] = Start /\ \A k \in 1..n : t[k] = LoopStep(ts, inner, t[k - 1])
<1> DEFINE F(f) == [k \in 0..n |-> IF k = 0 THEN Start ELSE LoopStep(ts, inner, f[k - 1])]
<1>1. t = F(t)
  BY DEF LoopSteps
<1>2. \A k \in 0..n : F(t)[k] = IF k = 0 THEN Start ELSE LoopStep(ts, inner, t[k - 1])
  OBVIOUS
<1> HIDE DEF F
<1>3. \A k \in 0..n : t[k] = IF k = 0 THEN Start ELSE LoopStep(ts, inner, t[k - 1])
  BY <1>1, <1>2
<1> QED BY <1>3

\* A table with one turn more.
LEMMA LoopStepsMore ==
  ASSUME NEW ts, NEW inner, NEW n \in Nat, NEW t, LoopSteps(ts, inner, n, t)
  PROVE  \E u : LoopSteps(ts, inner, n + 1, u) /\ u[n + 1] = LoopStep(ts, inner, t[n])
<1> DEFINE x == LoopStep(ts, inner, t[n])
           u == [i \in 0..(n + 1) |-> IF i = n + 1 THEN x ELSE t[i]]
<1>1. t[0] = Start /\ \A i \in 1..n : t[i] = LoopStep(ts, inner, t[i - 1])
  BY LoopStepsAt
<1>2. \A i \in 0..(n + 1) : u[i] = IF i = 0 THEN Start ELSE LoopStep(ts, inner, u[i - 1])
  <2>1. u[0] = Start
    <3> HIDE DEF x
    <3> QED BY <1>1
  <2>2. ASSUME NEW i \in 1..n PROVE u[i] = LoopStep(ts, inner, u[i - 1])
    <3>1. u[i] = t[i] /\ u[i - 1] = t[i - 1]
      <4> HIDE DEF x
      <4> QED OBVIOUS
    <3> QED BY <1>1, <3>1
  <2>3. u[n + 1] = LoopStep(ts, inner, u[n])
    <3>1. u[n + 1] = x /\ u[n] = t[n]
      <4> HIDE DEF x
      <4> QED OBVIOUS
    <3> QED BY <3>1
  <2>4. \A i \in 0..(n + 1) : i = 0 \/ i \in 1..n \/ (i = n + 1 /\ i - 1 = n /\ i # 0)
    OBVIOUS
  <2> HIDE DEF u
  <2> QED BY <2>1, <2>2, <2>3, <2>4
<1>3. u = [i \in 0..(n + 1) |-> u[i]] /\ u[n + 1] = x
  <2> HIDE DEF x
  <2> QED OBVIOUS
<1> HIDE DEF u, x
<1>4. LoopSteps(ts, inner, n + 1, u)
  BY <1>2, <1>3 DEF LoopSteps
<1> QED BY <1>3, <1>4 DEF x

LEMMA LoopStepsExist == \A ts, inner : \A n \in Nat : \E t : LoopSteps(ts, inner, n, t)
<1> SUFFICES ASSUME NEW ts, NEW inner PROVE \A n \in Nat : \E t : LoopSteps(ts, inner, n, t)
  OBVIOUS
<1> DEFINE K == {n \in Nat : \E t : LoopSteps(ts, inner, n, t)}
<1>1. 0 \in K
  <2> DEFINE t == [i \in 0..0 |-> Start]
  <2>1. LoopSteps(ts, inner, 0, t)
    BY DEF LoopSteps
  <2> HIDE DEF t
  <2> QED BY <2>1
<1>2. ASSUME NEW n \in K PROVE n + 1 \in K
  <2>1. n + 1 \in Nat
    OBVIOUS
  <2> QED BY <2>1, LoopStepsMore
<1> HIDE DEF K
<1>3. K = Nat
  BY <1>1, <1>2, Climbing DEF K
<1> QED BY <1>3 DEF K

LEMMA LoopStepsAgree ==
  ASSUME NEW ts, NEW f, NEW g, NEW m \in Nat, NEW n \in Nat, m <= n,
         NEW t, LoopSteps(ts, f, m, t), NEW u, LoopSteps(ts, g, n, u),
         \A k \in 0..m : LoopStep(ts, f, t[k]) = LoopStep(ts, g, t[k])
  PROVE  t[m] = u[m]
<1> DEFINE K == {k \in Nat : k <= m => t[k] = u[k]}
<1>1. /\ t[0] = Start /\ \A k \in 1..m : t[k] = LoopStep(ts, f, t[k - 1])
      /\ u[0] = Start /\ \A k \in 1..n : u[k] = LoopStep(ts, g, u[k - 1])
  BY LoopStepsAt
<1>2. 0 \in K
  BY <1>1
<1>3. ASSUME NEW k \in K PROVE k + 1 \in K
  <2>1. SUFFICES ASSUME k + 1 <= m PROVE t[k + 1] = u[k + 1]
    OBVIOUS
  <2>2. k \in Nat /\ t[k] = u[k] /\ k + 1 \in 1..m /\ k + 1 \in 1..n /\ (k + 1) - 1 = k /\ k \in 0..m
    BY <2>1
  <2>3. t[k + 1] = LoopStep(ts, f, t[k]) /\ u[k + 1] = LoopStep(ts, g, u[k])
    BY <1>1, <2>2
  <2> QED BY <2>2, <2>3
<1> HIDE DEF K
<1>4. K = Nat
  BY <1>2, <1>3, Climbing DEF K
<1> QED BY <1>4 DEF K

LEMMA LoopedIs ==
  ASSUME NEW ts, NEW inner, NEW n, n = Cardinality(Outside(ts)) + 1, n \in Nat, NEW t, LoopSteps(ts, inner, n, t)
  PROVE  Looped(ts, inner) = t[n]
<1> DEFINE r == CHOOSE f : LoopSteps(ts, inner, n, f)
<1>1. LoopSteps(ts, inner, n, r)
  OBVIOUS
<1>2. Looped(ts, inner) = r[n]
  BY DEF Looped, LoopSteps, LoopStep, Start
<1> HIDE DEF r
<1> QED BY <1>1, <1>2, LoopStepsAgree
-----------------------------------------------------------------------------
(* One turn. *)

TookTurn(s, o) ==
  IF o.clause.kind \in Outcomes THEN [s EXCEPT !.end = o.clause.kind]
  ELSE Loop(o.at, s.ors, Append(s.ands, o.clause), None)

LEMMA TurnForms ==
  ASSUME NEW ts, NEW s, NEW inner
  PROVE  LET t == ts[s.at + 1]
             done == CloseAnd(s.ors, s.ands)
         IN /\ Bare(t, <<")">>) => Turn(ts, s, inner) = [s EXCEPT !.end = "error"]
            /\ Bare(t, <<"or">>) =>
                 Turn(ts, s, inner) = IF done = <<>> THEN [s EXCEPT !.end = "error"] ELSE Loop(s.at + 1, done, <<>>, None)
            /\ Bare(t, <<"and">>) =>
                 Turn(ts, s, inner) = IF s.ands = <<>> THEN [s EXCEPT !.end = "error"]
                                      ELSE IF s.at + 1 = Len(ts) THEN [s EXCEPT !.end = "panic"]
                                      ELSE TookTurn(s, ParseOperand(ts, s.at + 1, inner))
            /\ ~Bare(t, <<")">>) /\ ~Bare(t, <<"or">>) /\ ~Bare(t, <<"and">>) =>
                 Turn(ts, s, inner) = IF s.ands # <<>> THEN [s EXCEPT !.end = "error"]
                                      ELSE TookTurn(s, ParseOperand(ts, s.at, inner))
<1> DEFINE t == ts[s.at + 1]
           done == CloseAnd(s.ors, s.ands)
           close == Bare(t, <<")">>)
           or == Bare(t, <<"or">>)
           and == Bare(t, <<"and">>)
           error == [s EXCEPT !.end = "error"]
           new == Turn(ts, s, inner)
<1>1. ~(close /\ or) /\ ~(close /\ and) /\ ~(or /\ and)
  BY DEF Bare
<1>2. close => new = error
  BY <1>1 DEF Turn
<1>3. or => new = IF done = <<>> THEN error ELSE Loop(s.at + 1, done, <<>>, None)
  BY <1>1 DEF Turn
<1>4. and => new = IF s.ands = <<>> THEN error
                   ELSE IF s.at + 1 = Len(ts) THEN [s EXCEPT !.end = "panic"]
                   ELSE TookTurn(s, ParseOperand(ts, s.at + 1, inner))
  BY <1>1 DEF Turn, TookTurn
<1>5. ~close /\ ~or /\ ~and => new = IF s.ands # <<>> THEN error ELSE TookTurn(s, ParseOperand(ts, s.at, inner))
  BY <1>1 DEF Turn, TookTurn
<1> HIDE DEF close, or, and, error, new, done
<1> QED BY <1>2, <1>3, <1>4, <1>5 DEF close, or, and, error, new, done

LoopState(ts, s) ==
  /\ s = Loop(s.at, s.ors, s.ands, s.end) /\ s.at \in 0..Len(ts)
  /\ s.end = None \/ s.end \in Outcomes
  /\ s.end = None => Level(ts, s.at) <= 0

LEMMA StoppedIs ==
  ASSUME NEW s, s = Loop(s.at, s.ors, s.ands, s.end), NEW e
  PROVE  [s EXCEPT !.end = e] = Loop(s.at, s.ors, s.ands, e)
  BY DEF Loop

\* A turn takes tokens, none of them between parentheses that stay open, or it is the last.
LEMMA TurnTakes ==
  ASSUME NEW ts, Len(ts) \in Nat, NEW s, LoopState(ts, s), ~Ended(ts, s), NEW inner
  PROVE  LET n == Turn(ts, s, inner) IN
         LoopState(ts, n) /\ (n.end = None => n.at > s.at)
<1> DEFINE n == Turn(ts, s, inner)
           t == ts[s.at + 1]
           done == CloseAnd(s.ors, s.ands)
           Claim(x) == LoopState(ts, x) /\ (x.end = None => x.at > s.at)
<1>1. /\ s = Loop(s.at, s.ors, s.ands, s.end) /\ s.at \in Nat /\ s.at < Len(ts) /\ s.at + 1 <= Len(ts)
      /\ s.end = None /\ Level(ts, s.at) <= 0 /\ Level(ts, s.at) \in Int
  BY LevelStep DEF LoopState, Ended
<1>2. \A e \in Outcomes : Claim([s EXCEPT !.end = e])
  <2>1. SUFFICES ASSUME NEW e \in Outcomes PROVE Claim([s EXCEPT !.end = e])
    OBVIOUS
  <2>2. [s EXCEPT !.end = e] = Loop(s.at, s.ors, s.ands, e)
    BY <1>1, StoppedIs
  <2>3. e # None
    BY DEF Outcomes, None
  <2> QED BY <1>1, <2>1, <2>2, <2>3, LoopParts DEF LoopState
<1>3. ASSUME NEW p \in s.at + 1 .. Len(ts), Level(ts, p) <= 0, NEW ors, NEW ands
      PROVE  Claim(Loop(p, ors, ands, None))
  BY <1>1, <1>3, LoopParts DEF LoopState
<1>4. ASSUME NEW p \in {s.at, s.at + 1}, p < Len(ts), Level(ts, p) <= 0
      PROVE  Claim(TookTurn(s, ParseOperand(ts, p, inner)))
  <2> DEFINE o == ParseOperand(ts, p, inner)
  <2>1. CASE o.clause.kind \in Outcomes
    BY <1>2, <2>1 DEF TookTurn
  <2>2. CASE o.clause.kind \notin Outcomes
    <3>1. p \in Nat
      BY <1>1
    <3>2. o.at \in p + 1 .. Len(ts) /\ Level(ts, o.at) <= Level(ts, p)
      BY <1>4, <2>2, <3>1, OperandTakes
    <3> HIDE DEF o
    <3>3. o.at \in s.at + 1 .. Len(ts) /\ o.at \in Nat
      BY <1>1, <3>1, <3>2
    <3>4. Level(ts, o.at) <= 0
      <4>1. Level(ts, o.at) \in Int /\ Level(ts, p) \in Int
        BY <3>1, <3>3, LevelStep
      <4> QED BY <1>4, <3>2, <4>1
    <3>5. Claim(Loop(o.at, s.ors, Append(s.ands, o.clause), None))
      <4> HIDE DEF Claim
      <4> QED BY <1>3, <3>3, <3>4
    <3> HIDE DEF Claim
    <3> QED BY <2>2, <3>5 DEF TookTurn, o
  <2> QED BY <2>1, <2>2
<1>5. "error" \in Outcomes /\ "panic" \in Outcomes
  BY DEF Outcomes
<1>6. ~Bare(t, <<"(">>) => Level(ts, s.at + 1) <= 0
  <2>1. Level(ts, s.at + 1) = Level(ts, s.at) + Rise(t)
    BY <1>1, LevelStep
  <2>2. Rise(t) \in Int /\ (~Bare(t, <<"(">>) => Rise(t) <= 0)
    BY RiseRange
  <2> QED BY <1>1, <2>1, <2>2
<1>7. \A w \in {")", "or", "and"} : Bare(t, <<w>>) => ~Bare(t, <<"(">>)
  BY DEF Bare
<1> HIDE DEF Claim, t, done
<1>8. CASE Bare(t, <<")">>)
  <2>1. n = [s EXCEPT !.end = "error"]
    BY <1>8, TurnForms DEF t
  <2> QED BY <1>2, <1>5, <2>1 DEF Claim
<1>9. CASE Bare(t, <<"or">>)
  <2>1. n = IF done = <<>> THEN [s EXCEPT !.end = "error"] ELSE Loop(s.at + 1, done, <<>>, None)
    BY <1>9, TurnForms DEF t, done
  <2>2. Claim(Loop(s.at + 1, done, <<>>, None))
    <3>1. s.at + 1 \in s.at + 1 .. Len(ts) /\ Level(ts, s.at + 1) <= 0
      BY <1>1, <1>6, <1>7, <1>9
    <3> QED BY <1>3, <3>1
  <2>3. Claim(n)
    BY <1>2, <1>5, <2>1, <2>2
  <2> QED BY <2>3 DEF Claim
<1>10. CASE Bare(t, <<"and">>)
  <2>1. n = IF s.ands = <<>> THEN [s EXCEPT !.end = "error"]
            ELSE IF s.at + 1 = Len(ts) THEN [s EXCEPT !.end = "panic"]
            ELSE TookTurn(s, ParseOperand(ts, s.at + 1, inner))
    BY <1>10, TurnForms DEF t
  <2>2. s.at + 1 # Len(ts) => Claim(TookTurn(s, ParseOperand(ts, s.at + 1, inner)))
    <3>1. Level(ts, s.at + 1) <= 0
      BY <1>6, <1>7, <1>10
    <3>2. s.at + 1 # Len(ts) => s.at + 1 < Len(ts)
      BY <1>1
    <3> QED BY <1>4, <3>1, <3>2
  <2>3. Claim(n)
    BY <1>2, <1>5, <2>1, <2>2
  <2> QED BY <2>3 DEF Claim
<1>11. CASE ~Bare(t, <<")">>) /\ ~Bare(t, <<"or">>) /\ ~Bare(t, <<"and">>)
  <2>1. n = IF s.ands # <<>> THEN [s EXCEPT !.end = "error"] ELSE TookTurn(s, ParseOperand(ts, s.at, inner))
    BY <1>11, TurnForms DEF t
  <2>2. Claim(TookTurn(s, ParseOperand(ts, s.at, inner)))
    BY <1>1, <1>4
  <2>3. Claim(n)
    BY <1>2, <1>5, <2>1, <2>2
  <2> QED BY <2>3 DEF Claim
<1> QED BY <1>8, <1>9, <1>10, <1>11
-----------------------------------------------------------------------------
(* The loop ends. *)

LEMMA StepsState ==
  ASSUME NEW ts, Len(ts) \in Nat, NEW inner, NEW n \in Nat, NEW t, LoopSteps(ts, inner, n, t)
  PROVE  \A k \in 0..n : LoopState(ts, t[k])
<1> DEFINE K == {k \in Nat : k <= n => LoopState(ts, t[k])}
<1>1. t[0] = Start /\ \A k \in 1..n : t[k] = LoopStep(ts, inner, t[k - 1])
  <2>1. t[0] = Start
    BY LoopStepsAt
  <2>2. \A k \in 1..n : t[k] = LoopStep(ts, inner, t[k - 1])
    BY LoopStepsAt
  <2> QED BY <2>1, <2>2
<1>2. 0 \in K
  <2>1. LoopState(ts, Start)
    BY LevelZero, LoopParts DEF LoopState, Start
  <2> QED BY <1>1, <2>1
<1>3. ASSUME NEW k \in K PROVE k + 1 \in K
  <2>1. SUFFICES ASSUME k + 1 <= n PROVE LoopState(ts, t[k + 1])
    OBVIOUS
  <2>2. k \in Nat /\ LoopState(ts, t[k]) /\ k + 1 \in 1..n /\ (k + 1) - 1 = k
    BY <2>1
  <2>3. t[k + 1] = LoopStep(ts, inner, t[k])
    BY <1>1, <2>2
  <2> QED BY <2>2, <2>3, TurnTakes DEF LoopStep
<1> HIDE DEF K
<1>4. K = Nat
  BY <1>2, <1>3, Climbing DEF K
<1> QED BY <1>4 DEF K

LEMMA Stays ==
  ASSUME NEW ts, NEW inner, NEW n \in Nat, NEW t, LoopSteps(ts, inner, n, t),
         NEW m \in Nat, m <= n, Ended(ts, t[m])
  PROVE  t[n] = t[m]
<1> DEFINE K == {k \in Nat : m <= k /\ k <= n => t[k] = t[m]}
<1>1. t[0] = Start /\ \A k \in 1..n : t[k] = LoopStep(ts, inner, t[k - 1])
  <2> HIDE DEF K
  <2> QED BY LoopStepsAt
<1>2. 0 \in K
  OBVIOUS
<1>3. ASSUME NEW k \in K PROVE k + 1 \in K
  <2>1. SUFFICES ASSUME m <= k + 1, k + 1 <= n PROVE t[k + 1] = t[m]
    OBVIOUS
  <2>2. CASE m = k + 1
    BY <2>2
  <2>3. CASE m # k + 1
    <3>1. t[k] = t[m] /\ k + 1 \in 1..n /\ (k + 1) - 1 = k
      BY <2>1, <2>3
    <3>2. t[k + 1] = LoopStep(ts, inner, t[k])
      BY <1>1, <3>1
    <3> QED BY <3>1, <3>2 DEF LoopStep
  <2> QED BY <2>2, <2>3
<1> HIDE DEF K
<1>4. K = Nat
  BY <1>2, <1>3, Climbing DEF K
<1> QED BY <1>4 DEF K

LEMMA OutsideFinite ==
  ASSUME NEW ts, Len(ts) \in Nat, DOMAIN ts = 1..Len(ts)
  PROVE  /\ IsFiniteSet(Outside(ts)) /\ Cardinality(Outside(ts)) \in Nat
         /\ \A a : LET B == {p \in Outside(ts) : p <= a}
                   IN IsFiniteSet(B) /\ Cardinality(B) \in Nat /\ Cardinality(B) <= Cardinality(Outside(ts))
<1>1. IsFiniteSet(1..Len(ts)) /\ Outside(ts) \subseteq 1..Len(ts)
  BY FS_Interval DEF Outside
<1>2. IsFiniteSet(Outside(ts))
  BY <1>1, FS_Subset
<1>3. ASSUME NEW B \in SUBSET Outside(ts)
      PROVE  IsFiniteSet(B) /\ Cardinality(B) \in Nat /\ Cardinality(B) <= Cardinality(Outside(ts))
  BY <1>2, FS_Subset, FS_CardinalityType
<1>4. ASSUME NEW a
      PROVE  LET B == {p \in Outside(ts) : p <= a}
             IN IsFiniteSet(B) /\ Cardinality(B) \in Nat /\ Cardinality(B) <= Cardinality(Outside(ts))
  <2>1. {p \in Outside(ts) : p <= a} \in SUBSET Outside(ts)
    OBVIOUS
  <2> QED BY <1>3, <2>1
<1> QED BY <1>2, <1>4, FS_CardinalityType

\* Every turn but the last ends at one more token outside parentheses.
LEMMA Ticks ==
  ASSUME NEW ts, Len(ts) \in Nat, DOMAIN ts = 1..Len(ts), NEW inner, NEW n \in Nat, NEW t, LoopSteps(ts, inner, n, t)
  PROVE  \A k \in 0..n : Ended(ts, t[k]) \/ k <= Cardinality({p \in Outside(ts) : p <= t[k].at})
<1> DEFINE B(a) == {p \in Outside(ts) : p <= a}
           K == {k \in Nat : k <= n => Ended(ts, t[k]) \/ k <= Cardinality(B(t[k].at))}
<1>1. \A a : IsFiniteSet(B(a)) /\ Cardinality(B(a)) \in Nat
  BY OutsideFinite
<1>2. \A k \in 1..n : t[k] = LoopStep(ts, inner, t[k - 1])
  BY LoopStepsAt
<1>3. 0 \in K
  <2>1. 0 <= Cardinality(B(t[0].at))
    <3> HIDE DEF B
    <3> QED BY <1>1
  <2> QED BY <2>1
<1>4. ASSUME NEW k \in K PROVE k + 1 \in K
  <2>1. SUFFICES ASSUME k + 1 <= n, ~Ended(ts, t[k + 1])
                 PROVE  k + 1 <= Cardinality(B(t[k + 1].at))
    <3> HIDE DEF B
    <3> QED OBVIOUS
  <2>2. k \in Nat /\ k + 1 \in 1..n /\ (k + 1) - 1 = k /\ k \in 0..n
    BY <2>1
  <2> DEFINE a == t[k].at
             b == t[k + 1].at
  <2>3. t[k + 1] = LoopStep(ts, inner, t[k])
    BY <1>2, <2>2
  <2>4. ~Ended(ts, t[k])
    BY <2>1, <2>3 DEF LoopStep
  <2>5. t[k + 1] = Turn(ts, t[k], inner) /\ LoopState(ts, t[k])
    BY <2>2, <2>3, <2>4, StepsState DEF LoopStep
  <2>6. t[k + 1].end = None
    BY <2>1 DEF Ended
  <2>7. LoopState(ts, t[k + 1]) /\ b > a
    BY <2>4, <2>5, <2>6, TurnTakes
  <2>8. a \in Nat /\ b \in 1..Len(ts) /\ b \in Nat /\ Level(ts, b) <= 0
    BY <2>5, <2>6, <2>7 DEF LoopState
  <2>9. b \in Outside(ts)
    BY <2>8 DEF Outside
  <2>10. k <= Cardinality(B(a))
    <3> HIDE DEF B
    <3> QED BY <2>1, <2>2, <2>4
  <2> HIDE DEF K
  <2>11. B(a) \cup {b} \in SUBSET B(b) /\ b \notin B(a)
    <3>1. \A p \in Outside(ts) : p \in Nat
      BY DEF Outside
    <3> HIDE DEF a, b
    <3>2. ASSUME NEW p \in B(a) PROVE p \in B(b) /\ p # b
      <4>1. p \in Outside(ts) /\ p <= a /\ p \in Nat
        BY <3>1
      <4> QED BY <2>7, <2>8, <4>1
    <3>3. b \in B(b)
      BY <2>8, <2>9
    <3> HIDE DEF B
    <3> QED BY <3>2, <3>3
  <2> HIDE DEF B, a, b
  <2>12. Cardinality(B(a) \cup {b}) = Cardinality(B(a)) + 1
    BY <1>1, <2>11, FS_AddElement
  <2>13. Cardinality(B(a) \cup {b}) <= Cardinality(B(b))
    BY <1>1, <2>11, FS_Subset
  <2> QED BY <1>1, <2>2, <2>10, <2>12, <2>13 DEF b
<1> HIDE DEF K
<1>5. K = Nat
  BY <1>3, <1>4, Climbing DEF K
<1> QED BY <1>5 DEF K

LEMMA LoopEnds ==
  ASSUME NEW ts, Len(ts) \in Nat, DOMAIN ts = 1..Len(ts), NEW inner, NEW n, n = Cardinality(Outside(ts)) + 1,
         NEW t, LoopSteps(ts, inner, n, t)
  PROVE  n \in Nat /\ Ended(ts, t[n]) /\ Looped(ts, inner) = t[n] /\ LoopState(ts, t[n])
<1>1. n \in Nat /\ Cardinality(Outside(ts)) \in Nat
  BY OutsideFinite
<1>2. Ended(ts, t[n])
  <2> DEFINE B == {p \in Outside(ts) : p <= t[n].at}
  <2>1. Ended(ts, t[n]) \/ n <= Cardinality(B)
    BY <1>1, Ticks
  <2>2. Cardinality(B) <= Cardinality(Outside(ts)) /\ Cardinality(B) \in Nat
    BY OutsideFinite
  <2> HIDE DEF B
  <2> QED BY <1>1, <2>1, <2>2
<1>3. Looped(ts, inner) = t[n]
  BY <1>1, LoopedIs
<1>4. LoopState(ts, t[n])
  BY <1>1, StepsState
<1> QED BY <1>1, <1>2, <1>3, <1>4

\* States of the loop.
Reached(ts, inner, s) == \E n \in Nat : \E t : LoopSteps(ts, inner, n, t) /\ t[n] = s

LEMMA ReachedStart == \A ts, inner : Reached(ts, inner, Start)
<1> SUFFICES ASSUME NEW ts, NEW inner PROVE Reached(ts, inner, Start)
  OBVIOUS
<1>1. PICK t : LoopSteps(ts, inner, 0, t)
  BY LoopStepsExist
<1>2. t[0] = Start
  BY <1>1, LoopStepsAt
<1> QED BY <1>1, <1>2 DEF Reached

LEMMA ReachedStep ==
  ASSUME NEW ts, NEW inner, NEW s, Reached(ts, inner, s), ~Ended(ts, s)
  PROVE  Reached(ts, inner, Turn(ts, s, inner))
<1>1. PICK n \in Nat : \E t : LoopSteps(ts, inner, n, t) /\ t[n] = s
  BY DEF Reached
<1>2. PICK t : LoopSteps(ts, inner, n, t) /\ t[n] = s
  BY <1>1
<1>3. PICK u : LoopSteps(ts, inner, n + 1, u) /\ u[n + 1] = LoopStep(ts, inner, t[n])
  BY <1>2, LoopStepsMore
<1>4. u[n + 1] = Turn(ts, s, inner) /\ n + 1 \in Nat
  BY <1>2, <1>3 DEF LoopStep
<1> QED BY <1>3, <1>4 DEF Reached

LEMMA ReachedEnds ==
  ASSUME NEW ts, Len(ts) \in Nat, DOMAIN ts = 1..Len(ts), NEW inner, NEW s, Reached(ts, inner, s), Ended(ts, s)
  PROVE  Looped(ts, inner) = s
<1>1. PICK n \in Nat : \E t : LoopSteps(ts, inner, n, t) /\ t[n] = s
  BY DEF Reached
<1>2. PICK t : LoopSteps(ts, inner, n, t) /\ t[n] = s
  BY <1>1
<1> DEFINE m == Cardinality(Outside(ts)) + 1
<1>3. m \in Nat
  BY OutsideFinite
<1>4. PICK r : LoopSteps(ts, inner, m, r)
  BY <1>3, LoopStepsExist
<1>5. Ended(ts, r[m]) /\ Looped(ts, inner) = r[m]
  BY <1>4, LoopEnds
<1> HIDE DEF m
<1>6. CASE n <= m
  <2>1. t[n] = r[n]
    BY <1>2, <1>3, <1>4, <1>6, LoopStepsAgree
  <2>2. r[m] = r[n]
    BY <1>2, <1>3, <1>4, <1>6, <2>1, Stays
  <2> QED BY <1>2, <1>5, <2>1, <2>2
<1>7. CASE m <= n
  <2>1. r[m] = t[m]
    BY <1>2, <1>3, <1>4, <1>7, LoopStepsAgree
  <2>2. Ended(ts, t[m])
    BY <1>5, <2>1
  <2>3. t[n] = t[m]
    BY <1>2, <1>3, <1>7, <2>2, Stays
  <2> QED BY <1>2, <1>5, <2>1, <2>3
<1> QED BY <1>3, <1>6, <1>7
-----------------------------------------------------------------------------
(* Groups inside groups: how deep the reading may go does not matter. *)

Nest(f) == [ts \in Seq(Tokens) |-> Result(Looped(ts, f))]
NestSteps(n, t) == t = [k \in 0..n |-> Nest(IF k = 0 THEN <<>> ELSE t[k - 1])]

LEMMA NestStepsAt ==
  ASSUME NEW n \in Nat, NEW t, NestSteps(n, t)
  PROVE  t[0] = Nest(<<>>) /\ \A k \in 1..n : t[k] = Nest(t[k - 1])
<1> DEFINE F(f) == [k \in 0..n |-> Nest(IF k = 0 THEN <<>> ELSE f[k - 1])]
<1>1. t = F(t)
  BY DEF NestSteps
<1>2. \A k \in 0..n : F(t)[k] = Nest(IF k = 0 THEN <<>> ELSE t[k - 1])
  OBVIOUS
<1> HIDE DEF F
<1>3. \A k \in 0..n : t[k] = Nest(IF k = 0 THEN <<>> ELSE t[k - 1])
  BY <1>1, <1>2
<1>4. t[0] = Nest(<<>>)
  BY <1>3
<1>5. ASSUME NEW k \in 1..n PROVE t[k] = Nest(t[k - 1])
  BY <1>3
<1> QED BY <1>4, <1>5

LEMMA NestStepsExist == \A n \in Nat : \E t : NestSteps(n, t)
<1> DEFINE K == {n \in Nat : \E t : NestSteps(n, t)}
<1>1. 0 \in K
  <2> DEFINE t == [i \in 0..0 |-> Nest(<<>>)]
  <2>1. NestSteps(0, t)
    BY DEF NestSteps
  <2> HIDE DEF t
  <2> QED BY <2>1
<1>2. ASSUME NEW n \in K PROVE n + 1 \in K
  <2>1. n \in Nat /\ n + 1 \in Nat
    OBVIOUS
  <2>2. PICK t : NestSteps(n, t)
    OBVIOUS
  <2> DEFINE x == Nest(t[n])
             u == [i \in 0..(n + 1) |-> IF i = n + 1 THEN x ELSE t[i]]
  <2>3. t[0] = Nest(<<>>) /\ \A i \in 1..n : t[i] = Nest(t[i - 1])
    BY <2>1, <2>2, NestStepsAt
  <2>4. \A i \in 0..(n + 1) : u[i] = Nest(IF i = 0 THEN <<>> ELSE u[i - 1])
    <3>1. u[0] = Nest(<<>>)
      <4> HIDE DEF x
      <4> QED BY <2>1, <2>3
    <3>2. ASSUME NEW i \in 1..n PROVE u[i] = Nest(u[i - 1])
      <4>1. u[i] = t[i] /\ u[i - 1] = t[i - 1]
        <5> HIDE DEF x
        <5> QED BY <2>1
      <4> QED BY <2>3, <4>1
    <3>3. u[n + 1] = Nest(u[n])
      <4>1. u[n + 1] = x /\ u[n] = t[n]
        <5> HIDE DEF x
        <5> QED BY <2>1
      <4> QED BY <4>1
    <3> HIDE DEF u
    <3>4. ASSUME NEW i \in 0..(n + 1) PROVE u[i] = Nest(IF i = 0 THEN <<>> ELSE u[i - 1])
      <4>1. CASE i = 0
        BY <3>1, <4>1
      <4>2. CASE i \in 1..n
        BY <2>1, <3>2, <4>2
      <4>3. CASE i = n + 1
        <5>1. i - 1 = n /\ i # 0
          BY <2>1, <4>3
        <5> QED BY <3>3, <4>3, <5>1
      <4> QED BY <2>1, <4>1, <4>2, <4>3
    <3> QED BY <3>4
  <2>5. u = [i \in 0..(n + 1) |-> u[i]]
    OBVIOUS
  <2> HIDE DEF u
  <2>6. NestSteps(n + 1, u)
    BY <2>4, <2>5 DEF NestSteps
  <2> QED BY <2>1, <2>6
<1> HIDE DEF K
<1>3. K = Nat
  BY <1>1, <1>2, Climbing DEF K
<1> QED BY <1>3 DEF K

LEMMA NestStepsAgree ==
  ASSUME NEW m \in Nat, NEW n \in Nat, m <= n, NEW t, NestSteps(m, t), NEW u, NestSteps(n, u)
  PROVE  t[m] = u[m]
<1> DEFINE K == {k \in Nat : k <= m => t[k] = u[k]}
<1>1. t[0] = Nest(<<>>) /\ \A k \in 1..m : t[k] = Nest(t[k - 1])
  BY NestStepsAt
<1>2. u[0] = Nest(<<>>) /\ \A k \in 1..n : u[k] = Nest(u[k - 1])
  BY NestStepsAt
<1>3. 0 \in K
  BY <1>1, <1>2
<1>4. ASSUME NEW k \in K PROVE k + 1 \in K
  <2>1. SUFFICES ASSUME k + 1 <= m PROVE t[k + 1] = u[k + 1]
    OBVIOUS
  <2>2. k \in Nat /\ t[k] = u[k] /\ k + 1 \in 1..m /\ k + 1 \in 1..n /\ (k + 1) - 1 = k
    BY <2>1
  <2> QED BY <1>1, <1>2, <2>2
<1> HIDE DEF K
<1>5. K = Nat
  BY <1>3, <1>4, Climbing DEF K
<1> QED BY <1>5 DEF K

LEMMA ParseNestedAt ==
  /\ ParseNested[0] = Nest(<<>>)
  /\ \A n \in Nat : ParseNested[n + 1] = Nest(ParseNested[n])
<1> DEFINE F(f) == [n \in Nat |-> Nest(IF n = 0 THEN <<>> ELSE f[n - 1])]
           T(n) == CHOOSE t : NestSteps(n, t)
           g == [n \in Nat |-> T(n)[n]]
<1>1. \A n \in Nat : NestSteps(n, T(n))
  BY NestStepsExist
<1> HIDE DEF T
<1>2. \A n \in Nat : g[n] = Nest(IF n = 0 THEN <<>> ELSE g[n - 1])
  <2>1. SUFFICES ASSUME NEW n \in Nat PROVE g[n] = Nest(IF n = 0 THEN <<>> ELSE g[n - 1])
    OBVIOUS
  <2>2. g[n] = T(n)[n] /\ NestSteps(n, T(n))
    BY <1>1
  <2>3. CASE n = 0
    <3>1. T(n)[0] = Nest(<<>>)
      BY <2>2, NestStepsAt
    <3> HIDE DEF g
    <3> QED BY <2>2, <2>3, <3>1
  <2>4. CASE n # 0
    <3>1. n \in 1..n /\ n - 1 \in Nat /\ n - 1 <= n
      BY <2>4
    <3>2. T(n)[n] = Nest(T(n)[n - 1])
      BY <2>2, <3>1, NestStepsAt
    <3>3. T(n - 1)[n - 1] = T(n)[n - 1]
      BY <1>1, <2>2, <3>1, NestStepsAgree
    <3>4. g[n - 1] = T(n - 1)[n - 1]
      BY <3>1
    <3> HIDE DEF g
    <3> QED BY <2>2, <2>4, <3>2, <3>3, <3>4
  <2> QED BY <2>3, <2>4
<1>3. g = [n \in Nat |-> g[n]]
  OBVIOUS
<1> HIDE DEF g
<1>4. g = F(g)
  BY <1>2, <1>3
<1>5. ParseNested = CHOOSE f : f = F(f)
  BY DEF ParseNested, Nest
<1>6. ParseNested = F(ParseNested)
  <2> HIDE DEF F
  <2> QED BY <1>4, <1>5
<1>7. \A n \in Nat : F(ParseNested)[n] = Nest(IF n = 0 THEN <<>> ELSE ParseNested[n - 1])
  OBVIOUS
<1> HIDE DEF F
<1>8. \A n \in Nat : ParseNested[n] = Nest(IF n = 0 THEN <<>> ELSE ParseNested[n - 1])
  BY <1>6, <1>7
<1>9. ParseNested[0] = Nest(<<>>)
  BY <1>8
<1>10. ASSUME NEW n \in Nat PROVE ParseNested[n + 1] = Nest(ParseNested[n])
  <2>1. n + 1 \in Nat /\ n + 1 # 0 /\ (n + 1) - 1 = n
    OBVIOUS
  <2> QED BY <1>8, <2>1
<1> QED BY <1>9, <1>10
-----------------------------------------------------------------------------
LEMMA TurnInside ==
  ASSUME NEW ts \in Series, NEW s, LoopState(ts, s), NEW f, NEW g,
         \A us \in Series : Len(us) < Len(ts) => f[us] = g[us]
  PROVE  LoopStep(ts, f, s) = LoopStep(ts, g, s)
<1>1. Len(ts) \in Nat
  BY DEF Series
<1>2. SUFFICES ASSUME ~Ended(ts, s) PROVE Turn(ts, s, f) = Turn(ts, s, g)
  BY DEF LoopStep
<1> DEFINE t == ts[s.at + 1]
<1>3. s.at \in Nat /\ s.at < Len(ts) /\ s.at + 1 \in Nat /\ (s.at + 1 # Len(ts) => s.at + 1 < Len(ts))
  BY <1>1, <1>2 DEF LoopState, Ended
<1>4. ParseOperand(ts, s.at, f) = ParseOperand(ts, s.at, g)
  BY <1>3, OperandInside
<1>5. s.at + 1 # Len(ts) => ParseOperand(ts, s.at + 1, f) = ParseOperand(ts, s.at + 1, g)
  BY <1>3, OperandInside
<1>6. CASE Bare(t, <<")">>)
  BY <1>6, TurnForms
<1>7. CASE Bare(t, <<"or">>)
  BY <1>7, TurnForms
<1>8. CASE Bare(t, <<"and">>)
  <2> DEFINE Turned(i) == IF s.ands = <<>> THEN [s EXCEPT !.end = "error"]
                          ELSE IF s.at + 1 = Len(ts) THEN [s EXCEPT !.end = "panic"]
                          ELSE TookTurn(s, ParseOperand(ts, s.at + 1, i))
  <2>1. Turn(ts, s, f) = Turned(f) /\ Turn(ts, s, g) = Turned(g)
    BY <1>8, TurnForms
  <2>2. Turned(f) = Turned(g)
    BY <1>5
  <2> HIDE DEF Turned
  <2> QED BY <2>1, <2>2
<1>9. CASE ~Bare(t, <<")">>) /\ ~Bare(t, <<"or">>) /\ ~Bare(t, <<"and">>)
  <2> DEFINE Turned(i) == IF s.ands # <<>> THEN [s EXCEPT !.end = "error"] ELSE TookTurn(s, ParseOperand(ts, s.at, i))
  <2>1. Turn(ts, s, f) = Turned(f) /\ Turn(ts, s, g) = Turned(g)
    BY <1>9, TurnForms
  <2>2. Turned(f) = Turned(g)
    BY <1>4
  <2> HIDE DEF Turned
  <2> QED BY <2>1, <2>2
<1> QED BY <1>6, <1>7, <1>8, <1>9

LEMMA LoopedInside ==
  ASSUME NEW ts \in Series, NEW f, NEW g, \A us \in Series : Len(us) < Len(ts) => f[us] = g[us]
  PROVE  Looped(ts, f) = Looped(ts, g)
<1> DEFINE n == Cardinality(Outside(ts)) + 1
<1>1. Len(ts) \in Nat /\ DOMAIN ts = 1..Len(ts)
  BY DEF Series
<1>2. n \in Nat
  BY <1>1, OutsideFinite
<1>3. PICK t : LoopSteps(ts, f, n, t)
  BY <1>2, LoopStepsExist
<1>4. PICK u : LoopSteps(ts, g, n, u)
  BY <1>2, LoopStepsExist
<1>5. Looped(ts, f) = t[n] /\ Looped(ts, g) = u[n]
  BY <1>2, <1>3, <1>4, LoopedIs
<1> HIDE DEF n
<1>6. \A k \in 0..n : LoopState(ts, t[k])
  BY <1>1, <1>2, <1>3, StepsState
<1>7. \A k \in 0..n : LoopStep(ts, f, t[k]) = LoopStep(ts, g, t[k])
  BY <1>6, TurnInside
<1>8. t[n] = u[n]
  BY <1>2, <1>3, <1>4, <1>7, LoopStepsAgree
<1> QED BY <1>5, <1>8

\* Two depths that are enough read the same.
LEMMA DepthEnough ==
  \A k \in Nat : \A us \in Series : Len(us) <= k =>
    \A m, n \in Nat : Len(us) <= m /\ Len(us) <= n => ParseNested[m][us] = ParseNested[n][us]
<1> DEFINE K == {k \in Nat : \A us \in Series : Len(us) <= k =>
             \A m, n \in Nat : Len(us) <= m /\ Len(us) <= n => ParseNested[m][us] = ParseNested[n][us]}
           Inner(n) == IF n = 0 THEN <<>> ELSE ParseNested[n - 1]
<1>1. \A n \in Nat, us \in Series : ParseNested[n][us] = Result(Looped(us, Inner(n)))
  <2>1. SUFFICES ASSUME NEW n \in Nat, NEW us \in Series PROVE ParseNested[n][us] = Result(Looped(us, Inner(n)))
    OBVIOUS
  <2>2. ParseNested[n] = Nest(Inner(n))
    <3>1. CASE n = 0
      BY <3>1, ParseNestedAt
    <3>2. CASE n # 0
      <4>1. n - 1 \in Nat /\ (n - 1) + 1 = n
        BY <3>2
      <4> QED BY <3>2, <4>1, ParseNestedAt
    <3> QED BY <3>1, <3>2
  <2> HIDE DEF Inner
  <2> QED BY <2>2 DEF Nest, Series
<1>2. \A us \in Series : Len(us) \in Nat
  BY DEF Series
<1> HIDE DEF Inner
<1>3. 0 \in K
  <2>1. SUFFICES ASSUME NEW us \in Series, Len(us) <= 0, NEW m \in Nat, NEW n \in Nat
                 PROVE  ParseNested[m][us] = ParseNested[n][us]
    OBVIOUS
  <2>2. \A vs \in Series : Len(vs) < Len(us) => Inner(m)[vs] = Inner(n)[vs]
    <3>1. ASSUME NEW vs \in Series PROVE ~(Len(vs) < Len(us))
      BY <1>2, <2>1
    <3> QED BY <3>1
  <2>3. Looped(us, Inner(m)) = Looped(us, Inner(n))
    BY <2>2, LoopedInside
  <2> QED BY <1>1, <2>3
<1>4. ASSUME NEW k \in K PROVE k + 1 \in K
  <2>1. SUFFICES ASSUME NEW us \in Series, Len(us) <= k + 1, NEW m \in Nat, NEW n \in Nat, Len(us) <= m, Len(us) <= n
                 PROVE  ParseNested[m][us] = ParseNested[n][us]
    OBVIOUS
  <2>2. k \in Nat /\ \A vs \in Series : Len(vs) <= k =>
          \A i, j \in Nat : Len(vs) <= i /\ Len(vs) <= j => ParseNested[i][vs] = ParseNested[j][vs]
    OBVIOUS
  <2> HIDE DEF K
  <2>3. ASSUME NEW vs \in Series, Len(vs) < Len(us) PROVE Inner(m)[vs] = Inner(n)[vs]
    <3>1. Len(vs) \in Nat /\ Len(us) \in Nat
      BY <1>2
    <3>2. /\ Len(vs) <= k /\ m # 0 /\ n # 0 /\ m - 1 \in Nat /\ n - 1 \in Nat
          /\ Len(vs) <= m - 1 /\ Len(vs) <= n - 1
      BY <2>1, <2>2, <2>3, <3>1
    <3>3. ParseNested[m - 1][vs] = ParseNested[n - 1][vs]
      BY <2>2, <3>2
    <3> QED BY <3>2, <3>3 DEF Inner
  <2>4. Looped(us, Inner(m)) = Looped(us, Inner(n))
    BY <2>3, LoopedInside
  <2> QED BY <1>1, <2>4
<1> HIDE DEF K
<1>5. K = Nat
  BY <1>3, <1>4, Climbing DEF K
<1> QED BY <1>5 DEF K

\* What ParseTokens calls for a group is ParseTokens.
Whole == [ts \in Series |-> ParseTokens(ts)]

LEMMA ParseTokensIs ==
  ASSUME NEW us \in Series
  PROVE  ParseTokens(us) = Result(Looped(us, Whole)) /\ Whole[us] = ParseTokens(us)
<1> DEFINE n == Len(us)
<1>1. n \in Nat /\ \A vs \in Series : Len(vs) \in Nat
  BY DEF Series
<1>2. ParseNested[n + 1] = Nest(ParseNested[n]) /\ n + 1 \in Nat /\ n <= n + 1
  BY <1>1, ParseNestedAt
<1>3. ParseNested[n + 1][us] = Result(Looped(us, ParseNested[n]))
  BY <1>2 DEF Nest, Series
<1>4. ParseNested[n][us] = ParseNested[n + 1][us]
  BY <1>1, <1>2, DepthEnough
<1>5. ASSUME NEW vs \in Series, Len(vs) < Len(us) PROVE ParseNested[n][vs] = Whole[vs]
  <2>1. Len(vs) \in Nat /\ Len(vs) <= n /\ Len(vs) <= Len(vs)
    BY <1>1, <1>5
  <2>2. ParseNested[n][vs] = ParseNested[Len(vs)][vs]
    BY <1>1, <2>1, DepthEnough
  <2>3. Whole[vs] = ParseTokens(vs)
    BY DEF Whole
  <2> QED BY <2>2, <2>3 DEF ParseTokens
<1>6. Looped(us, ParseNested[n]) = Looped(us, Whole)
  BY <1>5, LoopedInside
<1>7. ParseTokens(us) = ParseNested[n][us]
  BY DEF ParseTokens
<1> HIDE DEF n
<1>8. Whole[us] = ParseTokens(us)
  BY DEF Whole
<1> QED BY <1>3, <1>4, <1>6, <1>7, <1>8
-----------------------------------------------------------------------------
(* Balanced tokens, and tokens in parentheses. *)

Balanced(v) == v \in Series /\ (\A n \in 1..Len(v) : Level(v, n) >= 0) /\ Level(v, Len(v)) = 0
Enclose(v) == Cat(<<Mark("(")>>, Cat(v, <<Mark(")")>>))

LEMMA SeriesLen == \A v \in Series : Len(v) \in Nat /\ DOMAIN v = 1..Len(v) /\ (Len(v) = 0 => v = <<>>)
  BY DEF Series

LEMMA CatAt ==
  ASSUME NEW u \in Series, NEW v \in Series
  PROVE  /\ Cat(u, v) \in Series /\ Len(Cat(u, v)) = Len(u) + Len(v)
         /\ \A i \in 1..Len(u) : Cat(u, v)[i] = u[i]
         /\ \A i \in 1..Len(v) : Cat(u, v)[Len(u) + i] = v[i]
<1>1. Cat(u, v) \in Series
  BY SeriesIn
<1>2. Len(u \o v) = Len(u) + Len(v) /\ \A i \in 1..(Len(u) + Len(v)) : (u \o v)[i] = IF i <= Len(u) THEN u[i] ELSE v[i - Len(u)]
  BY ConcatProperties DEF Series
<1>3. Len(u) \in Nat /\ Len(v) \in Nat
  BY SeriesLen
<1> DEFINE w == u \o v
<1> HIDE DEF w
<1>4. Len(w) = Len(u) + Len(v) /\ \A i \in 1..(Len(u) + Len(v)) : w[i] = IF i <= Len(u) THEN u[i] ELSE v[i - Len(u)]
  BY <1>2 DEF w
<1>5. \A i \in 1..Len(u) : w[i] = u[i]
  BY <1>3, <1>4
<1>6. ASSUME NEW i \in 1..Len(v) PROVE w[Len(u) + i] = v[i]
  <2>1. Len(u) + i \in 1..(Len(u) + Len(v)) /\ ~(Len(u) + i <= Len(u)) /\ (Len(u) + i) - Len(u) = i
    BY <1>3
  <2> QED BY <1>4, <2>1
<1> QED BY <1>1, <1>4, <1>5, <1>6 DEF w, Cat

LEMMA CatLevels ==
  ASSUME NEW u \in Series, NEW v \in Series
  PROVE  /\ \A k \in 0..Len(u) : Level(Cat(u, v), k) = Level(u, k)
         /\ \A k \in 0..Len(v) : Level(Cat(u, v), Len(u) + k) = Level(u, Len(u)) + Level(v, k)
<1> DEFINE w == Cat(u, v)
<1>1. Len(u) \in Nat /\ Len(v) \in Nat
  BY SeriesLen
<1>2. (\A i \in 1..Len(u) : w[i] = u[i]) /\ \A i \in 1..Len(v) : w[Len(u) + i] = v[i]
  BY CatAt
<1> HIDE DEF w
<1>3. \A k \in 0..Len(u) : Level(w, k) = Level(u, k)
  BY <1>1, <1>2, LevelSame
<1>4. \A k \in 0..Len(v) : Level(w, Len(u) + k) = Level(w, Len(u)) + Level(v, k)
  <2> DEFINE m == Len(u)
             n == Len(v)
  <2>1. m \in Nat /\ n \in Nat /\ Holds(w, m, v, n)
    BY <1>1, <1>2 DEF Holds
  <2> HIDE DEF m, n
  <2>2. \A k \in 0..n : Level(w, m + k) = Level(w, m) + Level(v, k)
    BY <2>1, LevelShift
  <2> QED BY <2>2 DEF m, n
<1>5. Level(w, Len(u)) = Level(u, Len(u))
  BY <1>1, <1>3
<1> QED BY <1>3, <1>4, <1>5 DEF w

LEMMA BalancedCat ==
  ASSUME NEW u, Balanced(u), NEW v, Balanced(v)
  PROVE  Balanced(Cat(u, v))
<1>1. u \in Series /\ v \in Series /\ Len(u) \in Nat /\ Len(v) \in Nat
  BY SeriesLen DEF Balanced
<1>2. Cat(u, v) \in Series /\ Len(Cat(u, v)) = Len(u) + Len(v)
  BY <1>1, CatAt
<1>3. \A k \in 0..Len(u) : Level(Cat(u, v), k) = Level(u, k)
  BY <1>1, CatLevels
<1>4. \A k \in 0..Len(v) : Level(Cat(u, v), Len(u) + k) = Level(v, k)
  <2>1. ASSUME NEW k \in 0..Len(v) PROVE Level(Cat(u, v), Len(u) + k) = Level(v, k)
    <3>1. Level(Cat(u, v), Len(u) + k) = Level(u, Len(u)) + Level(v, k)
      BY <1>1, CatLevels
    <3>2. Level(v, k) \in Int /\ Level(u, Len(u)) = 0
      BY <1>1, LevelStep DEF Balanced
    <3> QED BY <3>1, <3>2
  <2> QED BY <2>1
<1>5. (\A n \in 1..Len(u) : Level(u, n) >= 0) /\ (\A n \in 1..Len(v) : Level(v, n) >= 0) /\ Level(v, Len(v)) = 0
  BY DEF Balanced
<1>6. ASSUME NEW n \in 1..(Len(u) + Len(v)) PROVE Level(Cat(u, v), n) >= 0
  <2>1. CASE n <= Len(u)
    <3>1. n \in 0..Len(u) /\ n \in 1..Len(u)
      BY <1>1, <2>1
    <3> QED BY <1>3, <1>5, <3>1
  <2>2. CASE n > Len(u)
    <3>1. n - Len(u) \in 0..Len(v) /\ n - Len(u) \in 1..Len(v) /\ Len(u) + (n - Len(u)) = n
      BY <1>1, <2>2
    <3>2. Level(Cat(u, v), Len(u) + (n - Len(u))) = Level(v, n - Len(u))
      BY <1>4, <3>1
    <3> QED BY <1>5, <3>1, <3>2
  <2> QED BY <1>1, <2>1, <2>2
<1>7. Level(Cat(u, v), Len(u) + Len(v)) = 0
  <2>1. Len(v) \in 0..Len(v)
    BY <1>1
  <2> QED BY <1>4, <1>5, <2>1
<1> QED BY <1>2, <1>6, <1>7 DEF Balanced

LEMMA MarkFacts ==
  /\ \A c \in {"(", ")", "and", "or"} : <<Mark(c)>> \in Series /\ Len(<<Mark(c)>>) = 1 /\ <<Mark(c)>>[1] = Mark(c)
  /\ \A c, d : Bare(Mark(c), <<d>>) <=> c = d
<1>1. ASSUME NEW c \in {"(", ")", "and", "or"} PROVE <<Mark(c)>> \in Series
  <2>1. Mark(c) \in Tokens
    BY Special
  <2> QED BY <2>1, Tuples DEF Series
<1>2. \A t : Len(<<t>>) = 1 /\ <<t>>[1] = t
  OBVIOUS
<1>3. ASSUME NEW c, NEW d PROVE Bare(Mark(c), <<d>>) <=> c = d
  BY DEF Bare, Mark, Token
<1> QED BY <1>1, <1>2, <1>3

LEMMA RiseMark ==
  Rise(Mark("(")) = 1 /\ Rise(Mark(")")) = -1 /\ Rise(Mark("and")) = 0 /\ Rise(Mark("or")) = 0
  BY MarkFacts DEF Rise

LEMMA BalancedWord == \A w \in {"and", "or"} : Balanced(<<Mark(w)>>)
<1> SUFFICES ASSUME NEW w \in {"and", "or"} PROVE Balanced(<<Mark(w)>>)
  OBVIOUS
<1> DEFINE v == <<Mark(w)>>
<1>1. v \in Series /\ Len(v) = 1 /\ v[1] = Mark(w)
  BY MarkFacts
<1> HIDE DEF v
<1>2. Level(v, 0 + 1) = Level(v, 0) + Rise(v[0 + 1])
  BY LevelStep
<1>3. Level(v, 1) = 0
  BY <1>1, <1>2, LevelZero, RiseMark
<1> QED BY <1>1, <1>3 DEF Balanced, v

LEMMA BalancedEmpty == Balanced(<<>>)
  BY LevelZero DEF Balanced, Series

LEMMA EncloseParts ==
  ASSUME NEW v \in Series
  PROVE  /\ Enclose(v) \in Series /\ Len(Enclose(v)) = Len(v) + 2
         /\ Enclose(v)[1] = Mark("(") /\ Enclose(v)[Len(v) + 2] = Mark(")")
         /\ \A i \in 1..Len(v) : Enclose(v)[1 + i] = v[i]
<1> DEFINE o == <<Mark("(")>>
           c == <<Mark(")")>>
           w == Cat(v, c)
<1>1. o \in Series /\ Len(o) = 1 /\ o[1] = Mark("(") /\ c \in Series /\ Len(c) = 1 /\ c[1] = Mark(")")
  BY MarkFacts
<1> HIDE DEF o, c
<1>2. Len(v) \in Nat
  BY SeriesLen
<1>3. w \in Series /\ Len(w) = Len(v) + 1 /\ w[Len(v) + 1] = Mark(")") /\ \A i \in 1..Len(v) : w[i] = v[i]
  <2>1. /\ Cat(v, c) \in Series /\ Len(Cat(v, c)) = Len(v) + Len(c)
        /\ \A i \in 1..Len(v) : Cat(v, c)[i] = v[i]
        /\ \A i \in 1..Len(c) : Cat(v, c)[Len(v) + i] = c[i]
    BY <1>1, CatAt
  <2> HIDE DEF w
  <2> QED BY <1>1, <1>2, <2>1 DEF w
<1> HIDE DEF w
<1>4. /\ Cat(o, w) \in Series /\ Len(Cat(o, w)) = Len(o) + Len(w)
      /\ \A i \in 1..Len(o) : Cat(o, w)[i] = o[i]
      /\ \A i \in 1..Len(w) : Cat(o, w)[Len(o) + i] = w[i]
  BY <1>1, <1>3, CatAt
<1>5. Cat(o, w)[1 + (Len(v) + 1)] = Mark(")") /\ 1 + (Len(v) + 1) = Len(v) + 2
  BY <1>1, <1>2, <1>3, <1>4
<1>6. \A i \in 1..Len(v) : Cat(o, w)[1 + i] = v[i]
  BY <1>1, <1>2, <1>3, <1>4
<1>7. Cat(o, w)[1] = Mark("(")
  BY <1>1, <1>4
<1>8. Len(Cat(o, w)) = Len(v) + 2
  BY <1>1, <1>2, <1>3, <1>4
<1> QED BY <1>4, <1>5, <1>6, <1>7, <1>8 DEF Enclose, o, c, w

\* Levels in tokens between parentheses, wherever they are.
LEMMA EnclosedLevels ==
  ASSUME NEW v, Balanced(v), NEW ts, NEW p \in Nat, Holds(ts, p, Enclose(v), Len(v) + 2)
  PROVE  /\ Level(ts, p + 1) = Level(ts, p) + 1 /\ Level(ts, p) \in Int
         /\ \A k \in 0..Len(v) : Level(ts, (p + 1) + k) = Level(ts, p + 1) + Level(v, k)
         /\ Level(ts, (p + 1) + (Len(v) + 1)) = Level(ts, p)
<1>1. v \in Series /\ Len(v) \in Nat /\ p + 1 \in Nat /\ Level(v, Len(v)) = 0
  BY SeriesLen DEF Balanced
<1>2. /\ Enclose(v)[1] = Mark("(") /\ Enclose(v)[Len(v) + 2] = Mark(")")
      /\ \A i \in 1..Len(v) : Enclose(v)[1 + i] = v[i]
  BY <1>1, EncloseParts
<1>3. Level(ts, p + 1) = Level(ts, p) + 1 /\ Level(ts, p) \in Int
  <2>1. 1 \in 1..(Len(v) + 2)
    BY <1>1
  <2>2. ts[p + 1] = Mark("(")
    BY <1>2, <2>1 DEF Holds
  <2> QED BY <2>2, LevelStep, RiseMark
<1>4. ASSUME NEW i \in 1..Len(v) PROVE ts[(p + 1) + i] = v[i]
  <2>1. 1 + i \in 1..(Len(v) + 2) /\ p + (1 + i) = (p + 1) + i
    BY <1>1
  <2>2. ts[p + (1 + i)] = Enclose(v)[1 + i]
    BY <2>1 DEF Holds
  <2> QED BY <1>2, <2>1, <2>2
<1>5. \A k \in 0..Len(v) : Level(ts, (p + 1) + k) = Level(ts, p + 1) + Level(v, k)
  <2> DEFINE m == p + 1
             n == Len(v)
  <2>1. m \in Nat /\ n \in Nat /\ Holds(ts, m, v, n)
    BY <1>1, <1>4 DEF Holds
  <2> HIDE DEF m, n
  <2>2. \A k \in 0..n : Level(ts, m + k) = Level(ts, m) + Level(v, k)
    BY <2>1, LevelShift
  <2> QED BY <2>2 DEF m, n
<1>6. Level(ts, (p + 1) + (Len(v) + 1)) = Level(ts, p)
  <2> DEFINE n == (p + 1) + Len(v)
  <2>1. n \in Nat /\ (p + 1) + (Len(v) + 1) = n + 1 /\ n + 1 = p + (Len(v) + 2) /\ Len(v) + 2 \in 1..(Len(v) + 2)
        /\ Len(v) \in 0..Len(v)
    BY <1>1
  <2>2. ts[n + 1] = Mark(")")
    <3>1. ts[p + (Len(v) + 2)] = Enclose(v)[Len(v) + 2]
      BY <2>1 DEF Holds
    <3> QED BY <1>2, <2>1, <3>1
  <2>3. Level(ts, n) = Level(ts, p + 1) + Level(v, Len(v))
    BY <1>5, <2>1
  <2> HIDE DEF n
  <2>4. Level(ts, n + 1) = Level(ts, n) - 1
    <3>1. Level(ts, n) \in Int /\ Level(ts, n + 1) = Level(ts, n) + Rise(ts[n + 1])
      BY <2>1, LevelStep
    <3>2. Rise(ts[n + 1]) = -1
      BY <2>2, RiseMark
    <3> QED BY <3>1, <3>2
  <2>5. Level(ts, n) = Level(ts, p) + 1
    BY <1>1, <1>3, <2>3
  <2> QED BY <1>3, <2>1, <2>4, <2>5
<1> QED BY <1>3, <1>5, <1>6

LEMMA BalancedEnclose ==
  ASSUME NEW v, Balanced(v)
  PROVE  Balanced(Enclose(v))
<1> DEFINE ts == Enclose(v)
<1>1. v \in Series /\ Len(v) \in Nat /\ \A n \in 1..Len(v) : Level(v, n) >= 0
  BY SeriesLen DEF Balanced
<1>2. ts \in Series /\ Len(ts) = Len(v) + 2
  BY <1>1, EncloseParts
<1>4. /\ Level(ts, 0 + 1) = Level(ts, 0) + 1
      /\ \A k \in 0..Len(v) : Level(ts, (0 + 1) + k) = Level(ts, 0 + 1) + Level(v, k)
      /\ Level(ts, (0 + 1) + (Len(v) + 1)) = Level(ts, 0)
  <2> DEFINE z == 0
  <2>1. z \in Nat /\ Holds(ts, z, Enclose(v), Len(v) + 2)
    BY DEF Holds
  <2> HIDE DEF z, ts
  <2>2. /\ Level(ts, z + 1) = Level(ts, z) + 1
        /\ \A k \in 0..Len(v) : Level(ts, (z + 1) + k) = Level(ts, z + 1) + Level(v, k)
        /\ Level(ts, (z + 1) + (Len(v) + 1)) = Level(ts, z)
    BY <2>1, EnclosedLevels
  <2> QED BY <2>2 DEF z
<1> HIDE DEF ts
<1>5. Level(ts, 0) = 0
  BY LevelZero
<1>6. Level(ts, 1) = 1 /\ (\A k \in 0..Len(v) : Level(ts, 1 + k) = 1 + Level(v, k)) /\ Level(ts, Len(v) + 2) = 0
  <2>1. 1 + (Len(v) + 1) = Len(v) + 2
    BY <1>1
  <2> QED BY <1>4, <1>5, <2>1
<1>7. ASSUME NEW n \in 1..(Len(v) + 2) PROVE Level(ts, n) >= 0
  <2>1. CASE n = 1
    BY <1>6, <2>1
  <2>2. CASE n = Len(v) + 2
    BY <1>6, <2>2
  <2>3. CASE n # 1 /\ n # Len(v) + 2
    <3>1. n - 1 \in 1..Len(v) /\ n - 1 \in 0..Len(v) /\ 1 + (n - 1) = n /\ n - 1 \in Nat
      BY <1>1, <2>3
    <3>2. Level(ts, 1 + (n - 1)) = 1 + Level(v, n - 1)
      BY <1>6, <3>1
    <3>3. Level(v, n - 1) \in Int /\ Level(v, n - 1) >= 0
      BY <1>1, <3>1, LevelStep
    <3> QED BY <3>1, <3>2, <3>3
  <2> QED BY <2>1, <2>2, <2>3
<1> QED BY <1>2, <1>6, <1>7 DEF Balanced, ts

\* The parenthesis after balanced tokens closes the one before them.
LEMMA ClosesEnclosed ==
  ASSUME NEW v, Balanced(v), NEW ts, Len(ts) \in Nat, NEW p \in Nat, p + (Len(v) + 2) <= Len(ts),
         Holds(ts, p, Enclose(v), Len(v) + 2)
  PROVE  Closes(ts, p + 1) = p + (Len(v) + 2)
<1> DEFINE n == p + (Len(v) + 2)
           c == Closes(ts, p + 1)
<1>1. v \in Series /\ Len(v) \in Nat /\ \A k \in 1..Len(v) : Level(v, k) >= 0
  BY SeriesLen DEF Balanced
<1>2. /\ Level(ts, p + 1) = Level(ts, p) + 1 /\ Level(ts, p) \in Int
      /\ \A k \in 0..Len(v) : Level(ts, (p + 1) + k) = Level(ts, p + 1) + Level(v, k)
      /\ Level(ts, (p + 1) + (Len(v) + 1)) = Level(ts, p)
  BY EnclosedLevels
<1>3. /\ p + 1 \in Nat /\ n \in (p + 1) + 1 .. Len(ts) /\ (p + 1) + (Len(v) + 1) = n /\ n \in Nat
      /\ Len(v) + 2 \in 1..(Len(v) + 2)
  BY <1>1
<1>4. Bare(ts[n], <<")">>) /\ Level(ts, n) = Level(ts, p + 1) - 1
  <2>1. ts[n] = Mark(")")
    BY <1>1, <1>3, EncloseParts DEF Holds
  <2>2. Level(ts, n) = Level(ts, p)
    BY <1>2, <1>3
  <2>3. Bare(ts[n], <<")">>)
    BY <2>1, MarkFacts
  <2>4. Level(ts, p + 1) - 1 = Level(ts, p)
    BY <1>2
  <2> HIDE DEF n
  <2> QED BY <2>2, <2>3, <2>4
<1>5. c # 0 /\ c <= n /\ c \in (p + 1) + 1 .. Len(ts) /\ Level(ts, c) = Level(ts, p + 1) - 1
  BY <1>3, <1>4, ClosesWhere
<1> HIDE DEF c, n
<1>6. ~(c < n)
  <2>1. SUFFICES ASSUME c < n PROVE FALSE
    OBVIOUS
  <2> DEFINE k == c - (p + 1)
  <2>2. k \in 1..Len(v) /\ k \in 0..Len(v) /\ (p + 1) + k = c /\ k \in Nat
    BY <1>1, <1>3, <1>5, <2>1
  <2> HIDE DEF k
  <2>3. Level(ts, c) = Level(ts, p + 1) + Level(v, k)
    BY <1>2, <2>2
  <2>4. Level(v, k) \in Int /\ Level(v, k) >= 0
    BY <1>1, <2>2, LevelStep
  <2> QED BY <1>2, <1>5, <2>3, <2>4
<1> QED BY <1>3, <1>5, <1>6 DEF c, n
-----------------------------------------------------------------------------
(* Operands, wherever they are, and what has been read before them. *)

LEMMA InContext ==
  ASSUME NEW p \in Series, NEW v \in Series, NEW r \in Series
  PROVE  /\ Cat(p, Cat(v, r)) \in Series /\ Len(Cat(p, Cat(v, r))) = Len(p) + (Len(v) + Len(r))
         /\ Holds(Cat(p, Cat(v, r)), Len(p), v, Len(v))
         /\ Cat(p, Cat(v, r)) = Cat(Cat(p, v), r)
<1> DEFINE w == Cat(v, r)
<1>1. Len(p) \in Nat /\ Len(v) \in Nat /\ Len(r) \in Nat
  BY SeriesLen
<1>2. w \in Series /\ Len(w) = Len(v) + Len(r) /\ \A i \in 1..Len(v) : w[i] = v[i]
  BY CatAt
<1>3. Cat(p, w) = Cat(Cat(p, v), r)
  BY SeriesJoin, CatAssocIn
<1> HIDE DEF w
<1>4. /\ Cat(p, w) \in Series /\ Len(Cat(p, w)) = Len(p) + Len(w)
      /\ \A i \in 1..Len(w) : Cat(p, w)[Len(p) + i] = w[i]
  BY <1>2, CatAt
<1>5. \A i \in 1..Len(v) : Cat(p, w)[Len(p) + i] = v[i]
  BY <1>1, <1>2, <1>4
<1>6. Len(Cat(p, w)) = Len(p) + (Len(v) + Len(r))
  BY <1>2, <1>4
<1> QED BY <1>3, <1>4, <1>5, <1>6 DEF w, Holds

Item(v, c) ==
  /\ Balanced(v) /\ Len(v) > 0 /\ c.kind \notin Outcomes
  /\ \A w \in {")", "and", "or"} : ~Bare(v[1], <<w>>)
  /\ \A p, r \in Series : ParseOperand(Cat(p, Cat(v, r)), Len(p), Whole) = Took(Len(p) + Len(v), c)
Runs(v, ors, ands) ==
  /\ Balanced(v)
  /\ \A r \in Series : Reached(Cat(v, r), Whole, Loop(Len(v), ors, ands, None))

\* Accepted tokens without a parenthesis too many can stand in parentheses.
\* What is between the parentheses.
LEMMA InsideEnclosed ==
  ASSUME NEW v \in Series, NEW ts \in Series, NEW m \in Nat, m + (Len(v) + 2) <= Len(ts),
         Holds(ts, m, Enclose(v), Len(v) + 2)
  PROVE  SubSeq(ts, m + 2, m + (Len(v) + 2) - 1) = v
<1> DEFINE e == Enclose(v)
           n == Len(v)
           d == m + (n + 2)
           in == SubSeq(ts, m + 2, d - 1)
<1>1. n \in Nat /\ Len(ts) \in Nat /\ d = m + (n + 2) /\ d <= Len(ts)
  BY SeriesLen
<1>2. \A i \in 1..n : e[1 + i] = v[i]
  BY EncloseParts
<1>3. \A i \in 1..(n + 2) : ts[m + i] = e[i]
  BY DEF Holds
<1> HIDE DEF d, e
<1>4. ts \in Seq(Tokens) /\ v \in Seq(Tokens)
  BY DEF Series
<1>5. in \in Seq(Tokens) /\ Len(in) = n
  <2>1. m + 2 \in 1..(Len(ts) + 1) /\ d - 1 \in 0..Len(ts)
    BY <1>1
  <2>2. (d - 1) - (m + 2) + 1 = n /\ (m + 2 <= d - 1 \/ n = 0)
    BY <1>1
  <2> HIDE DEF n
  <2> QED BY <1>1, <1>4, <2>1, <2>2
<1>6. ASSUME NEW i \in 1..n PROVE in[i] = v[i]
  <2>1. in[i] = ts[(m + 2) + i - 1]
    <3>1. i \in 1..((d - 1) - (m + 2) + 1)
      BY <1>1
    <3> HIDE DEF n
    <3> QED BY <1>1, <1>4, <1>5, <3>1
  <2>2. (m + 2) + i - 1 = m + (1 + i) /\ 1 + i \in 1..(n + 2)
    BY <1>1
  <2>3. ts[m + (1 + i)] = e[1 + i]
    BY <1>3, <2>2
  <2> QED BY <1>2, <2>1, <2>2, <2>3
<1>7. in = v
  <2> HIDE DEF in
  <2> QED BY <1>4, <1>5, <1>6, SeqEqual
<1> QED BY <1>7 DEF in, d

LEMMA EncloseItem ==
  ASSUME NEW v, Balanced(v), ParseTokens(v).kind \notin Outcomes
  PROVE  Item(Enclose(v), ParseTokens(v))
<1> DEFINE e == Enclose(v)
<1>1. v \in Series /\ Len(v) \in Nat
  BY SeriesLen DEF Balanced
<1>2. /\ e \in Series /\ Len(e) = Len(v) + 2
      /\ e[1] = Mark("(") /\ e[Len(v) + 2] = Mark(")")
      /\ \A i \in 1..Len(v) : e[1 + i] = v[i]
  BY <1>1, EncloseParts
<1>3. ASSUME NEW p \in Series, NEW r \in Series
      PROVE  ParseOperand(Cat(p, Cat(e, r)), Len(p), Whole) = Took(Len(p) + Len(e), ParseTokens(v))
  <2> DEFINE ts == Cat(p, Cat(e, r))
             m == Len(p)
             n == Len(v)
             d == m + (n + 2)
             in == SubSeq(ts, m + 2, d - 1)
  <2>1. m \in Nat /\ n \in Nat /\ Len(r) \in Nat
    BY <1>1, SeriesLen
  <2>2. ts \in Series /\ Len(ts) = m + ((n + 2) + Len(r)) /\ Holds(ts, m, e, n + 2)
    <3>1. e \in Series /\ Len(e) = n + 2
      BY <1>2
    <3> HIDE DEF e
    <3>2. ts \in Series /\ Len(ts) = m + (Len(e) + Len(r)) /\ Holds(ts, m, e, Len(e))
      BY <3>1, InContext
    <3> HIDE DEF ts, m, n
    <3> QED BY <3>1, <3>2
  <2> HIDE DEF ts, m
  <2>0. d = m + (n + 2)
    OBVIOUS
  <2>3. m + (n + 2) <= Len(ts) /\ Len(ts) \in Nat
    BY <2>1, <2>2
  <2>4. Closes(ts, m + 1) = d
    BY <2>1, <2>2, <2>3, ClosesEnclosed
  <2> HIDE DEF d
  <2>5. ts[m + 1] = Mark("(")
    <3>1. 1 \in 1..(n + 2)
      BY <2>1
    <3> QED BY <1>2, <2>2, <3>1 DEF Holds
  <2>6. Bare(ts[m + 1], <<"(">>)
    BY <2>5, MarkFacts
  <2>7. in = v
    <3>1. SubSeq(ts, m + 2, (m + (Len(v) + 2)) - 1) = v
      <4>1. m + (Len(v) + 2) <= Len(ts) /\ Holds(ts, m, Enclose(v), Len(v) + 2) /\ ts \in Series /\ m \in Nat
        BY <2>1, <2>2, <2>3
      <4> HIDE DEF n, e
      <4> QED BY ONLY <1>1, <4>1, InsideEnclosed
    <3>2. d - 1 = (m + (Len(v) + 2)) - 1
      BY <2>0
    <3> QED BY <3>1, <3>2
  <2>8. ParseOperand(ts, m, Whole) = Took(d, Whole[in])
    <3>1. d > 0
      BY <2>0, <2>1
    <3> QED BY <2>1, <2>4, <2>6, <3>1, OperandForms
  <2>9. Whole[v] = ParseTokens(v)
    BY <1>1, ParseTokensIs
  <2> QED BY <1>2, <2>0, <2>7, <2>8, <2>9 DEF ts, m
<1>4. Balanced(e)
  BY BalancedEnclose
<1>5. \A w \in {")", "and", "or"} : ~Bare(e[1], <<w>>)
  <2>1. e[1] = Mark("(")
    BY <1>2
  <2> HIDE DEF e
  <2>2. \A d : Bare(e[1], <<d>>) <=> d = "("
    <3>1. \A d : Bare(Mark("("), <<d>>) <=> "(" = d
      BY MarkFacts
    <3> QED BY <2>1, <3>1
  <2> QED BY <2>2
<1>6. Len(e) > 0
  BY <1>1, <1>2
<1> HIDE DEF e
<1> QED BY <1>3, <1>4, <1>5, <1>6 DEF Item, e

LEMMA RunsEmpty == Runs(<<>>, <<>>, <<>>)
<1>1. ASSUME NEW r \in Series PROVE Reached(Cat(<<>>, r), Whole, Loop(Len(<<>>), <<>>, <<>>, None))
  <2>1. Reached(Cat(<<>>, r), Whole, Start)
    BY ReachedStart
  <2>2. Len(<<>>) = 0
    OBVIOUS
  <2> QED BY <2>1, <2>2 DEF Start
<1> QED BY <1>1, BalancedEmpty DEF Runs

\* An operand where one may come.
LEMMA RunsItem ==
  ASSUME NEW v, NEW ors, Runs(v, ors, <<>>), NEW i, NEW c, Item(i, c)
  PROVE  Runs(Cat(v, i), ors, <<c>>)
<1>1. Balanced(v) /\ Balanced(i) /\ Balanced(Cat(v, i))
  BY BalancedCat DEF Runs, Item
<1>2. v \in Series /\ i \in Series
  BY <1>1 DEF Balanced
<1>3. ASSUME NEW r \in Series
      PROVE  Reached(Cat(Cat(v, i), r), Whole, Loop(Len(Cat(v, i)), ors, <<c>>, None))
  <2> DEFINE ts == Cat(v, Cat(i, r))
             s == Loop(Len(v), ors, <<>>, None)
             o == ParseOperand(ts, Len(v), Whole)
  <2>1. /\ ts \in Series /\ Len(ts) = Len(v) + (Len(i) + Len(r)) /\ Holds(ts, Len(v), i, Len(i))
        /\ ts = Cat(Cat(v, i), r) /\ Len(Cat(v, i)) = Len(v) + Len(i)
    BY <1>2, InContext, CatAt
  <2>2. Len(v) \in Nat /\ Len(i) \in Nat /\ Len(r) \in Nat /\ Len(i) > 0
    BY <1>2, SeriesLen DEF Item
  <2>3. Reached(ts, Whole, s)
    <3>1. Cat(i, r) \in Series
      BY <1>2, SeriesIn
    <3> QED BY <3>1 DEF Runs
  <2>4. o = Took(Len(v) + Len(i), c)
    BY <1>2 DEF Item
  <2> HIDE DEF ts, o
  <2>5. s.at = Len(v) /\ s.ors = ors /\ s.ands = <<>> /\ s.end = None
    BY LoopParts
  <2> HIDE DEF s
  <2>6. ~Ended(ts, s)
    BY <2>1, <2>2, <2>5 DEF Ended
  <2>7. ts[s.at + 1] = i[1]
    BY <2>1, <2>2, <2>5 DEF Holds
  <2>8. ~Bare(ts[s.at + 1], <<")">>) /\ ~Bare(ts[s.at + 1], <<"or">>) /\ ~Bare(ts[s.at + 1], <<"and">>)
    BY <2>7 DEF Item
  <2>9. Turn(ts, s, Whole) = TookTurn(s, o)
    BY <2>5, <2>8, TurnForms DEF o
  <2>10. TookTurn(s, o) = Loop(Len(v) + Len(i), ors, Append(<<>>, c), None)
    <3>1. o.at = Len(v) + Len(i) /\ o.clause = c
      BY <2>4, TookParts
    <3>2. c.kind \notin Outcomes
      BY DEF Item
    <3> QED BY <2>5, <3>1, <3>2 DEF TookTurn
  <2>11. Append(<<>>, c) = <<c>>
    OBVIOUS
  <2>12. Reached(ts, Whole, Turn(ts, s, Whole))
    BY <2>3, <2>6, ReachedStep
  <2> QED BY <2>1, <2>9, <2>10, <2>11, <2>12
<1> QED BY <1>1, <1>3 DEF Runs

\* AND and an operand after an operand.
LEMMA RunsAnd ==
  ASSUME NEW v, NEW ors, NEW ands, ands # <<>>, Runs(v, ors, ands), NEW i, NEW c, Item(i, c)
  PROVE  Runs(Cat(Cat(v, <<Mark("and")>>), i), ors, Append(ands, c))
<1> DEFINE a == <<Mark("and")>>
           b == Cat(v, a)
<1>1. Balanced(v) /\ Balanced(i) /\ Balanced(a)
  BY BalancedWord DEF Runs, Item
<1>2. v \in Series /\ i \in Series /\ a \in Series /\ Len(a) = 1 /\ a[1] = Mark("and")
  BY <1>1, MarkFacts DEF Balanced
<1> HIDE DEF a
<1>3. Balanced(b) /\ b \in Series /\ Len(b) = Len(v) + 1 /\ b[Len(v) + 1] = Mark("and")
  <2>1. Balanced(b)
    BY <1>1, BalancedCat
  <2>2. Len(v) \in Nat
    BY <1>2, SeriesLen
  <2>3. b \in Series /\ Len(b) = Len(v) + Len(a) /\ \A k \in 1..Len(a) : b[Len(v) + k] = a[k]
    BY <1>2, CatAt
  <2> HIDE DEF b
  <2>4. 1 \in 1..Len(a)
    BY <1>2
  <2> QED BY <1>2, <2>1, <2>2, <2>3, <2>4
<1>4. \A x \in Series : Cat(b, x) = Cat(v, Cat(a, x)) /\ Cat(a, x) \in Series
  BY <1>2, SeriesJoin, CatAssocIn, CatIn
<1> HIDE DEF b
<1>5. Balanced(Cat(b, i))
  BY <1>1, <1>3, BalancedCat
<1>6. ASSUME NEW r \in Series
      PROVE  Reached(Cat(Cat(b, i), r), Whole, Loop(Len(Cat(b, i)), ors, Append(ands, c), None))
  <2> DEFINE ts == Cat(b, Cat(i, r))
             s == Loop(Len(v), ors, ands, None)
             o == ParseOperand(ts, Len(b), Whole)
  <2>1. /\ ts \in Series /\ Len(ts) = Len(b) + (Len(i) + Len(r))
        /\ ts = Cat(Cat(b, i), r) /\ Len(Cat(b, i)) = Len(b) + Len(i)
    <3>1. ts \in Series /\ Len(ts) = Len(b) + (Len(i) + Len(r)) /\ ts = Cat(Cat(b, i), r)
      BY <1>2, <1>3, InContext
    <3>2. Len(Cat(b, i)) = Len(b) + Len(i)
      BY <1>2, <1>3, CatAt
    <3> QED BY <3>1, <3>2
  <2>2. Len(v) \in Nat /\ Len(i) \in Nat /\ Len(r) \in Nat /\ Len(i) > 0
    BY <1>2, SeriesLen DEF Item
  <2>3. Cat(i, r) \in Series
    BY <1>2, SeriesIn
  <2>4. Reached(ts, Whole, s)
    <3>1. ts = Cat(v, Cat(a, Cat(i, r))) /\ Cat(a, Cat(i, r)) \in Series
      BY <1>4, <2>3
    <3> HIDE DEF ts
    <3> QED BY <3>1 DEF Runs
  <2>5. o = Took(Len(b) + Len(i), c)
    BY <1>3 DEF Item
  <2>6. ts[Len(v) + 1] = Mark("and")
    <3>1. \A k \in 1..Len(b) : ts[k] = b[k]
      BY <1>3, <2>3, CatAt
    <3>2. Len(v) + 1 \in 1..Len(b)
      BY <1>3, <2>2
    <3> QED BY <1>3, <3>1, <3>2
  <2> HIDE DEF ts, o
  <2>7. s.at = Len(v) /\ s.ors = ors /\ s.ands = ands /\ s.end = None
    BY LoopParts
  <2> HIDE DEF s
  <2>8. ~Ended(ts, s) /\ s.at + 1 # Len(ts) /\ s.at + 1 = Len(b)
    BY <1>3, <2>1, <2>2, <2>7 DEF Ended
  <2>9. Bare(ts[s.at + 1], <<"and">>)
    BY <2>6, <2>7, MarkFacts
  <2>10. Turn(ts, s, Whole) = TookTurn(s, o)
    BY <2>7, <2>8, <2>9, TurnForms DEF o
  <2>11. TookTurn(s, o) = Loop(Len(b) + Len(i), ors, Append(ands, c), None)
    <3>1. o.at = Len(b) + Len(i) /\ o.clause = c
      BY <2>5, TookParts
    <3>2. c.kind \notin Outcomes
      BY DEF Item
    <3> QED BY <2>7, <3>1, <3>2 DEF TookTurn
  <2>12. Reached(ts, Whole, Turn(ts, s, Whole))
    BY <2>4, <2>8, ReachedStep
  <2> QED BY <2>1, <2>10, <2>11, <2>12
<1> QED BY <1>5, <1>6 DEF Runs, a, b

\* OR after an operand.
LEMMA RunsOr ==
  ASSUME NEW v, NEW S, NEW ors \in Seq(S), NEW ands, ands # <<>>, Group("and", ands) \in S, Runs(v, ors, ands)
  PROVE  Runs(Cat(v, <<Mark("or")>>), Append(ors, Group("and", ands)), <<>>)
<1> DEFINE a == <<Mark("or")>>
           b == Cat(v, a)
           more == Append(ors, Group("and", ands))
<1>1. Balanced(v) /\ Balanced(a)
  BY BalancedWord DEF Runs
<1>2. v \in Series /\ a \in Series /\ Len(a) = 1 /\ a[1] = Mark("or")
  BY <1>1, MarkFacts DEF Balanced
<1> HIDE DEF a
<1>3. Balanced(b) /\ Len(b) = Len(v) + 1
  <2>1. Balanced(b)
    BY <1>1, BalancedCat
  <2>2. Len(b) = Len(v) + Len(a)
    BY <1>2, CatAt
  <2> HIDE DEF b
  <2> QED BY <1>2, <2>1, <2>2
<1>4. CloseAnd(ors, ands) = more /\ more # <<>>
  <2>1. Len(more) = Len(ors) + 1 /\ Len(ors) \in Nat /\ Len(<<>>) = 0
    BY AppendProperties
  <2>2. more # <<>>
    <3> HIDE DEF more
    <3> QED BY <2>1
  <2>3. CloseAnd(ors, ands) = more
    BY DEF CloseAnd
  <2> QED BY <2>2, <2>3
<1> HIDE DEF more
<1>5. ASSUME NEW r \in Series PROVE Reached(Cat(b, r), Whole, Loop(Len(b), more, <<>>, None))
  <2> DEFINE ts == Cat(v, Cat(a, r))
             s == Loop(Len(v), ors, ands, None)
  <2>1. ts \in Series /\ Len(ts) = Len(v) + (1 + Len(r)) /\ Holds(ts, Len(v), a, 1) /\ ts = Cat(b, r)
    <3>1. ts \in Series /\ Len(ts) = Len(v) + (Len(a) + Len(r)) /\ Holds(ts, Len(v), a, Len(a)) /\ ts = Cat(b, r)
      BY <1>2, InContext
    <3> HIDE DEF ts, b
    <3> QED BY <1>2, <3>1
  <2>2. Len(v) \in Nat /\ Len(r) \in Nat
    BY <1>2, SeriesLen
  <2>3. Reached(ts, Whole, s)
    <3>1. Cat(a, r) \in Series
      BY <1>2, SeriesIn
    <3> QED BY <3>1 DEF Runs
  <2> HIDE DEF ts
  <2>4. s.at = Len(v) /\ s.ors = ors /\ s.ands = ands /\ s.end = None
    BY LoopParts
  <2> HIDE DEF s
  <2>5. ~Ended(ts, s)
    BY <2>1, <2>2, <2>4 DEF Ended
  <2>6. ts[s.at + 1] = Mark("or")
    BY <1>2, <2>1, <2>4 DEF Holds
  <2>7. Bare(ts[s.at + 1], <<"or">>)
    BY <2>6, MarkFacts
  <2>8. Turn(ts, s, Whole) = Loop(s.at + 1, more, <<>>, None)
    BY <1>4, <2>4, <2>7, TurnForms
  <2>9. Reached(ts, Whole, Turn(ts, s, Whole))
    BY <2>3, <2>5, ReachedStep
  <2> QED BY <1>3, <2>1, <2>4, <2>8, <2>9
<1> QED BY <1>3, <1>5 DEF Runs, a, b, more

\* What has been read is the whole when nothing comes after it.
LEMMA RunsEnd ==
  ASSUME NEW v, NEW ors, NEW ands, Runs(v, ors, ands)
  PROVE  ParseTokens(v) = Or(CloseAnd(ors, ands))
<1> DEFINE s == Loop(Len(v), ors, ands, None)
<1>1. v \in Series /\ Cat(v, <<>>) = v /\ <<>> \in Series
  <2>1. v \in Series
    BY DEF Runs, Balanced
  <2> QED BY <2>1, SeriesIn
<1>2. Reached(v, Whole, s)
  <2>1. Reached(Cat(v, <<>>), Whole, s)
    BY <1>1 DEF Runs
  <2> QED BY <1>1, <2>1
<1>3. s.at = Len(v) /\ s.ors = ors /\ s.ands = ands /\ s.end = None
  BY LoopParts
<1> HIDE DEF s
<1>4. Ended(v, s)
  BY <1>3 DEF Ended
<1>5. Looped(v, Whole) = s
  <2>1. Len(v) \in Nat /\ DOMAIN v = 1..Len(v)
    BY <1>1, SeriesLen
  <2> QED BY <1>2, <1>4, <2>1, ReachedEnds
<1>6. ParseTokens(v) = Result(s)
  BY <1>1, <1>5, ParseTokensIs
<1> QED BY <1>3, <1>6 DEF Result

\* Accepted tokens do not leave a parenthesis open.
LEMMA AcceptedBalanced ==
  ASSUME NEW v \in Series, ParseTokens(v).kind \notin Outcomes, Paired(v)
  PROVE  Balanced(v)
<1> DEFINE n == Cardinality(Outside(v)) + 1
           s == Looped(v, Whole)
<1>1. Len(v) \in Nat /\ DOMAIN v = 1..Len(v)
  BY SeriesLen
<1>2. n \in Nat
  BY <1>1, OutsideFinite
<1>3. PICK t : LoopSteps(v, Whole, n, t)
  BY <1>2, LoopStepsExist
<1>4. Ended(v, s) /\ LoopState(v, s)
  BY <1>1, <1>3, LoopEnds
<1>5. ParseTokens(v) = Result(s)
  BY ParseTokensIs
<1> HIDE DEF s
<1>6. s.end = None
  <2>1. SUFFICES ASSUME s.end # None PROVE FALSE
    OBVIOUS
  <2>2. Result(s).kind = s.end
    BY <2>1 DEF Result
  <2> QED BY <1>4, <1>5, <2>1, <2>2 DEF LoopState
<1>7. Level(v, Len(v)) <= 0
  BY <1>4, <1>6 DEF LoopState, Ended
<1>8. \A k \in 1..Len(v) : Level(v, k) >= 0
  BY <1>1 DEF Paired
<1>9. Level(v, Len(v)) = 0
  <2>1. CASE Len(v) = 0
    BY <2>1, LevelZero
  <2>2. CASE Len(v) # 0
    <3>1. Level(v, Len(v)) \in Int /\ Len(v) \in 1..Len(v)
      BY <1>1, <2>2, LevelStep
    <3> QED BY <1>7, <1>8, <3>1
  <2> QED BY <2>1, <2>2
<1> QED BY <1>8, <1>9 DEF Balanced
-----------------------------------------------------------------------------
(* A condition, wherever it is. *)

Part(s, a, b) == SubSeq(s, a, b)

LEMMA HoldsSub ==
  ASSUME NEW ts \in Series, NEW m \in Nat, NEW v \in Series, NEW n \in Nat, Len(v) = n, m + n <= Len(ts),
         Holds(ts, m, v, n), NEW a \in Nat \ {0}, NEW b \in Nat, b <= n, a <= b + 1
  PROVE  Part(ts, m + a, m + b) = Part(v, a, b)
<1> DEFINE x == SubSeq(ts, m + a, m + b)
           y == SubSeq(v, a, b)
           k == b + 1 - a
<1>1. ts \in Seq(Tokens) /\ v \in Seq(Tokens) /\ Len(ts) \in Nat
  BY SeriesLen DEF Series
<1>2. k \in Nat /\ (m + b) + 1 - (m + a) = k
  OBVIOUS
<1>3. x \in Seq(Tokens) /\ Len(x) = k /\ \A i \in 1..k : x[i] = ts[(m + a) + i - 1]
  <2>1. m + a \in 1..(Len(ts) + 1) /\ m + b \in 0..Len(ts) /\ m + a \in Nat /\ m + b \in Nat
    BY <1>1
  <2>2. m + a <= m + b \/ k = 0
    OBVIOUS
  <2> HIDE DEF k
  <2>3. x \in Seq(Tokens) /\ Len(x) = k
    BY <1>1, <1>2, <2>1, <2>2
  <2>4. ASSUME NEW i \in 1..k PROVE x[i] = ts[(m + a) + i - 1]
    BY <1>1, <1>2, <2>1, <2>2, <2>3
  <2> QED BY <2>3, <2>4
<1>4. y \in Seq(Tokens) /\ Len(y) = k /\ \A i \in 1..k : y[i] = v[a + i - 1]
  <2>1. a <= b \/ k = 0
    OBVIOUS
  <2>2. b + 1 - a = k
    OBVIOUS
  <2> HIDE DEF k
  <2>3. y \in Seq(Tokens) /\ Len(y) = k
    BY <1>1, <1>2, <2>1, <2>2
  <2>4. ASSUME NEW i \in 1..k PROVE y[i] = v[a + i - 1]
    BY <1>1, <1>2, <2>1, <2>2, <2>3
  <2> QED BY <2>3, <2>4
<1>5. ASSUME NEW i \in 1..k PROVE ts[(m + a) + i - 1] = v[a + i - 1]
  <2>1. a + i - 1 \in 1..n /\ (m + a) + i - 1 = m + (a + i - 1)
    OBVIOUS
  <2> QED BY <2>1 DEF Holds
<1> HIDE DEF x, y, k
<1>6. \A i \in 1..Len(x) : x[i] = y[i]
  BY <1>3, <1>4, <1>5
<1>7. x = y
  BY <1>3, <1>4, <1>6, SeqEqual
<1> QED BY <1>7 DEF x, y, Part

\* A parenthesis closes where it does in the tokens around it.
LEMMA HoldsCloses ==
  ASSUME NEW ts \in Series, NEW m \in Nat, NEW v \in Series, NEW n \in Nat, Len(v) = n, m + n <= Len(ts),
         Holds(ts, m, v, n), NEW q \in 0..n, Closes(v, q) # 0
  PROVE  Closes(ts, m + q) = m + Closes(v, q)
<1> DEFINE c == Closes(v, q)
           d == Closes(ts, m + q)
<1>1. Len(ts) \in Nat /\ q \in Nat /\ m + q \in Nat /\ Len(v) \in Nat
  BY SeriesLen
<1>2. c \in q + 1 .. n /\ Bare(v[c], <<")">>) /\ Level(v, c) = Level(v, q) - 1
  BY <1>1, ClosesWhere
<1>3. \A e \in q + 1 .. n : Bare(v[e], <<")">>) /\ Level(v, e) = Level(v, q) - 1 => c <= e
  BY <1>1, ClosesWhere
<1>4. d = 0 \/ (d \in (m + q) + 1 .. Len(ts) /\ Bare(ts[d], <<")">>) /\ Level(ts, d) = Level(ts, m + q) - 1)
  BY <1>1, ClosesWhere
<1>5. \A e \in (m + q) + 1 .. Len(ts) : Bare(ts[e], <<")">>) /\ Level(ts, e) = Level(ts, m + q) - 1 => d # 0 /\ d <= e
  BY <1>1, ClosesWhere
<1> HIDE DEF c, d
<1>6. \A k \in 0..n : Level(ts, m + k) = Level(ts, m) + Level(v, k)
  BY LevelShift
<1>7. Level(ts, m) \in Int /\ \A k \in 0..n : Level(v, k) \in Int
  BY LevelStep
<1>8. \A k \in 1..n : ts[m + k] = v[k]
  BY DEF Holds
<1>9. m + c \in (m + q) + 1 .. Len(ts) /\ c \in 1..n /\ c \in 0..n
  BY <1>1, <1>2
<1>10. d # 0 /\ d <= m + c
  <2>1. Bare(ts[m + c], <<")">>)
    BY <1>2, <1>8, <1>9
  <2>2. Level(ts, m + c) = Level(ts, m + q) - 1
    <3>1. Level(ts, m + c) = Level(ts, m) + Level(v, c) /\ Level(ts, m + q) = Level(ts, m) + Level(v, q)
      BY <1>6, <1>9
    <3>2. Level(v, c) \in Int /\ Level(v, q) \in Int
      BY <1>7, <1>9
    <3> QED BY <1>2, <1>7, <3>1, <3>2
  <2> QED BY <1>5, <1>9, <2>1, <2>2
<1> DEFINE e == d - m
<1>11. e \in q + 1 .. n /\ e \in 1..n /\ e \in 0..n /\ m + e = d
  BY <1>1, <1>4, <1>9, <1>10
<1> HIDE DEF e
<1>12. Bare(v[e], <<")">>)
  <2>1. ts[m + e] = v[e]
    BY <1>8, <1>11
  <2> QED BY <1>4, <1>10, <1>11, <2>1
<1>13. Level(v, e) = Level(v, q) - 1
  <2>1. Level(ts, m + e) = Level(ts, m) + Level(v, e) /\ Level(ts, m + q) = Level(ts, m) + Level(v, q)
    BY <1>6, <1>11
  <2>2. Level(v, e) \in Int /\ Level(v, q) \in Int
    BY <1>7, <1>11
  <2>3. Level(ts, m + e) = Level(ts, m + q) - 1
    BY <1>4, <1>10, <1>11
  <2> QED BY <1>7, <2>1, <2>2, <2>3
<1>14. c <= e
  BY <1>3, <1>11, <1>12, <1>13
<1> QED BY <1>9, <1>10, <1>11, <1>14 DEF c, d

\* What reads as one condition by itself does so in the middle of other tokens.
LEMMA ConditionShift ==
  ASSUME NEW ts \in Series, NEW m \in Nat, NEW v \in Series, NEW n \in Nat, Len(v) = n, m + n <= Len(ts),
         Holds(ts, m, v, n), NEW c, c.kind \notin Outcomes, ParseCondition(v, 0) = Took(n, c)
  PROVE  n >= 3 /\ ParseCondition(ts, m) = Took(m + n, c)
<1> DEFINE z == 0
           three == 3
           four == 4
<1>0. /\ z \in Nat /\ z + 1 = 1 /\ z + 2 = 2 /\ z + 3 = three /\ z + 4 = four
      /\ three = 3 /\ four = 4 /\ three \in Nat /\ four \in Nat \ {0}
  OBVIOUS
<1>10. \A p, d : ParseCondition(v, z) = Took(p, d) => n = p /\ c = d
  <2>1. ParseCondition(v, z) = Took(n, c)
    OBVIOUS
  <2> HIDE DEF z
  <2>2. ASSUME NEW p, NEW d, ParseCondition(v, z) = Took(p, d) PROVE n = p /\ c = d
    <3>1. Took(n, c).at = Took(p, d).at /\ Took(n, c).clause = Took(p, d).clause
      BY <2>1, <2>2
    <3> QED BY <3>1, TookParts
  <2> QED BY <2>2
<1> HIDE DEF z, three, four
<1>1. Len(ts) \in Nat /\ Len(v) \in Nat
  BY SeriesLen
<1>2. IsNullAt(v, z) \/ IsNotNullAt(v, z) \/ ValueAt(v, z) \/ ListAt(v, z)
  <2>1. SUFFICES ASSUME ~IsNullAt(v, z), ~IsNotNullAt(v, z), ~ValueAt(v, z), ~ListAt(v, z) PROVE FALSE
    OBVIOUS
  <2>2. ParseCondition(v, z) = Took(z, Failed)
    BY <1>0, <1>1, <2>1, ConditionForms
  <2>3. c = Failed
    BY <1>10, <2>2
  <2> QED BY <1>0, <2>3, FailedKind
<1>3. \A k \in 1..n : ts[m + k] = v[k]
  BY DEF Holds
<1>4. n >= 3
  BY <1>0, <1>2 DEF IsNullAt, IsNotNullAt, ValueAt, ListAt, ComparesAt
<1>5. ts[m + 1] = v[1] /\ ts[m + 2] = v[2] /\ ts[m + 3] = v[3] /\ Len(ts) >= m + 3
  BY <1>0, <1>1, <1>3, <1>4
<1>6. CASE IsNullAt(v, z)
  <2>1. ParseCondition(v, z) = Took(three, IsNull(v[1].value))
    <3>1. ParseCondition(v, z) = Took(z + 3, IsNull(v[z + 1].value))
      BY <1>0, <1>1, <1>6, ConditionForms
    <3> QED BY <1>0, <3>1
  <2>2. n = 3 /\ c = IsNull(v[1].value)
    <3>1. n = three /\ c = IsNull(v[1].value)
      BY <1>10, <2>1
    <3> QED BY <1>0, <3>1
  <2>3. IsNullAt(ts, m)
    BY <1>0, <1>5, <1>6 DEF IsNullAt
  <2>4. ParseCondition(ts, m) = Took(m + 3, IsNull(ts[m + 1].value))
    BY <1>0, <1>1, <2>3, ConditionForms
  <2> QED BY <1>0, <1>4, <1>5, <2>2, <2>4
<1>7. CASE IsNotNullAt(v, z)
  <2>1. ParseCondition(v, z) = Took(four, IsNotNull(v[1].value))
    <3>1. ParseCondition(v, z) = Took(z + 4, IsNotNull(v[z + 1].value))
      BY <1>0, <1>1, <1>7, ConditionForms
    <3> QED BY <1>0, <3>1
  <2>2. n = 4 /\ c = IsNotNull(v[1].value)
    <3>1. n = four /\ c = IsNotNull(v[1].value)
      BY <1>10, <2>1
    <3> QED BY <1>0, <3>1
  <2>3. ts[m + 4] = v[4] /\ Len(ts) >= m + 4
    BY <1>0, <1>1, <1>3, <2>2
  <2>4. IsNotNullAt(ts, m)
    BY <1>0, <1>5, <1>7, <2>3 DEF IsNotNullAt
  <2>5. ParseCondition(ts, m) = Took(m + 4, IsNotNull(ts[m + 1].value))
    BY <1>0, <1>1, <2>4, ConditionForms
  <2> QED BY <1>0, <1>4, <1>5, <2>2, <2>5
<1>8. CASE ValueAt(v, z)
  <2>1. ParseCondition(v, z) = Took(three, Condition(v[1].value, v[2].value, <<v[three].value>>))
    <3>1. ParseCondition(v, z) = Took(z + 3, Condition(v[z + 1].value, v[z + 2].value, <<v[z + 3].value>>))
      BY <1>0, <1>1, <1>8, ConditionForms
    <3> QED BY <1>0, <3>1
  <2>2. n = 3 /\ c = Condition(v[1].value, v[2].value, <<v[three].value>>)
    <3>1. n = three /\ c = Condition(v[1].value, v[2].value, <<v[three].value>>)
      BY <1>10, <2>1
    <3> QED BY <1>0, <3>1
  <2>3. ValueAt(ts, m)
    BY <1>0, <1>5, <1>8 DEF ValueAt, ComparesAt
  <2>4. ParseCondition(ts, m) = Took(m + 3, Condition(ts[m + 1].value, ts[m + 2].value, <<ts[m + 3].value>>))
    BY <1>0, <1>1, <2>3, ConditionForms
  <2> QED BY <1>0, <1>4, <1>5, <2>2, <2>4
<1>9. CASE ListAt(v, z)
  <2>1. ParseCondition(v, z) = Took(Closes(v, three), Condition(v[1].value, v[2].value, ListOf(Listed(v, z)).values))
    <3>1. ParseCondition(v, z) = Took(Closes(v, z + 3), Condition(v[z + 1].value, v[z + 2].value, ListOf(Listed(v, z)).values))
      BY <1>0, <1>1, <1>9, ConditionForms
    <3> QED BY <1>0, <3>1
  <2>2. n = Closes(v, three) /\ c = Condition(v[1].value, v[2].value, ListOf(Listed(v, z)).values)
    BY <1>10, <2>1
  <2>3. Closes(v, three) # 0
    BY <1>0, <1>4, <2>2
  <2>4. Closes(ts, m + three) = m + n
    <3>1. three \in 0..n
      BY <1>0, <1>4
    <3> QED BY <1>0, <2>2, <2>3, <3>1, HoldsCloses
  <2>5. n >= 4
    <3>1. Closes(v, three) \in three + 1 .. Len(v)
      BY <1>0, <2>3, ClosesWhere
    <3> QED BY <1>0, <2>2, <3>1
  <2>6. Listed(ts, m) = Listed(v, z)
    <3> DEFINE b == n - 1
    <3>1. b \in Nat /\ b <= n /\ four <= b + 1 /\ four \in Nat \ {0} /\ m + b = (m + n) - 1
      BY <1>0, <2>5
    <3>2. Listed(v, z) = SubSeq(v, four, b) /\ Listed(ts, m) = SubSeq(ts, m + four, (m + n) - 1)
      BY <1>0, <2>2, <2>4 DEF Listed
    <3>3. SubSeq(ts, m + four, m + b) = SubSeq(v, four, b)
      <4>1. b \in Nat /\ b <= n /\ four <= b + 1 /\ four \in Nat \ {0}
        BY <3>1
      <4>2. ASSUME NEW x \in Nat \ {0}, NEW y \in Nat, y <= n, x <= y + 1
            PROVE  Part(ts, m + x, m + y) = Part(v, x, y)
        BY <4>2, HoldsSub
      <4> HIDE DEF b
      <4>3. Part(ts, m + four, m + b) = Part(v, four, b)
        BY <4>1, <4>2
      <4> QED BY <4>3 DEF Part
    <3> QED BY <1>0, <3>1, <3>2, <3>3
  <2>7. ListAt(ts, m)
    <3>1. Closes(ts, m + three) > 0
      BY <1>0, <1>4, <2>4
    <3> QED BY <1>0, <1>5, <1>9, <2>6, <3>1 DEF ListAt, ComparesAt
  <2>8. ParseCondition(ts, m) =
          Took(Closes(ts, m + three), Condition(ts[m + 1].value, ts[m + 2].value, ListOf(Listed(ts, m)).values))
    BY <1>0, <1>1, <2>7, ConditionForms
  <2> QED BY <1>0, <1>4, <1>5, <2>2, <2>4, <2>6, <2>8
<1> QED BY <1>2, <1>6, <1>7, <1>8, <1>9

LEMMA TokenizeType ==
  ASSUME NEW u \in Texts
  PROVE  /\ Tokenize(u).tokens \in Series
         /\ ~Tokenize(u).failed => Tokenize(u) = Reading(Tokenize(u).tokens, <<>>, FALSE)
<1> DEFINE s == Read(Append(BytesOf(u), " "))
<1>1. s \in Readings
  <2>1. " " \in Letter /\ BytesOf(u) \in Texts
    BY Special, BytesAppend
  <2> QED BY <2>1, TextsAppend, ReadType
<1>2. Tokenize(u) = Reading(s.tokens, <<>>, s.failed \/ s.current # <<>>)
  BY DEF Tokenize
<1> HIDE DEF s
<1>3. Tokenize(u).tokens = s.tokens /\ Tokenize(u).failed = (s.failed \/ s.current # <<>>)
  BY <1>2 DEF Reading
<1>4. ASSUME ~Tokenize(u).failed PROVE Tokenize(u) = Reading(Tokenize(u).tokens, <<>>, FALSE)
  <2>1. (s.failed \/ s.current # <<>>) = FALSE
    BY <1>3, <1>4
  <2> QED BY <1>2, <1>3, <2>1
<1> QED BY <1>1, <1>3, <1>4 DEF Readings

\* No group and no conjunction starts here.
Unmarked(v) == \A w \in {"(", ")", "and", "or"} : ~Bare(v[1], <<w>>)

LEMMA ConditionIsItem ==
  ASSUME NEW v \in Series, Paired(v), Unmarked(v), NEW d, d.kind \notin Outcomes, ParseCondition(v, 0) = Took(Len(v), d)
  PROVE  Item(v, d)
<1> DEFINE n == Len(v)
<1>1. ParseCondition(v, 0) = Took(n, d)
  OBVIOUS
<1>2. n \in Nat /\ DOMAIN v = 1..n
  BY SeriesLen
<1>3. n >= 3
  <2>1. Holds(v, 0, v, n)
    BY DEF Holds
  <2> QED BY <1>1, <1>2, <2>1, ConditionShift
<1>4. Balanced(v)
  <2>1. Level(v, n) <= Level(v, 0)
    <3>1. ~Bare(v[0 + 1], <<"(">>) /\ 0 < Len(v) /\ Len(v) \in Nat
      BY <1>2, <1>3 DEF Unmarked
    <3>2. ParseCondition(v, 0).clause = d /\ ParseCondition(v, 0).at = n
      BY <1>1, TookParts
    <3> QED BY <3>1, <3>2, ConditionTakes
  <2>2. \A k \in 1..n : Level(v, k) >= 0
    BY <1>2 DEF Paired
  <2>3. n \in 1..n /\ Level(v, n) \in Int
    BY <1>2, <1>3, LevelStep
  <2>4. Level(v, n) = 0
    BY <2>1, <2>2, <2>3, LevelZero
  <2> QED BY <2>2, <2>4 DEF Balanced
<1>5. ASSUME NEW p \in Series, NEW r \in Series
      PROVE  ParseOperand(Cat(p, Cat(v, r)), Len(p), Whole) = Took(Len(p) + n, d)
  <2> DEFINE ts == Cat(p, Cat(v, r))
             m == Len(p)
  <2>1. ts \in Series /\ Len(ts) = m + (n + Len(r)) /\ Holds(ts, m, v, n)
    BY InContext
  <2>2. m \in Nat /\ Len(r) \in Nat /\ Len(v) = n
    BY SeriesLen
  <2> HIDE DEF ts, m, n
  <2>3. m + n <= Len(ts)
    BY <1>2, <2>1, <2>2
  <2>4. ParseCondition(ts, m) = Took(m + n, d)
    <3>1. \A k \in Nat : Len(v) = k /\ m + k <= Len(ts) /\ Holds(ts, m, v, k) /\ ParseCondition(v, 0) = Took(k, d) =>
            ParseCondition(ts, m) = Took(m + k, d)
      BY <2>1, <2>2, ConditionShift
    <3> QED BY <1>1, <1>2, <2>1, <2>2, <2>3, <3>1
  <2>5. ts[m + 1] = v[1]
    BY <1>2, <1>3, <2>1 DEF Holds
  <2>6. ParseOperand(ts, m, Whole) = ParseCondition(ts, m)
    BY <2>2, <2>5, OperandForms DEF Unmarked
  <2> QED BY <2>4, <2>6 DEF ts, m
<1>6. Len(v) > 0
  BY <1>2, <1>3
<1> QED BY <1>4, <1>5, <1>6 DEF Item, Unmarked

LEMMA ConditionItem ==
  ASSUME NEW c \in Conditions
  PROVE  /\ c.text \in Texts /\ Tokenize(c.text).tokens \in Series
         /\ Tokenize(c.text) = Reading(Tokenize(c.text).tokens, <<>>, FALSE)
         /\ Item(Tokenize(c.text).tokens, c.clause)
<1> DEFINE v == Tokenize(c.text).tokens
<1>1. /\ c.text \in Texts /\ ~Tokenize(c.text).failed /\ Paired(v)
      /\ \A w \in {"(", ")", "and", "or"} : ~Bare(v[1], <<w>>)
      /\ ParseCondition(v, 0) = Took(Len(v), c.clause) /\ c.clause.kind \notin Outcomes
  BY ConditionsAssumption DEF Texts
<1>2. v \in Series /\ Tokenize(c.text) = Reading(v, <<>>, FALSE)
  BY <1>1, TokenizeType
<1> HIDE DEF v
<1>3. Item(v, c.clause)
  BY <1>1, <1>2, ConditionIsItem DEF Unmarked
<1> QED BY <1>1, <1>2, <1>3 DEF v
-----------------------------------------------------------------------------
(* Texts and the tokens that they give. *)

Says(u, ts) == u \in Texts /\ ts \in Series /\ Tokenize(u) = Reading(ts, <<>>, FALSE)
Wrap(u) == Cat(<<"(">>, Cat(u, <<")">>))
Spaced(u, v) == Cat(u, Cat(<<" ">>, v))

LEMMA SaysGives ==
  ASSUME NEW u \in Texts, NEW ts \in Series
  PROVE  Says(u, ts) <=> Gives(Cat(BytesOf(u), <<" ">>), ts)
<1>1. BytesOf(u) \in Texts /\ " " \in Letter
  BY Special, BytesAppend
<1>2. Append(BytesOf(u), " ") = Cat(BytesOf(u), <<" ">>)
  BY <1>1, TextsAppend
<1> QED BY <1>2, TokenizeGives DEF Says

LEMMA SaysEmpty == \A ts : Says(<<>>, ts) <=> ts = <<>>
<1>1. <<>> \in Texts /\ <<>> \in Series /\ Cat(<<>>, <<" ">>) = <<" ">>
  <2>1. " " \in Letter /\ <<>> \in Texts
    <3>1. <<>> \in Texts
      BY DEF Texts
    <3> QED BY <3>1, Special
  <2>2. <<>> \in Series
    BY DEF Series
  <2>3. <<" ">> \in Texts
    BY <2>1, TextsAppend
  <2> QED BY <2>1, <2>2, <2>3, TextIn
<1>2. Says(<<>>, <<>>)
  <2>1. Gives(Cat(BytesOf(<<>>), <<" ">>), <<>>)
    BY <1>1, BytesEmpty, GivesSpace
  <2> QED BY <1>1, <2>1, SaysGives
<1>3. ASSUME NEW ts, Says(<<>>, ts) PROVE ts = <<>>
  BY <1>2, <1>3 DEF Says, Reading
<1> QED BY <1>2, <1>3

LEMMA SaysSpaced ==
  ASSUME NEW u, NEW p, Says(u, p), NEW v, NEW r, Says(v, r)
  PROVE  Says(Spaced(u, v), Cat(p, r))
<1>1. u \in Texts /\ v \in Texts /\ p \in Series /\ r \in Series
  BY DEF Says
<1>2. <<" ">> \in Texts /\ BytesOf(<<" ">>) = <<" ">>
  BY <1>1, Special, TextsAppend
<1>3. Cat(<<" ">>, v) \in Texts /\ Spaced(u, v) \in Texts /\ Cat(p, r) \in Series
  BY <1>1, <1>2, TextIn, SeriesIn DEF Spaced
<1> DEFINE bu == BytesOf(u)
           bv == BytesOf(v)
           sp == <<" ">>
<1>4. bu \in Texts /\ bv \in Texts /\ sp \in Texts
  BY <1>1, <1>2, BytesCat
<1>5. BytesOf(Spaced(u, v)) = Cat(bu, Cat(sp, bv))
  <2>1. BytesOf(Cat(sp, v)) = Cat(sp, bv)
    BY <1>1, <1>2, BytesCat
  <2> QED BY <1>1, <1>3, <2>1, BytesCat DEF Spaced
<1>6. Gives(Cat(bu, sp), p) /\ Gives(Cat(bv, sp), r)
  BY <1>1, SaysGives
<1> HIDE DEF bu, bv, sp
<1>7. Gives(Cat(Cat(bu, sp), Cat(bv, sp)), Cat(p, r))
  BY <1>6, GivesCat
<1>8. Cat(Cat(bu, sp), Cat(bv, sp)) = Cat(Cat(bu, Cat(sp, bv)), sp)
  <2>1. Cat(bv, sp) \in Texts /\ Cat(sp, bv) \in Texts
    BY <1>4, TextIn
  <2>2. Cat(Cat(bu, sp), Cat(bv, sp)) = Cat(bu, Cat(sp, Cat(bv, sp)))
    BY <1>4, <2>1, TextsJoin, CatAssocIn
  <2>3. Cat(sp, Cat(bv, sp)) = Cat(Cat(sp, bv), sp)
    BY <1>4, TextsJoin, CatAssocIn
  <2>4. Cat(Cat(bu, Cat(sp, bv)), sp) = Cat(bu, Cat(Cat(sp, bv), sp))
    BY <1>4, <2>1, TextsJoin, CatAssocIn
  <2> QED BY <2>2, <2>3, <2>4
<1>9. Gives(Cat(BytesOf(Spaced(u, v)), sp), Cat(p, r))
  BY <1>5, <1>7, <1>8
<1> QED BY <1>3, <1>9, SaysGives DEF sp

LEMMA SaysMark == \A c \in {"(", ")", "and", "or"} : Says(<<c>>, <<Mark(c)>>)
<1> SUFFICES ASSUME NEW c \in {"(", ")", "and", "or"} PROVE Says(<<c>>, <<Mark(c)>>)
  OBVIOUS
<1>1. c \in Letter /\ " " \in Letter /\ BytesOf(<<c>>) = <<c>>
  BY Special
<1>2. <<c>> \in Texts /\ <<Mark(c)>> \in Series /\ <<" ">> \in Texts
  <2>1. <<c>> \in Texts /\ <<" ">> \in Texts
    BY <1>1, Tuples DEF Texts
  <2> QED BY <2>1, MarkFacts
<1>3. Gives(Cat(<<c>>, <<" ">>), <<Mark(c)>>)
  <2>1. CASE c \in {"(", ")"}
    <3>1. Gives(<<c>>, <<Mark(c)>>)
      BY <2>1, GivesSingle
    <3>2. Gives(Cat(<<c>>, <<" ">>), Cat(<<Mark(c)>>, <<>>))
      BY <3>1, GivesSpace, GivesCat
    <3> QED BY <1>2, <3>2, SeriesIn
  <2>2. CASE c \in {"and", "or"}
    <3>1. Gives(<<c, " ">>, <<Mark(c)>>)
      BY <2>2, GivesWord
    <3>2. Cat(<<c>>, <<" ">>) = <<c, " ">>
      BY <1>1, Tuples
    <3> QED BY <3>1, <3>2
  <2> QED BY <2>1, <2>2
<1> QED BY <1>1, <1>2, <1>3, SaysGives

LEMMA SaysWrap ==
  ASSUME NEW u, NEW ts, Says(u, ts)
  PROVE  Says(Wrap(u), Enclose(ts))
<1>1. u \in Texts /\ ts \in Series
  BY DEF Says
<1> DEFINE b == BytesOf(u)
           sp == <<" ">>
           op == <<"(">>
           cl == <<")">>
           o == <<Mark("(")>>
           c == <<Mark(")")>>
<1>2. sp \in Texts /\ op \in Texts /\ cl \in Texts /\ b \in Texts /\ BytesOf(op) = op /\ BytesOf(cl) = cl
      /\ o \in Series /\ c \in Series
  <2>1. sp \in Texts /\ op \in Texts /\ cl \in Texts
    BY Special, Tuples DEF Texts
  <2>2. BytesOf(op) = op /\ BytesOf(cl) = cl
    BY Special
  <2>3. b \in Texts
    BY <1>1, BytesCat
  <2> QED BY <2>1, <2>2, <2>3, MarkFacts
<1>3. Gives(op, o)
  BY GivesSingle
<1>4. Gives(Cat(b, cl), Cat(ts, c))
  <2>1. Gives(Append(b, " "), ts)
    <3>1. Gives(Cat(b, sp), ts)
      BY <1>1, SaysGives
    <3>2. Append(b, " ") = Cat(b, sp)
      BY <1>2, Special, TextsAppend
    <3> QED BY <3>1, <3>2
  <2>2. Gives(Append(b, ")"), Append(ts, Mark(")")))
    BY <1>2, <2>1, GivesClosing
  <2>3. Append(b, ")") = Cat(b, cl)
    BY <1>2, Special, TextsAppend
  <2>4. Append(ts, Mark(")")) = Cat(ts, c)
    <3>1. Mark(")") \in Tokens
      BY Special
    <3> QED BY <1>1, <3>1, SeriesAppend
  <2> QED BY <2>2, <2>3, <2>4
<1>5. Gives(sp, <<>>)
  BY GivesSpace
<1>6. Wrap(u) \in Texts /\ BytesOf(Wrap(u)) = Cat(op, Cat(b, cl))
  <2>1. b = BytesOf(u) /\ Wrap(u) = Cat(op, Cat(u, cl))
    BY DEF Wrap
  <2> HIDE DEF b, op, cl
  <2>2. Cat(u, cl) \in Texts
    BY <1>1, <1>2, TextIn
  <2>3. BytesOf(Cat(u, cl)) = Cat(b, cl)
    BY <1>1, <1>2, <2>1, BytesCat
  <2>4. Cat(op, Cat(u, cl)) \in Texts
    BY <1>2, <2>2, TextIn
  <2>5. BytesOf(Cat(op, Cat(u, cl))) = Cat(op, BytesOf(Cat(u, cl)))
    BY <1>2, <2>2, BytesCat
  <2> QED BY <2>1, <2>3, <2>4, <2>5
<1>7. Enclose(ts) = Cat(o, Cat(ts, c)) /\ Enclose(ts) \in Series
  BY <1>1, EncloseParts DEF Enclose
<1> HIDE DEF b, sp, op, cl, o, c
<1>8. Gives(Cat(op, Cat(b, cl)), Enclose(ts))
  BY <1>3, <1>4, <1>7, GivesCat
<1>9. Gives(Cat(Cat(op, Cat(b, cl)), sp), Enclose(ts))
  <2>1. Gives(Cat(Cat(op, Cat(b, cl)), sp), Cat(Enclose(ts), <<>>))
    BY <1>5, <1>8, GivesCat
  <2> QED BY <1>7, <2>1, SeriesIn
<1>10. Gives(Cat(BytesOf(Wrap(u)), sp), Enclose(ts))
  BY <1>6, <1>9
<1> QED BY <1>6, <1>7, <1>10, SaysGives DEF sp

LEMMA SaysTyped ==
  ASSUME NEW u, NEW p, Says(u, p), NEW v, NEW r, Says(v, r)
  PROVE  Says(IF u = <<>> THEN v ELSE u \o <<" ">> \o v, Cat(p, r))
<1>1. u \in Texts /\ v \in Texts /\ p \in Series /\ r \in Series
  BY DEF Says
<1>2. CASE u = <<>>
  <2>1. p = <<>>
    BY <1>2, SaysEmpty
  <2>2. Cat(p, r) = r
    BY <1>1, <2>1, SeriesIn
  <2> QED BY <1>2, <2>2
<1>3. CASE u # <<>>
  <2>1. <<" ">> \in Texts
    BY Special, Tuples DEF Texts
  <2>2. Cat(Cat(u, <<" ">>), v) = Spaced(u, v)
    <3> DEFINE sp == <<" ">>
    <3>1. sp \in Texts /\ Spaced(u, v) = Cat(u, Cat(sp, v))
      BY <2>1 DEF Spaced
    <3> HIDE DEF sp
    <3>2. Cat(Cat(u, sp), v) = Cat(u, Cat(sp, v))
      BY <1>1, <3>1, TextsJoin, CatAssocIn
    <3> QED BY <3>1, <3>2 DEF sp
  <2>3. u \o <<" ">> \o v = Spaced(u, v)
    BY <2>2 DEF Cat
  <2> QED BY <1>3, <2>3, SaysSpaced
<1> QED BY <1>2, <1>3
-----------------------------------------------------------------------------
(* Filters that are joined. *)

\* In parentheses, text u is one operand that is read as clause c.
Stands(u, c) == \E ts : Says(u, ts) /\ Item(Enclose(ts), c)

LEMMA ParseSays ==
  ASSUME NEW u, NEW ts, Says(u, ts)
  PROVE  Parse(u) = ParseTokens(ts) /\ Tokenize(u).tokens = ts
<1>1. Tokenize(u) = Reading(ts, <<>>, FALSE)
  BY DEF Says
<1>2. Reading(ts, <<>>, FALSE).failed = FALSE /\ Reading(ts, <<>>, FALSE).tokens = ts
  BY DEF Reading
<1> QED BY <1>1, <1>2 DEF Parse

\* No filter that is accepted reaches out of the parentheses around it.
LEMMA ContainedStands ==
  ASSUME NEW u \in Texts, SelfContained(u)
  PROVE  Stands(u, Parse(u))
<1> DEFINE ts == Tokenize(u).tokens
<1>1. Parse(u).kind \notin Outcomes /\ Paired(ts)
  BY DEF SelfContained, Accepted
<1>2. ~Tokenize(u).failed
  <2>1. SUFFICES ASSUME Tokenize(u).failed PROVE FALSE
    OBVIOUS
  <2>2. Parse(u) = Failed
    BY <2>1 DEF Parse
  <2> QED BY <1>1, <2>2, FailedKind
<1>3. Says(u, ts)
  BY <1>2, TokenizeType DEF Says
<1>4. Parse(u) = ParseTokens(ts) /\ ts \in Series
  BY <1>3, ParseSays DEF Says
<1> HIDE DEF ts
<1>5. Balanced(ts)
  BY <1>1, <1>4, AcceptedBalanced
<1>6. Item(Enclose(ts), Parse(u))
  BY <1>1, <1>4, <1>5, EncloseItem
<1> QED BY <1>3, <1>6 DEF Stands

\* Text u, which the loop reads to its end, as an operand in parentheses.
LEMMA StandsWrapped ==
  ASSUME NEW u, NEW ts, Says(u, ts), NEW ors, NEW ands, Runs(ts, ors, ands),
         NEW c, c = Or(CloseAnd(ors, ands)), c.kind \notin Outcomes
  PROVE  /\ Stands(Wrap(u), Group("and", <<c>>))
         /\ Parse(Wrap(u)) = Group("and", <<c>>)
<1> DEFINE e == Enclose(ts)
           d == Group("and", <<c>>)
<1>1. Balanced(ts) /\ ParseTokens(ts) = c
  BY RunsEnd DEF Runs
<1>2. Item(e, c)
  BY <1>1, EncloseItem
<1>3. Says(Wrap(u), e)
  BY SaysWrap
<1>4. Runs(e, <<>>, <<c>>)
  <2>1. Runs(Cat(<<>>, e), <<>>, <<c>>)
    BY <1>2, RunsEmpty, RunsItem
  <2>2. e \in Series
    BY <1>3 DEF Says
  <2> QED BY <2>1, <2>2, SeriesIn
<1>5. Or(CloseAnd(<<>>, <<c>>)) = d
  BY DEF Or, CloseAnd
<1>6. d.kind \notin Outcomes
  BY DEF Group, Outcomes
<1> HIDE DEF e, d
<1>7. Balanced(e) /\ ParseTokens(e) = d
  BY <1>4, <1>5, RunsEnd DEF Runs
<1>8. Item(Enclose(e), d)
  BY <1>6, <1>7, EncloseItem
<1>9. Stands(Wrap(u), d)
  BY <1>3, <1>8 DEF Stands
<1>10. Parse(Wrap(u)) = d
  BY <1>3, <1>7, ParseSays
<1> QED BY <1>9, <1>10 DEF d

LEMMA StandsText ==
  ASSUME NEW u, NEW c, Stands(u, c)
  PROVE  u \in Texts
  BY DEF Stands, Says

LEMMA TextIn3 ==
  ASSUME NEW a \in Texts, NEW b \in Texts, NEW c \in Texts
  PROVE  Cat(Cat(a, b), c) = Cat(a, Cat(b, c)) /\ Cat(a, b) \in Texts /\ Cat(b, c) \in Texts
  BY TextsJoin, CatAssocIn, TextIn

\* What is moved: o, c and p are parentheses and a space, w a word.
LEMMA Regroup ==
  ASSUME NEW o \in Texts, NEW c \in Texts, NEW p \in Texts, NEW w \in Texts, NEW u \in Texts, NEW v \in Texts
  PROVE  Cat(o, Cat(Cat(u, Cat(Cat(c, Cat(p, Cat(w, Cat(p, o)))), v)), c)) =
           Cat(Cat(Cat(o, Cat(u, c)), Cat(p, w)), Cat(p, Cat(o, Cat(v, c))))
<1> DEFINE z1 == Cat(p, o)
           z2 == Cat(w, z1)
           z3 == Cat(p, z2)
           z4 == Cat(c, z3)
           y0 == Cat(o, v)
           y1 == Cat(p, y0)
           y2 == Cat(w, y1)
           y3 == Cat(p, y2)
           y4 == Cat(c, y3)
           x0 == Cat(o, Cat(v, c))
           x1 == Cat(p, x0)
           x2 == Cat(w, x1)
           x3 == Cat(p, x2)
           x4 == Cat(c, x3)
<1>1. z1 \in Texts /\ y0 \in Texts /\ Cat(v, c) \in Texts /\ Cat(u, c) \in Texts /\ Cat(p, w) \in Texts
  BY TextIn
<1>2. z2 \in Texts /\ y1 \in Texts /\ x0 \in Texts /\ Cat(o, Cat(u, c)) \in Texts
  BY <1>1, TextIn
<1>3. z3 \in Texts /\ y2 \in Texts /\ x1 \in Texts
  BY <1>2, TextIn
<1>4. z4 \in Texts /\ y3 \in Texts /\ x2 \in Texts
  BY <1>3, TextIn
<1>5. y4 \in Texts /\ x3 \in Texts
  BY <1>4, TextIn
<1>6. x4 \in Texts
  BY <1>5, TextIn
<1>7. Cat(z4, v) = y4
  <2>1. Cat(z1, v) = y1
    BY TextIn3
  <2>2. Cat(z2, v) = Cat(w, Cat(z1, v))
    BY <1>1, TextIn3
  <2>3. Cat(z3, v) = Cat(p, Cat(z2, v))
    BY <1>2, TextIn3
  <2>4. Cat(z4, v) = Cat(c, Cat(z3, v))
    BY <1>3, TextIn3
  <2> QED BY <2>1, <2>2, <2>3, <2>4
<1>8. Cat(y4, c) = x4
  <2>1. Cat(y0, c) = x0
    BY TextIn3
  <2>2. Cat(y1, c) = Cat(p, Cat(y0, c))
    BY <1>1, TextIn3
  <2>3. Cat(y2, c) = Cat(w, Cat(y1, c))
    BY <1>2, TextIn3
  <2>4. Cat(y3, c) = Cat(p, Cat(y2, c))
    BY <1>3, TextIn3
  <2>5. Cat(y4, c) = Cat(c, Cat(y3, c))
    BY <1>4, TextIn3
  <2> QED BY <2>1, <2>2, <2>3, <2>4, <2>5
<1>9. Cat(Cat(Cat(o, Cat(u, c)), Cat(p, w)), x1) = Cat(o, Cat(u, x4))
  <2>1. Cat(Cat(Cat(o, Cat(u, c)), Cat(p, w)), x1) = Cat(Cat(o, Cat(u, c)), Cat(Cat(p, w), x1))
    BY <1>1, <1>2, <1>3, TextIn3
  <2>2. Cat(Cat(p, w), x1) = x3
    BY <1>3, TextIn3
  <2>3. Cat(Cat(o, Cat(u, c)), x3) = Cat(o, Cat(Cat(u, c), x3))
    BY <1>1, <1>5, TextIn3
  <2>4. Cat(Cat(u, c), x3) = Cat(u, x4)
    BY <1>5, TextIn3
  <2> QED BY <2>1, <2>2, <2>3, <2>4
<1>10. Cat(Cat(u, y4), c) = Cat(u, x4)
  <2>1. Cat(Cat(u, y4), c) = Cat(u, Cat(y4, c))
    BY <1>5, TextIn3
  <2> QED BY <1>8, <2>1
<1> QED BY <1>7, <1>9, <1>10

LEMMA EnclosedWrap ==
  ASSUME NEW x \in Texts
  PROVE  <<"(", "(">> \o x \o <<")", ")">> = Wrap(Wrap(x))
<1> DEFINE o == <<"(">>
           c == <<")">>
<1>1. o \in Texts /\ c \in Texts /\ Cat(o, o) = <<"(", "(">> /\ Cat(c, c) = <<")", ")">>
  BY Special, Tuples DEF Texts
<1>2. /\ <<"(", "(">> \o x \o <<")", ")">> = Cat(Cat(Cat(o, o), x), Cat(c, c))
      /\ Wrap(Wrap(x)) = Cat(o, Cat(Cat(o, Cat(x, c)), c))
  <2>1. <<"(", "(">> \o x \o <<")", ")">> = Cat(Cat(<<"(", "(">>, x), <<")", ")">>)
    BY DEF Cat
  <2> QED BY <1>1, <2>1 DEF Wrap
<1> HIDE DEF o, c
<1>3. Cat(o, x) \in Texts /\ Cat(x, c) \in Texts /\ Cat(c, c) \in Texts /\ Cat(o, o) \in Texts
  BY <1>1, TextIn
<1>4. Cat(Cat(Cat(o, o), x), Cat(c, c)) = Cat(Cat(o, Cat(o, x)), Cat(c, c))
  BY <1>1, TextIn3
<1>5. Cat(Cat(o, Cat(o, x)), Cat(c, c)) = Cat(o, Cat(Cat(o, x), Cat(c, c)))
  BY <1>1, <1>3, TextIn3
<1>6. Cat(Cat(o, x), Cat(c, c)) = Cat(Cat(Cat(o, x), c), c)
  BY <1>1, <1>3, TextIn3
<1>7. Cat(Cat(o, x), c) = Cat(o, Cat(x, c))
  BY <1>1, TextIn3
<1> QED BY <1>2, <1>4, <1>5, <1>6, <1>7

Grow(parts, x) == Append(parts, x)

LEMMA JoinGrow ==
  ASSUME NEW Q, Joining(Q), NEW parts \in Seq(Q), NEW sep \in Q, NEW x \in Q
  PROVE  Join(Grow(parts, x), sep) = IF parts = <<>> THEN x ELSE Cat(Join(parts, sep), Cat(sep, x))
  BY JoinAppend DEF Grow

LEMMA JoinedOne ==
  ASSUME NEW u \in Texts, NEW sep \in Texts
  PROVE  Join(<<u>>, sep) = u
<1> DEFINE none == <<>>
           one == <<u>>
<1>1. one = Grow(none, u) /\ none \in Seq(Texts) /\ none = <<>>
  BY Tuples DEF Grow
<1> HIDE DEF none, one
<1>2. Join(one, sep) = u
  BY <1>1, TextsJoin, JoinGrow
<1> QED BY <1>2 DEF one

LEMMA JoinedTwo ==
  ASSUME NEW u \in Texts, NEW v \in Texts, NEW sep \in Texts
  PROVE  Join(<<u, v>>, sep) = Cat(u, Cat(sep, v))
<1> DEFINE one == <<u>>
           two == <<u, v>>
<1>1. two = Grow(one, v) /\ one \in Seq(Texts) /\ one # <<>>
  BY Tuples DEF Grow
<1>2. Join(one, sep) = u
  BY JoinedOne
<1> HIDE DEF one, two
<1>3. Join(two, sep) = Cat(Join(one, sep), Cat(sep, v))
  BY <1>1, TextsJoin, JoinGrow
<1> QED BY <1>2, <1>3 DEF two

LEMMA TupleCat ==
  ASSUME NEW S, NEW x \in S, NEW t \in Seq(S), NEW b \in Seq(S), Len(b) = Len(t) + 1,
         b[1] = x, \A i \in 1..Len(t) : b[i + 1] = t[i]
  PROVE  Cat(<<x>>, t) = b
<1> DEFINE o == <<x>>
           a == o \o t
<1>1. o \in Seq(S) /\ Len(o) = 1 /\ o[1] = x
  OBVIOUS
<1> HIDE DEF o
<1> DEFINE n == Len(t)
<1>0. n \in Nat
  OBVIOUS
<1>2. a \in Seq(S) /\ Len(a) = 1 + n /\ \A i \in 1..Len(a) : a[i] = IF i <= 1 THEN o[i] ELSE t[i - 1]
  <2>1. a \in Seq(S)
    BY <1>1
  <2>2. Len(a) = Len(o) + Len(t)
    BY <1>1, ConcatProperties
  <2>3. \A i \in 1..Len(o) + Len(t) : a[i] = IF i <= Len(o) THEN o[i] ELSE t[i - Len(o)]
    BY <1>1, ConcatProperties
  <2> QED BY <1>1, <2>1, <2>2, <2>3
<1> HIDE DEF a
<1>3. ASSUME NEW i \in 1..Len(a) PROVE a[i] = b[i]
  <2>1. CASE i = 1
    BY <1>1, <1>2, <2>1
  <2>2. CASE i # 1
    <3>1. i - 1 \in 1..n /\ (i - 1) + 1 = i
      BY <1>0, <1>2, <2>2
    <3> QED BY <1>2, <2>2, <3>1
  <2> QED BY <2>1, <2>2
<1>4. a = b
  BY <1>2, <1>3, SeqEqual
<1> QED BY <1>4 DEF a, o, Cat

Five(v, w, x, y, z) == <<v, w, x, y, z>>

LEMMA TupleOfFive ==
  ASSUME NEW S, NEW v \in S, NEW w \in S, NEW x \in S, NEW y \in S, NEW z \in S
  PROVE  Five(v, w, x, y, z) \in Seq(S) /\ Cat(<<v>>, Cat(<<w>>, Cat(<<x>>, Cat(<<y>>, <<z>>)))) = Five(v, w, x, y, z)
<1> DEFINE a == <<z>>
           b == <<y, z>>
           c == <<x, y, z>>
           d == <<w, x, y, z>>
           e == <<v, w, x, y, z>>
<1>1. a \in Seq(S) /\ b \in Seq(S) /\ c \in Seq(S) /\ d \in Seq(S) /\ e \in Seq(S)
  OBVIOUS
<1>2. Len(a) = 1 /\ Len(b) = 2 /\ Len(c) = 3 /\ Len(d) = 4 /\ Len(e) = 5
  OBVIOUS
<1>3. b[1] = y /\ \A i \in 1..Len(a) : b[i + 1] = a[i]
  OBVIOUS
<1>4. c[1] = x /\ \A i \in 1..Len(b) : c[i + 1] = b[i]
  OBVIOUS
<1>5. d[1] = w /\ \A i \in 1..Len(c) : d[i + 1] = c[i]
  OBVIOUS
<1>6. e[1] = v /\ \A i \in 1..Len(d) : e[i + 1] = d[i]
  OBVIOUS
<1>12. Len(b) = Len(a) + 1 /\ Len(c) = Len(b) + 1 /\ Len(d) = Len(c) + 1 /\ Len(e) = Len(d) + 1
  BY <1>2
<1> HIDE DEF a, b, c, d, e
<1>7. Cat(<<y>>, a) = b
  BY <1>1, <1>12, <1>3, TupleCat
<1>8. Cat(<<x>>, b) = c
  BY <1>1, <1>12, <1>4, TupleCat
<1>9. Cat(<<w>>, c) = d
  BY <1>1, <1>12, <1>5, TupleCat
<1>10. Cat(<<v>>, d) = e
  BY <1>1, <1>12, <1>6, TupleCat
<1>11. e \in Seq(S) /\ Cat(<<v>>, Cat(<<w>>, Cat(<<x>>, Cat(<<y>>, a)))) = e
  BY <1>1, <1>7, <1>8, <1>9, <1>10
<1> QED BY <1>11 DEF a, e, Five
\* What stands between two filters that are joined by w.
Between(w) == <<")", " ", w, " ", "(">>

LEMMA BetweenIs ==
  ASSUME NEW w \in {"and", "or"}
  PROVE  /\ Between(w) \in Texts /\ <<"(">> \in Texts /\ <<")">> \in Texts /\ <<" ">> \in Texts /\ <<w>> \in Texts
         /\ Between(w) = Cat(<<")">>, Cat(<<" ">>, Cat(<<w>>, Cat(<<" ">>, <<"(">>))))
<1>1. w \in Letter /\ "(" \in Letter /\ ")" \in Letter /\ " " \in Letter
  BY Special
<1>2. <<"(">> \in Texts /\ <<")">> \in Texts /\ <<" ">> \in Texts /\ <<w>> \in Texts
  BY <1>1, Tuples DEF Texts
<1> DEFINE a == ")"
           b == " "
           c == "("
<1>3. a \in Letter /\ b \in Letter /\ c \in Letter /\ Between(w) = Five(a, b, w, b, c)
  BY <1>1 DEF Between, Five
<1> HIDE DEF a, b, c
<1>4. Five(a, b, w, b, c) \in Seq(Letter) /\ Cat(<<a>>, Cat(<<b>>, Cat(<<w>>, Cat(<<b>>, <<c>>)))) = Five(a, b, w, b, c)
  <2>1. \A x1, x2, x3, x4, x5 \in Letter :
          /\ Five(x1, x2, x3, x4, x5) \in Seq(Letter)
          /\ Cat(<<x1>>, Cat(<<x2>>, Cat(<<x3>>, Cat(<<x4>>, <<x5>>)))) = Five(x1, x2, x3, x4, x5)
    BY TupleOfFive
  <2>2. a \in Letter /\ b \in Letter /\ w \in Letter /\ c \in Letter
    BY <1>1, <1>3
  <2>3. Five(a, b, w, b, c) \in Seq(Letter)
    BY <2>1, <2>2
  <2>4. Cat(<<a>>, Cat(<<b>>, Cat(<<w>>, Cat(<<b>>, <<c>>)))) = Five(a, b, w, b, c)
    BY <2>1, <2>2
  <2> QED BY <2>3, <2>4
<1>5. Between(w) \in Texts /\ Between(w) = Cat(<<a>>, Cat(<<b>>, Cat(<<w>>, Cat(<<b>>, <<c>>))))
  BY <1>3, <1>4 DEF Texts
<1> QED BY <1>2, <1>5 DEF a, b, c

LEMMA EnclosedOne ==
  ASSUME NEW u \in Texts, NEW w \in {"and", "or"}
  PROVE  Enclosed(<<u>>, w) = Wrap(Wrap(u))
<1>1. Join(<<u>>, Between(w)) = u
  BY BetweenIs, JoinedOne
<1>2. Enclosed(<<u>>, w) = <<"(", "(">> \o u \o <<")", ")">>
  BY <1>1 DEF Enclosed, Between
<1> QED BY <1>2, EnclosedWrap

LEMMA EnclosedTwo ==
  ASSUME NEW u \in Texts, NEW v \in Texts, NEW w \in {"and", "or"}
  PROVE  Enclosed(<<u, v>>, w) = Wrap(Spaced(Spaced(Wrap(u), <<w>>), Wrap(v)))
<1> DEFINE sep == Between(w)
           x == Cat(u, Cat(sep, v))
           o == <<"(">>
           c == <<")">>
           p == <<" ">>
           m == <<w>>
<1>1. Join(<<u, v>>, sep) = x
  <2>1. sep \in Texts
    BY BetweenIs
  <2> HIDE DEF sep
  <2> QED BY <2>1, JoinedTwo
<1>2. /\ sep = Cat(c, Cat(p, Cat(m, Cat(p, o))))
      /\ sep \in Texts /\ o \in Texts /\ c \in Texts /\ p \in Texts /\ m \in Texts
  BY BetweenIs
<1>3. Wrap(x) = Cat(o, Cat(x, c)) /\ Wrap(u) = Cat(o, Cat(u, c)) /\ Wrap(v) = Cat(o, Cat(v, c))
  BY DEF Wrap
<1>4. Spaced(Spaced(Wrap(u), <<w>>), Wrap(v)) = Cat(Cat(Wrap(u), Cat(p, m)), Cat(p, Wrap(v)))
  BY DEF Spaced
<1>5. Enclosed(<<u, v>>, w) = <<"(", "(">> \o Join(<<u, v>>, sep) \o <<")", ")">>
  BY DEF Enclosed, Between
<1> HIDE DEF sep, o, c, p, m
<1>6. x \in Texts
  <2>1. Cat(sep, v) \in Texts
    BY <1>2, TextIn
  <2> QED BY <2>1, TextIn
<1>7. Wrap(x) = Spaced(Spaced(Wrap(u), <<w>>), Wrap(v))
  BY <1>2, <1>3, <1>4, Regroup
<1> HIDE DEF x
<1>8. Enclosed(<<u, v>>, w) = Wrap(Wrap(x))
  BY <1>1, <1>5, <1>6, EnclosedWrap
<1> QED BY <1>7, <1>8

\* One filter in its parentheses.
LEMMA JoinOne ==
  ASSUME NEW u, NEW c, Stands(u, c), NEW w \in {"and", "or"}
  PROVE  Stands(Enclosed(<<u>>, w), AllOf(<<c>>))
<1>1. PICK ts : Says(u, ts) /\ Item(Enclose(ts), c)
  BY DEF Stands
<1> DEFINE e == Enclose(ts)
           d == Group("and", <<c>>)
<1>2. Says(Wrap(u), e) /\ u \in Texts
  BY <1>1, SaysWrap, StandsText
<1>3. Runs(e, <<>>, <<c>>)
  <2>1. Runs(Cat(<<>>, e), <<>>, <<c>>)
    BY <1>1, RunsEmpty, RunsItem
  <2>2. e \in Series
    BY <1>2 DEF Says
  <2> QED BY <2>1, <2>2, SeriesIn
<1>4. d = Or(CloseAnd(<<>>, <<c>>)) /\ d.kind \notin Outcomes
  BY DEF Or, CloseAnd, Group, Outcomes
<1> HIDE DEF e, d
<1>5. Stands(Wrap(Wrap(u)), Group("and", <<d>>))
  BY <1>2, <1>3, <1>4, StandsWrapped
<1>6. AllOf(<<c>>) = Group("and", <<d>>)
  BY DEF AllOf, d
<1> QED BY <1>2, <1>5, <1>6, EnclosedOne

\* Two filters that are joined by a word, each in its parentheses.
LEMMA JoinTwo ==
  ASSUME NEW u, NEW c, Stands(u, c), NEW v, NEW d, Stands(v, d)
  PROVE  /\ Stands(Enclosed(<<u, v>>, "and"), AllOf(<<c, d>>))
         /\ Parse(Enclosed(<<u, v>>, "or")) = AnyOf(<<c, d>>)
<1>1. PICK ts : Says(u, ts) /\ Item(Enclose(ts), c)
  BY DEF Stands
<1>2. PICK us : Says(v, us) /\ Item(Enclose(us), d)
  BY DEF Stands
<1> DEFINE e == Enclose(ts)
           f == Enclose(us)
           t(w) == Cat(Cat(e, <<Mark(w)>>), f)
           x(w) == Spaced(Spaced(Wrap(u), <<w>>), Wrap(v))
           one(y) == Group("and", <<y>>)
           all == Group("and", <<c, d>>)
           any == Group("or", <<one(c), one(d)>>)
<1>3. Says(Wrap(u), e) /\ u \in Texts /\ Says(Wrap(v), f) /\ v \in Texts
  BY <1>1, <1>2, SaysWrap, StandsText
<1>4. \A w \in {"and", "or"} : Says(x(w), t(w))
  <2>1. SUFFICES ASSUME NEW w \in {"and", "or"} PROVE Says(x(w), t(w))
    OBVIOUS
  <2>2. Says(<<w>>, <<Mark(w)>>)
    BY SaysMark
  <2>3. Says(Spaced(Wrap(u), <<w>>), Cat(e, <<Mark(w)>>))
    BY <1>3, <2>2, SaysSpaced
  <2> QED BY <1>3, <2>3, SaysSpaced
<1>5. Runs(e, <<>>, <<c>>)
  <2>1. Runs(Cat(<<>>, e), <<>>, <<c>>)
    BY <1>1, RunsEmpty, RunsItem
  <2>2. e \in Series
    BY <1>3 DEF Says
  <2> QED BY <2>1, <2>2, SeriesIn
<1>6. Runs(t("and"), <<>>, <<c, d>>)
  <2>1. Runs(t("and"), <<>>, Append(<<c>>, d))
    BY <1>2, <1>5, RunsAnd
  <2>2. Append(<<c>>, d) = <<c, d>>
    <3> DEFINE S == {c, d}
    <3>1. c \in S /\ d \in S
      OBVIOUS
    <3> HIDE DEF S
    <3> QED BY <3>1, Tuples
  <2> QED BY <2>1, <2>2
<1>7. Runs(t("or"), <<one(c)>>, <<d>>)
  <2>1. Runs(Cat(e, <<Mark("or")>>), Append(<<>>, one(c)), <<>>)
    <3> DEFINE S == {one(c)}
    <3>1. <<>> \in Seq(S) /\ one(c) \in S
      OBVIOUS
    <3> HIDE DEF S
    <3> QED BY <1>5, <3>1, RunsOr
  <2>2. Runs(Cat(e, <<Mark("or")>>), <<one(c)>>, <<>>)
    BY <2>1
  <2> QED BY <1>2, <2>2, RunsItem
<1>8. all = Or(CloseAnd(<<>>, <<c, d>>)) /\ all.kind \notin Outcomes
  BY DEF Or, CloseAnd, Group, Outcomes
<1>9. any = Or(CloseAnd(<<one(c)>>, <<d>>)) /\ any.kind \notin Outcomes
  BY DEF Or, CloseAnd, Group, Outcomes
<1>10. AllOf(<<c, d>>) = Group("and", <<all>>)
  BY DEF AllOf
<1>11. AnyOf(<<c, d>>) = Group("and", <<any>>)
  <2>1. [i \in DOMAIN <<c, d>> |-> Group("and", << <<c, d>>[i] >>)] = <<one(c), one(d)>>
    OBVIOUS
  <2>2. Or(<<one(c), one(d)>>) = any
    BY DEF Or
  <2> QED BY <2>1, <2>2 DEF AnyOf
<1> HIDE DEF e, f, t, x, one, all, any
<1>12. Stands(Wrap(x("and")), AllOf(<<c, d>>))
  BY <1>4, <1>6, <1>8, <1>10, StandsWrapped
<1>13. Parse(Wrap(x("or"))) = AnyOf(<<c, d>>)
  BY <1>4, <1>7, <1>9, <1>11, StandsWrapped
<1>14. \A w \in {"and", "or"} : Enclosed(<<u, v>>, w) = Wrap(x(w))
  BY <1>3, EnclosedTwo DEF x
<1> QED BY <1>12, <1>13, <1>14

LEMMA JoinedMeansAllHere == text \in Texts => JoinedMeansAll
<1> SUFFICES ASSUME text \in Texts, SelfContained(text), NEW g \in Companions, SelfContained(g)
             PROVE  Parse(Disjunction(<<Conjunction(<<g, text>>), Conjunction(<<text>>)>>)) =
                      AnyOf(<<AllOf(<<Parse(g), Parse(text)>>), AllOf(<<Parse(text)>>)>>)
  BY DEF JoinedMeansAll
<1>1. g \in Texts
  BY LanguageAssumption DEF Texts
<1>2. Stands(g, Parse(g)) /\ Stands(text, Parse(text))
  BY <1>1, ContainedStands
<1>3. Stands(Enclosed(<<g, text>>, "and"), AllOf(<<Parse(g), Parse(text)>>))
  BY <1>2, JoinTwo
<1>4. Stands(Enclosed(<<text>>, "and"), AllOf(<<Parse(text)>>))
  BY <1>2, JoinOne
<1> QED BY <1>3, <1>4, JoinTwo DEF Conjunction, Disjunction

\* Only letters are typed.
LEMMA TextTyped ==
  ASSUME text \in Texts, [Next]_vars
  PROVE  text' \in Texts
<1>1. ASSUME NEW u \in Texts, Type(u) PROVE text' \in Texts
  <2>1. <<" ">> \in Texts
    BY Special, Tuples DEF Texts
  <2>2. text \o <<" ">> \o u \in Texts
    <3>1. Cat(Cat(text, <<" ">>), u) \in Texts
      BY <2>1, TextIn3, TextIn
    <3> QED BY <3>1 DEF Cat
  <2> QED BY <1>1, <2>2 DEF Type
<1>2. \A w \in {"and", "or", "(", ")"} : <<w>> \in Texts
  <2>1. \A w \in {"and", "or", "(", ")"} : w \in Letter
    BY Special
  <2> QED BY <2>1, Tuples DEF Texts
<1>3. CASE vars' = vars
  BY <1>3 DEF vars
<1>4. ASSUME NEW c \in Conditions, TypeCondition(c) PROVE text' \in Texts
  <2>1. c.text \in Texts
    BY ConditionItem
  <2> QED BY <1>1, <1>4, <2>1 DEF TypeCondition
<1>5. CASE TypeAnd
  BY <1>1, <1>2, <1>5 DEF TypeAnd
<1>6. CASE TypeOr
  BY <1>1, <1>2, <1>6 DEF TypeOr
<1>7. CASE TypeOpen
  BY <1>1, <1>2, <1>7 DEF TypeOpen
<1>8. CASE TypeClose
  BY <1>1, <1>2, <1>8 DEF TypeClose
<1>9. ASSUME NEW c \in Scribbles, Scribble(c) PROVE text' \in Texts
  <2>1. c \in Letter
    BY LanguageAssumption
  <2> QED BY <1>9, <2>1, TextsAppend DEF Scribble
<1> QED BY <1>3, <1>4, <1>5, <1>6, <1>7, <1>8, <1>9 DEF Next

\* Texts that stand alone, accepted and without a ")" too many, are accepted when
\* buildPersonQuery joins them, and the joined text asks for all of them: with any
\* letters, conditions and companions, of any length and depth.
THEOREM JoinedMeansAllAlways == Spec => []JoinedMeansAll
<1>1. Init => text \in Texts
  BY DEF Init, Texts
<1>2. text \in Texts /\ [Next]_vars => (text \in Texts)'
  BY TextTyped
<1> QED BY <1>1, <1>2, JoinedMeansAllHere, PTL DEF Spec
-----------------------------------------------------------------------------
(* What is meant, one open parenthesis after the other. *)

LEMMA GrowParts ==
  ASSUME NEW S, NEW u \in Seq(S), NEW x \in S
  PROVE  /\ Grow(u, x) \in Seq(S) /\ Grow(u, x) # <<>> /\ Front(Grow(u, x)) = u /\ Last(Grow(u, x)) = x
         /\ Len(Grow(u, x)) = Len(u) + 1 /\ Grow(u, x)[Len(u) + 1] = x
         /\ Len(u) \in Nat /\ \A i \in 1..Len(u) : Grow(u, x)[i] = u[i]
<1> DEFINE v == Append(u, x)
           n == Len(u)
<1>1. n \in Nat /\ v \in Seq(S) /\ Len(v) = n + 1 /\ v[n + 1] = x /\ \A i \in 1..n : v[i] = u[i]
  BY AppendProperties
<1> HIDE DEF v
<1>2. v # <<>> /\ Last(v) = x
  BY <1>1 DEF Last
<1>3. Front(v) = u
  <2> DEFINE f == SubSeq(v, 1, n)
  <2>1. f \in Seq(S) /\ Len(f) = n
    BY <1>1
  <2>2. \A i \in 1..n : f[i] = v[i]
    BY <1>1, <2>1
  <2>3. (n + 1) - 1 = n
    BY <1>1
  <2>4. Front(v) = f
    BY <1>1, <2>3 DEF Front
  <2> HIDE DEF f
  <2>5. \A i \in 1..Len(f) : f[i] = u[i]
    BY <1>1, <2>1, <2>2
  <2>6. f = u
    BY <2>1, <2>5, SeqEqual
  <2> QED BY <2>4, <2>6
<1> QED BY <1>1, <1>2, <1>3 DEF v, Grow

LEMMA Ungrow ==
  ASSUME NEW S, NEW v \in Seq(S), v # <<>>
  PROVE  \E u \in Seq(S), x \in S : v = Grow(u, x)
<1>1. PICK u \in Seq(S), x \in S : v = Append(u, x)
  BY SequenceEmptyOrAppend
<1> QED BY <1>1 DEF Grow

\* The AND groups of an open parenthesis as the clauses that they become.
Ands(fs) == [i \in DOMAIN fs |-> Group("and", fs[i])]
AndGroups(C) == {Group("and", f) : f \in Seq(C)}

LEMMA AndsGrow ==
  ASSUME NEW C, NEW fs \in Seq(Seq(C)), NEW f \in Seq(C)
  PROVE  /\ Ands(fs) \in Seq(AndGroups(C)) /\ Group("and", f) \in AndGroups(C)
         /\ Ands(Grow(fs, f)) = Grow(Ands(fs), Group("and", f))
<1> DEFINE g == Grow(fs, f)
           n == Len(fs)
           S == AndGroups(C)
           a == Ands(fs)
           b == Ands(g)
           x == Group("and", f)
           d == Grow(a, x)
<1>1. /\ n \in Nat /\ DOMAIN fs = 1..n /\ \A i \in 1..n : fs[i] \in Seq(C)
      /\ g \in Seq(Seq(C)) /\ Len(g) = n + 1 /\ g[n + 1] = f /\ \A i \in 1..n : g[i] = fs[i]
  <2>1. DOMAIN fs = 1..n /\ \A i \in 1..n : fs[i] \in Seq(C)
    OBVIOUS
  <2> DEFINE Q == Seq(C)
  <2>2. fs \in Seq(Q) /\ f \in Q
    OBVIOUS
  <2> HIDE DEF Q
  <2>3. n \in Nat /\ g \in Seq(Q) /\ Len(g) = n + 1 /\ g[n + 1] = f /\ \A i \in 1..n : g[i] = fs[i]
    BY <2>2, GrowParts
  <2> QED BY <2>1, <2>3 DEF Q
<1> HIDE DEF g, n
<1>2. x \in S /\ \A i \in 1..n : Group("and", fs[i]) \in S
  BY <1>1 DEF AndGroups
<1> HIDE DEF S, x
<1>3. a \in Seq(S) /\ Len(a) = n /\ \A i \in 1..n : a[i] = Group("and", fs[i])
  <2>1. a = [i \in 1..n |-> Group("and", fs[i])]
    BY <1>1 DEF Ands
  <2> HIDE DEF a
  <2> QED BY <1>1, <1>2, <2>1
<1>4. b \in Seq(S) /\ Len(b) = n + 1 /\ b[n + 1] = x /\ \A i \in 1..n : b[i] = Group("and", fs[i])
  <2>1. DOMAIN g = 1..(n + 1) /\ n + 1 \in Nat
    BY <1>1
  <2>2. b = [i \in 1..(n + 1) |-> Group("and", g[i])]
    BY <2>1 DEF Ands
  <2>3. \A i \in 1..(n + 1) : Group("and", g[i]) = IF i = n + 1 THEN x ELSE Group("and", fs[i])
    BY <1>1 DEF x
  <2>6. \A i \in 1..(n + 1) : i \in 1..n \/ i = n + 1
    BY <1>1
  <2>4. \A i \in 1..(n + 1) : Group("and", g[i]) \in S
    BY <1>2, <2>3, <2>6
  <2> HIDE DEF b
  <2>5. b \in Seq(S) /\ Len(b) = n + 1 /\ \A i \in 1..(n + 1) : b[i] = Group("and", g[i])
    BY <2>1, <2>2, <2>4
  <2> QED BY <1>1, <2>3, <2>5
<1> HIDE DEF a, b
<1>5. d \in Seq(S) /\ Len(d) = n + 1 /\ d[n + 1] = x /\ \A i \in 1..n : d[i] = a[i]
  <2>1. d \in Seq(S) /\ Len(d) = Len(a) + 1 /\ d[Len(a) + 1] = x /\ \A i \in 1..Len(a) : d[i] = a[i]
    BY <1>2, <1>3, GrowParts
  <2> QED BY <1>3, <2>1
<1> HIDE DEF d
<1>6. \A i \in 1..Len(b) : b[i] = d[i]
  <2>1. \A i \in 1..(n + 1) : i \in 1..n \/ i = n + 1
    BY <1>1
  <2> QED BY <1>3, <1>4, <1>5, <2>1
<1>7. b = d
  BY <1>4, <1>5, <1>6, SeqEqual
<1> QED BY <1>2, <1>3, <1>7 DEF a, b, d, g, S, x

LEMMA AndsEmpty == Ands(<<>>) = <<>>
<1>1. Ands(<<>>) = [i \in {} |-> Group("and", <<>>[i])]
  BY DEF Ands
<1> QED BY <1>1

\* Tokens w that are read as the AND groups st of an open parenthesis, and tokens
\* after which an operand makes them so.
Complete(w, st) == st # <<>> /\ Last(st) # <<>> /\ Runs(w, Ands(Front(st)), Last(st))
Pending(w, st) == w \in Series /\ \A i, c : Item(i, c) => Complete(Cat(w, i), With(st, c))

LEMMA CompleteGrow ==
  ASSUME NEW w, NEW S, NEW fs \in Seq(S), NEW f \in S
  PROVE  Complete(w, Grow(fs, f)) <=> f # <<>> /\ Runs(w, Ands(fs), f)
<1> DEFINE g == Grow(fs, f)
<1>1. g # <<>> /\ Front(g) = fs /\ Last(g) = f
  BY GrowParts
<1> HIDE DEF g
<1>2. Complete(w, g) <=> f # <<>> /\ Runs(w, Ands(fs), f)
  BY <1>1 DEF Complete
<1> QED BY <1>2 DEF g

LEMMA WithGrow ==
  ASSUME NEW S, NEW fs \in Seq(S), NEW f \in S, NEW c
  PROVE  With(Grow(fs, f), c) = Grow(fs, Append(f, c))
<1> DEFINE g == Grow(fs, f)
<1>1. g # <<>> /\ Front(g) = fs /\ Last(g) = f
  BY GrowParts
<1> HIDE DEF g
<1>2. With(g, c) = Grow(fs, Append(f, c))
  BY <1>1 DEF With, Grow
<1> QED BY <1>2 DEF g

\* Nothing yet: the operand is the whole.
LEMMA PendingEmpty == Pending(<<>>, <<>>)
<1>1. <<>> \in Series
  BY DEF Series
<1>2. ASSUME NEW i, NEW c, Item(i, c) PROVE Complete(Cat(<<>>, i), With(<<>>, c))
  <2> DEFINE f == <<c>>
             S == {f}
             e == <<>>
  <2>1. Runs(Cat(<<>>, i), <<>>, f)
    BY <1>2, RunsEmpty, RunsItem
  <2>2. With(<<>>, c) = Grow(e, f)
    BY DEF With, Grow
  <2>3. e \in Seq(S) /\ f \in S /\ f # <<>> /\ Ands(e) = <<>>
    BY AndsEmpty
  <2> HIDE DEF f, S, e
  <2>4. Complete(Cat(<<>>, i), Grow(e, f))
    BY <2>1, <2>3, CompleteGrow
  <2> QED BY <2>2, <2>4
<1> QED BY <1>1, <1>2 DEF Pending

\* After AND the operand goes to the last group.
LEMMA PendingAnd ==
  ASSUME NEW w, NEW C, NEW st \in Seq(Seq(C)), Complete(w, st)
  PROVE  Pending(Cat(w, <<Mark("and")>>), st)
<1>1. st # <<>>
  BY DEF Complete
<1>2. PICK fs \in Seq(Seq(C)), f \in Seq(C) : st = Grow(fs, f)
  BY <1>1, Ungrow
<1>3. f # <<>> /\ Runs(w, Ands(fs), f)
  BY <1>2, CompleteGrow
<1>4. Cat(w, <<Mark("and")>>) \in Series
  BY <1>3, MarkFacts, SeriesIn DEF Runs, Balanced
<1>5. ASSUME NEW i, NEW c, Item(i, c) PROVE Complete(Cat(Cat(w, <<Mark("and")>>), i), With(st, c))
  <2> DEFINE x == Cat(Cat(w, <<Mark("and")>>), i)
             g == Append(f, c)
             T == Seq(C \cup {c})
  <2>1. Runs(x, Ands(fs), g)
    BY <1>3, <1>5, RunsAnd
  <2>2. With(st, c) = Grow(fs, g)
    BY <1>2, WithGrow
  <2>3. fs \in Seq(T) /\ g \in T /\ g # <<>>
    <3>1. Seq(C) \subseteq T
      OBVIOUS
    <3> DEFINE U == C \cup {c}
    <3>2. f \in Seq(U) /\ c \in U
      OBVIOUS
    <3>3. g \in T /\ g # <<>>
      <4>1. g = Grow(f, c) /\ T = Seq(U)
        BY DEF Grow
      <4> HIDE DEF U, g, T
      <4> QED BY <3>2, <4>1, GrowParts
    <3> HIDE DEF T, g
    <3> QED BY <3>1, <3>3
  <2> HIDE DEF x, g, T
  <2>4. Complete(x, Grow(fs, g))
    BY <2>1, <2>3, CompleteGrow
  <2> QED BY <2>2, <2>4 DEF x
<1> QED BY <1>4, <1>5 DEF Pending

\* After OR it starts one.
LEMMA PendingOr ==
  ASSUME NEW w, NEW C, NEW st \in Seq(Seq(C)), Complete(w, st)
  PROVE  Pending(Cat(w, <<Mark("or")>>), Append(st, <<>>))
<1>1. st # <<>>
  BY DEF Complete
<1>2. PICK fs \in Seq(Seq(C)), f \in Seq(C) : st = Grow(fs, f)
  BY <1>1, Ungrow
<1>3. f # <<>> /\ Runs(w, Ands(fs), f)
  BY <1>2, CompleteGrow
<1> DEFINE x == Cat(w, <<Mark("or")>>)
           e == <<>>
<1>4. x \in Series
  BY <1>3, MarkFacts, SeriesIn DEF Runs, Balanced
<1>5. Runs(x, Ands(st), <<>>)
  <2>1. Ands(fs) \in Seq(AndGroups(C)) /\ Group("and", f) \in AndGroups(C) /\ Ands(st) = Grow(Ands(fs), Group("and", f))
    BY <1>2, AndsGrow
  <2> DEFINE S == AndGroups(C)
  <2> HIDE DEF S
  <2>2. Runs(x, Append(Ands(fs), Group("and", f)), <<>>)
    BY <1>3, <2>1, RunsOr DEF S
  <2> QED BY <2>1, <2>2 DEF Grow
<1>6. e \in Seq(C)
  OBVIOUS
<1>7. Append(st, <<>>) = Grow(st, e)
  BY DEF Grow
<1> HIDE DEF x, e
<1>8. ASSUME NEW i, NEW c, Item(i, c) PROVE Complete(Cat(x, i), With(Grow(st, e), c))
  <2> DEFINE f1 == <<c>>
             T == Seq(C \cup {c})
  <2>1. Runs(Cat(x, i), Ands(st), f1)
    BY <1>5, <1>8, RunsItem
  <2>2. With(Grow(st, e), c) = Grow(st, Append(e, c))
    BY <1>6, WithGrow
  <2>3. Append(e, c) = f1
    BY DEF e
  <2>4. st \in Seq(T) /\ f1 \in T /\ f1 # <<>>
    OBVIOUS
  <2> HIDE DEF f1, T
  <2>5. Complete(Cat(x, i), Grow(st, f1))
    BY <2>1, <2>4, CompleteGrow
  <2> QED BY <2>2, <2>3, <2>5
<1> QED BY <1>4, <1>7, <1>8 DEF Pending, x

\* What a parenthesis means when it closes.
LEMMA CompleteMeans ==
  ASSUME NEW w, NEW C, NEW st \in Seq(Seq(C)), Complete(w, st)
  PROVE  Balanced(w) /\ ParseTokens(w) = Meant(st) /\ Item(Enclose(w), Meant(st))
<1>1. st # <<>>
  BY DEF Complete
<1>2. PICK fs \in Seq(Seq(C)), f \in Seq(C) : st = Grow(fs, f)
  BY <1>1, Ungrow
<1>3. f # <<>> /\ Runs(w, Ands(fs), f)
  BY <1>2, CompleteGrow
<1>4. Ands(st) = Append(Ands(fs), Group("and", f))
  BY <1>2, AndsGrow DEF Grow
<1>5. ParseTokens(w) = Or(Ands(st))
  <2>1. ParseTokens(w) = Or(CloseAnd(Ands(fs), f))
    BY <1>3, RunsEnd
  <2>2. CloseAnd(Ands(fs), f) = Ands(st)
    BY <1>3, <1>4 DEF CloseAnd
  <2> QED BY <2>1, <2>2
<1>6. Meant(st) = Or(Ands(st))
  BY DEF Meant, Ands
<1>7. Or(Ands(st)).kind \notin Outcomes
  <2>1. CASE Len(Ands(st)) = 1
    <3>1. 1 \in DOMAIN st
      <4>1. Len(st) \in Nat /\ Len(st) # 0 /\ DOMAIN st = 1..Len(st)
        BY <1>1
      <4> QED BY <4>1
    <3>2. Ands(st)[1] = Group("and", st[1])
      BY <3>1 DEF Ands
    <3> QED BY <2>1, <3>2 DEF Or, Group, Outcomes
  <2>2. CASE Len(Ands(st)) # 1
    BY <2>2 DEF Or, Group, Outcomes
  <2> QED BY <2>1, <2>2
<1>8. Balanced(w)
  BY <1>3 DEF Runs
<1>9. Item(Enclose(w), ParseTokens(w))
  BY <1>5, <1>7, <1>8, EncloseItem
<1> QED BY <1>5, <1>6, <1>8, <1>9
-----------------------------------------------------------------------------
(* The tokens of a text with open parentheses. *)

Lines(ws, x) == Join(Grow(ws, x), <<Mark("(")>>)

LEMMA LinesParts ==
  ASSUME NEW ws \in Seq(Series), NEW x \in Series, NEW y \in Series
  PROVE  /\ Lines(ws, x) \in Series
         /\ Lines(ws, Cat(x, y)) = Cat(Lines(ws, x), y)
         /\ Lines(Grow(ws, x), y) = Cat(Lines(ws, x), Cat(<<Mark("(")>>, y))
         /\ ws = <<>> => Lines(ws, x) = x
<1> DEFINE o == <<Mark("(")>>
           g == Grow(ws, x)
<1>1. o \in Series
  BY MarkFacts
<1>2. g \in Seq(Series) /\ g # <<>>
  BY GrowParts
<1> HIDE DEF o, g
<1>3. Join(g, o) \in Series
  BY <1>1, <1>2, SeriesJoin, JoinAppend
<1>4. Join(Grow(ws, Cat(x, y)), o) = Cat(Join(Grow(ws, x), o), y)
  BY <1>1, SeriesJoin, JoinLast DEF Grow
<1>5. Join(Grow(g, y), o) = Cat(Join(g, o), Cat(o, y))
  BY <1>1, <1>2, SeriesJoin, JoinGrow
<1>6. ws = <<>> => Join(Grow(ws, x), o) = x
  BY <1>1, SeriesJoin, JoinGrow
<1> QED BY <1>3, <1>4, <1>5, <1>6 DEF Lines, o, g

LEMMA LinesOpen ==
  ASSUME NEW ws \in Seq(Series), NEW x \in Series
  PROVE  Lines(Grow(ws, x), <<>>) = Cat(Lines(ws, x), <<Mark("(")>>)
<1> DEFINE o == <<Mark("(")>>
           e == <<>>
<1>1. o \in Series /\ e \in Series
  BY MarkFacts, SeriesIn
<1>2. Cat(o, e) = o
  BY <1>1, SeriesIn
<1> HIDE DEF o, e
<1>3. Lines(Grow(ws, x), e) = Cat(Lines(ws, x), Cat(<<Mark("(")>>, e))
  BY <1>1, LinesParts
<1> QED BY <1>2, <1>3 DEF o, e

LEMMA LinesClose ==
  ASSUME NEW ws \in Seq(Series), NEW y \in Series, NEW x \in Series
  PROVE  Cat(Lines(Grow(ws, y), x), <<Mark(")")>>) = Lines(ws, Cat(y, Enclose(x)))
<1> DEFINE o == <<Mark("(")>>
           c == <<Mark(")")>>
           l == Lines(ws, y)
           e == Enclose(x)
<1>1. o \in Series /\ c \in Series /\ l \in Series /\ e \in Series
  BY MarkFacts, LinesParts, EncloseParts
<1>2. Lines(Grow(ws, y), x) = Cat(l, Cat(o, x))
  BY LinesParts
<1>3. Lines(ws, Cat(y, e)) = Cat(l, e)
  BY <1>1, LinesParts
<1>4. e = Cat(o, Cat(x, c))
  BY DEF Enclose
<1> HIDE DEF o, c, l, e
<1>5. Cat(o, x) \in Series /\ Cat(x, c) \in Series
  BY <1>1, SeriesIn
<1>6. Cat(Cat(l, Cat(o, x)), c) = Cat(l, Cat(Cat(o, x), c))
  BY <1>1, <1>5, SeriesJoin, CatAssocIn
<1>7. Cat(Cat(o, x), c) = Cat(o, Cat(x, c))
  BY <1>1, SeriesJoin, CatAssocIn
<1> QED BY <1>2, <1>3, <1>4, <1>6, <1>7 DEF c, e
-----------------------------------------------------------------------------
(* What has been typed. *)

\* st are the groups inside the innermost open parenthesis and w its tokens, sts
\* and ws those of the parentheses around it, and C has all clauses.
Written(C, sts, st, ws, w) ==
  /\ sts \in Seq(Seq(Seq(C))) /\ st \in Seq(Seq(C)) /\ ws \in Seq(Series) /\ w \in Series
  /\ Len(ws) = Len(sts) /\ \A j \in 1..Len(sts) : Pending(ws[j], sts[j])
  /\ stack = Grow(sts, st) /\ Says(text, Lines(ws, w))
  /\ operand => Pending(w, st)
  /\ ~operand => Complete(w, st)

WrittenInv == ~scribbled => \E C, sts, st, ws, w : Written(C, sts, st, ws, w)

LEMMA Wider ==
  ASSUME NEW S, NEW T, S \subseteq T
  PROVE  Seq(S) \subseteq Seq(T)
  OBVIOUS

LEMMA StacksWider ==
  ASSUME NEW C, NEW D, C \subseteq D
  PROVE  Seq(Seq(C)) \subseteq Seq(Seq(D)) /\ Seq(Seq(Seq(C))) \subseteq Seq(Seq(Seq(D)))
<1>1. Seq(C) \subseteq Seq(D)
  BY Wider
<1>2. Seq(Seq(C)) \subseteq Seq(Seq(D))
  BY <1>1, Wider
<1> QED BY <1>2, Wider

LEMMA WithType ==
  ASSUME NEW C, NEW c \in C, NEW st \in Seq(Seq(C))
  PROVE  With(st, c) \in Seq(Seq(C))
<1> DEFINE Q == Seq(C)
<1>1. <<c>> \in Q /\ << <<c>> >> \in Seq(Q) /\ st \in Seq(Q) /\ \A f \in Q : Append(f, c) \in Q
  OBVIOUS
<1>2. CASE st = <<>>
  BY <1>1, <1>2 DEF With
<1>3. CASE st # <<>>
  <2> HIDE DEF Q
  <2>1. PICK fs \in Seq(Q), f \in Q : st = Grow(fs, f)
    BY <1>1, <1>3, Ungrow
  <2>2. With(st, c) = Grow(fs, Append(f, c))
    BY <2>1, WithGrow
  <2>3. Append(f, c) \in Q
    BY <1>1, <2>1
  <2>4. Grow(fs, Append(f, c)) \in Seq(Q)
    BY <2>1, <2>3, GrowParts
  <2> QED BY <2>2, <2>4 DEF Q
<1> QED BY <1>2, <1>3

LEMMA TypeSays ==
  ASSUME NEW p, Says(text, p), NEW u, NEW r, Says(u, r), Type(u)
  PROVE  Says(text', Cat(p, r))
<1>1. Says(IF text = <<>> THEN u ELSE text \o <<" ">> \o u, Cat(p, r))
  BY SaysTyped
<1> QED BY <1>1 DEF Type

LEMMA WrittenParts ==
  ASSUME NEW C, NEW sts, NEW st, NEW ws, NEW w, Written(C, sts, st, ws, w)
  PROVE  /\ Front(stack) = sts /\ Last(stack) = st /\ Len(stack) = Len(sts) + 1 /\ Len(sts) \in Nat
         /\ stack \in Seq(Seq(Seq(C))) /\ stack[Len(sts) + 1] = st
<1> DEFINE Q == Seq(Seq(C))
<1>1. sts \in Seq(Q) /\ st \in Q /\ stack = Grow(sts, st)
  BY DEF Written
<1> HIDE DEF Q
<1>2. Front(stack) = sts /\ Last(stack) = st /\ Len(stack) = Len(sts) + 1 /\ Len(sts) \in Nat
      /\ stack \in Seq(Q) /\ stack[Len(sts) + 1] = st
  BY <1>1, GrowParts
<1> QED BY <1>2 DEF Q

LEMMA WrittenInit == Init => WrittenInv
<1> SUFFICES ASSUME Init PROVE \E C, sts, st, ws, w : Written(C, sts, st, ws, w)
  BY DEF WrittenInv
<1> DEFINE e == <<>>
<1>1. /\ e \in Seq(Seq(Seq({}))) /\ e \in Seq(Seq({})) /\ e \in Seq(Series) /\ e \in Series /\ Len(e) = 0
      /\ stack = Grow(e, e) /\ text = e /\ operand /\ e = <<>>
  <2>1. e \in Series
    BY DEF Series
  <2> QED BY <2>1 DEF Init, Grow
<1>2. Pending(e, e) /\ Says(e, e)
  BY PendingEmpty, SaysEmpty
<1> HIDE DEF e
<1>3. Lines(e, e) = e
  BY <1>1, LinesParts
<1>4. Written({}, e, e, e, e)
  BY <1>1, <1>2, <1>3 DEF Written
<1> QED BY <1>4

LEMMA WrittenCondition ==
  ASSUME NEW C, NEW sts, NEW st, NEW ws, NEW w, Written(C, sts, st, ws, w), NEW c \in Conditions, TypeCondition(c)
  PROVE  WrittenInv'
<1> DEFINE p == Tokenize(c.text).tokens
           D == C \cup {c.clause}
           x == Cat(w, p)
           s == With(st, c.clause)
<1>1. Says(c.text, p) /\ Item(p, c.clause) /\ p \in Series
  BY ConditionItem DEF Says
<1>2. operand /\ Type(c.text) /\ operand' = FALSE /\ stack' = Append(Front(stack), With(Last(stack), c.clause))
  BY DEF TypeCondition, Onto
<1>3. /\ sts \in Seq(Seq(Seq(C))) /\ st \in Seq(Seq(C)) /\ ws \in Seq(Series) /\ w \in Series
      /\ Len(ws) = Len(sts) /\ \A j \in 1..Len(sts) : Pending(ws[j], sts[j])
      /\ Says(text, Lines(ws, w)) /\ Pending(w, st)
  BY <1>2 DEF Written
<1>4. sts \in Seq(Seq(Seq(D))) /\ s \in Seq(Seq(D))
  <2>1. C \subseteq D /\ c.clause \in D
    OBVIOUS
  <2> HIDE DEF D
  <2>2. sts \in Seq(Seq(Seq(D))) /\ st \in Seq(Seq(D))
    BY <1>3, <2>1, StacksWider
  <2> QED BY <2>1, <2>2, WithType
<1>5. stack' = Grow(sts, s)
  BY <1>2, WrittenParts DEF Grow
<1> HIDE DEF p, D, x, s
<1>6. Complete(x, s)
  BY <1>1, <1>3 DEF Pending, x, s
<1>7. x \in Series /\ Lines(ws, x) = Cat(Lines(ws, w), p)
  BY <1>1, <1>3, SeriesIn, LinesParts DEF x
<1>8. Says(text', Lines(ws, x))
  BY <1>1, <1>2, <1>3, <1>7, TypeSays
<1>9. Written(D, sts, s, ws, x)'
  BY <1>2, <1>3, <1>4, <1>5, <1>6, <1>7, <1>8 DEF Written
<1> QED BY <1>9 DEF WrittenInv

LEMMA WrittenAnd ==
  ASSUME NEW C, NEW sts, NEW st, NEW ws, NEW w, Written(C, sts, st, ws, w), TypeAnd
  PROVE  WrittenInv'
<1> DEFINE p == <<Mark("and")>>
           u == <<"and">>
           x == Cat(w, p)
<1>1. Says(u, p) /\ p \in Series
  BY SaysMark, MarkFacts
<1>2. ~operand /\ Type(u) /\ operand' = TRUE /\ stack' = stack
  BY DEF TypeAnd
<1>3. /\ sts \in Seq(Seq(Seq(C))) /\ st \in Seq(Seq(C)) /\ ws \in Seq(Series) /\ w \in Series
      /\ Len(ws) = Len(sts) /\ \A j \in 1..Len(sts) : Pending(ws[j], sts[j])
      /\ Says(text, Lines(ws, w)) /\ Complete(w, st) /\ stack = Grow(sts, st)
  BY <1>2 DEF Written
<1>4. Pending(x, st)
  BY <1>3, PendingAnd
<1> HIDE DEF p, u, x
<1>5. x \in Series /\ Lines(ws, x) = Cat(Lines(ws, w), p)
  BY <1>1, <1>3, SeriesIn, LinesParts DEF x
<1>6. Says(text', Lines(ws, x))
  BY <1>1, <1>2, <1>3, <1>5, TypeSays
<1>7. Written(C, sts, st, ws, x)'
  BY <1>2, <1>3, <1>4, <1>5, <1>6 DEF Written
<1> QED BY <1>7 DEF WrittenInv

LEMMA WrittenOr ==
  ASSUME NEW C, NEW sts, NEW st, NEW ws, NEW w, Written(C, sts, st, ws, w), TypeOr
  PROVE  WrittenInv'
<1> DEFINE p == <<Mark("or")>>
           u == <<"or">>
           x == Cat(w, p)
           s == Append(st, <<>>)
<1>1. Says(u, p) /\ p \in Series
  BY SaysMark, MarkFacts
<1>2. ~operand /\ Type(u) /\ operand' = TRUE /\ stack' = Append(Front(stack), Append(Last(stack), <<>>))
  BY DEF TypeOr
<1>3. /\ sts \in Seq(Seq(Seq(C))) /\ st \in Seq(Seq(C)) /\ ws \in Seq(Series) /\ w \in Series
      /\ Len(ws) = Len(sts) /\ \A j \in 1..Len(sts) : Pending(ws[j], sts[j])
      /\ Says(text, Lines(ws, w)) /\ Complete(w, st)
  BY <1>2 DEF Written
<1>4. Pending(x, s)
  BY <1>3, PendingOr
<1>5. s \in Seq(Seq(C))
  <2> DEFINE Q == Seq(C)
             e == <<>>
  <2>1. e \in Q /\ st \in Seq(Q)
    BY <1>3
  <2> HIDE DEF Q, e
  <2>2. Append(st, e) \in Seq(Q)
    BY <2>1
  <2> QED BY <2>2 DEF Q, e
<1>6. stack' = Grow(sts, s)
  BY <1>2, WrittenParts DEF Grow
<1> HIDE DEF p, u, x, s
<1>7. x \in Series /\ Lines(ws, x) = Cat(Lines(ws, w), p)
  BY <1>1, <1>3, SeriesIn, LinesParts DEF x
<1>8. Says(text', Lines(ws, x))
  BY <1>1, <1>2, <1>3, <1>7, TypeSays
<1>9. Written(C, sts, s, ws, x)'
  BY <1>2, <1>3, <1>4, <1>5, <1>6, <1>7, <1>8 DEF Written
<1> QED BY <1>9 DEF WrittenInv

LEMMA WrittenOpen ==
  ASSUME NEW C, NEW sts, NEW st, NEW ws, NEW w, Written(C, sts, st, ws, w), TypeOpen
  PROVE  WrittenInv'
<1> DEFINE p == <<Mark("(")>>
           u == <<"(">>
           e == <<>>
           vs == Grow(ws, w)
           n == Len(sts)
           old == Grow(sts, st)
<1>1. Says(u, p) /\ p \in Series
  BY SaysMark, MarkFacts
<1>2. operand /\ Type(u) /\ operand' = operand /\ stack' = Grow(old, e)
  <2>1. stack = old
    BY DEF Written
  <2>2. stack' = Append(stack, <<>>)
    BY DEF TypeOpen
  <2> QED BY <2>1, <2>2 DEF TypeOpen, Grow
<1>3. /\ sts \in Seq(Seq(Seq(C))) /\ st \in Seq(Seq(C)) /\ ws \in Seq(Series) /\ w \in Series
      /\ Len(ws) = n /\ \A j \in 1..n : Pending(ws[j], sts[j])
      /\ Says(text, Lines(ws, w)) /\ Pending(w, st) /\ stack = old
  BY <1>2 DEF Written
<1>4. Pending(e, e) /\ e \in Seq(Seq(C)) /\ e \in Series
  BY PendingEmpty DEF Series
<1>5. old \in Seq(Seq(Seq(C))) /\ n \in Nat /\ Len(old) = n + 1 /\ old[n + 1] = st
  BY <1>3, WrittenParts
<1>6. Lines(vs, e) = Cat(Lines(ws, w), p)
  BY <1>3, LinesOpen
<1>7. \A j \in 1..n : old[j] = sts[j]
  <2> DEFINE Q == Seq(Seq(C))
  <2>1. sts \in Seq(Q) /\ st \in Q
    BY <1>3
  <2> HIDE DEF Q
  <2>2. \A j \in 1..n : Grow(sts, st)[j] = sts[j]
    BY <2>1, GrowParts
  <2> QED BY <1>3, <2>2
<1>8. vs \in Seq(Series) /\ Len(vs) = n + 1 /\ vs[n + 1] = w /\ \A j \in 1..n : vs[j] = ws[j]
  <2>1. /\ vs \in Seq(Series) /\ Len(vs) = Len(ws) + 1 /\ vs[Len(ws) + 1] = w
        /\ \A j \in 1..Len(ws) : vs[j] = ws[j]
    BY <1>3, GrowParts
  <2> QED BY <1>3, <2>1
<1> HIDE DEF p, u, e, vs, n, old
<1>9. \A j \in 1..Len(old) : Pending(vs[j], old[j])
  <2>1. \A j \in 1..(n + 1) : j \in 1..n \/ j = n + 1
    BY <1>5
  <2> QED BY <1>3, <1>5, <1>7, <1>8, <2>1
<1>10. Says(text', Lines(vs, e))
  BY <1>1, <1>2, <1>3, <1>6, TypeSays
<1>11. Len(vs) = Len(old)
  BY <1>5, <1>8
<1>12. Written(C, old, e, vs, e)'
  BY <1>2, <1>4, <1>5, <1>8, <1>9, <1>10, <1>11 DEF Written
<1> QED BY <1>12 DEF WrittenInv

LEMMA WrittenClose ==
  ASSUME NEW C, NEW sts, NEW st, NEW ws, NEW w, Written(C, sts, st, ws, w), TypeClose
  PROVE  WrittenInv'
<1> DEFINE p == <<Mark(")")>>
           u == <<")">>
           m == Meant(st)
           D == C \cup {m}
           n == Len(sts)
<1>1. Says(u, p) /\ p \in Series
  BY SaysMark, MarkFacts
<1>2. ~operand /\ Len(stack) > 1 /\ Type(u) /\ operand' = operand /\ stack' = Onto(Front(stack), Meant(Last(stack)))
  BY DEF TypeClose
<1>3. /\ sts \in Seq(Seq(Seq(C))) /\ st \in Seq(Seq(C)) /\ ws \in Seq(Series) /\ w \in Series
      /\ Len(ws) = n /\ \A j \in 1..n : Pending(ws[j], sts[j])
      /\ Says(text, Lines(ws, w)) /\ Complete(w, st)
  BY <1>2 DEF Written
<1>4. Item(Enclose(w), m) /\ Enclose(w) \in Series
  BY <1>3, CompleteMeans, EncloseParts
<1>5. n \in Nat /\ n # 0 /\ Front(stack) = sts /\ Last(stack) = st
  <2>1. Len(stack) = n + 1 /\ n \in Nat
    BY WrittenParts
  <2>2. n # 0
    BY <1>2, <2>1
  <2> QED BY <2>1, <2>2, WrittenParts
<1>6. C \subseteq D /\ m \in D
  OBVIOUS
<1> HIDE DEF p, u, m, D
<1>7. sts \in Seq(Seq(Seq(D)))
  BY <1>3, <1>6, StacksWider
<1>8. PICK ups \in Seq(Seq(Seq(D))), up \in Seq(Seq(D)) : sts = Grow(ups, up)
  <2> DEFINE Q == Seq(Seq(D))
  <2>1. sts \in Seq(Q) /\ sts # <<>>
    BY <1>5, <1>7
  <2> HIDE DEF Q
  <2>2. \E ups \in Seq(Q), up \in Q : sts = Grow(ups, up)
    BY <2>1, Ungrow
  <2> QED BY <2>2 DEF Q
<1>9. PICK vs \in Seq(Series), v \in Series : ws = Grow(vs, v)
  <2>1. ws # <<>>
    BY <1>3, <1>5
  <2> QED BY <1>3, <2>1, Ungrow
<1> DEFINE k == Len(ups)
           s == With(up, m)
           x == Cat(v, Enclose(w))
<1>10. /\ k \in Nat /\ n = k + 1 /\ sts[n] = up /\ \A j \in 1..k : sts[j] = ups[j]
       /\ Front(sts) = ups /\ Last(sts) = up
  <2> DEFINE Q == Seq(Seq(D))
  <2>1. ups \in Seq(Q) /\ up \in Q
    BY <1>8
  <2> HIDE DEF Q
  <2>2. /\ k \in Nat /\ Len(Grow(ups, up)) = k + 1 /\ Grow(ups, up)[k + 1] = up
        /\ \A j \in 1..k : Grow(ups, up)[j] = ups[j]
        /\ Front(Grow(ups, up)) = ups /\ Last(Grow(ups, up)) = up
    BY <2>1, GrowParts
  <2> QED BY <1>8, <2>2
<1>11. Len(vs) = k /\ ws[n] = v /\ \A j \in 1..k : ws[j] = vs[j]
  <2>1. /\ Len(vs) \in Nat /\ Len(Grow(vs, v)) = Len(vs) + 1 /\ Grow(vs, v)[Len(vs) + 1] = v
        /\ \A j \in 1..Len(vs) : Grow(vs, v)[j] = vs[j]
    BY GrowParts
  <2>2. Len(vs) = k
    BY <1>3, <1>9, <1>10, <2>1
  <2> QED BY <1>9, <1>10, <2>1, <2>2
<1>12. stack' = Grow(ups, s)
  BY <1>2, <1>5, <1>10 DEF Onto, Grow, m
<1>13. s \in Seq(Seq(D))
  BY <1>6, <1>8, WithType
<1> HIDE DEF k, s, x, n
<1>14. \A j \in 1..k : Pending(vs[j], ups[j])
  <2>1. \A j \in 1..k : j \in 1..n
    BY <1>10
  <2> QED BY <1>3, <1>10, <1>11, <2>1
<1>15. Complete(x, s)
  <2>1. n \in 1..n
    BY <1>10
  <2>2. Pending(v, up)
    BY <1>3, <1>10, <1>11, <2>1
  <2> QED BY <1>4, <2>2 DEF Pending, x, s
<1>16. x \in Series
  BY <1>4, <1>9, SeriesIn DEF x
<1>17. Says(text', Lines(vs, x))
  <2>1. Says(text', Cat(Lines(ws, w), p))
    BY <1>1, <1>2, <1>3, TypeSays
  <2>2. Cat(Lines(ws, w), p) = Lines(vs, x)
    BY <1>3, <1>9, LinesClose DEF p, x
  <2> QED BY <2>1, <2>2
<1>18. Len(vs) = Len(ups) /\ \A j \in 1..Len(ups) : Pending(vs[j], ups[j])
  BY <1>11, <1>14 DEF k
<1>19. Written(D, ups, s, vs, x)'
  BY <1>2, <1>8, <1>9, <1>12, <1>13, <1>15, <1>16, <1>17, <1>18 DEF Written
<1> QED BY <1>19 DEF WrittenInv

LEMMA WrittenNext == WrittenInv /\ [Next]_vars => WrittenInv'
<1> SUFFICES ASSUME WrittenInv, [Next]_vars PROVE WrittenInv'
  OBVIOUS
<1>2. CASE scribbled'
  BY <1>2 DEF WrittenInv
<1>3. CASE scribbled
  <2>1. scribbled'
    BY <1>3 DEF Next, vars, TypeCondition, TypeAnd, TypeOr, TypeOpen, TypeClose, Scribble
  <2> QED BY <1>2, <2>1
<1>4. CASE ~scribbled
  <2>1. PICK C, sts, st, ws, w : Written(C, sts, st, ws, w)
    BY <1>4 DEF WrittenInv
  <2>8. CASE vars' = vars
    <3>1. Written(C, sts, st, ws, w)'
      BY <2>1, <2>8 DEF vars, Written
    <3> QED BY <3>1 DEF WrittenInv
  <2>2. ASSUME NEW c \in Conditions, TypeCondition(c) PROVE WrittenInv'
    BY <2>1, <2>2, WrittenCondition
  <2>3. CASE TypeAnd
    BY <2>1, <2>3, WrittenAnd
  <2>4. CASE TypeOr
    BY <2>1, <2>4, WrittenOr
  <2>5. CASE TypeOpen
    BY <2>1, <2>5, WrittenOpen
  <2>6. CASE TypeClose
    BY <2>1, <2>6, WrittenClose
  <2>7. ASSUME NEW c \in Scribbles, Scribble(c) PROVE WrittenInv'
    BY <1>2, <2>7 DEF Scribble
  <2> QED BY <2>2, <2>3, <2>4, <2>5, <2>6, <2>7, <2>8 DEF Next
<1> QED BY <1>3, <1>4

LEMMA WrittenReads == WrittenInv => ReadsAsWritten
<1> SUFFICES ASSUME WrittenInv, ~scribbled, Len(stack) = 1, ~operand PROVE Parse(text) = Meant(stack[1])
  BY DEF ReadsAsWritten
<1>1. PICK C, sts, st, ws, w : Written(C, sts, st, ws, w)
  BY DEF WrittenInv
<1>2. /\ st \in Seq(Seq(C)) /\ ws \in Seq(Series) /\ w \in Series
      /\ Len(ws) = Len(sts) /\ Says(text, Lines(ws, w)) /\ Complete(w, st)
  BY <1>1 DEF Written
<1>3. Len(sts) = 0 /\ stack[1] = st
  <2> DEFINE n == Len(sts)
  <2>1. Len(stack) = n + 1 /\ n \in Nat /\ stack[n + 1] = st
    BY <1>1, WrittenParts
  <2> HIDE DEF n
  <2>2. n = 0
    BY <2>1
  <2>3. n + 1 = 1
    BY <2>2
  <2> QED BY <2>1, <2>2, <2>3 DEF n
<1>4. ws = <<>>
  BY <1>2, <1>3
<1>5. Lines(ws, w) = w
  BY <1>2, <1>4, LinesParts
<1>6. Parse(text) = ParseTokens(w)
  BY <1>2, <1>5, ParseSays
<1> QED BY <1>2, <1>3, <1>6, CompleteMeans

\* A text that keeps to the grammar is read as what it says, however long it is and
\* however deep its parentheses: for all conditions that are each read alone as meant.
THEOREM ReadsAsWrittenAlways == Spec => []ReadsAsWritten
<1> QED BY WrittenInit, WrittenNext, WrittenReads, PTL DEF Spec
-----------------------------------------------------------------------------
(* The forms of clauses, level by level. *)

Groups(C) == [kind : {"and", "or"}, clauses : Seq(C)]
Deeper(f) ==
  [c \in Simple \cup [kind : {"and", "or"}, clauses : Seq(DOMAIN f)] |->
     IF c \in Simple THEN SimpleForm(c)
     ELSE GroupForm(c.kind, [i \in DOMAIN c.clauses |-> f[c.clauses[i]]])]
FormSteps(n, t) == t = [k \in 0..n |-> Deeper(IF k = 0 THEN <<>> ELSE t[k - 1])]

LEMMA FormStepsAt ==
  ASSUME NEW n \in Nat, NEW t, FormSteps(n, t)
  PROVE  t[0] = Deeper(<<>>) /\ \A k \in 1..n : t[k] = Deeper(t[k - 1])
<1> DEFINE F(f) == [k \in 0..n |-> Deeper(IF k = 0 THEN <<>> ELSE f[k - 1])]
<1>1. t = F(t)
  BY DEF FormSteps
<1>2. \A k \in 0..n : F(t)[k] = Deeper(IF k = 0 THEN <<>> ELSE t[k - 1])
  OBVIOUS
<1> HIDE DEF F
<1>3. \A k \in 0..n : t[k] = Deeper(IF k = 0 THEN <<>> ELSE t[k - 1])
  BY <1>1, <1>2
<1>4. t[0] = Deeper(<<>>)
  BY <1>3
<1>5. ASSUME NEW k \in 1..n PROVE t[k] = Deeper(t[k - 1])
  BY <1>3
<1> QED BY <1>4, <1>5

LEMMA FormStepsExist == \A n \in Nat : \E t : FormSteps(n, t)
<1> DEFINE K == {n \in Nat : \E t : FormSteps(n, t)}
<1>1. 0 \in K
  <2> DEFINE t == [i \in 0..0 |-> Deeper(<<>>)]
  <2>1. FormSteps(0, t)
    BY DEF FormSteps
  <2> HIDE DEF t
  <2> QED BY <2>1
<1>2. ASSUME NEW n \in K PROVE n + 1 \in K
  <2>1. n \in Nat /\ n + 1 \in Nat
    OBVIOUS
  <2>2. PICK t : FormSteps(n, t)
    OBVIOUS
  <2> DEFINE x == Deeper(t[n])
             u == [i \in 0..(n + 1) |-> IF i = n + 1 THEN x ELSE t[i]]
  <2>3. t[0] = Deeper(<<>>) /\ \A i \in 1..n : t[i] = Deeper(t[i - 1])
    BY <2>1, <2>2, FormStepsAt
  <2>4. \A i \in 0..(n + 1) : u[i] = Deeper(IF i = 0 THEN <<>> ELSE u[i - 1])
    <3>1. u[0] = Deeper(<<>>)
      <4> HIDE DEF x
      <4> QED BY <2>1, <2>3
    <3>2. ASSUME NEW i \in 1..n PROVE u[i] = Deeper(u[i - 1])
      <4>1. u[i] = t[i] /\ u[i - 1] = t[i - 1]
        <5> HIDE DEF x
        <5> QED BY <2>1
      <4> QED BY <2>3, <4>1
    <3>3. u[n + 1] = Deeper(u[n])
      <4>1. u[n + 1] = x /\ u[n] = t[n]
        <5> HIDE DEF x
        <5> QED BY <2>1
      <4> QED BY <4>1
    <3> HIDE DEF u
    <3>4. ASSUME NEW i \in 0..(n + 1) PROVE u[i] = Deeper(IF i = 0 THEN <<>> ELSE u[i - 1])
      <4>1. CASE i = 0
        BY <3>1, <4>1
      <4>2. CASE i \in 1..n
        BY <2>1, <3>2, <4>2
      <4>3. CASE i = n + 1
        <5>1. i - 1 = n /\ i # 0
          BY <2>1, <4>3
        <5> QED BY <3>3, <4>3, <5>1
      <4> QED BY <2>1, <4>1, <4>2, <4>3
    <3> QED BY <3>4
  <2>5. u = [i \in 0..(n + 1) |-> u[i]]
    OBVIOUS
  <2> HIDE DEF u
  <2>6. FormSteps(n + 1, u)
    BY <2>4, <2>5 DEF FormSteps
  <2> QED BY <2>1, <2>6
<1> HIDE DEF K
<1>3. K = Nat
  BY <1>1, <1>2, Climbing DEF K
<1> QED BY <1>3 DEF K

LEMMA FormStepsAgree ==
  ASSUME NEW m \in Nat, NEW n \in Nat, m <= n, NEW t, FormSteps(m, t), NEW u, FormSteps(n, u)
  PROVE  t[m] = u[m]
<1> DEFINE K == {k \in Nat : k <= m => t[k] = u[k]}
<1>1. t[0] = Deeper(<<>>) /\ \A k \in 1..m : t[k] = Deeper(t[k - 1])
  BY FormStepsAt
<1>2. u[0] = Deeper(<<>>) /\ \A k \in 1..n : u[k] = Deeper(u[k - 1])
  BY FormStepsAt
<1>3. 0 \in K
  BY <1>1, <1>2
<1>4. ASSUME NEW k \in K PROVE k + 1 \in K
  <2>1. SUFFICES ASSUME k + 1 <= m PROVE t[k + 1] = u[k + 1]
    OBVIOUS
  <2>2. k \in Nat /\ t[k] = u[k] /\ k + 1 \in 1..m /\ k + 1 \in 1..n /\ (k + 1) - 1 = k
    BY <2>1
  <2> QED BY <1>1, <1>2, <2>2
<1> HIDE DEF K
<1>5. K = Nat
  BY <1>3, <1>4, Climbing DEF K
<1> QED BY <1>5 DEF K

LEMMA FormsAt ==
  /\ Forms[0] = Deeper(<<>>)
  /\ \A n \in Nat : Forms[n + 1] = Deeper(Forms[n])
<1> DEFINE F(f) == [n \in Nat |-> Deeper(IF n = 0 THEN <<>> ELSE f[n - 1])]
           T(n) == CHOOSE t : FormSteps(n, t)
           g == [n \in Nat |-> T(n)[n]]
<1>1. \A n \in Nat : FormSteps(n, T(n))
  BY FormStepsExist
<1> HIDE DEF T
<1>2. \A n \in Nat : g[n] = Deeper(IF n = 0 THEN <<>> ELSE g[n - 1])
  <2>1. SUFFICES ASSUME NEW n \in Nat PROVE g[n] = Deeper(IF n = 0 THEN <<>> ELSE g[n - 1])
    OBVIOUS
  <2>2. g[n] = T(n)[n] /\ FormSteps(n, T(n))
    BY <1>1
  <2>3. CASE n = 0
    <3>1. T(n)[0] = Deeper(<<>>)
      BY <2>2, FormStepsAt
    <3> HIDE DEF g
    <3> QED BY <2>2, <2>3, <3>1
  <2>4. CASE n # 0
    <3>1. n \in 1..n /\ n - 1 \in Nat /\ n - 1 <= n
      BY <2>4
    <3>2. T(n)[n] = Deeper(T(n)[n - 1])
      BY <2>2, <3>1, FormStepsAt
    <3>3. T(n - 1)[n - 1] = T(n)[n - 1]
      BY <1>1, <2>2, <3>1, FormStepsAgree
    <3>4. g[n - 1] = T(n - 1)[n - 1]
      BY <3>1
    <3> HIDE DEF g
    <3> QED BY <2>2, <2>4, <3>2, <3>3, <3>4
  <2> QED BY <2>3, <2>4
<1>3. g = [n \in Nat |-> g[n]]
  OBVIOUS
<1> HIDE DEF g
<1>4. g = F(g)
  BY <1>2, <1>3
<1>5. Forms = CHOOSE f : f = F(f)
  BY DEF Forms, Deeper
<1>6. Forms = F(Forms)
  <2> HIDE DEF F
  <2> QED BY <1>4, <1>5
<1>7. \A n \in Nat : F(Forms)[n] = Deeper(IF n = 0 THEN <<>> ELSE Forms[n - 1])
  OBVIOUS
<1> HIDE DEF F
<1>8. \A n \in Nat : Forms[n] = Deeper(IF n = 0 THEN <<>> ELSE Forms[n - 1])
  BY <1>6, <1>7
<1>9. Forms[0] = Deeper(<<>>)
  BY <1>8
<1>10. ASSUME NEW n \in Nat PROVE Forms[n + 1] = Deeper(Forms[n])
  <2>1. n + 1 \in Nat /\ n + 1 # 0 /\ (n + 1) - 1 = n
    OBVIOUS
  <2> QED BY <1>8, <2>1
<1> QED BY <1>9, <1>10

Clauses(n) == DOMAIN Forms[n]
FormsIn(n, cs) == [i \in DOMAIN cs |-> Forms[n][cs[i]]]

LEMMA Kinds == \A C : \A c \in Groups(C) : c \notin Simple
<1> SUFFICES ASSUME NEW C, NEW c \in Groups(C) PROVE c \notin Simple
  OBVIOUS
<1>1. c.kind \in {"and", "or"}
  BY DEF Groups
<1>2. \A d \in Simple : d.kind \in {"null", "not_null", "condition"}
  BY DEF Simple
<1> QED BY <1>1, <1>2

LEMMA DeeperParts ==
  ASSUME NEW f
  PROVE  /\ DOMAIN Deeper(f) = Simple \cup Groups(DOMAIN f)
         /\ \A c \in Simple : Deeper(f)[c] = SimpleForm(c)
         /\ \A c \in Groups(DOMAIN f) : Deeper(f)[c] = GroupForm(c.kind, [i \in DOMAIN c.clauses |-> f[c.clauses[i]]])
<1> DEFINE G == Groups(DOMAIN f)
           A(c) == SimpleForm(c)
           B(c) == GroupForm(c.kind, [i \in DOMAIN c.clauses |-> f[c.clauses[i]]])
           g == [c \in Simple \cup G |-> IF c \in Simple THEN A(c) ELSE B(c)]
<1>1. Deeper(f) = g
  BY DEF Deeper, Groups
<1>2. \A c \in G : c \notin Simple
  BY Kinds
<1> HIDE DEF G, A, B
<1>3. DOMAIN g = Simple \cup G /\ (\A c \in Simple : g[c] = A(c)) /\ \A c \in G : g[c] = B(c)
  BY <1>2
<1> QED BY <1>1, <1>3 DEF G, A, B

LEMMA FormsSimple == \A n \in Nat : \A c \in Simple : c \in Clauses(n) /\ Forms[n][c] = SimpleForm(c)
<1> SUFFICES ASSUME NEW n \in Nat, NEW c \in Simple PROVE c \in Clauses(n) /\ Forms[n][c] = SimpleForm(c)
  OBVIOUS
<1>1. PICK f : Forms[n] = Deeper(f)
  <2>1. CASE n = 0
    BY <2>1, FormsAt
  <2>2. CASE n # 0
    <3>1. n - 1 \in Nat /\ (n - 1) + 1 = n
      BY <2>2
    <3> QED BY <3>1, FormsAt
  <2> QED BY <2>1, <2>2
<1> QED BY <1>1, DeeperParts DEF Clauses

LEMMA FormsGroup ==
  ASSUME NEW n \in Nat, NEW c \in Groups(Clauses(n))
  PROVE  c \in Clauses(n + 1) /\ Forms[n + 1][c] = GroupForm(c.kind, FormsIn(n, c.clauses))
<1>1. PICK f : f = Forms[n]
  OBVIOUS
<1>2. c \in Groups(DOMAIN f)
  BY <1>1 DEF Clauses
<1>6. FormsIn(n, c.clauses) = [i \in DOMAIN c.clauses |-> f[c.clauses[i]]]
  BY <1>1 DEF FormsIn
<1>3. Forms[n + 1] = Deeper(f)
  BY <1>1, FormsAt
<1>4. c \in DOMAIN Deeper(f)
  BY <1>2, DeeperParts
<1>5. Deeper(f)[c] = GroupForm(c.kind, [i \in DOMAIN c.clauses |-> f[c.clauses[i]]])
  BY <1>2, DeeperParts
<1> QED BY <1>3, <1>4, <1>5, <1>6 DEF Clauses

LEMMA ClausesSplit ==
  /\ Clauses(0) = Simple \cup Groups({})
  /\ \A n \in Nat : Clauses(n + 1) = Simple \cup Groups(Clauses(n))
<1>1. DOMAIN <<>> = {}
  OBVIOUS
<1>2. Clauses(0) = Simple \cup Groups({})
  BY <1>1, FormsAt, DeeperParts DEF Clauses
<1>3. ASSUME NEW n \in Nat PROVE Clauses(n + 1) = Simple \cup Groups(Clauses(n))
  BY FormsAt, DeeperParts DEF Clauses
<1> QED BY <1>2, <1>3

\* A group of nothing.
LEMMA FormsNothing ==
  ASSUME NEW n \in Nat, NEW c \in Groups({})
  PROVE  c \in Clauses(n) /\ Forms[n][c] = GroupForm(c.kind, <<>>)
<1>1. c.clauses = <<>> /\ \A C : c \in Groups(C)
  <2>1. c.clauses \in Seq({}) /\ c = [kind |-> c.kind, clauses |-> c.clauses] /\ c.kind \in {"and", "or"}
    BY DEF Groups
  <2>2. c.clauses = <<>>
    BY <2>1
  <2>3. \A C : c.clauses \in Seq(C)
    BY <2>2
  <2> QED BY <2>1, <2>2, <2>3 DEF Groups
<1>2. PICK f : Forms[n] = Deeper(f)
  <2>1. CASE n = 0
    BY <2>1, FormsAt
  <2>2. CASE n # 0
    <3>1. n - 1 \in Nat /\ (n - 1) + 1 = n
      BY <2>2
    <3> QED BY <3>1, FormsAt
  <2> QED BY <2>1, <2>2
<1>3. [i \in DOMAIN c.clauses |-> f[c.clauses[i]]] = <<>>
  <2>1. DOMAIN c.clauses = {}
    BY <1>1
  <2>2. [i \in {} |-> f[c.clauses[i]]] = <<>>
    OBVIOUS
  <2> QED BY <2>1, <2>2
<1>4. c \in DOMAIN Deeper(f) /\ Deeper(f)[c] = GroupForm(c.kind, [i \in DOMAIN c.clauses |-> f[c.clauses[i]]])
  BY <1>1, DeeperParts
<1> QED BY <1>2, <1>3, <1>4 DEF Clauses

\* A clause has the same form at every level that has it.
LEMMA Deepen == \A n \in Nat : \A c \in Clauses(n) : c \in Clauses(n + 1) /\ Forms[n + 1][c] = Forms[n][c]
<1> DEFINE K == {n \in Nat : \A c \in Clauses(n) : c \in Clauses(n + 1) /\ Forms[n + 1][c] = Forms[n][c]}
<1>1. 0 \in K
  <2>1. ASSUME NEW c \in Clauses(0) PROVE c \in Clauses(0 + 1) /\ Forms[0 + 1][c] = Forms[0][c]
    <3>1. CASE c \in Simple
      BY <3>1, FormsSimple
    <3>2. CASE c \in Groups({})
      BY <3>2, FormsNothing
    <3> QED BY <3>1, <3>2, ClausesSplit
  <2> QED BY <2>1
<1>2. ASSUME NEW n \in K PROVE n + 1 \in K
  <2>1. n \in Nat /\ n + 1 \in Nat /\ \A c \in Clauses(n) : c \in Clauses(n + 1) /\ Forms[n + 1][c] = Forms[n][c]
    OBVIOUS
  <2>2. ASSUME NEW c \in Clauses(n + 1)
        PROVE  c \in Clauses((n + 1) + 1) /\ Forms[(n + 1) + 1][c] = Forms[n + 1][c]
    <3>1. CASE c \in Simple
      BY <2>1, <3>1, FormsSimple
    <3>2. CASE c \in Groups(Clauses(n))
      <4>1. Forms[n + 1][c] = GroupForm(c.kind, FormsIn(n, c.clauses))
        BY <2>1, <3>2, FormsGroup
      <4>2. c.clauses \in Seq(Clauses(n)) /\ c.kind \in {"and", "or"} /\ c = [kind |-> c.kind, clauses |-> c.clauses]
        BY <3>2 DEF Groups
      <4>3. c \in Groups(Clauses(n + 1))
        <5>1. Clauses(n) \subseteq Clauses(n + 1)
          BY <2>1
        <5>2. c.clauses \in Seq(Clauses(n + 1))
          BY <4>2, <5>1
        <5> QED BY <4>2, <5>2 DEF Groups
      <4>4. c \in Clauses((n + 1) + 1) /\ Forms[(n + 1) + 1][c] = GroupForm(c.kind, FormsIn(n + 1, c.clauses))
        BY <2>1, <4>3, FormsGroup
      <4>5. FormsIn(n + 1, c.clauses) = FormsIn(n, c.clauses)
        <5>1. \A i \in DOMAIN c.clauses : c.clauses[i] \in Clauses(n)
          BY <4>2
        <5>2. \A i \in DOMAIN c.clauses : Forms[n + 1][c.clauses[i]] = Forms[n][c.clauses[i]]
          BY <2>1, <5>1
        <5> QED BY <5>2 DEF FormsIn
      <4> QED BY <4>1, <4>4, <4>5
    <3> QED BY <2>1, <3>1, <3>2, ClausesSplit
  <2> QED BY <2>1, <2>2
<1> HIDE DEF K
<1>3. K = Nat
  BY <1>1, <1>2, Climbing DEF K
<1> QED BY <1>3 DEF K

LEMMA DeepenTo ==
  \A m \in Nat, k \in Nat : \A c \in Clauses(m) : c \in Clauses(m + k) /\ Forms[m + k][c] = Forms[m][c]
<1> SUFFICES ASSUME NEW m \in Nat, NEW c \in Clauses(m)
             PROVE  \A k \in Nat : c \in Clauses(m + k) /\ Forms[m + k][c] = Forms[m][c]
  OBVIOUS
<1> DEFINE K == {k \in Nat : c \in Clauses(m + k) /\ Forms[m + k][c] = Forms[m][c]}
<1>1. 0 \in K
  <2>1. m + 0 = m
    OBVIOUS
  <2> QED BY <2>1
<1>2. ASSUME NEW k \in K PROVE k + 1 \in K
  <2>1. k \in Nat /\ m + k \in Nat /\ m + (k + 1) = (m + k) + 1 /\ k + 1 \in Nat
    OBVIOUS
  <2>2. c \in Clauses(m + k) /\ Forms[m + k][c] = Forms[m][c]
    OBVIOUS
  <2>3. c \in Clauses((m + k) + 1) /\ Forms[(m + k) + 1][c] = Forms[m + k][c]
    BY <2>1, <2>2, Deepen
  <2> QED BY <2>1, <2>2, <2>3
<1> HIDE DEF K
<1>3. K = Nat
  BY <1>1, <1>2, Climbing DEF K
<1> QED BY <1>3 DEF K

LEMMA FormsAgree ==
  ASSUME NEW m \in Nat, NEW n \in Nat, NEW c \in Clauses(m), c \in Clauses(n)
  PROVE  Forms[m][c] = Forms[n][c]
<1>1. Forms[m + n][c] = Forms[m][c] /\ Forms[n + m][c] = Forms[n][c] /\ m + n = n + m
  BY DeepenTo
<1> QED BY <1>1
-----------------------------------------------------------------------------
(* What is parsed has a form: a group of groups for each parenthesis. *)

LEMMA ListType ==
  ASSUME NEW v \in Series
  PROVE  ListOf(v).values \in Seq(Seq(Letter))
<1> DEFINE T == Seq(Letter)
           m == (Len(v) + 1) \div 2
           vs == [i \in 1..m |-> v[2 * i - 1].value]
           paired == \A i \in DOMAIN v : Bare(v[i], <<",">>) <=> i % 2 = 0
<1>0. ListOf(v) = IF paired THEN [ok |-> TRUE, values |-> vs] ELSE [ok |-> FALSE, values |-> <<>>]
  BY DEF ListOf
<1> HIDE DEF paired
<1>1. Len(v) \in Nat /\ \A i \in 1..Len(v) : v[i].value \in T
  <2>1. Len(v) \in Nat /\ \A i \in 1..Len(v) : v[i] \in Tokens
    BY DEF Series
  <2> QED BY <2>1 DEF Tokens
<1>2. m \in Nat /\ \A i \in 1..m : 2 * i - 1 \in 1..Len(v)
  BY <1>1
<1> HIDE DEF T, m
<1>3. vs \in Seq(T) /\ <<>> \in Seq(T)
  <2>1. \A i \in 1..m : vs[i] \in T
    BY <1>1, <1>2
  <2> QED BY <1>2, <2>1
<1>4. ListOf(v).values = vs \/ ListOf(v).values = <<>>
  <2> HIDE DEF vs
  <2> QED BY <1>0
<1> QED BY <1>3, <1>4 DEF T

LEMMA SimpleKinds ==
  /\ \A n \in Seq(Letter) : IsNull(n) \in Simple /\ IsNotNull(n) \in Simple
  /\ \A n \in Seq(Letter), op \in Operations \cap Seq(Letter), vs \in Seq(Seq(Letter)) : Condition(n, op, vs) \in Simple
  BY DEF Simple, IsNull, IsNotNull, Condition

LEMMA ConditionType ==
  ASSUME NEW ts \in Series, NEW p \in Nat
  PROVE  ParseCondition(ts, p).clause.kind \in Outcomes \/ ParseCondition(ts, p).clause \in Simple
<1> DEFINE o == ParseCondition(ts, p)
           T == Seq(Letter)
<1>1. Len(ts) \in Nat /\ \A i \in 1..Len(ts) : ts[i] \in Tokens /\ ts[i].value \in T
  <2>1. Len(ts) \in Nat /\ \A i \in 1..Len(ts) : ts[i] \in Tokens
    BY DEF Series
  <2> QED BY <2>1 DEF Tokens
<1>2. Len(ts) >= p + 3 => ts[p + 1].value \in T /\ ts[p + 2].value \in T /\ ts[p + 3].value \in T
  <2>1. Len(ts) >= p + 3 => p + 1 \in 1..Len(ts) /\ p + 2 \in 1..Len(ts) /\ p + 3 \in 1..Len(ts)
    BY <1>1
  <2> QED BY <1>1, <2>1
<1> HIDE DEF T
<1>3. CASE IsNullAt(ts, p)
  <2>0. o = Took(p + 3, IsNull(ts[p + 1].value))
    BY <1>1, <1>3, ConditionForms
  <2>1. o.clause = IsNull(ts[p + 1].value)
    BY <2>0, TookParts
  <2> QED BY <1>2, <1>3, <2>1, SimpleKinds DEF IsNullAt, T
<1>4. CASE IsNotNullAt(ts, p)
  <2>0. o = Took(p + 4, IsNotNull(ts[p + 1].value))
    BY <1>1, <1>4, ConditionForms
  <2>1. o.clause = IsNotNull(ts[p + 1].value)
    BY <2>0, TookParts
  <2>2. Len(ts) >= p + 3
    BY <1>1, <1>4 DEF IsNotNullAt
  <2> QED BY <1>2, <2>1, <2>2, SimpleKinds DEF T
<1>5. CASE ValueAt(ts, p)
  <2>0. o = Took(p + 3, Condition(ts[p + 1].value, ts[p + 2].value, <<ts[p + 3].value>>))
    BY <1>1, <1>5, ConditionForms
  <2>1. o.clause = Condition(ts[p + 1].value, ts[p + 2].value, <<ts[p + 3].value>>)
    BY <2>0, TookParts
  <2>2. Len(ts) >= p + 3 /\ ts[p + 2].value \in Operations
    BY <1>5 DEF ValueAt, ComparesAt
  <2>3. <<ts[p + 3].value>> \in Seq(T)
    BY <1>2, <2>2
  <2> QED BY <1>2, <2>1, <2>2, <2>3, SimpleKinds DEF T
<1>6. CASE ListAt(ts, p)
  <2>0. o = Took(Closes(ts, p + 3), Condition(ts[p + 1].value, ts[p + 2].value, ListOf(Listed(ts, p)).values))
    BY <1>1, <1>6, ConditionForms
  <2>1. o.clause = Condition(ts[p + 1].value, ts[p + 2].value, ListOf(Listed(ts, p)).values)
    BY <2>0, TookParts
  <2>2. Len(ts) >= p + 3 /\ ts[p + 2].value \in Operations /\ Closes(ts, p + 3) > 0
    BY <1>6 DEF ListAt, ComparesAt
  <2>3. Closes(ts, p + 3) \in p + 4 .. Len(ts)
    <3>1. p + 3 \in Nat /\ (p + 3) + 1 = p + 4
      OBVIOUS
    <3>2. Closes(ts, p + 3) = 0 \/ Closes(ts, p + 3) \in p + 4 .. Len(ts)
      BY <1>1, <3>1, ClosesWhere
    <3> QED BY <2>2, <3>2
  <2>4. Listed(ts, p) \in Series
    <3> DEFINE close == Closes(ts, p + 3)
    <3>1. close - 1 \in Int /\ p + 4 \in Int /\ \A i \in p + 4 .. close - 1 : ts[i] \in Tokens
      BY <1>1, <2>3
    <3> HIDE DEF close
    <3>2. SubSeq(ts, p + 4, close - 1) \in Seq(Tokens)
      BY <3>1, SubSeqProperties
    <3> QED BY <3>2 DEF Listed, Series, close
  <2>5. ListOf(Listed(ts, p)).values \in Seq(T)
    BY <2>4, ListType DEF T
  <2> QED BY <1>2, <2>1, <2>2, <2>5, SimpleKinds DEF T
<1>7. CASE ~IsNullAt(ts, p) /\ ~IsNotNullAt(ts, p) /\ ~ValueAt(ts, p) /\ ~ListAt(ts, p)
  <2>1. o = Took(p, Failed)
    BY <1>1, <1>7, ConditionForms
  <2> QED BY <2>1, TookParts, FailedKind
<1> QED BY <1>3, <1>4, <1>5, <1>6, <1>7

LEMMA OperandType ==
  ASSUME NEW ts \in Series, NEW p \in Nat, p < Len(ts), NEW f, NEW S, Simple \subseteq S,
         \A us \in Series : Len(us) < Len(ts) => f[us].kind \in Outcomes \/ f[us] \in S
  PROVE  ParseOperand(ts, p, f).clause.kind \in Outcomes \/ ParseOperand(ts, p, f).clause \in S
<1> DEFINE close == Closes(ts, p + 1)
           us == SubSeq(ts, p + 2, close - 1)
<1>1. Len(ts) \in Nat
  BY DEF Series
<1>2. CASE ~Bare(ts[p + 1], <<"(">>)
  <2>1. ParseOperand(ts, p, f) = ParseCondition(ts, p)
    BY <1>2, OperandForms
  <2> QED BY <2>1, ConditionType
<1>3. CASE Bare(ts[p + 1], <<"(">>)
  <2>1. close = 0 \/ close \in p + 2 .. Len(ts)
    <3>1. p + 1 \in Nat /\ (p + 1) + 1 = p + 2
      OBVIOUS
    <3> QED BY <1>1, <3>1, ClosesWhere
  <2>2. CASE close = 0
    <3>1. ParseOperand(ts, p, f) = Took(p, Failed)
      BY <1>3, <2>2, OperandForms
    <3> QED BY <3>1, TookParts, FailedKind
  <2>3. CASE close \in p + 2 .. Len(ts)
    <3>1. close > 0
      BY <2>3
    <3>2. us \in Series /\ Len(us) < Len(ts)
      <4> HIDE DEF close
      <4>1. us \in Seq(Tokens) /\ Len(us) = IF p + 2 <= close - 1 THEN (close - 1) - (p + 2) + 1 ELSE 0
        BY <1>1, <2>3 DEF Series
      <4> QED BY <1>1, <2>3, <4>1 DEF Series
    <3>3. ParseOperand(ts, p, f) = Took(close, f[us])
      BY <1>3, <3>1, OperandForms
    <3> HIDE DEF us, close
    <3>4. f[us].kind \in Outcomes \/ f[us] \in S
      BY <3>2
    <3> QED BY <3>3, <3>4, TookParts
  <2> QED BY <2>1, <2>2, <2>3
<1> QED BY <1>2, <1>3
\* What the loop has taken.
Holding(C, s) == s.ors \in Seq(Groups(C)) /\ s.ands \in Seq(C) /\ (s.end = None \/ s.end \in Outcomes)

LEMMA HoldingLoop ==
  ASSUME NEW C, NEW p, NEW ors \in Seq(Groups(C)), NEW ands \in Seq(C)
  PROVE  Holding(C, Loop(p, ors, ands, None))
<1>1. PICK s : s = Loop(p, ors, ands, None)
  OBVIOUS
<1>2. s.ors = ors /\ s.ands = ands /\ s.end = None
  BY <1>1, LoopParts
<1>3. Holding(C, s)
  BY <1>2 DEF Holding
<1> QED BY <1>1, <1>3

LEMMA GroupIn ==
  ASSUME NEW C, NEW cs \in Seq(C)
  PROVE  Group("and", cs) \in Groups(C) /\ Group("or", cs) \in Groups(C)
  BY DEF Group, Groups

LEMMA CloseAndType ==
  ASSUME NEW C, NEW ors \in Seq(Groups(C)), NEW ands \in Seq(C)
  PROVE  CloseAnd(ors, ands) \in Seq(Groups(C))
<1> DEFINE G == Groups(C)
<1>1. Group("and", ands) \in G
  BY GroupIn
<1> HIDE DEF G
<1>2. Append(ors, Group("and", ands)) \in Seq(G)
  BY <1>1 DEF G
<1> QED BY <1>2 DEF CloseAnd, G

LEMMA TurnType ==
  ASSUME NEW ts \in Series, NEW s, LoopState(ts, s), ~Ended(ts, s), NEW f, NEW C, Simple \subseteq C,
         \A us \in Series : Len(us) < Len(ts) => f[us].kind \in Outcomes \/ f[us] \in C,
         Holding(C, s)
  PROVE  Holding(C, Turn(ts, s, f))
<1> DEFINE t == ts[s.at + 1]
           n == Turn(ts, s, f)
           done == CloseAnd(s.ors, s.ands)
<1>1. Len(ts) \in Nat
  BY DEF Series
<1>2. /\ s = Loop(s.at, s.ors, s.ands, s.end) /\ s.at \in Nat /\ s.at < Len(ts) /\ s.at + 1 \in Nat
      /\ s.at + 1 # Len(ts) => s.at + 1 < Len(ts)
  BY <1>1 DEF LoopState, Ended
<1>3. s.ors \in Seq(Groups(C)) /\ s.ands \in Seq(C)
  BY DEF Holding
<1>4. \A e \in Outcomes : Holding(C, [s EXCEPT !.end = e])
  <2>1. SUFFICES ASSUME NEW e \in Outcomes PROVE Holding(C, [s EXCEPT !.end = e])
    OBVIOUS
  <2>2. [s EXCEPT !.end = e] = Loop(s.at, s.ors, s.ands, e)
    BY <1>2, StoppedIs
  <2> QED BY <1>3, <2>2, LoopParts DEF Holding
<1>5. ASSUME NEW p \in Nat, p < Len(ts) PROVE Holding(C, TookTurn(s, ParseOperand(ts, p, f)))
  <2> DEFINE o == ParseOperand(ts, p, f)
  <2>1. o.clause.kind \in Outcomes \/ o.clause \in C
    BY <1>5, OperandType
  <2> HIDE DEF o
  <2>2. CASE o.clause.kind \in Outcomes
    <3>1. TookTurn(s, o) = [s EXCEPT !.end = o.clause.kind]
      BY <2>2 DEF TookTurn
    <3>2. Holding(C, [s EXCEPT !.end = o.clause.kind])
      BY <1>4, <2>2
    <3> QED BY <3>1, <3>2 DEF o
  <2>3. CASE o.clause.kind \notin Outcomes
    <3>1. TookTurn(s, o) = Loop(o.at, s.ors, Append(s.ands, o.clause), None)
      BY <2>3 DEF TookTurn
    <3>2. Append(s.ands, o.clause) \in Seq(C)
      BY <1>3, <2>1, <2>3
    <3>3. Holding(C, Loop(o.at, s.ors, Append(s.ands, o.clause), None))
      BY <1>3, <3>2, HoldingLoop
    <3> QED BY <3>1, <3>3 DEF o
  <2> QED BY <2>2, <2>3 DEF o
<1>6. "error" \in Outcomes /\ "panic" \in Outcomes
  BY DEF Outcomes
<1>7. CASE Bare(t, <<")">>)
  <2>1. n = [s EXCEPT !.end = "error"]
    BY <1>7, TurnForms
  <2> QED BY <1>4, <1>6, <2>1
<1>8. CASE Bare(t, <<"or">>)
  <2>1. n = IF done = <<>> THEN [s EXCEPT !.end = "error"] ELSE Loop(s.at + 1, done, <<>>, None)
    BY <1>8, TurnForms
  <2>2. done \in Seq(Groups(C))
    BY <1>3, CloseAndType
  <2> HIDE DEF done
  <2>3. Holding(C, Loop(s.at + 1, done, <<>>, None))
    <3>1. <<>> \in Seq(C)
      OBVIOUS
    <3> QED BY <2>2, <3>1, HoldingLoop
  <2>4. Holding(C, n)
    <3> HIDE DEF n
    <3> QED BY <1>4, <1>6, <2>1, <2>3
  <2> QED BY <2>4
<1>9. CASE Bare(t, <<"and">>)
  <2>1. n = IF s.ands = <<>> THEN [s EXCEPT !.end = "error"]
            ELSE IF s.at + 1 = Len(ts) THEN [s EXCEPT !.end = "panic"]
            ELSE TookTurn(s, ParseOperand(ts, s.at + 1, f))
    BY <1>9, TurnForms
  <2>2. s.at + 1 # Len(ts) => Holding(C, TookTurn(s, ParseOperand(ts, s.at + 1, f)))
    BY <1>2, <1>5
  <2>3. Holding(C, n)
    <3> HIDE DEF n
    <3> QED BY <1>4, <1>6, <2>1, <2>2
  <2> QED BY <2>3
<1>10. CASE ~Bare(t, <<")">>) /\ ~Bare(t, <<"or">>) /\ ~Bare(t, <<"and">>)
  <2>1. n = IF s.ands # <<>> THEN [s EXCEPT !.end = "error"] ELSE TookTurn(s, ParseOperand(ts, s.at, f))
    BY <1>10, TurnForms
  <2>2. Holding(C, TookTurn(s, ParseOperand(ts, s.at, f)))
    BY <1>2, <1>5
  <2>3. Holding(C, n)
    <3> HIDE DEF n
    <3> QED BY <1>4, <1>6, <2>1, <2>2
  <2> QED BY <2>3
<1> QED BY <1>7, <1>8, <1>9, <1>10

LEMMA LoopedType ==
  ASSUME NEW ts \in Series, NEW f, NEW C, Simple \subseteq C,
         \A us \in Series : Len(us) < Len(ts) => f[us].kind \in Outcomes \/ f[us] \in C
  PROVE  Holding(C, Looped(ts, f))
<1> DEFINE n == Cardinality(Outside(ts)) + 1
<1>1. Len(ts) \in Nat /\ DOMAIN ts = 1..Len(ts)
  BY DEF Series
<1>2. n \in Nat
  BY <1>1, OutsideFinite
<1>3. PICK t : LoopSteps(ts, f, n, t)
  BY <1>2, LoopStepsExist
<1>4. Looped(ts, f) = t[n]
  BY <1>2, <1>3, LoopedIs
<1> HIDE DEF n
<1>5. \A k \in 0..n : LoopState(ts, t[k])
  BY <1>1, <1>2, <1>3, StepsState
<1>6. t[0] = Start /\ \A k \in 1..n : t[k] = LoopStep(ts, f, t[k - 1])
  <2>1. t[0] = Start
    BY <1>2, <1>3, LoopStepsAt
  <2>2. \A k \in 1..n : t[k] = LoopStep(ts, f, t[k - 1])
    BY <1>2, <1>3, LoopStepsAt
  <2> QED BY <2>1, <2>2
<1> DEFINE K == {k \in Nat : k <= n => Holding(C, t[k])}
<1>7. 0 \in K
  <2>1. Holding(C, Start)
    <3>1. <<>> \in Seq(C) /\ <<>> \in Seq(Groups(C))
      OBVIOUS
    <3> QED BY <3>1, HoldingLoop DEF Start
  <2> QED BY <1>6, <2>1
<1>8. ASSUME NEW k \in K PROVE k + 1 \in K
  <2>1. SUFFICES ASSUME k + 1 <= n PROVE Holding(C, t[k + 1])
    OBVIOUS
  <2>2. k \in Nat /\ k \in 0..n /\ Holding(C, t[k]) /\ k + 1 \in 1..n /\ (k + 1) - 1 = k
    BY <1>2, <2>1
  <2>3. t[k + 1] = LoopStep(ts, f, t[k])
    BY <1>6, <2>2
  <2>4. LoopState(ts, t[k])
    BY <1>5, <2>2
  <2>5. ~Ended(ts, t[k]) => Holding(C, Turn(ts, t[k], f))
    BY <2>2, <2>4, TurnType
  <2> QED BY <2>2, <2>3, <2>5 DEF LoopStep
<1> HIDE DEF K
<1>9. K = Nat
  BY <1>7, <1>8, Climbing DEF K
<1> QED BY <1>2, <1>4, <1>9 DEF K

LEMMA ResultType ==
  ASSUME NEW n \in Nat, NEW s, Holding(Clauses(n), s)
  PROVE  Result(s).kind \in Outcomes \/ Result(s) \in Clauses(n + 2)
<1> DEFINE C == Clauses(n)
           cs == CloseAnd(s.ors, s.ands)
<1>1. CASE s.end # None
  <2>1. Result(s) = [kind |-> s.end] /\ s.end \in Outcomes
    BY <1>1 DEF Result, Holding
  <2> QED BY <2>1
<1>2. CASE s.end = None
  <2>1. Result(s) = Or(cs)
    BY <1>2 DEF Result
  <2>2. cs \in Seq(Groups(C))
    BY CloseAndType DEF Holding
  <2>3. Groups(C) \subseteq Clauses(n + 1)
    BY ClausesSplit
  <2>4. Groups(Clauses(n + 1)) \subseteq Clauses(n + 2) /\ Clauses(n + 1) \subseteq Clauses(n + 2)
    <3>1. n + 1 \in Nat /\ (n + 1) + 1 = n + 2
      OBVIOUS
    <3> QED BY <3>1, ClausesSplit, Deepen
  <2> HIDE DEF C, cs
  <2>5. cs \in Seq(Clauses(n + 1))
    BY <2>2, <2>3
  <2>6. CASE Len(cs) = 1
    <3>1. cs[1] \in Clauses(n + 1)
      BY <2>5, <2>6
    <3> QED BY <2>1, <2>4, <2>6, <3>1 DEF Or
  <2>7. CASE Len(cs) # 1
    <3>1. Group("or", cs) \in Groups(Clauses(n + 1))
      BY <2>5, GroupIn
    <3> QED BY <2>1, <2>4, <2>7, <3>1 DEF Or
  <2> QED BY <2>6, <2>7
<1> QED BY <1>1, <1>2

LEMMA ParsedClauses ==
  \A us \in Series : ParseTokens(us).kind \in Outcomes \/ ParseTokens(us) \in Clauses(2 * Len(us) + 2)
<1> DEFINE P(us) == ParseTokens(us).kind \in Outcomes \/ ParseTokens(us) \in Clauses(2 * Len(us) + 2)
           K == {k \in Nat : \A us \in Series : Len(us) < k => P(us)}
<1>1. \A us \in Series : Len(us) \in Nat
  BY DEF Series
<1>2. 0 \in K
  <2>1. \A us \in Series : ~(Len(us) < 0)
    BY <1>1
  <2> QED BY <2>1
<1>3. ASSUME NEW k \in K PROVE k + 1 \in K
  <2>1. SUFFICES ASSUME NEW us \in Series, Len(us) < k + 1 PROVE P(us)
    OBVIOUS
  <2>2. k \in Nat /\ \A vs \in Series : Len(vs) < k => P(vs)
    OBVIOUS
  <2> HIDE DEF K
  <2> DEFINE n == 2 * Len(us)
  <2>3. n \in Nat /\ n + 2 = 2 * Len(us) + 2
    BY <1>1
  <2>4. ASSUME NEW vs \in Series, Len(vs) < Len(us) PROVE Whole[vs].kind \in Outcomes \/ Whole[vs] \in Clauses(n)
    <3>1. Len(vs) < k
      BY <1>1, <2>1, <2>2, <2>4
    <3>2. P(vs) /\ Whole[vs] = ParseTokens(vs)
      BY <2>2, <3>1, ParseTokensIs
    <3>3. PICK m \in Nat, j \in Nat : m = 2 * Len(vs) + 2 /\ n = m + j
      <4>1. Len(vs) \in Nat /\ Len(us) \in Nat
        BY <1>1
      <4>2. 2 * Len(vs) + 2 \in Nat /\ n - (2 * Len(vs) + 2) \in Nat /\ n = (2 * Len(vs) + 2) + (n - (2 * Len(vs) + 2))
        BY <2>4, <4>1
      <4> QED BY <4>2
    <3> HIDE DEF n
    <3>4. Clauses(m) \subseteq Clauses(n)
      BY <3>3, DeepenTo
    <3> QED BY <3>2, <3>3, <3>4
  <2>5. Simple \subseteq Clauses(n)
    BY <2>3, FormsSimple
  <2> HIDE DEF n
  <2>6. Holding(Clauses(n), Looped(us, Whole))
    BY <2>4, <2>5, LoopedType
  <2>7. ParseTokens(us) = Result(Looped(us, Whole))
    BY ParseTokensIs
  <2> QED BY <2>3, <2>6, <2>7, ResultType
<1> HIDE DEF K
<1>4. K = Nat
  BY <1>2, <1>3, Climbing DEF K
<1>5. ASSUME NEW us \in Series PROVE P(us)
  <2>1. Len(us) + 1 \in Nat /\ Len(us) < Len(us) + 1
    BY <1>1
  <2>2. Len(us) + 1 \in K
    BY <1>4, <2>1
  <2> QED BY <2>1, <2>2 DEF K
<1> QED BY <1>5

\* What is accepted has a form.
LEMMA ParsedForms ==
  ASSUME NEW u \in Texts, Accepted(u)
  PROVE  Levels(u) \in Nat /\ Parse(u) \in Clauses(Levels(u))
<1>1. Tokenize(u).tokens \in Series /\ Len(Tokenize(u).tokens) \in Nat
  <2>1. Tokenize(u).tokens \in Series
    BY TokenizeType
  <2> QED BY <2>1, SeriesLen
<1>2. Parse(u) = ParseTokens(Tokenize(u).tokens) /\ Parse(u).kind \notin Outcomes
  <2>1. Parse(u).kind \notin Outcomes
    BY DEF Accepted
  <2>2. ~Tokenize(u).failed
    BY <2>1, FailedKind DEF Parse
  <2> QED BY <2>1, <2>2 DEF Parse
<1> DEFINE ts == Tokenize(u).tokens
<1> HIDE DEF ts
<1>3. ParseTokens(ts) \in Clauses(2 * Len(ts) + 2)
  BY <1>1, <1>2, ParsedClauses DEF ts
<1>4. Levels(u) = 2 * Len(ts) + 2 /\ 2 * Len(ts) + 2 \in Nat
  BY <1>1 DEF Levels, ts
<1> QED BY <1>2, <1>3, <1>4 DEF ts
-----------------------------------------------------------------------------
(* Words, symbols and quoted texts are one token each. *)

LEMMA Append1 ==
  ASSUME NEW u \in Texts, NEW c \in Letter
  PROVE  /\ Len(Append(u, c)) = Len(u) + 1 /\ Len(u) \in Nat /\ DOMAIN u = 1..Len(u) /\ DOMAIN Append(u, c) = 1..(Len(u) + 1)
         /\ Append(u, c)[Len(u) + 1] = c /\ (\A i \in 1..Len(u) : Append(u, c)[i] = u[i] /\ u[i] \in Letter)
         /\ Append(u, c) # <<>> /\ (u = <<>> => Append(u, c) = <<c>>)
<1>1. u \in Seq(Letter)
  BY DEF Texts
<1>2. /\ Len(Append(u, c)) = Len(u) + 1 /\ Len(u) \in Nat /\ DOMAIN u = 1..Len(u)
      /\ DOMAIN Append(u, c) = 1..(Len(u) + 1)
  BY <1>1
<1>3. Append(u, c)[Len(u) + 1] = c /\ (\A i \in 1..Len(u) : Append(u, c)[i] = u[i])
  BY <1>1, AppendProperties
<1>5. \A i \in 1..Len(u) : u[i] \in Letter
  BY <1>1
<1>4. Append(u, c) # <<>> /\ Append(<<>>, c) = <<c>>
  BY <1>1, AppendProperties, Tuples
<1> QED BY <1>2, <1>3, <1>4, <1>5

\* What all letters of a longer text are, all letters of the text are.
AllIn(u, S) == \A i \in DOMAIN u : u[i] \in S

LEMMA AllInAppend ==
  ASSUME NEW u \in Texts, NEW c \in Letter, NEW S
  PROVE  AllIn(Append(u, c), S) <=> AllIn(u, S) /\ c \in S
<1> DEFINE n == Len(u)
           v == Append(u, c)
<1>1. n \in Nat /\ DOMAIN u = 1..n /\ DOMAIN v = 1..(n + 1) /\ v[n + 1] = c /\ \A i \in 1..n : v[i] = u[i]
  BY Append1
<1> HIDE DEF n, v
<1>2. ASSUME AllIn(v, S) PROVE AllIn(u, S) /\ c \in S
  <2>1. n + 1 \in 1..(n + 1) /\ \A i \in 1..n : i \in 1..(n + 1)
    BY <1>1
  <2> QED BY <1>1, <1>2, <2>1 DEF AllIn
<1>3. ASSUME AllIn(u, S), c \in S PROVE AllIn(v, S)
  <2>1. \A i \in 1..(n + 1) : i \in 1..n \/ i = n + 1
    BY <1>1
  <2> QED BY <1>1, <1>3, <2>1 DEF AllIn
<1> QED BY <1>2, <1>3 DEF v

\* Letters of one byte.
Narrow == {c \in Letter : Bytes[c] = <<c>>}

LEMMA NarrowBytes == \A u \in Texts : AllIn(u, Narrow) => BytesOf(u) = u
<1> DEFINE S == {u \in Texts : AllIn(u, Narrow) => BytesOf(u) = u}
<1>1. <<>> \in S
  BY BytesEmpty, TextIn DEF Texts
<1>2. ASSUME NEW u \in S, NEW c \in Letter PROVE Append(u, c) \in S
  <2>1. u \in Texts /\ Append(u, c) \in Texts /\ Append(u, c) = Cat(u, <<c>>)
    BY TextsAppend
  <2>2. ASSUME AllIn(Append(u, c), Narrow) PROVE BytesOf(Append(u, c)) = Append(u, c)
    <3>1. AllIn(u, Narrow) /\ c \in Narrow
      BY <2>1, <2>2, AllInAppend
    <3>2. BytesOf(u) = u /\ Bytes[c] = <<c>>
      BY <3>1 DEF Narrow
    <3> QED BY <2>1, <3>2, BytesAppend
  <2> QED BY <2>1, <2>2
<1> HIDE DEF S
<1>3. S = Texts
  BY <1>1, <1>2, TextInduction DEF S
<1> QED BY <1>3 DEF S

\* Letters of words, and of symbols.
Plain == Letter \ (Spaces \cup Singles \cup Symbols \cup Quotes)
Letters(symbol) == IF symbol THEN Symbols \cap Letter ELSE Plain
Begun(t) == Reading(<<>>, <<t>>, FALSE)

LEMMA BegunParts ==
  ASSUME NEW t \in Tokens
  PROVE  /\ Begun(t).failed = FALSE /\ Begun(t).current = <<t>> /\ Begun(t).current # <<>>
         /\ Begun(t).current[1] = t /\ Begun(t).tokens = <<>> /\ Closed(Begun(t)) = <<t>>
<1>1. PICK s : s = Begun(t)
  OBVIOUS
<1>2. s.failed = FALSE /\ s.current = <<t>> /\ s.tokens = <<>>
  BY <1>1 DEF Begun, Reading
<1>3. <<t>> # <<>> /\ <<t>>[1] = t /\ <<>> \o <<t>> = <<t>>
  BY Tuples
<1>4. Closed(s) = <<t>>
  BY <1>2, <1>3 DEF Closed
<1> QED BY <1>1, <1>2, <1>3, <1>4

LEMMA TokenIn ==
  ASSUME NEW v \in Texts, NEW q \in Quotes \cup {None}, NEW b \in BOOLEAN
  PROVE  /\ Token(v, q, b) \in Tokens /\ Token(v, q, b).value = v
         /\ Token(v, q, b).quote = q /\ Token(v, q, b).symbol = b
  BY DEF Token, Tokens, Texts

LEMMA ReadExtends ==
  ASSUME NEW t \in Tokens, NEW c \in Letter,
         \/ t.quote # None /\ c # t.quote
         \/ t.quote = None /\ c \in Letters(t.symbol)
  PROVE  ReadLetter(Begun(t), c) = Begun(Token(Append(t.value, c), t.quote, t.symbol))
<1>1. PICK s : s = Begun(t)
  OBVIOUS
<1>2. s.failed = FALSE /\ s.current = <<t>> /\ s.current # <<>> /\ s.current[1] = t /\ s.tokens = <<>>
  BY <1>1, BegunParts
<1>3. Extended(s, c) = Begun(Token(Append(t.value, c), t.quote, t.symbol))
  BY <1>2 DEF Extended, Begun
<1>4. t.symbol \in BOOLEAN
  BY DEF Tokens
<1>5. ReadLetter(s, c) = Extended(s, c)
  <2>1. CASE t.quote # None /\ c # t.quote
    BY <1>2, <2>1 DEF ReadLetter
  <2>2. CASE t.quote = None /\ c \in Letters(t.symbol)
    <3>1. CASE t.symbol
      <4>1. c \in Symbols /\ c \notin Spaces /\ c \notin Singles /\ c \notin Quotes
        BY <2>2, <3>1, Classes DEF Letters
      <4> QED BY <1>2, <2>2, <3>1, <4>1 DEF ReadLetter
    <3>2. CASE ~t.symbol
      <4>1. c \notin Symbols /\ c \notin Spaces /\ c \notin Singles /\ c \notin Quotes
        BY <2>2, <3>2 DEF Letters, Plain
      <4> QED BY <1>2, <2>2, <3>2, <4>1 DEF ReadLetter
    <3> QED BY <3>1, <3>2
  <2> QED BY <2>1, <2>2
<1> QED BY <1>1, <1>3, <1>5

LEMMA ReadBegins ==
  ASSUME NEW c \in Letter
  PROVE  /\ \A b \in BOOLEAN : c \in Letters(b) => ReadLetter(Nothing, c) = Begun(Token(<<c>>, None, b))
         /\ c \in Quotes => ReadLetter(Nothing, c) = Begun(Token(<<>>, c, FALSE))
<1>1. Nothing.failed = FALSE /\ Nothing.current = <<>> /\ Nothing.tokens = <<>>
  BY DEF Reading, Nothing
<1>2. Closed(Nothing) = <<>>
  BY <1>1, Tuples DEF Closed
<1>3. ASSUME c \in Letters(TRUE) PROVE ReadLetter(Nothing, c) = Begun(Token(<<c>>, None, TRUE))
  <2>1. c \in Symbols /\ c \notin Spaces /\ c \notin Singles /\ c \notin Quotes
    BY <1>3, Classes DEF Letters
  <2>2. ReadLetter(Nothing, c) = Opened(Nothing, Token(<<c>>, None, TRUE))
    BY <1>1, <2>1 DEF ReadLetter
  <2> QED BY <1>2, <2>2 DEF Opened, Begun
<1>4. ASSUME c \in Letters(FALSE) PROVE ReadLetter(Nothing, c) = Begun(Token(<<c>>, None, FALSE))
  <2>1. c \notin Symbols /\ c \notin Spaces /\ c \notin Singles /\ c \notin Quotes
    BY <1>4 DEF Letters, Plain
  <2>2. ReadLetter(Nothing, c) = Opened(Nothing, Token(<<c>>, None, FALSE))
    BY <1>1, <2>1 DEF ReadLetter
  <2> QED BY <1>2, <2>2 DEF Opened, Begun
<1>5. ASSUME c \in Quotes PROVE ReadLetter(Nothing, c) = Begun(Token(<<>>, c, FALSE))
  <2>1. c \notin Symbols /\ c \notin Spaces /\ c \notin Singles
    BY <1>5, Classes
  <2>2. ReadLetter(Nothing, c) = Reading(<<>>, <<Token(<<>>, c, FALSE)>>, Nothing.current # <<>>)
    BY <1>1, <1>5, <2>1 DEF ReadLetter
  <2> QED BY <1>1, <2>2 DEF Begun
<1> QED BY <1>3, <1>4, <1>5
\* A space and a quote by names.
Blank == " "
Quote == "'"

LEMMA Space ==
  /\ Blank \in Letter /\ Blank \in Spaces /\ Gives(<<Blank>>, <<>>)
  /\ \A u \in Texts, ts \in Series : Gives(Cat(BytesOf(u), <<Blank>>), ts) => Says(u, ts)
<1>1. Blank \in Letter /\ Blank \in Spaces
  BY Special DEF Blank
<1>2. Gives(<<Blank>>, <<>>)
  BY GivesSpace DEF Blank
<1>3. \A u \in Texts, ts \in Series : Gives(Cat(BytesOf(u), <<Blank>>), ts) => Says(u, ts)
  BY SaysGives DEF Blank
<1> QED BY <1>1, <1>2, <1>3

\* A word, and what is made of symbols, is one token.
LEMMA ReadWord ==
  ASSUME NEW b \in BOOLEAN
  PROVE  \A u \in Texts : u # <<>> /\ AllIn(u, Letters(b)) => Read(u) = Begun(Token(u, None, b))
<1> DEFINE S == {u \in Texts : u # <<>> /\ AllIn(u, Letters(b)) => Read(u) = Begun(Token(u, None, b))}
<1>1. <<>> \in S
  BY DEF Texts
<1>2. ASSUME NEW u \in S, NEW c \in Letter PROVE Append(u, c) \in S
  <2>1. u \in Texts /\ Append(u, c) \in Texts
    BY TextsAppend
  <2>2. ASSUME AllIn(Append(u, c), Letters(b)) PROVE Read(Append(u, c)) = Begun(Token(Append(u, c), None, b))
    <3>1. AllIn(u, Letters(b)) /\ c \in Letters(b)
      BY <2>1, <2>2, AllInAppend
    <3>2. CASE u = <<>>
      <4>1. Append(u, c) = <<c>>
        BY <2>1, <3>2, Append1
      <4> QED BY <3>1, <4>1, ReadOne, ReadBegins
    <3>3. CASE u # <<>>
      <4> DEFINE t == Token(u, None, b)
      <4>1. t \in Tokens /\ t.value = u /\ t.quote = None /\ t.symbol = b
        BY <2>1, TokenIn
      <4>2. Read(u) = Begun(t)
        BY <3>1, <3>3
      <4> HIDE DEF t, S
      <4>3. ReadLetter(Begun(t), c) = Begun(Token(Append(u, c), None, b))
        BY <3>1, <4>1, ReadExtends
      <4> QED BY <2>1, <4>2, <4>3, ReadAppend
    <3> QED BY <3>2, <3>3
  <2> QED BY <2>1, <2>2
<1> HIDE DEF S
<1>3. S = Texts
  BY <1>1, <1>2, TextInduction DEF S
<1> QED BY <1>3 DEF S

LEMMA ReadEnds ==
  ASSUME NEW t \in Tokens, NEW c \in Letter,
         \/ t.quote = None /\ c \in Spaces
         \/ t.quote # None /\ c = t.quote
  PROVE  ReadLetter(Begun(t), c) = Reading(<<t>>, <<>>, FALSE)
<1>1. PICK s : s = Begun(t)
  OBVIOUS
<1>2. s.failed = FALSE /\ s.current = <<t>> /\ s.current # <<>> /\ s.current[1] = t /\ Closed(s) = <<t>>
  BY <1>1, BegunParts
<1>3. ReadLetter(s, c) = Reading(Closed(s), <<>>, FALSE)
  <2>1. CASE t.quote = None /\ c \in Spaces
    <3>1. c \notin Singles /\ c \notin Symbols /\ c \notin Quotes
      BY <2>1, Classes
    <3> QED BY <1>2, <2>1, <3>1 DEF ReadLetter
  <2>2. CASE t.quote # None /\ c = t.quote
    BY <1>2, <2>2 DEF ReadLetter
  <2> QED BY <2>1, <2>2
<1> QED BY <1>1, <1>2, <1>3

LEMMA SaysEnded ==
  ASSUME NEW u \in Texts, BytesOf(u) = u, NEW t \in Tokens, t.quote = None, Read(u) = Begun(t)
  PROVE  Says(u, <<t>>)
<1>1. ReadLetter(Begun(t), Blank) = Reading(<<t>>, <<>>, FALSE)
  BY Space, ReadEnds
<1>2. Read(Append(u, Blank)) = Reading(<<t>>, <<>>, FALSE)
  BY <1>1, Space, ReadAppend
<1>3. Append(u, Blank) \in Texts /\ Append(u, Blank) = Cat(u, <<Blank>>)
  BY Space, TextsAppend
<1>4. <<t>> \in Series
  BY Tuples DEF Series
<1>5. Gives(Append(u, Blank), <<t>>)
  BY <1>2, <1>3, <1>4 DEF Gives
<1>6. Gives(Cat(BytesOf(u), <<Blank>>), <<t>>)
  BY <1>3, <1>5
<1> QED BY <1>4, <1>6, Space

LEMMA SaysWord ==
  ASSUME NEW b \in BOOLEAN, NEW u \in Texts, u # <<>>, AllIn(u, Letters(b)), AllIn(u, Narrow)
  PROVE  Says(u, <<Token(u, None, b)>>)
<1> DEFINE t == Token(u, None, b)
<1>1. t \in Tokens /\ t.quote = None
  BY TokenIn
<1>2. Read(u) = Begun(t) /\ BytesOf(u) = u
  BY ReadWord, NarrowBytes
<1> HIDE DEF t
<1>4. Says(u, <<t>>)
  BY <1>1, <1>2, SaysEnded
<1> QED BY <1>4 DEF t

\* What is quoted is one token, whatever is in it.
Quoted(v) == Cat(<<Quote>>, Cat(v, <<Quote>>))

LEMMA Apostrophe ==
  Quote \in Quotes /\ Quote \in Letter /\ Quote \in Narrow /\ Quote # None /\ <<Quote>> \in Texts /\ BytesOf(<<Quote>>) = <<Quote>>
<1>1. Quote \in Quotes /\ None \notin Quotes
  BY LanguageAssumption DEF Quote
<1>2. Quote \in Letter /\ Bytes[Quote] = <<Quote>>
  BY <1>1, LanguageAssumption
<1>3. Quote \in Narrow /\ <<Quote>> \in Texts /\ <<>> \in Texts /\ Append(<<>>, Quote) = <<Quote>>
  BY <1>2, Tuples DEF Narrow, Texts
<1>4. BytesOf(<<Quote>>) = Cat(<<>>, <<Quote>>)
  BY <1>2, <1>3, BytesAppend, BytesEmpty
<1>5. Cat(<<>>, <<Quote>>) = <<Quote>>
  BY <1>3, TextIn
<1> QED BY <1>1, <1>2, <1>3, <1>4, <1>5

LEMMA QuotedToken ==
  ASSUME NEW v \in Texts
  PROVE  LET t == Token(v, Quote, FALSE)
         IN t \in Tokens /\ t.value = v /\ t.quote = Quote /\ t.symbol = FALSE /\ <<t>> \in Series
<1> DEFINE t == Token(v, Quote, FALSE)
<1>1. t \in Tokens /\ t.value = v /\ t.quote = Quote /\ t.symbol = FALSE
  <2>1. Quote \in Quotes \cup {None} /\ FALSE \in BOOLEAN
    BY Apostrophe
  <2> QED BY <2>1, TokenIn
<1> HIDE DEF t
<1>2. <<t>> \in Series
  BY <1>1, Tuples DEF Series
<1> QED BY <1>1, <1>2 DEF t

LEMMA TextCatAppend ==
  ASSUME NEW u \in Texts, NEW v \in Texts, NEW c \in Letter
  PROVE  Cat(u, Append(v, c)) = Append(Cat(u, v), c) /\ Cat(u, v) \in Texts
<1>1. Cat(u, v) \in Texts
  BY TextIn
<1>2. Cat(u, Append(v, c)) = Append(Cat(u, v), c)
  BY CatAppend DEF Texts
<1> QED BY <1>1, <1>2

LEMMA ReadQuoted ==
  \A v \in Texts : AllIn(v, Letter \ {Quote}) => Read(Cat(<<Quote>>, v)) = Begun(Token(v, Quote, FALSE))
<1> DEFINE S == {v \in Texts : AllIn(v, Letter \ {Quote}) => Read(Cat(<<Quote>>, v)) = Begun(Token(v, Quote, FALSE))}
<1>1. <<>> \in S
  <2>1. Cat(<<Quote>>, <<>>) = <<Quote>> /\ <<>> \in Texts
    BY Apostrophe, TextIn
  <2> QED BY <2>1, Apostrophe, ReadOne, ReadBegins
<1>2. ASSUME NEW v \in S, NEW c \in Letter PROVE Append(v, c) \in S
  <2>1. v \in Texts /\ Append(v, c) \in Texts
    BY TextsAppend
  <2>2. ASSUME AllIn(Append(v, c), Letter \ {Quote})
        PROVE  Read(Cat(<<Quote>>, Append(v, c))) = Begun(Token(Append(v, c), Quote, FALSE))
    <3>1. AllIn(v, Letter \ {Quote}) /\ c # Quote
      BY <2>1, <2>2, AllInAppend
    <3> DEFINE t == Token(v, Quote, FALSE)
    <3>2. t \in Tokens /\ t.value = v /\ t.quote = Quote /\ t.symbol = FALSE
      BY <2>1, QuotedToken
    <3>3. Read(Cat(<<Quote>>, v)) = Begun(t)
      BY <3>1
    <3> HIDE DEF t, S
    <3>4. ReadLetter(Begun(t), c) = Begun(Token(Append(v, c), Quote, FALSE))
      BY <3>1, <3>2, Apostrophe, ReadExtends
    <3>5. Cat(<<Quote>>, Append(v, c)) = Append(Cat(<<Quote>>, v), c) /\ Cat(<<Quote>>, v) \in Texts
      <4>1. <<Quote>> \in Texts
        BY Apostrophe
      <4> QED BY <2>1, <4>1, TextCatAppend
    <3> QED BY <3>3, <3>4, <3>5, ReadAppend
  <2> QED BY <2>1, <2>2
<1> HIDE DEF S
<1>3. S = Texts
  BY <1>1, <1>2, TextInduction DEF S
<1> QED BY <1>3 DEF S

LEMMA SaysGiven ==
  ASSUME NEW u \in Texts, NEW ts, Gives(BytesOf(u), ts)
  PROVE  Says(u, ts)
<1>1. ts \in Series
  BY DEF Gives
<1>2. Gives(Cat(BytesOf(u), <<Blank>>), Cat(ts, <<>>))
  BY Space, GivesCat
<1>3. Cat(ts, <<>>) = ts
  BY <1>1, SeriesIn
<1>4. Gives(Cat(BytesOf(u), <<Blank>>), ts)
  BY <1>2, <1>3
<1> QED BY <1>1, <1>4, Space

LEMMA SaysQuoted ==
  ASSUME NEW v \in Texts, AllIn(v, Narrow), AllIn(v, Letter \ {Quote})
  PROVE  Says(Quoted(v), <<Token(v, Quote, FALSE)>>)
<1> DEFINE t == Token(v, Quote, FALSE)
           q == Cat(<<Quote>>, v)
           u == Append(q, Quote)
<1>1. t \in Tokens /\ t.quote = Quote /\ Quote \in Letter /\ Quote # None /\ <<t>> \in Series
  BY Apostrophe, QuotedToken
<1>2. q \in Texts /\ u \in Texts /\ u = Cat(q, <<Quote>>) /\ Quoted(v) = u
  <2>1. q \in Texts
    BY Apostrophe, TextIn
  <2>2. u \in Texts /\ u = Cat(q, <<Quote>>)
    BY <2>1, Apostrophe, TextsAppend
  <2> QED BY <2>1, <2>2, Apostrophe, TextIn3 DEF Quoted
<1>3. BytesOf(u) = u
  <2>1. BytesOf(q) = q
    BY Apostrophe, BytesCat, NarrowBytes
  <2> HIDE DEF q, u
  <2>2. <<Quote>> \in Texts /\ BytesOf(<<Quote>>) = <<Quote>>
    BY Apostrophe
  <2>3. BytesOf(Cat(q, <<Quote>>)) = Cat(BytesOf(q), BytesOf(<<Quote>>))
    BY <1>2, <2>2, BytesCat
  <2>4. BytesOf(Cat(q, <<Quote>>)) = Cat(q, <<Quote>>)
    BY <2>1, <2>2, <2>3
  <2> QED BY <1>2, <2>4
<1>4. Read(q) = Begun(t)
  BY ReadQuoted
<1> HIDE DEF t, q
<1>5. Gives(u, <<t>>)
  BY <1>1, <1>2, <1>4, ReadAppend, ReadEnds DEF Gives
<1> HIDE DEF u
<1>8. Says(u, <<t>>)
  BY <1>2, <1>3, <1>5, SaysGiven
<1> QED BY <1>2, <1>8 DEF t
\* A sequence, element by element.
Through(g, u) == [i \in DOMAIN u |-> g[u[i]]]
Maps(g, S, T) == g \in [S -> T]

LEMMA ThroughAppend ==
  ASSUME NEW S, NEW T, NEW g, Maps(g, S, T), NEW u \in Seq(S), NEW x \in S
  PROVE  /\ Through(g, u) \in Seq(T) /\ Len(Through(g, u)) = Len(u)
         /\ Through(g, Append(u, x)) = Append(Through(g, u), g[x])
<1> DEFINE n == Len(u)
           v == Append(u, x)
           y == g[x]
           ss == Through(g, u)
           rs == Through(g, v)
<1>0. g \in [S -> T]
  BY DEF Maps
<1>1. n \in Nat /\ DOMAIN u = 1..n /\ Len(v) = n + 1 /\ v \in Seq(S)
  OBVIOUS
<1>2. v[n + 1] = x /\ \A i \in 1..n : v[i] = u[i] /\ u[i] \in S
  BY AppendProperties
<1>3. y \in T
  BY <1>0
<1> HIDE DEF n, v, y
<1>4. ss \in Seq(T) /\ Len(ss) = n /\ \A i \in 1..n : ss[i] = g[u[i]]
  BY <1>0, <1>1, <1>2 DEF Through
<1>5. \A i \in 1..(n + 1) : v[i] \in S
  BY <1>1
<1>6. rs \in Seq(T) /\ Len(rs) = n + 1 /\ \A i \in 1..(n + 1) : rs[i] = g[v[i]]
  <2>1. DOMAIN v = 1..(n + 1)
    BY <1>1
  <2> QED BY <1>0, <1>1, <1>5, <2>1 DEF Through
<1> HIDE DEF ss, rs
<1>7. /\ Append(ss, y) \in Seq(T) /\ Len(Append(ss, y)) = n + 1 /\ Append(ss, y)[n + 1] = y
      /\ \A i \in 1..n : Append(ss, y)[i] = ss[i]
  BY <1>3, <1>4, AppendProperties
<1>8. \A i \in 1..(n + 1) : rs[i] = Append(ss, y)[i]
  <2>1. \A i \in 1..n : i \in 1..(n + 1)
    BY <1>1
  <2>2. \A i \in 1..n : rs[i] = g[u[i]] /\ ss[i] = g[u[i]]
    BY <1>2, <1>4, <1>6, <2>1
  <2>3. n + 1 \in 1..(n + 1)
    BY <1>1
  <2>4. rs[n + 1] = y
    BY <1>2, <1>6, <2>3 DEF y
  <2>5. \A i \in 1..(n + 1) : i \in 1..n \/ i = n + 1
    BY <1>1
  <2> QED BY <1>7, <2>2, <2>4, <2>5
<1>9. rs = Append(ss, y)
  BY <1>6, <1>7, <1>8, SeqEqual
<1> QED BY <1>4, <1>9 DEF ss, rs, v, y, n

LEMMA ThroughNothing == \A g : Through(g, <<>>) = <<>>
  BY DEF Through

\* A text without apostrophes, letter by letter.
Singly(v) == [i \in DOMAIN v |-> <<v[i]>>]

LEMMA SinglyAppend ==
  ASSUME NEW S, NEW u \in Seq(S), NEW c \in S
  PROVE  Singly(u) \in Seq(Seq(S)) /\ Singly(Append(u, c)) = Append(Singly(u), <<c>>)
<1> DEFINE g == [d \in S |-> <<d>>]
           Q == Seq(S)
<1>1. Maps(g, S, Q) /\ g[c] = <<c>>
  BY Tuples DEF Maps
<1>2. \A v \in Q : Singly(v) = Through(g, v)
  <2>1. SUFFICES ASSUME NEW v \in Q PROVE Singly(v) = Through(g, v)
    OBVIOUS
  <2>2. \A i \in DOMAIN v : v[i] \in S
    OBVIOUS
  <2> QED BY <2>2 DEF Singly, Through
<1>3. u \in Q /\ Append(u, c) \in Q
  OBVIOUS
<1> HIDE DEF g, Q
<1>4. Through(g, u) \in Seq(Q) /\ Through(g, Append(u, c)) = Append(Through(g, u), g[c])
  BY <1>1, ThroughAppend
<1> QED BY <1>1, <1>2, <1>3, <1>4 DEF Q

LEMMA SinglyFlat == \A v \in Texts : FlattenSeq(Singly(v)) = v
<1> DEFINE S == {v \in Texts : FlattenSeq(Singly(v)) = v}
<1>1. <<>> \in S
  <2>1. Singly(<<>>) = <<>>
    BY DEF Singly
  <2>2. <<>> \in Texts
    BY DEF Texts
  <2> QED BY <2>1, <2>2, FlatEmpty
<1>2. ASSUME NEW v \in S, NEW c \in Letter PROVE Append(v, c) \in S
  <2>1. v \in Texts /\ Append(v, c) \in Texts /\ <<c>> \in Texts /\ Append(v, c) = Cat(v, <<c>>)
    BY TextsAppend
  <2>2. Singly(v) \in Seq(Texts) /\ Singly(Append(v, c)) = Append(Singly(v), <<c>>)
    BY <2>1, SinglyAppend DEF Texts
  <2>3. FlattenSeq(Append(Singly(v), <<c>>)) = Cat(FlattenSeq(Singly(v)), <<c>>)
    BY <2>1, <2>2, TextsJoin, FlatAppend
  <2> QED BY <2>1, <2>2, <2>3
<1> HIDE DEF S
<1>3. S = Texts
  BY <1>1, <1>2, TextInduction DEF S
<1> QED BY <1>3 DEF S

\* What PlainText says of letters.
LEMMA PlainLetters ==
  ASSUME NEW v \in Texts, PlainText(v)
  PROVE  v # <<>> /\ AllIn(v, Narrow) /\ AllIn(v, Letter \ {Quote}) /\ AllIn(v, Letter \ Quotes)
<1>1. \A i \in DOMAIN v : v[i] \in Letter
  BY DEF Texts
<1>2. v # <<>> /\ \A i \in DOMAIN v : v[i] \notin Quotes /\ Bytes[v[i]] = <<v[i]>>
  BY DEF PlainText
<1>3. AllIn(v, Letter \ Quotes) /\ AllIn(v, Narrow)
  BY <1>1, <1>2 DEF AllIn, Narrow
<1>4. AllIn(v, Letter \ {Quote})
  BY <1>3, Apostrophe DEF AllIn
<1> QED BY <1>2, <1>3, <1>4

LEMMA QuoteForms ==
  ASSUME NEW v \in Texts, PlainText(v)
  PROVE  \/ AllIn(v, Plain) /\ QuoteIfNecessary(v) = v
         \/ QuoteIfNecessary(v) = Quoted(v)
<1> DEFINE g == [i \in DOMAIN v |-> IF v[i] = Quote THEN <<"\\", Quote>> ELSE <<v[i]>>]
           bare == \A i \in DOMAIN v : v[i] \notin Spaces \cup Singles \cup Symbols
<1>1. QuoteIfNecessary(v) = IF bare THEN v ELSE <<Quote>> \o FlattenSeq(g) \o <<Quote>>
  BY DEF QuoteIfNecessary, Quote
<1>2. g = Singly(v)
  <2>1. \A i \in DOMAIN v : v[i] # Quote
    BY PlainLetters DEF AllIn
  <2> QED BY <2>1 DEF Singly
<1>3. FlattenSeq(g) = v
  BY <1>2, SinglyFlat
<1>4. (<<Quote>> \o v) \o <<Quote>> = Quoted(v)
  <2>1. Cat(Cat(<<Quote>>, v), <<Quote>>) = Cat(<<Quote>>, Cat(v, <<Quote>>))
    BY Apostrophe, TextIn3
  <2> QED BY <2>1 DEF Cat, Quoted
<1>5. bare => AllIn(v, Plain)
  BY PlainLetters DEF AllIn, Plain
<1> HIDE DEF g, bare
<1> QED BY <1>1, <1>3, <1>4, <1>5

\* A token for v that is no punctuation.
Stated(t, v) == t \in Tokens /\ t.value = v /\ \A c \in Singles : ~Bare(t, <<c>>)

LEMMA SaysPlain ==
  ASSUME NEW v \in Texts, PlainText(v)
  PROVE  \E t : Says(QuoteIfNecessary(v), <<t>>) /\ Stated(t, v)
<1>1. v # <<>> /\ AllIn(v, Narrow) /\ AllIn(v, Letter \ {Quote})
  BY PlainLetters
<1>2. CASE AllIn(v, Plain) /\ QuoteIfNecessary(v) = v
  <2> DEFINE t == Token(v, None, FALSE)
  <2>1. Says(v, <<t>>)
    BY <1>1, <1>2, SaysWord DEF Letters
  <2>2. t \in Tokens /\ t.value = v
    BY TokenIn
  <2>3. ASSUME NEW c \in Singles PROVE v # <<c>>
    <3>1. c \notin Plain
      BY DEF Plain
    <3>2. 1 \in DOMAIN <<c>> /\ <<c>>[1] = c
      OBVIOUS
    <3> QED BY <1>2, <3>1, <3>2 DEF AllIn
  <2> HIDE DEF t
  <2>4. Stated(t, v)
    BY <2>2, <2>3 DEF Stated, Bare
  <2> QED BY <1>2, <2>1, <2>4
<1>3. CASE QuoteIfNecessary(v) = Quoted(v)
  <2> DEFINE t == Token(v, Quote, FALSE)
  <2>1. Says(Quoted(v), <<t>>)
    BY <1>1, SaysQuoted
  <2>2. t \in Tokens /\ t.value = v /\ t.quote # None
    BY QuotedToken, Apostrophe
  <2> HIDE DEF t
  <2>3. Stated(t, v)
    BY <2>2 DEF Stated, Bare
  <2> QED BY <1>3, <2>1, <2>3
<1> QED BY <1>2, <1>3, QuoteForms

\* A word of the grammar, and an operation.
LEMMA SaysKnown == \A w \in Words : Says(<<w>>, <<Mark(w)>>) /\ Mark(w) \in Tokens
<1> SUFFICES ASSUME NEW w \in Words PROVE Says(<<w>>, <<Mark(w)>>) /\ Mark(w) \in Tokens
  OBVIOUS
<1>1. w \in Letter /\ Bytes[w] = <<w>> /\ w \notin Spaces \cup Singles \cup Symbols \cup Quotes
  BY LanguageAssumption, Classes
<1>2. <<w>> \in Texts /\ <<w>> # <<>> /\ DOMAIN <<w>> = {1} /\ <<w>>[1] = w
  <2>1. <<w>> \in Texts
    BY <1>1, Tuples DEF Texts
  <2>2. <<w>> # <<>> /\ DOMAIN <<w>> = {1} /\ <<w>>[1] = w
    OBVIOUS
  <2> QED BY <2>1, <2>2
<1>3. w \in Letters(FALSE) /\ w \in Narrow
  BY <1>1 DEF Letters, Plain, Narrow
<1>4. AllIn(<<w>>, Letters(FALSE)) /\ AllIn(<<w>>, Narrow)
  BY <1>2, <1>3 DEF AllIn
<1>5. Says(<<w>>, <<Token(<<w>>, None, FALSE)>>)
  BY <1>2, <1>4, SaysWord
<1>6. Token(<<w>>, None, FALSE) \in Tokens
  BY <1>2, TokenIn
<1> QED BY <1>5, <1>6 DEF Mark
LEMMA OneOrTwo ==
  ASSUME NEW S, NEW x \in S, NEW y \in S
  PROVE  <<x>> # <<>> /\ AllIn(<<x>>, S) /\ <<x, y>> # <<>> /\ AllIn(<<x, y>>, S)
<1>1. DOMAIN <<x>> = {1} /\ <<x>>[1] = x /\ DOMAIN <<x, y>> = {1, 2} /\ <<x, y>>[1] = x /\ <<x, y>>[2] = y
  OBVIOUS
<1>2. AllIn(<<x>>, S) /\ AllIn(<<x, y>>, S)
  BY <1>1 DEF AllIn
<1>3. <<x>> # <<>> /\ <<x, y>> # <<>>
  BY <1>1
<1> QED BY <1>2, <1>3

Strokes == {"=", "!", ">", "<", "~"}

LEMMA OperationStrokes == \A op \in Operations : op # <<>> /\ AllIn(op, Strokes)
<1> SUFFICES ASSUME NEW op \in Operations PROVE op # <<>> /\ AllIn(op, Strokes)
  OBVIOUS
<1>1. \E x, y \in Strokes : op = <<x>> \/ op = <<x, y>>
  BY DEF Operations, Strokes
<1> QED BY <1>1, OneOrTwo

LEMMA SaysOperation ==
  ASSUME NEW op \in Operations \cap Texts
  PROVE  Says(op, <<Token(op, None, TRUE)>>) /\ Token(op, None, TRUE) \in Tokens
<1>1. op # <<>> /\ AllIn(op, Strokes)
  BY OperationStrokes
<1>2. \A i \in DOMAIN op : op[i] \in Letter
  BY DEF Texts
<1>3. Strokes \cap Letter \subseteq Symbols
  BY LanguageAssumption DEF Strokes
<1>4. \A c \in Symbols : c \in Letter /\ Bytes[c] = <<c>>
  BY LanguageAssumption
<1>5. \A i \in DOMAIN op : op[i] \in Symbols /\ op[i] \in Letter /\ Bytes[op[i]] = <<op[i]>>
  BY <1>1, <1>2, <1>3, <1>4 DEF AllIn
<1>6. AllIn(op, Letters(TRUE)) /\ AllIn(op, Narrow)
  BY <1>5 DEF AllIn, Letters, Narrow
<1>7. Says(op, <<Token(op, None, TRUE)>>)
  BY <1>1, <1>6, SaysWord
<1>8. Token(op, None, TRUE) \in Tokens
  BY TokenIn
<1> QED BY <1>7, <1>8

\* A comma ends a token too.
Comma == ","

LEMMA CommaFacts ==
  /\ Comma \in Letter /\ Comma \in Singles /\ BytesOf(<<Comma>>) = <<Comma>> /\ <<Comma>> \in Texts
  /\ Mark(Comma) \in Tokens /\ <<Mark(Comma)>> \in Series /\ Rise(Mark(Comma)) = 0
  /\ \A u \in Texts : \A ts : Gives(Append(u, Blank), ts) => Gives(Append(u, Comma), Append(ts, Mark(Comma)))
<1>1. Comma \in Letter /\ Comma \in Singles /\ BytesOf(<<Comma>>) = <<Comma>> /\ Mark(Comma) \in Tokens
  BY Special DEF Comma
<1>2. <<Comma>> \in Texts /\ <<Mark(Comma)>> \in Series
  BY <1>1, Tuples DEF Texts, Series
<1>3. Rise(Mark(Comma)) = 0
  <2>1. Comma # "(" /\ Comma # ")"
    BY DEF Comma
  <2>2. ~Bare(Mark(Comma), <<"(">>) /\ ~Bare(Mark(Comma), <<")">>)
    BY <2>1, MarkFacts
  <2> QED BY <2>2 DEF Rise
<1>4. \A u \in Texts : \A ts : Gives(Append(u, Blank), ts) => Gives(Append(u, Comma), Append(ts, Mark(Comma)))
  BY GivesClosing DEF Blank, Comma
<1> QED BY <1>1, <1>2, <1>3, <1>4

LEMMA SaysComma ==
  ASSUME NEW u, NEW ts, Says(u, ts)
  PROVE  Says(Cat(u, <<Comma>>), Cat(ts, <<Mark(Comma)>>))
<1> DEFINE b == BytesOf(u)
<1>1. u \in Texts /\ ts \in Series /\ b \in Texts
  BY BytesCat DEF Says
<1>2. Gives(Cat(b, <<Blank>>), ts)
  BY <1>1, SaysGives DEF Blank
<1>3. BytesOf(Cat(u, <<Comma>>)) = Cat(b, <<Comma>>) /\ Cat(u, <<Comma>>) \in Texts
  <2> HIDE DEF b
  <2>1. <<Comma>> \in Texts /\ BytesOf(<<Comma>>) = <<Comma>>
    BY CommaFacts
  <2>2. BytesOf(Cat(u, <<Comma>>)) = Cat(b, BytesOf(<<Comma>>))
    BY <1>1, <2>1, BytesCat DEF b
  <2> QED BY <1>1, <2>1, <2>2, TextIn
<1> HIDE DEF b
<1>4. Append(b, Blank) = Cat(b, <<Blank>>) /\ Append(b, Comma) = Cat(b, <<Comma>>)
  BY <1>1, TextsAppend, Space, CommaFacts
<1>5. Append(ts, Mark(Comma)) = Cat(ts, <<Mark(Comma)>>)
  BY <1>1, CommaFacts, SeriesAppend
<1>6. Gives(Cat(b, <<Comma>>), Cat(ts, <<Mark(Comma)>>))
  BY <1>1, <1>2, <1>4, <1>5, CommaFacts
<1> QED BY <1>3, <1>6, SaysGiven
-----------------------------------------------------------------------------
(* A list of values. *)

PlainTexts == {v \in Texts : PlainText(v)}
Quoting == [v \in PlainTexts |-> QuoteIfNecessary(v)]
ListText(vs) == Join(Through(Quoting, vs), <<Comma, Blank>>)

\* Values with a comma between each two.
Listing(ts, vs) ==
  /\ ts \in Series /\ Len(ts) = IF vs = <<>> THEN 0 ELSE 2 * Len(vs) - 1
  /\ \A i \in 1..Len(vs) : Stated(ts[2 * i - 1], vs[i])
  /\ \A i \in 1..Len(vs) - 1 : ts[2 * i] = Mark(Comma)

LEMMA QuotingParts ==
  /\ Maps(Quoting, PlainTexts, Texts)
  /\ \A v \in PlainTexts : /\ Quoting[v] = QuoteIfNecessary(v) /\ QuoteIfNecessary(v) \in Texts
                           /\ \E t : Says(QuoteIfNecessary(v), <<t>>) /\ Stated(t, v)
<1>1. ASSUME NEW v \in PlainTexts
      PROVE  \E t : Says(QuoteIfNecessary(v), <<t>>) /\ Stated(t, v)
  BY SaysPlain DEF PlainTexts
<1>2. \A v \in PlainTexts : QuoteIfNecessary(v) \in Texts
  BY <1>1 DEF Says
<1>3. Maps(Quoting, PlainTexts, Texts)
  BY <1>2 DEF Quoting, Maps
<1>4. \A v \in PlainTexts : Quoting[v] = QuoteIfNecessary(v)
  BY DEF Quoting
<1> QED BY <1>1, <1>2, <1>3, <1>4

LEMMA CatShift ==
  ASSUME NEW J \in Texts, NEW a \in Texts, NEW b \in Texts, NEW q \in Texts
  PROVE  Cat(J, Cat(Cat(a, b), q)) = Cat(Cat(J, a), Cat(b, q))
<1>1. Cat(Cat(a, b), q) = Cat(a, Cat(b, q)) /\ Cat(b, q) \in Texts
  BY TextIn3
<1>2. Cat(Cat(J, a), Cat(b, q)) = Cat(J, Cat(a, Cat(b, q)))
  BY <1>1, TextIn3
<1> QED BY <1>1, <1>2

LEMMA ListTextAppend ==
  ASSUME NEW vs \in Seq(PlainTexts), NEW v \in PlainTexts
  PROVE  /\ ListText(vs) \in Texts
         /\ vs = <<>> => ListText(Append(vs, v)) = QuoteIfNecessary(v)
         /\ vs # <<>> => ListText(Append(vs, v)) = Spaced(Cat(ListText(vs), <<Comma>>), QuoteIfNecessary(v))
<1> DEFINE sep == <<Comma, Blank>>
           a == <<Comma>>
           b == <<Blank>>
           q == QuoteIfNecessary(v)
           qs == Through(Quoting, vs)
           J == ListText(vs)
<1>1. sep \in Texts /\ a \in Texts /\ b \in Texts /\ sep = Cat(a, b)
  BY CommaFacts, Space, Tuples DEF Texts
<1>2. q \in Texts /\ q = Quoting[v]
  BY QuotingParts
<1>3. qs \in Seq(Texts) /\ Len(qs) = Len(vs) /\ Through(Quoting, Append(vs, v)) = Append(qs, Quoting[v])
  BY QuotingParts, ThroughAppend
<1>4. J = Join(qs, sep) /\ ListText(Append(vs, v)) = Join(Append(qs, q), sep)
  BY <1>2, <1>3 DEF ListText
<1>5. qs = <<>> <=> vs = <<>>
  <2> HIDE DEF qs
  <2> QED BY <1>3
<1> HIDE DEF sep, a, b, q, qs, J
<1>6. /\ Join(qs, sep) \in Texts
      /\ Join(Append(qs, q), sep) = IF qs = <<>> THEN q ELSE Cat(Join(qs, sep), Cat(sep, q))
  BY <1>1, <1>2, <1>3, TextsJoin, JoinAppend
<1>7. Cat(J, Cat(sep, q)) = Spaced(Cat(J, a), q)
  <2>1. Cat(J, Cat(Cat(a, b), q)) = Cat(Cat(J, a), Cat(b, q))
    BY <1>1, <1>2, <1>4, <1>6, CatShift
  <2> QED BY <1>1, <2>1 DEF Spaced, b, Blank
<1> QED BY <1>4, <1>5, <1>6, <1>7 DEF J, a, q

LEMMA StatedRise == \A t, v : Stated(t, v) => Rise(t) = 0 /\ ~Bare(t, <<Comma>>) /\ t.value = v /\ t \in Tokens
<1> SUFFICES ASSUME NEW t, NEW v, Stated(t, v)
             PROVE  Rise(t) = 0 /\ ~Bare(t, <<Comma>>) /\ t.value = v /\ t \in Tokens
  OBVIOUS
<1>1. ~Bare(t, <<"(">>) /\ ~Bare(t, <<")">>)
  BY Special DEF Stated
<1>2. ~Bare(t, <<Comma>>)
  BY CommaFacts DEF Stated
<1> QED BY <1>1, <1>2 DEF Stated, Rise

\* Tokens without parentheses.
LEMMA LevelFlat ==
  ASSUME NEW ts \in Series, \A i \in 1..Len(ts) : Rise(ts[i]) = 0
  PROVE  Balanced(ts)
<1> DEFINE K == {k \in Nat : k <= Len(ts) => Level(ts, k) = 0}
<1>1. Len(ts) \in Nat
  BY SeriesLen
<1>2. 0 \in K
  BY LevelZero
<1>3. ASSUME NEW k \in K PROVE k + 1 \in K
  <2>1. k \in Nat /\ Level(ts, k + 1) = Level(ts, k) + Rise(ts[k + 1])
    BY LevelStep
  <2>2. ASSUME k + 1 <= Len(ts) PROVE Level(ts, k + 1) = 0
    <3>1. k + 1 \in 1..Len(ts) /\ Level(ts, k) = 0
      BY <1>1, <2>1, <2>2
    <3> QED BY <2>1, <3>1
  <2> QED BY <2>1, <2>2
<1> HIDE DEF K
<1>4. K = Nat
  BY <1>2, <1>3, Climbing DEF K
<1> QED BY <1>1, <1>4 DEF K, Balanced

LEMMA Halves == \A j \in Nat : \E h \in Nat : j = 2 * h \/ j = 2 * h + 1
<1> DEFINE K == {j \in Nat : \E h \in Nat : j = 2 * h \/ j = 2 * h + 1}
<1>1. 0 \in K
  <2>1. 0 \in Nat /\ 0 = 2 * 0
    OBVIOUS
  <2> QED BY <2>1
<1>2. ASSUME NEW j \in K PROVE j + 1 \in K
  <2>1. PICK h \in Nat : j = 2 * h \/ j = 2 * h + 1
    OBVIOUS
  <2>2. j + 1 \in Nat /\ h + 1 \in Nat /\ (j + 1 = 2 * h + 1 \/ j + 1 = 2 * (h + 1))
    BY <2>1
  <2>3. \E i \in Nat : j + 1 = 2 * i \/ j + 1 = 2 * i + 1
    BY <2>2
  <2> QED BY <2>2, <2>3
<1> HIDE DEF K
<1>3. K = Nat
  BY <1>1, <1>2, Climbing DEF K
<1> QED BY <1>3 DEF K

LEMMA ListingGives ==
  ASSUME NEW vs \in Seq(Texts), NEW ts, Listing(ts, vs)
  PROVE  Balanced(ts) /\ ListOf(ts).ok /\ ListOf(ts).values = vs
<1> DEFINE k == Len(vs)
           n == Len(ts)
<1>1. k \in Nat /\ DOMAIN vs = 1..k /\ (vs = <<>> <=> k = 0)
  OBVIOUS
<1>2. ts \in Series /\ n \in Nat /\ DOMAIN ts = 1..n /\ n = IF k = 0 THEN 0 ELSE 2 * k - 1
  BY <1>1, SeriesLen DEF Listing
<1>3. \A i \in 1..k : Stated(ts[2 * i - 1], vs[i])
  BY DEF Listing
<1>4. \A i \in 1..k - 1 : ts[2 * i] = Mark(Comma)
  BY DEF Listing
<1> HIDE DEF k, n
<1>5. ASSUME NEW j \in 1..n
      PROVE  \/ j % 2 = 1 /\ \E i \in 1..k : j = 2 * i - 1
             \/ j % 2 = 0 /\ \E i \in 1..k - 1 : j = 2 * i
  <2>1. PICK i \in Nat : j = 2 * i \/ j = 2 * i - 1
    <3>0. j \in Nat
      BY <1>2
    <3>1. PICK h \in Nat : j = 2 * h \/ j = 2 * h + 1
      BY <3>0, Halves
    <3>2. h + 1 \in Nat /\ (j = 2 * h + 1 => j = 2 * (h + 1) - 1)
      OBVIOUS
    <3> QED BY <3>1, <3>2
  <2>2. CASE j = 2 * i
    <3>1. i \in 1..k - 1 /\ j % 2 = 0
      BY <1>1, <1>2, <2>2
    <3> QED BY <2>2, <3>1
  <2>3. CASE j = 2 * i - 1
    <3>1. i \in 1..k /\ j % 2 = 1
      BY <1>1, <1>2, <2>3
    <3> QED BY <2>3, <3>1
  <2> QED BY <2>1, <2>2, <2>3
<1>6. \A j \in 1..n : Rise(ts[j]) = 0 /\ (Bare(ts[j], <<Comma>>) <=> j % 2 = 0)
  <2>1. SUFFICES ASSUME NEW j \in 1..n PROVE Rise(ts[j]) = 0 /\ (Bare(ts[j], <<Comma>>) <=> j % 2 = 0)
    OBVIOUS
  <2>2. CASE j % 2 = 1 /\ \E i \in 1..k : j = 2 * i - 1
    <3>1. PICK i \in 1..k : j = 2 * i - 1
      BY <2>2
    <3>2. Stated(ts[j], vs[i])
      BY <1>3, <3>1
    <3> QED BY <2>2, <3>2, StatedRise
  <2>3. CASE j % 2 = 0 /\ \E i \in 1..k - 1 : j = 2 * i
    <3>1. ts[j] = Mark(Comma)
      BY <1>4, <2>3
    <3>2. Bare(Mark(Comma), <<Comma>>)
      BY MarkFacts
    <3> QED BY <2>3, <3>1, <3>2, CommaFacts
  <2> QED BY <1>5, <2>2, <2>3
<1>7. Balanced(ts)
  BY <1>2, <1>6, LevelFlat DEF n
<1>8. \A i \in DOMAIN ts : Bare(ts[i], <<",">>) <=> i % 2 = 0
  BY <1>2, <1>6 DEF Comma
<1> DEFINE ws == [i \in 1..(n + 1) \div 2 |-> ts[2 * i - 1].value]
<1>9. ListOf(ts) = [ok |-> TRUE, values |-> ws]
  BY <1>8 DEF ListOf, n
<1>10. (n + 1) \div 2 = k
  BY <1>1, <1>2
<1>11. ws = vs
  <2>1. \A i \in 1..k : ts[2 * i - 1].value = vs[i]
    BY <1>3, StatedRise
  <2>2. ws = [i \in 1..k |-> vs[i]]
    BY <1>10, <2>1
  <2>3. vs = [i \in 1..k |-> vs[i]]
    BY <1>1
  <2> HIDE DEF ws
  <2> QED BY <2>2, <2>3
<1> HIDE DEF ws
<1> QED BY <1>7, <1>9, <1>11
LEMMA ListingAppend ==
  ASSUME NEW S, NEW vs \in Seq(S), NEW v \in S, NEW ts, Listing(ts, vs), NEW t, Stated(t, v)
  PROVE  /\ vs = <<>> => Listing(<<t>>, Append(vs, v))
         /\ vs # <<>> => Listing(Cat(Cat(ts, <<Mark(Comma)>>), <<t>>), Append(vs, v))
<1> DEFINE k == Len(vs)
           ws == Append(vs, v)
           n == Len(ts)
           c == Mark(Comma)
           us == Cat(Cat(ts, <<c>>), <<t>>)
<1>1. k \in Nat /\ (vs = <<>> <=> k = 0) /\ Len(ws) = k + 1 /\ ws[k + 1] = v /\ (\A i \in 1..k : ws[i] = vs[i])
  OBVIOUS
<1>2. ts \in Series /\ n \in Nat /\ n = IF k = 0 THEN 0 ELSE 2 * k - 1
  BY <1>1, SeriesLen DEF Listing
<1>3. t \in Tokens /\ <<t>> \in Series /\ Len(<<t>>) = 1 /\ <<t>>[1] = t /\ ws # <<>>
  <2>1. t \in Tokens
    BY StatedRise
  <2>2. <<t>> \in Series
    BY <2>1, SeriesAppend, SeriesIn, <1>2
  <2>3. Len(<<t>>) = 1 /\ <<t>>[1] = t
    OBVIOUS
  <2> HIDE DEF ws, k
  <2>4. ws # <<>>
    BY <1>1
  <2> QED BY <2>1, <2>2, <2>3, <2>4
<1>4. \A i \in 1..k : Stated(ts[2 * i - 1], vs[i])
  BY DEF Listing
<1>5. \A i \in 1..k - 1 : ts[2 * i] = c
  BY DEF Listing
<1>6. <<c>> \in Series /\ Len(<<c>>) = 1 /\ <<c>>[1] = c
  BY CommaFacts
<1> HIDE DEF k, n, ws, c
<1>7. us \in Series /\ Len(us) = n + 2 /\ us[n + 1] = c /\ us[n + 2] = t /\ \A i \in 1..n : us[i] = ts[i]
  <2> DEFINE ps == Cat(ts, <<c>>)
  <2>1. ps \in Series /\ Len(ps) = n + 1 /\ ps[n + 1] = c /\ \A i \in 1..n : ps[i] = ts[i]
    <3>1. ps \in Series /\ Len(ps) = n + Len(<<c>>) /\ (\A i \in 1..n : ps[i] = ts[i])
          /\ \A i \in 1..Len(<<c>>) : ps[n + i] = <<c>>[i]
      BY <1>2, <1>6, CatAt DEF n
    <3> HIDE DEF ps
    <3> QED BY <1>6, <3>1
  <2> HIDE DEF ps
  <2>2. Cat(ps, <<t>>) \in Series /\ Len(Cat(ps, <<t>>)) = Len(ps) + Len(<<t>>)
        /\ (\A i \in 1..Len(ps) : Cat(ps, <<t>>)[i] = ps[i])
        /\ \A i \in 1..Len(<<t>>) : Cat(ps, <<t>>)[Len(ps) + i] = <<t>>[i]
    BY <1>3, <2>1, CatAt
  <2>3. us = Cat(ps, <<t>>)
    BY DEF ps
  <2> HIDE DEF us
  <2>4. Len(us) = (n + 1) + 1 /\ us \in Series /\ \A i \in 1..(n + 1) : us[i] = ps[i]
    BY <1>3, <2>1, <2>2, <2>3
  <2>5. us[(n + 1) + 1] = t
    BY <1>3, <2>1, <2>2, <2>3
  <2>6. n + 1 \in 1..(n + 1) /\ (n + 1) + 1 = n + 2 /\ \A i \in 1..n : i \in 1..(n + 1)
    BY <1>2
  <2> QED BY <2>1, <2>4, <2>5, <2>6
<1> HIDE DEF us
<1>8. ASSUME vs = <<>> PROVE Listing(<<t>>, ws)
  <2>1. k = 0 /\ Len(ws) = 1 /\ ws[1] = v
    BY <1>1, <1>8
  <2>2. \A i \in 1..1 : i = 1 /\ 2 * i - 1 = 1
    OBVIOUS
  <2>3. \A i \in 1..1 : Stated(<<t>>[2 * i - 1], ws[i])
    BY <1>3, <2>1, <2>2
  <2>4. Len(<<t>>) = 2 * 1 - 1 /\ 1..1 - 1 = {}
    BY <1>3
  <2> QED BY <1>3, <2>1, <2>3, <2>4 DEF Listing
<1>9. ASSUME vs # <<>> PROVE Listing(us, ws)
  <2>1. k > 0 /\ n = 2 * k - 1 /\ n + 2 = 2 * (k + 1) - 1
    BY <1>1, <1>2, <1>9
  <2>2. ASSUME NEW i \in 1..(k + 1) PROVE Stated(us[2 * i - 1], ws[i])
    <3>1. CASE i = k + 1
      BY <1>1, <1>7, <2>1, <3>1
    <3>2. CASE i # k + 1
      <4>1. i \in 1..k /\ 2 * i - 1 \in 1..n
        BY <1>1, <2>1, <3>2
      <4> QED BY <1>1, <1>4, <1>7, <4>1
    <3> QED BY <3>1, <3>2
  <2>3. ASSUME NEW i \in 1..(k + 1) - 1 PROVE us[2 * i] = c
    <3>1. CASE i = k
      <4>1. 2 * i = n + 1
        BY <2>1, <3>1
      <4> QED BY <1>7, <4>1
    <3>2. CASE i # k
      <4>1. i \in 1..k - 1 /\ 2 * i \in 1..n
        BY <1>1, <2>1, <2>3, <3>2
      <4> QED BY <1>5, <1>7, <4>1
    <3> QED BY <3>1, <3>2
  <2>4. Len(us) = 2 * Len(ws) - 1
    BY <1>1, <1>7, <2>1
  <2> QED BY <1>1, <1>3, <1>7, <2>2, <2>3, <2>4 DEF Listing, c
<1> QED BY <1>8, <1>9 DEF us, ws, c

LEMMA SaysList == \A vs \in Seq(PlainTexts) : \E ts : Says(ListText(vs), ts) /\ Listing(ts, vs)
<1> DEFINE S == {vs \in Seq(PlainTexts) : \E ts : Says(ListText(vs), ts) /\ Listing(ts, vs)}
<1>1. <<>> \in S
  <2>1. ListText(<<>>) = <<>>
    <3>1. Through(Quoting, <<>>) = <<>>
      BY ThroughNothing
    <3>2. Join(<<>>, <<Comma, Blank>>) = FlattenSeq(<<>>)
      BY DEF Join
    <3> QED BY <3>1, <3>2, FlatEmpty DEF ListText
  <2>2. Says(<<>>, <<>>)
    BY SaysEmpty
  <2>3. <<>> \in Series
    BY <2>2 DEF Says
  <2>4. Listing(<<>>, <<>>)
    BY <2>3 DEF Listing
  <2>5. <<>> \in Seq(PlainTexts)
    OBVIOUS
  <2> QED BY <2>1, <2>2, <2>4, <2>5
<1>2. ASSUME NEW vs \in S, NEW v \in PlainTexts PROVE Append(vs, v) \in S
  <2>1. PICK ts : Says(ListText(vs), ts) /\ Listing(ts, vs)
    OBVIOUS
  <2>2. PICK t : Says(QuoteIfNecessary(v), <<t>>) /\ Stated(t, v)
    BY QuotingParts
  <2>3. vs \in Seq(PlainTexts) /\ Append(vs, v) \in Seq(PlainTexts)
    OBVIOUS
  <2>4. CASE vs = <<>>
    <3>1. ListText(Append(vs, v)) = QuoteIfNecessary(v)
      BY <2>3, <2>4, ListTextAppend
    <3>2. Listing(<<t>>, Append(vs, v))
      BY <2>1, <2>2, <2>3, <2>4, ListingAppend
    <3> QED BY <2>2, <2>3, <3>1, <3>2
  <2>5. CASE vs # <<>>
    <3> DEFINE us == Cat(Cat(ts, <<Mark(Comma)>>), <<t>>)
    <3>1. ListText(Append(vs, v)) = Spaced(Cat(ListText(vs), <<Comma>>), QuoteIfNecessary(v))
      BY <2>3, <2>5, ListTextAppend
    <3>2. Listing(us, Append(vs, v))
      BY <2>1, <2>2, <2>3, <2>5, ListingAppend
    <3>3. Says(Cat(ListText(vs), <<Comma>>), Cat(ts, <<Mark(Comma)>>))
      BY <2>1, SaysComma
    <3>4. Says(Spaced(Cat(ListText(vs), <<Comma>>), QuoteIfNecessary(v)), us)
      BY <2>2, <3>3, SaysSpaced
    <3> HIDE DEF us
    <3> QED BY <2>3, <3>1, <3>2, <3>4
  <2> QED BY <2>4, <2>5
<1>3. S \in SUBSET Seq(PlainTexts)
  OBVIOUS
<1> HIDE DEF S
<1>4. S = Seq(PlainTexts)
  BY <1>1, <1>2, <1>3, Appending
<1> QED BY <1>4 DEF S
-----------------------------------------------------------------------------
(* A condition and a null test: two tokens and a rest. *)

Row(a, b, r) == Cat(<<a>>, Cat(<<b>>, r))

LEMMA RowParts ==
  ASSUME NEW a \in Tokens, NEW b \in Tokens, NEW r \in Series
  PROVE  /\ Row(a, b, r) \in Series /\ Len(Row(a, b, r)) = Len(r) + 2 /\ Len(r) \in Nat
         /\ Row(a, b, r)[1] = a /\ Row(a, b, r)[2] = b /\ Holds(Row(a, b, r), 2, r, Len(r))
<1> DEFINE n == Len(r)
           q == Cat(<<b>>, r)
           v == Row(a, b, r)
<1>1. n \in Nat
  BY SeriesLen
<1>2. \A t \in Tokens : <<t>> \in Series /\ Len(<<t>>) = 1 /\ <<t>>[1] = t
  <2>1. \A t \in Tokens : <<t>> \in Series
    BY SeriesAppend
  <2> QED BY <2>1
<1>3. ASSUME NEW t \in Tokens, NEW s \in Series
      PROVE  Cat(<<t>>, s) \in Series /\ Len(Cat(<<t>>, s)) = 1 + Len(s) /\ Cat(<<t>>, s)[1] = t
             /\ \A i \in 1..Len(s) : Cat(<<t>>, s)[1 + i] = s[i]
  <2>1. /\ Cat(<<t>>, s) \in Series /\ Len(Cat(<<t>>, s)) = Len(<<t>>) + Len(s)
        /\ \A i \in 1..Len(<<t>>) : Cat(<<t>>, s)[i] = <<t>>[i]
        /\ \A i \in 1..Len(s) : Cat(<<t>>, s)[Len(<<t>>) + i] = s[i]
    BY <1>2, CatAt
  <2>2. 1 \in 1..1
    OBVIOUS
  <2> QED BY <1>2, <2>1, <2>2
<1>4. q \in Series /\ Len(q) = 1 + n /\ q[1] = b /\ \A i \in 1..n : q[1 + i] = r[i]
  BY <1>3
<1>5. v = Cat(<<a>>, q)
  BY DEF Row
<1> HIDE DEF q, v
<1>6. v \in Series /\ Len(v) = 1 + Len(q) /\ v[1] = a /\ \A i \in 1..Len(q) : v[1 + i] = q[i]
  BY <1>3, <1>4, <1>5
<1> HIDE DEF n
<1>7. v[2] = b
  <2>1. 1 \in 1..Len(q) /\ 1 + 1 = 2
    BY <1>1, <1>4
  <2> QED BY <1>4, <1>6, <2>1
<1>8. ASSUME NEW i \in 1..n PROVE v[2 + i] = r[i]
  <2>1. 1 + i \in 1..Len(q) /\ 1 + (1 + i) = 2 + i
    BY <1>1, <1>4
  <2> QED BY <1>4, <1>6, <2>1
<1>9. Len(v) = n + 2
  BY <1>1, <1>4, <1>6
<1> QED BY <1>1, <1>6, <1>7, <1>8, <1>9 DEF Holds, v, n

LEMMA RowSays ==
  ASSUME NEW x, NEW a, Says(x, <<a>>), NEW y, NEW b, Says(y, <<b>>), NEW z, NEW r, Says(z, r)
  PROVE  Says(Spaced(x, Spaced(y, z)), Row(a, b, r))
<1>1. Says(Spaced(y, z), Cat(<<b>>, r))
  BY SaysSpaced
<1> QED BY <1>1, SaysSpaced DEF Row

LEMMA OneLevel ==
  ASSUME NEW t \in Tokens, Rise(t) = 0
  PROVE  Balanced(<<t>>)
<1>1. <<t>> \in Series
  BY SeriesIn, SeriesAppend, BalancedEmpty DEF Balanced
<1>2. \A i \in 1..Len(<<t>>) : <<t>>[i] = t
  OBVIOUS
<1>3. \A i \in 1..Len(<<t>>) : Rise(<<t>>[i]) = 0
  BY <1>2
<1> QED BY <1>1, <1>3, LevelFlat

LEMMA RowItem ==
  ASSUME NEW a \in Tokens, Rise(a) = 0, \A w \in {"(", ")", "and", "or"} : ~Bare(a, <<w>>),
         NEW b \in Tokens, Rise(b) = 0, NEW r, Balanced(r),
         NEW d, d.kind \notin Outcomes, ParseCondition(Row(a, b, r), 0) = Took(Len(r) + 2, d)
  PROVE  Item(Row(a, b, r), d)
<1> DEFINE v == Row(a, b, r)
<1>1. r \in Series
  BY DEF Balanced
<1>2. v \in Series /\ Len(v) = Len(r) + 2 /\ v[1] = a
  BY <1>1, RowParts
<1>3. Balanced(v)
  <2>1. Balanced(<<a>>) /\ Balanced(<<b>>)
    BY OneLevel
  <2>2. Balanced(Cat(<<b>>, r))
    BY <2>1, BalancedCat
  <2> QED BY <2>1, <2>2, BalancedCat DEF Row
<1> HIDE DEF v
<1>4. Paired(v)
  BY <1>3, SeriesLen DEF Balanced, Paired
<1>5. Unmarked(v)
  BY <1>2 DEF Unmarked
<1>6. ParseCondition(v, 0) = Took(Len(v), d)
  BY <1>2 DEF v
<1> QED BY <1>2, <1>4, <1>5, <1>6, ConditionIsItem DEF v

\* A token for a field.
LEMMA StatedName ==
  ASSUME NEW v \in Texts, PlainName(v), NEW t, Stated(t, v)
  PROVE  t \in Tokens /\ Rise(t) = 0 /\ t.value = v /\ \A w \in {"(", ")", "and", "or"} : ~Bare(t, <<w>>)
<1>1. t \in Tokens /\ Rise(t) = 0 /\ t.value = v
  BY StatedRise
<1>2. \A w \in {"(", ")"} : ~Bare(t, <<w>>)
  BY Special DEF Stated
<1>3. \A w \in {"and", "or"} : ~Bare(t, <<w>>)
  BY <1>1 DEF PlainName, Bare
<1> QED BY <1>1, <1>2, <1>3
IsWord == "is"
NotWord == "not"
NullWord == "null"

LEMMA KnownWords ==
  \A w \in {IsWord, NotWord, NullWord} :
    /\ w \in Letter /\ <<w>> \in Texts /\ Says(<<w>>, <<Mark(w)>>) /\ Mark(w) \in Tokens
    /\ Rise(Mark(w)) = 0 /\ Balanced(<<Mark(w)>>) /\ <<Mark(w)>> \in Series /\ Mark(w).value = <<w>> /\ Bare(Mark(w), <<w>>)
<1> SUFFICES ASSUME NEW w \in {IsWord, NotWord, NullWord}
             PROVE  /\ w \in Letter /\ <<w>> \in Texts /\ Says(<<w>>, <<Mark(w)>>) /\ Mark(w) \in Tokens
                    /\ Rise(Mark(w)) = 0 /\ Balanced(<<Mark(w)>>) /\ <<Mark(w)>> \in Series /\ Mark(w).value = <<w>>
                    /\ Bare(Mark(w), <<w>>)
  OBVIOUS
<1>1. w \in Words
  BY DEF IsWord, NotWord, NullWord, Words
<1>2. Says(<<w>>, <<Mark(w)>>) /\ Mark(w) \in Tokens
  BY <1>1, SaysKnown
<1>3. w \in Letter /\ <<w>> \in Texts /\ <<Mark(w)>> \in Series
  BY <1>1, <1>2, LanguageAssumption DEF Says
<1>4. Rise(Mark(w)) = 0
  <2>1. w # "(" /\ w # ")"
    BY DEF IsWord, NotWord, NullWord
  <2>2. ~Bare(Mark(w), <<"(">>) /\ ~Bare(Mark(w), <<")">>)
    BY <2>1, MarkFacts
  <2> QED BY <2>2 DEF Rise
<1>5. Bare(Mark(w), <<w>>)
  BY MarkFacts
<1>6. Mark(w).value = <<w>>
  BY <1>5 DEF Bare
<1>7. Balanced(<<Mark(w)>>)
  BY <1>2, <1>4, OneLevel
<1> QED BY <1>2, <1>3, <1>4, <1>5, <1>6, <1>7

\* A token for a field called n.
Naming(a, n) == a \in Tokens /\ Rise(a) = 0 /\ a.value = n /\ \A w \in {"(", ")", "and", "or"} : ~Bare(a, <<w>>)

\* The whole is one condition.
LEMMA FirstForms ==
  ASSUME NEW ts, Len(ts) \in Nat
  PROVE  /\ IsNullAt(ts, 0) => ParseCondition(ts, 0) = Took(3, IsNull(ts[1].value))
         /\ IsNotNullAt(ts, 0) => ParseCondition(ts, 0) = Took(4, IsNotNull(ts[1].value))
         /\ ValueAt(ts, 0) => ParseCondition(ts, 0) = Took(3, Condition(ts[1].value, ts[2].value, <<ts[3].value>>))
         /\ ListAt(ts, 0) => ParseCondition(ts, 0) =
              Took(Closes(ts, 3), Condition(ts[1].value, ts[2].value, ListOf(Listed(ts, 0)).values))
<1>1. 0 \in Nat /\ 0 + 1 = 1 /\ 0 + 2 = 2 /\ 0 + 3 = 3 /\ 0 + 4 = 4
  OBVIOUS
<1>2. IsNullAt(ts, 0) => ParseCondition(ts, 0) = Took(0 + 3, IsNull(ts[0 + 1].value))
  BY <1>1, ConditionForms, Zenon
<1>3. IsNotNullAt(ts, 0) => ParseCondition(ts, 0) = Took(0 + 4, IsNotNull(ts[0 + 1].value))
  BY <1>1, ConditionForms, Zenon
<1>4. ValueAt(ts, 0) => ParseCondition(ts, 0) =
        Took(0 + 3, Condition(ts[0 + 1].value, ts[0 + 2].value, <<ts[0 + 3].value>>))
  BY <1>1, ConditionForms, Zenon
<1>5. ListAt(ts, 0) => ParseCondition(ts, 0) =
        Took(Closes(ts, 0 + 3), Condition(ts[0 + 1].value, ts[0 + 2].value, ListOf(Listed(ts, 0)).values))
  BY <1>1, ConditionForms, Zenon
<1> QED BY <1>1, <1>2, <1>3, <1>4, <1>5

LEMMA NullItem ==
  ASSUME NEW a, NEW n, Naming(a, n)
  PROVE  Item(Row(a, Mark(IsWord), <<Mark(NullWord)>>), IsNull(n))
<1> DEFINE b == Mark(IsWord)
           c == Mark(NullWord)
           r == <<c>>
           ts == Row(a, b, r)
<1>1. a \in Tokens /\ a.value = n /\ b \in Tokens /\ r \in Series /\ Rise(b) = 0 /\ Balanced(r)
  BY KnownWords DEF Naming
<1>2. Bare(b, <<IsWord>>) /\ c.value = <<NullWord>>
  BY KnownWords
<1>3. Len(r) = 1 /\ r[1] = c
  OBVIOUS
<1> HIDE DEF r, c
<1>4. ts \in Series /\ Len(ts) = 3 /\ ts[1] = a /\ ts[2] = b /\ ts[3] = c
  <2>1. /\ Row(a, b, r) \in Series /\ Len(Row(a, b, r)) = Len(r) + 2
        /\ Row(a, b, r)[1] = a /\ Row(a, b, r)[2] = b /\ Holds(Row(a, b, r), 2, r, Len(r))
    BY <1>1, RowParts
  <2> HIDE DEF ts
  <2>2. ts[2 + 1] = r[1]
    BY <1>3, <2>1 DEF Holds, ts
  <2> QED BY <1>3, <2>1, <2>2 DEF ts
<1> HIDE DEF ts, b
<1>5. IsNullAt(ts, 0)
  <2>1. Len(ts) >= 0 + 3 /\ ts[0 + 2] = b /\ ts[0 + 3] = c
    BY <1>4
  <2> QED BY <1>2, <2>1 DEF IsNullAt, IsWord, NullWord
<1>6. ParseCondition(ts, 0) = Took(Len(r) + 2, IsNull(n))
  <2>1. ParseCondition(ts, 0) = Took(3, IsNull(ts[1].value))
    <3>1. Len(ts) \in Nat
      BY <1>4
    <3> QED BY <1>5, <3>1, FirstForms, Zenon
  <2>2. 3 = Len(r) + 2 /\ ts[1] = a
    BY <1>3, <1>4
  <2> QED BY <1>1, <2>1, <2>2
<1>7. IsNull(n).kind \notin Outcomes
  BY DEF IsNull, Outcomes
<1>8. Item(ts, IsNull(n))
  BY <1>1, <1>6, <1>7, RowItem DEF ts, Naming
<1> QED BY <1>8 DEF ts, r, c, b

LEMMA NotNullItem ==
  ASSUME NEW a, NEW n, Naming(a, n)
  PROVE  Item(Row(a, Mark(IsWord), Cat(<<Mark(NotWord)>>, <<Mark(NullWord)>>)), IsNotNull(n))
<1> DEFINE b == Mark(IsWord)
           c == Mark(NotWord)
           e == Mark(NullWord)
           r == Cat(<<c>>, <<e>>)
           ts == Row(a, b, r)
<1>1. a \in Tokens /\ a.value = n /\ b \in Tokens /\ Rise(b) = 0 /\ Balanced(r)
  BY KnownWords, BalancedCat DEF Naming
<1>2. Bare(b, <<IsWord>>) /\ c.value = <<NotWord>> /\ e.value = <<NullWord>>
  BY KnownWords
<1>3. r \in Series /\ Len(r) = 2 /\ r[1] = c /\ r[2] = e
  <2>1. c \in Tokens /\ e \in Tokens
    BY KnownWords
  <2>2. r = <<c, e>> /\ r \in Series
    <3> HIDE DEF c, e
    <3> QED BY <1>1, <2>1, Tuples DEF Balanced
  <2> HIDE DEF c, e, r
  <2> QED BY <2>2
<1> HIDE DEF r, c, e
<1>4. ts \in Series /\ Len(ts) = 4 /\ ts[1] = a /\ ts[2] = b /\ ts[3] = c /\ ts[4] = e
  <2>1. /\ Row(a, b, r) \in Series /\ Len(Row(a, b, r)) = Len(r) + 2
        /\ Row(a, b, r)[1] = a /\ Row(a, b, r)[2] = b /\ Holds(Row(a, b, r), 2, r, Len(r))
    <3>1. a \in Tokens /\ b \in Tokens /\ r \in Series
      BY <1>1, <1>3
    <3> QED BY ONLY <3>1, RowParts
  <2> HIDE DEF ts
  <2>2. ts[2 + 1] = r[1] /\ ts[2 + 2] = r[2]
    BY <1>3, <2>1 DEF Holds, ts
  <2> QED BY <1>3, <2>1, <2>2 DEF ts
<1> HIDE DEF ts, b
<1>5. IsNotNullAt(ts, 0)
  <2>1. Len(ts) >= 0 + 4 /\ ts[0 + 2] = b /\ ts[0 + 3] = c /\ ts[0 + 4] = e
    BY <1>4
  <2> QED BY <1>2, <2>1 DEF IsNotNullAt, IsWord, NotWord, NullWord
<1>6. ParseCondition(ts, 0) = Took(Len(r) + 2, IsNotNull(n))
  <2>1. ParseCondition(ts, 0) = Took(4, IsNotNull(ts[1].value))
    <3>1. Len(ts) \in Nat
      BY <1>4
    <3> QED BY <1>5, <3>1, FirstForms, Zenon
  <2>2. 4 = Len(r) + 2 /\ ts[1] = a
    BY <1>3, <1>4
  <2> QED BY <1>1, <2>1, <2>2
<1>7. IsNotNull(n).kind \notin Outcomes
  BY DEF IsNotNull, Outcomes
<1>8. Item(ts, IsNotNull(n))
  BY <1>1, <1>3, <1>6, <1>7, RowItem DEF ts, Naming
<1> QED BY <1>8 DEF ts, r, c, b, e

LEMMA ValueItem ==
  ASSUME NEW a, NEW n, Naming(a, n), NEW op \in Operations \cap Texts, NEW t, NEW v, Stated(t, v)
  PROVE  Item(Row(a, Token(op, None, TRUE), <<t>>), Condition(n, op, <<v>>))
<1> DEFINE b == Token(op, None, TRUE)
           r == <<t>>
           ts == Row(a, b, r)
           d == Condition(n, op, <<v>>)
<1>1. a \in Tokens /\ a.value = n /\ b \in Tokens /\ b.value = op /\ b.quote = None
  <2>1. op \in Texts /\ None \in Quotes \cup {None} /\ TRUE \in BOOLEAN
    OBVIOUS
  <2>2. b \in Tokens /\ b.value = op /\ b.quote = None
    BY <2>1, TokenIn
  <2> QED BY <2>2 DEF Naming
<1>2. Rise(b) = 0
  <2>1. op # <<"(">> /\ op # <<")">>
    BY OperationsPlain
  <2> QED BY <1>1, <2>1 DEF Rise, Bare
<1>3. t \in Tokens /\ Rise(t) = 0 /\ t.value = v /\ ~Bare(t, <<"(">>)
  BY StatedRise, Special DEF Stated
<1>4. Balanced(r) /\ r \in Series /\ Len(r) = 1 /\ r[1] = t
  <2>1. Balanced(r)
    BY <1>3, OneLevel
  <2>2. Len(r) = 1 /\ r[1] = t
    OBVIOUS
  <2> QED BY <2>1, <2>2 DEF Balanced
<1> HIDE DEF r, b
<1>5. ts \in Series /\ Len(ts) = 3 /\ ts[1] = a /\ ts[2] = b /\ ts[3] = t
  <2>1. /\ Row(a, b, r) \in Series /\ Len(Row(a, b, r)) = Len(r) + 2
        /\ Row(a, b, r)[1] = a /\ Row(a, b, r)[2] = b /\ Holds(Row(a, b, r), 2, r, Len(r))
    <3>1. a \in Tokens /\ b \in Tokens /\ r \in Series
      BY <1>1, <1>4
    <3> QED BY ONLY <3>1, RowParts
  <2> HIDE DEF ts
  <2>2. ts[2 + 1] = r[1]
    BY <1>4, <2>1 DEF Holds, ts
  <2> QED BY <1>4, <2>1, <2>2 DEF ts
<1> HIDE DEF ts, d
<1>6. ValueAt(ts, 0)
  <2>1. Len(ts) >= 0 + 3 /\ ts[0 + 2] = b /\ ts[0 + 3] = t
    BY <1>5
  <2> QED BY <1>1, <1>3, <2>1 DEF ValueAt, ComparesAt
<1>7. ParseCondition(ts, 0) = Took(Len(r) + 2, d)
  <2>1. ParseCondition(ts, 0) = Took(3, Condition(ts[1].value, ts[2].value, <<ts[3].value>>))
    <3>1. Len(ts) \in Nat
      BY <1>5
    <3> QED BY <1>6, <3>1, FirstForms, Zenon
  <2>2. 3 = Len(r) + 2 /\ ts[1] = a /\ ts[2] = b /\ ts[3] = t
    BY <1>4, <1>5
  <2> QED BY <1>1, <1>3, <2>1, <2>2 DEF d
<1>8. d.kind \notin Outcomes
  BY DEF d, Condition, Outcomes
<1>9. Item(ts, d)
  BY <1>1, <1>2, <1>4, <1>7, <1>8, RowItem DEF ts, Naming
<1> QED BY <1>9 DEF ts, r, b, d

LEMMA ListItem ==
  ASSUME NEW a, NEW n, Naming(a, n), NEW op \in Operations \cap Texts,
         NEW vs \in Seq(Texts), NEW us, Listing(us, vs)
  PROVE  Item(Row(a, Token(op, None, TRUE), Enclose(us)), Condition(n, op, vs))
<1> DEFINE b == Token(op, None, TRUE)
           r == Enclose(us)
           ts == Row(a, b, r)
           d == Condition(n, op, vs)
<1>1. a \in Tokens /\ a.value = n /\ b \in Tokens /\ b.value = op /\ b.quote = None
  <2>1. op \in Texts /\ None \in Quotes \cup {None} /\ TRUE \in BOOLEAN
    OBVIOUS
  <2>2. b \in Tokens /\ b.value = op /\ b.quote = None
    BY <2>1, TokenIn
  <2> QED BY <2>2 DEF Naming
<1>2. Rise(b) = 0
  <2>1. op # <<"(">> /\ op # <<")">>
    BY OperationsPlain
  <2> QED BY <1>1, <2>1 DEF Rise, Bare
<1>3. Balanced(us) /\ ListOf(us).ok /\ ListOf(us).values = vs
  BY ListingGives
<1>4. us \in Series /\ Len(us) \in Nat /\ Balanced(r) /\ r \in Series /\ Len(r) = Len(us) + 2 /\ r[1] = Mark("(")
  BY <1>3, BalancedEnclose, EncloseParts, SeriesLen DEF Balanced
<1> HIDE DEF b
<1>5. ts \in Series /\ Len(ts) = Len(r) + 2 /\ ts[1] = a /\ ts[2] = b /\ Holds(ts, 2, r, Len(r))
  BY <1>1, <1>4, RowParts
<1>6. Closes(ts, 2 + 1) = 2 + (Len(us) + 2)
  <2>1. Len(ts) \in Nat /\ 2 + (Len(us) + 2) <= Len(ts) /\ Holds(ts, 2, r, Len(us) + 2)
    BY <1>4, <1>5
  <2> HIDE DEF ts
  <2> QED BY <1>3, <2>1, ClosesEnclosed
<1>7. SubSeq(ts, 2 + 2, 2 + (Len(us) + 2) - 1) = us
  <2>1. 2 + (Len(us) + 2) <= Len(ts) /\ Holds(ts, 2, r, Len(us) + 2)
    BY <1>4, <1>5
  <2> HIDE DEF ts
  <2> QED BY <1>4, <1>5, <2>1, InsideEnclosed
<1>8. ts[3] = Mark("(")
  <2>1. 1 \in 1..Len(r) /\ 2 + 1 = 3
    BY <1>4
  <2> HIDE DEF ts, r
  <2> QED BY <1>4, <1>5, <2>1 DEF Holds
<1> HIDE DEF ts, r, d
<1>9. Closes(ts, 0 + 3) = 0 + (Len(us) + 4) /\ Closes(ts, 0 + 3) > 0 /\ Listed(ts, 0) = us
  <2>1. 2 + 1 = 0 + 3 /\ 2 + (Len(us) + 2) = 0 + (Len(us) + 4) /\ 2 + 2 = 0 + 4
    BY <1>4
  <2>2. Closes(ts, 0 + 3) = 0 + (Len(us) + 4) /\ Closes(ts, 0 + 3) = 2 + (Len(us) + 2)
    BY <1>6, <2>1
  <2>3. Closes(ts, 0 + 3) > 0
    BY <1>4, <2>2
  <2>4. Listed(ts, 0) = us
    BY <1>7, <2>1, <2>2 DEF Listed
  <2> QED BY <2>2, <2>3, <2>4
<1>10. ListAt(ts, 0)
  <2>1. Len(ts) >= 0 + 3 /\ ts[0 + 2] = b /\ ts[0 + 3] = ts[3]
    BY <1>4, <1>5
  <2>2. Bare(ts[0 + 3], <<"(">>)
    BY <1>8, <2>1, MarkFacts
  <2> QED BY <1>1, <1>3, <1>9, <2>1, <2>2 DEF ListAt, ComparesAt
<1>11. ParseCondition(ts, 0) = Took(Len(r) + 2, d)
  <2>1. ParseCondition(ts, 0) =
          Took(Closes(ts, 3), Condition(ts[1].value, ts[2].value, ListOf(Listed(ts, 0)).values))
    <3>1. Len(ts) \in Nat
      BY <1>5, SeriesLen
    <3> QED BY <1>10, <3>1, FirstForms, Zenon
  <2>2. Closes(ts, 3) = Len(r) + 2 /\ ts[1] = a /\ ts[2] = b
    <3>1. 2 + 1 = 3 /\ 2 + (Len(us) + 2) = Len(r) + 2
      BY <1>4
    <3> QED BY <1>5, <1>6, <3>1
  <2> QED BY <1>1, <1>3, <1>9, <2>1, <2>2 DEF d
<1>12. d.kind \notin Outcomes
  BY DEF d, Condition, Outcomes
<1>13. Item(ts, d)
  BY <1>1, <1>2, <1>4, <1>11, <1>12, RowItem DEF ts, Naming
<1> QED BY <1>13 DEF ts, r, b, d
Four(w, x, y, z) == <<w, x, y, z>>
Six(u, v, w, x, y, z) == <<u, v, w, x, y, z>>

LEMMA TupleOfFour ==
  ASSUME NEW S, NEW w \in S, NEW x \in S, NEW y \in S, NEW z \in S
  PROVE  Four(w, x, y, z) \in Seq(S) /\ Cat(<<w>>, Cat(<<x>>, Cat(<<y>>, <<z>>))) = Four(w, x, y, z)
<1> DEFINE a == <<z>>
           b == <<y, z>>
           c == <<x, y, z>>
           d == <<w, x, y, z>>
<1>1. a \in Seq(S) /\ b \in Seq(S) /\ c \in Seq(S) /\ d \in Seq(S)
  OBVIOUS
<1>2. Len(b) = Len(a) + 1 /\ Len(c) = Len(b) + 1 /\ Len(d) = Len(c) + 1
  <2>1. Len(a) = 1 /\ Len(b) = 2 /\ Len(c) = 3 /\ Len(d) = 4
    OBVIOUS
  <2> QED BY <2>1
<1>3. b[1] = y /\ \A i \in 1..Len(a) : b[i + 1] = a[i]
  OBVIOUS
<1>4. c[1] = x /\ \A i \in 1..Len(b) : c[i + 1] = b[i]
  OBVIOUS
<1>5. d[1] = w /\ \A i \in 1..Len(c) : d[i + 1] = c[i]
  OBVIOUS
<1> HIDE DEF a, b, c, d
<1>6. Cat(<<y>>, a) = b
  BY <1>1, <1>2, <1>3, TupleCat
<1>7. Cat(<<x>>, b) = c
  BY <1>1, <1>2, <1>4, TupleCat
<1>8. Cat(<<w>>, c) = d
  BY <1>1, <1>2, <1>5, TupleCat
<1>9. d \in Seq(S) /\ Cat(<<w>>, Cat(<<x>>, Cat(<<y>>, a))) = d
  BY <1>1, <1>6, <1>7, <1>8
<1> QED BY <1>9 DEF a, d, Four

LEMMA TupleOfSix ==
  ASSUME NEW S, NEW u \in S, NEW v \in S, NEW w \in S, NEW x \in S, NEW y \in S, NEW z \in S
  PROVE  /\ Six(u, v, w, x, y, z) \in Seq(S)
         /\ Cat(<<u>>, Cat(<<v>>, Cat(<<w>>, Cat(<<x>>, Cat(<<y>>, <<z>>))))) = Six(u, v, w, x, y, z)
<1> DEFINE r == Cat(<<w>>, Cat(<<x>>, Cat(<<y>>, <<z>>)))
           c == Four(w, x, y, z)
           d == Five(v, w, x, y, z)
           e == Six(u, v, w, x, y, z)
<1>1. c \in Seq(S) /\ r = c
  <2>1. w \in S /\ x \in S /\ y \in S /\ z \in S
    OBVIOUS
  <2> QED BY ONLY <2>1, TupleOfFour
<1>2. d \in Seq(S) /\ Len(d) = Len(c) + 1 /\ d[1] = v /\ \A i \in 1..Len(c) : d[i + 1] = c[i]
  <2>1. d \in Seq(S) /\ Len(c) = 4 /\ Len(d) = 5 /\ d[1] = v
    BY DEF Five, Four
  <2>2. \A i \in 1..Len(c) : d[i + 1] = c[i]
    BY DEF Five, Four
  <2> HIDE DEF c, d
  <2> QED BY <2>1, <2>2
<1>3. e \in Seq(S) /\ Len(e) = Len(d) + 1 /\ e[1] = u /\ \A i \in 1..Len(d) : e[i + 1] = d[i]
  <2>1. e \in Seq(S) /\ Len(e) = 6 /\ Len(d) = 5 /\ e[1] = u
    BY DEF Six, Five
  <2>2. \A i \in 1..Len(d) : e[i + 1] = d[i]
    BY DEF Six, Five
  <2> HIDE DEF e, d
  <2> QED BY <2>1, <2>2
<1> HIDE DEF c, d, e, r
<1>4. Cat(<<v>>, c) = d
  BY <1>1, <1>2, TupleCat
<1>5. Cat(<<u>>, d) = e
  BY <1>2, <1>3, TupleCat
<1> QED BY <1>1, <1>3, <1>4, <1>5 DEF e, r

\* The printed texts, as texts with a space between each two.
LEMMA PrintedTexts ==
  ASSUME NEW q \in Texts
  PROVE  /\ q \o <<" ", "is", " ", "null">> = Spaced(q, Spaced(<<IsWord>>, <<NullWord>>))
         /\ q \o <<" ", "is", " ", "not", " ", "null">> = Spaced(q, Spaced(<<IsWord>>, Spaced(<<NotWord>>, <<NullWord>>)))
<1>1. Blank \in Letter /\ IsWord \in Letter /\ NotWord \in Letter /\ NullWord \in Letter
  BY Space, KnownWords
<1>2. Cat(<<Blank>>, Cat(<<IsWord>>, Cat(<<Blank>>, <<NullWord>>))) = Four(Blank, IsWord, Blank, NullWord)
  BY <1>1, TupleOfFour
<1>3. Cat(<<Blank>>, Cat(<<IsWord>>, Cat(<<Blank>>, Cat(<<NotWord>>, Cat(<<Blank>>, <<NullWord>>))))) =
        Six(Blank, IsWord, Blank, NotWord, Blank, NullWord)
  BY <1>1, TupleOfSix
<1>4. q \o <<" ", "is", " ", "null">> = Cat(q, Four(Blank, IsWord, Blank, NullWord))
  BY DEF Cat, Four, Blank, IsWord, NullWord
<1>5. q \o <<" ", "is", " ", "not", " ", "null">> = Cat(q, Six(Blank, IsWord, Blank, NotWord, Blank, NullWord))
  BY DEF Cat, Six, Blank, IsWord, NotWord, NullWord
<1>6. /\ Spaced(q, Spaced(<<IsWord>>, <<NullWord>>)) =
           Cat(q, Cat(<<Blank>>, Cat(<<IsWord>>, Cat(<<Blank>>, <<NullWord>>))))
      /\ Spaced(q, Spaced(<<IsWord>>, Spaced(<<NotWord>>, <<NullWord>>))) =
           Cat(q, Cat(<<Blank>>, Cat(<<IsWord>>, Cat(<<Blank>>, Cat(<<NotWord>>, Cat(<<Blank>>, <<NullWord>>))))))
  BY DEF Spaced, Blank
<1> QED BY <1>2, <1>3, <1>4, <1>5, <1>6

LEMMA BetweenTexts ==
  ASSUME NEW q \in Texts, NEW op \in Texts, NEW x \in Texts
  PROVE  /\ q \o <<" ">> \o op \o <<" ">> \o x = Spaced(q, Spaced(op, x))
         /\ <<"(">> \o x \o <<")">> = Wrap(x)
<1> DEFINE b == <<Blank>>
<1>1. b \in Texts
  BY Space DEF Texts
<1> HIDE DEF b
<1>2. Cat(Cat(Cat(Cat(q, b), op), b), x) = Cat(q, Cat(b, Cat(op, Cat(b, x))))
  <2>1. Cat(q, b) \in Texts /\ Cat(Cat(q, b), op) \in Texts /\ Cat(b, x) \in Texts /\ Cat(op, Cat(b, x)) \in Texts
    BY <1>1, TextIn3
  <2>2. Cat(Cat(Cat(Cat(q, b), op), b), x) = Cat(Cat(Cat(q, b), op), Cat(b, x))
    BY <1>1, <2>1, TextIn3
  <2>3. Cat(Cat(Cat(q, b), op), Cat(b, x)) = Cat(Cat(q, b), Cat(op, Cat(b, x)))
    BY <1>1, <2>1, TextIn3
  <2>4. Cat(Cat(q, b), Cat(op, Cat(b, x))) = Cat(q, Cat(b, Cat(op, Cat(b, x))))
    BY <1>1, <2>1, TextIn3
  <2> QED BY <2>2, <2>3, <2>4
<1>3. q \o <<" ">> \o op \o <<" ">> \o x = Spaced(q, Spaced(op, x))
  BY <1>2 DEF Cat, Spaced, b, Blank
<1>4. <<"(">> \in Texts /\ <<")">> \in Texts
  BY BetweenIs
<1>5. Cat(Cat(<<"(">>, x), <<")">>) = Cat(<<"(">>, Cat(x, <<")">>))
  BY <1>4, TextIn3
<1>6. <<"(">> \o x \o <<")">> = Wrap(x)
  BY <1>5 DEF Cat, Wrap
<1> QED BY <1>3, <1>6
LEMMA SimpleParts ==
  ASSUME NEW c \in Simple
  PROVE  /\ c.name \in Texts
         /\ \/ c.kind = "null" /\ c = IsNull(c.name)
            \/ c.kind = "not_null" /\ c = IsNotNull(c.name)
            \/ /\ c.kind = "condition" /\ c = Condition(c.name, c.op, c.values)
               /\ c.op \in Operations \cap Texts /\ c.values \in Seq(Texts)
<1>1. CASE c \in [kind : {"null", "not_null"}, name : Texts]
  BY <1>1 DEF IsNull, IsNotNull
<1>2. CASE c \in [kind : {"condition"}, name : Texts, op : Operations \cap Texts, values : Seq(Texts)]
  BY <1>2 DEF Condition
<1> QED BY <1>1, <1>2 DEF Simple, Texts

LEMMA SimpleStrings ==
  ASSUME NEW n \in Texts, QuoteIfNecessary(n) \in Texts
  PROVE  LET q == QuoteIfNecessary(n) IN
         /\ SimpleString(IsNull(n)) = Spaced(q, Spaced(<<IsWord>>, <<NullWord>>))
         /\ SimpleString(IsNotNull(n)) = Spaced(q, Spaced(<<IsWord>>, Spaced(<<NotWord>>, <<NullWord>>)))
<1> DEFINE q == QuoteIfNecessary(n)
<1>1. SimpleString(IsNull(n)) = q \o <<" ", "is", " ", "null">>
  BY DEF SimpleString, IsNull
<1>2. SimpleString(IsNotNull(n)) = q \o <<" ", "is", " ", "not", " ", "null">>
  BY DEF SimpleString, IsNotNull
<1> HIDE DEF q
<1>3. q \in Texts
  BY DEF q
<1> QED BY <1>1, <1>2, <1>3, PrintedTexts DEF q

LEMMA ConditionString ==
  ASSUME NEW n \in Texts, QuoteIfNecessary(n) \in Texts, NEW op \in Texts, NEW vs \in Seq(PlainTexts)
  PROVE  LET q == QuoteIfNecessary(n) IN
         /\ ListText(vs) \in Texts
         /\ Len(vs) = 1 => SimpleString(Condition(n, op, vs)) = Spaced(q, Spaced(op, QuoteIfNecessary(vs[1])))
         /\ Len(vs) # 1 => SimpleString(Condition(n, op, vs)) = Spaced(q, Spaced(op, Wrap(ListText(vs))))
<1> DEFINE q == QuoteIfNecessary(n)
           ws == [i \in DOMAIN vs |-> QuoteIfNecessary(vs[i])]
           s == SimpleString(Condition(n, op, vs))
<1>1. s = q \o <<" ">> \o op \o <<" ">> \o
            (IF Len(ws) = 1 THEN ws[1] ELSE <<"(">> \o Join(ws, <<",", " ">>) \o <<")">>)
  <2> DEFINE c == Condition(n, op, vs)
  <2>1. c.kind = "condition" /\ c.name = n /\ c.op = op /\ c.values = vs
    BY DEF Condition
  <2> HIDE DEF c
  <2>2. SimpleString(c) = QuoteIfNecessary(c.name) \o <<" ">> \o c.op \o <<" ">> \o
          (IF Len([i \in DOMAIN c.values |-> QuoteIfNecessary(c.values[i])]) = 1
           THEN [i \in DOMAIN c.values |-> QuoteIfNecessary(c.values[i])][1]
           ELSE <<"(">> \o Join([i \in DOMAIN c.values |-> QuoteIfNecessary(c.values[i])], <<",", " ">>) \o <<")">>)
    BY <2>1 DEF SimpleString
  <2> QED BY <2>1, <2>2 DEF c
<1>2. \A i \in DOMAIN vs : vs[i] \in PlainTexts
  OBVIOUS
<1>3. ws = Through(Quoting, vs)
  BY <1>2, QuotingParts DEF Through
<1>4. Through(Quoting, vs) \in Seq(Texts) /\ Len(Through(Quoting, vs)) = Len(vs) /\ ListText(vs) \in Texts
  <2>1. CASE vs = <<>>
    <3>1. ListText(vs) \in Texts
      BY SaysList DEF Says
    <3>2. Through(Quoting, vs) = <<>>
      BY <2>1, ThroughNothing
    <3>3. <<>> \in Seq(Texts) /\ Len(<<>>) = Len(vs)
      BY <2>1
    <3> QED BY <3>1, <3>2, <3>3
  <2>2. CASE vs # <<>>
    <3>1. PICK us \in Seq(PlainTexts), v \in PlainTexts : vs = Grow(us, v)
      BY <2>2, Ungrow
    <3>2. Through(Quoting, vs) = Append(Through(Quoting, us), Quoting[v]) /\ Through(Quoting, us) \in Seq(Texts)
          /\ Len(Through(Quoting, us)) = Len(us)
      BY <3>1, QuotingParts, ThroughAppend DEF Grow
    <3>3. Quoting[v] \in Texts
      BY QuotingParts
    <3>4. Through(Quoting, vs) \in Seq(Texts) /\ Len(Through(Quoting, vs)) = Len(us) + 1 /\ Len(vs) = Len(us) + 1
      <4> DEFINE ts == Through(Quoting, us)
                 t == Quoting[v]
      <4>1. ts \in Seq(Texts) /\ t \in Texts /\ Len(ts) = Len(us) /\ Through(Quoting, vs) = Append(ts, t)
        BY <3>2, <3>3
      <4> HIDE DEF ts, t
      <4>2. Append(ts, t) \in Seq(Texts) /\ Len(Append(ts, t)) = Len(us) + 1
        BY <4>1
      <4>3. Len(vs) = Len(us) + 1
        BY <3>1, GrowParts
      <4> QED BY <4>1, <4>2, <4>3
    <3>5. ListText(vs) \in Texts
      BY SaysList DEF Says
    <3> QED BY <3>4, <3>5
  <2> QED BY <2>1, <2>2
<1> HIDE DEF q, ws, s
<1>5. ASSUME Len(vs) = 1 PROVE s = Spaced(q, Spaced(op, QuoteIfNecessary(vs[1])))
  <2>1. 1 \in DOMAIN vs /\ vs[1] \in PlainTexts /\ Len(ws) = 1
    <3>1. vs \in Seq(PlainTexts) /\ Len(vs) = 1
      BY <1>5
    <3>2. 1 \in DOMAIN vs /\ vs[1] \in PlainTexts
      BY <3>1
    <3> QED BY <1>3, <1>4, <1>5, <3>2
  <2>2. ws[1] = QuoteIfNecessary(vs[1]) /\ ws[1] \in Texts
    BY <2>1, QuotingParts DEF ws
  <2>3. s = q \o <<" ">> \o op \o <<" ">> \o ws[1]
    BY <1>1, <2>1
  <2>4. q \in Texts
    BY DEF q
  <2>5. q \o <<" ">> \o op \o <<" ">> \o ws[1] = Spaced(q, Spaced(op, ws[1]))
    BY <2>2, <2>4, BetweenTexts
  <2> QED BY <2>2, <2>3, <2>5
<1>6. ASSUME Len(vs) # 1 PROVE s = Spaced(q, Spaced(op, Wrap(ListText(vs))))
  <2>1. Len(ws) # 1
    BY <1>3, <1>4, <1>6
  <2>2. ListText(vs) = Join(ws, <<",", " ">>)
    BY <1>3 DEF ListText, Comma, Blank
  <2>3. <<"(">> \o ListText(vs) \o <<")">> = Wrap(ListText(vs)) /\ Wrap(ListText(vs)) \in Texts
    <3>1. <<"(">> \o ListText(vs) \o <<")">> = Wrap(ListText(vs))
      BY <1>4, BetweenTexts
    <3>2. \E ts : Says(ListText(vs), ts)
      BY SaysList
    <3>3. Wrap(ListText(vs)) \in Texts
      BY <3>2, SaysWrap DEF Says
    <3> QED BY <3>1, <3>3
  <2>4. s = q \o <<" ">> \o op \o <<" ">> \o Wrap(ListText(vs))
    BY <1>1, <2>1, <2>2, <2>3
  <2> QED BY <2>3, <2>4, BetweenTexts DEF q
<1> QED BY <1>4, <1>5, <1>6 DEF q, s

LEMMA SimpleItem ==
  ASSUME NEW c \in Simple, PlainClause(c)
  PROVE  \E ts : Says(SimpleString(c), ts) /\ Item(ts, c)
<1> DEFINE n == c.name
           q == QuoteIfNecessary(n)
<1>1. n \in Texts /\ PlainName(n) /\ PlainText(n)
  BY SimpleParts DEF PlainClause, PlainName
<1>2. PICK a : Says(q, <<a>>) /\ Naming(a, n)
  BY <1>1, SaysPlain, StatedName DEF Naming
<1>3. q \in Texts
  BY <1>2 DEF Says
<1> HIDE DEF n, q
<1>4. \A w \in {IsWord, NotWord, NullWord} : Says(<<w>>, <<Mark(w)>>)
  BY KnownWords
<1>5. CASE c = IsNull(n)
  <2>1. SimpleString(c) = Spaced(q, Spaced(<<IsWord>>, <<NullWord>>))
    BY <1>1, <1>3, <1>5, SimpleStrings DEF q
  <2>2. Says(SimpleString(c), Row(a, Mark(IsWord), <<Mark(NullWord)>>))
    BY <1>2, <1>4, <2>1, RowSays
  <2> QED BY <1>2, <1>5, <2>2, NullItem
<1>6. CASE c = IsNotNull(n)
  <2>1. SimpleString(c) = Spaced(q, Spaced(<<IsWord>>, Spaced(<<NotWord>>, <<NullWord>>)))
    BY <1>1, <1>3, <1>6, SimpleStrings DEF q
  <2>2. Says(Spaced(<<NotWord>>, <<NullWord>>), Cat(<<Mark(NotWord)>>, <<Mark(NullWord)>>))
    BY <1>4, SaysSpaced
  <2>3. Says(SimpleString(c), Row(a, Mark(IsWord), Cat(<<Mark(NotWord)>>, <<Mark(NullWord)>>)))
    BY <1>2, <1>4, <2>1, <2>2, RowSays
  <2> QED BY <1>2, <1>6, <2>3, NotNullItem
<1>7. ASSUME c.kind = "condition", c = Condition(n, c.op, c.values), c.op \in Operations \cap Texts, c.values \in Seq(Texts)
      PROVE  \E ts : Says(SimpleString(c), ts) /\ Item(ts, c)
  <2> DEFINE op == c.op
             vs == c.values
             b == Token(op, None, TRUE)
  <2>1. \A i \in DOMAIN vs : PlainText(vs[i])
    BY <1>7 DEF PlainClause
  <2>2. vs \in Seq(PlainTexts) /\ vs \in Seq(Texts) /\ op \in Operations \cap Texts /\ c = Condition(n, op, vs)
    <3>1. \A i \in DOMAIN vs : vs[i] \in PlainTexts
      BY <1>7, <2>1 DEF PlainTexts
    <3>2. vs \in Seq(Texts) /\ op \in Operations \cap Texts
      BY <1>7
    <3>3. c = Condition(n, op, vs)
      BY <1>7
    <3> HIDE DEF vs, op
    <3>4. vs \in Seq(PlainTexts)
      BY <3>1, <3>2
    <3> QED BY <3>2, <3>3, <3>4
  <2> HIDE DEF op, vs
  <2>3. Says(op, <<b>>)
    BY <2>2, SaysOperation
  <2> HIDE DEF b
  <2>4. CASE Len(vs) = 1
    <3>1. vs[1] \in PlainTexts /\ vs = <<vs[1]>>
      BY <2>2, <2>4
    <3>2. PICK t : Says(QuoteIfNecessary(vs[1]), <<t>>) /\ Stated(t, vs[1])
      BY <3>1, QuotingParts
    <3>3. SimpleString(c) = Spaced(q, Spaced(op, QuoteIfNecessary(vs[1])))
      BY <1>1, <1>3, <2>2, <2>4, ConditionString DEF q
    <3>4. Says(SimpleString(c), Row(a, b, <<t>>))
      BY <1>2, <2>3, <3>2, <3>3, RowSays
    <3>5. Item(Row(a, b, <<t>>), Condition(n, op, <<vs[1]>>))
      BY <1>2, <2>2, <3>2, ValueItem DEF b
    <3>6. c = Condition(n, op, <<vs[1]>>)
      BY <2>2, <3>1
    <3> QED BY <3>4, <3>5, <3>6
  <2>5. CASE Len(vs) # 1
    <3>1. PICK us : Says(ListText(vs), us) /\ Listing(us, vs)
      BY <2>2, SaysList
    <3>2. SimpleString(c) = Spaced(q, Spaced(op, Wrap(ListText(vs))))
      BY <1>1, <1>3, <2>2, <2>5, ConditionString DEF q
    <3>3. Says(Wrap(ListText(vs)), Enclose(us))
      BY <3>1, SaysWrap
    <3>4. Says(SimpleString(c), Row(a, b, Enclose(us)))
      BY <1>2, <2>3, <3>2, <3>3, RowSays
    <3>5. Item(Row(a, b, Enclose(us)), Condition(n, op, vs))
      BY <1>2, <2>2, <3>1, ListItem DEF b
    <3> QED BY <2>2, <3>4, <3>5
  <2> QED BY <2>4, <2>5
<1> QED BY <1>5, <1>6, <1>7, SimpleParts DEF n
-----------------------------------------------------------------------------
(* A group: what it prints, and what that is read as. *)

Kind == {"and", "or"}
Alike(f, g) == f.string = g.string /\ f.normal = g.normal
Prints(u, d) == \E ts : Says(u, ts) /\ Item(ts, d)
Separator(k) == <<" ", k, " ">>

LEMMA BetweenKinds ==
  ASSUME NEW k \in Kind
  PROVE  /\ Separator(k) \in Texts /\ <<k>> \in Texts /\ Says(<<k>>, <<Mark(k)>>)
         /\ Separator(k) = Cat(<<Blank>>, Cat(<<k>>, <<Blank>>))
<1>1. k \in Letter /\ Blank \in Letter
  BY Special, Space DEF Kind
<1>2. <<k>> \in Texts /\ <<Blank>> \in Texts /\ <<k, Blank>> \in Texts /\ Cat(<<k>>, <<Blank>>) = <<k, Blank>>
  BY <1>1, Tuples DEF Texts
<1>3. Separator(k) \in Texts /\ Cat(<<Blank>>, <<k, Blank>>) = Separator(k)
  <2> DEFINE t == <<k, Blank>>
             b == <<Blank, k, Blank>>
  <2>1. b \in Seq(Letter) /\ Len(b) = 3 /\ Len(t) = 2 /\ b[1] = Blank /\ \A i \in 1..Len(t) : b[i + 1] = t[i]
    BY <1>1
  <2>2. t \in Seq(Letter) /\ Len(b) = Len(t) + 1
    BY <1>2, <2>1 DEF Texts
  <2>3. b = Separator(k)
    BY DEF Separator, Blank
  <2> HIDE DEF t, b
  <2>4. Cat(<<Blank>>, t) = b
    BY <1>1, <2>1, <2>2, TupleCat
  <2> QED BY <2>1, <2>3, <2>4 DEF t, Texts
<1>4. Says(<<k>>, <<Mark(k)>>)
  BY SaysMark DEF Kind
<1> QED BY <1>2, <1>3, <1>4

LEMMA GroupAlike ==
  ASSUME NEW k, NEW fs, NEW gs, NEW N \in Nat, DOMAIN fs = 1..N, DOMAIN gs = 1..N, Len(fs) = N, Len(gs) = N,
         \A i \in 1..N : Alike(fs[i], gs[i])
  PROVE  Alike(GroupForm(k, fs), GroupForm(k, gs))
<1> DEFINE s(x) == [i \in DOMAIN x |-> x[i].string]
           m(x) == [i \in DOMAIN x |-> x[i].normal]
           one(x) == IF Len(x) = 1 THEN x[1].normal ELSE Group(k, m(x))
<1>1. DOMAIN fs = 1..N /\ DOMAIN gs = 1..N
  OBVIOUS
<1>2. \A i \in 1..N : fs[i].string = gs[i].string /\ fs[i].normal = gs[i].normal
  BY DEF Alike
<1>3. s(fs) = s(gs) /\ m(fs) = m(gs)
  BY <1>1, <1>2
<1>4. one(fs) = one(gs)
  <2>1. Len(fs) = 1 /\ Len(gs) = 1 => 1 \in 1..N
    OBVIOUS
  <2> QED BY <1>2, <1>3, <2>1
<1>5. \A x : GroupForm(k, x).string = GroupString(k, s(x)) /\ GroupForm(k, x).normal = one(x)
  BY DEF GroupForm, Form
<1> HIDE DEF s, one
<1> QED BY <1>3, <1>4, <1>5 DEF Alike

LEMMA OneForm ==
  ASSUME NEW k \in Kind, NEW f, f.string \in Texts
  PROVE  Alike(GroupForm(k, <<f>>), f)
<1>1. [i \in DOMAIN <<f>> |-> <<f>>[i].string] = <<f.string>>
  OBVIOUS
<1>2. Len(<<f>>) = 1 /\ <<f>>[1] = f /\ Len(<<f.string>>) <= 1
  OBVIOUS
<1>3. GroupForm(k, <<f>>).string = GroupString(k, <<f.string>>) /\ GroupForm(k, <<f>>).normal = f.normal
  BY <1>1, <1>2 DEF GroupForm, Form
<1>4. GroupString(k, <<f.string>>) = Join(<<f.string>>, Separator(k))
  BY <1>2 DEF GroupString, Separator
<1>5. Join(<<f.string>>, Separator(k)) = f.string
  BY BetweenKinds, JoinedOne
<1> QED BY <1>3, <1>4, <1>5 DEF Alike

LEMMA GroupFormAt ==
  ASSUME NEW n \in Nat, NEW k \in Kind, NEW cs \in Seq(Clauses(n))
  PROVE  /\ Group(k, cs) \in Clauses(n + 1)
         /\ Forms[n + 1][Group(k, cs)] = GroupForm(k, FormsIn(n, cs))
<1>1. Group(k, cs) \in Groups(Clauses(n))
  BY GroupIn DEF Kind
<1>2. Group(k, cs).kind = k /\ Group(k, cs).clauses = cs
  BY DEF Group
<1> QED BY <1>1, <1>2, FormsGroup
\* The AND groups of a text that joins clauses ds with k.
Stack(k, ds) == IF k = "and" THEN <<ds>> ELSE Singly(ds)
Opening(k, st) == IF k = "and" THEN st ELSE Append(st, <<>>)

LEMMA StackType ==
  ASSUME NEW k \in Kind, NEW C, NEW ds \in Seq(C), NEW d \in C
  PROVE  /\ Stack(k, ds) \in Seq(Seq(C))
         /\ Append(ds, d) \in Seq(C) /\ Append(<<>>, d) = <<d>>
         /\ With(<<>>, d) = Stack(k, Append(<<>>, d))
         /\ With(Opening(k, Stack(k, ds)), d) = Stack(k, Append(ds, d))
<1>1. Singly(ds) \in Seq(Seq(C)) /\ Singly(Append(ds, d)) = Append(Singly(ds), <<d>>)
  BY SinglyAppend
<1>2. <<>> \in Seq(Seq(C)) /\ <<>> \in Seq(C) /\ <<ds>> \in Seq(Seq(C)) /\ Append(ds, d) \in Seq(C)
      /\ Append(<<>>, ds) = <<ds>> /\ Append(<<>>, Append(ds, d)) = <<Append(ds, d)>> /\ Append(<<>>, d) = <<d>>
  OBVIOUS
<1>3. Stack(k, ds) \in Seq(Seq(C))
  BY <1>1, <1>2 DEF Stack
<1>4. With(<<>>, d) = Stack(k, Append(<<>>, d))
  <2>1. Singly(<<d>>) = <<<<d>>>>
    BY DEF Singly
  <2>2. With(<<>>, d) = <<<<d>>>>
    BY DEF With
  <2> QED BY <1>2, <2>1, <2>2 DEF Stack
<1>5. CASE k = "and"
  <2>1. Grow(<<>>, ds) = <<ds>> /\ Grow(<<>>, Append(ds, d)) = <<Append(ds, d)>>
    BY <1>2 DEF Grow
  <2>2. With(Grow(<<>>, ds), d) = Grow(<<>>, Append(ds, d))
    BY <1>2, WithGrow
  <2>3. Opening(k, Stack(k, ds)) = <<ds>> /\ Stack(k, Append(ds, d)) = <<Append(ds, d)>>
    BY <1>5 DEF Opening, Stack
  <2> QED BY <1>2, <1>3, <1>4, <2>1, <2>2, <2>3
<1>6. CASE k # "and"
  <2>1. With(Grow(Singly(ds), <<>>), d) = Grow(Singly(ds), Append(<<>>, d))
    BY <1>1, <1>2, WithGrow
  <2>2. Opening(k, Stack(k, ds)) = Grow(Singly(ds), <<>>) /\ Stack(k, Append(ds, d)) = Grow(Singly(ds), <<d>>)
    BY <1>1, <1>6 DEF Opening, Stack, Grow
  <2> QED BY <1>2, <1>3, <1>4, <2>1, <2>2
<1> QED BY <1>5, <1>6

LEMMA PendingOpening ==
  ASSUME NEW k \in Kind, NEW w, NEW C, NEW st \in Seq(Seq(C)), Complete(w, st)
  PROVE  Pending(Cat(w, <<Mark(k)>>), Opening(k, st))
<1>1. CASE k = "and"
  BY <1>1, PendingAnd DEF Opening
<1>2. CASE k = "or"
  BY <1>2, PendingOr DEF Opening
<1> QED BY <1>1, <1>2 DEF Kind

\* Joining one more.
LEMMA JoinedStep ==
  ASSUME NEW k \in Kind, NEW parts \in Seq(Texts), NEW x \in Texts
  PROVE  /\ Join(parts, Separator(k)) \in Texts
         /\ parts = <<>> => Join(Append(parts, x), Separator(k)) = x
         /\ parts # <<>> => Join(Append(parts, x), Separator(k)) = Spaced(Spaced(Join(parts, Separator(k)), <<k>>), x)
<1> DEFINE sep == Separator(k)
           J == Join(parts, sep)
           b == <<Blank>>
           o == <<k>>
<1>1. sep \in Texts /\ o \in Texts /\ b \in Texts /\ sep = Cat(b, Cat(o, b))
  BY BetweenKinds, Space, Tuples DEF Texts
<1>2. J \in Texts /\ Join(Append(parts, x), sep) = IF parts = <<>> THEN x ELSE Cat(J, Cat(sep, x))
  <2> HIDE DEF sep
  <2> QED BY <1>1, TextsJoin, JoinAppend
<1> HIDE DEF J, sep, b, o
<1>3. Cat(J, Cat(sep, x)) = Cat(Cat(J, Cat(b, o)), Cat(b, x))
  <2>1. Cat(o, b) \in Texts /\ Cat(b, o) \in Texts /\ Cat(b, x) \in Texts
    BY <1>1, TextIn3
  <2>2. Cat(b, Cat(o, b)) = Cat(Cat(b, o), b)
    BY <1>1, TextIn3
  <2>3. Cat(J, Cat(Cat(Cat(b, o), b), x)) = Cat(Cat(J, Cat(b, o)), Cat(b, x))
    BY <1>1, <1>2, <2>1, CatShift
  <2> QED BY <1>1, <2>2, <2>3
<1>4. Spaced(Spaced(J, o), x) = Cat(Cat(J, Cat(b, o)), Cat(b, x))
  BY DEF Spaced, b, Blank
<1> QED BY <1>2, <1>3, <1>4 DEF J, sep, o
LEMMA JoinedItems ==
  ASSUME NEW R, NEW D, NEW str, Maps(str, R, Texts), NEW f, Maps(f, R, D), \A c \in R : Prints(str[c], f[c]),
         NEW k \in Kind
  PROVE  \A cs \in Seq(R) : cs # <<>> =>
           \E w : Says(Join(Through(str, cs), Separator(k)), w) /\ Complete(w, Stack(k, Through(f, cs)))
<1> DEFINE Said(cs) == \E w : Says(Join(Through(str, cs), Separator(k)), w) /\ Complete(w, Stack(k, Through(f, cs)))
           S == {cs \in Seq(R) : cs # <<>> => Said(cs)}
<1>1. <<>> \in S
  <2>1. <<>> \in Seq(R)
    OBVIOUS
  <2> QED BY <2>1
<1>2. ASSUME NEW cs \in S, NEW c \in R PROVE Append(cs, c) \in S
  <2> DEFINE es == Append(cs, c)
             parts == Through(str, cs)
             ds == Through(f, cs)
             x == str[c]
             d == f[c]
  <2>1. cs \in Seq(R) /\ es \in Seq(R)
    OBVIOUS
  <2>2. parts \in Seq(Texts) /\ Len(parts) = Len(cs) /\ Through(str, es) = Append(parts, x)
    BY <2>1, ThroughAppend
  <2>3. ds \in Seq(D) /\ Len(ds) = Len(cs) /\ Through(f, es) = Append(ds, d)
    BY <2>1, ThroughAppend
  <2>4. x \in Texts /\ d \in D
    BY DEF Maps
  <2>5. PICK i : Says(x, i) /\ Item(i, d)
    BY DEF Prints
  <2>6. cs = <<>> => parts = <<>> /\ ds = <<>>
    BY ThroughNothing
  <2>7. cs # <<>> => parts # <<>>
    <3> HIDE DEF parts
    <3> QED BY <2>1, <2>2
  <2> HIDE DEF es, parts, ds, x, d
  <2>8. i \in Series
    BY <2>5 DEF Says
  <2>9. CASE cs = <<>>
    <3>1. Join(Through(str, es), Separator(k)) = x
      <4>1. parts = <<>> => Join(Append(parts, x), Separator(k)) = x
        BY <2>2, <2>4, JoinedStep
      <4> QED BY <2>2, <2>6, <2>9, <4>1
    <3>2. Complete(Cat(<<>>, i), With(<<>>, d))
      BY <2>5, PendingEmpty DEF Pending
    <3>3. Cat(<<>>, i) = i
      BY <2>8, SeriesIn
    <3>4. With(<<>>, d) = Stack(k, Append(<<>>, d))
      BY <2>3, <2>4, StackType
    <3>5. Through(f, es) = Append(<<>>, d)
      BY <2>3, <2>6, <2>9
    <3>6. Said(es)
      BY <2>5, <3>1, <3>2, <3>3, <3>4, <3>5
    <3> QED BY <2>1, <3>6 DEF es
  <2>10. CASE cs # <<>>
    <3>1. PICK w : Says(Join(parts, Separator(k)), w) /\ Complete(w, Stack(k, ds))
      BY <2>10 DEF parts, ds
    <3> DEFINE st == Stack(k, ds)
               v == Cat(w, <<Mark(k)>>)
    <3>2. st \in Seq(Seq(D)) /\ With(Opening(k, st), d) = Stack(k, Append(ds, d))
      BY <2>3, <2>4, StackType
    <3>3. Pending(v, Opening(k, st))
      BY <3>1, <3>2, PendingOpening
    <3>4. Complete(Cat(v, i), With(Opening(k, st), d))
      BY <2>5, <3>3 DEF Pending
    <3>5. Says(Spaced(Join(parts, Separator(k)), <<k>>), v)
      BY <3>1, BetweenKinds, SaysSpaced
    <3>6. Says(Spaced(Spaced(Join(parts, Separator(k)), <<k>>), x), Cat(v, i))
      BY <2>5, <3>5, SaysSpaced
    <3>7. Join(Through(str, es), Separator(k)) = Spaced(Spaced(Join(parts, Separator(k)), <<k>>), x)
      BY <2>2, <2>4, <2>7, <2>10, JoinedStep
    <3> HIDE DEF v, st
    <3>8. Said(es)
      BY <2>3, <3>2, <3>4, <3>6, <3>7
    <3> QED BY <2>1, <3>8 DEF es
  <2> QED BY <2>9, <2>10
<1>3. S \in SUBSET Seq(R)
  OBVIOUS
<1> HIDE DEF S
<1>4. S = Seq(R)
  BY <1>1, <1>2, <1>3, Appending
<1> QED BY <1>4 DEF S

\* What such a text means: the clauses of an OR are each an AND of one.
Alone(d) == Group("and", <<d>>)
Regrouped(k, ds) == IF k = "and" THEN Group("and", ds) ELSE Group("or", [i \in DOMAIN ds |-> Alone(ds[i])])

LEMMA StackMeans ==
  ASSUME NEW k \in Kind, NEW C, NEW ds \in Seq(C), Len(ds) > 1
  PROVE  Meant(Stack(k, ds)) = Regrouped(k, ds)
<1>1. CASE k = "and"
  <2>1. [i \in DOMAIN <<ds>> |-> Group("and", <<ds>>[i])] = <<Group("and", ds)>>
    OBVIOUS
  <2>2. Or(<<Group("and", ds)>>) = Group("and", ds)
    BY DEF Or
  <2> QED BY <1>1, <2>1, <2>2 DEF Meant, Stack, Regrouped
<1>2. CASE k # "and"
  <2> DEFINE gs == [i \in DOMAIN ds |-> Group("and", <<ds[i]>>)]
  <2>1. [i \in DOMAIN Singly(ds) |-> Group("and", Singly(ds)[i])] = gs
    BY DEF Singly
  <2>2. Len(gs) = Len(ds) /\ Len(ds) \in Nat
    OBVIOUS
  <2>3. Or(gs) = Group("or", gs)
    <3> HIDE DEF gs
    <3> QED BY <2>2 DEF Or
  <2> QED BY <1>2, <2>1, <2>3 DEF Meant, Stack, Regrouped, Alone
<1> QED BY <1>1, <1>2
LEMMA FormsInParts ==
  ASSUME NEW n, NEW S, NEW cs \in Seq(S)
  PROVE  /\ DOMAIN FormsIn(n, cs) = 1..Len(cs) /\ Len(FormsIn(n, cs)) = Len(cs) /\ Len(cs) \in Nat
         /\ \A i \in 1..Len(cs) : FormsIn(n, cs)[i] = Forms[n][cs[i]] /\ cs[i] \in S
<1>1. DOMAIN cs = 1..Len(cs) /\ Len(cs) \in Nat /\ \A i \in 1..Len(cs) : cs[i] \in S
  OBVIOUS
<1>2. FormsIn(n, cs) = [i \in 1..Len(cs) |-> Forms[n][cs[i]]]
  BY <1>1 DEF FormsIn
<1>3. Len([i \in 1..Len(cs) |-> Forms[n][cs[i]]]) = Len(cs)
  BY <1>1
<1> QED BY <1>1, <1>2, <1>3

LEMMA AlikeTrans == \A x, y, z : Alike(x, y) /\ Alike(y, z) => Alike(x, z)
BY DEF Alike

LEMMA AloneForm ==
  ASSUME NEW m \in Nat, NEW d \in Clauses(m), Forms[m][d].string \in Texts
  PROVE  Alone(d) \in Clauses(m + 1) /\ Alike(Forms[m + 1][Alone(d)], Forms[m][d])
<1>1. <<d>> \in Seq(Clauses(m)) /\ "and" \in Kind
  BY DEF Kind
<1>2. Alone(d) \in Clauses(m + 1) /\ Forms[m + 1][Alone(d)] = GroupForm("and", FormsIn(m, <<d>>))
  BY <1>1, GroupFormAt DEF Alone
<1>3. FormsIn(m, <<d>>) = <<Forms[m][d]>>
  BY DEF FormsIn
<1> QED BY <1>1, <1>2, <1>3, OneForm

\* The clause that is read has the form of the clause that was printed.
LEMMA RegroupedForm ==
  ASSUME NEW m \in Nat, NEW k \in Kind, NEW ds \in Seq(Clauses(m)), NEW fs, DOMAIN fs = 1..Len(ds), Len(fs) = Len(ds),
         \A i \in 1..Len(ds) : Alike(Forms[m][ds[i]], fs[i]) /\ Forms[m][ds[i]].string \in Texts
  PROVE  /\ Regrouped(k, ds) \in Clauses(m + 2)
         /\ Alike(Forms[m + 2][Regrouped(k, ds)], GroupForm(k, fs))
<1> DEFINE N == Len(ds)
           es == [i \in DOMAIN ds |-> Alone(ds[i])]
<1>1. N \in Nat /\ DOMAIN ds = 1..N /\ \A i \in 1..N : ds[i] \in Clauses(m)
  OBVIOUS
<1>2. m + 1 \in Nat /\ (m + 1) + 1 = m + 2
  OBVIOUS
<1> HIDE DEF N
<1>3. CASE k = "and"
  <2> DEFINE c == Group("and", ds)
  <2>1. c \in Clauses(m + 1) /\ Forms[m + 1][c] = GroupForm(k, FormsIn(m, ds))
    BY <1>3, GroupFormAt
  <2>2. DOMAIN FormsIn(m, ds) = 1..N /\ Len(FormsIn(m, ds)) = N /\ \A i \in 1..N : FormsIn(m, ds)[i] = Forms[m][ds[i]]
    BY FormsInParts DEF N
  <2>3. Alike(GroupForm(k, FormsIn(m, ds)), GroupForm(k, fs))
    BY <1>1, <2>2, GroupAlike DEF N
  <2> HIDE DEF c
  <2>4. c \in Clauses((m + 1) + 1) /\ Forms[(m + 1) + 1][c] = Forms[m + 1][c]
    BY <1>2, <2>1, Deepen
  <2>5. Regrouped(k, ds) = c
    BY <1>3 DEF Regrouped, c
  <2> QED BY <1>2, <2>1, <2>3, <2>4, <2>5
<1>4. CASE k # "and"
  <2> DEFINE c == Group("or", es)
             gs == FormsIn(m + 1, es)
  <2>1. \A i \in 1..N : /\ es[i] = Alone(ds[i]) /\ es[i] \in Clauses(m + 1)
                        /\ Alike(Forms[m + 1][es[i]], fs[i])
    <3>1. SUFFICES ASSUME NEW i \in 1..N
                   PROVE  es[i] = Alone(ds[i]) /\ es[i] \in Clauses(m + 1) /\ Alike(Forms[m + 1][es[i]], fs[i])
      OBVIOUS
    <3>2. es[i] = Alone(ds[i])
      BY <1>1
    <3>3. ds[i] \in Clauses(m) /\ Forms[m][ds[i]].string \in Texts /\ Alike(Forms[m][ds[i]], fs[i])
      BY <1>1 DEF N
    <3> HIDE DEF es
    <3>4. Alone(ds[i]) \in Clauses(m + 1) /\ Alike(Forms[m + 1][Alone(ds[i])], Forms[m][ds[i]])
      BY <3>3, AloneForm
    <3> QED BY <3>2, <3>3, <3>4, AlikeTrans
  <2>2. es \in Seq(Clauses(m + 1)) /\ Len(es) = N
    <3>1. es = [i \in 1..N |-> Alone(ds[i])]
      BY <1>1
    <3>2. \A i \in 1..N : Alone(ds[i]) \in Clauses(m + 1)
      BY <2>1
    <3> HIDE DEF es
    <3> QED BY <1>1, <3>1, <3>2
  <2>3. k = "or" /\ k \in Kind
    BY <1>4 DEF Kind
  <2>4. Regrouped(k, ds) = c
    BY <1>4 DEF Regrouped
  <2> HIDE DEF es
  <2>5. c \in Clauses((m + 1) + 1) /\ Forms[(m + 1) + 1][c] = GroupForm(k, gs)
    BY <1>2, <2>2, <2>3, GroupFormAt
  <2>6. DOMAIN gs = 1..N /\ Len(gs) = N /\ \A i \in 1..N : gs[i] = Forms[m + 1][es[i]]
    BY <2>2, FormsInParts
  <2> HIDE DEF gs, c
  <2>7. Alike(GroupForm(k, gs), GroupForm(k, fs))
    BY <1>1, <2>1, <2>6, GroupAlike DEF N
  <2> QED BY <1>2, <2>4, <2>5, <2>7
<1> QED BY <1>3, <1>4
\* Whatever a form says, some clause with up to m levels of groups is read from it, and has that form.
PrintedBy(f, m) == \E d \in Clauses(m) : Prints(f.string, d) /\ Alike(Forms[m][d], f)

LEMMA DeeperBy ==
  ASSUME NEW m \in Nat, NEW f, PrintedBy(f, m)
  PROVE  PrintedBy(f, m + 2)
<1>1. PICK d \in Clauses(m) : Prints(f.string, d) /\ Alike(Forms[m][d], f)
  BY DEF PrintedBy
<1>2. d \in Clauses(m + 2) /\ Forms[m + 2][d] = Forms[m][d]
  <2>1. 2 \in Nat
    OBVIOUS
  <2> QED BY <2>1, DeepenTo
<1> QED BY <1>1, <1>2 DEF PrintedBy

LEMMA AlikeBy ==
  ASSUME NEW m, NEW f, PrintedBy(f, m), NEW g, Alike(g, f)
  PROVE  PrintedBy(g, m)
<1>1. PICK d \in Clauses(m) : Prints(f.string, d) /\ Alike(Forms[m][d], f)
  BY DEF PrintedBy
<1>2. Alike(Forms[m][d], g) /\ g.string = f.string
  BY <1>1 DEF Alike
<1> QED BY <1>1, <1>2 DEF PrintedBy

LEMMA GroupFormParts ==
  ASSUME NEW k, NEW fs
  PROVE  /\ GroupForm(k, fs).string = GroupString(k, [i \in DOMAIN fs |-> fs[i].string])
         /\ GroupForm(k, fs).readable <=> fs # <<>> /\ \A i \in DOMAIN fs : fs[i].readable
BY DEF GroupForm, Form

LEMMA GroupPrinted ==
  ASSUME NEW n \in Nat, NEW m \in Nat, \A c \in Clauses(n) : Forms[n][c].readable => PrintedBy(Forms[n][c], m),
         NEW k \in Kind, NEW cs \in Seq(Clauses(n)), GroupForm(k, FormsIn(n, cs)).readable
  PROVE  PrintedBy(GroupForm(k, FormsIn(n, cs)), m + 2)
<1> DEFINE R == {c \in Clauses(n) : Forms[n][c].readable}
           D == Clauses(m)
           Reads(c, d) == Prints(Forms[n][c].string, d) /\ Alike(Forms[m][d], Forms[n][c])
           f == [c \in R |-> CHOOSE d \in D : Reads(c, d)]
           str == [c \in R |-> Forms[n][c].string]
           fs == FormsIn(n, cs)
           ds == Through(f, cs)
           N == Len(cs)
<1>1. N \in Nat /\ DOMAIN fs = 1..N /\ Len(fs) = N /\ \A i \in 1..N : fs[i] = Forms[n][cs[i]] /\ cs[i] \in Clauses(n)
  BY FormsInParts
<1>2. fs # <<>> /\ \A i \in 1..N : fs[i].readable
  BY <1>1, GroupFormParts
<1>3. \A i \in 1..N : cs[i] \in R
  BY <1>1, <1>2
<1>4. \A c \in R : f[c] \in D /\ Reads(c, f[c]) /\ str[c] = Forms[n][c].string /\ str[c] \in Texts
  <2>1. SUFFICES ASSUME NEW c \in R PROVE f[c] \in D /\ Reads(c, f[c]) /\ str[c] = Forms[n][c].string /\ str[c] \in Texts
    OBVIOUS
  <2>2. \E d \in D : Reads(c, d)
    BY DEF PrintedBy
  <2>3. f[c] \in D /\ Reads(c, f[c])
    BY <2>2
  <2>4. Forms[n][c].string \in Texts
    BY <2>3 DEF Prints, Says
  <2> QED BY <2>3, <2>4
<1>5. Maps(str, R, Texts) /\ Maps(f, R, D)
  BY <1>4 DEF Maps
<1>6. \A c \in R : Prints(str[c], f[c])
  BY <1>4
<1> HIDE DEF R, f, str, fs, ds, N
<1>7. cs \in Seq(R) /\ cs # <<>> /\ N > 0
  <2>1. cs \in Seq(R)
    BY <1>1, <1>3 DEF N
  <2>2. cs # <<>>
    <3>1. FormsIn(n, <<>>) = <<>>
      BY DEF FormsIn
    <3> QED BY <1>2, <3>1 DEF fs
  <2> QED BY <1>1, <2>1, <2>2 DEF N
<1>8. CASE N = 1
  <2> DEFINE c == cs[1]
             g == Forms[n][c]
  <2>1. c \in R /\ fs = <<g>>
    <3>1. cs = <<c>>
      BY <1>7, <1>8 DEF N
    <3>2. FormsIn(n, <<c>>) = <<g>>
      BY DEF FormsIn
    <3>3. c \in R
      BY <1>3, <1>8
    <3> QED BY <3>1, <3>2, <3>3 DEF fs
  <2>2. g.string \in Texts /\ PrintedBy(g, m)
    BY <1>4, <2>1 DEF PrintedBy
  <2> HIDE DEF c, g
  <2>3. Alike(GroupForm(k, fs), g)
    BY <2>1, <2>2, OneForm
  <2>4. PrintedBy(GroupForm(k, fs), m)
    BY <2>2, <2>3, AlikeBy
  <2> QED BY <2>4, DeeperBy DEF fs
<1>9. CASE N # 1
  <2> DEFINE J == Join(Through(str, cs), Separator(k))
             e == Regrouped(k, ds)
  <2>1. PICK w : Says(J, w) /\ Complete(w, Stack(k, ds))
    BY <1>5, <1>6, <1>7, JoinedItems DEF ds
  <2>2. ds \in Seq(D) /\ Len(ds) = N /\ DOMAIN ds = 1..N /\ \A i \in 1..N : ds[i] = f[cs[i]]
    <3>0. cs \in Seq(Clauses(n)) /\ DOMAIN cs = 1..N
      BY DEF N
    <3>1. DOMAIN ds = 1..N /\ \A i \in 1..N : ds[i] = f[cs[i]]
      BY <3>0 DEF ds, Through
    <3>2. ds = [i \in 1..N |-> f[cs[i]]]
      BY <3>0 DEF ds, Through
    <3>3. \A i \in 1..N : f[cs[i]] \in D
      BY <1>3, <1>4
    <3>4. ds \in Seq(D) /\ Len(ds) = N
      BY <1>1, <3>2, <3>3
    <3> QED BY <3>1, <3>4
  <2>3. Item(Enclose(w), e)
    <3>1. N > 1
      BY <1>1, <1>7, <1>9
    <3>2. Stack(k, ds) \in Seq(Seq(D))
      <4>1. cs[1] \in R /\ f[cs[1]] \in D
        <5>1. 1 \in 1..N
          BY <1>1, <1>7
        <5> QED BY <1>3, <1>4, <5>1
      <4> QED BY <2>2, <4>1, StackType
    <3>3. Item(Enclose(w), Meant(Stack(k, ds)))
      BY <2>1, <3>2, CompleteMeans
    <3>4. Meant(Stack(k, ds)) = e
      BY <2>2, <3>1, StackMeans
    <3> QED BY <3>3, <3>4
  <2>4. GroupForm(k, fs).string = Wrap(J)
    <3>1. [i \in DOMAIN fs |-> fs[i].string] = Through(str, cs)
      <4>1. DOMAIN cs = 1..N
        BY DEF N
      <4>2. \A i \in 1..N : fs[i].string = str[cs[i]]
        BY <1>1, <1>3, <1>4
      <4> QED BY <1>1, <4>1, <4>2 DEF Through
    <3>2. GroupForm(k, fs).string = GroupString(k, Through(str, cs))
      BY <3>1, GroupFormParts
    <3>3. ~(Len(Through(str, cs)) <= 1)
      <4>1. Through(str, cs) = [i \in 1..N |-> str[cs[i]]]
        BY DEF Through, N
      <4>2. Len(Through(str, cs)) = N
        BY <1>1, <4>1
      <4> QED BY <1>1, <1>7, <1>9, <4>2
    <3>4. GroupString(k, Through(str, cs)) = <<"(">> \o J \o <<")">>
      BY <3>3 DEF GroupString, Separator
    <3>5. J \in Texts
      BY <2>1 DEF Says
    <3> QED BY <3>2, <3>4, <3>5, BetweenTexts
  <2>5. Prints(GroupForm(k, fs).string, e)
    <3>1. Says(Wrap(J), Enclose(w))
      BY <2>1, SaysWrap
    <3> QED BY <2>3, <2>4, <3>1 DEF Prints
  <2>6. \A i \in 1..Len(ds) : Alike(Forms[m][ds[i]], fs[i]) /\ Forms[m][ds[i]].string \in Texts
    <3>1. SUFFICES ASSUME NEW i \in 1..N PROVE Alike(Forms[m][ds[i]], fs[i]) /\ Forms[m][ds[i]].string \in Texts
      BY <2>2
    <3>2. cs[i] \in R /\ fs[i] = Forms[n][cs[i]] /\ ds[i] = f[cs[i]]
      BY <1>1, <1>3, <2>2
    <3>3. Alike(Forms[m][f[cs[i]]], Forms[n][cs[i]]) /\ Forms[n][cs[i]].string \in Texts
      BY <1>4, <3>2
    <3> QED BY <3>2, <3>3 DEF Alike
  <2>7. e \in Clauses(m + 2) /\ Alike(Forms[m + 2][e], GroupForm(k, fs))
    <3> HIDE DEF J, e
    <3> QED BY <1>1, <2>2, <2>6, RegroupedForm DEF e
  <2> HIDE DEF J, e
  <2> QED BY <2>5, <2>7 DEF PrintedBy, fs
<1> QED BY <1>8, <1>9

\* Groups of nothing print as nothing that can be read.
LEMMA NothingUnreadable ==
  ASSUME NEW n \in Nat, NEW c \in Groups({})
  PROVE  ~Forms[n][c].readable
<1>1. Forms[n][c] = GroupForm(c.kind, <<>>)
  BY FormsNothing
<1> QED BY <1>1, GroupFormParts

LEMMA SimplePrinted ==
  ASSUME NEW n \in Nat, NEW c \in Simple, Forms[n][c].readable, NEW m \in Nat
  PROVE  PrintedBy(Forms[n][c], m)
<1>1. Forms[n][c] = SimpleForm(c) /\ c \in Clauses(m) /\ Forms[m][c] = SimpleForm(c)
  BY FormsSimple
<1>2. PlainClause(c) /\ SimpleForm(c).string = SimpleString(c)
  BY <1>1 DEF SimpleForm, Form
<1>3. Prints(SimpleForm(c).string, c)
  BY <1>2, SimpleItem DEF Prints
<1> QED BY <1>1, <1>3 DEF PrintedBy, Alike

LEMMA Printed == \A n \in Nat : \A c \in Clauses(n) : Forms[n][c].readable => PrintedBy(Forms[n][c], 2 * n)
<1> DEFINE K == {n \in Nat : \A c \in Clauses(n) : Forms[n][c].readable => PrintedBy(Forms[n][c], 2 * n)}
<1>1. 0 \in K
  <2>1. SUFFICES ASSUME NEW c \in Clauses(0), Forms[0][c].readable PROVE PrintedBy(Forms[0][c], 2 * 0)
    OBVIOUS
  <2>2. c \in Simple
    BY <2>1, ClausesSplit, NothingUnreadable
  <2> QED BY <2>1, <2>2, SimplePrinted
<1>2. ASSUME NEW n \in K PROVE n + 1 \in K
  <2>1. n \in Nat /\ n + 1 \in Nat /\ 2 * n \in Nat /\ 2 * n + 2 = 2 * (n + 1) /\ 2 * (n + 1) \in Nat
    OBVIOUS
  <2>2. \A c \in Clauses(n) : Forms[n][c].readable => PrintedBy(Forms[n][c], 2 * n)
    OBVIOUS
  <2>3. ASSUME NEW c \in Clauses(n + 1), Forms[n + 1][c].readable PROVE PrintedBy(Forms[n + 1][c], 2 * (n + 1))
    <3>1. c \in Simple \/ c \in Groups(Clauses(n))
      BY <2>1, ClausesSplit
    <3>2. CASE c \in Simple
      BY <2>1, <2>3, <3>2, SimplePrinted
    <3>3. CASE c \in Groups(Clauses(n))
      <4>1. Forms[n + 1][c] = GroupForm(c.kind, FormsIn(n, c.clauses))
        BY <2>1, <3>3, FormsGroup
      <4>2. c.kind \in Kind /\ c.clauses \in Seq(Clauses(n))
        BY <3>3 DEF Groups, Kind
      <4>3. PrintedBy(GroupForm(c.kind, FormsIn(n, c.clauses)), 2 * n + 2)
        BY <2>1, <2>2, <2>3, <4>1, <4>2, GroupPrinted
      <4> QED BY <2>1, <4>1, <4>3
    <3> QED BY <3>1, <3>2, <3>3
  <2> QED BY <2>1, <2>3
<1> HIDE DEF K
<1>3. K = Nat
  BY <1>1, <1>2, Climbing DEF K
<1> QED BY <1>3 DEF K
\* What is printed is read: as a whole it is one more group.
LEMMA PrintsParse ==
  ASSUME NEW u, NEW d, Prints(u, d)
  PROVE  u \in Texts /\ Parse(u) = Alone(d) /\ Accepted(u)
<1>1. PICK ts : Says(u, ts) /\ Item(ts, d)
  BY DEF Prints
<1>2. u \in Texts /\ ts \in Series
  BY <1>1 DEF Says
<1>3. Runs(ts, <<>>, <<d>>)
  <2>1. Runs(Cat(<<>>, ts), <<>>, <<d>>)
    BY <1>1, RunsEmpty, RunsItem
  <2> QED BY <1>2, <2>1, SeriesIn
<1>4. Or(CloseAnd(<<>>, <<d>>)) = Alone(d)
  BY DEF Or, CloseAnd, Alone
<1>5. Parse(u) = Alone(d)
  BY <1>1, <1>3, <1>4, RunsEnd, ParseSays
<1>6. Alone(d).kind \notin Outcomes
  BY DEF Alone, Group, Outcomes
<1> QED BY <1>2, <1>5, <1>6 DEF Accepted

LEMMA CanonicalReadsBackHere == text \in Texts => CanonicalReadsBack
<1> DEFINE n == Levels(text)
           f == FormOf(text)
           u == f.string
<1> SUFFICES ASSUME text \in Texts, Accepted(text), f.readable
             PROVE  Accepted(u) /\ FormOf(u).normal = f.normal /\ FormOf(u).string = u
  BY DEF CanonicalReadsBack
<1>1. n \in Nat /\ Parse(text) \in Clauses(n) /\ f = Forms[n][Parse(text)]
  BY ParsedForms DEF FormOf
<1> HIDE DEF n, f
<1>2. PICK d \in Clauses(2 * n) : Prints(u, d) /\ Alike(Forms[2 * n][d], f)
  BY <1>1, Printed DEF PrintedBy
<1> DEFINE m == 2 * n
           k == Levels(u)
           e == Alone(d)
<1>3. m \in Nat /\ m + 1 \in Nat
  BY <1>1
<1>4. u \in Texts /\ Parse(u) = e /\ Accepted(u)
  BY <1>2, PrintsParse
<1>5. k \in Nat /\ e \in Clauses(k) /\ FormOf(u) = Forms[k][e]
  BY <1>4, ParsedForms DEF FormOf
<1>6. d \in Clauses(m) /\ Alike(Forms[m][d], f) /\ Forms[m][d].string \in Texts
  BY <1>2, <1>4 DEF Alike
<1> HIDE DEF m, k, e, u
<1>7. e \in Clauses(m + 1) /\ Alike(Forms[m + 1][e], Forms[m][d])
  BY <1>3, <1>6, AloneForm DEF e
<1>8. Forms[k][e] = Forms[m + 1][e]
  BY <1>3, <1>5, <1>7, FormsAgree
<1>9. Alike(FormOf(u), f)
  BY <1>5, <1>6, <1>7, <1>8, AlikeTrans
<1> QED BY <1>4, <1>9 DEF Alike, u

\* The canonical form of whatever was accepted is accepted, means the same and is
\* its own canonical form: with any letters, however long and however deep.
THEOREM CanonicalReadsBackAlways == Spec => []CanonicalReadsBack
<1>1. Init => text \in Texts
  BY DEF Init, Texts
<1>2. text \in Texts /\ [Next]_vars => (text \in Texts)'
  BY TextTyped
<1> QED BY <1>1, <1>2, CanonicalReadsBackHere, PTL DEF Spec
=============================================================================
