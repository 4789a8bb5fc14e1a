---------------------------- MODULE PathsProofs ----------------------------
(***************************************************************************)
(* Theorems about the operators of Paths, for all paths and texts: what    *)
(* the server does on texts is what the operators on elements say.         *)
(*                                                                         *)
(* The prover knows no induction over data.  A statement about sequences   *)
(* of all lengths is proved here by way of the set of the lengths that it  *)
(* holds for: a set of numbers that has 0 and each successor has them all  *)
(* (AllNat, from the least element of a set of numbers).  FlattenSeq of    *)
(* the community modules, a recursive function, is brought to two          *)
(* equations in the same way (FlattenAppend, FlattenOne); all else rests   *)
(* on them.                                                                *)
(***************************************************************************)
EXTENDS Paths, SequenceTheorems, WellFoundedInduction, TLAPS

\* The order of the natural numbers is well founded.
LEMMA NatOrder == IsWellFoundedOn({ss \in Nat \X Nat : ss[1] < ss[2]}, Nat)
BY NatLessThanWellFounded DEF OpToRel

\* A set of numbers has a least one.
LEMMA LeastExists ==
  ASSUME NEW T \in SUBSET Nat, T # {}
  PROVE  \E x \in T : \A y \in T : x <= y
<1>. DEFINE R == {ss \in Nat \X Nat : ss[1] < ss[2]}
<1>1. PICK x \in T : \A y \in T : <<y, x>> \notin R
  <2>. HIDE DEF R
  <2>1. IsWellFoundedOn(R, Nat)
    BY NatOrder DEF R
  <2>. QED
    BY <2>1, WFMin
<1>2. ASSUME NEW y \in T PROVE x <= y
  <2>1. <<y, x>> \notin R /\ x \in Nat /\ y \in Nat
    BY <1>1
  <2>. QED
    BY <2>1
<1>. QED
  BY <1>2

\* Induction: a set of numbers that has 0 and each successor has them all.
LEMMA AllNat ==
  ASSUME NEW S, 0 \in S, \A n \in Nat : n \in S => n + 1 \in S
  PROVE  \A n \in Nat : n \in S
<1>. DEFINE T == Nat \ S
<1>1. SUFFICES ASSUME T # {} PROVE FALSE
  OBVIOUS
<1>2. PICK x \in T : \A y \in T : x <= y
  <2>. HIDE DEF T
  <2>1. T \in SUBSET Nat
    BY DEF T
  <2>. QED
    BY <1>1, <2>1, LeastExists
<1>3. x # 0 /\ x - 1 \in Nat /\ ~(x <= x - 1)
  OBVIOUS
<1>. QED
  BY <1>2, <1>3

\* The equations of the community module's recursion, for the first k parts.
Folds(g, parts, k) ==
  \A i \in 1..k : g[i] = IF i = 1 THEN parts[i] ELSE g[i - 1] \o parts[i]

\* There is a function with these equations,
LEMMA FoldExists ==
  ASSUME NEW S, NEW parts \in Seq(Seq(S))
  PROVE  \A k \in Nat : k <= Len(parts) => \E g \in [1..k -> Seq(S)] : Folds(g, parts, k)
<1>. DEFINE Good == {k \in Nat : k <= Len(parts) => \E g \in [1..k -> Seq(S)] : Folds(g, parts, k)}
<1>1. Len(parts) \in Nat /\ \A i \in 1..Len(parts) : parts[i] \in Seq(S)
  OBVIOUS
<1>2. 0 \in Good
  <2>1. 1..0 = {} /\ [i \in 1..0 |-> <<>>] \in [1..0 -> Seq(S)]
    OBVIOUS
  <2>2. Folds([i \in 1..0 |-> <<>>], parts, 0)
    BY <2>1 DEF Folds
  <2>. QED
    BY <2>1, <2>2
<1>3. ASSUME NEW k \in Nat, k \in Good PROVE k + 1 \in Good
  <2>1. SUFFICES ASSUME k + 1 <= Len(parts)
                 PROVE  \E g \in [1..k+1 -> Seq(S)] : Folds(g, parts, k + 1)
    OBVIOUS
  <2>2. PICK g \in [1..k -> Seq(S)] : Folds(g, parts, k)
    BY <1>1, <1>3, <2>1
  <2>. DEFINE e == IF k = 0 THEN parts[1] ELSE g[k] \o parts[k + 1]
              h == [i \in 1..k+1 |-> IF i = k + 1 THEN e ELSE g[i]]
  <2>3. e \in Seq(S)
    <3>1. CASE k = 0
      BY <1>1, <2>1, <3>1
    <3>2. CASE k # 0
      <4>1. g[k] \in Seq(S) /\ parts[k + 1] \in Seq(S)
        BY <1>1, <2>1, <3>2
      <4>. QED
        BY <4>1, <3>2
    <3>. QED
      BY <3>1, <3>2
  <2>4. h \in [1..k+1 -> Seq(S)]
    BY <2>3
  <2>5. ASSUME NEW i \in 1..k+1
        PROVE  h[i] = IF i = 1 THEN parts[i] ELSE h[i - 1] \o parts[i]
    <3>1. CASE i = k + 1
      <4>1. h[i] = e /\ (k # 0 => h[i - 1] = g[k])
        BY <3>1
      <4>. QED
        BY <3>1, <4>1
    <3>2. CASE i # k + 1
      <4>1. i \in 1..k /\ h[i] = g[i] /\ (i # 1 => h[i - 1] = g[i - 1])
        BY <3>2
      <4>2. g[i] = IF i = 1 THEN parts[i] ELSE g[i - 1] \o parts[i]
        BY <2>2, <4>1 DEF Folds
      <4>. QED
        BY <4>1, <4>2
    <3>. QED
      BY <3>1, <3>2
  <2>. HIDE DEF h
  <2>. QED
    BY <2>4, <2>5 DEF Folds
<1>. HIDE DEF Good
<1>4. \A k \in Nat : k \in Good
  BY <1>2, <1>3, AllNat
<1>. QED
  BY <1>4 DEF Good

Agree(p, q, n) == \A i \in 1..n : p[i] = q[i]

\* and only one,
LEMMA FoldUnique ==
  ASSUME NEW p, NEW q, NEW n \in Nat, NEW m \in Nat, n <= m, Agree(p, q, n),
         NEW g, NEW h, Folds(g, p, n), Folds(h, q, m)
  PROVE  Agree(g, h, n)
<1>. DEFINE Good == {k \in Nat : k \in 1..n => g[k] = h[k]}
<1>1. 0 \in Good
  OBVIOUS
<1>2. ASSUME NEW k \in Nat, k \in Good PROVE k + 1 \in Good
  <2>1. SUFFICES ASSUME k + 1 \in 1..n PROVE g[k + 1] = h[k + 1]
    OBVIOUS
  <2>2. k + 1 \in 1..m /\ k + 1 - 1 = k /\ (k + 1 = 1 <=> k = 0)
    BY <2>1
  <2>3. g[k + 1] = IF k = 0 THEN p[k + 1] ELSE g[k] \o p[k + 1]
    BY <2>1, <2>2 DEF Folds
  <2>4. h[k + 1] = IF k = 0 THEN q[k + 1] ELSE h[k] \o q[k + 1]
    BY <2>2 DEF Folds
  <2>5. k # 0 => g[k] = h[k]
    BY <1>2, <2>1
  <2>. QED
    BY <2>1, <2>3, <2>4, <2>5 DEF Agree
<1>. HIDE DEF Good
<1>3. \A k \in Nat : k \in Good
  BY <1>1, <1>2, AllNat
<1>. QED
  BY <1>3 DEF Good, Agree

\* and FlattenSeq is its last value.
LEMMA FlattenIsFold ==
  ASSUME NEW S, NEW parts \in Seq(Seq(S)), Len(parts) # 0
  PROVE  \E g : /\ g \in [1..Len(parts) -> Seq(S)] /\ Folds(g, parts, Len(parts))
                /\ FlattenSeq(parts) = g[Len(parts)]
<1>. DEFINE n == Len(parts)
            flatten == CHOOSE g : g = [i \in 1..n |-> IF i = 1 THEN parts[i] ELSE g[i - 1] \o parts[i]]
<1>1. PICK g \in [1..n -> Seq(S)] : Folds(g, parts, n)
  BY FoldExists
<1>2. g = [i \in 1..n |-> IF i = 1 THEN parts[i] ELSE g[i - 1] \o parts[i]]
  BY <1>1 DEF Folds
<1>3. flatten = [i \in 1..n |-> IF i = 1 THEN parts[i] ELSE flatten[i - 1] \o parts[i]]
  BY <1>2, Zenon
<1>4. FlattenSeq(parts) = flatten[n]
  BY DEF FlattenSeq
<1>. HIDE DEF flatten
<1>5. Folds(flatten, parts, n)
  BY <1>3 DEF Folds
<1>6. n \in Nat /\ n \in 1..n
  OBVIOUS
<1>7. Agree(parts, parts, n)
  BY DEF Agree
<1>8. Agree(g, flatten, n)
  BY <1>1, <1>5, <1>6, <1>7, FoldUnique
<1>. QED
  BY <1>1, <1>4, <1>6, <1>8 DEF Agree

\* The community module's recursion is the concatenation of its parts.
LEMMA FlattenAppend ==
  ASSUME NEW S
  PROVE  /\ FlattenSeq(<<>>) = <<>>
         /\ \A parts \in Seq(Seq(S)) : FlattenSeq(parts) \in Seq(S)
         /\ \A parts \in Seq(Seq(S)), p \in Seq(S) :
              FlattenSeq(Append(parts, p)) = FlattenSeq(parts) \o p
<1>1. FlattenSeq(<<>>) = <<>>
  BY DEF FlattenSeq
<1>2. ASSUME NEW parts \in Seq(Seq(S)) PROVE FlattenSeq(parts) \in Seq(S)
  <2>1. CASE Len(parts) = 0
    BY <1>1, <2>1, EmptySeq
  <2>2. CASE Len(parts) # 0
    <3>1. Len(parts) \in 1..Len(parts)
      BY <2>2
    <3>2. PICK g : g \in [1..Len(parts) -> Seq(S)] /\ FlattenSeq(parts) = g[Len(parts)]
      BY <2>2, FlattenIsFold
    <3>3. g[Len(parts)] \in Seq(S)
      BY <3>1, <3>2
    <3>. QED
      BY <3>2, <3>3
  <2>. QED
    BY <2>1, <2>2
<1>3. ASSUME NEW parts \in Seq(Seq(S)), NEW p \in Seq(S)
      PROVE  FlattenSeq(Append(parts, p)) = FlattenSeq(parts) \o p
  <2>. DEFINE all == Append(parts, p)
  <2>1. PICK n \in Nat, m \in Nat : n = Len(parts) /\ m = n + 1
    OBVIOUS
  <2>2. /\ all \in Seq(Seq(S)) /\ Len(all) = m /\ all[m] = p
        /\ \A i \in 1..n : parts[i] = all[i]
    BY <2>1
  <2>. HIDE DEF all
  <2>3. PICK h : Folds(h, all, m) /\ FlattenSeq(all) = h[m]
    BY <2>1, <2>2, FlattenIsFold
  <2>4. h[m] = IF m = 1 THEN all[m] ELSE h[m - 1] \o all[m]
    <3>1. m \in 1..m
      BY <2>1
    <3>. QED
      BY <2>3, <3>1 DEF Folds
  <2>5. CASE n = 0
    <3>1. parts = <<>> /\ <<>> \o p = p
      BY <2>1, <2>5, EmptySeq, ConcatEmptySeq
    <3>. QED
      BY <1>1, <2>1, <2>2, <2>3, <2>4, <2>5, <3>1 DEF all
  <2>6. CASE n # 0
    <3>1. PICK g : Folds(g, parts, n) /\ FlattenSeq(parts) = g[n]
      BY <2>1, <2>6, FlattenIsFold
    <3>2. n <= m /\ n \in 1..n /\ m - 1 = n /\ m # 1
      BY <2>1, <2>6
    <3>3. Agree(parts, all, n)
      BY <2>2 DEF Agree
    <3>4. Agree(g, h, n)
      BY <2>3, <3>1, <3>2, <3>3, FoldUnique
    <3>5. g[n] = h[n]
      BY <3>2, <3>4 DEF Agree
    <3>. QED
      BY <2>2, <2>3, <2>4, <3>1, <3>2, <3>5 DEF all
  <2>. QED
    BY <2>5, <2>6
<1>. QED
  BY <1>1, <1>2, <1>3

\* The elements of a concatenation.
LEMMA ConcatAt ==
  ASSUME NEW S, NEW a \in Seq(S), NEW b \in Seq(S), NEW m, NEW n, Len(a) = m, Len(b) = n
  PROVE  /\ a \o b \in Seq(S) /\ Len(a \o b) = m + n /\ m \in Nat /\ n \in Nat
         /\ \A i \in 1..m : (a \o b)[i] = a[i]
         /\ \A i \in 1..n : (a \o b)[m + i] = b[i]
<1>1. m \in Nat /\ n \in Nat
  OBVIOUS
<1>2. a \o b \in Seq(S) /\ Len(a \o b) = m + n
  OBVIOUS
<1>3. ASSUME NEW i \in 1..m PROVE (a \o b)[i] = a[i]
  OBVIOUS
<1>4. ASSUME NEW i \in 1..n PROVE (a \o b)[m + i] = b[i]
  OBVIOUS
<1>. QED
  BY <1>1, <1>2, <1>3, <1>4

\* c is a and then b, position by position.
IsConcat(S, c, a, b) ==
  /\ a \in Seq(S) /\ b \in Seq(S) /\ c \in Seq(S) /\ Len(c) = Len(a) + Len(b)
  /\ \A i \in 1..Len(a) : c[i] = a[i]
  /\ \A i \in 1..Len(b) : c[Len(a) + i] = b[i]

\* Equal elements make equal concatenations.
LEMMA ConcatIs ==
  ASSUME NEW S, NEW a \in Seq(S), NEW b \in Seq(S), NEW c \in Seq(S), IsConcat(S, c, a, b)
  PROVE  c = a \o b
<1>1. PICK m \in Nat, n \in Nat : m = Len(a) /\ n = Len(b)
  OBVIOUS
<1>2. a \o b \in Seq(S) /\ Len(a \o b) = m + n
  BY <1>1
<1>3. \A i \in 1..m : (a \o b)[i] = a[i]
  BY <1>1, ConcatAt
<1>4. \A i \in 1..n : (a \o b)[m + i] = b[i]
  BY <1>1, ConcatAt
<1>5. /\ Len(c) = m + n
      /\ \A i \in 1..m : c[i] = a[i]
      /\ \A i \in 1..n : c[m + i] = b[i]
  BY <1>1 DEF IsConcat
<1>6. ASSUME NEW i \in 1..(m + n) PROVE c[i] = (a \o b)[i]
  <2>1. CASE i <= m
    <3>1. i \in 1..m
      BY <2>1
    <3>. QED
      BY <1>3, <1>5, <3>1
  <2>2. CASE ~(i <= m)
    <3>1. i - m \in 1..n /\ i = m + (i - m)
      BY <2>2
    <3>2. c[m + (i - m)] = b[i - m] /\ (a \o b)[m + (i - m)] = b[i - m]
      BY <1>4, <1>5, <3>1
    <3>. QED
      BY <3>1, <3>2
  <2>. QED
    BY <2>1, <2>2
<1>. QED
  BY <1>2, <1>5, <1>6, SeqEqual

\* A concatenation is one.
LEMMA IsConcatOf ==
  ASSUME NEW S, NEW a \in Seq(S), NEW b \in Seq(S)
  PROVE  IsConcat(S, a \o b, a, b)
<1>1. PICK m \in Nat, n \in Nat : m = Len(a) /\ n = Len(b)
  OBVIOUS
<1>2. /\ a \o b \in Seq(S) /\ Len(a \o b) = m + n
      /\ \A i \in 1..m : (a \o b)[i] = a[i]
      /\ \A i \in 1..n : (a \o b)[m + i] = b[i]
  BY <1>1, ConcatAt
<1>. QED
  BY <1>1, <1>2 DEF IsConcat

\* FlattenSeq of one part.
LEMMA FlattenOne ==
  ASSUME NEW S, NEW p \in Seq(S)
  PROVE  FlattenSeq(<<p>>) = p
<1>1. <<>> \in Seq(Seq(S)) /\ <<p>> = Append(<<>>, p) /\ <<>> \o p = p
  BY EmptySeq, ConcatEmptySeq
<1>. QED
  BY <1>1, FlattenAppend

\* An element appended to a concatenation.
LEMMA AppendToConcat ==
  ASSUME NEW T, NEW s \in Seq(T), NEW t \in Seq(T), NEW e \in T
  PROVE  s \o Append(t, e) = Append(s \o t, e)
OBVIOUS

\* Concatenation is associative.
Associate(a, b, c) == (a \o b) \o c = a \o (b \o c)

LEMMA Associative ==
  ASSUME NEW S, NEW a \in Seq(S), NEW b \in Seq(S), NEW c \in Seq(S)
  PROVE  Associate(a, b, c)
BY ConcatAssociative DEF Associate

\* FlattenSeq of two sequences of parts.
LEMMA FlattenConcat ==
  ASSUME NEW S, NEW p \in Seq(Seq(S))
  PROVE  \A q \in Seq(Seq(S)) : FlattenSeq(p \o q) = FlattenSeq(p) \o FlattenSeq(q)
<1>. DEFINE T == Seq(S)
            Good == {k \in Nat : \A q \in Seq(T) : Len(q) = k =>
                       FlattenSeq(p \o q) = FlattenSeq(p) \o FlattenSeq(q)}
<1>1. FlattenSeq(p) \in Seq(S)
  BY FlattenAppend
<1>2. 0 \in Good
  <2>1. SUFFICES ASSUME NEW q \in Seq(T), Len(q) = 0
                 PROVE  FlattenSeq(p \o q) = FlattenSeq(p) \o FlattenSeq(q)
    OBVIOUS
  <2>2. q = <<>> /\ p \o <<>> = p
    BY <2>1, EmptySeq, ConcatEmptySeq
  <2>3. FlattenSeq(p) \o <<>> = FlattenSeq(p)
    BY <1>1, ConcatEmptySeq
  <2>. QED
    BY <2>2, <2>3, FlattenAppend
<1>3. ASSUME NEW k \in Nat, k \in Good PROVE k + 1 \in Good
  <2>1. SUFFICES ASSUME NEW q \in Seq(T), Len(q) = k + 1
                 PROVE  FlattenSeq(p \o q) = FlattenSeq(p) \o FlattenSeq(q)
    OBVIOUS
  <2>2. PICK r \in Seq(T), e \in T : q = Append(r, e)
    <3>1. q # <<>>
      BY <2>1
    <3>. HIDE DEF T
    <3>. QED
      BY <3>1, SequenceEmptyOrAppend
  <2>3. Len(r) = k
    BY <2>1, <2>2
  <2>4. FlattenSeq(p \o r) = FlattenSeq(p) \o FlattenSeq(r)
    BY <1>3, <2>3
  <2>5. p \o q = Append(p \o r, e) /\ p \o r \in Seq(T)
    <3>. HIDE DEF T
    <3>1. p \in Seq(T)
      BY DEF T
    <3>. QED
      BY <2>2, <3>1, AppendToConcat, ConcatProperties
  <2>6. /\ FlattenSeq(p \o q) = FlattenSeq(p \o r) \o e
        /\ FlattenSeq(q) = FlattenSeq(r) \o e /\ FlattenSeq(r) \in Seq(S)
    BY <2>2, <2>5, FlattenAppend
  <2>. DEFINE a == FlattenSeq(p)
              b == FlattenSeq(r)
  <2>7. (a \o b) \o e = a \o (b \o e)
    <3>1. a \in Seq(S) /\ b \in Seq(S) /\ e \in Seq(S)
      BY <1>1, <2>2, <2>6
    <3>. HIDE DEF a, b
    <3>2. Associate(a, b, e)
      BY <3>1, Associative
    <3>. QED
      BY <3>2, Zenon DEF Associate
  <2>. QED
    BY <2>4, <2>6, <2>7
<1>. HIDE DEF Good
<1>4. \A k \in Nat : k \in Good
  BY <1>2, <1>3, AllNat
<1>. QED
  BY <1>4 DEF Good
-----------------------------------------------------------------------------
(* Tokens and the text of an element                                         *)

\* The kinds of tokens.
LEMMA Tokens ==
  /\ Slash \in Token /\ ~IsPred(Slash)
  /\ \A x \in Alphabet : /\ Letter(x) \in Token /\ Letter(x) # Slash /\ ~IsPred(Letter(x))
                         /\ Letter(x)[2] = x
  /\ \A k \in Key \cup BadKey :
       /\ Pred(k) \in Token /\ Pred(k) # Slash /\ IsPred(Pred(k)) /\ Pred(k)[2] = k
       /\ Quoted(k) \in Token /\ Quoted(k) # Slash /\ IsPred(Quoted(k)) /\ Quoted(k)[2] = k
BY DEF Token, Slash, Letter, Pred, Quoted, IsPred

\* The text of one element, without quotes.
KeyPart(e) == IF e.key = NoKey THEN <<>> ELSE <<Pred(e.key)>>

Piece(e) == (<<Slash>> \o Letters(e.name)) \o KeyPart(e)

\* The letters of a name are its text.
LEMMA LettersType ==
  ASSUME NEW name \in Seq(Alphabet)
  PROVE  /\ Letters(name) \in Seq(Token) /\ Len(Letters(name)) = Len(name)
         /\ \A i \in 1..Len(name) : Letters(name)[i] = Letter(name[i])
<1>1. \A x \in Alphabet : Letter(x) \in Token
  BY Tokens
<1>2. \A i \in 1..Len(name) : name[i] \in Alphabet
  OBVIOUS
<1>. HIDE DEF Letter
<1>. QED
  BY <1>1, <1>2 DEF Letters

\* The tokens of a piece: a slash, letters and perhaps a predicate.
LEMMA PieceType ==
  ASSUME NEW e \in Elem
  PROVE  /\ Piece(e) \in Seq(Token)
         /\ Len(Piece(e)) = 1 + Len(e.name) + (IF e.key = NoKey THEN 0 ELSE 1)
         /\ Piece(e)[1] = Slash
         /\ \A i \in 1..Len(e.name) : Piece(e)[i + 1] = Letter(e.name[i])
         /\ e.key # NoKey => Piece(e)[Len(e.name) + 2] = Pred(e.key)
<1>. DEFINE a == Letters(e.name)
            k == KeyPart(e)
            n == Len(e.name)
<1>1. e.name \in Seq(Alphabet) /\ n \in Nat /\ (e.key # NoKey => e.key \in Key \cup BadKey)
  BY DEF Elem
<1>2. a \in Seq(Token) /\ Len(a) = n /\ \A i \in 1..n : a[i] = Letter(e.name[i])
  BY <1>1, LettersType
<1>3. /\ k \in Seq(Token) /\ Len(k) = (IF e.key = NoKey THEN 0 ELSE 1)
      /\ e.key # NoKey => k[1] = Pred(e.key)
  BY <1>1, Tokens DEF KeyPart
<1>. DEFINE s == <<Slash>>
<1>4. s \in Seq(Token) /\ Len(s) = 1 /\ s[1] = Slash
  BY Tokens
<1>. HIDE DEF a, k, n, s
<1>5. PICK o \in Nat, d \in Nat : o = 1 /\ Len(s) = o /\ d = Len(k)
  BY <1>3, <1>4
<1>6. /\ s \o a \in Seq(Token) /\ Len(s \o a) = o + n
      /\ \A i \in 1..o : (s \o a)[i] = s[i]
      /\ \A i \in 1..n : (s \o a)[o + i] = a[i]
  <2>1. s \in Seq(Token) /\ a \in Seq(Token) /\ Len(s) = o /\ Len(a) = n
    BY <1>2, <1>4, <1>5
  <2>. QED
    BY <2>1, ConcatAt
<1>. DEFINE sa == s \o a
<1>7. PICK m \in Nat : m = o + n
  BY <1>1, <1>5
<1>8. sa \in Seq(Token) /\ k \in Seq(Token) /\ Len(sa) = m /\ Len(k) = d /\ Piece(e) = sa \o k
  BY <1>3, <1>5, <1>6, <1>7 DEF Piece, s, a, k
<1>9. /\ sa[1] = Slash
      /\ \A i \in 1..n : sa[i + 1] = Letter(e.name[i])
  <2>1. 1 \in 1..o /\ \A i \in 1..n : i + 1 = o + i
    BY <1>1, <1>5
  <2>2. sa[1] = s[1] /\ \A i \in 1..n : sa[o + i] = a[i]
    BY <1>6, <2>1
  <2>. QED
    BY <1>2, <1>4, <2>1, <2>2
<1>. HIDE DEF sa
<1>10. /\ Piece(e) \in Seq(Token) /\ Len(Piece(e)) = m + d
       /\ \A i \in 1..m : Piece(e)[i] = sa[i]
       /\ \A i \in 1..d : Piece(e)[m + i] = k[i]
  <2>1. /\ sa \o k \in Seq(Token) /\ Len(sa \o k) = m + d
        /\ \A i \in 1..m : (sa \o k)[i] = sa[i]
        /\ \A i \in 1..d : (sa \o k)[m + i] = k[i]
    <3>1. sa \in Seq(Token) /\ k \in Seq(Token) /\ Len(sa) = m /\ Len(k) = d
      BY <1>8
    <3>. QED
      BY <3>1, ConcatAt
  <2>. QED
    BY <1>8, <2>1
<1>11. m = 1 + n
  BY <1>5, <1>7
<1>12. d = IF e.key = NoKey THEN 0 ELSE 1
  BY <1>3, <1>5
<1>13. Piece(e)[1] = Slash
  <2>1. 1 \in 1..m
    BY <1>1, <1>11
  <2>. QED
    BY <1>9, <1>10, <2>1
<1>14. ASSUME NEW i \in 1..n PROVE Piece(e)[i + 1] = Letter(e.name[i])
  <2>1. i + 1 \in 1..m
    BY <1>1, <1>11
  <2>. QED
    BY <1>9, <1>10, <2>1
<1>15. ASSUME e.key # NoKey PROVE Piece(e)[n + 2] = Pred(e.key)
  <2>1. n + 2 = m + 1 /\ 1 \in 1..d
    BY <1>1, <1>11, <1>12, <1>15
  <2>2. Piece(e)[m + 1] = k[1]
    BY <1>10, <2>1
  <2>. QED
    BY <1>3, <1>15, <2>1, <2>2
<1>. QED
  BY <1>10, <1>11, <1>12, <1>13, <1>14, <1>15 DEF n
-----------------------------------------------------------------------------
(* The text of several elements                                              *)

Pieces(es) == [i \in DOMAIN es |-> Piece(es[i])]

Joined(es) == FlattenSeq(Pieces(es))

\* Pieces are texts.
LEMMA PiecesType ==
  ASSUME NEW es \in Seq(Elem)
  PROVE  /\ Pieces(es) \in Seq(Seq(Token)) /\ Len(Pieces(es)) = Len(es)
         /\ \A i \in 1..Len(es) : Pieces(es)[i] = Piece(es[i])
<1>1. \A e \in Elem : Piece(e) \in Seq(Token)
  BY PieceType
<1>2. DOMAIN es = 1..Len(es) /\ Len(es) \in Nat /\ \A i \in 1..Len(es) : es[i] \in Elem
  OBVIOUS
<1>. QED
  BY <1>1, <1>2 DEF Pieces

\* The pieces of two sequences of elements.
LEMMA PiecesConcat ==
  ASSUME NEW a \in Seq(Elem), NEW b \in Seq(Elem)
  PROVE  Pieces(a \o b) = Pieces(a) \o Pieces(b)
<1>. DEFINE T == Seq(Token)
<1>1. PICK m \in Nat, n \in Nat : m = Len(a) /\ n = Len(b)
  OBVIOUS
<1>2. /\ a \o b \in Seq(Elem) /\ Len(a \o b) = m + n
      /\ \A i \in 1..m : (a \o b)[i] = a[i]
      /\ \A i \in 1..n : (a \o b)[m + i] = b[i]
  BY <1>1, ConcatAt
<1>3. /\ Pieces(a) \in Seq(T) /\ Len(Pieces(a)) = m /\ \A i \in 1..m : Pieces(a)[i] = Piece(a[i])
      /\ Pieces(b) \in Seq(T) /\ Len(Pieces(b)) = n /\ \A i \in 1..n : Pieces(b)[i] = Piece(b[i])
  BY <1>1, PiecesType
<1>4. /\ Pieces(a \o b) \in Seq(T) /\ Len(Pieces(a \o b)) = m + n
      /\ \A i \in 1..(m + n) : Pieces(a \o b)[i] = Piece((a \o b)[i])
  <2>. DEFINE c == a \o b
  <2>1. c \in Seq(Elem) /\ Len(c) = m + n
    BY <1>2
  <2>. HIDE DEF c
  <2>2. Pieces(c) \in Seq(T) /\ Len(Pieces(c)) = m + n /\ \A i \in 1..(m + n) : Pieces(c)[i] = Piece(c[i])
    BY <2>1, PiecesType
  <2>. QED
    BY <2>2 DEF c
<1>. DEFINE p == Pieces(a)
            q == Pieces(b)
            r == Pieces(a \o b)
<1>5. /\ p \in Seq(T) /\ q \in Seq(T) /\ r \in Seq(T)
      /\ Len(p) = m /\ Len(q) = n /\ Len(r) = m + n
  BY <1>3, <1>4
<1>6. ASSUME NEW i \in 1..m PROVE r[i] = p[i]
  <2>1. i \in 1..(m + n)
    OBVIOUS
  <2>. QED
    BY <1>2, <1>3, <1>4, <2>1
<1>7. ASSUME NEW i \in 1..n PROVE r[m + i] = q[i]
  <2>1. m + i \in 1..(m + n)
    OBVIOUS
  <2>2. r[m + i] = Piece((a \o b)[m + i])
    BY <1>4, <2>1, Zenon
  <2>3. (a \o b)[m + i] = b[i]
    BY <1>2, Zenon
  <2>4. q[i] = Piece(b[i])
    BY <1>3, Zenon
  <2>. QED
    BY <2>2, <2>3, <2>4, Zenon
<1>. HIDE DEF p, q, r, T
<1>8. IsConcat(T, r, p, q)
  BY <1>5, <1>6, <1>7 DEF IsConcat
<1>9. r = p \o q
  BY <1>5, <1>8, ConcatIs
<1>. QED
  BY <1>9 DEF p, q, r

\* The joined pieces are a text.
LEMMA JoinedType ==
  ASSUME NEW es \in Seq(Elem)
  PROVE  Joined(es) \in Seq(Token)
<1>. DEFINE p == Pieces(es)
<1>1. p \in Seq(Seq(Token))
  BY PiecesType
<1>. HIDE DEF p
<1>2. FlattenSeq(p) \in Seq(Token)
  BY <1>1, FlattenAppend
<1>. QED
  BY <1>2 DEF Joined, p

\* The text of two sequences of elements.
LEMMA JoinedConcat ==
  ASSUME NEW a \in Seq(Elem), NEW b \in Seq(Elem)
  PROVE  Joined(a \o b) = Joined(a) \o Joined(b)
<1>. DEFINE p == Pieces(a)
            q == Pieces(b)
<1>1. p \in Seq(Seq(Token)) /\ q \in Seq(Seq(Token))
  BY PiecesType
<1>2. Pieces(a \o b) = p \o q
  BY PiecesConcat
<1>. HIDE DEF p, q
<1>3. FlattenSeq(p \o q) = FlattenSeq(p) \o FlattenSeq(q)
  BY <1>1, FlattenConcat
<1>. QED
  BY <1>2, <1>3 DEF Joined, p, q

\* The text of one element.
LEMMA JoinedOne ==
  ASSUME NEW e \in Elem
  PROVE  Joined(<<e>>) = Piece(e)
<1>1. Pieces(<<e>>) = <<Piece(e)>>
  BY DEF Pieces
<1>2. Piece(e) \in Seq(Token)
  BY PieceType
<1>3. FlattenSeq(<<Piece(e)>>) = Piece(e)
  BY <1>2, FlattenOne
<1>. QED
  BY <1>1, <1>3 DEF Joined

\* No elements, no text.
LEMMA JoinedNone == Joined(<<>>) = <<>>
<1>1. Pieces(<<>>) = <<>>
  BY DEF Pieces
<1>. QED
  BY <1>1, FlattenAppend DEF Joined

\* A sequence s that is its first member and the rest, of k members.
FirstRest(s, e, r, k) ==
  /\ s = <<e>> \o r /\ Len(s) = k + 1 /\ Len(r) = k /\ s[1] = e
  /\ \A i \in 1..k : s[i + 1] = r[i]

\* A sequence of elements has a first one and a rest.
LEMMA FirstAndRest ==
  ASSUME NEW S, NEW s \in Seq(S), NEW k \in Nat, Len(s) = k + 1
  PROVE  \E e \in S, r \in Seq(S) : FirstRest(s, e, r, k)
<1>1. s # <<>>
  OBVIOUS
<1>2. /\ Head(s) \in S /\ Tail(s) \in Seq(S) /\ Len(Tail(s)) = k
      /\ s[1] = Head(s) /\ \A i \in 1..k : s[i + 1] = Tail(s)[i]
  BY <1>1
<1>3. s = <<Head(s)>> \o Tail(s)
  BY <1>1
<1>4. FirstRest(s, Head(s), Tail(s), k)
  BY <1>2, <1>3 DEF FirstRest
<1>. QED
  BY <1>2, <1>4
-----------------------------------------------------------------------------
(* Quotes                                                                    *)

\* Without quotes a text is a text of the same length.
LEMMA StripType ==
  ASSUME NEW t \in Seq(Token)
  PROVE  stripPathQuotes(t) \in Seq(Token) /\ Len(stripPathQuotes(t)) = Len(t)
<1>1. \A x \in Token : (IF IsPred(x) THEN Pred(x[2]) ELSE x) \in Token
  <2>1. ASSUME NEW x \in Token, IsPred(x) PROVE Pred(x[2]) \in Token
    <3>1. PICK k \in Key \cup BadKey : x = Pred(k) \/ x = Quoted(k)
      BY <2>1, Tokens DEF Token
    <3>. QED
      BY <3>1, Tokens
  <2>. QED
    BY <2>1
<1>2. DOMAIN t = 1..Len(t) /\ Len(t) \in Nat /\ \A i \in 1..Len(t) : t[i] \in Token
  OBVIOUS
<1>. QED
  BY <1>1, <1>2 DEF stripPathQuotes

\* Quotes of two texts.
LEMMA StripConcat ==
  ASSUME NEW a \in Seq(Token), NEW b \in Seq(Token)
  PROVE  stripPathQuotes(a \o b) = stripPathQuotes(a) \o stripPathQuotes(b)
<1>. DEFINE p == stripPathQuotes(a)
            q == stripPathQuotes(b)
            r == stripPathQuotes(a \o b)
<1>1. PICK m \in Nat, n \in Nat : m = Len(a) /\ n = Len(b)
  OBVIOUS
<1>2. /\ a \o b \in Seq(Token) /\ Len(a \o b) = m + n
      /\ \A i \in 1..m : (a \o b)[i] = a[i]
      /\ \A i \in 1..n : (a \o b)[m + i] = b[i]
  BY <1>1, ConcatAt
<1>3. /\ p \in Seq(Token) /\ q \in Seq(Token) /\ r \in Seq(Token)
      /\ Len(p) = m /\ Len(q) = n /\ Len(r) = m + n
  BY <1>1, <1>2, StripType
<1>4. ASSUME NEW i \in 1..m PROVE r[i] = p[i]
  <2>1. i \in DOMAIN (a \o b) /\ i \in DOMAIN a /\ (a \o b)[i] = a[i]
    BY <1>1, <1>2
  <2>. QED
    BY <2>1 DEF stripPathQuotes
<1>5. ASSUME NEW i \in 1..n PROVE r[m + i] = q[i]
  <2>1. m + i \in DOMAIN (a \o b) /\ i \in DOMAIN b /\ (a \o b)[m + i] = b[i]
    BY <1>1, <1>2
  <2>. QED
    BY <2>1 DEF stripPathQuotes
<1>. HIDE DEF p, q, r
<1>6. IsConcat(Token, r, p, q)
  BY <1>3, <1>4, <1>5 DEF IsConcat
<1>7. r = p \o q
  BY <1>3, <1>6, ConcatIs
<1>. QED
  BY <1>7 DEF p, q, r

Stripped(parts) == [i \in DOMAIN parts |-> stripPathQuotes(parts[i])]

\* Parts without quotes are texts.
LEMMA StrippedType ==
  ASSUME NEW parts \in Seq(Seq(Token))
  PROVE  Stripped(parts) \in Seq(Seq(Token)) /\ Len(Stripped(parts)) = Len(parts)
<1>1. \A t \in Seq(Token) : stripPathQuotes(t) \in Seq(Token)
  BY StripType
<1>2. DOMAIN parts = 1..Len(parts) /\ Len(parts) \in Nat /\ \A i \in 1..Len(parts) : parts[i] \in Seq(Token)
  OBVIOUS
<1>. QED
  BY <1>1, <1>2 DEF Stripped

\* One more part without its quotes.
LEMMA StrippedAppend ==
  ASSUME NEW parts \in Seq(Seq(Token)), NEW e \in Seq(Token)
  PROVE  Stripped(Append(parts, e)) = Append(Stripped(parts), stripPathQuotes(e))
<1>. DEFINE all == Append(parts, e)
            f == Stripped(all)
            g == Append(Stripped(parts), stripPathQuotes(e))
<1>1. PICK n \in Nat : n = Len(parts)
  OBVIOUS
<1>2. all \in Seq(Seq(Token)) /\ Len(all) = n + 1 /\ all[n + 1] = e /\ \A i \in 1..n : all[i] = parts[i]
  BY <1>1
<1>3. /\ DOMAIN f = 1..(n + 1) /\ f[n + 1] = stripPathQuotes(e)
      /\ \A i \in 1..n : f[i] = stripPathQuotes(parts[i])
  BY <1>2 DEF Stripped
<1>4. /\ DOMAIN g = 1..(n + 1) /\ g[n + 1] = stripPathQuotes(e)
      /\ \A i \in 1..n : g[i] = stripPathQuotes(parts[i])
  <2>1. Stripped(parts) \in Seq(Seq(Token)) /\ Len(Stripped(parts)) = n /\ stripPathQuotes(e) \in Seq(Token)
    BY <1>1, StrippedType, StripType
  <2>2. \A i \in 1..n : Stripped(parts)[i] = stripPathQuotes(parts[i])
    BY <1>1 DEF Stripped
  <2>. QED
    BY <2>1, <2>2
<1>5. f = [i \in DOMAIN f |-> f[i]] /\ g = [i \in DOMAIN g |-> g[i]]
  BY DEF Stripped
<1>. HIDE DEF f, g
<1>6. ASSUME NEW i \in 1..(n + 1) PROVE f[i] = g[i]
  BY <1>3, <1>4
<1>7. f = g
  BY <1>3, <1>4, <1>5, <1>6
<1>. QED
  BY <1>7 DEF f, g

\* Quotes of all parts of a text.
LEMMA StripFlatten ==
  \A parts \in Seq(Seq(Token)) : stripPathQuotes(FlattenSeq(parts)) = FlattenSeq(Stripped(parts))
<1>. DEFINE T == Seq(Token)
            Good == {k \in Nat : \A parts \in Seq(T) : Len(parts) = k =>
                       stripPathQuotes(FlattenSeq(parts)) = FlattenSeq(Stripped(parts))}
<1>1. 0 \in Good
  <2>1. SUFFICES ASSUME NEW parts \in Seq(T), Len(parts) = 0
                 PROVE  stripPathQuotes(FlattenSeq(parts)) = FlattenSeq(Stripped(parts))
    OBVIOUS
  <2>2. parts = <<>> /\ stripPathQuotes(<<>>) = <<>> /\ Stripped(<<>>) = <<>>
    BY <2>1 DEF stripPathQuotes, Stripped
  <2>. QED
    BY <2>2, FlattenAppend
<1>2. ASSUME NEW k \in Nat, k \in Good PROVE k + 1 \in Good
  <2>1. SUFFICES ASSUME NEW parts \in Seq(T), Len(parts) = k + 1
                 PROVE  stripPathQuotes(FlattenSeq(parts)) = FlattenSeq(Stripped(parts))
    OBVIOUS
  <2>2. PICK r \in Seq(T), e \in T : parts = Append(r, e)
    <3>1. parts # <<>>
      BY <2>1
    <3>. HIDE DEF T
    <3>. QED
      BY <3>1, SequenceEmptyOrAppend
  <2>3. Len(r) = k
    BY <2>1, <2>2
  <2>4. stripPathQuotes(FlattenSeq(r)) = FlattenSeq(Stripped(r))
    BY <1>2, <2>3
  <2>. DEFINE a == FlattenSeq(r)
              sr == Stripped(r)
              se == stripPathQuotes(e)
  <2>5. a \in Seq(Token) /\ FlattenSeq(parts) = a \o e
    BY <2>2, FlattenAppend
  <2>6. sr \in Seq(T) /\ se \in T /\ Stripped(parts) = Append(sr, se)
    BY <2>2, StrippedType, StrippedAppend, StripType
  <2>7. FlattenSeq(Append(sr, se)) = FlattenSeq(sr) \o se
    <3>1. sr \in Seq(Seq(Token)) /\ se \in Seq(Token)
      BY <2>6
    <3>. HIDE DEF sr, se
    <3>. QED
      BY <3>1, FlattenAppend
  <2>8. stripPathQuotes(a \o e) = stripPathQuotes(a) \o se
    <3>1. a \in Seq(Token) /\ e \in Seq(Token)
      BY <2>5
    <3>. HIDE DEF a
    <3>. QED
      BY <3>1, StripConcat
  <2>. QED
    BY <2>4, <2>5, <2>6, <2>7, <2>8
<1>. HIDE DEF Good
<1>3. \A k \in Nat : k \in Good
  BY <1>1, <1>2, AllNat
<1>. QED
  BY <1>3 DEF Good
-----------------------------------------------------------------------------
(* The text of a path                                                        *)

\* The letters of two names.
LEMMA LettersConcat ==
  ASSUME NEW a \in Seq(Alphabet), NEW b \in Seq(Alphabet)
  PROVE  Letters(a \o b) = Letters(a) \o Letters(b) /\ a \o b \in Seq(Alphabet)
<1>. DEFINE p == Letters(a)
            q == Letters(b)
            c == a \o b
            r == Letters(c)
<1>1. PICK m \in Nat, n \in Nat : m = Len(a) /\ n = Len(b)
  OBVIOUS
<1>2. /\ c \in Seq(Alphabet) /\ Len(c) = m + n
      /\ \A i \in 1..m : c[i] = a[i]
      /\ \A i \in 1..n : c[m + i] = b[i]
  BY <1>1, ConcatAt
<1>. HIDE DEF c
<1>3. /\ p \in Seq(Token) /\ q \in Seq(Token) /\ Len(p) = m /\ Len(q) = n
      /\ \A i \in 1..m : p[i] = Letter(a[i])
      /\ \A i \in 1..n : q[i] = Letter(b[i])
  BY <1>1, LettersType
<1>4. /\ r \in Seq(Token) /\ Len(r) = m + n
      /\ \A i \in 1..(m + n) : r[i] = Letter(c[i])
  BY <1>2, LettersType
<1>. HIDE DEF p, q, r
<1>5. ASSUME NEW i \in 1..m PROVE r[i] = p[i]
  <2>1. i \in 1..(m + n)
    OBVIOUS
  <2>. QED
    BY <1>2, <1>3, <1>4, <2>1
<1>6. ASSUME NEW i \in 1..n PROVE r[m + i] = q[i]
  <2>1. m + i \in 1..(m + n)
    OBVIOUS
  <2>. QED
    BY <1>2, <1>3, <1>4, <2>1
<1>7. IsConcat(Token, r, p, q)
  BY <1>3, <1>4, <1>5, <1>6 DEF IsConcat
<1>8. r = p \o q
  BY <1>3, <1>4, <1>7, ConcatIs
<1>. QED
  BY <1>2, <1>8 DEF p, q, r, c

\* What has no predicate stays the same; a predicate loses its quotes.
LEMMA StripPlain ==
  /\ stripPathQuotes(<<Slash>>) = <<Slash>> /\ stripPathQuotes(<<>>) = <<>>
  /\ \A name \in Seq(Alphabet) : stripPathQuotes(Letters(name)) = Letters(name)
  /\ \A k \in Key \cup BadKey : stripPathQuotes(<<Quoted(k)>>) = <<Pred(k)>>
<1>1. stripPathQuotes(<<Slash>>) = <<Slash>> /\ stripPathQuotes(<<>>) = <<>>
  BY Tokens DEF stripPathQuotes
<1>2. ASSUME NEW name \in Seq(Alphabet) PROVE stripPathQuotes(Letters(name)) = Letters(name)
  <2>1. \A x \in Alphabet : ~IsPred(Letter(x))
    BY Tokens
  <2>2. \A i \in DOMAIN name : name[i] \in Alphabet
    OBVIOUS
  <2>. QED
    BY <2>1, <2>2 DEF stripPathQuotes, Letters
<1>3. ASSUME NEW k \in Key \cup BadKey PROVE stripPathQuotes(<<Quoted(k)>>) = <<Pred(k)>>
  BY Tokens DEF stripPathQuotes
<1>. QED
  BY <1>1, <1>2, <1>3

\* The text of element i of a path, with its quotes.
Quotation(path, i) ==
  LET e == path.elem[i] IN
  <<Slash>> \o (IF i = 1 THEN Letters(path.origin) ELSE <<>>)
    \o Letters(e.name) \o (IF e.key = NoKey THEN <<>> ELSE <<Quoted(e.key)>>)

\* Without quotes, what gnmi_to_xpath writes for an element is its piece.
LEMMA QuotationStripped ==
  ASSUME NEW path \in Path, NEW i \in 1..Len(path.elem)
  PROVE  /\ Quotation(path, i) \in Seq(Token) /\ Elements(path)[i] \in Elem
         /\ stripPathQuotes(Quotation(path, i)) = Piece(Elements(path)[i])
<1>. DEFINE e == path.elem[i]
            o == IF i = 1 THEN path.origin ELSE <<>>
            s == <<Slash>>
            a == Letters(o)
            b == Letters(e.name)
            k == IF e.key = NoKey THEN <<>> ELSE <<Quoted(e.key)>>
            f == Elements(path)[i]
<1>1. /\ e \in Elem /\ o \in Seq(Alphabet) /\ e.name \in Seq(Alphabet)
      /\ e.key # NoKey => e.key \in Key \cup BadKey
  <2>1. path.elem \in Seq(Elem) /\ path.origin \in Seq(Alphabet)
    BY DEF Path
  <2>2. e \in Elem
    BY <2>1
  <2>3. o \in Seq(Alphabet)
    BY <2>1, EmptySeq
  <2>. HIDE DEF e, o
  <2>. QED
    BY <2>2, <2>3 DEF Elem
<1>2. Quotation(path, i) = ((s \o a) \o b) \o k
  <2>1. a = IF i = 1 THEN Letters(path.origin) ELSE <<>>
    BY DEF Letters
  <2>. HIDE DEF a
  <2>. QED
    BY <2>1 DEF Quotation
<1>3. s \in Seq(Token) /\ a \in Seq(Token) /\ b \in Seq(Token) /\ k \in Seq(Token)
  <2>. HIDE DEF e, o
  <2>1. a \in Seq(Token) /\ b \in Seq(Token)
    BY <1>1, LettersType
  <2>2. s \in Seq(Token) /\ k \in Seq(Token)
    BY <1>1, Tokens
  <2>. QED
    BY <2>1, <2>2
<1>4. f \in Elem /\ f.name = o \o e.name /\ f.key = e.key
  <2>1. i \in DOMAIN path.elem
    BY DEF Path
  <2>2. o \o e.name \in Seq(Alphabet)
    BY <1>1, LettersConcat
  <2>3. f = IF i = 1 THEN [path.elem[1] EXCEPT !.name = path.origin \o @] ELSE path.elem[i]
    BY <2>1 DEF Elements
  <2>4. CASE i = 1
    BY <1>1, <2>2, <2>3, <2>4 DEF Elem
  <2>5. CASE i # 1
    BY <1>1, <2>3, <2>5, ConcatEmptySeq DEF Elem
  <2>. QED
    BY <2>4, <2>5
<1>5. Letters(f.name) = a \o b
  <2>1. Letters(o \o e.name) = Letters(o) \o Letters(e.name)
    BY <1>1, LettersConcat
  <2>. QED
    BY <1>4, <2>1
<1>6. /\ stripPathQuotes(s) = s /\ stripPathQuotes(a) = a /\ stripPathQuotes(b) = b
      /\ stripPathQuotes(k) = KeyPart(f)
  BY <1>1, <1>4, StripPlain DEF KeyPart
<1>7. Piece(f) = (s \o (a \o b)) \o KeyPart(f)
  BY <1>5 DEF Piece
<1>. HIDE DEF s, a, b, k, f
<1>8. /\ s \o a \in Seq(Token) /\ (s \o a) \o b \in Seq(Token) /\ ((s \o a) \o b) \o k \in Seq(Token)
      /\ (s \o a) \o b = s \o (a \o b)
  <2>1. (s \o a) \o b = s \o (a \o b)
    <3>1. Associate(s, a, b)
      BY <1>3, Associative
    <3>. QED
      BY <3>1, Zenon DEF Associate
  <2>2. s \o a \in Seq(Token)
    BY <1>3
  <2>3. (s \o a) \o b \in Seq(Token)
    BY <1>3, <2>2
  <2>4. ((s \o a) \o b) \o k \in Seq(Token)
    BY <1>3, <2>3
  <2>. QED
    BY <2>1, <2>2, <2>3, <2>4
<1>9. stripPathQuotes(((s \o a) \o b) \o k) = ((s \o a) \o b) \o KeyPart(f)
  <2>. DEFINE sa == s \o a
              sab == sa \o b
  <2>1. stripPathQuotes(sa) = sa
    <3>1. stripPathQuotes(s \o a) = stripPathQuotes(s) \o stripPathQuotes(a)
      BY <1>3, StripConcat
    <3>. QED
      BY <1>6, <3>1
  <2>2. sa \in Seq(Token) /\ sab \in Seq(Token)
    BY <1>8
  <2>. HIDE DEF sa
  <2>3. stripPathQuotes(sab) = sab
    <3>1. stripPathQuotes(sa \o b) = stripPathQuotes(sa) \o stripPathQuotes(b)
      BY <1>3, <2>2, StripConcat
    <3>. QED
      BY <1>6, <2>1, <3>1
  <2>. HIDE DEF sab
  <2>4. stripPathQuotes(sab \o k) = sab \o KeyPart(f)
    <3>1. stripPathQuotes(sab \o k) = stripPathQuotes(sab) \o stripPathQuotes(k)
      BY <1>3, <2>2, StripConcat
    <3>. QED
      BY <1>6, <2>3, <3>1
  <2>. QED
    BY <2>4 DEF sa, sab
<1>. QED
  BY <1>2, <1>4, <1>7, <1>8, <1>9 DEF f

\* The elements of a path are elements.
LEMMA ElementsType ==
  ASSUME NEW path \in Path
  PROVE  Elements(path) \in Seq(Elem) /\ Len(Elements(path)) = Len(path.elem)
<1>1. path.elem \in Seq(Elem)
  BY DEF Path
<1>2. \A i \in 1..Len(path.elem) : Elements(path)[i] \in Elem
  BY QuotationStripped
<1>. DEFINE f == Elements(path)
            n == Len(path.elem)
<1>3. n \in Nat /\ DOMAIN f = 1..n /\ f = [i \in DOMAIN f |-> f[i]] /\ \A i \in 1..n : f[i] \in Elem
  <2>1. n \in Nat /\ DOMAIN path.elem = 1..n
    BY <1>1
  <2>2. DOMAIN f = 1..n /\ f = [i \in DOMAIN f |-> f[i]]
    <3>. HIDE DEF n
    <3>. QED
      BY <2>1 DEF Elements
  <2>. QED
    BY <1>2, <2>1, <2>2
<1>. HIDE DEF f, n
<1>4. f \in Seq(Elem) /\ Len(f) = n
  <2>. DEFINE S == Elem
  <2>. HIDE DEF S
  <2>1. f \in [1..n -> S] /\ n \in Nat
    BY <1>3 DEF S
  <2>. QED
    BY <2>1 DEF S
<1>. QED
  BY <1>4 DEF f, n

\* Without quotes, the text of a path is that of its elements one by one.
LEMMA TextOfPath ==
  ASSUME NEW path \in Path
  PROVE  /\ gnmi_to_xpath(path) \in Seq(Token)
         /\ stripPathQuotes(gnmi_to_xpath(path)) = Joined(Elements(path))
<1>. DEFINE n == Len(path.elem)
            q == [i \in 1..n |-> Quotation(path, i)]
            es == Elements(path)
            p == Pieces(es)
<1>1. n \in Nat /\ DOMAIN path.elem = 1..n
  BY DEF Path
<1>2. gnmi_to_xpath(path) = FlattenSeq(q)
  BY <1>1 DEF gnmi_to_xpath, Quotation
<1>3. \A i \in 1..n : Quotation(path, i) \in Seq(Token) /\ stripPathQuotes(Quotation(path, i)) = Piece(es[i])
  BY QuotationStripped
<1>4. es \in Seq(Elem) /\ Len(es) = n
  BY ElementsType
<1>5. p \in Seq(Seq(Token)) /\ Len(p) = n /\ \A i \in 1..n : p[i] = Piece(es[i])
  BY <1>4, PiecesType
<1>. HIDE DEF n, es
<1>6. q \in Seq(Seq(Token)) /\ Len(q) = n
  <2>. DEFINE T == Seq(Token)
  <2>1. q \in [1..n -> T]
    BY <1>3
  <2>. HIDE DEF T, q
  <2>2. q \in Seq(T) /\ Len(q) = n
    BY <1>1, <2>1
  <2>. QED
    BY <2>2 DEF T
<1>7. Stripped(q) = p
  <2>. DEFINE f == Stripped(q)
  <2>1. f = [i \in 1..n |-> Piece(es[i])]
    BY <1>3 DEF Stripped
  <2>2. p = [i \in 1..n |-> Piece(es[i])]
    BY <1>4 DEF Pieces
  <2>. QED
    BY <2>1, <2>2
<1>. HIDE DEF q, p
<1>8. stripPathQuotes(FlattenSeq(q)) = FlattenSeq(p)
  BY <1>6, <1>7, StripFlatten
<1>9. FlattenSeq(q) \in Seq(Token)
  BY <1>6, FlattenAppend
<1>. QED
  BY <1>2, <1>8, <1>9 DEF Joined, p, es

\* Quotes are gone after the first time.
LEMMA StrippedTwice ==
  ASSUME NEW t \in Seq(Token)
  PROVE  stripPathQuotes(stripPathQuotes(t)) = stripPathQuotes(t)
<1>1. ASSUME NEW x \in Token
      PROVE  LET y == IF IsPred(x) THEN Pred(x[2]) ELSE x
             IN  (IF IsPred(y) THEN Pred(y[2]) ELSE y) = y
  BY DEF IsPred, Pred
<1>2. DOMAIN t = 1..Len(t) /\ \A i \in DOMAIN t : t[i] \in Token
  OBVIOUS
<1>. QED
  BY <1>1, <1>2 DEF stripPathQuotes
-----------------------------------------------------------------------------
(* Keys                                                                      *)

KeylessParts(text) == [i \in DOMAIN text |-> IF IsPred(text[i]) THEN <<>> ELSE <<text[i]>>]

\* The parts that stripKeys keeps.
LEMMA KeylessPartsType ==
  ASSUME NEW t \in Seq(Token)
  PROVE  KeylessParts(t) \in Seq(Seq(Token)) /\ Len(KeylessParts(t)) = Len(t)
<1>. DEFINE T == Seq(Token)
            f == KeylessParts(t)
            n == Len(t)
<1>1. \A x \in Token : (IF IsPred(x) THEN <<>> ELSE <<x>>) \in T
  OBVIOUS
<1>2. n \in Nat /\ DOMAIN t = 1..n /\ \A i \in 1..n : t[i] \in Token
  OBVIOUS
<1>. HIDE DEF T, n
<1>3. f \in [1..n -> T]
  BY <1>1, <1>2 DEF KeylessParts
<1>. HIDE DEF f
<1>4. f \in Seq(T) /\ Len(f) = n
  BY <1>2, <1>3
<1>. QED
  BY <1>4 DEF f, T, n

\* Predicates of two texts.
LEMMA StripKeysConcat ==
  ASSUME NEW a \in Seq(Token), NEW b \in Seq(Token)
  PROVE  stripKeys(a \o b) = stripKeys(a) \o stripKeys(b)
<1>. DEFINE T == Seq(Token)
            p == KeylessParts(a)
            q == KeylessParts(b)
            r == KeylessParts(a \o b)
<1>1. PICK m \in Nat, n \in Nat : m = Len(a) /\ n = Len(b)
  OBVIOUS
<1>2. /\ a \o b \in Seq(Token) /\ Len(a \o b) = m + n
      /\ \A i \in 1..m : (a \o b)[i] = a[i]
      /\ \A i \in 1..n : (a \o b)[m + i] = b[i]
  BY <1>1, ConcatAt
<1>3. /\ p \in Seq(T) /\ q \in Seq(T) /\ r \in Seq(T)
      /\ Len(p) = m /\ Len(q) = n /\ Len(r) = m + n
  BY <1>1, <1>2, KeylessPartsType
<1>4. ASSUME NEW i \in 1..m PROVE r[i] = p[i]
  <2>1. i \in DOMAIN (a \o b) /\ i \in DOMAIN a /\ (a \o b)[i] = a[i]
    BY <1>1, <1>2
  <2>. QED
    BY <2>1 DEF KeylessParts
<1>5. ASSUME NEW i \in 1..n PROVE r[m + i] = q[i]
  <2>1. m + i \in DOMAIN (a \o b) /\ i \in DOMAIN b /\ (a \o b)[m + i] = b[i]
    BY <1>1, <1>2
  <2>. QED
    BY <2>1 DEF KeylessParts
<1>. HIDE DEF p, q, r
<1>6. r = p \o q
  <2>. HIDE DEF T
  <2>1. IsConcat(T, r, p, q)
    BY <1>3, <1>4, <1>5 DEF IsConcat
  <2>. QED
    BY <1>3, <2>1, ConcatIs
<1>7. FlattenSeq(p \o q) = FlattenSeq(p) \o FlattenSeq(q)
  BY <1>3, FlattenConcat
<1>. QED
  BY <1>6, <1>7 DEF stripKeys, KeylessParts, p, q, r

\* Without predicates a text is a text.
LEMMA StripKeysType ==
  ASSUME NEW t \in Seq(Token)
  PROVE  stripKeys(t) \in Seq(Token)
<1>. DEFINE p == KeylessParts(t)
<1>1. p \in Seq(Seq(Token))
  BY KeylessPartsType
<1>. HIDE DEF p
<1>2. FlattenSeq(p) \in Seq(Token)
  BY <1>1, FlattenAppend
<1>. QED
  BY <1>2 DEF p, stripKeys, KeylessParts

\* Of one token, a predicate is dropped.
LEMMA StripKeysOne ==
  /\ stripKeys(<<>>) = <<>>
  /\ \A x \in Token : stripKeys(<<x>>) = IF IsPred(x) THEN <<>> ELSE <<x>>
<1>1. stripKeys(<<>>) = <<>>
  <2>1. KeylessParts(<<>>) = <<>>
    BY DEF KeylessParts
  <2>. QED
    BY <2>1, FlattenAppend DEF stripKeys, KeylessParts
<1>2. ASSUME NEW x \in Token PROVE stripKeys(<<x>>) = IF IsPred(x) THEN <<>> ELSE <<x>>
  <2>. DEFINE p == IF IsPred(x) THEN <<>> ELSE <<x>>
  <2>1. p \in Seq(Token)
    OBVIOUS
  <2>2. KeylessParts(<<x>>) = <<p>>
    BY DEF KeylessParts
  <2>. HIDE DEF p
  <2>3. FlattenSeq(<<p>>) = p
    BY <2>1, FlattenOne
  <2>4. FlattenSeq(KeylessParts(<<x>>)) = p
    BY <2>2, <2>3
  <2>5. stripKeys(<<x>>) = FlattenSeq(KeylessParts(<<x>>))
    BY DEF stripKeys, KeylessParts
  <2>. QED
    BY <2>4, <2>5 DEF p
<1>. QED
  BY <1>1, <1>2

HasNoKey(t) == \A i \in DOMAIN t : ~IsPred(t[i])

\* Only predicates are left out.
LEMMA StripKeysPlain ==
  \A t \in Seq(Token) : HasNoKey(t) => stripKeys(t) = t
<1>. DEFINE Good == {k \in Nat : \A t \in Seq(Token) : Len(t) = k /\ HasNoKey(t) => stripKeys(t) = t}
<1>1. 0 \in Good
  <2>1. SUFFICES ASSUME NEW t \in Seq(Token), Len(t) = 0 PROVE stripKeys(t) = t
    OBVIOUS
  <2>2. t = <<>>
    BY <2>1, EmptySeq
  <2>. QED
    BY <2>2, StripKeysOne
<1>2. ASSUME NEW k \in Nat, k \in Good PROVE k + 1 \in Good
  <2>1. SUFFICES ASSUME NEW t \in Seq(Token), Len(t) = k + 1, HasNoKey(t)
                 PROVE  stripKeys(t) = t
    OBVIOUS
  <2>2. PICK r \in Seq(Token), e \in Token : t = Append(r, e)
    <3>1. t # <<>>
      BY <2>1
    <3>. QED
      BY <3>1, SequenceEmptyOrAppend
  <2>3. Len(r) = k /\ t = r \o <<e>> /\ <<e>> \in Seq(Token) /\ t[k + 1] = e
        /\ \A i \in 1..k : t[i] = r[i]
    BY <2>1, <2>2
  <2>4. HasNoKey(r) /\ ~IsPred(e)
    <3>1. DOMAIN t = 1..(k + 1) /\ DOMAIN r = 1..k
      BY <2>1, <2>3
    <3>2. \A i \in 1..(k + 1) : ~IsPred(t[i])
      BY <2>1, <3>1 DEF HasNoKey
    <3>3. ~IsPred(e)
      BY <2>3, <3>2
    <3>4. ASSUME NEW i \in DOMAIN r PROVE ~IsPred(r[i])
      <4>1. i \in 1..k /\ i \in 1..(k + 1)
        BY <3>1
      <4>. QED
        BY <2>3, <3>2, <4>1
    <3>. QED
      BY <3>3, <3>4 DEF HasNoKey
  <2>5. stripKeys(r) = r
    BY <1>2, <2>3, <2>4
  <2>6. stripKeys(<<e>>) = <<e>>
    BY <2>4, StripKeysOne
  <2>7. stripKeys(r \o <<e>>) = stripKeys(r) \o stripKeys(<<e>>)
    BY <2>3, StripKeysConcat
  <2>. QED
    BY <2>3, <2>5, <2>6, <2>7
<1>. HIDE DEF Good
<1>3. \A k \in Nat : k \in Good
  BY <1>1, <1>2, AllNat
<1>. QED
  BY <1>3 DEF Good

\* An element and its name alone.
Bare(e) == [e EXCEPT !.key = NoKey]

\* An element without its key.
LEMMA BareType ==
  ASSUME NEW e \in Elem
  PROVE  Bare(e) \in Elem /\ Bare(e).key = NoKey /\ Bare(e).name = e.name
BY DEF Elem, Bare

\* The head of a piece: all but its key.
LEMMA PieceHead ==
  ASSUME NEW e \in Elem
  PROVE  /\ Piece(Bare(e)) \in Seq(Token) /\ KeyPart(e) \in Seq(Token)
         /\ Piece(e) = Piece(Bare(e)) \o KeyPart(e)
         /\ HasNoKey(Piece(Bare(e)))
<1>. DEFINE b == Bare(e)
            h == <<Slash>> \o Letters(e.name)
<1>1. b \in Elem /\ b.key = NoKey /\ b.name = e.name
  BY BareType
<1>. HIDE DEF b
<1>2. Piece(b) \in Seq(Token) /\ Len(Piece(b)) = 1 + Len(e.name) /\ Piece(b)[1] = Slash
      /\ \A i \in 1..Len(e.name) : Piece(b)[i + 1] = Letter(e.name[i])
  <2>1. /\ Piece(b) \in Seq(Token) /\ Len(Piece(b)) = 1 + Len(b.name) + 0
        /\ Piece(b)[1] = Slash
        /\ \A i \in 1..Len(b.name) : Piece(b)[i + 1] = Letter(b.name[i])
    BY <1>1, PieceType
  <2>2. Len(b.name) \in Nat
    BY <1>1 DEF Elem
  <2>. QED
    BY <1>1, <2>1, <2>2
<1>3. h \in Seq(Token)
  <2>1. e.name \in Seq(Alphabet)
    BY DEF Elem
  <2>2. Letters(e.name) \in Seq(Token) /\ <<Slash>> \in Seq(Token)
    BY <2>1, LettersType, Tokens
  <2>. QED
    BY <2>2, ConcatProperties
<1>4. Piece(b) = h
  <2>1. Piece(b) = h \o <<>>
    BY <1>1 DEF Piece, KeyPart
  <2>. HIDE DEF h
  <2>. QED
    BY <1>3, <2>1, ConcatEmptySeq
<1>5. Piece(e) = h \o KeyPart(e)
  BY DEF Piece
<1>6. KeyPart(e) \in Seq(Token)
  BY Tokens DEF KeyPart, Elem
<1>7. HasNoKey(Piece(b))
  <2>1. e.name \in Seq(Alphabet) /\ Len(e.name) \in Nat
        /\ \A i \in 1..Len(e.name) : e.name[i] \in Alphabet
    BY DEF Elem
  <2>2. ASSUME NEW i \in DOMAIN Piece(b) PROVE ~IsPred(Piece(b)[i])
    <3>1. i \in 1..(1 + Len(e.name))
      BY <1>2
    <3>2. CASE i = 1
      BY <1>2, <3>2, Tokens
    <3>3. CASE i # 1
      <4>1. i - 1 \in 1..Len(e.name) /\ i = (i - 1) + 1
        BY <2>1, <3>1, <3>3
      <4>2. Piece(b)[i] = Letter(e.name[i - 1])
        BY <1>2, <4>1
      <4>3. e.name[i - 1] \in Alphabet
        BY <2>1, <4>1
      <4>. QED
        BY <4>2, <4>3, Tokens
    <3>. QED
      BY <3>2, <3>3
  <2>. QED
    BY <2>2 DEF HasNoKey
<1>. QED
  BY <1>2, <1>4, <1>5, <1>6, <1>7 DEF b

\* Without predicates, a piece is that of the element without its key.
LEMMA StripKeysPiece ==
  ASSUME NEW e \in Elem
  PROVE  stripKeys(Piece(e)) = Piece(Bare(e))
<1>. DEFINE b == Piece(Bare(e))
            k == KeyPart(e)
<1>1. b \in Seq(Token) /\ k \in Seq(Token) /\ Piece(e) = b \o k /\ HasNoKey(b)
  BY PieceHead
<1>2. stripKeys(k) = <<>>
  BY StripKeysOne, Tokens DEF KeyPart, Elem
<1>. HIDE DEF b, k
<1>3. stripKeys(b \o k) = stripKeys(b) \o stripKeys(k)
  BY <1>1, StripKeysConcat
<1>4. stripKeys(b) = b /\ b \o <<>> = b
  BY <1>1, StripKeysPlain, ConcatEmptySeq
<1>. QED
  BY <1>1, <1>2, <1>3, <1>4 DEF b

\* Elements without their keys.
LEMMA KeylessIs ==
  ASSUME NEW es \in Seq(Elem)
  PROVE  /\ Keyless(es) \in Seq(Elem) /\ Len(Keyless(es)) = Len(es)
         /\ \A i \in 1..Len(es) : Keyless(es)[i] = Bare(es[i])
<1>1. DOMAIN es = 1..Len(es) /\ Len(es) \in Nat /\ \A i \in 1..Len(es) : es[i] \in Elem
  OBVIOUS
<1>2. Keyless(es) = [i \in 1..Len(es) |-> Bare(es[i])]
  BY <1>1 DEF Keyless, Bare
<1>3. \A i \in 1..Len(es) : Bare(es[i]) \in Elem
  BY <1>1, BareType
<1>. DEFINE S == Elem
<1>. HIDE DEF S
<1>4. Keyless(es) \in [1..Len(es) -> S]
  BY <1>2, <1>3 DEF S
<1>5. Keyless(es) \in Seq(S) /\ Len(Keyless(es)) = Len(es)
  <2>. DEFINE f == Keyless(es)
              n == Len(es)
  <2>1. f \in [1..n -> S] /\ n \in Nat
    BY <1>1, <1>4
  <2>. HIDE DEF f, n
  <2>2. f \in Seq(S) /\ Len(f) = n
    BY <2>1
  <2>. QED
    BY <2>2 DEF f, n
<1>. QED
  BY <1>2, <1>5 DEF S

\* One more element without its key.
LEMMA KeylessAppend ==
  ASSUME NEW r \in Seq(Elem), NEW e \in Elem
  PROVE  Keyless(r \o <<e>>) = Keyless(r) \o <<Bare(e)>>
<1>. DEFINE s == r \o <<e>>
            f == Keyless(s)
            g == Keyless(r)
            h == <<Bare(e)>>
<1>1. PICK n \in Nat : n = Len(r)
  OBVIOUS
<1>2. s \in Seq(Elem) /\ Len(s) = n + 1 /\ s[n + 1] = e /\ \A i \in 1..n : s[i] = r[i]
  BY <1>1
<1>3. g \in Seq(Elem) /\ Len(g) = n /\ \A i \in 1..n : g[i] = Bare(r[i])
  BY <1>1, KeylessIs
<1>. HIDE DEF s
<1>4. f \in Seq(Elem) /\ Len(f) = n + 1 /\ \A i \in 1..(n + 1) : f[i] = Bare(s[i])
  BY <1>2, KeylessIs
<1>5. h \in Seq(Elem) /\ Len(h) = 1 /\ h[1] = Bare(e)
  BY BareType
<1>. HIDE DEF f, g, h
<1>6. IsConcat(Elem, f, g, h)
  <2>1. \A i \in 1..n : f[i] = g[i]
    BY <1>2, <1>3, <1>4
  <2>2. \A i \in 1..1 : f[n + i] = h[i]
    BY <1>2, <1>4, <1>5
  <2>. QED
    BY <1>3, <1>4, <1>5, <2>1, <2>2 DEF IsConcat
<1>. QED
  BY <1>3, <1>4, <1>5, <1>6, ConcatIs DEF s, f, g, h

\* Without keys, the text of some elements is that of their names.
LEMMA StripKeysJoined ==
  \A es \in Seq(Elem) : stripKeys(Joined(es)) = Joined(Keyless(es))
<1>. DEFINE Good == {k \in Nat : \A es \in Seq(Elem) : Len(es) = k =>
                       stripKeys(Joined(es)) = Joined(Keyless(es))}
<1>1. 0 \in Good
  <2>1. SUFFICES ASSUME NEW es \in Seq(Elem), Len(es) = 0
                 PROVE  stripKeys(Joined(es)) = Joined(Keyless(es))
    OBVIOUS
  <2>2. es = <<>> /\ Keyless(<<>>) = <<>>
    BY <2>1, EmptySeq DEF Keyless
  <2>. QED
    BY <2>2, StripKeysOne, JoinedNone
<1>2. ASSUME NEW k \in Nat, k \in Good PROVE k + 1 \in Good
  <2>1. SUFFICES ASSUME NEW es \in Seq(Elem), Len(es) = k + 1
                 PROVE  stripKeys(Joined(es)) = Joined(Keyless(es))
    OBVIOUS
  <2>2. PICK r \in Seq(Elem), e \in Elem : es = r \o <<e>> /\ Len(r) = k
    <3>. DEFINE S == Elem
    <3>. HIDE DEF S
    <3>1. es # <<>> /\ es \in Seq(S)
      BY <2>1 DEF S
    <3>2. PICK r \in Seq(S), e \in S : es = Append(r, e)
      BY <3>1, SequenceEmptyOrAppend
    <3>3. Len(r) = k /\ es = r \o <<e>>
      BY <2>1, <3>2
    <3>. QED
      BY <3>2, <3>3 DEF S
  <2>. DEFINE one == <<e>>
              a == Joined(r)
              b == Piece(e)
  <2>3. one \in Seq(Elem) /\ Joined(one) = b /\ Joined(<<Bare(e)>>) = Piece(Bare(e))
    BY JoinedOne, BareType
  <2>. HIDE DEF one
  <2>4. Joined(es) = a \o b /\ a \in Seq(Token) /\ b \in Seq(Token)
    BY <2>2, <2>3, JoinedConcat, JoinedType, PieceType DEF one
  <2>5. stripKeys(a) = Joined(Keyless(r)) /\ stripKeys(b) = Piece(Bare(e))
    BY <1>2, <2>2, StripKeysPiece
  <2>6. stripKeys(Joined(es)) = stripKeys(a) \o stripKeys(b)
    <3>. HIDE DEF a, b
    <3>. QED
      BY <2>4, StripKeysConcat
  <2>7. Keyless(es) = Keyless(r) \o <<Bare(e)>>
    BY <2>2, KeylessAppend
  <2>8. Joined(Keyless(es)) = Joined(Keyless(r)) \o Piece(Bare(e))
    <3>. DEFINE c == Keyless(r)
                d == <<Bare(e)>>
    <3>1. c \in Seq(Elem) /\ d \in Seq(Elem)
      BY KeylessIs, BareType
    <3>. HIDE DEF c, d
    <3>2. Joined(c \o d) = Joined(c) \o Joined(d)
      BY <3>1, JoinedConcat
    <3>. QED
      BY <2>3, <2>7, <3>2 DEF c, d
  <2>. QED
    BY <2>5, <2>6, <2>8
<1>. HIDE DEF Good
<1>3. \A k \in Nat : k \in Good
  BY <1>1, <1>2, AllNat
<1>. QED
  BY <1>3 DEF Good
-----------------------------------------------------------------------------
(* Prefixes                                                                  *)

\* A prefix has the same tokens.
LEMMA PrefixIs ==
  ASSUME NEW S, NEW s \in Seq(S), NEW t \in Seq(S)
  PROVE  IsPrefix(s, t) <=> Len(s) <= Len(t) /\ \A i \in 1..Len(s) : s[i] = t[i]
<1>1. PICK m \in Nat, n \in Nat : m = Len(s) /\ n = Len(t)
  OBVIOUS
<1>2. CASE ~(m <= n)
  BY <1>1, <1>2 DEF IsPrefix
<1>3. CASE m <= n
  <2>. DEFINE a == SubSeq(s, 1, m)
              b == SubSeq(t, 1, m)
  <2>1. a = [i \in 1..m |-> s[i]] /\ b = [i \in 1..m |-> t[i]]
    BY <1>1
  <2>2. a = b <=> \A i \in 1..m : s[i] = t[i]
    BY <2>1
  <2>. QED
    BY <1>1, <1>3, <2>2 DEF IsPrefix
<1>. QED
  BY <1>2, <1>3

\* A text that does not go on with a letter.
Bounded(t) == t # <<>> => t[1] = Slash \/ IsPred(t[1])

\* A text that, if any, begins with a slash.
Slashed(t) == t # <<>> => t[1] = Slash

\* The meaning of isPathPrefix, position by position.
Begins(s, t, m, n) ==
  /\ m <= n /\ \A i \in 1..m : s[i] = t[i]
  /\ n = m \/ t[m + 1] = Slash \/ IsPred(t[m + 1])

\* isPathPrefix, for texts.
LEMMA BeginsIs ==
  ASSUME NEW s \in Seq(Token), NEW t \in Seq(Token), NEW m, NEW n, m = Len(s), n = Len(t)
  PROVE  isPathPrefix(s, t) <=> Begins(s, t, m, n)
BY PrefixIs DEF isPathPrefix, Begins

\* The empty text begins a text that starts at a boundary.
LEMMA EmptyBegins ==
  ASSUME NEW t \in Seq(Token), Bounded(t)
  PROVE  isPathPrefix(<<>>, t)
<1>1. <<>> \in Seq(Token) /\ Len(<<>>) = 0 /\ Len(t) \in Nat /\ (t = <<>> <=> Len(t) = 0)
  BY EmptySeq
<1>2. Begins(<<>>, t, 0, Len(t))
  BY <1>1 DEF Begins, Bounded
<1>. QED
  BY <1>1, <1>2, BeginsIs

\* What both texts begin with does not matter.
LEMMA CommonBegins ==
  ASSUME NEW c \in Seq(Token), NEW y \in Seq(Token), NEW z \in Seq(Token)
  PROVE  isPathPrefix(c \o y, c \o z) <=> isPathPrefix(y, z)
<1>. DEFINE s == c \o y
            t == c \o z
<1>1. PICK k \in Nat, m \in Nat, n \in Nat : k = Len(c) /\ m = Len(y) /\ n = Len(z)
  OBVIOUS
<1>2. /\ s \in Seq(Token) /\ Len(s) = k + m
      /\ \A i \in 1..k : s[i] = c[i]
      /\ \A i \in 1..m : s[k + i] = y[i]
  BY <1>1, ConcatAt
<1>3. /\ t \in Seq(Token) /\ Len(t) = k + n
      /\ \A i \in 1..k : t[i] = c[i]
      /\ \A i \in 1..n : t[k + i] = z[i]
  BY <1>1, ConcatAt
<1>. HIDE DEF s, t
<1>4. isPathPrefix(s, t) <=> Begins(s, t, k + m, k + n)
  BY <1>2, <1>3, BeginsIs
<1>5. isPathPrefix(y, z) <=> Begins(y, z, m, n)
  BY <1>1, BeginsIs
<1>6. ASSUME Begins(s, t, k + m, k + n) PROVE Begins(y, z, m, n)
  <2>1. m <= n
    BY <1>6 DEF Begins
  <2>2. ASSUME NEW i \in 1..m PROVE y[i] = z[i]
    <3>1. k + i \in 1..(k + m) /\ i \in 1..n
      BY <2>1
    <3>2. s[k + i] = t[k + i]
      BY <1>6, <3>1 DEF Begins
    <3>. QED
      BY <1>2, <1>3, <3>1, <3>2
  <2>3. CASE n = m
    BY <2>1, <2>2, <2>3 DEF Begins
  <2>4. CASE n # m
    <3>1. m + 1 \in 1..n /\ k + (m + 1) = k + m + 1 /\ k + n # k + m
      BY <2>1, <2>4
    <3>2. t[k + m + 1] = z[m + 1]
      BY <1>3, <3>1
    <3>. QED
      BY <1>6, <2>1, <2>2, <3>1, <3>2 DEF Begins
  <2>. QED
    BY <2>3, <2>4
<1>7. ASSUME Begins(y, z, m, n) PROVE Begins(s, t, k + m, k + n)
  <2>1. m <= n /\ k + m <= k + n
    BY <1>7 DEF Begins
  <2>2. ASSUME NEW i \in 1..(k + m) PROVE s[i] = t[i]
    <3>1. CASE i <= k
      <4>1. i \in 1..k
        BY <3>1
      <4>. QED
        BY <1>2, <1>3, <4>1
    <3>2. CASE ~(i <= k)
      <4>1. i - k \in 1..m /\ i - k \in 1..n /\ k + (i - k) = i
        BY <2>1, <3>2
      <4>2. y[i - k] = z[i - k]
        BY <1>7, <4>1 DEF Begins
      <4>3. s[k + (i - k)] = y[i - k] /\ t[k + (i - k)] = z[i - k]
        BY <1>2, <1>3, <4>1
      <4>. QED
        BY <4>1, <4>2, <4>3
    <3>. QED
      BY <3>1, <3>2
  <2>3. CASE n = m
    BY <2>1, <2>2, <2>3 DEF Begins
  <2>4. CASE n # m
    <3>1. m + 1 \in 1..n /\ k + (m + 1) = k + m + 1
      BY <2>1, <2>4
    <3>2. t[k + m + 1] = z[m + 1]
      BY <1>3, <3>1
    <3>. QED
      BY <1>7, <2>1, <2>2, <2>4, <3>1, <3>2 DEF Begins
  <2>. QED
    BY <2>3, <2>4
<1>. QED
  BY <1>4, <1>5, <1>6, <1>7 DEF s, t

\* A text that goes on begins no shorter or different one.
LEMMA BeginsFirst ==
  ASSUME NEW s \in Seq(Token), NEW t \in Seq(Token), s # <<>>, isPathPrefix(s, t)
  PROVE  t # <<>> /\ s[1] = t[1]
<1>1. Begins(s, t, Len(s), Len(t)) /\ Len(s) \in Nat /\ Len(t) \in Nat
  BY BeginsIs
<1>2. 1 \in 1..Len(s) /\ (t = <<>> => Len(t) = 0)
  BY <1>1
<1>. QED
  BY <1>1, <1>2 DEF Begins

\* The positions of t, a piece without its key, of a name of n letters, and u.
BarePiece(e, u, t, n) ==
  /\ n \in Nat /\ t \in Seq(Token) /\ Len(t) = n + 1 + Len(u) /\ t[1] = Slash
  /\ \A i \in 1..n : e.name[i] \in Alphabet /\ t[i + 1] = Letter(e.name[i])
  /\ \A i \in 1..Len(u) : t[n + 1 + i] = u[i]

\* The tokens of a piece followed by more.
LEMMA BarePieceAt ==
  ASSUME NEW e \in Elem, NEW u \in Seq(Token)
  PROVE  BarePiece(e, u, Piece(Bare(e)) \o u, Len(e.name))
<1>. DEFINE b == Bare(e)
            h == Piece(b)
            t == h \o u
            n == Len(e.name)
<1>1. b \in Elem /\ b.key = NoKey /\ b.name = e.name
  BY BareType
<1>2. n \in Nat /\ \A i \in 1..n : e.name[i] \in Alphabet
  BY DEF Elem
<1>. HIDE DEF b, n
<1>3. PICK k \in Nat : k = n + 1
  BY <1>2
<1>4. h \in Seq(Token) /\ Len(h) = k /\ h[1] = Slash /\ \A i \in 1..n : h[i + 1] = Letter(e.name[i])
  <2>1. /\ h \in Seq(Token) /\ Len(h) = 1 + Len(b.name) + 0 /\ h[1] = Slash
        /\ \A i \in 1..Len(b.name) : h[i + 1] = Letter(b.name[i])
    BY <1>1, PieceType
  <2>. HIDE DEF h
  <2>2. Len(b.name) = n
    BY <1>1 DEF n
  <2>. QED
    BY <1>1, <1>2, <1>3, <2>1, <2>2
<1>. HIDE DEF h
<1>5. /\ t \in Seq(Token) /\ Len(t) = k + Len(u)
      /\ \A i \in 1..k : t[i] = h[i]
      /\ \A i \in 1..Len(u) : t[k + i] = u[i]
  BY <1>4, ConcatAt
<1>. HIDE DEF t
<1>6. t[1] = Slash
  <2>1. 1 \in 1..k
    BY <1>2, <1>3
  <2>. QED
    BY <1>4, <1>5, <2>1
<1>7. ASSUME NEW i \in 1..n PROVE t[i + 1] = Letter(e.name[i])
  <2>1. i + 1 \in 1..k
    BY <1>2, <1>3
  <2>. QED
    BY <1>4, <1>5, <2>1
<1>. QED
  <2>1. BarePiece(e, u, t, n)
    BY <1>2, <1>3, <1>5, <1>6, <1>7 DEF BarePiece
  <2>. QED
    BY <2>1 DEF t, h, b, n

\* Letters are different from what bounds a name.
LEMMA LetterIs ==
  ASSUME NEW x \in Alphabet, NEW y \in Alphabet
  PROVE  /\ Letter(x) # Slash /\ ~IsPred(Letter(x))
         /\ Letter(x) = Letter(y) => x = y
BY Tokens

\* Names are equal if their letters are.
LEMMA NamesEqual ==
  ASSUME NEW a \in Seq(Alphabet), NEW b \in Seq(Alphabet), NEW n \in Nat, Len(a) = n, Len(b) = n,
         \A i \in 1..n : a[i] = b[i]
  PROVE  a = b
BY SeqEqual

\* Names have to be equal, even where one begins the other.
LEMMA NamesBegin ==
  ASSUME NEW e \in Elem, NEW d \in Elem, NEW u \in Seq(Token), NEW v \in Seq(Token),
         Bounded(u), Bounded(v)
  PROVE  isPathPrefix(Piece(Bare(e)) \o u, Piece(Bare(d)) \o v)
           <=> e.name = d.name /\ isPathPrefix(u, v)
<1>. DEFINE s == Piece(Bare(e)) \o u
            t == Piece(Bare(d)) \o v
            n == Len(e.name)
            m == Len(d.name)
<1>1. /\ n \in Nat /\ s \in Seq(Token) /\ Len(s) = n + 1 + Len(u)
      /\ \A i \in 1..n : e.name[i] \in Alphabet /\ s[i + 1] = Letter(e.name[i])
      /\ \A i \in 1..Len(u) : s[n + 1 + i] = u[i]
  BY BarePieceAt DEF BarePiece
<1>2. /\ m \in Nat /\ t \in Seq(Token) /\ Len(t) = m + 1 + Len(v)
      /\ \A i \in 1..m : d.name[i] \in Alphabet /\ t[i + 1] = Letter(d.name[i])
      /\ \A i \in 1..Len(v) : t[m + 1 + i] = v[i]
  BY BarePieceAt DEF BarePiece
<1>3. PICK j \in Nat, k \in Nat : j = Len(u) /\ k = Len(v)
  OBVIOUS
<1>4. /\ j # 0 => u[1] = Slash \/ IsPred(u[1])
      /\ k # 0 => v[1] = Slash \/ IsPred(v[1])
  BY <1>3 DEF Bounded
<1>5. ASSUME e.name = d.name PROVE isPathPrefix(s, t) <=> isPathPrefix(u, v)
  <2>1. Piece(Bare(e)) = Piece(Bare(d))
    BY <1>5, BareType DEF Piece, KeyPart
  <2>2. Piece(Bare(d)) \in Seq(Token)
    BY BareType, PieceType
  <2>. QED
    BY <2>1, <2>2, CommonBegins
<1>6. ASSUME isPathPrefix(s, t) PROVE e.name = d.name
  <2>. HIDE DEF s, t
  <2>1. Begins(s, t, n + 1 + j, m + 1 + k)
    BY <1>1, <1>2, <1>3, <1>6, BeginsIs
  <2>. HIDE DEF n, m
  <2>2. ~(n < m)
    <3>1. SUFFICES ASSUME n < m PROVE FALSE
      OBVIOUS
    <3>2. n + 1 \in 1..m /\ n + 1 + 1 = n + 2
      BY <1>1, <1>2, <3>1
    <3>3. /\ d.name[n + 1] \in Alphabet /\ t[n + 2] = Letter(d.name[n + 1])
          /\ t[n + 2] # Slash /\ ~IsPred(t[n + 2])
      BY <1>2, <3>2, LetterIs
    <3>4. CASE j = 0
      <4>1. n + 1 + j + 1 = n + 2 /\ n + 1 + j # m + 1 + k
        BY <1>1, <1>2, <3>1, <3>4
      <4>. QED
        BY <2>1, <3>3, <4>1 DEF Begins
    <3>5. CASE j # 0
      <4>1. 1 \in 1..j /\ n + 1 + 1 = n + 2 /\ n + 2 \in 1..(n + 1 + j)
        BY <1>1, <3>5
      <4>2. s[n + 2] = u[1]
        BY <1>1, <1>3, <4>1
      <4>3. s[n + 2] = t[n + 2]
        BY <2>1, <4>1 DEF Begins
      <4>. QED
        BY <1>4, <3>3, <3>5, <4>2, <4>3
    <3>. QED
      BY <3>4, <3>5
  <2>3. ~(m < n)
    <3>1. SUFFICES ASSUME m < n PROVE FALSE
      OBVIOUS
    <3>2. m + 1 \in 1..n /\ m + 1 + 1 = m + 2
      BY <1>1, <1>2, <3>1
    <3>3. /\ e.name[m + 1] \in Alphabet /\ s[m + 2] = Letter(e.name[m + 1])
          /\ s[m + 2] # Slash /\ ~IsPred(s[m + 2])
      BY <1>1, <3>2, LetterIs
    <3>4. n + 1 + j <= m + 1 + k
      BY <2>1 DEF Begins
    <3>5. k # 0 /\ 1 \in 1..k /\ m + 2 \in 1..(n + 1 + j)
      BY <1>1, <1>2, <3>1, <3>4
    <3>6. t[m + 2] = v[1]
      BY <1>2, <1>3, <3>2, <3>5
    <3>7. s[m + 2] = t[m + 2]
      BY <2>1, <3>5 DEF Begins
    <3>. QED
      BY <1>4, <3>3, <3>5, <3>6, <3>7
  <2>4. n = m
    BY <1>1, <1>2, <2>2, <2>3
  <2>5. ASSUME NEW i \in 1..n PROVE e.name[i] = d.name[i]
    <3>1. i + 1 \in 1..(n + 1 + j) /\ i \in 1..m
      BY <1>1, <2>4
    <3>2. s[i + 1] = t[i + 1]
      BY <2>1, <3>1 DEF Begins
    <3>. QED
      BY <1>1, <1>2, <3>1, <3>2, LetterIs
  <2>6. e.name \in Seq(Alphabet) /\ d.name \in Seq(Alphabet)
    BY DEF Elem
  <2>. QED
    BY <1>1, <2>4, <2>5, <2>6, NamesEqual DEF n, m
<1>. QED
  BY <1>5, <1>6

\* One token more at the front.
LEMMA TokenAt ==
  ASSUME NEW x \in Token, NEW y \in Seq(Token)
  PROVE  LET t == <<x>> \o y IN t \in Seq(Token) /\ t # <<>> /\ t[1] = x
<1>. DEFINE o == <<x>>
            t == o \o y
<1>1. PICK k \in Nat : o \in Seq(Token) /\ Len(o) = k /\ k = 1 /\ o[1] = x
  OBVIOUS
<1>. HIDE DEF o
<1>2. t \in Seq(Token) /\ Len(t) = k + Len(y) /\ \A i \in 1..k : t[i] = o[i]
  <2>1. o \in Seq(Token) /\ Len(o) = k
    BY <1>1
  <2>. QED
    BY <2>1, ConcatAt
<1>. HIDE DEF t
<1>3. t[1] = x
  BY <1>1, <1>2
<1>4. t # <<>>
  <2>1. Len(t) # 0
    BY <1>1, <1>2
  <2>. QED
    BY <2>1
<1>. QED
  BY <1>2, <1>3, <1>4 DEF t, o

\* So do keys, unless the first text ends with the name.
LEMMA KeysBegin ==
  ASSUME NEW e \in Elem, NEW d \in Elem, NEW y \in Seq(Token), NEW z \in Seq(Token),
         Slashed(y), Slashed(z)
  PROVE  isPathPrefix(KeyPart(e) \o y, KeyPart(d) \o z)
           <=> \/ e.key = d.key /\ isPathPrefix(y, z)
               \/ e.key = NoKey /\ y = <<>>
<1>. DEFINE p == Pred(e.key)
            q == Pred(d.key)
            s == <<p>> \o y
            t == <<q>> \o z
<1>1. /\ e.key # NoKey => p \in Token /\ p # Slash /\ IsPred(p) /\ p[2] = e.key
      /\ d.key # NoKey => q \in Token /\ q # Slash /\ IsPred(q) /\ q[2] = d.key
  BY Tokens DEF Elem
<1>2. /\ e.key = NoKey => KeyPart(e) \o y = y
      /\ d.key = NoKey => KeyPart(d) \o z = z
      /\ e.key # NoKey => KeyPart(e) \o y = s
      /\ d.key # NoKey => KeyPart(d) \o z = t
  BY ConcatEmptySeq DEF KeyPart
<1>3. /\ e.key # NoKey => s \in Seq(Token) /\ s # <<>> /\ s[1] = p
      /\ d.key # NoKey => t \in Seq(Token) /\ t # <<>> /\ t[1] = q
  BY <1>1, TokenAt
<1>4. Bounded(z)
  BY DEF Slashed, Bounded
<1>5. e.key # NoKey => <<p>> \in Seq(Token)
  BY <1>1
<1>. HIDE DEF p, q
<1>6. CASE e.key = NoKey /\ d.key = NoKey
  BY <1>2, <1>4, <1>6, EmptyBegins
<1>7. CASE e.key = NoKey /\ d.key # NoKey
  <2>1. y = <<>> => isPathPrefix(y, t)
    BY <1>1, <1>3, <1>7, EmptyBegins DEF Bounded
  <2>2. y # <<>> => ~isPathPrefix(y, t)
    BY <1>1, <1>3, <1>7, BeginsFirst DEF Slashed
  <2>. QED
    BY <1>2, <1>7, <2>1, <2>2
<1>8. CASE e.key # NoKey /\ d.key = NoKey
  <2>1. ~isPathPrefix(s, z)
    BY <1>1, <1>3, <1>8, BeginsFirst DEF Slashed
  <2>. QED
    BY <1>2, <1>8, <2>1
<1>9. CASE e.key # NoKey /\ d.key # NoKey
  <2>1. CASE p = q
    <3>1. e.key = d.key
      BY <1>1, <1>9, <2>1
    <3>2. isPathPrefix(s, t) <=> isPathPrefix(y, z)
      BY <1>5, <1>9, <2>1, CommonBegins
    <3>. QED
      BY <1>2, <1>9, <3>1, <3>2
  <2>2. CASE p # q
    <3>1. ~isPathPrefix(s, t)
      BY <1>3, <1>9, <2>2, BeginsFirst
    <3>2. e.key # d.key
      BY <2>2 DEF p, q
    <3>. QED
      BY <1>2, <1>9, <3>1, <3>2
  <2>. QED
    BY <2>1, <2>2
<1>. QED
  BY <1>6, <1>7, <1>8, <1>9

\* One piece and what follows begin another exactly if the elements agree.
LEMMA PieceBegins ==
  ASSUME NEW e \in Elem, NEW d \in Elem, NEW y \in Seq(Token), NEW z \in Seq(Token),
         Slashed(y), Slashed(z)
  PROVE  isPathPrefix(Piece(e) \o y, Piece(d) \o z)
           <=> /\ e.name = d.name
               /\ \/ e.key = d.key /\ isPathPrefix(y, z)
                  \/ e.key = NoKey /\ y = <<>>
<1>. DEFINE a == Piece(Bare(e))
            b == Piece(Bare(d))
            i == KeyPart(e)
            j == KeyPart(d)
            u == i \o y
            v == j \o z
<1>1. /\ a \in Seq(Token) /\ i \in Seq(Token) /\ Piece(e) = a \o i
      /\ b \in Seq(Token) /\ j \in Seq(Token) /\ Piece(d) = b \o j
  BY PieceHead
<1>2. Piece(e) \o y = a \o u /\ Piece(d) \o z = b \o v /\ u \in Seq(Token) /\ v \in Seq(Token)
  <2>. HIDE DEF a, b, i, j
  <2>1. a \in Seq(Token) /\ i \in Seq(Token) /\ b \in Seq(Token) /\ j \in Seq(Token)
    BY <1>1
  <2>2. (a \o i) \o y = a \o (i \o y) /\ i \o y \in Seq(Token)
    <3>1. Associate(a, i, y)
      BY <2>1, Associative
    <3>2. i \o y \in Seq(Token)
      BY <2>1
    <3>. QED
      BY <3>1, <3>2, Zenon DEF Associate
  <2>3. (b \o j) \o z = b \o (j \o z) /\ j \o z \in Seq(Token)
    <3>1. Associate(b, j, z)
      BY <2>1, Associative
    <3>2. j \o z \in Seq(Token)
      BY <2>1
    <3>. QED
      BY <3>1, <3>2, Zenon DEF Associate
  <2>. QED
    BY <1>1, <2>2, <2>3
<1>3. Bounded(u) /\ Bounded(v)
  <2>1. ASSUME NEW f \in Elem, NEW w \in Seq(Token), Slashed(w)
        PROVE  Bounded(KeyPart(f) \o w)
    <3>1. CASE f.key = NoKey
      BY <2>1, <3>1, ConcatEmptySeq DEF KeyPart, Bounded, Slashed
    <3>2. CASE f.key # NoKey
      <4>. DEFINE p == Pred(f.key)
      <4>1. p \in Token /\ IsPred(p)
        BY <3>2, Tokens DEF Elem
      <4>. HIDE DEF p
      <4>2. (<<p>> \o w)[1] = p
        BY <4>1, TokenAt
      <4>3. KeyPart(f) \o w = <<p>> \o w
        BY <3>2 DEF KeyPart, p
      <4>. QED
        BY <4>1, <4>2, <4>3 DEF Bounded
    <3>. QED
      BY <3>1, <3>2
  <2>. QED
    BY <2>1
<1>. HIDE DEF u, v
<1>4. isPathPrefix(a \o u, b \o v) <=> e.name = d.name /\ isPathPrefix(u, v)
  BY <1>2, <1>3, NamesBegin
<1>5. isPathPrefix(u, v) <=> \/ e.key = d.key /\ isPathPrefix(y, z)
                             \/ e.key = NoKey /\ y = <<>>
  BY KeysBegin DEF u, v
<1>. QED
  BY <1>2, <1>4, <1>5

\* A piece starts with a slash.
LEMMA PieceFirst ==
  ASSUME NEW e \in Elem, NEW y \in Seq(Token)
  PROVE  LET t == Piece(e) \o y IN t \in Seq(Token) /\ t # <<>> /\ t[1] = Slash
<1>. DEFINE p == Piece(e)
            t == p \o y
<1>1. p \in Seq(Token) /\ p[1] = Slash /\ Len(p) # 0
  <2>1. Len(e.name) \in Nat
    BY DEF Elem
  <2>2. /\ p \in Seq(Token) /\ p[1] = Slash
        /\ Len(p) = 1 + Len(e.name) + (IF e.key = NoKey THEN 0 ELSE 1)
    BY PieceType
  <2>. HIDE DEF p
  <2>3. Len(p) # 0
    <3>1. PICK x \in Nat : x = Len(e.name)
      BY <2>1
    <3>2. Len(p) = 1 + x + 0 \/ Len(p) = 1 + x + 1
      BY <2>2, <3>1
    <3>. QED
      BY <3>2
  <2>. QED
    BY <2>2, <2>3
<1>. HIDE DEF p
<1>2. PICK k \in Nat : Len(p) = k /\ k # 0
  BY <1>1
<1>3. t \in Seq(Token) /\ Len(t) = k + Len(y) /\ \A i \in 1..k : t[i] = p[i]
  BY <1>1, <1>2, ConcatAt
<1>4. 1 \in 1..k /\ Len(t) # 0
  BY <1>2, <1>3
<1>. QED
  BY <1>1, <1>3, <1>4 DEF p

\* Some elements: the first, its text, and the rest.
LEMMA JoinedFirst ==
  ASSUME NEW es \in Seq(Elem), NEW k \in Nat, Len(es) = k + 1
  PROVE  \E e \in Elem, r \in Seq(Elem) :
           FirstRest(es, e, r, k) /\ Joined(es) = Piece(e) \o Joined(r)
<1>1. PICK e \in Elem, r \in Seq(Elem) : FirstRest(es, e, r, k)
  BY FirstAndRest
<1>2. Joined(es) = Piece(e) \o Joined(r)
  <2>. DEFINE o == <<e>>
  <2>1. o \in Seq(Elem) /\ Joined(o) = Piece(e)
    BY JoinedOne
  <2>. HIDE DEF o
  <2>2. Joined(o \o r) = Joined(o) \o Joined(r)
    BY <2>1, JoinedConcat
  <2>. QED
    BY <1>1, <2>1, <2>2 DEF o, FirstRest
<1>. QED
  BY <1>1, <1>2

\* The text of elements starts with a slash, if it is not empty.
LEMMA JoinedSlashed ==
  ASSUME NEW es \in Seq(Elem)
  PROVE  Slashed(Joined(es)) /\ (Joined(es) = <<>> <=> es = <<>>)
<1>1. CASE Len(es) = 0
  BY <1>1, EmptySeq, JoinedNone DEF Slashed
<1>2. CASE Len(es) # 0
  <2>1. PICK k \in Nat : Len(es) = k + 1
    <3>1. Len(es) \in Nat /\ Len(es) - 1 \in Nat
      BY <1>2
    <3>. QED
      BY <3>1
  <2>2. PICK e \in Elem, r \in Seq(Elem) : Joined(es) = Piece(e) \o Joined(r)
    BY <2>1, JoinedFirst
  <2>3. Joined(r) \in Seq(Token)
    BY JoinedType
  <2>4. Joined(es) # <<>> /\ Joined(es)[1] = Slash
    BY <2>2, <2>3, PieceFirst
  <2>. QED
    BY <1>2, <2>4 DEF Slashed
<1>. QED
  BY <1>1, <1>2

\* The first element of both, and the rest.
LEMMA UnderFirst ==
  ASSUME NEW q \in Seq(Elem), NEW l \in Seq(Elem), NEW e \in Elem, NEW d \in Elem,
         NEW q1 \in Seq(Elem), NEW l1 \in Seq(Elem), NEW m \in Nat, NEW n \in Nat,
         FirstRest(q, e, q1, m), FirstRest(l, d, l1, n)
  PROVE  Under(q, l) <=> /\ e.name = d.name
                         /\ \/ e.key = d.key /\ Under(q1, l1)
                            \/ e.key = NoKey /\ q1 = <<>>
<1>0. /\ Len(q) = m + 1 /\ Len(q1) = m /\ q[1] = e /\ \A i \in 1..m : q[i + 1] = q1[i]
      /\ Len(l) = n + 1 /\ Len(l1) = n /\ l[1] = d /\ \A i \in 1..n : l[i + 1] = l1[i]
  BY DEF FirstRest
<1>1. m \in Nat /\ n \in Nat /\ DOMAIN q = 1..(m + 1) /\ DOMAIN q1 = 1..m /\ (q1 = <<>> <=> m = 0)
  BY <1>0
<1>2. ASSUME Under(q, l)
      PROVE  /\ e.name = d.name
             /\ \/ e.key = d.key /\ Under(q1, l1)
                \/ e.key = NoKey /\ q1 = <<>>
  <2>1. 1 \in DOMAIN q /\ m + 1 <= n + 1
    BY <1>0, <1>1, <1>2 DEF Under
  <2>2. e.name = d.name /\ (e.key = d.key \/ (e.key = NoKey /\ 1 = m + 1))
    BY <1>0, <1>1, <1>2, <2>1 DEF Under
  <2>3. Under(q1, l1)
    <3>1. ASSUME NEW i \in 1..m
          PROVE  /\ q1[i].name = l1[i].name
                 /\ q1[i].key = l1[i].key \/ (q1[i].key = NoKey /\ i = m)
      <4>1. i + 1 \in DOMAIN q /\ i \in 1..n /\ (i + 1 = m + 1 <=> i = m)
        BY <1>1, <2>1
      <4>2. q[i + 1] = q1[i] /\ l[i + 1] = l1[i]
        BY <1>0, <4>1
      <4>3. /\ q[i + 1].name = l[i + 1].name
            /\ q[i + 1].key = l[i + 1].key \/ (q[i + 1].key = NoKey /\ i + 1 = Len(q))
        BY <1>2, <4>1, Zenon DEF Under
      <4>4. Len(q) = m + 1
        BY <1>0, Zenon
      <4>. QED
        BY <4>1, <4>2, <4>3, <4>4, Zenon
    <3>2. m <= n
      BY <1>1, <2>1
    <3>. QED
      BY <1>0, <1>1, <3>1, <3>2 DEF Under
  <2>4. 1 = m + 1 => q1 = <<>>
    BY <1>1
  <2>. QED
    BY <2>2, <2>3, <2>4
<1>3. ASSUME e.name = d.name, e.key = d.key, Under(q1, l1) PROVE Under(q, l)
  <2>1. m <= n /\ m + 1 <= n + 1
    BY <1>0, <1>1, <1>3 DEF Under
  <2>2. ASSUME NEW i \in 1..(m + 1)
        PROVE  /\ q[i].name = l[i].name
               /\ q[i].key = l[i].key \/ (q[i].key = NoKey /\ i = m + 1)
    <3>1. CASE i = 1
      BY <1>0, <1>3, <3>1
    <3>2. CASE i # 1
      <4>1. i - 1 \in 1..m /\ i - 1 \in 1..n /\ (i - 1) + 1 = i /\ (i - 1 = m <=> i = m + 1)
        BY <1>1, <2>1, <3>2
      <4>2. q[i] = q1[i - 1] /\ l[i] = l1[i - 1]
        BY <1>0, <4>1
      <4>3. /\ q1[i - 1].name = l1[i - 1].name
            /\ q1[i - 1].key = l1[i - 1].key \/ (q1[i - 1].key = NoKey /\ i - 1 = m)
        BY <1>0, <1>1, <1>3, <4>1 DEF Under
      <4>. QED
        BY <4>1, <4>2, <4>3
    <3>. QED
      BY <3>1, <3>2
  <2>. QED
    BY <1>0, <1>1, <2>1, <2>2 DEF Under
<1>4. ASSUME e.name = d.name, e.key = NoKey, q1 = <<>> PROVE Under(q, l)
  <2>1. m = 0 /\ DOMAIN q = {1} /\ Len(q) <= Len(l)
    BY <1>0, <1>1, <1>4
  <2>. QED
    BY <1>0, <1>4, <2>1 DEF Under
<1>. QED
  BY <1>2, <1>3, <1>4

\* The test on texts is the one on elements.
LEMMA PrefixIsUnder ==
  \A q \in Seq(Elem), l \in Seq(Elem) : isPathPrefix(Joined(q), Joined(l)) <=> Under(q, l)
<1>. DEFINE Good == {k \in Nat : \A q \in Seq(Elem), l \in Seq(Elem) : Len(q) = k =>
                       (isPathPrefix(Joined(q), Joined(l)) <=> Under(q, l))}
<1>1. 0 \in Good
  <2>1. SUFFICES ASSUME NEW q \in Seq(Elem), NEW l \in Seq(Elem), Len(q) = 0
                 PROVE  isPathPrefix(Joined(q), Joined(l)) /\ Under(q, l)
    OBVIOUS
  <2>2. q = <<>> /\ Joined(q) = <<>>
    BY <2>1, EmptySeq, JoinedNone
  <2>3. Joined(l) \in Seq(Token) /\ Bounded(Joined(l))
    BY JoinedType, JoinedSlashed DEF Bounded, Slashed
  <2>4. isPathPrefix(<<>>, Joined(l))
    BY <2>3, EmptyBegins
  <2>5. Under(q, l)
    BY <2>1, <2>2 DEF Under
  <2>. QED
    BY <2>2, <2>4, <2>5
<1>2. ASSUME NEW k \in Nat, k \in Good PROVE k + 1 \in Good
  <2>1. SUFFICES ASSUME NEW q \in Seq(Elem), NEW l \in Seq(Elem), Len(q) = k + 1
                 PROVE  isPathPrefix(Joined(q), Joined(l)) <=> Under(q, l)
    OBVIOUS
  <2>2. Joined(q) \in Seq(Token) /\ Joined(l) \in Seq(Token) /\ Joined(q) # <<>>
    <3>1. q # <<>>
      BY <2>1
    <3>. QED
      BY <3>1, JoinedType, JoinedSlashed
  <2>3. CASE Len(l) = 0
    <3>1. Joined(l) = <<>> /\ ~Under(q, l)
      BY <2>1, <2>3, EmptySeq, JoinedNone DEF Under
    <3>. QED
      BY <2>2, <3>1, BeginsFirst
  <2>4. CASE Len(l) # 0
    <3>1. PICK n \in Nat : Len(l) = n + 1
      <4>1. Len(l) \in Nat /\ Len(l) - 1 \in Nat
        BY <2>4
      <4>. QED
        BY <4>1
    <3>2. PICK e \in Elem, q1 \in Seq(Elem) :
            FirstRest(q, e, q1, k) /\ Joined(q) = Piece(e) \o Joined(q1)
      BY <2>1, JoinedFirst
    <3>3. PICK d \in Elem, l1 \in Seq(Elem) :
            FirstRest(l, d, l1, n) /\ Joined(l) = Piece(d) \o Joined(l1)
      BY <3>1, JoinedFirst
    <3>4. isPathPrefix(Joined(q1), Joined(l1)) <=> Under(q1, l1)
      BY <1>2, <3>2 DEF FirstRest
    <3>5. Under(q, l) <=> /\ e.name = d.name
                          /\ \/ e.key = d.key /\ Under(q1, l1)
                             \/ e.key = NoKey /\ q1 = <<>>
      <4>1. FirstRest(q, e, q1, k) /\ FirstRest(l, d, l1, n)
        BY <3>2, <3>3
      <4>. QED
        BY <4>1, UnderFirst
    <3>. DEFINE y == Joined(q1)
                z == Joined(l1)
    <3>6. /\ y \in Seq(Token) /\ z \in Seq(Token) /\ Slashed(y) /\ Slashed(z)
          /\ y = <<>> <=> q1 = <<>>
      BY JoinedType, JoinedSlashed
    <3>7. isPathPrefix(Piece(e) \o y, Piece(d) \o z)
            <=> /\ e.name = d.name
                /\ \/ e.key = d.key /\ isPathPrefix(y, z)
                   \/ e.key = NoKey /\ y = <<>>
      <4>. HIDE DEF y, z
      <4>. QED
        BY <3>6, PieceBegins
    <3>. QED
      BY <3>2, <3>3, <3>4, <3>5, <3>6, <3>7
  <2>. QED
    BY <2>3, <2>4
<1>. HIDE DEF Good
<1>3. \A k \in Nat : k \in Good
  BY <1>1, <1>2, AllNat
<1>. QED
  BY <1>3 DEF Good
-----------------------------------------------------------------------------
(* What a query selects                                                      *)

\* Predicates in two texts.
LEMMA NoKeyConcat ==
  ASSUME NEW a \in Seq(Token), NEW b \in Seq(Token), HasNoKey(a), HasNoKey(b)
  PROVE  HasNoKey(a \o b)
<1>1. PICK m \in Nat, n \in Nat : m = Len(a) /\ n = Len(b)
  OBVIOUS
<1>. DEFINE c == a \o b
<1>2. /\ c \in Seq(Token) /\ Len(c) = m + n
      /\ \A i \in 1..m : c[i] = a[i]
      /\ \A i \in 1..n : c[m + i] = b[i]
  BY <1>1, ConcatAt
<1>. HIDE DEF c
<1>3. ASSUME NEW i \in 1..(m + n) PROVE ~IsPred(c[i])
  <2>1. CASE i <= m
    <3>1. i \in 1..m /\ i \in DOMAIN a
      BY <1>1, <2>1
    <3>. QED
      BY <1>2, <3>1 DEF HasNoKey
  <2>2. CASE ~(i <= m)
    <3>1. i - m \in 1..n /\ i - m \in DOMAIN b /\ m + (i - m) = i
      BY <1>1, <2>2
    <3>2. c[m + (i - m)] = b[i - m]
      BY <1>2, <3>1
    <3>. QED
      BY <3>1, <3>2 DEF HasNoKey
  <2>. QED
    BY <2>1, <2>2
<1>4. DOMAIN c = 1..(m + n)
  BY <1>2
<1>. QED
  BY <1>3, <1>4 DEF HasNoKey, c

\* All predicates are left out.
LEMMA StripKeysNone ==
  \A t \in Seq(Token) : HasNoKey(stripKeys(t))
<1>. DEFINE Good == {k \in Nat : \A t \in Seq(Token) : Len(t) = k => HasNoKey(stripKeys(t))}
<1>0. HasNoKey(<<>>)
  BY DEF HasNoKey
<1>1. 0 \in Good
  <2>1. ASSUME NEW t \in Seq(Token), Len(t) = 0 PROVE HasNoKey(stripKeys(t))
    <3>1. t = <<>>
      BY <2>1, EmptySeq
    <3>. QED
      BY <1>0, <3>1, StripKeysOne
  <2>. QED
    BY <2>1
<1>2. ASSUME NEW k \in Nat, k \in Good PROVE k + 1 \in Good
  <2>1. SUFFICES ASSUME NEW t \in Seq(Token), Len(t) = k + 1 PROVE HasNoKey(stripKeys(t))
    OBVIOUS
  <2>2. PICK r \in Seq(Token), e \in Token : t = Append(r, e)
    <3>1. t # <<>>
      BY <2>1
    <3>. QED
      BY <3>1, SequenceEmptyOrAppend
  <2>3. Len(r) = k /\ t = r \o <<e>> /\ <<e>> \in Seq(Token)
    BY <2>1, <2>2
  <2>. DEFINE a == stripKeys(r)
              b == stripKeys(<<e>>)
  <2>4. HasNoKey(a)
    BY <1>2, <2>3
  <2>5. HasNoKey(b)
    <3>1. b = IF IsPred(e) THEN <<>> ELSE <<e>>
      BY StripKeysOne
    <3>2. ~IsPred(e) => HasNoKey(<<e>>)
      BY DEF HasNoKey
    <3>. QED
      BY <1>0, <3>1, <3>2
  <2>6. a \in Seq(Token) /\ b \in Seq(Token)
    BY <2>3, StripKeysType
  <2>7. stripKeys(t) = a \o b
    BY <2>3, StripKeysConcat
  <2>. HIDE DEF a, b
  <2>. QED
    BY <2>4, <2>5, <2>6, <2>7, NoKeyConcat
<1>. HIDE DEF Good
<1>3. \A k \in Nat : k \in Good
  BY <1>1, <1>2, AllNat
<1>. QED
  BY <1>3 DEF Good

\* A text begins itself.
LEMMA UnderItself ==
  ASSUME NEW t \in Seq(Token)
  PROVE  isPathPrefix(t, t)
<1>1. Begins(t, t, Len(t), Len(t)) /\ Len(t) \in Nat
  BY DEF Begins
<1>. QED
  BY <1>1, BeginsIs

\* A text has no predicate exactly if its elements have no key.
LEMMA NoKeyIsKeyless ==
  ASSUME NEW q \in Seq(Elem)
  PROVE  HasNoKey(Joined(q)) <=> q = Keyless(q)
<1>1. Joined(q) \in Seq(Token) /\ Joined(Keyless(q)) \in Seq(Token) /\ Keyless(q) \in Seq(Elem)
  BY JoinedType, KeylessIs
<1>2. stripKeys(Joined(q)) = Joined(Keyless(q))
  BY StripKeysJoined
<1>3. ASSUME q = Keyless(q) PROVE HasNoKey(Joined(q))
  <2>1. HasNoKey(stripKeys(Joined(q)))
    BY <1>1, StripKeysNone
  <2>. QED
    BY <1>2, <1>3, <2>1
<1>4. ASSUME HasNoKey(Joined(q)) PROVE q = Keyless(q)
  <2>1. Joined(q) = Joined(Keyless(q))
    BY <1>1, <1>2, <1>4, StripKeysPlain
  <2>2. isPathPrefix(Joined(q), Joined(Keyless(q)))
    BY <1>1, <2>1, UnderItself
  <2>3. Under(q, Keyless(q))
    BY <1>1, <2>2, PrefixIsUnder
  <2>4. ASSUME NEW i \in 1..Len(q) PROVE q[i] = Bare(q[i])
    <3>1. i \in DOMAIN q /\ q[i] \in Elem /\ Keyless(q)[i] = Bare(q[i]) /\ Bare(q[i]).key = NoKey
      BY KeylessIs, BareType
    <3>2. q[i].key = NoKey
      BY <2>3, <3>1 DEF Under
    <3>. DEFINE e == q[i]
    <3>3. e \in Elem /\ e.key = NoKey
      BY <3>1, <3>2
    <3>. HIDE DEF e
    <3>4. e = Bare(e)
      BY <3>3 DEF Elem, Bare
    <3>. QED
      BY <3>4 DEF e
  <2>5. Keyless(q) = [i \in 1..Len(q) |-> Bare(q[i])] /\ q = [i \in 1..Len(q) |-> q[i]]
    BY DEF Keyless, Bare
  <2>. QED
    BY <2>4, <2>5
<1>. QED
  BY <1>3, <1>4

\* The filter of the stores, on texts, selects what lies at or below the query,
\* element by element.
LEMMA SelectsIsBelow ==
  ASSUME NEW q \in Seq(Elem), NEW l \in Seq(Elem)
  PROVE  selects(Joined(q), Joined(l)) <=> Below(q, l)
<1>1. Keyless(l) \in Seq(Elem) /\ stripKeys(Joined(l)) = Joined(Keyless(l))
  BY KeylessIs, StripKeysJoined
<1>2. /\ isPathPrefix(Joined(q), Joined(l)) <=> Under(q, l)
      /\ isPathPrefix(Joined(q), Joined(Keyless(l))) <=> Under(q, Keyless(l))
  BY <1>1, PrefixIsUnder
<1>3. HasNoKey(Joined(q)) <=> q = Keyless(q)
  BY NoKeyIsKeyless
<1>. QED
  BY <1>1, <1>2, <1>3 DEF selects, Below, HasNoKey
-----------------------------------------------------------------------------
(* From a text back to elements                                              *)

\* The element of a part of a text between slashes.
ElemOf(part) ==
  LET at   == SelectInSeq(part, IsPred)
      name == IF at = 0 THEN part ELSE SubSeq(part, 1, at - 1)
  IN  [name |-> [j \in DOMAIN name |-> name[j][2]],
       key  |-> IF at = 0 THEN NoKey ELSE part[at][2]]

\* The part of text from i on goes to e.
PartEnds(text, i, e) ==
  /\ e \in Nat /\ i <= e + 1 /\ e <= Len(text)
  /\ \A j \in i..e : text[j] # Slash
  /\ e = Len(text) \/ text[e + 1] = Slash

\* A text has a next slash or ends.
LEMMA PartExists ==
  ASSUME NEW t \in Seq(Token), NEW i \in 1..Len(t)
  PROVE  \E e : PartEnds(t, i, e)
<1>. DEFINE n == Len(t)
            I == {j \in i..n : t[j] = Slash}
<1>1. n \in Nat /\ i \in Nat /\ 1 <= i /\ i <= n
  OBVIOUS
<1>2. CASE I = {}
  <2>1. \A j \in i..n : t[j] # Slash
    BY <1>2
  <2>2. PartEnds(t, i, n)
    BY <1>1, <2>1 DEF PartEnds
  <2>. QED
    BY <2>2
<1>3. CASE I # {}
  <2>. HIDE DEF n
  <2>1. I \in SUBSET Nat
    BY <1>1
  <2>2. PICK x \in I : \A y \in I : x <= y
    <3>. HIDE DEF I
    <3>. QED
      BY <1>3, <2>1, LeastExists
  <2>3. x \in Nat /\ i <= x /\ x <= n /\ t[x] = Slash /\ x - 1 \in Nat /\ (x - 1) + 1 = x
    BY <1>1
  <2>4. ASSUME NEW j \in i..(x - 1) PROVE t[j] # Slash
    <3>1. j \in i..n /\ ~(x <= j)
      BY <1>1, <2>3
    <3>. QED
      BY <2>2, <3>1
  <2>5. PartEnds(t, i, x - 1)
    BY <1>1, <2>3, <2>4 DEF PartEnds, n
  <2>. QED
    BY <2>5
<1>. QED
  BY <1>2, <1>3

\* CHOOSE finds the least number.
LEMMA LeastIs ==
  ASSUME NEW I \in SUBSET Nat, NEW x \in I, \A y \in I : x <= y
  PROVE  (CHOOSE z \in I : \A y \in I : z <= y) = x
<1>. DEFINE c == CHOOSE z \in I : \A y \in I : z <= y
<1>1. c \in I /\ \A y \in I : c <= y
  OBVIOUS
<1>. HIDE DEF c
<1>2. c <= x /\ x <= c /\ c \in Nat /\ x \in Nat
  BY <1>1
<1>3. c = x
  BY <1>2
<1>. QED
  BY <1>3 DEF c

\* The element read at a position is that of its part.
LEMMA ElemAtIs ==
  ASSUME NEW t \in Seq(Token), NEW i \in 1..Len(t), NEW e, PartEnds(t, i, e)
  PROVE  ElemAt(t, i) = ElemOf(SubSeq(t, i, e))
<1>. DEFINE n == Len(t)
            I == {j \in i..n : t[j] = Slash}
            next == IF I # {} THEN CHOOSE x \in I : \A y \in I : x <= y ELSE 0
<1>1. n \in Nat /\ i \in Nat /\ 1 <= i /\ i <= n /\ e \in Nat /\ i <= e + 1 /\ e <= n
  BY DEF PartEnds
<1>2. e = IF next = 0 THEN n ELSE next - 1
  <2>1. CASE e = n
    <3>1. I = {}
      BY <2>1 DEF PartEnds
    <3>. QED
      BY <2>1, <3>1
  <2>2. CASE e # n
    <3>1. e + 1 \in I
      BY <1>1, <2>2 DEF PartEnds
    <3>2. \A y \in I : e + 1 <= y
      BY <1>1 DEF PartEnds
    <3>3. I \in SUBSET Nat
      BY <1>1
    <3>4. (CHOOSE x \in I : \A y \in I : x <= y) = e + 1
      <4>. HIDE DEF I
      <4>. QED
        BY <3>1, <3>2, <3>3, LeastIs
    <3>5. next = e + 1
      BY <3>1, <3>4
    <3>. HIDE DEF next
    <3>. QED
      BY <1>1, <3>5
  <2>. QED
    BY <2>1, <2>2
<1>3. SelectInSubSeq(t, i, Len(t), LAMBDA u : u = Slash) = next
  BY DEF SelectInSubSeq, Min
<1>. HIDE DEF next
<1>. QED
  BY <1>2, <1>3 DEF ElemAt, ElemOf

\* What a text has at position i.
ParsedAt(text, i) ==
  IF text[i] # Slash /\ (i = 1 \/ text[i - 1] = Slash) THEN <<ElemAt(text, i)>> ELSE <<>>

Parsed(text) == [i \in DOMAIN text |-> ParsedAt(text, i)]

\* xpath_to_gnmi_path, position by position.
LEMMA ParseIs ==
  ASSUME NEW text
  PROVE  xpath_to_gnmi_path(text) = FlattenSeq(Parsed(text))
BY DEF xpath_to_gnmi_path, Parsed, ParsedAt

\* What is read at a position.
LEMMA ParsedType ==
  ASSUME NEW t \in Seq(Token), NEW S, \A i \in 1..Len(t) : ElemAt(t, i) \in S
  PROVE  Parsed(t) \in Seq(Seq(S)) /\ Len(Parsed(t)) = Len(t)
<1>. DEFINE T == Seq(S)
            f == Parsed(t)
            n == Len(t)
<1>1. \A i \in 1..n : ParsedAt(t, i) \in T
  BY EmptySeq DEF ParsedAt
<1>2. n \in Nat /\ DOMAIN t = 1..n
  OBVIOUS
<1>. HIDE DEF T, n
<1>3. f \in [1..n -> T]
  BY <1>1, <1>2 DEF Parsed
<1>. HIDE DEF f
<1>4. f \in Seq(T) /\ Len(f) = n
  BY <1>2, <1>3
<1>. QED
  BY <1>4 DEF f, T, n

\* A text can be cut at any slash.
LEMMA ParsedConcat ==
  ASSUME NEW a \in Seq(Token), NEW b \in Seq(Token), Slashed(b)
  PROVE  xpath_to_gnmi_path(a \o b) = xpath_to_gnmi_path(a) \o xpath_to_gnmi_path(b)
<1>. DEFINE c == a \o b
            S == UNION {{ElemAt(t, i) : i \in Nat} : t \in {a, b, c}}
            T == Seq(S)
            p == Parsed(a)
            q == Parsed(b)
            r == Parsed(c)
<1>1. PICK m \in Nat, n \in Nat : m = Len(a) /\ n = Len(b)
  OBVIOUS
<1>2. /\ c \in Seq(Token) /\ Len(c) = m + n
      /\ \A i \in 1..m : c[i] = a[i]
      /\ \A i \in 1..n : c[m + i] = b[i]
  BY <1>1, ConcatAt
<1>3. /\ p \in Seq(T) /\ q \in Seq(T) /\ r \in Seq(T)
      /\ Len(p) = m /\ Len(q) = n /\ Len(r) = m + n
  <2>1. ASSUME NEW t \in {a, b, c}, NEW i \in 1..Len(t) PROVE ElemAt(t, i) \in S
    <3>1. Len(t) \in Nat
      BY <1>2
    <3>2. i \in Nat
      BY <3>1
    <3>. HIDE DEF c
    <3>. QED
      BY <3>2
  <2>. HIDE DEF S, c
  <2>. QED
    BY <1>1, <1>2, <2>1, ParsedType
<1>. HIDE DEF c
<1>4. n # 0 => b[1] = Slash
  BY <1>1 DEF Slashed
<1>5. ASSUME NEW i \in 1..m PROVE r[i] = p[i]
  <2>1. i \in 1..Len(a) /\ i \in 1..Len(c) /\ c[i] = a[i]
    BY <1>1, <1>2
  <2>2. PICK e : PartEnds(a, i, e)
    BY <2>1, PartExists
  <2>3. e \in Nat /\ i <= e + 1 /\ e <= m /\ (\A j \in i..e : a[j] # Slash)
        /\ (e = m \/ a[e + 1] = Slash)
    BY <1>1, <2>2 DEF PartEnds
  <2>4. \A j \in 1..e : c[j] = a[j]
    BY <1>2, <2>3
  <2>5. PartEnds(c, i, e)
    <3>1. e <= Len(c)
      BY <1>2, <2>3
    <3>2. \A j \in i..e : c[j] # Slash
      BY <2>3, <2>4
    <3>3. e = Len(c) \/ c[e + 1] = Slash
      <4>1. CASE e = m /\ n = 0
        BY <1>2, <4>1
      <4>2. CASE e = m /\ n # 0
        <5>1. 1 \in 1..n
          BY <4>2
        <5>2. c[m + 1] = b[1]
          BY <1>2, <5>1
        <5>. QED
          BY <1>4, <4>2, <5>2
      <4>3. CASE e # m
        <5>1. e + 1 \in 1..m
          BY <2>3, <4>3
        <5>. QED
          BY <1>2, <2>3, <4>3, <5>1
      <4>. QED
        BY <4>1, <4>2, <4>3
    <3>. QED
      BY <2>3, <3>1, <3>2, <3>3 DEF PartEnds
  <2>6. SubSeq(c, i, e) = SubSeq(a, i, e)
    <3>1. \A k \in 1..(e - i + 1) : i + k - 1 \in 1..e
      BY <2>3
    <3>2. SubSeq(c, i, e) = [k \in 1..(e - i + 1) |-> c[i + k - 1]]
      BY <2>3
    <3>3. SubSeq(a, i, e) = [k \in 1..(e - i + 1) |-> a[i + k - 1]]
      BY <2>3
    <3>. QED
      BY <2>4, <3>1, <3>2, <3>3
  <2>7. ElemAt(c, i) = ElemAt(a, i)
    <3>1. ElemAt(c, i) = ElemOf(SubSeq(c, i, e))
      BY <1>2, <2>1, <2>5, ElemAtIs
    <3>2. ElemAt(a, i) = ElemOf(SubSeq(a, i, e))
      BY <2>1, <2>2, ElemAtIs
    <3>. QED
      BY <2>6, <3>1, <3>2
  <2>8. i # 1 => c[i - 1] = a[i - 1]
    <3>1. i # 1 => i - 1 \in 1..m
      OBVIOUS
    <3>. QED
      BY <1>2, <3>1
  <2>9. ParsedAt(c, i) = ParsedAt(a, i)
    BY <2>1, <2>7, <2>8 DEF ParsedAt
  <2>10. i \in DOMAIN c /\ i \in DOMAIN a
    BY <1>1, <1>2
  <2>. QED
    BY <2>9, <2>10 DEF Parsed
<1>6. ASSUME NEW i \in 1..n PROVE r[m + i] = q[i]
  <2>1. i \in 1..Len(b) /\ m + i \in 1..Len(c) /\ c[m + i] = b[i]
    BY <1>1, <1>2
  <2>2. PICK e : PartEnds(b, i, e)
    BY <2>1, PartExists
  <2>3. e \in Nat /\ i <= e + 1 /\ e <= n /\ (\A j \in i..e : b[j] # Slash)
        /\ (e = n \/ b[e + 1] = Slash)
    BY <1>1, <2>2 DEF PartEnds
  <2>4. \A j \in 1..e : c[m + j] = b[j]
    BY <1>2, <2>3
  <2>5. PartEnds(c, m + i, m + e)
    <3>1. m + e \in Nat /\ m + i <= m + e + 1 /\ m + e <= Len(c)
      BY <1>2, <2>3
    <3>2. ASSUME NEW j \in (m + i)..(m + e) PROVE c[j] # Slash
      <4>1. j - m \in i..e /\ j - m \in 1..e /\ m + (j - m) = j
        BY <2>3
      <4>2. c[m + (j - m)] = b[j - m]
        BY <2>4, <4>1
      <4>. QED
        BY <2>3, <4>1, <4>2
    <3>3. m + e = Len(c) \/ c[m + e + 1] = Slash
      <4>1. CASE e = n
        BY <1>2, <4>1
      <4>2. CASE e # n
        <5>1. e + 1 \in 1..n /\ m + (e + 1) = m + e + 1
          BY <2>3, <4>2
        <5>2. c[m + (e + 1)] = b[e + 1]
          BY <1>2, <5>1
        <5>. QED
          BY <2>3, <4>2, <5>1, <5>2
      <4>. QED
        BY <4>1, <4>2
    <3>. QED
      BY <3>1, <3>2, <3>3 DEF PartEnds
  <2>6. SubSeq(c, m + i, m + e) = SubSeq(b, i, e)
    <3>1. \A k \in 1..(e - i + 1) : i + k - 1 \in 1..e /\ m + i + k - 1 = m + (i + k - 1)
      BY <2>3
    <3>2. SubSeq(c, m + i, m + e) = [k \in 1..(m + e - (m + i) + 1) |-> c[m + i + k - 1]]
      BY <2>3
    <3>3. SubSeq(b, i, e) = [k \in 1..(e - i + 1) |-> b[i + k - 1]]
      BY <2>3
    <3>4. m + e - (m + i) + 1 = e - i + 1
      BY <2>3
    <3>5. \A k \in 1..(e - i + 1) : c[m + i + k - 1] = b[i + k - 1]
      BY <2>4, <3>1
    <3>6. [k \in 1..(e - i + 1) |-> c[m + i + k - 1]] = [k \in 1..(e - i + 1) |-> b[i + k - 1]]
      BY <3>5
    <3>7. SubSeq(c, m + i, m + e) = [k \in 1..(e - i + 1) |-> c[m + i + k - 1]]
      BY <3>2, <3>4
    <3>. QED
      BY <3>3, <3>6, <3>7
  <2>7. ElemAt(c, m + i) = ElemAt(b, i)
    <3>1. ElemAt(c, m + i) = ElemOf(SubSeq(c, m + i, m + e))
      BY <1>2, <2>1, <2>5, ElemAtIs
    <3>2. ElemAt(b, i) = ElemOf(SubSeq(b, i, e))
      BY <2>1, <2>2, ElemAtIs
    <3>. QED
      BY <2>6, <3>1, <3>2
  <2>8. ParsedAt(c, m + i) = ParsedAt(b, i)
    <3>1. CASE i = 1
      <4>1. b[i] = Slash
        BY <1>4, <3>1
      <4>. QED
        BY <2>1, <4>1 DEF ParsedAt
    <3>2. CASE i # 1
      <4>1. i - 1 \in 1..n /\ m + i # 1 /\ m + (i - 1) = m + i - 1
        BY <3>2
      <4>2. c[m + (i - 1)] = b[i - 1]
        BY <1>2, <4>1
      <4>. QED
        BY <2>1, <2>7, <3>2, <4>1, <4>2 DEF ParsedAt
    <3>. QED
      BY <3>1, <3>2
  <2>9. m + i \in DOMAIN c /\ i \in DOMAIN b
    BY <1>1, <1>2
  <2>. QED
    BY <2>8, <2>9 DEF Parsed
<1>. HIDE DEF p, q, r
<1>7. r = p \o q
  <2>. HIDE DEF T
  <2>1. IsConcat(T, r, p, q)
    BY <1>3, <1>5, <1>6 DEF IsConcat
  <2>. QED
    BY <1>3, <2>1, ConcatIs
<1>8. FlattenSeq(p \o q) = FlattenSeq(p) \o FlattenSeq(q)
  <2>. HIDE DEF S
  <2>. QED
    BY <1>3, FlattenConcat
<1>. QED
  BY <1>7, <1>8, ParseIs DEF p, q, r, c

\* Parts of which at most one is not empty.
LEMMA FlattenPoint ==
  ASSUME NEW S, NEW p \in Seq(S), NEW j \in Nat, j # 0
  PROVE  \A parts \in Seq(Seq(S)) :
           (\A i \in 1..Len(parts) : parts[i] = IF i = j THEN p ELSE <<>>)
             => FlattenSeq(parts) = IF j <= Len(parts) THEN p ELSE <<>>
<1>. DEFINE T == Seq(S)
            Point(parts, k) == \A i \in 1..k : parts[i] = IF i = j THEN p ELSE <<>>
            Good == {k \in Nat : \A parts \in Seq(T) : Len(parts) = k /\ Point(parts, k)
                       => FlattenSeq(parts) = IF j <= k THEN p ELSE <<>>}
<1>1. 0 \in Good
  <2>1. SUFFICES ASSUME NEW parts \in Seq(T), Len(parts) = 0 PROVE FlattenSeq(parts) = <<>>
    OBVIOUS
  <2>2. parts = <<>>
    BY <2>1, EmptySeq
  <2>. QED
    BY <2>2, FlattenAppend
<1>2. ASSUME NEW k \in Nat, k \in Good PROVE k + 1 \in Good
  <2>1. SUFFICES ASSUME NEW parts \in Seq(T), Len(parts) = k + 1, Point(parts, k + 1)
                 PROVE  FlattenSeq(parts) = IF j <= k + 1 THEN p ELSE <<>>
    OBVIOUS
  <2>2. PICK r \in Seq(T), e \in T : parts = Append(r, e)
    <3>1. parts # <<>>
      BY <2>1
    <3>. HIDE DEF T
    <3>. QED
      BY <3>1, SequenceEmptyOrAppend
  <2>3. Len(r) = k /\ parts[k + 1] = e /\ \A i \in 1..k : parts[i] = r[i]
    BY <2>1, <2>2
  <2>4. e = IF k + 1 = j THEN p ELSE <<>>
    BY <2>1, <2>3
  <2>5. Point(r, k)
    <3>1. ASSUME NEW i \in 1..k PROVE r[i] = IF i = j THEN p ELSE <<>>
      <4>1. i \in 1..(k + 1)
        OBVIOUS
      <4>. QED
        BY <2>1, <2>3, <4>1
    <3>. QED
      BY <3>1
  <2>6. FlattenSeq(r) = IF j <= k THEN p ELSE <<>>
    BY <1>2, <2>3, <2>5
  <2>7. FlattenSeq(parts) = FlattenSeq(r) \o e
    BY <2>2, FlattenAppend
  <2>8. p \o <<>> = p /\ <<>> \o p = p /\ <<>> \o <<>> = <<>>
    BY ConcatEmptySeq, EmptySeq
  <2>9. CASE j <= k
    BY <2>4, <2>6, <2>7, <2>8, <2>9
  <2>10. CASE j = k + 1
    BY <2>4, <2>6, <2>7, <2>8, <2>10
  <2>11. CASE ~(j <= k + 1)
    BY <2>4, <2>6, <2>7, <2>8, <2>11
  <2>. QED
    BY <2>9, <2>10, <2>11
<1>. HIDE DEF Good
<1>3. \A k \in Nat : k \in Good
  BY <1>1, <1>2, AllNat
<1>. QED
  BY <1>3 DEF Good

\* The k tokens of a part are the n letters of the name of e, and its key.
Spells(part, e, n, k) ==
  /\ n = Len(e.name) /\ k \in Nat /\ (e.key = NoKey => k = n) /\ (e.key # NoKey => k = n + 1)
  /\ part \in Seq(Token) /\ Len(part) = k
  /\ \A i \in 1..n : part[i] = Letter(e.name[i])
  /\ e.key # NoKey => part[n + 1] = Pred(e.key)

\* The element that a part spells.
LEMMA ElemOfPiece ==
  ASSUME NEW e \in Elem, NEW part, NEW n, NEW k, Spells(part, e, n, k)
  PROVE  ElemOf(part) = e
<1>. DEFINE I == {i \in 1..k : IsPred(part[i])}
            at == IF I # {} THEN CHOOSE x \in I : \A y \in I : x <= y ELSE 0
            name == IF at = 0 THEN part ELSE SubSeq(part, 1, at - 1)
<1>1. /\ n \in Nat /\ \A i \in 1..n : e.name[i] \in Alphabet
      /\ e.name \in Seq(Alphabet) /\ DOMAIN e.name = 1..n
  BY DEF Elem, Spells
<1>0. k \in Nat /\ (e.key = NoKey => k = n) /\ (e.key # NoKey => k = n + 1)
  BY <1>1 DEF Spells
<1>2. SelectInSeq(part, IsPred) = at
  <2>1. Len(part) = k
    BY DEF Spells
  <2>. QED
    BY <2>1 DEF SelectInSeq, Min
<1>3. ASSUME NEW i \in 1..n PROVE ~IsPred(part[i]) /\ part[i][2] = e.name[i]
  <2>1. part[i] = Letter(e.name[i])
    BY DEF Spells
  <2>. QED
    BY <1>1, <2>1, Tokens
<1>4. at = IF e.key = NoKey THEN 0 ELSE n + 1
  <2>1. CASE e.key = NoKey
    <3>1. I = {}
      BY <1>0, <1>3, <2>1
    <3>. QED
      BY <2>1, <3>1
  <2>2. CASE e.key # NoKey
    <3>1. k = n + 1 /\ IsPred(part[n + 1])
      <4>1. e.key \in Key \cup BadKey
        BY <2>2 DEF Elem
      <4>2. part[n + 1] = Pred(e.key)
        BY <2>2 DEF Spells
      <4>. QED
        BY <1>0, <2>2, <4>1, <4>2, Tokens
    <3>2. n + 1 \in I /\ I \in SUBSET Nat
      BY <1>1, <3>1
    <3>3. \A y \in I : n + 1 <= y
      BY <1>1, <1>3, <3>1
    <3>4. (CHOOSE x \in I : \A y \in I : x <= y) = n + 1
      <4>. HIDE DEF I
      <4>. QED
        BY <3>2, <3>3, LeastIs
    <3>. QED
      BY <2>2, <3>2, <3>4
  <2>. QED
    BY <2>1, <2>2
<1>. HIDE DEF at
<1>5. name = [i \in 1..n |-> part[i]]
  <2>1. CASE e.key = NoKey
    <3>1. k = n /\ at = 0
      BY <1>0, <1>4, <2>1
    <3>2. part = [i \in 1..n |-> part[i]]
      <4>1. part \in Seq(Token) /\ Len(part) = n
        BY <3>1 DEF Spells
      <4>. QED
        BY <4>1
    <3>. QED
      BY <3>1, <3>2
  <2>2. CASE e.key # NoKey
    <3>1. at = n + 1 /\ at # 0 /\ at - 1 = n
      BY <1>1, <1>4, <2>2
    <3>2. SubSeq(part, 1, n) = [i \in 1..n |-> part[i]]
      BY <1>1
    <3>. QED
      BY <3>1, <3>2
  <2>. QED
    BY <2>1, <2>2
<1>. HIDE DEF name
<1>6. [j \in DOMAIN name |-> name[j][2]] = e.name
  <2>1. DOMAIN name = 1..n /\ \A j \in 1..n : name[j][2] = e.name[j]
    BY <1>3, <1>5
  <2>2. e.name = [j \in 1..n |-> e.name[j]]
    BY <1>1
  <2>. QED
    BY <2>1, <2>2
<1>7. (IF at = 0 THEN NoKey ELSE part[at][2]) = e.key
  <2>1. CASE e.key = NoKey
    BY <1>4, <2>1
  <2>2. CASE e.key # NoKey
    <3>1. at = n + 1 /\ at # 0
      BY <1>1, <1>4, <2>2
    <3>2. Pred(e.key)[2] = e.key
      BY DEF Pred
    <3>3. part[n + 1] = Pred(e.key)
      BY <2>2 DEF Spells
    <3>. QED
      BY <2>2, <3>1, <3>2, <3>3
  <2>. QED
    BY <2>1, <2>2
<1>8. e = [name |-> e.name, key |-> e.key]
  BY DEF Elem
<1>. QED
  BY <1>2, <1>6, <1>7, <1>8 DEF ElemOf, name

\* The element read from a piece is the one it was made of.
LEMMA ParsePiece ==
  ASSUME NEW e \in Elem, e.name # <<>>
  PROVE  xpath_to_gnmi_path(Piece(e)) = <<e>>
<1>. DEFINE t == Piece(e)
            n == Len(e.name)
            d == IF e.key = NoKey THEN 0 ELSE 1
<1>1. n \in Nat /\ n # 0 /\ d \in Nat /\ \A i \in 1..n : e.name[i] \in Alphabet
  BY DEF Elem
<1>2. /\ t \in Seq(Token) /\ Len(t) = 1 + n + d /\ t[1] = Slash
      /\ \A i \in 1..n : t[i + 1] = Letter(e.name[i])
      /\ e.key # NoKey => t[n + 2] = Pred(e.key)
  BY PieceType
<1>. HIDE DEF t, n
<1>3. PICK L \in Nat : L = 1 + n + d
  BY <1>1
<1>4. \A i \in 2..L : t[i] # Slash
  <2>1. ASSUME NEW i \in 2..L PROVE t[i] # Slash
    <3>1. CASE i <= n + 1
      <4>1. i - 1 \in 1..n /\ (i - 1) + 1 = i
        BY <1>1, <3>1
      <4>2. t[(i - 1) + 1] = Letter(e.name[i - 1]) /\ e.name[i - 1] \in Alphabet
        BY <1>1, <1>2, <4>1
      <4>. QED
        BY <4>1, <4>2, Tokens
    <3>2. CASE ~(i <= n + 1)
      <4>1. i = n + 2 /\ d = 1
        BY <1>1, <1>3, <3>2
      <4>2. e.key # NoKey
        BY <4>1
      <4>3. Pred(e.key) # Slash
        BY <4>2, Tokens DEF Elem
      <4>. QED
        BY <1>2, <4>1, <4>2, <4>3
    <3>. QED
      BY <3>1, <3>2
  <2>. QED
    BY <2>1
<1>5. ElemAt(t, 2) = e
  <2>1. 2 \in 1..Len(t) /\ L = Len(t)
    BY <1>1, <1>2, <1>3
  <2>2. PartEnds(t, 2, L)
    <3>1. L \in Nat /\ 2 <= L + 1 /\ L <= Len(t)
      BY <2>1
    <3>. QED
      BY <1>4, <2>1, <3>1 DEF PartEnds
  <2>. DEFINE part == SubSeq(t, 2, L)
  <2>3. ElemAt(t, 2) = ElemOf(part)
    BY <1>2, <2>1, <2>2, ElemAtIs
  <2>4. PICK k \in Nat : k = n + d /\ L - 2 + 1 = k
    BY <1>1, <1>3
  <2>5. part = [i \in 1..k |-> t[i + 1]]
    <3>1. part = [i \in 1..(L - 2 + 1) |-> t[2 + i - 1]]
      OBVIOUS
    <3>2. \A i \in 1..k : 2 + i - 1 = i + 1
      OBVIOUS
    <3>. QED
      BY <2>4, <3>1, <3>2
  <2>. HIDE DEF part
  <2>6. part \in Seq(Token) /\ Len(part) = k
    <3>1. \A i \in 1..k : t[i + 1] \in Token
      <4>1. \A i \in 1..k : i + 1 \in 1..Len(t)
        BY <1>1, <1>2, <2>4
      <4>. QED
        BY <1>2, <4>1
    <3>2. part \in [1..k -> Token]
      BY <2>5, <3>1
    <3>. QED
      BY <3>2
  <2>7. \A i \in 1..n : part[i] = Letter(e.name[i])
    <3>1. \A i \in 1..n : i \in 1..k
      BY <1>1, <2>4
    <3>. QED
      BY <1>2, <2>5, <3>1
  <2>8. e.key # NoKey => part[n + 1] = Pred(e.key)
    <3>1. e.key # NoKey => n + 1 \in 1..k /\ n + 1 + 1 = n + 2
      BY <1>1, <2>4
    <3>. QED
      BY <1>2, <2>5, <3>1
  <2>9. Spells(part, e, n, k)
    <3>1. (e.key = NoKey => k = n) /\ (e.key # NoKey => k = n + 1)
      BY <1>1, <2>4
    <3>2. n = Len(e.name)
      BY DEF n
    <3>. QED
      BY <2>6, <2>7, <2>8, <3>1, <3>2 DEF Spells
  <2>10. ElemOf(part) = e
    BY <2>9, ElemOfPiece
  <2>. QED
    BY <2>3, <2>10
<1>. DEFINE S == {ElemAt(t, i) : i \in Nat}
            parts == Parsed(t)
<1>6. parts \in Seq(Seq(S)) /\ Len(parts) = L
  <2>1. \A i \in 1..Len(t) : ElemAt(t, i) \in S
    BY <1>2
  <2>. HIDE DEF S
  <2>. QED
    BY <1>2, <1>3, <2>1, ParsedType
<1>7. \A i \in 1..L : parts[i] = IF i = 2 THEN <<e>> ELSE <<>>
  <2>1. ASSUME NEW i \in 1..L PROVE ParsedAt(t, i) = IF i = 2 THEN <<e>> ELSE <<>>
    <3>1. CASE i = 1
      BY <1>2, <3>1 DEF ParsedAt
    <3>2. CASE i = 2
      <4>1. 2 \in 2..L /\ 2 - 1 = 1
        BY <1>1, <1>3
      <4>2. t[2] # Slash /\ t[2 - 1] = Slash
        BY <1>2, <1>4, <4>1
      <4>. QED
        BY <1>5, <3>2, <4>2 DEF ParsedAt
    <3>3. CASE i # 1 /\ i # 2
      <4>1. i - 1 \in 2..L
        BY <3>3
      <4>2. t[i - 1] # Slash
        BY <1>4, <4>1
      <4>. QED
        BY <3>3, <4>2 DEF ParsedAt
    <3>. QED
      BY <3>1, <3>2, <3>3
  <2>2. DOMAIN t = 1..L
    BY <1>2, <1>3
  <2>. QED
    BY <2>1, <2>2 DEF Parsed
<1>8. <<e>> \in Seq(S)
  BY <1>5
<1>. DEFINE o == <<e>>
            j == 2
<1>. HIDE DEF S, parts, o, j
<1>9. FlattenSeq(parts) = o
  <2>1. j \in Nat /\ j # 0 /\ j <= L /\ o \in Seq(S)
    BY <1>1, <1>3, <1>8 DEF j, o
  <2>2. \A i \in 1..Len(parts) : parts[i] = IF i = j THEN o ELSE <<>>
    BY <1>6, <1>7 DEF j, o
  <2>3. FlattenSeq(parts) = IF j <= Len(parts) THEN o ELSE <<>>
    BY <1>6, <2>1, <2>2, FlattenPoint
  <2>. QED
    BY <1>6, <2>1, <2>3
<1>. QED
  BY <1>9, ParseIs DEF parts, o, t

Named(es) == \A i \in 1..Len(es) : es[i].name # <<>>

\* The elements read from a text are those it was built from.
LEMMA ParseJoined ==
  \A es \in Seq(Elem) : Named(es) => xpath_to_gnmi_path(Joined(es)) = es
<1>. DEFINE Good == {k \in Nat : \A es \in Seq(Elem) : Len(es) = k /\ Named(es) =>
                       xpath_to_gnmi_path(Joined(es)) = es}
<1>1. 0 \in Good
  <2>1. SUFFICES ASSUME NEW es \in Seq(Elem), Len(es) = 0
                 PROVE  xpath_to_gnmi_path(Joined(es)) = es
    OBVIOUS
  <2>2. es = <<>> /\ Joined(es) = <<>>
    BY <2>1, EmptySeq, JoinedNone
  <2>3. Parsed(<<>>) = <<>>
    BY DEF Parsed
  <2>. QED
    BY <2>2, <2>3, ParseIs, FlattenAppend
<1>2. ASSUME NEW k \in Nat, k \in Good PROVE k + 1 \in Good
  <2>1. SUFFICES ASSUME NEW es \in Seq(Elem), Len(es) = k + 1, Named(es)
                 PROVE  xpath_to_gnmi_path(Joined(es)) = es
    OBVIOUS
  <2>2. PICK e \in Elem, r \in Seq(Elem) : FirstRest(es, e, r, k) /\ Joined(es) = Piece(e) \o Joined(r)
    BY <2>1, JoinedFirst
  <2>3. e.name # <<>> /\ Named(r) /\ Len(r) = k
    <3>1. /\ Len(es) = k + 1 /\ Len(r) = k /\ es[1] = e
          /\ \A i \in 1..k : es[i + 1] = r[i]
      BY <2>2 DEF FirstRest
    <3>2. 1 \in 1..(k + 1) /\ \A i \in 1..k : i + 1 \in 1..(k + 1)
      OBVIOUS
    <3>. QED
      BY <2>1, <3>1, <3>2 DEF Named
  <2>. DEFINE a == Piece(e)
              b == Joined(r)
  <2>4. a \in Seq(Token) /\ b \in Seq(Token) /\ Slashed(b)
    BY PieceType, JoinedType, JoinedSlashed
  <2>5. xpath_to_gnmi_path(b) = r /\ xpath_to_gnmi_path(a) = <<e>>
    BY <1>2, <2>3, ParsePiece
  <2>. HIDE DEF a, b
  <2>6. xpath_to_gnmi_path(a \o b) = xpath_to_gnmi_path(a) \o xpath_to_gnmi_path(b)
    BY <2>4, ParsedConcat
  <2>. QED
    BY <2>2, <2>5, <2>6 DEF a, b, FirstRest
<1>. HIDE DEF Good
<1>3. \A k \in Nat : k \in Good
  BY <1>1, <1>2, AllNat
<1>. QED
  BY <1>3 DEF Good
-----------------------------------------------------------------------------
(* Elements under elements                                                   *)

\* Elements that stay the same without their keys have none.
LEMMA KeylessKeys ==
  ASSUME NEW p \in Seq(Elem), p = Keyless(p)
  PROVE  \A i \in 1..Len(p) : p[i].key = NoKey
<1>1. ASSUME NEW i \in 1..Len(p) PROVE p[i].key = NoKey
  <2>1. Keyless(p)[i] = Bare(p[i]) /\ p[i] \in Elem
    BY KeylessIs
  <2>2. Bare(p[i]).key = NoKey
    BY <2>1, BareType
  <2>. QED
    BY <2>1, <2>2
<1>. QED
  BY <1>1

\* Each element without its key.
LEMMA KeylessAt ==
  ASSUME NEW l \in Seq(Elem)
  PROVE  /\ Keyless(l) \in Seq(Elem) /\ Len(Keyless(l)) = Len(l)
         /\ \A i \in 1..Len(l) : Keyless(l)[i].key = NoKey /\ Keyless(l)[i].name = l[i].name
<1>1. ASSUME NEW i \in 1..Len(l)
      PROVE  Keyless(l)[i].key = NoKey /\ Keyless(l)[i].name = l[i].name
  <2>1. Keyless(l)[i] = Bare(l[i]) /\ l[i] \in Elem
    BY KeylessIs
  <2>2. Bare(l[i]).key = NoKey /\ Bare(l[i]).name = l[i].name
    BY <2>1, BareType
  <2>. QED
    BY <2>1, <2>2
<1>. QED
  BY <1>1, KeylessIs

\* A prefix without keys does not look at them.
LEMMA UnderKeyless ==
  ASSUME NEW p \in Seq(Elem), p = Keyless(p), NEW l \in Seq(Elem), Under(p, l)
  PROVE  Under(p, Keyless(l))
<1>1. Len(p) <= Len(l) /\ \A i \in 1..Len(p) : p[i].name = l[i].name /\ p[i].key = NoKey
  BY KeylessKeys DEF Under
<1>2. Len(p) \in Nat /\ Len(l) \in Nat /\ DOMAIN p = 1..Len(p)
  OBVIOUS
<1>3. \A i \in 1..Len(p) : i \in 1..Len(l)
  BY <1>1, <1>2
<1>. QED
  BY <1>1, <1>2, <1>3, KeylessAt DEF Under

\* Below a prefix without keys lies all that a query below it selects.
LEMMA BelowKeyless ==
  ASSUME NEW p \in Seq(Elem), p = Keyless(p), NEW q \in Seq(Elem), NEW l \in Seq(Elem),
         Under(p, q), Below(q, l)
  PROVE  Under(p, Keyless(l))
<1>1. Len(p) <= Len(q) /\ \A i \in 1..Len(p) : p[i].name = q[i].name /\ p[i].key = NoKey
  BY KeylessKeys DEF Under
<1>2. Len(q) <= Len(l) /\ \A i \in 1..Len(q) : q[i].name = l[i].name
  <2>1. Len(Keyless(l)) = Len(l) /\ \A i \in 1..Len(l) : Keyless(l)[i].name = l[i].name
    BY KeylessAt
  <2>2. DOMAIN q = 1..Len(q) /\ Len(q) \in Nat /\ Len(l) \in Nat
    OBVIOUS
  <2>3. CASE Under(q, l)
    BY <2>2, <2>3 DEF Under
  <2>4. CASE Under(q, Keyless(l))
    BY <2>1, <2>2, <2>4 DEF Under
  <2>. QED
    BY <2>3, <2>4 DEF Below
<1>3. Len(p) \in Nat /\ Len(q) \in Nat /\ Len(l) \in Nat /\ DOMAIN p = 1..Len(p)
  OBVIOUS
<1>4. \A i \in 1..Len(p) : i \in 1..Len(q) /\ i \in 1..Len(l)
  BY <1>1, <1>2, <1>3
<1>5. Len(p) <= Len(l) /\ \A i \in 1..Len(p) : p[i].name = l[i].name
  BY <1>1, <1>2, <1>3, <1>4
<1>. QED
  BY <1>1, <1>3, <1>4, <1>5, KeylessAt DEF Under

\* Of two prefixes without keys of the same elements, one is under the other.
LEMMA PrefixesNest ==
  ASSUME NEW p \in Seq(Elem), p = Keyless(p), NEW r \in Seq(Elem), r = Keyless(r),
         NEW l \in Seq(Elem), Under(p, l), Under(r, l)
  PROVE  Under(p, r) \/ Under(r, p)
<1>1. /\ Len(p) <= Len(l) /\ \A i \in 1..Len(p) : p[i].name = l[i].name /\ p[i].key = NoKey
      /\ Len(r) <= Len(l) /\ \A i \in 1..Len(r) : r[i].name = l[i].name /\ r[i].key = NoKey
  BY KeylessKeys DEF Under
<1>2. Len(p) \in Nat /\ Len(r) \in Nat /\ DOMAIN p = 1..Len(p) /\ DOMAIN r = 1..Len(r)
  OBVIOUS
<1>3. CASE Len(p) <= Len(r)
  <2>1. \A i \in 1..Len(p) : i \in 1..Len(r)
    BY <1>2, <1>3
  <2>. QED
    BY <1>1, <1>2, <1>3, <2>1 DEF Under
<1>4. CASE Len(r) <= Len(p)
  <2>1. \A i \in 1..Len(r) : i \in 1..Len(p)
    BY <1>2, <1>4
  <2>. QED
    BY <1>1, <1>2, <1>4, <2>1 DEF Under
<1>. QED
  BY <1>2, <1>3, <1>4

\* The front of elements and their last.
LEMMA FrontIs ==
  ASSUME NEW l \in Seq(Elem), NEW k \in Nat, Len(l) = k + 1
  PROVE  /\ Front(l) \in Seq(Elem) /\ Len(Front(l)) = k
         /\ \A i \in 1..k : Front(l)[i] = l[i]
         /\ l[k + 1] \in Elem /\ l = Front(l) \o <<l[k + 1]>>
<1>. DEFINE S == Elem
            f == Front(l)
            x == l[k + 1]
            c == f \o <<x>>
<1>1. /\ l \in Seq(S) /\ \A i \in 1..(k + 1) : l[i] \in S
      /\ k + 1 \in 1..(k + 1)
  OBVIOUS
<1>2. f = [i \in 1..k |-> l[i]]
  <2>1. Front(l) = SubSeq(l, 1, k)
    BY DEF Front
  <2>. QED
    BY <2>1
<1>. HIDE DEF S, f
<1>3. f \in Seq(S) /\ Len(f) = k /\ \A i \in 1..k : f[i] = l[i]
  <2>1. f \in [1..k -> S]
    BY <1>1, <1>2
  <2>. QED
    BY <1>2, <2>1
<1>4. x \in S
  BY <1>1
<1>. DEFINE o == <<x>>
<1>5. PICK j \in Nat : o \in Seq(S) /\ Len(o) = j /\ j = 1 /\ o[1] = x
  BY <1>4
<1>. HIDE DEF o
<1>6. IsConcat(S, l, f, o)
  <2>1. \A i \in 1..Len(o) : l[Len(f) + i] = o[i]
    BY <1>3, <1>5
  <2>2. Len(l) = Len(f) + Len(o)
    BY <1>3, <1>5
  <2>. QED
    BY <1>1, <1>3, <1>5, <2>1, <2>2 DEF IsConcat
<1>7. l = f \o o
  <2>1. o \in Seq(S)
    BY <1>5
  <2>. QED
    BY <1>1, <1>3, <1>6, <2>1, ConcatIs
<1>. QED
  BY <1>3, <1>4, <1>7 DEF f, o, S

\* What lies strictly below a prefix shares it with its siblings.
LEMMA UnderSibling ==
  ASSUME NEW p \in Seq(Elem), p = Keyless(p), NEW l \in Seq(Elem), NEW m \in Seq(Elem),
         Under(p, l), Len(p) < Len(l), Len(m) # 0, Front(l) = Front(m)
  PROVE  Under(p, m)
<1>1. Len(p) <= Len(l) /\ \A i \in 1..Len(p) : p[i].name = l[i].name /\ p[i].key = NoKey
  <2>1. \A i \in 1..Len(p) : p[i].key = NoKey
    BY KeylessKeys
  <2>2. DOMAIN p = 1..Len(p)
    OBVIOUS
  <2>. QED
    BY <2>1, <2>2, Zenon DEF Under
<1>2. PICK j \in Nat, k \in Nat : Len(l) = j + 1 /\ Len(m) = k + 1
  <2>1. Len(p) \in Nat /\ Len(l) - 1 \in Nat /\ Len(m) - 1 \in Nat
    OBVIOUS
  <2>2. Len(l) = (Len(l) - 1) + 1 /\ Len(m) = (Len(m) - 1) + 1
    OBVIOUS
  <2>. QED
    BY <2>1, <2>2, Zenon
<1>3. /\ Len(Front(l)) = j /\ \A i \in 1..j : Front(l)[i] = l[i]
      /\ Len(Front(m)) = k /\ \A i \in 1..k : Front(m)[i] = m[i]
  BY <1>2, FrontIs
<1>4. j = k /\ Len(p) \in Nat /\ Len(p) <= k /\ DOMAIN p = 1..Len(p)
  BY <1>2, <1>3
<1>5. \A i \in 1..Len(p) : i \in 1..j /\ i \in 1..k
  BY <1>4
<1>6. \A i \in 1..Len(p) : l[i] = m[i]
  BY <1>3, <1>5
<1>. QED
  BY <1>1, <1>2, <1>4, <1>6 DEF Under
-----------------------------------------------------------------------------
(* The records                                                               *)

\* A marker that ends an element ends at i.
MarkerEnds(t, i) ==
  /\ i \in Len(AtomicMarker)..Len(t)
  /\ SubSeq(t, i - Len(AtomicMarker) + 1, i) = AtomicMarker
  /\ i = Len(t) \/ t[i + 1] = Slash

\* The text of a record's leaf; its record's goes to g.
InRecord(t, g) ==
  /\ IsPrefix(AtomicRoot, t) /\ Len(t) > Len(AtomicRoot) /\ IsPred(t[Len(AtomicRoot) + 1])
  /\ MarkerEnds(t, g) /\ \A i : MarkerEnds(t, i) => g <= i

\* atomicPrefix is the record, found by its least marker.
LEMMA RecordIs ==
  ASSUME NEW t \in Seq(Token), stripPathQuotes(t) = t
  PROVE  /\ \A g : InRecord(t, g) => atomicPrefix(t) = SubSeq(t, 1, g)
         /\ (\A g : ~InRecord(t, g)) => atomicPrefix(t) = <<>>
<1>. DEFINE n == Len(AtomicMarker)
            ends == {i \in n..Len(t) : /\ SubSeq(t, i - n + 1, i) = AtomicMarker
                                       /\ i = Len(t) \/ t[i + 1] = Slash}
            in == IsPrefix(AtomicRoot, t) /\ Len(t) > Len(AtomicRoot)
                    /\ IsPred(t[Len(AtomicRoot) + 1])
            least == CHOOSE i \in ends : \A j \in ends : i <= j
<1>1. n \in Nat /\ Len(t) \in Nat
  BY AtomicAssumption
<1>2. atomicPrefix(t) = IF in /\ ends # {} THEN SubSeq(t, 1, least) ELSE <<>>
  BY DEF atomicPrefix
<1>3. \A i : i \in ends <=> MarkerEnds(t, i)
  BY DEF MarkerEnds
<1>4. ends \in SUBSET Nat
  BY <1>1
<1>. HIDE DEF ends
<1>5. ASSUME NEW g, InRecord(t, g) PROVE atomicPrefix(t) = SubSeq(t, 1, g)
  <2>1. in /\ g \in ends /\ \A j \in ends : g <= j
    BY <1>3, <1>5 DEF InRecord
  <2>2. least = g
    BY <1>4, <2>1, LeastIs
  <2>. QED
    BY <1>2, <2>1, <2>2
<1>6. ASSUME \A g : ~InRecord(t, g) PROVE atomicPrefix(t) = <<>>
  <2>1. SUFFICES ASSUME in, ends # {} PROVE FALSE
    BY <1>2
  <2>2. PICK g \in ends : \A j \in ends : g <= j
    BY <1>4, <2>1, LeastExists
  <2>3. InRecord(t, g)
    BY <1>3, <2>1, <2>2 DEF InRecord
  <2>. QED
    BY <1>6, <2>3
<1>. QED
  BY <1>5, <1>6

\* The record of a leaf lies strictly above the key of its list, so that it does
\* not depend on what follows.
SameTo(t, u, k) == k <= Len(t) /\ k <= Len(u) /\ \A i \in 1..k : t[i] = u[i]

\* Texts that agree up to a slash have the same markers before it.
LEMMA SameMarkers ==
  ASSUME NEW t \in Seq(Token), NEW u \in Seq(Token), NEW g \in Nat, SameTo(t, u, g + 1),
         NEW i \in Nat, i <= g, MarkerEnds(t, i)
  PROVE  MarkerEnds(u, i)
<1>. DEFINE n == Len(AtomicMarker)
            j == i - n + 1
<1>1. n \in Nat /\ n <= i /\ Len(t) \in Nat /\ Len(u) \in Nat
  BY AtomicAssumption DEF MarkerEnds
<1>2. g + 1 <= Len(t) /\ g + 1 <= Len(u) /\ \A k \in 1..(g + 1) : t[k] = u[k]
  BY DEF SameTo
<1>3. SubSeq(t, j, i) = SubSeq(u, j, i)
  <2>1. SubSeq(t, j, i) = [k \in 1..(i - j + 1) |-> t[j + k - 1]]
    BY <1>1
  <2>2. SubSeq(u, j, i) = [k \in 1..(i - j + 1) |-> u[j + k - 1]]
    BY <1>1
  <2>3. \A k \in 1..(i - j + 1) : j + k - 1 \in 1..(g + 1)
    BY <1>1
  <2>4. \A k \in 1..(i - j + 1) : t[j + k - 1] = u[j + k - 1]
    BY <1>2, <2>3
  <2>. HIDE DEF j
  <2>. QED
    BY <2>1, <2>2, <2>4
<1>4. i # Len(t) /\ i \in n..Len(u) /\ t[i + 1] = u[i + 1]
  <2>1. i + 1 \in 1..(g + 1)
    OBVIOUS
  <2>. QED
    BY <1>1, <1>2, <2>1
<1>. HIDE DEF n, j
<1>. QED
  BY <1>3, <1>4 DEF MarkerEnds, n, j

\* So they have the same record.
LEMMA SameRecord ==
  ASSUME NEW t \in Seq(Token), NEW u \in Seq(Token), NEW g \in Nat, SameTo(t, u, g + 1),
         InRecord(t, g)
  PROVE  InRecord(u, g)
<1>. DEFINE r == Len(AtomicRoot)
            n == Len(AtomicMarker)
<1>1. r \in Nat /\ n \in Nat /\ Len(t) \in Nat /\ Len(u) \in Nat
  BY AtomicAssumption
<1>2. g + 1 <= Len(t) /\ g + 1 <= Len(u) /\ \A i \in 1..(g + 1) : t[i] = u[i]
  BY DEF SameTo
<1>3. n <= g /\ SubSeq(t, g - n + 1, g) = AtomicMarker
  BY DEF InRecord, MarkerEnds
<1>4. r <= Len(t) /\ \A i \in 1..r : AtomicRoot[i] = t[i]
  BY AtomicAssumption, PrefixIs DEF InRecord
<1>5. r < g
  <2>1. SUFFICES ASSUME g <= r PROVE FALSE
    BY <1>1
  <2>. DEFINE j == g - n + 1
  <2>2. SubSeq(t, j, g) = [k \in 1..(g - j + 1) |-> t[j + k - 1]]
    BY <1>1
  <2>3. SubSeq(AtomicRoot, j, g) = [k \in 1..(g - j + 1) |-> AtomicRoot[j + k - 1]]
    BY <1>1
  <2>4. \A k \in 1..(g - j + 1) : j + k - 1 \in 1..r
    BY <1>1, <1>3, <2>1
  <2>5. \A k \in 1..(g - j + 1) : t[j + k - 1] = AtomicRoot[j + k - 1]
    BY <1>4, <2>4
  <2>6. SubSeq(t, j, g) = SubSeq(AtomicRoot, j, g)
    <3>. HIDE DEF j
    <3>. QED
      BY <2>2, <2>3, <2>5
  <2>7. g \in n..r
    BY <1>1, <1>3, <2>1
  <2>. QED
    BY <1>3, <2>6, <2>7, AtomicAssumption
<1>6. IsPrefix(AtomicRoot, u) /\ Len(u) > r /\ IsPred(u[r + 1])
  <2>1. r + 1 \in 1..(g + 1) /\ r < Len(u) /\ r <= Len(u) /\ \A i \in 1..r : i \in 1..(g + 1)
    BY <1>1, <1>2, <1>5
  <2>2. \A i \in 1..r : AtomicRoot[i] = u[i]
    BY <1>2, <1>4, <2>1
  <2>3. IsPrefix(AtomicRoot, u)
    BY <2>1, <2>2, AtomicAssumption, PrefixIs
  <2>4. u[r + 1] = t[r + 1]
    BY <1>2, <2>1
  <2>. QED
    BY <1>1, <2>1, <2>3, <2>4 DEF InRecord
<1>7. MarkerEnds(u, g)
  BY SameMarkers DEF InRecord
<1>8. ASSUME NEW i, MarkerEnds(u, i) PROVE g <= i
  <2>1. i \in Nat
    BY <1>1, <1>8 DEF MarkerEnds
  <2>2. SUFFICES ASSUME ~(g <= i) PROVE FALSE
    OBVIOUS
  <2>3. i <= g
    BY <2>1, <2>2
  <2>4. SameTo(u, t, g + 1)
    BY DEF SameTo
  <2>5. MarkerEnds(t, i)
    BY <1>8, <2>1, <2>3, <2>4, SameMarkers
  <2>. QED
    BY <2>2, <2>5 DEF InRecord
<1>. QED
  BY <1>6, <1>7, <1>8 DEF InRecord

\* The text of elements without an origin.
LEMMA PlainText ==
  ASSUME NEW es \in Seq(Elem)
  PROVE  LET text == gnmi_to_xpath([origin |-> <<>>, elem |-> es])
         IN  text \in Seq(Token) /\ stripPathQuotes(text) = Joined(es)
<1>. DEFINE path == [origin |-> <<>>, elem |-> es]
<1>1. path \in Path
  BY EmptySeq DEF Path
<1>2. Elements(path) = es
  <2>1. path.elem = es /\ path.origin = <<>>
    OBVIOUS
  <2>2. ASSUME NEW i \in DOMAIN es
        PROVE  (IF i = 1 THEN [es[1] EXCEPT !.name = <<>> \o @] ELSE es[i]) = es[i]
    <3>. DEFINE e == es[1]
    <3>1. i = 1 => e \in Elem
      OBVIOUS
    <3>. HIDE DEF e
    <3>2. i = 1 => e.name \in Seq(Alphabet)
      BY <3>1 DEF Elem
    <3>3. i = 1 => <<>> \o e.name = e.name
      BY <3>2, ConcatEmptySeq
    <3>4. i = 1 => [e EXCEPT !.name = <<>> \o @] = e
      BY <3>1, <3>3 DEF Elem
    <3>. QED
      BY <3>4 DEF e
  <2>3. Elements(path) = [i \in DOMAIN es |-> es[i]]
    BY <2>1, <2>2 DEF Elements
  <2>. QED
    BY <2>3
<1>. HIDE DEF path
<1>3. gnmi_to_xpath(path) \in Seq(Token) /\ stripPathQuotes(gnmi_to_xpath(path)) = Joined(es)
  BY <1>1, <1>2, TextOfPath
<1>. QED
  BY <1>3 DEF path

\* The text of elements has no quotes.
LEMMA JoinedStripped ==
  ASSUME NEW es \in Seq(Elem)
  PROVE  stripPathQuotes(Joined(es)) = Joined(es)
BY PlainText, StrippedTwice
-----------------------------------------------------------------------------
(* Siblings                                                                  *)

\* A piece has one slash, its first token.
LEMMA PieceOneSlash ==
  ASSUME NEW e \in Elem
  PROVE  \A i \in 2..Len(Piece(e)) : Piece(e)[i] # Slash
<1>. DEFINE t == Piece(e)
            n == Len(e.name)
            L == Len(t)
<1>1. n \in Nat /\ \A i \in 1..n : e.name[i] \in Alphabet
  BY DEF Elem
<1>2. /\ L = 1 + n + (IF e.key = NoKey THEN 0 ELSE 1)
      /\ \A i \in 1..n : t[i + 1] = Letter(e.name[i])
      /\ e.key # NoKey => t[n + 2] = Pred(e.key)
  BY PieceType
<1>. HIDE DEF t, n, L
<1>3. ASSUME NEW i \in 2..L PROVE t[i] # Slash
  <2>1. CASE i <= n + 1
    <3>1. i - 1 \in 1..n /\ (i - 1) + 1 = i
      BY <1>1, <2>1
    <3>2. t[(i - 1) + 1] = Letter(e.name[i - 1]) /\ e.name[i - 1] \in Alphabet
      BY <1>1, <1>2, <3>1
    <3>. QED
      BY <3>1, <3>2, Tokens
  <2>2. CASE ~(i <= n + 1)
    <3>1. L = 1 + n + 0 \/ (L = 1 + n + 1 /\ e.key # NoKey)
      BY <1>2
    <3>2. i = n + 2 /\ e.key # NoKey
      BY <1>1, <2>2, <3>1
    <3>3. Pred(e.key) # Slash
      BY <3>2, Tokens DEF Elem
    <3>. QED
      BY <1>2, <3>2, <3>3
  <2>. QED
    BY <2>1, <2>2
<1>. QED
  BY <1>3 DEF t, L

\* The path of x in the container f.
Child(f, x) == f \o <<x>>

\* Siblings have the same text up to the slash before their names.
LEMMA SiblingsSame ==
  ASSUME NEW f \in Seq(Elem), NEW x \in Elem, NEW y \in Elem,
         NEW t, t = Joined(Child(f, x)), NEW u, u = Joined(Child(f, y)),
         NEW g \in Nat, g < Len(t), t[g + 1] = Slash
  PROVE  SameTo(t, u, g + 1)
<1>. DEFINE F == Joined(f)
            p == Piece(x)
            q == Piece(y)
<1>1. F \in Seq(Token) /\ p \in Seq(Token) /\ q \in Seq(Token)
  BY JoinedType, PieceType
<1>2. t = F \o p /\ u = F \o q
  <2>1. ASSUME NEW z \in Elem PROVE Joined(Child(f, z)) = F \o Piece(z)
    <3>. DEFINE o == <<z>>
    <3>1. o \in Seq(Elem) /\ Joined(o) = Piece(z)
      BY JoinedOne
    <3>. HIDE DEF o
    <3>2. Joined(f \o o) = Joined(f) \o Joined(o)
      BY <3>1, JoinedConcat
    <3>. QED
      BY <3>1, <3>2 DEF o, Child
  <2>. QED
    BY <2>1
<1>3. /\ \A i \in 2..Len(p) : p[i] # Slash
      /\ p[1] = Slash /\ q[1] = Slash
  BY PieceOneSlash, PieceType
<1>4. Len(q) # 0
  <2>1. Len(q) = 1 + Len(y.name) + (IF y.key = NoKey THEN 0 ELSE 1)
    BY PieceType
  <2>0. Len(y.name) \in Nat
    BY DEF Elem
  <2>. HIDE DEF q
  <2>2. PICK n \in Nat : n = Len(y.name)
    BY <2>0
  <2>3. Len(q) = 1 + n + 0 \/ Len(q) = 1 + n + 1
    BY <2>1, <2>2
  <2>. QED
    BY <2>3
<1>. HIDE DEF F, p, q
<1>5. PICK k \in Nat, m \in Nat, n \in Nat : k = Len(F) /\ m = Len(p) /\ n = Len(q)
  BY <1>1
<1>6. /\ Len(t) = k + m
      /\ \A i \in 1..k : t[i] = F[i]
      /\ \A i \in 1..m : t[k + i] = p[i]
  <2>1. IsConcat(Token, t, F, p)
    BY <1>1, <1>2, IsConcatOf
  <2>. QED
    BY <1>5, <2>1 DEF IsConcat
<1>7. /\ Len(u) = k + n
      /\ \A i \in 1..k : u[i] = F[i]
      /\ \A i \in 1..n : u[k + i] = q[i]
  <2>1. IsConcat(Token, u, F, q)
    BY <1>1, <1>2, IsConcatOf
  <2>. QED
    BY <1>5, <2>1 DEF IsConcat
<1>8. g <= k
  <2>1. SUFFICES ASSUME ~(g <= k) PROVE FALSE
    OBVIOUS
  <2>2. g + 1 - k \in 2..m /\ g + 1 - k \in 1..m /\ k + (g + 1 - k) = g + 1
    BY <1>6, <2>1
  <2>3. t[k + (g + 1 - k)] = p[g + 1 - k]
    BY <1>6, <2>2
  <2>. QED
    BY <1>3, <1>5, <2>2, <2>3
<1>9. ASSUME NEW i \in 1..(g + 1) PROVE t[i] = u[i]
  <2>1. CASE i <= k
    <3>1. i \in 1..k
      BY <2>1
    <3>. QED
      BY <1>6, <1>7, <3>1
  <2>2. CASE ~(i <= k)
    <3>1. i = k + 1 /\ 1 \in 1..n /\ 1 \in 1..m
      BY <1>4, <1>5, <1>6, <1>8, <2>2
    <3>2. t[k + 1] = p[1] /\ u[k + 1] = q[1]
      BY <1>6, <1>7, <3>1
    <3>. QED
      BY <1>3, <3>1, <3>2
  <2>. QED
    BY <2>1, <2>2
<1>10. g + 1 <= Len(t) /\ g + 1 <= Len(u)
  BY <1>4, <1>5, <1>6, <1>7, <1>8
<1>. QED
  BY <1>9, <1>10 DEF SameTo

\* So leaves of one parent are in one record.
LEMMA RecordOfSibling ==
  ASSUME NEW l \in Seq(Elem), NEW m \in Seq(Elem), Len(l) # 0, Len(m) # 0, Front(l) = Front(m),
         NEW g, InRecord(Joined(l), g), g # Len(Joined(l))
  PROVE  InRecord(Joined(m), g) /\ SubSeq(Joined(m), 1, g) = SubSeq(Joined(l), 1, g)
<1>. DEFINE t == Joined(l)
            u == Joined(m)
            f == Front(l)
<1>1. t \in Seq(Token) /\ u \in Seq(Token) /\ Len(t) \in Nat /\ Len(u) \in Nat
  BY JoinedType
<1>2. PICK x \in Elem : l = f \o <<x>> /\ f \in Seq(Elem)
  <2>1. PICK k \in Nat : Len(l) = k + 1
    <3>1. Len(l) - 1 \in Nat /\ Len(l) = (Len(l) - 1) + 1
      OBVIOUS
    <3>. QED
      BY <3>1, Zenon
  <2>2. Front(l) \in Seq(Elem) /\ l[k + 1] \in Elem /\ l = Front(l) \o <<l[k + 1]>>
    BY <2>1, FrontIs
  <2>. QED
    BY <2>2, Zenon
<1>3. PICK y \in Elem : m = f \o <<y>>
  <2>1. PICK k \in Nat : Len(m) = k + 1
    <3>1. Len(m) - 1 \in Nat /\ Len(m) = (Len(m) - 1) + 1
      OBVIOUS
    <3>. QED
      BY <3>1, Zenon
  <2>2. Front(m) \in Seq(Elem) /\ m[k + 1] \in Elem /\ m = Front(m) \o <<m[k + 1]>>
    BY <2>1, FrontIs
  <2>. QED
    BY <2>2, Zenon
<1>. HIDE DEF t, u, f
<1>4. g \in Nat /\ g < Len(t) /\ t[g + 1] = Slash
  <2>1. MarkerEnds(t, g) /\ g # Len(t)
    BY DEF InRecord, t
  <2>2. Len(AtomicMarker) \in Nat
    BY AtomicAssumption
  <2>. QED
    BY <1>1, <2>1, <2>2 DEF MarkerEnds
<1>5. SameTo(t, u, g + 1)
  <2>1. t = Joined(Child(f, x)) /\ u = Joined(Child(f, y))
    BY <1>2, <1>3 DEF t, u, Child
  <2>. QED
    BY <1>2, <1>3, <1>4, <2>1, SiblingsSame
<1>6. InRecord(u, g)
  BY <1>1, <1>4, <1>5, SameRecord DEF t
<1>7. SubSeq(u, 1, g) = SubSeq(t, 1, g)
  <2>1. SubSeq(t, 1, g) = [i \in 1..g |-> t[i]] /\ SubSeq(u, 1, g) = [i \in 1..g |-> u[i]]
    BY <1>4
  <2>2. \A i \in 1..g : t[i] = u[i]
    BY <1>4, <1>5 DEF SameTo
  <2>. QED
    BY <2>1, <2>2
<1>. QED
  BY <1>6, <1>7 DEF t, u

\* A path cut at a slash is the one part and the other.
LEMMA ParsedParts ==
  ASSUME NEW es \in Seq(Elem), Named(es), NEW t, t = Joined(es), NEW g \in Nat, g <= Len(t),
         g = Len(t) \/ t[g + 1] = Slash
  PROVE  /\ SubSeq(t, 1, g) \in Seq(Token) /\ SubSeq(t, g + 1, Len(t)) \in Seq(Token)
         /\ xpath_to_gnmi_path(SubSeq(t, 1, g)) \o xpath_to_gnmi_path(SubSeq(t, g + 1, Len(t))) = es
<1>. DEFINE a == SubSeq(t, 1, g)
            b == SubSeq(t, g + 1, Len(t))
<1>1. t \in Seq(Token) /\ xpath_to_gnmi_path(t) = es
  BY JoinedType, ParseJoined
<1>2. PICK n \in Nat, d \in Nat : n = Len(t) /\ n = g + d
  <2>1. Len(t) \in Nat /\ Len(t) - g \in Nat /\ Len(t) = g + (Len(t) - g)
    BY <1>1
  <2>. QED
    BY <2>1, Zenon
<1>0. \A i \in 1..n : t[i] \in Token
  <2>1. \A i \in 1..Len(t) : t[i] \in Token
    BY <1>1
  <2>. QED
    BY <1>2, <2>1
<1>3. a \in Seq(Token) /\ Len(a) = g /\ \A i \in 1..g : a[i] = t[i]
  <2>1. a = [i \in 1..g |-> t[i]]
    OBVIOUS
  <2>2. \A i \in 1..g : i \in 1..n
    BY <1>2
  <2>. HIDE DEF a
  <2>3. a \in [1..g -> Token]
    BY <1>0, <2>1, <2>2
  <2>4. a \in Seq(Token) /\ Len(a) = g
    BY <2>3
  <2>. QED
    BY <2>1, <2>4
<1>4. b \in Seq(Token) /\ Len(b) = d /\ \A i \in 1..d : b[i] = t[g + i]
  <2>1. b = [i \in 1..d |-> t[g + i]]
    <3>1. b = [i \in 1..(n - (g + 1) + 1) |-> t[g + 1 + i - 1]]
      BY <1>2
    <3>2. n - (g + 1) + 1 = d /\ \A i \in 1..d : g + 1 + i - 1 = g + i
      BY <1>2
    <3>. HIDE DEF b
    <3>. QED
      BY <3>1, <3>2
  <2>2. \A i \in 1..d : t[g + i] \in Token
    <3>1. \A i \in 1..d : g + i \in 1..n
      BY <1>2
    <3>. QED
      BY <1>0, <3>1
  <2>. HIDE DEF b
  <2>3. b \in [1..d -> Token]
    BY <2>1, <2>2
  <2>4. b \in Seq(Token) /\ Len(b) = d
    BY <2>3
  <2>. QED
    BY <2>1, <2>4
<1>. HIDE DEF a, b
<1>5. IsConcat(Token, t, a, b)
  BY <1>1, <1>2, <1>3, <1>4 DEF IsConcat
<1>6. t = a \o b
  BY <1>1, <1>3, <1>4, <1>5, ConcatIs
<1>7. Slashed(b)
  <2>1. SUFFICES ASSUME b # <<>> PROVE b[1] = Slash
    BY DEF Slashed
  <2>2. d # 0
    BY <1>4, <2>1
  <2>3. 1 \in 1..d /\ g # n
    BY <1>2, <2>2
  <2>4. b[1] = t[g + 1]
    BY <1>4, <2>3
  <2>. QED
    BY <1>2, <2>3, <2>4
<1>8. xpath_to_gnmi_path(a \o b) = xpath_to_gnmi_path(a) \o xpath_to_gnmi_path(b)
  BY <1>3, <1>4, <1>7, ParsedConcat
<1>. QED
  BY <1>1, <1>3, <1>4, <1>6, <1>8, Zenon DEF a, b
-----------------------------------------------------------------------------
(* What the server does on texts                                             *)

\* A path made a text (gnmi_to_xpath), without its quotes, and a Path again
\* (xpath_to_gnmi_path) is the same path, its origin in the first name: for all
\* paths whose elements have a name, however many and with whatever keys.
THEOREM RoundTrip ==
  ASSUME NEW path \in Path, \A i \in DOMAIN path.elem : Elements(path)[i].name # <<>>
  PROVE  xpath_to_gnmi_path(stripPathQuotes(gnmi_to_xpath(path))) = Elements(path)
<1>1. Elements(path) \in Seq(Elem) /\ Len(Elements(path)) = Len(path.elem)
  BY ElementsType
<1>2. Named(Elements(path))
  BY <1>1 DEF Named, Path
<1>. QED
  BY <1>1, <1>2, TextOfPath, ParseJoined

\* The stores' filter (selects of leaf_store.cpp) compares texts: it selects a
\* leaf exactly if it lies at or below the query element by element, or does so
\* with all keys left out when the query has none.  No name is taken for one
\* that it begins, and no key for another.
THEOREM SelectionIsByElements ==
  ASSUME NEW q \in Path, NEW l \in Path
  PROVE  selects(stripPathQuotes(gnmi_to_xpath(q)), stripPathQuotes(gnmi_to_xpath(l)))
           <=> Below(Elements(q), Elements(l))
BY ElementsType, TextOfPath, SelectsIsBelow

\* The registry's test (DataProviderRegistry::matches) finds the registered
\* prefixes that a path lies at or below, element by element.
THEOREM RoutingIsByElements ==
  ASSUME NEW path \in Path, NEW prefix \in Path
  PROVE  matches(gnmi_to_xpath(path), stripPathQuotes(gnmi_to_xpath(prefix)))
           <=> Under(Elements(prefix), Elements(path))
BY ElementsType, TextOfPath, PrefixIsUnder DEF matches

\* SystemConfigProvider::atomicPrefix, the search for a marker in a text, puts
\* the leaves of one parent in one record, if any of them is in a record and is
\* not the record itself.
THEOREM SiblingsShareRecord ==
  ASSUME NEW l \in Path, NEW m \in Path, Len(Elements(l)) # 0, Len(Elements(m)) # 0,
         Front(Elements(l)) = Front(Elements(m)),
         atomicPrefix(gnmi_to_xpath(l)) # <<>>,
         atomicPrefix(gnmi_to_xpath(l)) # stripPathQuotes(gnmi_to_xpath(l))
  PROVE  atomicPrefix(gnmi_to_xpath(m)) = atomicPrefix(gnmi_to_xpath(l))
<1>. DEFINE k == Elements(l)
            o == Elements(m)
<1>1. k \in Seq(Elem) /\ o \in Seq(Elem)
  BY ElementsType
<1>2. stripPathQuotes(gnmi_to_xpath(l)) = Joined(k) /\ stripPathQuotes(gnmi_to_xpath(m)) = Joined(o)
  BY TextOfPath
<1>. HIDE DEF k, o
<1>3. /\ Joined(k) \in Seq(Token) /\ stripPathQuotes(Joined(k)) = Joined(k)
      /\ Joined(o) \in Seq(Token) /\ stripPathQuotes(Joined(o)) = Joined(o)
  BY <1>1, JoinedType, JoinedStripped
<1>4. /\ atomicPrefix(gnmi_to_xpath(l)) = atomicPrefix(Joined(k))
      /\ atomicPrefix(gnmi_to_xpath(m)) = atomicPrefix(Joined(o))
  BY <1>2, <1>3 DEF atomicPrefix
<1>5. PICK g : InRecord(Joined(k), g) /\ atomicPrefix(Joined(k)) = SubSeq(Joined(k), 1, g)
  BY <1>3, <1>4, RecordIs
<1>6. g # Len(Joined(k))
  <2>1. SubSeq(Joined(k), 1, Len(Joined(k))) = Joined(k)
    BY <1>3
  <2>. QED
    BY <1>2, <1>4, <1>5, <2>1
<1>7. InRecord(Joined(o), g) /\ SubSeq(Joined(o), 1, g) = SubSeq(Joined(k), 1, g)
  <2>1. Len(k) # 0 /\ Len(o) # 0 /\ Front(k) = Front(o)
    BY DEF k, o
  <2>. QED
    BY <1>1, <1>5, <1>6, <2>1, RecordOfSibling
<1>8. atomicPrefix(Joined(o)) = SubSeq(Joined(o), 1, g)
  BY <1>3, <1>7, RecordIs
<1>. QED
  BY <1>4, <1>5, <1>7, <1>8
=============================================================================
