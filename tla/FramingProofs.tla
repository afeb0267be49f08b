---------------------------- MODULE FramingProofs ----------------------------
(***************************************************************************)
(* However the bytes of a connection are cut, and however many lines of    *)
(* whatever length there are: what Framing's invariants say.               *)
(*                                                                         *)
(* The stream is described by where its lines end (Cut), a read by the     *)
(* lines it takes (ReadIs), and what split makes of those by what is left  *)
(* of their text (SplitKept) and, if they end alike, by the lines          *)
(* themselves (PiecesLines).  Sequences of any length are reached by       *)
(* induction over a set of numbers (SetInduction, from WFMin).             *)
(***************************************************************************)
EXTENDS Framing, SequenceTheorems, FiniteSetTheorems, WellFoundedInduction, TLAPS

-----------------------------------------------------------------------------
(* Induction, for sets of numbers. *)

\* A set of natural numbers that is not empty has a least member.
LEMMA Least ==
  ASSUME NEW S, S \subseteq Nat, S # {}
  PROVE  \E x \in S : \A y \in S : x <= y
<1>1. \E x \in S : \A y \in S : ~ (<<y, x>> \in OpToRel(<, Nat))
  BY NatLessThanWellFounded, WFMin
<1>2. \A i, j \in Nat : ~ (<<j, i>> \in OpToRel(<, Nat)) => i <= j
  BY DEF OpToRel
<1> QED
  BY <1>1, <1>2

\* Induction: a set with 0 that holds n + 1 with n holds every number.
LEMMA SetInduction ==
  ASSUME NEW P, 0 \in P, \A n \in Nat : n \in P => n + 1 \in P
  PROVE  Nat \subseteq P
<1> SUFFICES ASSUME Nat \ P # {}
             PROVE  FALSE
  OBVIOUS
<1>1. PICK x \in Nat \ P : \A y \in Nat \ P : x <= y
  BY Least
<1>2. x # 0 /\ x - 1 \in Nat /\ ~(x <= x - 1)
  BY <1>1
<1>3. x - 1 \in P
  BY <1>1, <1>2
<1> QED
  BY <1>1, <1>2, <1>3

\* Min of the community modules is the least member.
LEMMA MinIs ==
  ASSUME NEW S, S \subseteq Nat, S # {}
  PROVE  Min(S) \in S /\ \A y \in S : Min(S) <= y
BY Least DEF Min

\* The greatest member of a set of numbers, if there is a bound to them.
LEMMA MaxIs ==
  ASSUME NEW n \in Nat, NEW S, S \subseteq 0..n, S # {}
  PROVE  Max(S) \in S /\ \A y \in S : Max(S) >= y
<1> DEFINE R == {n - x : x \in S}
<1>1. R \subseteq Nat
  <2>1. \A x \in 0..n : n - x \in Nat
    OBVIOUS
  <2> QED
    BY <2>1
<1>2. PICK r \in R : \A y \in R : r <= y
  <2>1. R # {}
    OBVIOUS
  <2> HIDE DEF R
  <2> QED
    BY <1>1, <2>1, Least
<1>3. PICK x \in S : r = n - x
  OBVIOUS
<1>4. \A y \in S : x >= y
  <2> SUFFICES ASSUME NEW y \in S
               PROVE  x >= y
    OBVIOUS
  <2>1. r <= n - y
    BY <1>2
  <2>2. x \in 0..n /\ y \in 0..n
    OBVIOUS
  <2> QED
    BY <1>3, <2>1, <2>2
<1> QED
  BY <1>4 DEF Max

\* The member that none exceeds is the greatest one.
LEMMA MaxOnly ==
  ASSUME NEW S, S \subseteq Nat, NEW x \in S, \A y \in S : x >= y
  PROVE  Max(S) = x
<1>1. Max(S) \in S /\ \A y \in S : Max(S) >= y
  BY DEF Max
<1>2. Max(S) >= x /\ x >= Max(S)
  BY <1>1
<1>3. Max(S) \in Nat /\ x \in Nat
  BY <1>1
<1> QED
  BY <1>2, <1>3

-----------------------------------------------------------------------------
(* FlattenSeq. *)

\* The function behind FlattenSeq.
Flat(f, s, n) ==
  f = [i \in 1..n |-> IF i = 1 THEN s[i] ELSE f[i-1] \o s[i]]

\* Such a function at one point.
LEMMA FlatIs ==
  ASSUME NEW s, NEW n \in Nat, NEW f, Flat(f, s, n), NEW i \in 1..n
  PROVE  f[i] = IF i = 1 THEN s[i] ELSE f[i-1] \o s[i]
<1> DEFINE g == [j \in 1..n |-> IF j = 1 THEN s[j] ELSE f[j-1] \o s[j]]
<1>1. f = g
  BY DEF Flat
<1>2. g[i] = IF i = 1 THEN s[i] ELSE f[i-1] \o s[i]
  OBVIOUS
<1> HIDE DEF g
<1> QED
  BY <1>1, <1>2

\* A function with those values is such a function.
LEMMA FlatIf ==
  ASSUME NEW s, NEW n \in Nat, NEW f, f = [i \in 1..n |-> f[i]],
         \A i \in 1..n : f[i] = IF i = 1 THEN s[i] ELSE f[i-1] \o s[i]
  PROVE  Flat(f, s, n)
<1>1. [i \in 1..n |-> f[i]] = [i \in 1..n |-> IF i = 1 THEN s[i] ELSE f[i-1] \o s[i]]
  OBVIOUS
<1> QED
  BY <1>1, Zenon DEF Flat

\* There is one, for every length.
LEMMA FlatExists ==
  ASSUME NEW s, NEW n \in Nat
  PROVE  \E f : Flat(f, s, n)
<1> DEFINE P == {k \in Nat : \E f : Flat(f, s, k)}
<1>1. 0 \in P
  <2>1. Flat([i \in 1..0 |-> s[i]], s, 0)
    BY DEF Flat
  <2> QED
    BY <2>1
<1>2. ASSUME NEW k \in Nat, k \in P
      PROVE  k + 1 \in P
  <2>1. PICK f : Flat(f, s, k)
    BY <1>2
  <2> DEFINE g == [i \in 1..k+1 |-> IF i = k + 1 THEN IF i = 1 THEN s[i] ELSE f[k] \o s[i]
                                                 ELSE f[i]]
  <2>2. \A i \in 1..k : g[i] = f[i]
    OBVIOUS
  <2>3. g[k+1] = IF k + 1 = 1 THEN s[k+1] ELSE f[k] \o s[k+1]
    OBVIOUS
  <2>4. g = [i \in 1..k+1 |-> g[i]]
    OBVIOUS
  <2> HIDE DEF g
  <2>5. ASSUME NEW i \in 1..k+1
        PROVE  g[i] = IF i = 1 THEN s[i] ELSE g[i-1] \o s[i]
    <3>1. CASE i = k + 1
      <4>1. CASE k = 0
        BY <2>3, <3>1, <4>1
      <4>2. CASE k # 0
        <5>1. k \in 1..k /\ i - 1 = k /\ i # 1
          BY <3>1, <4>2
        <5>2. g[i-1] = f[k]
          BY <2>2, <5>1
        <5> QED
          BY <2>3, <3>1, <5>1, <5>2
      <4> QED
        BY <4>1, <4>2
    <3>2. CASE i # k + 1
      <4>1. i \in 1..k /\ (i # 1 => i - 1 \in 1..k)
        BY <3>2
      <4>2. f[i] = IF i = 1 THEN s[i] ELSE f[i-1] \o s[i]
        BY <2>1, <4>1, FlatIs
      <4> QED
        BY <2>2, <4>1, <4>2
    <3> QED
      BY <3>1, <3>2
  <2>6. Flat(g, s, k + 1)
    <3>1. k + 1 \in Nat
      OBVIOUS
    <3> QED
      BY <2>4, <2>5, <3>1, FlatIf, Zenon
  <2> QED
    BY <2>6
<1> HIDE DEF P
<1>3. Nat \subseteq P
  BY <1>1, <1>2, SetInduction
<1> QED
  BY <1>3 DEF P

\* Any function as the one behind FlattenSeq gives its value.
LEMMA FlatOnly ==
  ASSUME NEW s, NEW t, NEW m \in Nat, NEW n \in Nat, NEW f, NEW g,
         Flat(f, s, m), Flat(g, t, n), NEW k \in 1..m, k <= n,
         \A i \in 1..k : s[i] = t[i]
  PROVE  f[k] = g[k]
<1> DEFINE P == {i \in Nat : i \in 1..k => f[i] = g[i]}
<1>1. 0 \in P
  OBVIOUS
<1>2. ASSUME NEW i \in Nat, i \in P
      PROVE  i + 1 \in P
  <2> SUFFICES ASSUME i + 1 \in 1..k
               PROVE  f[i+1] = g[i+1]
    OBVIOUS
  <2> DEFINE j == i + 1
  <2>1. j \in 1..m /\ j \in 1..n /\ j \in 1..k /\ j - 1 = i
    OBVIOUS
  <2>2. j # 1 => f[i] = g[i]
    BY <1>2
  <2> HIDE DEF j, P
  <2>3. f[j] = IF j = 1 THEN s[j] ELSE f[j-1] \o s[j]
    BY <2>1, FlatIs
  <2>4. g[j] = IF j = 1 THEN t[j] ELSE g[j-1] \o t[j]
    BY <2>1, FlatIs
  <2>5. s[j] = t[j]
    BY <2>1
  <2>6. f[j] = g[j]
    BY <2>1, <2>2, <2>3, <2>4, <2>5
  <2> QED
    BY <2>6 DEF j
<1> HIDE DEF P
<1>3. k \in P
  BY <1>1, <1>2, SetInduction
<1> QED
  BY <1>3 DEF P

\* FlattenSeq is what the function ends with.
LEMMA FlattenIs ==
  ASSUME NEW s, Len(s) \in Nat, Len(s) # 0
  PROVE  \E f : Flat(f, s, Len(s)) /\ FlattenSeq(s) = f[Len(s)]
<1> DEFINE c == CHOOSE f : Flat(f, s, Len(s))
<1>1. Flat(c, s, Len(s))
  BY FlatExists
<1>2. FlattenSeq(s) = c[Len(s)]
  BY DEF FlattenSeq, Flat
<1> HIDE DEF c
<1> QED
  BY <1>1, <1>2

\* Nothing flattens to nothing.
LEMMA FlattenEmpty ==
  FlattenSeq(<<>>) = <<>>
BY DEF FlattenSeq

\* One more part adds its members at the end.
LEMMA FlattenAppend ==
  ASSUME NEW S, NEW s \in Seq(Seq(S)), NEW x \in Seq(S)
  PROVE  FlattenSeq(Append(s, x)) = FlattenSeq(s) \o x
<1> DEFINE t == Append(s, x)
           n == Len(s)
<1>1. n \in Nat /\ Len(t) = n + 1 /\ t[n+1] = x /\ \A i \in 1..n : t[i] = s[i]
  BY LenProperties, AppendProperties
<1> HIDE DEF t, n
<1>2. PICK g : Flat(g, t, n + 1) /\ FlattenSeq(t) = g[n+1]
  BY <1>1, FlattenIs
<1>3. g[n+1] = IF n + 1 = 1 THEN t[n+1] ELSE g[n+1-1] \o t[n+1]
  BY <1>1, <1>2, FlatIs
<1>4. CASE n = 0
  <2>1. s = <<>>
    BY <1>4, EmptySeq DEF n
  <2>2. FlattenSeq(s) = <<>>
    BY <2>1, FlattenEmpty
  <2>3. <<>> \o x = x
    BY ConcatEmptySeq
  <2> QED
    BY <1>1, <1>2, <1>3, <1>4, <2>2, <2>3 DEF t
<1>5. CASE n # 0
  <2>1. PICK f : Flat(f, s, n) /\ FlattenSeq(s) = f[n]
    BY <1>1, <1>5, FlattenIs DEF n
  <2>2. n \in 1..n /\ n <= n + 1
    BY <1>1, <1>5
  <2>3. \A i \in 1..n : s[i] = t[i]
    BY <1>1
  <2>4. f[n] = g[n]
    BY <1>1, <1>2, <2>1, <2>2, <2>3, FlatOnly
  <2>5. g[n+1] = g[n] \o x
    BY <1>1, <1>3, <1>5
  <2> QED
    BY <1>2, <2>1, <2>4, <2>5 DEF t
<1> QED
  BY <1>4, <1>5

\* What holds of the empty sequence, and of a longer one if of the one before it,
\* holds of all.
LEMMA SequenceInduction ==
  ASSUME NEW S, NEW P, <<>> \in P, \A s \in Seq(S), e \in S : s \in P => Append(s, e) \in P
  PROVE  Seq(S) \subseteq P
<1> DEFINE Q == {n \in Nat : \A s \in Seq(S) : Len(s) = n => s \in P}
<1>1. 0 \in Q
  BY EmptySeq
<1>2. ASSUME NEW n \in Nat, n \in Q
      PROVE  n + 1 \in Q
  <2> SUFFICES ASSUME NEW s \in Seq(S), Len(s) = n + 1
               PROVE  s \in P
    OBVIOUS
  <2>1. s # <<>>
    BY EmptySeq
  <2>2. PICK t \in Seq(S), e \in S : s = Append(t, e)
    BY <2>1, SequenceEmptyOrAppend
  <2>3. Len(t) = n
    <3>1. Len(s) = Len(t) + 1 /\ Len(t) \in Nat
      BY <2>2, AppendProperties, LenProperties
    <3> QED
      BY <3>1
  <2>4. t \in P
    BY <1>2, <2>3
  <2> QED
    BY <2>2, <2>4
<1> HIDE DEF Q
<1>3. Nat \subseteq Q
  BY <1>1, <1>2, SetInduction
<1> QED
  BY <1>3, LenProperties DEF Q

\* What is flattened has the members of the parts.
LEMMA FlattenType ==
  ASSUME NEW S, NEW s \in Seq(Seq(S))
  PROVE  FlattenSeq(s) \in Seq(S)
<1> DEFINE P == {t \in Seq(Seq(S)) : FlattenSeq(t) \in Seq(S)}
<1>1. <<>> \in P
  BY FlattenEmpty, EmptySeq
<1>2. ASSUME NEW t \in Seq(Seq(S)), NEW x \in Seq(S), t \in P
      PROVE  Append(t, x) \in P
  <2>1. Append(t, x) \in Seq(Seq(S))
    BY AppendProperties
  <2>2. FlattenSeq(Append(t, x)) = FlattenSeq(t) \o x
    BY FlattenAppend
  <2>3. FlattenSeq(t) \o x \in Seq(S)
    BY <1>2, ConcatProperties
  <2> QED
    BY <2>1, <2>2, <2>3
<1> HIDE DEF P
<1>3. Seq(Seq(S)) \subseteq P
  BY <1>1, <1>2, SequenceInduction
<1> QED
  BY <1>3 DEF P

\* Append behind a concatenation.
LEMMA AppendConcat ==
  ASSUME NEW S, NEW s \in Seq(S), NEW t \in Seq(S), NEW e \in S
  PROVE  s \o Append(t, e) = Append(s \o t, e)
<1>1. Append(t, e) = t \o <<e>> /\ s \o t \in Seq(S) /\ <<e>> \in Seq(S)
  BY AppendIsConcat, ConcatProperties
<1>2. Append(s \o t, e) = (s \o t) \o <<e>>
  BY <1>1, AppendIsConcat
<1> QED
  BY <1>1, <1>2, ConcatAssociative

\* FlattenSeq takes concatenations apart.
LEMMA FlattenConcat ==
  ASSUME NEW S, NEW s \in Seq(Seq(S)), NEW t \in Seq(Seq(S))
  PROVE  FlattenSeq(s \o t) = FlattenSeq(s) \o FlattenSeq(t)
<1> DEFINE P == {u \in Seq(Seq(S)) : FlattenSeq(s \o u) = FlattenSeq(s) \o FlattenSeq(u)}
<1>1. <<>> \in P
  <2>1. s \o <<>> = s /\ FlattenSeq(s) \in Seq(S)
    BY ConcatEmptySeq, FlattenType
  <2>2. FlattenSeq(s) \o <<>> = FlattenSeq(s)
    BY <2>1, ConcatEmptySeq
  <2> QED
    BY <2>1, <2>2, FlattenEmpty, EmptySeq
<1>2. ASSUME NEW u \in Seq(Seq(S)), NEW x \in Seq(S), u \in P
      PROVE  Append(u, x) \in P
  <2>1. Append(u, x) \in Seq(Seq(S)) /\ s \o u \in Seq(Seq(S))
    BY AppendProperties, ConcatProperties
  <2>2. s \o Append(u, x) = Append(s \o u, x)
    BY AppendConcat
  <2>3. FlattenSeq(s \o Append(u, x)) = FlattenSeq(s \o u) \o x
    BY <2>1, <2>2, FlattenAppend
  <2>4. FlattenSeq(Append(u, x)) = FlattenSeq(u) \o x
    BY FlattenAppend
  <2>5. FlattenSeq(s) \in Seq(S) /\ FlattenSeq(u) \in Seq(S)
    BY FlattenType
  <2>6. (FlattenSeq(s) \o FlattenSeq(u)) \o x = FlattenSeq(s) \o (FlattenSeq(u) \o x)
    BY <2>5, ConcatAssociative
  <2> QED
    BY <1>2, <2>1, <2>3, <2>4, <2>6
<1> HIDE DEF P
<1>3. Seq(Seq(S)) \subseteq P
  BY <1>1, <1>2, SequenceInduction
<1> QED
  BY <1>3 DEF P

\* Append to nothing.
LEMMA AppendEmpty ==
  ASSUME NEW x
  PROVE  Append(<<>>, x) = <<x>>
<1>1. <<>> \in Seq({x}) /\ x \in {x}
  BY EmptySeq
<1>2. Append(<<>>, x) = <<>> \o <<x>> /\ <<x>> \in Seq({x})
  BY <1>1, AppendIsConcat
<1> QED
  BY <1>2, ConcatEmptySeq

\* A single part flattens to itself.
LEMMA FlattenOne ==
  ASSUME NEW S, NEW x \in Seq(S)
  PROVE  FlattenSeq(<<x>>) = x
<1>1. <<>> \in Seq(Seq(S))
  BY EmptySeq
<1>2. FlattenSeq(Append(<<>>, x)) = FlattenSeq(<<>>) \o x
  BY <1>1, FlattenAppend
<1> QED
  BY <1>2, AppendEmpty, FlattenEmpty, ConcatEmptySeq

-----------------------------------------------------------------------------
(* TextOf and Commands, symbol by symbol and line by line. *)

\* What a symbol adds to the text, and a line to the commands.
TextIn(e)    == IF e \in Text THEN <<e>> ELSE <<>>
CommandIn(x) == IF x = <<>> THEN <<>> ELSE <<x>>

\* Each symbol gives a sequence of text.
LEMMA TextSymbols ==
  ASSUME NEW S, NEW s \in Seq(S)
  PROVE  [i \in 1..Len(s) |-> TextIn(s[i])] \in Seq(Seq(Text))
<1>1. Len(s) \in Nat
  BY LenProperties
<1>2. \A i \in 1..Len(s) : TextIn(s[i]) \in Seq(Text)
  BY EmptySeq DEF TextIn
<1> QED
  BY <1>1, <1>2, IsASeq

\* TextOf, by symbols.
LEMMA TextIs ==
  ASSUME NEW s
  PROVE  TextOf(s) = FlattenSeq([i \in 1..Len(s) |-> TextIn(s[i])])
BY DEF TextOf, TextIn

\* Nothing has no text.
LEMMA TextEmpty ==
  TextOf(<<>>) = <<>>
<1>1. Len(<<>>) = 0 /\ <<>> \in Seq({0})
  BY EmptySeq
<1>2. [i \in 1..0 |-> TextIn(<<>>[i])] = <<>>
  OBVIOUS
<1> QED
  BY <1>1, <1>2, TextIs, FlattenEmpty

\* One more symbol adds its text.
LEMMA TextAppend ==
  ASSUME NEW S, NEW s \in Seq(S), NEW e \in S
  PROVE  TextOf(Append(s, e)) = TextOf(s) \o TextIn(e)
<1> DEFINE t == Append(s, e)
           n == Len(s)
           f == [i \in 1..n |-> TextIn(s[i])]
           g == [i \in 1..n+1 |-> TextIn(t[i])]
<1>1. n \in Nat /\ Len(t) = n + 1 /\ t[n+1] = e /\ (\A i \in 1..n : t[i] = s[i]) /\ t \in Seq(S)
  BY LenProperties, AppendProperties
<1>2. f \in Seq(Seq(Text)) /\ g \in Seq(Seq(Text)) /\ TextIn(e) \in Seq(Text)
  <2>1. f \in Seq(Seq(Text))
    BY TextSymbols
  <2>2. [i \in 1..Len(t) |-> TextIn(t[i])] \in Seq(Seq(Text))
    BY <1>1, TextSymbols
  <2>3. TextIn(e) \in Seq(Text)
    BY EmptySeq DEF TextIn
  <2> QED
    BY <1>1, <2>1, <2>2, <2>3
<1>3. g = Append(f, TextIn(e))
  <2> HIDE DEF t, n
  <2>1. Len(f) = n /\ Len(g) = n + 1
    BY <1>1, <1>2
  <2>2. Append(f, TextIn(e)) \in Seq(Seq(Text)) /\ Len(Append(f, TextIn(e))) = n + 1
        /\ (\A i \in 1..n : Append(f, TextIn(e))[i] = f[i]) /\ Append(f, TextIn(e))[n+1] = TextIn(e)
    <3> HIDE DEF f
    <3> QED
      BY <1>2, <2>1, AppendProperties
  <2>3. \A i \in 1..n : g[i] = f[i]
    BY <1>1
  <2>4. n + 1 \in 1..n+1 /\ \A i \in 1..n+1 : i \in 1..n \/ i = n + 1
    BY <1>1
  <2>5. g[n+1] = TextIn(e)
    BY <1>1, <2>4
  <2> HIDE DEF f, g
  <2>6. \A i \in 1..n+1 : g[i] = Append(f, TextIn(e))[i]
    BY <2>2, <2>3, <2>4, <2>5
  <2> QED
    BY <1>2, <2>1, <2>2, <2>6, SeqEqual
<1>4. TextOf(t) = FlattenSeq(g) /\ TextOf(s) = FlattenSeq(f)
  BY <1>1, TextIs
<1> HIDE DEF t, n, f, g
<1>5. FlattenSeq(g) = FlattenSeq(f) \o TextIn(e)
  BY <1>2, <1>3, FlattenAppend
<1> QED
  BY <1>4, <1>5 DEF t

\* The text of bytes is text.
LEMMA TextType ==
  ASSUME NEW S, NEW s \in Seq(S)
  PROVE  TextOf(s) \in Seq(Text)
BY TextSymbols, TextIs, FlattenType

\* TextOf takes concatenations apart.
LEMMA TextConcat ==
  ASSUME NEW S, NEW s \in Seq(S), NEW t \in Seq(S)
  PROVE  TextOf(s \o t) = TextOf(s) \o TextOf(t)
<1> DEFINE P == {u \in Seq(S) : TextOf(s \o u) = TextOf(s) \o TextOf(u)}
<1>1. <<>> \in P
  <2>1. s \o <<>> = s /\ TextOf(s) \in Seq(Text)
    BY ConcatEmptySeq, TextType
  <2>2. TextOf(s) \o <<>> = TextOf(s)
    BY <2>1, ConcatEmptySeq
  <2> QED
    BY <2>1, <2>2, TextEmpty, EmptySeq
<1>2. ASSUME NEW u \in Seq(S), NEW e \in S, u \in P
      PROVE  Append(u, e) \in P
  <2>1. Append(u, e) \in Seq(S) /\ s \o u \in Seq(S)
    BY AppendProperties, ConcatProperties
  <2>2. s \o Append(u, e) = Append(s \o u, e)
    BY AppendConcat
  <2>3. TextOf(s \o Append(u, e)) = TextOf(s \o u) \o TextIn(e)
    BY <2>1, <2>2, TextAppend
  <2>4. TextOf(Append(u, e)) = TextOf(u) \o TextIn(e)
    BY TextAppend
  <2>5. TextOf(s) \in Seq(Text) /\ TextOf(u) \in Seq(Text) /\ TextIn(e) \in Seq(Text)
    BY TextType, EmptySeq DEF TextIn
  <2>6. (TextOf(s) \o TextOf(u)) \o TextIn(e) = TextOf(s) \o (TextOf(u) \o TextIn(e))
    BY <2>5, ConcatAssociative
  <2> QED
    BY <1>2, <2>1, <2>3, <2>4, <2>6
<1> HIDE DEF P
<1>3. Seq(S) \subseteq P
  BY <1>1, <1>2, SequenceInduction
<1> QED
  BY <1>3 DEF P

\* A line is text through and through, and its end is none.
LEMMA TextOfText ==
  ASSUME NEW s \in Seq(Text)
  PROVE  TextOf(s) = s
<1> DEFINE P == {t \in Seq(Text) : TextOf(t) = t}
<1>1. <<>> \in P
  BY TextEmpty, EmptySeq
<1>2. ASSUME NEW t \in Seq(Text), NEW e \in Text, t \in P
      PROVE  Append(t, e) \in P
  <2>1. TextIn(e) = <<e>>
    BY DEF TextIn
  <2>2. TextOf(Append(t, e)) = TextOf(t) \o TextIn(e)
    BY TextAppend
  <2>3. Append(t, e) = t \o <<e>> /\ Append(t, e) \in Seq(Text)
    BY AppendIsConcat, AppendProperties
  <2>4. TextOf(t) = t
    BY <1>2
  <2> QED
    BY <2>1, <2>2, <2>3, <2>4
<1> HIDE DEF P
<1>3. Seq(Text) \subseteq P
  BY <1>1, <1>2, SequenceInduction
<1> QED
  BY <1>3 DEF P

\* Where no symbol is text, there is no text.
LEMMA NoText ==
  ASSUME NEW S, NEW s \in Seq(S), \A i \in 1..Len(s) : s[i] \notin Text
  PROVE  TextOf(s) = <<>>
<1> DEFINE P == {t \in Seq(S) : (\A i \in 1..Len(t) : t[i] \notin Text) => TextOf(t) = <<>>}
<1>1. <<>> \in P
  BY TextEmpty, EmptySeq
<1>2. ASSUME NEW t \in Seq(S), NEW e \in S, t \in P
      PROVE  Append(t, e) \in P
  <2>1. Append(t, e) \in Seq(S)
    BY AppendProperties
  <2> SUFFICES ASSUME \A i \in 1..Len(Append(t, e)) : Append(t, e)[i] \notin Text
               PROVE  TextOf(Append(t, e)) = <<>>
    BY <2>1
  <2>2. Len(t) \in Nat /\ Len(Append(t, e)) = Len(t) + 1
    BY LenProperties, AppendProperties
  <2>3. \A i \in 1..Len(t) : Append(t, e)[i] = t[i] /\ i \in 1..Len(Append(t, e))
    BY <2>2, AppendProperties
  <2>4. e \notin Text
    <3>1. Append(t, e)[Len(t)+1] = e
      BY AppendProperties
    <3>2. Len(t) + 1 \in 1..Len(Append(t, e))
      BY <2>2
    <3> QED
      BY <3>1, <3>2
  <2>5. TextOf(t) = <<>> /\ TextIn(e) = <<>>
    BY <1>2, <2>3, <2>4 DEF TextIn
  <2>6. <<>> \o <<>> = <<>>
    BY ConcatEmptySeq, EmptySeq
  <2> QED
    BY <2>5, <2>6, TextAppend
<1> HIDE DEF P
<1>3. Seq(S) \subseteq P
  BY <1>1, <1>2, SequenceInduction
<1> QED
  BY <1>3 DEF P

\* Each line gives a sequence of lines.
LEMMA CommandLines ==
  ASSUME NEW S, NEW s \in Seq(Seq(S))
  PROVE  [i \in 1..Len(s) |-> CommandIn(s[i])] \in Seq(Seq(Seq(S)))
<1>1. Len(s) \in Nat
  BY LenProperties
<1>2. \A i \in 1..Len(s) : CommandIn(s[i]) \in Seq(Seq(S))
  BY EmptySeq DEF CommandIn
<1> QED
  BY <1>1, <1>2, IsASeq

\* Commands, by lines.
LEMMA CommandsIs ==
  ASSUME NEW s
  PROVE  Commands(s) = FlattenSeq([i \in 1..Len(s) |-> CommandIn(s[i])])
BY DEF Commands, CommandIn

\* No line, no command.
LEMMA CommandsEmpty ==
  Commands(<<>>) = <<>>
<1>1. Len(<<>>) = 0 /\ <<>> \in Seq({0})
  BY EmptySeq
<1>2. [i \in 1..0 |-> CommandIn(<<>>[i])] = <<>>
  OBVIOUS
<1> QED
  BY <1>1, <1>2, CommandsIs, FlattenEmpty

\* One more line adds its command.
LEMMA CommandsAppend ==
  ASSUME NEW S, NEW s \in Seq(Seq(S)), NEW e \in Seq(S)
  PROVE  Commands(Append(s, e)) = Commands(s) \o CommandIn(e)
<1> DEFINE t == Append(s, e)
           n == Len(s)
           f == [i \in 1..n |-> CommandIn(s[i])]
           g == [i \in 1..n+1 |-> CommandIn(t[i])]
<1>1. n \in Nat /\ Len(t) = n + 1 /\ t[n+1] = e /\ (\A i \in 1..n : t[i] = s[i]) /\ t \in Seq(Seq(S))
  BY LenProperties, AppendProperties
<1>2. f \in Seq(Seq(Seq(S))) /\ g \in Seq(Seq(Seq(S))) /\ CommandIn(e) \in Seq(Seq(S))
  <2>1. f \in Seq(Seq(Seq(S)))
    BY CommandLines
  <2>2. [i \in 1..Len(t) |-> CommandIn(t[i])] \in Seq(Seq(Seq(S)))
    BY <1>1, CommandLines
  <2>3. CommandIn(e) \in Seq(Seq(S))
    BY EmptySeq DEF CommandIn
  <2> QED
    BY <1>1, <2>1, <2>2, <2>3
<1>3. g = Append(f, CommandIn(e))
  <2> HIDE DEF t, n
  <2>1. Len(f) = n /\ Len(g) = n + 1
    BY <1>1, <1>2
  <2>2. Append(f, CommandIn(e)) \in Seq(Seq(Seq(S))) /\ Len(Append(f, CommandIn(e))) = n + 1
        /\ (\A i \in 1..n : Append(f, CommandIn(e))[i] = f[i]) /\ Append(f, CommandIn(e))[n+1] = CommandIn(e)
    <3> HIDE DEF f
    <3> QED
      BY <1>2, <2>1, AppendProperties
  <2>3. \A i \in 1..n : g[i] = f[i]
    BY <1>1
  <2>4. n + 1 \in 1..n+1 /\ \A i \in 1..n+1 : i \in 1..n \/ i = n + 1
    BY <1>1
  <2>5. g[n+1] = CommandIn(e)
    BY <1>1, <2>4
  <2> HIDE DEF f, g
  <2>6. \A i \in 1..n+1 : g[i] = Append(f, CommandIn(e))[i]
    BY <2>2, <2>3, <2>4, <2>5
  <2> QED
    BY <1>2, <2>1, <2>2, <2>6, SeqEqual
<1>4. Commands(t) = FlattenSeq(g) /\ Commands(s) = FlattenSeq(f)
  BY <1>1, CommandsIs
<1> HIDE DEF t, n, f, g
<1>5. FlattenSeq(g) = FlattenSeq(f) \o CommandIn(e)
  BY <1>2, <1>3, FlattenAppend
<1> QED
  BY <1>4, <1>5 DEF t

\* Commands are lines.
LEMMA CommandsType ==
  ASSUME NEW S, NEW s \in Seq(Seq(S))
  PROVE  Commands(s) \in Seq(Seq(S))
BY CommandLines, CommandsIs, FlattenType

\* Commands takes concatenations apart.
LEMMA CommandsConcat ==
  ASSUME NEW S, NEW s \in Seq(Seq(S)), NEW t \in Seq(Seq(S))
  PROVE  Commands(s \o t) = Commands(s) \o Commands(t)
<1> DEFINE P == {u \in Seq(Seq(S)) : Commands(s \o u) = Commands(s) \o Commands(u)}
<1>1. <<>> \in P
  <2>1. s \o <<>> = s /\ Commands(s) \in Seq(Seq(S))
    BY ConcatEmptySeq, CommandsType
  <2>2. Commands(s) \o <<>> = Commands(s)
    BY <2>1, ConcatEmptySeq
  <2> QED
    BY <2>1, <2>2, CommandsEmpty, EmptySeq
<1>2. ASSUME NEW u \in Seq(Seq(S)), NEW e \in Seq(S), u \in P
      PROVE  Append(u, e) \in P
  <2>1. Append(u, e) \in Seq(Seq(S)) /\ s \o u \in Seq(Seq(S))
    BY AppendProperties, ConcatProperties
  <2>2. s \o Append(u, e) = Append(s \o u, e)
    BY AppendConcat
  <2>3. Commands(s \o Append(u, e)) = Commands(s \o u) \o CommandIn(e)
    BY <2>1, <2>2, CommandsAppend
  <2>4. Commands(Append(u, e)) = Commands(u) \o CommandIn(e)
    BY CommandsAppend
  <2>5. Commands(s) \in Seq(Seq(S)) /\ Commands(u) \in Seq(Seq(S)) /\ CommandIn(e) \in Seq(Seq(S))
    BY CommandsType, EmptySeq DEF CommandIn
  <2>6. (Commands(s) \o Commands(u)) \o CommandIn(e) = Commands(s) \o (Commands(u) \o CommandIn(e))
    BY <2>5, ConcatAssociative
  <2> QED
    BY <1>2, <2>1, <2>3, <2>4, <2>6
<1> HIDE DEF P
<1>3. Seq(Seq(S)) \subseteq P
  BY <1>1, <1>2, SequenceInduction
<1> QED
  BY <1>3 DEF P

\* An empty line is no command.
LEMMA CommandsOfEmptyLine ==
  Commands(<<<<>>>>) = <<>>
<1>1. <<>> \in Seq(Seq({})) /\ <<>> \in Seq({})
  BY EmptySeq
<1>2. Commands(Append(<<>>, <<>>)) = Commands(<<>>) \o CommandIn(<<>>)
  BY <1>1, CommandsAppend
<1>3. CommandIn(<<>>) = <<>> /\ <<>> \o <<>> = <<>>
  BY <1>1, ConcatEmptySeq DEF CommandIn
<1> QED
  BY <1>2, <1>3, CommandsEmpty, AppendEmpty

-----------------------------------------------------------------------------
(* The stream. *)

\* The symbols of the stream, and the bytes of a delimiter.
Byte == Text \cup {"CR", "LF"}
Size(d) == Len(Ending[d])

\* The two delimiters and their sizes.
LEMMA EndingIs ==
  /\ Ending["CRLF"] = <<"CR", "LF">> /\ Ending["LF"] = <<"LF">>
  /\ Size("CRLF") = 2 /\ Size("LF") = 1
  /\ \A d \in {"CRLF", "LF"} : Ending[d] \in Seq(Byte)
<1>1. "CR" \in Byte /\ "LF" \in Byte
  BY DEF Byte
<1>2. Ending["CRLF"] = <<"CR", "LF">> /\ Ending["LF"] = <<"LF">>
  BY DEF Ending
<1>3. Len(<<"CR", "LF">>) = 2 /\ Len(<<"LF">>) = 1
  OBVIOUS
<1>4. <<"CR", "LF">> \in Seq(Byte) /\ <<"LF">> \in Seq(Byte)
  BY <1>1
<1>5. Size("CRLF") = 2 /\ Size("LF") = 1
  BY <1>2, <1>3 DEF Size
<1>6. \A d \in {"CRLF", "LF"} : Ending[d] \in Seq(Byte)
  BY <1>2, <1>4
<1> QED
  BY <1>2, <1>5, <1>6

\* A delimiter has no symbol of a line.
LEMMA Symbols ==
  "CR" # "LF" /\ "CR" \notin Text /\ "LF" \notin Text
BY TextAssumption

\* The first n lines as bytes.
Sent(ls, es, n) == FlattenSeq([i \in 1..n |-> ls[i] \o Ending[es[i]]])

\* Bytes s are n lines, and the k-th of them is behind all of what e[k] counts.
Cut(s, ls, es, e, n) ==
  /\ s \in Seq(Byte)
  /\ e \in [0..n -> Nat] /\ e[0] = 0 /\ e[n] = Len(s)
  /\ \A k \in 1..n :
       /\ ls[k] \in Seq(Text) /\ es[k] \in {"CRLF", "LF"}
       /\ e[k-1] + Len(ls[k]) + Size(es[k]) = e[k]
       /\ \A i \in 1..Len(ls[k]) : s[e[k-1] + i] = ls[k][i]
       /\ s[e[k]] = "LF"
       /\ es[k] = "CRLF" => s[e[k] - 1] = "CR"

\* No lines, no bytes.
LEMMA CutNone ==
  ASSUME NEW ls, NEW es
  PROVE  \E e : Cut(<<>>, ls, es, e, 0)
<1> DEFINE e == [k \in 0..0 |-> 0]
<1>1. e \in [0..0 -> Nat] /\ e[0] = 0
  OBVIOUS
<1>2. 1..0 = {}
  OBVIOUS
<1>3. <<>> \in Seq(Byte) /\ Len(<<>>) = 0
  BY EmptySeq
<1> HIDE DEF e
<1> QED
  BY <1>1, <1>2, <1>3 DEF Cut

\* No line is without its end.
LEMMA CutGrows ==
  ASSUME NEW n \in Nat, NEW ls, NEW es, NEW s, NEW e, Cut(s, ls, es, e, n),
         NEW k \in 0..n, NEW j \in 0..n, k < j
  PROVE  e[k] < e[j]
<1>1. \A i \in 0..n : e[i] \in Nat
  BY DEF Cut
<1>2. ASSUME NEW i \in 1..n
      PROVE  e[i-1] < e[i]
  <2>1. e[i-1] + Len(ls[i]) + Size(es[i]) = e[i] /\ ls[i] \in Seq(Text) /\ es[i] \in {"CRLF", "LF"}
    BY DEF Cut
  <2> DEFINE z == Size(es[i])
             l == Len(ls[i])
  <2>2. l \in Nat /\ z \in {1, 2}
    BY <2>1, LenProperties, EndingIs
  <2>3. e[i-1] \in Nat /\ e[i] \in Nat
    <3>1. i \in 0..n /\ i - 1 \in 0..n
      OBVIOUS
    <3> QED
      BY <1>1, <3>1
  <2>4. e[i-1] + l + z = e[i]
    BY <2>1
  <2> HIDE DEF z, l
  <2> QED
    BY <2>2, <2>3, <2>4
<1> DEFINE P == {i \in Nat : k + 1 + i <= n => e[k] < e[k+1+i]}
<1>3. 0 \in P
  <2>1. ASSUME k + 1 <= n
        PROVE  e[k] < e[k+1]
    <3>1. k + 1 \in 1..n /\ k + 1 - 1 = k
      BY <2>1
    <3> QED
      BY <1>2, <3>1
  <2> QED
    BY <2>1
<1>4. ASSUME NEW i \in Nat, i \in P
      PROVE  i + 1 \in P
  <2> SUFFICES ASSUME k + 1 + (i + 1) <= n
               PROVE  e[k] < e[k+1+(i+1)]
    OBVIOUS
  <2> DEFINE h == k + 1 + (i + 1)
  <2>1. h \in 1..n /\ h - 1 = k + 1 + i /\ k + 1 + i <= n /\ h \in 0..n /\ h - 1 \in 0..n /\ k \in 0..n
    OBVIOUS
  <2>2. e[k] < e[k+1+i]
    BY <1>4, <2>1
  <2> HIDE DEF h, P
  <2>3. e[h-1] < e[h] /\ e[k] < e[h-1]
    BY <1>2, <2>1, <2>2
  <2>4. e[k] < e[h]
    BY <1>1, <2>1, <2>3
  <2> QED
    BY <2>4 DEF h
<1> HIDE DEF P
<1>5. Nat \subseteq P
  BY <1>3, <1>4, SetInduction
<1>6. j - k - 1 \in Nat /\ k + 1 + (j - k - 1) = j /\ j <= n
  OBVIOUS
<1> QED
  BY <1>5, <1>6 DEF P

\* One more line makes the bytes longer.
LEMMA CutMore ==
  ASSUME NEW n \in Nat, NEW ls, NEW es, NEW s, NEW e, Cut(s, ls, es, e, n),
         ls[n+1] \in Seq(Text), es[n+1] \in {"CRLF", "LF"}
  PROVE  \E f : Cut(s \o (ls[n+1] \o Ending[es[n+1]]), ls, es, f, n + 1)
<1> DEFINE l == ls[n+1]
           d == es[n+1]
           t == s \o (l \o Ending[d])
           f == [k \in 0..n+1 |-> IF k = n + 1 THEN Len(t) ELSE e[k]]
<1>1. s \in Seq(Byte) /\ l \in Seq(Byte) /\ l \in Seq(Text) /\ Ending[d] \in Seq(Byte)
  <2>1. l \in Seq(Byte)
    BY SeqMonotonic DEF Byte
  <2> QED
    BY <2>1, EndingIs DEF Cut
<1>2. Len(s) \in Nat /\ Len(l) \in Nat /\ Size(d) \in Nat /\ Size(d) >= 1
  BY <1>1, LenProperties, EndingIs
<1>3. /\ t \in Seq(Byte)
      /\ Len(t) = Len(s) + Len(l) + Size(d)
      /\ \A i \in 1..Len(s) : t[i] = s[i]
      /\ \A i \in 1..Len(l) : t[Len(s) + i] = l[i]
      /\ \A i \in 1..Size(d) : t[Len(s) + Len(l) + i] = Ending[d][i]
  <2> DEFINE u == l \o Ending[d]
  <2>1. u \in Seq(Byte) /\ Len(u) = Len(l) + Size(d)
        /\ \A i \in 1..Len(l) + Size(d) : u[i] = IF i <= Len(l) THEN l[i] ELSE Ending[d][i - Len(l)]
    BY <1>1, ConcatProperties DEF Size
  <2> HIDE DEF u, l, d
  <2>2. s \o u \in Seq(Byte) /\ Len(s \o u) = Len(s) + Len(u)
        /\ \A i \in 1..Len(s) + Len(u) : (s \o u)[i] = IF i <= Len(s) THEN s[i] ELSE u[i - Len(s)]
    BY <1>1, <2>1, ConcatProperties
  <2>3. \A i \in 1..Len(l) : (s \o u)[Len(s) + i] = l[i]
    <3> SUFFICES ASSUME NEW i \in 1..Len(l)
                 PROVE  (s \o u)[Len(s) + i] = l[i]
      OBVIOUS
    <3>1. Len(s) + i \in 1..Len(s) + Len(u) /\ ~(Len(s) + i <= Len(s)) /\ Len(s) + i - Len(s) = i
          /\ i \in 1..Len(l) + Size(d) /\ i <= Len(l)
      BY <1>2, <2>1
    <3> QED
      BY <2>1, <2>2, <3>1
  <2>4. \A i \in 1..Size(d) : (s \o u)[Len(s) + Len(l) + i] = Ending[d][i]
    <3> SUFFICES ASSUME NEW i \in 1..Size(d)
                 PROVE  (s \o u)[Len(s) + Len(l) + i] = Ending[d][i]
      OBVIOUS
    <3> DEFINE p == Len(s) + Len(l) + i
               q == Len(l) + i
    <3>1. p \in 1..Len(s) + Len(u) /\ ~(p <= Len(s)) /\ p - Len(s) = q
          /\ q \in 1..Len(l) + Size(d) /\ ~(q <= Len(l)) /\ q - Len(l) = i
      BY <1>2, <2>1
    <3> HIDE DEF p, q
    <3>2. (s \o u)[p] = u[q] /\ u[q] = Ending[d][i]
      BY <2>1, <2>2, <3>1
    <3> QED
      BY <3>2 DEF p
  <2>5. \A i \in 1..Len(s) : (s \o u)[i] = s[i]
    BY <1>2, <2>1, <2>2
  <2>6. Len(s \o u) = Len(s) + Len(l) + Size(d)
    BY <1>2, <2>1, <2>2
  <2> QED
    BY <2>2, <2>3, <2>4, <2>5, <2>6 DEF u, l, d
<1> HIDE DEF l, d, t
<1>4. /\ e \in [0..n -> Nat] /\ e[0] = 0 /\ e[n] = Len(s)
      /\ d \in {"CRLF", "LF"}
  BY DEF Cut, d
<1>5. /\ f \in [0..n+1 -> Nat] /\ f[0] = 0 /\ f[n+1] = Len(t)
      /\ \A k \in 0..n : f[k] = e[k]
  <2>1. Len(t) \in Nat /\ 0 \in 0..n /\ n + 1 \in 0..n+1 /\ n + 1 # 0
    BY <1>2, <1>3
  <2>2. \A k \in 0..n+1 : k = n + 1 \/ (k \in 0..n /\ k # n + 1)
    OBVIOUS
  <2>3. \A k \in 0..n : k \in 0..n+1 /\ k # n + 1
    OBVIOUS
  <2>4. f \in [0..n+1 -> Nat]
    BY <1>4, <2>1, <2>2
  <2> QED
    BY <1>4, <2>1, <2>3, <2>4
<1> HIDE DEF f
<1>6. ASSUME NEW k \in 1..n+1
      PROVE  /\ ls[k] \in Seq(Text) /\ es[k] \in {"CRLF", "LF"}
             /\ f[k-1] + Len(ls[k]) + Size(es[k]) = f[k]
             /\ \A i \in 1..Len(ls[k]) : t[f[k-1] + i] = ls[k][i]
             /\ t[f[k]] = "LF"
             /\ es[k] = "CRLF" => t[f[k] - 1] = "CR"
  <2>1. CASE k = n + 1
    <3>1. f[k-1] = Len(s) /\ f[k] = Len(t) /\ ls[k] = l /\ es[k] = d
      <4>1. k - 1 = n /\ n \in 0..n
        BY <2>1
      <4> QED
        BY <1>4, <1>5, <2>1, <4>1 DEF l, d
    <3>2. d = "CRLF" => t[Len(t) - 1] = "CR" /\ t[Len(t)] = "LF"
      <4> SUFFICES ASSUME d = "CRLF"
                   PROVE  t[Len(t) - 1] = "CR" /\ t[Len(t)] = "LF"
        OBVIOUS
      <4>1. Size(d) = 2 /\ Ending[d][1] = "CR" /\ Ending[d][2] = "LF"
        BY EndingIs
      <4>2. Len(t) - 1 = Len(s) + Len(l) + 1 /\ Len(t) = Len(s) + Len(l) + 2 /\ 1 \in 1..Size(d) /\ 2 \in 1..Size(d)
        BY <1>2, <1>3, <4>1
      <4> QED
        BY <1>3, <4>1, <4>2
    <3>3. d = "LF" => t[Len(t)] = "LF"
      <4> SUFFICES ASSUME d = "LF"
                   PROVE  t[Len(t)] = "LF"
        OBVIOUS
      <4>1. Size(d) = 1 /\ Ending[d][1] = "LF"
        BY EndingIs
      <4>2. Len(t) = Len(s) + Len(l) + 1 /\ 1 \in 1..Size(d)
        BY <1>2, <1>3, <4>1
      <4> QED
        BY <1>3, <4>1, <4>2
    <3> QED
      BY <1>1, <1>3, <1>4, <3>1, <3>2, <3>3
  <2>2. CASE k \in 1..n
    <3>1. /\ ls[k] \in Seq(Text) /\ es[k] \in {"CRLF", "LF"}
          /\ e[k-1] + Len(ls[k]) + Size(es[k]) = e[k]
          /\ \A i \in 1..Len(ls[k]) : s[e[k-1] + i] = ls[k][i]
          /\ s[e[k]] = "LF"
          /\ es[k] = "CRLF" => s[e[k] - 1] = "CR"
      BY <2>2 DEF Cut
    <3>2. f[k] = e[k] /\ f[k-1] = e[k-1] /\ e[k] \in Nat /\ e[k-1] \in Nat
      <4>1. k \in 0..n /\ k - 1 \in 0..n
        BY <2>2
      <4> QED
        BY <1>4, <1>5, <4>1
    <3>3. Len(ls[k]) \in Nat /\ Size(es[k]) \in {1, 2} /\ (es[k] = "CRLF" => Size(es[k]) = 2)
      BY <3>1, EndingIs, LenProperties
    <3>4. e[k] <= Len(s)
      <4>1. k \in 0..n /\ n \in 0..n /\ (k = n \/ k < n)
        BY <2>2
      <4> QED
        BY <1>2, <1>4, <3>2, <4>1, CutGrows
    <3>5. \A i \in 1..Len(ls[k]) : e[k-1] + i \in 1..Len(s)
      BY <1>2, <3>1, <3>2, <3>3, <3>4
    <3>6. e[k] \in 1..Len(s) /\ (es[k] = "CRLF" => e[k] - 1 \in 1..Len(s))
      <4> DEFINE z == Size(es[k])
      <4>1. e[k-1] + Len(ls[k]) + z = e[k] /\ z \in {1, 2} /\ (es[k] = "CRLF" => z = 2)
        BY <3>1, <3>3
      <4> HIDE DEF z
      <4> QED
        BY <1>2, <3>2, <3>3, <3>4, <4>1
    <3> QED
      BY <1>3, <3>1, <3>2, <3>5, <3>6
  <2>3. k = n + 1 \/ k \in 1..n
    OBVIOUS
  <2> QED
    BY <2>1, <2>2, <2>3
<1>7. Cut(t, ls, es, f, n + 1)
  BY <1>3, <1>5, <1>6 DEF Cut
<1> QED
  BY <1>7 DEF t, l, d

\* What a peer sends is cut into its lines.
LEMMA SentIsCut ==
  ASSUME NEW m \in Nat, NEW ls \in [1..m -> Seq(Text)], NEW es \in [1..m -> {"CRLF", "LF"}]
  PROVE  \E e : Cut(FlattenSeq([i \in 1..m |-> ls[i] \o Ending[es[i]]]), ls, es, e, m)
<1> DEFINE L(i) == ls[i] \o Ending[es[i]]
           B(n) == [i \in 1..n |-> L(i)]
           P == {n \in Nat : n <= m => \E e : Cut(FlattenSeq(B(n)), ls, es, e, n)}
<1>1. \A i \in 1..m : L(i) \in Seq(Byte)
  <2> SUFFICES ASSUME NEW i \in 1..m
               PROVE  ls[i] \o Ending[es[i]] \in Seq(Byte)
    OBVIOUS
  <2>1. ls[i] \in Seq(Byte) /\ Ending[es[i]] \in Seq(Byte)
    <3>1. ls[i] \in Seq(Text) /\ Text \subseteq Byte
      BY DEF Byte
    <3> QED
      BY <3>1, SeqMonotonic, EndingIs
  <2> QED
    BY <2>1, ConcatProperties
<1>2. 0 \in P
  <2>1. B(0) = <<>>
    OBVIOUS
  <2>2. \E e : Cut(FlattenSeq(B(0)), ls, es, e, 0)
    BY <2>1, FlattenEmpty, CutNone
  <2> QED
    BY <2>2
<1>3. ASSUME NEW n \in Nat, n \in P
      PROVE  n + 1 \in P
  <2> HIDE DEF L, B
  <2> SUFFICES ASSUME n + 1 <= m
               PROVE  \E e : Cut(FlattenSeq(B(n+1)), ls, es, e, n + 1)
    OBVIOUS
  <2>1. PICK e : Cut(FlattenSeq(B(n)), ls, es, e, n)
    BY <1>3
  <2> USE DEF L, B
  <2>2. n + 1 \in 1..m /\ ls[n+1] \in Seq(Text) /\ es[n+1] \in {"CRLF", "LF"}
    OBVIOUS
  <2>3. B(n) \in Seq(Seq(Byte)) /\ B(n+1) \in Seq(Seq(Byte))
    <3> HIDE DEF L
    <3>1. \A i \in 1..n : L(i) \in Seq(Byte)
      BY <1>1
    <3>2. \A i \in 1..n+1 : L(i) \in Seq(Byte)
      BY <1>1
    <3>3. n + 1 \in Nat
      OBVIOUS
    <3>4. B(n) \in Seq(Seq(Byte))
      BY <3>1, IsASeq
    <3>5. B(n+1) \in Seq(Seq(Byte))
      BY <3>2, <3>3, IsASeq
    <3> QED
      BY <3>4, <3>5
  <2>4. B(n+1) = Append(B(n), L(n+1))
    <3> DEFINE f == B(n)
               g == B(n+1)
               x == L(n+1)
    <3>1. Len(f) = n /\ Len(g) = n + 1 /\ x \in Seq(Byte)
      BY <1>1, <2>2
    <3>2. (\A i \in 1..n : g[i] = f[i]) /\ g[n+1] = x
      <4>1. n + 1 \in 1..n+1 /\ \A i \in 1..n : i \in 1..n+1
        OBVIOUS
      <4> HIDE DEF L
      <4>2. g[n+1] = x
        BY <4>1
      <4>3. \A i \in 1..n : g[i] = L(i) /\ f[i] = L(i)
        BY <4>1
      <4> QED
        BY <4>2, <4>3
    <3> HIDE DEF f, g, x
    <3>3. f \in Seq(Seq(Byte)) /\ g \in Seq(Seq(Byte))
      BY <2>3 DEF f, g
    <3>4. Append(f, x) \in Seq(Seq(Byte)) /\ Len(Append(f, x)) = n + 1
          /\ (\A i \in 1..n : Append(f, x)[i] = f[i]) /\ Append(f, x)[n+1] = x
      BY <3>1, <3>3, AppendProperties
    <3>5. \A i \in 1..n+1 : i \in 1..n \/ i = n + 1
      OBVIOUS
    <3>6. \A i \in 1..n+1 : g[i] = Append(f, x)[i]
      BY <3>2, <3>4, <3>5
    <3>7. g = Append(f, x)
      BY <3>1, <3>3, <3>4, <3>6, SeqEqual
    <3> QED
      BY <3>7 DEF f, g, x
  <2>5. FlattenSeq(B(n+1)) = FlattenSeq(B(n)) \o L(n+1)
    <3>1. L(n+1) \in Seq(Byte)
      BY <1>1, <2>2
    <3> HIDE DEF B, L
    <3> QED
      BY <2>3, <2>4, <3>1, FlattenAppend
  <2>6. \E f : Cut(FlattenSeq(B(n)) \o (ls[n+1] \o Ending[es[n+1]]), ls, es, f, n + 1)
    <3> HIDE DEF B
    <3> QED
      BY <2>1, <2>2, CutMore
  <2> HIDE DEF B
  <2> QED
    BY <2>5, <2>6
<1> HIDE DEF P
<1>4. m \in P
  BY <1>2, <1>3, SetInduction
<1> HIDE DEF B, L
<1>5. \E e : Cut(FlattenSeq(B(m)), ls, es, e, m)
  BY <1>4 DEF P
<1> QED
  BY <1>5, Zenon DEF B, L

\* Every byte is of one of the lines: of its text, or of its end.
LEMMA CutAt ==
  ASSUME NEW n \in Nat, NEW ls, NEW es, NEW s, NEW e, Cut(s, ls, es, e, n),
         NEW i \in 1..Len(s)
  PROVE  \E k \in 1..n : e[k-1] < i /\ i <= e[k]
<1> DEFINE S == {k \in 0..n : i <= e[k]}
<1>1. (\A k \in 0..n : e[k] \in Nat) /\ e[0] = 0 /\ e[n] = Len(s) /\ s \in Seq(Byte) /\ n \in 0..n
  BY DEF Cut
<1>2. S \subseteq Nat /\ S # {}
  <2>1. n \in S
    BY <1>1
  <2> QED
    BY <2>1
<1>3. PICK k \in S : \A j \in S : k <= j
  <2> HIDE DEF S
  <2> QED
    BY <1>2, Least
<1>4. k \in 0..n /\ i <= e[k] /\ k # 0
  BY <1>1, <1>3
<1>5. k - 1 \in 0..n /\ k - 1 \notin S /\ k \in 1..n
  BY <1>3, <1>4
<1>6. e[k-1] < i
  BY <1>1, <1>5
<1> QED
  BY <1>4, <1>5, <1>6

\* Each byte of a line is its LF, the CR before it, or text.
LEMMA CutByte ==
  ASSUME NEW n \in Nat, NEW ls, NEW es, NEW s, NEW e, Cut(s, ls, es, e, n),
         NEW k \in 1..n, NEW i \in 1..Len(s), e[k-1] < i, i <= e[k]
  PROVE  \/ i = e[k] /\ s[i] = "LF"
         \/ i = e[k] - 1 /\ s[i] = "CR" /\ es[k] = "CRLF"
         \/ i <= e[k] - Size(es[k]) /\ s[i] \in Text
<1> DEFINE z == Size(es[k])
           l == Len(ls[k])
<1>1. /\ ls[k] \in Seq(Text) /\ es[k] \in {"CRLF", "LF"}
      /\ e[k-1] + l + z = e[k]
      /\ \A j \in 1..l : s[e[k-1] + j] = ls[k][j]
      /\ s[e[k]] = "LF"
      /\ es[k] = "CRLF" => s[e[k] - 1] = "CR"
  BY DEF Cut
<1>2. l \in Nat /\ z \in {1, 2} /\ (z = 2 => es[k] = "CRLF")
  BY <1>1, LenProperties, EndingIs
<1>3. e[k-1] \in Nat /\ e[k] \in Nat
  <2>1. k \in 0..n /\ k - 1 \in 0..n
    OBVIOUS
  <2> QED
    BY <2>1 DEF Cut
<1>4. i \in Nat
  BY LenProperties DEF Cut
<1> HIDE DEF z, l
<1>5. CASE i <= e[k] - z
  <2>1. i - e[k-1] \in 1..l /\ e[k-1] + (i - e[k-1]) = i
    <3>1. e[k-1] + l + z = e[k]
      BY <1>1
    <3> QED
      BY <1>2, <1>3, <1>4, <1>5, <3>1
  <2>2. s[i] = ls[k][i - e[k-1]]
    BY <1>1, <2>1
  <2>3. ls[k][i - e[k-1]] \in Text
    BY <1>1, <2>1, ElementOfSeq DEF l
  <2> QED
    BY <1>5, <2>2, <2>3 DEF z
<1>6. CASE ~(i <= e[k] - z)
  <2>1. i = e[k] \/ (es[k] = "CRLF" /\ i = e[k] - 1)
    <3>1. e[k-1] + l + z = e[k]
      BY <1>1
    <3> QED
      BY <1>2, <1>3, <1>4, <1>6, <3>1
  <2> QED
    BY <1>1, <2>1
<1> QED
  BY <1>5, <1>6

\* An LF ends a line.
LEMMA CutLF ==
  ASSUME NEW n \in Nat, NEW ls, NEW es, NEW s, NEW e, Cut(s, ls, es, e, n),
         NEW i \in 1..Len(s), s[i] = "LF"
  PROVE  \E k \in 1..n : i = e[k]
<1>1. PICK k \in 1..n : e[k-1] < i /\ i <= e[k]
  BY CutAt
<1> QED
  BY <1>1, CutByte, Symbols

\* A CR is before the end of a line ended with CR LF.
LEMMA CutCR ==
  ASSUME NEW n \in Nat, NEW ls, NEW es, NEW s, NEW e, Cut(s, ls, es, e, n),
         NEW i \in 1..Len(s), s[i] = "CR"
  PROVE  \E k \in 1..n : i = e[k] - 1 /\ es[k] = "CRLF"
<1>1. PICK k \in 1..n : e[k-1] < i /\ i <= e[k]
  BY CutAt
<1> QED
  BY <1>1, CutByte, Symbols

\* Where a line ends, and where its text lies.
LEMMA CutEnd ==
  ASSUME NEW n \in Nat, NEW ls, NEW es, NEW s, NEW e, Cut(s, ls, es, e, n),
         NEW k \in 1..n
  PROVE  /\ e[k-1] \in Nat /\ e[k] \in 1..Len(s) /\ es[k] \in {"CRLF", "LF"}
         /\ e[k-1] <= e[k] - Size(es[k])
         /\ s[e[k]] = "LF"
         /\ es[k] = "CRLF" => s[e[k] - 1] = "CR"
         /\ SubSeq(s, e[k-1] + 1, e[k] - Size(es[k])) = ls[k]
<1> DEFINE z == Size(es[k])
           l == Len(ls[k])
<1>1. /\ ls[k] \in Seq(Text) /\ es[k] \in {"CRLF", "LF"} /\ s \in Seq(Byte)
      /\ e[k-1] + l + z = e[k] /\ e[n] = Len(s)
      /\ \A j \in 1..l : s[e[k-1] + j] = ls[k][j]
      /\ s[e[k]] = "LF"
      /\ es[k] = "CRLF" => s[e[k] - 1] = "CR"
  BY DEF Cut
<1>2. l \in Nat /\ z \in {1, 2} /\ Len(s) \in Nat
  BY <1>1, LenProperties, EndingIs
<1>3. e[k-1] \in Nat /\ e[k] \in Nat
  <2>1. k \in 0..n /\ k - 1 \in 0..n
    OBVIOUS
  <2> QED
    BY <2>1 DEF Cut
<1>4. e[k] <= Len(s)
  <2>1. k \in 0..n /\ n \in 0..n /\ (k = n \/ k < n)
    OBVIOUS
  <2> QED
    BY <1>1, <1>2, <1>3, <2>1, CutGrows
<1>5. SubSeq(s, e[k-1] + 1, e[k] - z) = ls[k]
  <2> DEFINE a == e[k-1] + 1
             b == e[k] - z
  <2> HIDE DEF z, l
  <2>1. /\ a \in Int /\ b \in Int /\ b - a + 1 = l
        /\ \A i \in a..b : i \in 1..Len(s)
        /\ l = IF a <= b THEN b - a + 1 ELSE 0
    <3> DEFINE c == e[k-1]
               f == e[k]
    <3>1. c + l + z = f /\ c \in Nat /\ f \in Nat /\ f <= Len(s)
      BY <1>1, <1>3, <1>4
    <3> HIDE DEF c, f
    <3>2. /\ c + 1 \in Int /\ f - z \in Int /\ f - z - (c + 1) + 1 = l
          /\ \A i \in c+1..f-z : i \in 1..Len(s)
          /\ l = IF c + 1 <= f - z THEN f - z - (c + 1) + 1 ELSE 0
      BY <1>2, <3>1
    <3> QED
      BY <3>2 DEF c, f
  <2>2. \A i \in 1..l : a + i - 1 = e[k-1] + i
    BY <1>2, <1>3
  <2> HIDE DEF a, b
  <2>3. \A i \in a..b : s[i] \in Byte
    BY <1>1, <2>1, ElementOfSeq
  <2>4. SubSeq(s, a, b) \in Seq(Byte) /\ Len(SubSeq(s, a, b)) = l
        /\ \A i \in 1..l : SubSeq(s, a, b)[i] = s[a + i - 1]
    BY <2>1, <2>3, SubSeqProperties
  <2>5. ls[k] \in Seq(Byte)
    BY <1>1, SeqMonotonic DEF Byte
  <2>6. \A i \in 1..l : SubSeq(s, a, b)[i] = ls[k][i]
    BY <1>1, <2>2, <2>4
  <2>7. SubSeq(s, a, b) = ls[k]
    BY <2>4, <2>5, <2>6, SeqEqual DEF l
  <2> QED
    BY <2>7 DEF a, b
<1> HIDE DEF z, l
<1>6. e[k] \in 1..Len(s) /\ e[k-1] <= e[k] - z
  BY <1>1, <1>2, <1>3, <1>4
<1> QED
  BY <1>1, <1>3, <1>5, <1>6 DEF z

-----------------------------------------------------------------------------
(* Where delimiters occur in what has been received. *)

\* Where a delimiter occurs, symbol by symbol.
LEMMA OccurrenceSymbols ==
  ASSUME NEW buf \in Seq(Byte), NEW d \in {"CRLF", "LF"}, NEW i \in Nat
  PROVE  i \in Occurrences(buf, d) <=>
           /\ i >= 1 /\ i + Size(d) - 1 <= Len(buf)
           /\ d = "LF" => buf[i] = "LF"
           /\ d = "CRLF" => buf[i] = "CR" /\ buf[i+1] = "LF"
<1> DEFINE z == Size(d)
           w == SubSeq(buf, i, i + z - 1)
<1>1. z \in {1, 2} /\ (d = "LF" => z = 1) /\ (d = "CRLF" => z = 2) /\ Len(buf) \in Nat
  BY EndingIs, LenProperties
<1>2. i \in Occurrences(buf, d) <=> (i \in 1..Len(buf) /\ i + z - 1 <= Len(buf) /\ w = Ending[d])
  BY DEF Occurrences, Size
<1> SUFFICES ASSUME i >= 1, i + z - 1 <= Len(buf)
             PROVE  w = Ending[d] <=> /\ d = "LF" => buf[i] = "LF"
                                      /\ d = "CRLF" => buf[i] = "CR" /\ buf[i+1] = "LF"
  BY <1>1, <1>2
<1>3. w \in Seq(Byte) /\ Len(w) = z /\ w[1] = buf[i] /\ (z = 2 => w[2] = buf[i+1])
  <2> DEFINE h == i + z - 1
  <2>1. h \in Int /\ i \in Int /\ i <= h /\ h - i + 1 = z /\ h <= Len(buf)
    BY <1>1
  <2> HIDE DEF z, h
  <2>2. \A j \in i..h : buf[j] \in Byte
    <3>1. \A j \in i..h : j \in 1..Len(buf)
      BY <1>1, <2>1
    <3> QED
      BY <3>1, ElementOfSeq
  <2>3. /\ SubSeq(buf, i, h) \in Seq(Byte) /\ Len(SubSeq(buf, i, h)) = h - i + 1
        /\ \A j \in 1..h-i+1 : SubSeq(buf, i, h)[j] = buf[i+j-1]
    BY <2>1, <2>2, SubSeqProperties
  <2>4. 1 \in 1..z /\ (z = 2 => 2 \in 1..z) /\ i + 1 - 1 = i /\ i + 2 - 1 = i + 1
    BY <1>1
  <2> QED
    BY <2>1, <2>3, <2>4 DEF h
<1> HIDE DEF w
<1>4. CASE d = "LF"
  <2>1. Ending[d] = <<"LF">> /\ z = 1 /\ d # "CRLF"
    BY <1>1, <1>4, EndingIs
  <2>2. w = <<"LF">> <=> w[1] = "LF"
    <3>1. w = <<"LF">> => w[1] = "LF"
      OBVIOUS
    <3>2. ASSUME w[1] = "LF"
          PROVE  w = <<"LF">>
      <4>1. <<"LF">> \in Seq(Byte) /\ Len(<<"LF">>) = 1
        BY EndingIs
      <4>2. \A j \in 1..Len(w) : w[j] = <<"LF">>[j]
        <5>1. \A j \in 1..1 : j = 1
          OBVIOUS
        <5>2. <<"LF">>[1] = "LF"
          OBVIOUS
        <5> QED
          BY <1>3, <2>1, <3>2, <5>1, <5>2
      <4>3. Len(w) = Len(<<"LF">>)
        BY <1>3, <2>1, <4>1
      <4> QED
        BY <1>3, <4>1, <4>2, <4>3, SeqEqual
    <3> QED
      BY <3>1, <3>2
  <2> QED
    BY <1>3, <1>4, <2>1, <2>2
<1>5. CASE d = "CRLF"
  <2>1. Ending[d] = <<"CR", "LF">> /\ z = 2 /\ d # "LF"
    BY <1>1, <1>5, EndingIs
  <2>2. w = <<"CR", "LF">> <=> (w[1] = "CR" /\ w[2] = "LF")
    <3>1. w = <<"CR", "LF">> => (w[1] = "CR" /\ w[2] = "LF")
      OBVIOUS
    <3>2. ASSUME w[1] = "CR", w[2] = "LF"
          PROVE  w = <<"CR", "LF">>
      <4>1. <<"CR", "LF">> \in Seq(Byte) /\ Len(<<"CR", "LF">>) = 2
        BY EndingIs
      <4>2. \A j \in 1..Len(w) : w[j] = <<"CR", "LF">>[j]
        <5>1. \A j \in 1..2 : j = 1 \/ j = 2
          OBVIOUS
        <5>2. <<"CR", "LF">>[1] = "CR" /\ <<"CR", "LF">>[2] = "LF"
          OBVIOUS
        <5> QED
          BY <1>3, <2>1, <3>2, <5>1, <5>2
      <4>3. Len(w) = Len(<<"CR", "LF">>)
        BY <1>3, <2>1, <4>1
      <4> QED
        BY <1>3, <4>1, <4>2, <4>3, SeqEqual
    <3> QED
      BY <3>1, <3>2
  <2> QED
    BY <1>3, <1>5, <2>1, <2>2
<1> QED
  BY <1>4, <1>5

\* What has been received of s behind its first b bytes.
LEMMA Window ==
  ASSUME NEW S, NEW s \in Seq(S), NEW b \in Nat, NEW r \in Nat, b <= r, r <= Len(s)
  PROVE  /\ SubSeq(s, b + 1, r) \in Seq(S)
         /\ Len(SubSeq(s, b + 1, r)) = r - b
         /\ \A i \in 1..r-b : SubSeq(s, b + 1, r)[i] = s[b+i]
<1> DEFINE a == b + 1
<1>1. a \in Int /\ r \in Int /\ (\A i \in a..r : i \in 1..Len(s)) /\ r - a + 1 = r - b
      /\ (IF a <= r THEN r - a + 1 ELSE 0) = r - b
  BY LenProperties
<1>2. \A i \in 1..r-b : a + i - 1 = b + i
  OBVIOUS
<1> HIDE DEF a
<1>3. \A i \in a..r : s[i] \in S
  BY <1>1, ElementOfSeq
<1>4. /\ SubSeq(s, a, r) \in Seq(S)
      /\ Len(SubSeq(s, a, r)) = IF a <= r THEN r - a + 1 ELSE 0
      /\ \A i \in 1..r-a+1 : SubSeq(s, a, r)[i] = s[a+i-1]
  BY <1>1, <1>3, SubSeqProperties
<1> QED
  BY <1>1, <1>2, <1>4 DEF a

\* A delimiter that occurs there is the end of a line, ...
LEMMA OccurrenceEnds ==
  ASSUME NEW n \in Nat, NEW ls, NEW es, NEW s, NEW e, Cut(s, ls, es, e, n),
         NEW k \in 0..n, NEW r \in Nat, e[k] <= r, r <= Len(s), NEW d \in {"CRLF", "LF"},
         NEW i \in Occurrences(SubSeq(s, e[k] + 1, r), d)
  PROVE  \E j \in k+1..n : e[k] + i + Size(d) - 1 = e[j] /\ e[j] <= r /\ (d = "CRLF" => es[j] = "CRLF")
<1> DEFINE b == e[k]
           z == Size(d)
           buf == SubSeq(s, b + 1, r)
<1>1. s \in Seq(Byte) /\ b \in Nat /\ Len(s) \in Nat
  BY LenProperties DEF Cut
<1>2. z \in {1, 2} /\ (d = "LF" => z = 1) /\ (d = "CRLF" => z = 2)
  BY EndingIs
<1>3. buf \in Seq(Byte) /\ Len(buf) = r - b /\ \A h \in 1..r-b : buf[h] = s[b+h]
  <2> HIDE DEF b
  <2> QED
    BY <1>1, Window DEF b
<1>4. i \in Nat
  BY <1>3, LenProperties DEF Occurrences
<1> HIDE DEF z, buf
<1>5. /\ i >= 1 /\ i + z - 1 <= r - b
      /\ d = "LF" => buf[i] = "LF"
      /\ d = "CRLF" => buf[i] = "CR" /\ buf[i+1] = "LF"
  <2>1. i \in Occurrences(buf, d)
    BY DEF buf
  <2>2. /\ i >= 1 /\ i + Size(d) - 1 <= Len(buf)
        /\ d = "LF" => buf[i] = "LF"
        /\ d = "CRLF" => buf[i] = "CR" /\ buf[i+1] = "LF"
    BY <1>3, <1>4, <2>1, OccurrenceSymbols
  <2>3. i + z - 1 <= r - b
    BY <1>3, <2>2 DEF z
  <2> QED
    BY <2>2, <2>3
<1> DEFINE p == b + i + z - 1
<1>6. p \in 1..Len(s) /\ p <= r /\ b < p /\ p \in Nat
  <2> HIDE DEF b
  <2> QED
    BY <1>1, <1>2, <1>4, <1>5 DEF b
<1>7. s[p] = "LF"
  <2>1. CASE d = "LF"
    <3>1. i \in 1..r-b /\ p = b + i
      BY <1>1, <1>2, <1>4, <1>5, <2>1
    <3> QED
      BY <1>3, <1>5, <2>1, <3>1
  <2>2. CASE d = "CRLF"
    <3>1. i + 1 \in 1..r-b /\ p = b + (i + 1)
      <4>1. z = 2 /\ i >= 1 /\ i + z - 1 <= r - b
        BY <1>2, <1>5, <2>2
      <4> HIDE DEF b
      <4> QED
        BY <1>1, <1>4, <4>1
    <3> QED
      BY <1>3, <1>5, <2>2, <3>1
  <2> QED
    BY <2>1, <2>2
<1> HIDE DEF p
<1>8. PICK j \in 1..n : p = e[j]
  BY <1>6, <1>7, CutLF
<1>9. j \in k+1..n
  <2>1. ~(j <= k)
    <3>1. j <= k => e[j] <= e[k]
      <4>1. j \in 0..n /\ (j <= k => j = k \/ j < k)
        OBVIOUS
      <4>2. e[j] \in Nat /\ e[k] \in Nat
        BY <4>1 DEF Cut
      <4>3. j < k => e[j] < e[k]
        BY <4>1, CutGrows
      <4> QED
        BY <4>1, <4>2, <4>3
    <3> QED
      BY <1>1, <1>6, <1>8, <3>1
  <2> QED
    BY <2>1
<1>10. d = "CRLF" => es[j] = "CRLF"
  <2> SUFFICES ASSUME d = "CRLF"
               PROVE  es[j] = "CRLF"
    OBVIOUS
  <2>1. i \in 1..r-b /\ p - 1 = b + i /\ p - 1 \in 1..Len(s)
    BY <1>1, <1>2, <1>4, <1>5, <1>6 DEF p
  <2>2. s[p-1] = "CR"
    BY <1>3, <1>5, <2>1
  <2>3. PICK h \in 1..n : p - 1 = e[h] - 1 /\ es[h] = "CRLF"
    BY <2>1, <2>2, CutCR
  <2>4. e[h] = e[j] /\ e[h] \in Nat /\ e[j] \in Nat
    <3>1. e[h] \in 1..Len(s) /\ e[j] \in 1..Len(s)
      BY CutEnd
    <3> QED
      BY <1>6, <1>8, <2>3, <3>1
  <2>5. h = j
    <3>1. h \in 0..n /\ j \in 0..n /\ (h < j \/ j < h \/ h = j)
      OBVIOUS
    <3> QED
      BY <2>4, <3>1, CutGrows
  <2> QED
    BY <2>3, <2>5
<1> QED
  BY <1>6, <1>8, <1>9, <1>10 DEF p, b, z

\* ... and the end of a line that lies there is one.
LEMMA EndOccurs ==
  ASSUME NEW n \in Nat, NEW ls, NEW es, NEW s, NEW e, Cut(s, ls, es, e, n),
         NEW k \in 0..n, NEW r \in Nat, e[k] <= r, r <= Len(s), NEW d \in {"CRLF", "LF"},
         NEW j \in k+1..n, e[j] <= r, d = "CRLF" => es[j] = "CRLF"
  PROVE  e[j] - Size(d) + 1 - e[k] \in Occurrences(SubSeq(s, e[k] + 1, r), d)
<1> DEFINE b == e[k]
           f == e[j]
           z == Size(d)
           buf == SubSeq(s, b + 1, r)
           i == f - z + 1 - b
<1>1. s \in Seq(Byte) /\ b \in Nat /\ Len(s) \in Nat
  BY LenProperties DEF Cut
<1>2. z \in {1, 2} /\ (d = "LF" => z = 1) /\ (d = "CRLF" => z = 2)
  BY EndingIs
<1>3. buf \in Seq(Byte) /\ Len(buf) = r - b /\ \A h \in 1..r-b : buf[h] = s[b+h]
  <2> HIDE DEF b
  <2> QED
    BY <1>1, Window DEF b
<1>4. j \in 1..n
  OBVIOUS
<1>5. /\ e[j-1] \in Nat /\ f \in 1..Len(s) /\ es[j] \in {"CRLF", "LF"}
      /\ e[j-1] <= f - Size(es[j]) /\ s[f] = "LF" /\ (es[j] = "CRLF" => s[f-1] = "CR")
  BY <1>4, CutEnd
<1>6. z <= Size(es[j]) /\ Size(es[j]) \in {1, 2}
  <2>1. d = "CRLF" => Size(es[j]) = 2
    BY EndingIs
  <2>2. Size(es[j]) \in {1, 2}
    BY <1>5, EndingIs
  <2> QED
    BY <1>2, <2>1, <2>2
<1>7. b <= e[j-1]
  <2>1. j - 1 \in 0..n /\ (k = j - 1 \/ k < j - 1)
    OBVIOUS
  <2>2. k < j - 1 => e[k] < e[j-1]
    BY <2>1, CutGrows
  <2> QED
    BY <1>1, <1>5, <2>1, <2>2
<1>8. i \in Nat /\ i >= 1 /\ i + z - 1 = f - b /\ f - b \in 1..r-b /\ i \in 1..r-b /\ b + i = f - z + 1
      /\ f \in Nat
  <2> DEFINE c == e[j-1]
             y == Size(es[j])
  <2>1. c \in Nat /\ y \in {1, 2} /\ z <= y /\ c <= f - y /\ b <= c /\ f <= r /\ f \in Nat
    BY <1>1, <1>5, <1>6, <1>7
  <2> HIDE DEF c, y, b, f, z
  <2> QED
    BY <1>1, <1>2, <2>1
<1>9. d = "LF" => buf[i] = "LF"
  <2> SUFFICES ASSUME d = "LF"
               PROVE  buf[i] = "LF"
    OBVIOUS
  <2>1. b + i = f
    <3> HIDE DEF i, b, f, z
    <3> QED
      BY <1>1, <1>2, <1>8
  <2> HIDE DEF i, b, f, z, buf
  <2> QED
    BY <1>3, <1>5, <1>8, <2>1
<1>10. d = "CRLF" => buf[i] = "CR" /\ buf[i+1] = "LF"
  <2> SUFFICES ASSUME d = "CRLF"
               PROVE  buf[i] = "CR" /\ buf[i+1] = "LF"
    OBVIOUS
  <2>1. b + i = f - 1 /\ b + (i + 1) = f /\ i + 1 \in 1..r-b
    <3> HIDE DEF i, b, f, z
    <3> QED
      BY <1>1, <1>2, <1>8
  <2> HIDE DEF i, b, f, z, buf
  <2> QED
    BY <1>3, <1>5, <1>8, <2>1
<1> HIDE DEF i, f, z, buf
<1>11. i + z - 1 <= Len(buf)
  BY <1>3, <1>8, <1>1, <1>5
<1>12. i \in Occurrences(buf, d)
  BY <1>3, <1>8, <1>9, <1>10, <1>11, OccurrenceSymbols DEF z
<1> QED
  BY <1>12 DEF i, b, f, z, buf

-----------------------------------------------------------------------------
(* Pieces. *)

\* Where d occurs from position i on.
Later(s, d, i) == {j \in Occurrences(s, d) : j >= i}

\* The function behind Pieces, from position a on.
From(f, s, d, a) ==
  f = [i \in a..(Len(s) + 1) |->
         IF Later(s, d, i) = {} THEN <<SubSeq(s, i, Len(s))>>
         ELSE <<SubSeq(s, i, Min(Later(s, d, i)) - 1)>> \o f[Min(Later(s, d, i)) + Len(Ending[d])]]

\* The next occurrence is one, and there is none before it.
LEMMA LaterIs ==
  ASSUME NEW s \in Seq(Byte), NEW d \in {"CRLF", "LF"}, NEW i \in 1..Len(s)+1, Later(s, d, i) # {}
  PROVE  LET m == Min(Later(s, d, i))
         IN  /\ m \in Occurrences(s, d) /\ m \in Nat /\ i <= m
             /\ m + Len(Ending[d]) \in i+1..Len(s)+1
             /\ \A j \in Occurrences(s, d) : j >= i => m <= j
<1> DEFINE m == Min(Later(s, d, i))
<1>1. Len(s) \in Nat /\ Size(d) \in {1, 2}
  BY LenProperties, EndingIs
<1>2. \A j \in Later(s, d, i) : j \in Nat
  BY <1>1 DEF Later, Occurrences
<1>3. m \in Later(s, d, i) /\ \A j \in Later(s, d, i) : m <= j
  BY <1>2, MinIs
<1> HIDE DEF m
<1>4. m \in Occurrences(s, d) /\ m \in Nat /\ i <= m
  BY <1>2, <1>3 DEF Later
<1>5. m + Size(d) - 1 <= Len(s)
  BY <1>4, OccurrenceSymbols
<1>6. m + Size(d) \in i+1..Len(s)+1
  BY <1>1, <1>4, <1>5
<1>7. \A j \in Occurrences(s, d) : j >= i => m <= j
  BY <1>3 DEF Later
<1> QED
  BY <1>4, <1>6, <1>7 DEF m, Size

\* Such a function at one point.
LEMMA FromIs ==
  ASSUME NEW f, NEW s, NEW d, NEW a \in Nat, From(f, s, d, a), NEW i \in a..(Len(s) + 1)
  PROVE  f[i] = IF Later(s, d, i) = {} THEN <<SubSeq(s, i, Len(s))>>
                ELSE <<SubSeq(s, i, Min(Later(s, d, i)) - 1)>>
                       \o f[Min(Later(s, d, i)) + Len(Ending[d])]
<1> DEFINE H(h) == IF Later(s, d, h) = {} THEN <<SubSeq(s, h, Len(s))>>
                   ELSE <<SubSeq(s, h, Min(Later(s, d, h)) - 1)>>
                          \o f[Min(Later(s, d, h)) + Len(Ending[d])]
           g == [h \in a..(Len(s) + 1) |-> H(h)]
<1>1. f = g
  BY DEF From
<1>2. g[i] = H(i)
  <2> HIDE DEF H
  <2> QED
    OBVIOUS
<1> HIDE DEF g
<1> QED
  BY <1>1, <1>2

\* A function with those values is such a function.
LEMMA FromIf ==
  ASSUME NEW f, NEW s, NEW d, NEW a \in Nat, f = [i \in a..(Len(s) + 1) |-> f[i]],
         \A i \in a..(Len(s) + 1) :
           f[i] = IF Later(s, d, i) = {} THEN <<SubSeq(s, i, Len(s))>>
                  ELSE <<SubSeq(s, i, Min(Later(s, d, i)) - 1)>>
                         \o f[Min(Later(s, d, i)) + Len(Ending[d])]
  PROVE  From(f, s, d, a)
<1> DEFINE H(h) == IF Later(s, d, h) = {} THEN <<SubSeq(s, h, Len(s))>>
                   ELSE <<SubSeq(s, h, Min(Later(s, d, h)) - 1)>>
                          \o f[Min(Later(s, d, h)) + Len(Ending[d])]
<1>1. \A i \in a..(Len(s) + 1) : f[i] = H(i)
  BY Zenon
<1>2. [i \in a..(Len(s) + 1) |-> f[i]] = [i \in a..(Len(s) + 1) |-> H(i)]
  <2> HIDE DEF H
  <2> QED
    BY <1>1
<1>3. f = [i \in a..(Len(s) + 1) |-> H(i)]
  <2> HIDE DEF H
  <2> QED
    BY <1>2, Zenon
<1> QED
  BY <1>3, Zenon DEF From

\* There is one, built from the end of s.
LEMMA FromExists ==
  ASSUME NEW s \in Seq(Byte), NEW d \in {"CRLF", "LF"}
  PROVE  \E f : From(f, s, d, 1)
<1> DEFINE n == Len(s) + 1
           P == {k \in Nat : k <= n => \E f : From(f, s, d, n + 1 - k)}
<1>1. n \in Nat /\ n >= 1
  BY LenProperties
<1>2. 0 \in P
  <2> DEFINE a == n + 1
             f == [i \in a..n |-> 0]
  <2>1. \A i \in a..n : FALSE
    BY <1>1
  <2>2. a \in Nat /\ n + 1 - 0 = a
    BY <1>1
  <2>3. f = [i \in a..n |-> f[i]]
    OBVIOUS
  <2> HIDE DEF f, a
  <2>4. From(f, s, d, a)
    BY <2>1, <2>2, <2>3, FromIf
  <2> QED
    BY <2>2, <2>4
<1>3. ASSUME NEW k \in Nat, k \in P
      PROVE  k + 1 \in P
  <2> SUFFICES ASSUME k + 1 <= n
               PROVE  \E f : From(f, s, d, n + 1 - (k + 1))
    OBVIOUS
  <2> DEFINE a == n - k
             body(f, i) == IF Later(s, d, i) = {} THEN <<SubSeq(s, i, Len(s))>>
                           ELSE <<SubSeq(s, i, Min(Later(s, d, i)) - 1)>>
                                  \o f[Min(Later(s, d, i)) + Len(Ending[d])]
  <2>1. a \in Nat /\ a \in 1..n /\ n + 1 - (k + 1) = a /\ n + 1 - k = a + 1 /\ k <= n /\ a + 1 \in Nat
    BY <1>1
  <2> HIDE DEF a, n
  <2>2. PICK f : From(f, s, d, a + 1)
    BY <1>3, <2>1
  <2>3. ASSUME NEW i \in a+1..n
        PROVE  f[i] = body(f, i)
    <3>1. i \in a+1..(Len(s) + 1)
      BY DEF n
    <3>2. a + 1 \in Nat /\ From(f, s, d, a + 1)
      BY <2>1, <2>2
    <3> DEFINE h == a + 1
    <3>3. h \in Nat /\ From(f, s, d, h) /\ i \in h..(Len(s) + 1)
      BY <3>1, <3>2
    <3> HIDE DEF h
    <3>4. f[i] = IF Later(s, d, i) = {} THEN <<SubSeq(s, i, Len(s))>>
                 ELSE <<SubSeq(s, i, Min(Later(s, d, i)) - 1)>>
                        \o f[Min(Later(s, d, i)) + Len(Ending[d])]
      BY <3>3, FromIs
    <3> QED
      BY <3>4
  <2> DEFINE v == body(f, a)
             g == [i \in a..n |-> IF i = a THEN v ELSE f[i]]
  <2> HIDE DEF v
  <2>4. g[a] = v /\ (\A i \in a+1..n : g[i] = f[i]) /\ g = [i \in a..n |-> g[i]]
    <3>1. a \in a..n /\ \A i \in a+1..n : i \in a..n /\ i # a
      BY <2>1, <1>1
    <3> QED
      BY <3>1
  <2> HIDE DEF g
  <2>5. ASSUME NEW i \in a..n
        PROVE  g[i] = body(g, i)
    <3> DEFINE m == Min(Later(s, d, i)) + Len(Ending[d])
    <3>1. i \in 1..Len(s)+1 /\ (i = a \/ i \in a+1..n)
      BY <1>1, <2>1 DEF n
    <3>2. Later(s, d, i) # {} => m \in i+1..n
      BY <3>1, LaterIs DEF n
    <3>3. Later(s, d, i) # {} => g[m] = f[m]
      <4>1. i+1..n \subseteq a+1..n
        BY <1>1, <2>1
      <4> HIDE DEF m
      <4> QED
        BY <2>4, <3>2, <4>1
    <3>4. body(g, i) = body(f, i)
      BY <3>3, Zenon
    <3>5. g[i] = body(f, i)
      <4> HIDE DEF body
      <4> QED
        BY <2>3, <2>4, <3>1 DEF v
    <3> HIDE DEF body
    <3> QED
      BY <3>4, <3>5
  <2>6. From(g, s, d, a)
    BY <2>1, <2>4, <2>5, FromIf DEF n
  <2> QED
    BY <2>1, <2>6
<1> HIDE DEF P, n
<1>4. n \in P
  BY <1>1, <1>2, <1>3, SetInduction
<1>5. n <= n /\ n + 1 - n = 1
  BY <1>1
<1> QED
  BY <1>4, <1>5 DEF P

\* Pieces is what the function says of the first position.
LEMMA PiecesIs ==
  ASSUME NEW s \in Seq(Byte), NEW d \in {"CRLF", "LF"}
  PROVE  \E f : From(f, s, d, 1) /\ Pieces(s, d) = f[1]
<1> DEFINE c == CHOOSE f : From(f, s, d, 1)
<1>1. From(c, s, d, 1)
  BY FromExists
<1>2. Pieces(s, d) = c[1]
  BY DEF Pieces, From, Later
<1> HIDE DEF c
<1> QED
  BY <1>1, <1>2

\* The same, with the function written out.
LEMMA PiecesFrom ==
  ASSUME NEW s \in Seq(Byte), NEW d \in {"CRLF", "LF"}
  PROVE  \E f : /\ Pieces(s, d) = f[1]
               /\ \A i \in 1..Len(s)+1 :
                    f[i] = IF Later(s, d, i) = {} THEN <<SubSeq(s, i, Len(s))>>
                           ELSE <<SubSeq(s, i, Min(Later(s, d, i)) - 1)>>
                                  \o f[Min(Later(s, d, i)) + Len(Ending[d])]
<1>1. PICK f : From(f, s, d, 1) /\ Pieces(s, d) = f[1]
  BY PiecesIs
<1>2. ASSUME NEW i \in 1..Len(s)+1
      PROVE  f[i] = IF Later(s, d, i) = {} THEN <<SubSeq(s, i, Len(s))>>
                    ELSE <<SubSeq(s, i, Min(Later(s, d, i)) - 1)>>
                           \o f[Min(Later(s, d, i)) + Len(Ending[d])]
  <2> DEFINE a == 1
  <2>1. From(f, s, d, a) /\ a \in Nat /\ i \in a..(Len(s) + 1)
    BY <1>1, <1>2
  <2> HIDE DEF a
  <2> QED
    BY <2>1, FromIs
<1> QED
  BY <1>1, <1>2

\* A prefix of a sequence with one member in front.
LEMMA PrefixBehindOne ==
  ASSUME NEW S, NEW w \in S, NEW y \in Seq(S), NEW k \in 1..Len(y)+1
  PROVE  SubSeq(<<w>> \o y, 1, k) = <<w>> \o SubSeq(y, 1, k - 1)
<1> DEFINE x == <<w>> \o y
           h == k - 1
           u == SubSeq(y, 1, h)
<1>1. Len(y) \in Nat /\ <<w>> \in Seq(S) /\ Len(<<w>>) = 1 /\ <<w>>[1] = w
  BY LenProperties
<1>2. h \in 0..Len(y) /\ h \in Int /\ h \in Nat /\ k = h + 1
  BY <1>1
<1>3. x \in Seq(S) /\ Len(x) = Len(y) + 1 /\ x[1] = w /\ \A i \in 1..Len(y) : x[i+1] = y[i]
  <2>1. <<w>> \o y \in Seq(S) /\ Len(<<w>> \o y) = 1 + Len(y)
        /\ \A i \in 1..1+Len(y) : (<<w>> \o y)[i] = IF i <= 1 THEN <<w>>[i] ELSE y[i-1]
    BY <1>1, ConcatProperties
  <2> HIDE DEF x
  <2>2. 1 \in 1..1+Len(y) /\ 1 <= 1
    BY <1>1
  <2>3. \A i \in 1..Len(y) : i + 1 \in 1..1+Len(y) /\ ~(i + 1 <= 1) /\ i + 1 - 1 = i
    BY <1>1
  <2>4. \A i \in 1..1+Len(y) : x[i] = IF i <= 1 THEN <<w>>[i] ELSE y[i-1]
    BY <2>1 DEF x
  <2>5. \A i \in 1..Len(y) : x[i+1] = y[i]
    BY <2>3, <2>4
  <2>6. x[1] = w
    BY <1>1, <2>2, <2>4
  <2>7. x \in Seq(S) /\ Len(x) = 1 + Len(y)
    BY <2>1 DEF x
  <2>8. 1 + Len(y) = Len(y) + 1
    BY <1>1
  <2> QED
    BY <2>5, <2>6, <2>7, <2>8
<1>4. u \in Seq(S) /\ Len(u) = h /\ \A i \in 1..h : u[i] = y[i]
  <2> HIDE DEF h
  <2>1. \A i \in 1..h : i \in 1..Len(y)
    BY <1>1, <1>2
  <2>2. \A i \in 1..h : y[i] \in S
    BY <2>1, ElementOfSeq
  <2>3. SubSeq(y, 1, h) \in Seq(S) /\ Len(SubSeq(y, 1, h)) = (IF 1 <= h THEN h - 1 + 1 ELSE 0)
        /\ \A i \in 1..h-1+1 : SubSeq(y, 1, h)[i] = y[1+i-1]
    BY <1>2, <2>2, SubSeqProperties
  <2>4. h - 1 + 1 = h /\ (IF 1 <= h THEN h - 1 + 1 ELSE 0) = h /\ \A i \in 1..h : 1 + i - 1 = i
    BY <1>2
  <2> QED
    BY <2>3, <2>4
<1> HIDE DEF x, u, h
<1>5. SubSeq(x, 1, k) \in Seq(S) /\ Len(SubSeq(x, 1, k)) = k /\ \A i \in 1..k : SubSeq(x, 1, k)[i] = x[i]
  <2>1. \A i \in 1..k : i \in 1..Len(x)
    BY <1>1, <1>3
  <2>2. \A i \in 1..k : x[i] \in S
    BY <1>3, <2>1, ElementOfSeq
  <2>3. SubSeq(x, 1, k) \in Seq(S) /\ Len(SubSeq(x, 1, k)) = (IF 1 <= k THEN k - 1 + 1 ELSE 0)
        /\ \A i \in 1..k-1+1 : SubSeq(x, 1, k)[i] = x[1+i-1]
    BY <2>2, SubSeqProperties
  <2>4. k - 1 + 1 = k /\ (IF 1 <= k THEN k - 1 + 1 ELSE 0) = k /\ \A i \in 1..k : 1 + i - 1 = i
    OBVIOUS
  <2> QED
    BY <2>3, <2>4
<1>6. <<w>> \o u \in Seq(S) /\ Len(<<w>> \o u) = 1 + Len(u)
      /\ \A i \in 1..1+Len(u) : (<<w>> \o u)[i] = IF i <= 1 THEN <<w>>[i] ELSE u[i-1]
  BY <1>1, <1>4, ConcatProperties
<1>7. ASSUME NEW i \in 1..k
      PROVE  SubSeq(x, 1, k)[i] = (<<w>> \o u)[i]
  <2>1. i \in 1..1+Len(u)
    BY <1>2, <1>4
  <2>2. CASE i = 1
    BY <1>1, <1>3, <1>5, <1>6, <2>1, <2>2
  <2>3. CASE i # 1
    <3> DEFINE j == i - 1
    <3>1. j \in 1..h /\ i = j + 1 /\ ~(i <= 1) /\ j \in 1..Len(y)
      BY <1>1, <1>2, <2>3
    <3>2. (<<w>> \o u)[i] = u[j]
      BY <1>6, <2>1, <3>1
    <3> HIDE DEF j
    <3> QED
      BY <1>3, <1>4, <1>5, <3>1, <3>2
  <2> QED
    BY <2>2, <2>3
<1>8. Len(<<w>> \o u) = k
  BY <1>2, <1>4, <1>6
<1>9. SubSeq(x, 1, k) = <<w>> \o u
  BY <1>5, <1>6, <1>7, <1>8, SeqEqual
<1> QED
  BY <1>9 DEF x, u, h

\* A delimiter has no text.
LEMMA DelimiterText ==
  ASSUME NEW s \in Seq(Byte), NEW d \in {"CRLF", "LF"}, NEW m \in Occurrences(s, d)
  PROVE  TextOf(SubSeq(s, m, m + Size(d) - 1)) = <<>>
<1>1. SubSeq(s, m, m + Size(d) - 1) = Ending[d]
  BY DEF Occurrences, Size
<1>2. Ending[d] \in Seq(Byte)
  BY EndingIs
<1>3. \A i \in 1..Len(Ending[d]) : Ending[d][i] \notin Text
  <2>1. CASE d = "CRLF"
    <3>1. Ending[d] = <<"CR", "LF">> /\ Len(Ending[d]) = 2
      BY <2>1, EndingIs DEF Size
    <3>2. \A i \in 1..2 : i = 1 \/ i = 2
      OBVIOUS
    <3>3. Ending[d][1] = "CR" /\ Ending[d][2] = "LF"
      BY <3>1
    <3> QED
      BY <3>1, <3>2, <3>3, Symbols
  <2>2. CASE d = "LF"
    <3>1. Ending[d] = <<"LF">> /\ Len(Ending[d]) = 1
      BY <2>2, EndingIs DEF Size
    <3>2. \A i \in 1..1 : i = 1
      OBVIOUS
    <3>3. Ending[d][1] = "LF"
      BY <3>1
    <3> QED
      BY <3>1, <3>2, <3>3, Symbols
  <2> QED
    BY <2>1, <2>2
<1> QED
  BY <1>1, <1>2, <1>3, NoText

\* What a delimiter stands between is all the text there is.
LEMMA TextAround ==
  ASSUME NEW s \in Seq(Byte), NEW d \in {"CRLF", "LF"}, NEW m \in Occurrences(s, d),
         NEW i \in 1..m, NEW p \in m+Size(d)-1..Len(s)
  PROVE  TextOf(SubSeq(s, i, p)) = TextOf(SubSeq(s, i, m - 1)) \o TextOf(SubSeq(s, m + Size(d), p))
<1> DEFINE z == Size(d)
           h == m + z - 1
<1>1. Len(s) \in Nat /\ z \in {1, 2}
  BY LenProperties, EndingIs
<1>2. m \in Nat /\ m >= 1 /\ m \in 1..Len(s)
  BY <1>1 DEF Occurrences
<1>3. h \in Nat /\ m <= h /\ h <= p /\ p <= Len(s) /\ p \in Nat /\ h <= Len(s) /\ h + 1 = m + z
  BY <1>1, <1>2
<1> HIDE DEF z, h
<1>4. SubSeq(s, i, m - 1) \o SubSeq(s, m, p) = SubSeq(s, i, p)
  <2> DEFINE c == m - 1
  <2>1. i \in 1..Len(s)+1 /\ c \in i-1..Len(s) /\ p \in c..Len(s) /\ c + 1 = m
    BY <1>1, <1>2, <1>3
  <2> HIDE DEF c
  <2>2. SubSeq(s, i, c) \o SubSeq(s, c + 1, p) = SubSeq(s, i, p)
    BY <2>1, ConcatAdjacentSubSeq
  <2> QED
    BY <2>1, <2>2 DEF c
<1>5. SubSeq(s, m, h) \o SubSeq(s, h + 1, p) = SubSeq(s, m, p)
  <2>1. m \in 1..Len(s)+1 /\ h \in m-1..Len(s) /\ p \in h..Len(s)
    BY <1>1, <1>2, <1>3
  <2> QED
    BY <2>1, ConcatAdjacentSubSeq
<1>6. /\ SubSeq(s, i, m - 1) \in Seq(Byte) /\ SubSeq(s, m, p) \in Seq(Byte)
      /\ SubSeq(s, m, h) \in Seq(Byte) /\ SubSeq(s, h + 1, p) \in Seq(Byte)
  <2>1. ASSUME NEW a \in Nat, NEW b \in Int, a >= 1, b <= Len(s)
        PROVE  SubSeq(s, a, b) \in Seq(Byte)
    <3>1. \A j \in a..b : j \in 1..Len(s)
      BY <1>1, <2>1
    <3>2. \A j \in a..b : s[j] \in Byte
      BY <3>1, ElementOfSeq
    <3> QED
      BY <3>2, SubSeqProperties
  <2>2. i \in Nat /\ i >= 1 /\ m - 1 \in Int /\ m - 1 <= Len(s) /\ h + 1 \in Nat /\ h + 1 >= 1
    BY <1>1, <1>2, <1>3
  <2> QED
    BY <1>2, <1>3, <2>1, <2>2
<1>7. TextOf(SubSeq(s, i, p)) = TextOf(SubSeq(s, i, m - 1)) \o TextOf(SubSeq(s, m, p))
  BY <1>4, <1>6, TextConcat
<1>8. TextOf(SubSeq(s, m, p)) = TextOf(SubSeq(s, m, h)) \o TextOf(SubSeq(s, h + 1, p))
  BY <1>5, <1>6, TextConcat
<1>9. TextOf(SubSeq(s, m, h)) = <<>>
  BY DelimiterText DEF h, z
<1>10. TextOf(SubSeq(s, m, p)) = TextOf(SubSeq(s, h + 1, p))
  <2>1. TextOf(SubSeq(s, h + 1, p)) \in Seq(Text)
    BY <1>6, TextType
  <2> QED
    BY <1>8, <1>9, <2>1, ConcatEmptySeq
<1> QED
  BY <1>3, <1>7, <1>10 DEF z

\* x is what is left of s from its i-th byte on, taken apart where d occurs or nowhere.
Apart(x, s, d, i) ==
  /\ x \in Seq(Seq(Byte)) /\ x # <<>>
  /\ \A k \in 0..Len(x) :
       \E p \in i-1..Len(s) :
         /\ \/ p = i - 1
            \/ p = Len(s)
            \/ \E o \in Occurrences(s, d) : p = o + Size(d) - 1
         /\ k = Len(x) => p = Len(s)
         /\ TextOf(FlattenSeq(SubSeq(x, 1, k))) = TextOf(SubSeq(s, i, p))

\* Apart at one piece.
LEMMA ApartAt ==
  ASSUME NEW x, NEW s, NEW d, NEW i, Apart(x, s, d, i), NEW k \in 0..Len(x)
  PROVE  \E p \in i-1..Len(s) :
           /\ \/ p = i - 1
              \/ p = Len(s)
              \/ \E o \in Occurrences(s, d) : p = o + Size(d) - 1
           /\ k = Len(x) => p = Len(s)
           /\ TextOf(FlattenSeq(SubSeq(x, 1, k))) = TextOf(SubSeq(s, i, p))
BY DEF Apart

\* No piece, no text.
LEMMA ApartNone ==
  ASSUME NEW s \in Seq(Byte), NEW i \in 1..Len(s)+1, NEW x \in Seq(Seq(Byte))
  PROVE  /\ i - 1 \in i-1..Len(s)
         /\ TextOf(FlattenSeq(SubSeq(x, 1, 0))) = TextOf(SubSeq(s, i, i - 1))
<1>1. i - 1 \in i-1..Len(s) /\ i - 1 \in Int /\ i \in Int /\ i - 1 < i
  BY LenProperties
<1>2. SubSeq(s, i, i - 1) = <<>> /\ SubSeq(x, 1, 0) = <<>>
  BY <1>1, SubSeqEmpty
<1> QED
  BY <1>1, <1>2, FlattenEmpty

\* The rest of s is its only piece.
LEMMA ApartEnd ==
  ASSUME NEW s \in Seq(Byte), NEW d \in {"CRLF", "LF"}, NEW i \in 1..Len(s)+1
  PROVE  Apart(<<SubSeq(s, i, Len(s))>>, s, d, i)
<1> DEFINE w == SubSeq(s, i, Len(s))
           x == <<w>>
<1>1. Len(s) \in Nat /\ Len(s) \in i-1..Len(s)
  BY LenProperties
<1>2. w \in Seq(Byte)
  <2>1. \A j \in i..Len(s) : j \in 1..Len(s)
    BY <1>1
  <2>2. \A j \in i..Len(s) : s[j] \in Byte
    BY <2>1, ElementOfSeq
  <2> QED
    BY <1>1, <2>2, SubSeqProperties
<1> HIDE DEF w
<1>3. x \in Seq(Seq(Byte)) /\ x # <<>> /\ Len(x) = 1
  BY <1>2
<1> HIDE DEF x
<1>4. ASSUME NEW k \in 0..Len(x)
      PROVE  \E p \in i-1..Len(s) :
               /\ \/ p = i - 1
                  \/ p = Len(s)
                  \/ \E o \in Occurrences(s, d) : p = o + Size(d) - 1
               /\ k = Len(x) => p = Len(s)
               /\ TextOf(FlattenSeq(SubSeq(x, 1, k))) = TextOf(SubSeq(s, i, p))
  <2>1. CASE k = 0
    <3>1. k # Len(x)
      BY <1>3, <2>1
    <3>2. i - 1 \in i-1..Len(s) /\ TextOf(FlattenSeq(SubSeq(x, 1, k))) = TextOf(SubSeq(s, i, i - 1))
      BY <1>3, <2>1, ApartNone
    <3> QED
      BY <3>1, <3>2
  <2>2. CASE k = 1
    <3>1. SubSeq(x, 1, k) = x
      BY <1>3, <2>2, SubSeqFull
    <3>2. FlattenSeq(x) = w
      BY <1>2, FlattenOne DEF x
    <3> QED
      BY <1>1, <3>1, <3>2 DEF w
  <2>3. k = 0 \/ k = 1
    BY <1>3
  <2> QED
    BY <2>1, <2>2, <2>3
<1>5. Apart(x, s, d, i)
  BY <1>3, <1>4 DEF Apart
<1> QED
  BY <1>5 DEF x, w

\* What is before a delimiter is one more piece.
LEMMA ApartMore ==
  ASSUME NEW s \in Seq(Byte), NEW d \in {"CRLF", "LF"}, NEW m \in Occurrences(s, d),
         NEW i \in 1..m, NEW y, Apart(y, s, d, m + Size(d))
  PROVE  Apart(<<SubSeq(s, i, m - 1)>> \o y, s, d, i)
<1> DEFINE w == SubSeq(s, i, m - 1)
           x == <<w>> \o y
           z == Size(d)
<1>1. Len(s) \in Nat /\ z \in {1, 2}
  BY LenProperties, EndingIs
<1>2. m \in Nat /\ m >= 1 /\ m + z - 1 <= Len(s) /\ i \in 1..Len(s)+1
  <2>1. m \in 1..Len(s) /\ m + Len(Ending[d]) - 1 <= Len(s)
    BY DEF Occurrences
  <2> QED
    BY <1>1, <2>1 DEF Size
<1>3. w \in Seq(Byte)
  <2>1. \A j \in i..m-1 : j \in 1..Len(s)
    BY <1>1, <1>2
  <2>2. \A j \in i..m-1 : s[j] \in Byte
    BY <2>1, ElementOfSeq
  <2>3. i \in Int /\ m - 1 \in Int
    BY <1>2
  <2> QED
    BY <2>2, <2>3, SubSeqProperties
<1>4. y \in Seq(Seq(Byte)) /\ y # <<>> /\ Len(y) \in Nat /\ <<w>> \in Seq(Seq(Byte)) /\ Len(<<w>>) = 1
  BY <1>3, LenProperties DEF Apart
<1>5. x \in Seq(Seq(Byte)) /\ Len(x) = 1 + Len(y)
  <2> HIDE DEF w
  <2> QED
    BY <1>4, ConcatProperties
<1>6. x # <<>>
  <2>1. Len(x) # 0
    BY <1>4, <1>5
  <2> QED
    BY <2>1, EmptySeq
<1> HIDE DEF w, x, z
<1>7. ASSUME NEW k \in 0..Len(x)
      PROVE  \E p \in i-1..Len(s) :
               /\ \/ p = i - 1
                  \/ p = Len(s)
                  \/ \E o \in Occurrences(s, d) : p = o + Size(d) - 1
               /\ k = Len(x) => p = Len(s)
               /\ TextOf(FlattenSeq(SubSeq(x, 1, k))) = TextOf(SubSeq(s, i, p))
  <2>1. CASE k = 0
    <3>1. k # Len(x)
      BY <1>4, <1>5, <2>1
    <3>2. i - 1 \in i-1..Len(s) /\ TextOf(FlattenSeq(SubSeq(x, 1, k))) = TextOf(SubSeq(s, i, i - 1))
      BY <1>2, <1>5, <2>1, ApartNone
    <3> QED
      BY <3>1, <3>2
  <2>2. CASE k # 0
    <3> DEFINE h == k - 1
               v == SubSeq(y, 1, h)
    <3>1. h \in 0..Len(y) /\ k \in 1..Len(y)+1 /\ (k = Len(x) => h = Len(y))
      BY <1>4, <1>5, <2>2
    <3>2. PICK p \in m+z-1..Len(s) :
            /\ \/ p = m + z - 1
               \/ p = Len(s)
               \/ \E o \in Occurrences(s, d) : p = o + Size(d) - 1
            /\ h = Len(y) => p = Len(s)
            /\ TextOf(FlattenSeq(SubSeq(y, 1, h))) = TextOf(SubSeq(s, m + z, p))
      <4> DEFINE u == m + z
      <4>1. Apart(y, s, d, u) /\ h \in 0..Len(y)
        BY <3>1 DEF z
      <4> HIDE DEF h, u
      <4>2. \E p \in u-1..Len(s) :
              /\ \/ p = u - 1
                 \/ p = Len(s)
                 \/ \E o \in Occurrences(s, d) : p = o + Size(d) - 1
              /\ h = Len(y) => p = Len(s)
              /\ TextOf(FlattenSeq(SubSeq(y, 1, h))) = TextOf(SubSeq(s, u, p))
        BY <4>1, ApartAt
      <4>3. u - 1 = m + z - 1
        BY <1>1, <1>2 DEF u
      <4>4. u = m + z
        BY DEF u
      <4> QED
        BY <4>2, <4>3, <4>4, Zenon
    <3>3. v \in Seq(Seq(Byte))
      <4>1. \A j \in 1..h : j \in 1..Len(y)
        BY <1>4, <3>1
      <4>2. \A j \in 1..h : y[j] \in Seq(Byte)
        BY <1>4, <4>1, ElementOfSeq
      <4>3. h \in Int
        BY <3>1
      <4> HIDE DEF h
      <4> QED
        BY <4>2, <4>3, SubSeqProperties
    <3>4. SubSeq(x, 1, k) = <<w>> \o v
      BY <1>3, <1>4, <3>1, PrefixBehindOne DEF x
    <3> HIDE DEF v
    <3>5. FlattenSeq(<<w>> \o v) = w \o FlattenSeq(v) /\ FlattenSeq(v) \in Seq(Byte)
      <4>1. FlattenSeq(<<w>> \o v) = FlattenSeq(<<w>>) \o FlattenSeq(v)
        BY <1>4, <3>3, FlattenConcat
      <4> QED
        BY <1>3, <3>3, <4>1, FlattenOne, FlattenType
    <3>6. TextOf(w \o FlattenSeq(v)) = TextOf(w) \o TextOf(FlattenSeq(v))
      BY <1>3, <3>5, TextConcat
    <3>7. TextOf(SubSeq(s, i, p)) = TextOf(w) \o TextOf(SubSeq(s, m + z, p))
      <4>1. p \in m+Size(d)-1..Len(s)
        BY DEF z
      <4> QED
        BY <4>1, TextAround DEF w, z
    <3>8. TextOf(FlattenSeq(SubSeq(x, 1, k))) = TextOf(SubSeq(s, i, p))
      BY <3>2, <3>4, <3>5, <3>6, <3>7 DEF v
    <3>9. p \in i-1..Len(s)
      BY <1>1, <1>2
    <3>10. p = Len(s) \/ \E o \in Occurrences(s, d) : p = o + Size(d) - 1
      BY <3>2 DEF z
    <3> QED
      BY <3>1, <3>2, <3>8, <3>9, <3>10
  <2> QED
    BY <2>1, <2>2
<1>8. Apart(x, s, d, i)
  BY <1>5, <1>6, <1>7 DEF Apart
<1> QED
  BY <1>8 DEF x, w

\* Pieces takes all of s apart.
LEMMA PiecesApart ==
  ASSUME NEW s \in Seq(Byte), NEW d \in {"CRLF", "LF"}
  PROVE  Apart(Pieces(s, d), s, d, 1)
<1>1. PICK f : /\ Pieces(s, d) = f[1]
               /\ \A i \in 1..Len(s)+1 :
                    f[i] = IF Later(s, d, i) = {} THEN <<SubSeq(s, i, Len(s))>>
                           ELSE <<SubSeq(s, i, Min(Later(s, d, i)) - 1)>>
                                  \o f[Min(Later(s, d, i)) + Len(Ending[d])]
  BY PiecesFrom
<1> DEFINE N == Len(s) + 1
           P == {k \in Nat : \A i \in 1..N : N - i < k => Apart(f[i], s, d, i)}
<1>2. N \in Nat /\ N >= 1 /\ Len(s) \in Nat
  BY LenProperties
<1>3. 0 \in P
  BY <1>2
<1>4. ASSUME NEW k \in Nat, k \in P
      PROVE  k + 1 \in P
  <2> SUFFICES ASSUME NEW i \in 1..N, N - i < k + 1
               PROVE  Apart(f[i], s, d, i)
    OBVIOUS
  <2>1. f[i] = IF Later(s, d, i) = {} THEN <<SubSeq(s, i, Len(s))>>
               ELSE <<SubSeq(s, i, Min(Later(s, d, i)) - 1)>>
                      \o f[Min(Later(s, d, i)) + Len(Ending[d])]
    BY <1>1
  <2>2. CASE Later(s, d, i) = {}
    BY <2>1, <2>2, ApartEnd
  <2>3. CASE Later(s, d, i) # {}
    <3> DEFINE m == Min(Later(s, d, i))
               h == m + Size(d)
    <3>1. m \in Occurrences(s, d) /\ m \in Nat /\ i <= m /\ h \in i+1..N
      BY <2>3, LaterIs DEF Size
    <3>2. f[i] = <<SubSeq(s, i, m - 1)>> \o f[h]
      BY <2>1, <2>3 DEF Size
    <3> HIDE DEF m, h
    <3>3. h \in 1..N /\ N - h < k /\ i \in 1..m
      BY <1>2, <3>1
    <3>4. Apart(f[h], s, d, h)
      BY <1>4, <3>3
    <3>5. Apart(<<SubSeq(s, i, m - 1)>> \o f[h], s, d, i)
      BY <3>1, <3>3, <3>4, ApartMore DEF h
    <3> QED
      BY <3>2, <3>5
  <2> QED
    BY <2>2, <2>3
<1> HIDE DEF P
<1>5. N \in P
  BY <1>2, <1>3, <1>4, SetInduction
<1>6. 1 \in 1..N /\ N - 1 < N
  BY <1>2
<1> QED
  BY <1>1, <1>5, <1>6 DEF P

\* A stretch of a stretch.
LEMMA WindowOfWindow ==
  ASSUME NEW S, NEW s \in Seq(S), NEW b \in Nat, NEW a \in Nat, NEW c \in Nat, NEW r \in Nat,
         b <= a, a <= c, c <= r, r <= Len(s)
  PROVE  SubSeq(SubSeq(s, b + 1, r), a - b + 1, c - b) = SubSeq(s, a + 1, c)
<1> DEFINE w == SubSeq(s, b + 1, r)
           x == a - b
           y == c - b
<1>1. Len(s) \in Nat
  BY LenProperties
<1>2. w \in Seq(S) /\ Len(w) = r - b /\ \A i \in 1..r-b : w[i] = s[b+i]
  <2>1. b <= r
    OBVIOUS
  <2> QED
    BY <2>1, Window
<1>3. x \in Nat /\ y \in Nat /\ x <= y /\ y <= r - b /\ y - x = c - a /\ b + x = a
  OBVIOUS
<1> HIDE DEF w, x, y
<1>4. /\ SubSeq(w, x + 1, y) \in Seq(S)
      /\ Len(SubSeq(w, x + 1, y)) = y - x
      /\ \A i \in 1..y-x : SubSeq(w, x + 1, y)[i] = w[x+i]
  BY <1>2, <1>3, Window
<1>5. /\ SubSeq(s, a + 1, c) \in Seq(S)
      /\ Len(SubSeq(s, a + 1, c)) = c - a
      /\ \A i \in 1..c-a : SubSeq(s, a + 1, c)[i] = s[a+i]
  <2>1. c <= Len(s)
    BY <1>1
  <2> QED
    BY <2>1, Window
<1>6. \A i \in 1..c-a : x + i \in 1..r-b /\ b + (x + i) = a + i
  BY <1>3
<1>7. \A i \in 1..c-a : SubSeq(w, x + 1, y)[i] = SubSeq(s, a + 1, c)[i]
  BY <1>2, <1>3, <1>4, <1>5, <1>6
<1>8. SubSeq(w, x + 1, y) = SubSeq(s, a + 1, c)
  BY <1>3, <1>4, <1>5, <1>7, SeqEqual
<1> QED
  BY <1>8 DEF w, x, y

\* n lines, all ended with d.
AllEnd(ls, es, d, n) == ls \in Seq(Seq(Text)) /\ Len(ls) = n /\ \A j \in 1..n : es[j] = d

\* Lines that end alike are taken apart into themselves.
LEMMA PiecesLines ==
  ASSUME NEW n \in Nat, NEW ls, NEW es, NEW s, NEW e,
         Cut(s, ls, es, e, n), NEW d \in {"CRLF", "LF"}, AllEnd(ls, es, d, n),
         NEW k \in 0..n, NEW q \in 0..n, k < q
  PROVE  Pieces(SubSeq(s, e[k] + 1, e[q] - Size(d)), d) = SubSeq(ls, k + 1, q)
<1> DEFINE b == e[k]
           z == Size(d)
           c == e[q] - z
           w == SubSeq(s, b + 1, c)
<1>1. s \in Seq(Byte) /\ Len(s) \in Nat /\ z \in {1, 2} /\ \A j \in 0..n : e[j] \in Nat
  BY LenProperties, EndingIs DEF Cut
<1>2. \A i, j \in 0..n : i < j => e[i] < e[j]
  BY CutGrows
<1>rise. ASSUME NEW i \in 0..n, NEW j \in 0..n, i <= j
         PROVE  e[i] <= e[j]
  <2>1. i = j \/ i < j
    BY <1>rise
  <2>2. e[i] \in Nat /\ e[j] \in Nat
    BY <1>1
  <2>3. i < j => e[i] < e[j]
    BY <1>2
  <2> QED
    BY <2>1, <2>2, <2>3
<1>3. ASSUME NEW j \in 1..n
      PROVE  e[j-1] <= e[j] - z /\ e[j] <= Len(s) /\ SubSeq(s, e[j-1] + 1, e[j] - z) = ls[j]
             /\ j \in 0..n /\ j - 1 \in 0..n
  <2>1. es[j] = d
    BY DEF AllEnd
  <2> QED
    BY <2>1, CutEnd
<1>4. b \in Nat /\ c \in Nat /\ b <= c /\ c <= Len(s)
  <2> DEFINE a == e[q-1]
             f == e[q]
  <2>1. q \in 1..n /\ q - 1 \in 0..n /\ k <= q - 1
    OBVIOUS
  <2>a. b <= a
    BY <1>rise, <2>1
  <2>2. a <= f - z /\ f <= Len(s) /\ a \in Nat /\ f \in Nat /\ b \in Nat /\ b <= a
    BY <1>1, <1>3, <2>1, <2>a
  <2>3. c = f - z
    OBVIOUS
  <2> HIDE DEF a, f, b, c
  <2> QED
    BY <1>1, <2>2, <2>3
<1>5. w \in Seq(Byte) /\ Len(w) = c - b
  <2> HIDE DEF b, c
  <2> QED
    BY <1>1, <1>4, Window
<1>6. ASSUME NEW i \in Occurrences(w, d)
      PROVE  \E j \in k+1..q-1 : b + i + z - 1 = e[j]
  <2>1. e[k] <= c /\ c \in Nat /\ c <= Len(s) /\ i \in Occurrences(SubSeq(s, e[k] + 1, c), d)
    BY <1>4
  <2> HIDE DEF c, b, z
  <2>2. PICK j \in k+1..n : e[k] + i + Size(d) - 1 = e[j] /\ e[j] <= c
    <3>1. \E j \in k+1..n : e[k] + i + Size(d) - 1 = e[j] /\ e[j] <= c /\ (d = "CRLF" => es[j] = "CRLF")
      <4>1. k \in 0..n /\ c \in Nat /\ e[k] <= c /\ c <= Len(s)
        BY <2>1
      <4>2. i \in Occurrences(SubSeq(s, e[k] + 1, c), d)
        BY <2>1
      <4> QED
        BY <4>1, <4>2, OccurrenceEnds
    <3> QED
      BY <3>1
  <2>3. ~(q <= j)
    <3>1. j \in 0..n /\ (q <= j => q = j \/ q < j) /\ e[q] \in Nat /\ e[j] \in Nat
      BY <1>1
    <3>2. q <= j => e[q] <= e[j]
      BY <1>rise, <3>1
    <3>3. ~(e[q] <= c)
      BY <1>1, <3>1 DEF c, z
    <3>4. c \in Nat
      BY <2>1
    <3> QED
      BY <2>2, <3>1, <3>2, <3>3, <3>4
  <2>4. j \in k+1..q-1
    BY <2>3
  <2> QED
    BY <2>2, <2>4 DEF b, z
<1>7. ASSUME NEW j \in k+1..q-1
      PROVE  e[j] - z + 1 - b \in Occurrences(w, d)
  <2>1. e[k] <= c /\ c \in Nat /\ c <= Len(s) /\ j \in k+1..n /\ es[j] = d
    BY <1>4 DEF AllEnd
  <2>2. e[j] <= c
    <3> DEFINE a == e[q-1]
               f == e[q]
               g == e[j]
    <3>1. j \in 0..n /\ q - 1 \in 0..n /\ j <= q - 1 /\ q \in 1..n /\ q \in 0..n
      OBVIOUS
    <3>a. g <= a
      BY <1>rise, <3>1
    <3>b. a <= f - z
      BY <1>3, <3>1
    <3>2. a <= f - z /\ g <= a /\ g \in Nat /\ a \in Nat /\ f \in Nat
      BY <1>1, <3>1, <3>a, <3>b
    <3>3. c = f - z
      OBVIOUS
    <3> HIDE DEF a, f, g, c
    <3>4. g <= c
      BY <1>1, <3>2, <3>3
    <3> QED
      BY <3>4 DEF g
  <2> HIDE DEF c
  <2>3. d = "CRLF" => es[j] = "CRLF"
    BY <2>1
  <2>4. e[j] - Size(d) + 1 - e[k] \in Occurrences(SubSeq(s, e[k] + 1, c), d)
    BY <2>1, <2>2, <2>3, EndOccurs
  <2> QED
    BY <2>4
<1> HIDE DEF w, c
<1>8. PICK f : /\ Pieces(w, d) = f[1]
               /\ \A i \in 1..Len(w)+1 :
                    f[i] = IF Later(w, d, i) = {} THEN <<SubSeq(w, i, Len(w))>>
                           ELSE <<SubSeq(w, i, Min(Later(w, d, i)) - 1)>>
                                  \o f[Min(Later(w, d, i)) + Len(Ending[d])]
  BY <1>5, PiecesFrom
<1>9. ASSUME NEW t \in k..q-1
      PROVE  /\ e[t] - b + 1 \in 1..Len(w)+1
             /\ \A i \in Occurrences(w, d) : i >= e[t] - b + 1 =>
                  \E j \in t+1..q-1 : i = e[j] - z + 1 - b
  <2> DEFINE g == e[t]
  <2>1. t \in 0..n /\ k \in 0..n /\ k <= t /\ q - 1 \in 0..n /\ t <= q - 1
    OBVIOUS
  <2>2. g \in Nat /\ b <= g /\ g <= c
    <3> DEFINE a == e[q-1]
               h == e[q]
    <3>1. q \in 1..n /\ q \in 0..n
      OBVIOUS
    <3>a. g <= a
      BY <1>rise, <2>1
    <3>b. b <= g
      BY <1>rise, <2>1
    <3>c. a <= h - z
      BY <1>3, <3>1
    <3>2. a <= h - z /\ g <= a /\ b <= g /\ g \in Nat /\ a \in Nat /\ h \in Nat
      BY <1>1, <2>1, <3>1, <3>a, <3>b, <3>c
    <3>3. c = h - z
      BY DEF c
    <3> HIDE DEF a, h, g, b
    <3> QED
      BY <1>1, <3>2, <3>3
  <2>3. g - b + 1 \in 1..Len(w)+1
    <3> HIDE DEF g, b
    <3> QED
      BY <1>4, <1>5, <2>2
  <2>4. ASSUME NEW i \in Occurrences(w, d), i >= g - b + 1
        PROVE  \E j \in t+1..q-1 : i = e[j] - z + 1 - b
    <3>1. PICK j \in k+1..q-1 : b + i + z - 1 = e[j]
      BY <1>6
    <3> DEFINE h == e[j]
    <3>2. j \in 0..n /\ h \in Nat /\ i \in Nat
      <4>1. i \in 1..Len(w) /\ Len(w) \in Nat
        BY <1>5, LenProperties DEF Occurrences
      <4> QED
        BY <1>1, <4>1
    <3>3. i = h - z + 1 - b /\ g < h
      <4>1. b + i + z - 1 = h
        BY <3>1
      <4> HIDE DEF h, g, b
      <4> QED
        BY <1>1, <1>4, <2>2, <2>4, <3>2, <4>1
    <3>4. ~(j <= t)
      <4>1. j <= t => j = t \/ j < t
        BY <2>1, <3>2
      <4>2. j <= t => h <= g
        BY <1>2, <2>1, <2>2, <3>2, <4>1
      <4> HIDE DEF h, g
      <4> QED
        BY <2>2, <3>2, <3>3, <4>2
    <3>5. j \in t+1..q-1
      BY <3>4
    <3> QED
      BY <3>3, <3>5
  <2> QED
    BY <2>3, <2>4
<1> HIDE DEF b, z
<1> DEFINE R(t) == f[e[t] - b + 1] = SubSeq(ls, t + 1, q)
           P == {h \in Nat : h <= q - 1 - k => R(q - 1 - h)}
<1>10. 0 \in P
  <2> DEFINE t == q - 1
             i == e[t] - b + 1
  <2>1. t \in k..q-1 /\ t + 1 = q /\ q \in 1..n /\ t \in 0..n /\ q - 1 - 0 = t
    OBVIOUS
  <2>2. i \in 1..Len(w)+1 /\ \A j \in Occurrences(w, d) : ~(j >= i)
    <3>1. t + 1..q - 1 = {}
      OBVIOUS
    <3> HIDE DEF t
    <3> QED
      BY <1>9, <2>1, <3>1
  <2>3. Later(w, d, i) = {}
    BY <2>2 DEF Later
  <2>4. f[i] = <<SubSeq(w, i, Len(w))>>
    <3>1. i \in 1..(Len(w) + 1) /\ Later(w, d, i) = {} /\ 1 \in Nat
      BY <2>2, <2>3
    <3> HIDE DEF i
    <3>2. f[i] = IF Later(w, d, i) = {} THEN <<SubSeq(w, i, Len(w))>>
                 ELSE <<SubSeq(w, i, Min(Later(w, d, i)) - 1)>>
                        \o f[Min(Later(w, d, i)) + Len(Ending[d])]
      BY <1>8, <3>1
    <3> QED
      BY <3>1, <3>2
  <2>5. SubSeq(w, i, Len(w)) = ls[q]
    <3>1. SubSeq(s, e[t] + 1, c) = ls[q] /\ e[t] \in Nat /\ b <= e[t] /\ e[t] <= c
      <4>1. e[q-1] <= e[q] - z /\ SubSeq(s, e[q-1] + 1, e[q] - z) = ls[q]
        BY <1>3, <2>1
      <4>2. c = e[q] - z
        BY DEF c, z
      <4>3. k <= t
        BY <2>1
      <4>4. e[k] <= e[t]
        <5> HIDE DEF t
        <5> QED
          BY <1>rise, <2>1, <4>3
      <4> QED
        BY <1>1, <2>1, <4>1, <4>2, <4>4 DEF b
    <3> HIDE DEF t
    <3> DEFINE a == e[t]
    <3>2. c <= c /\ a \in Nat /\ b <= a /\ a <= c
      BY <1>4, <3>1
    <3> HIDE DEF a
    <3>3. SubSeq(SubSeq(s, b + 1, c), a - b + 1, c - b) = SubSeq(s, a + 1, c)
      BY <1>1, <1>4, <3>2, WindowOfWindow
    <3> QED
      BY <1>5, <3>1, <3>3 DEF w, a
  <2>6. SubSeq(ls, q, q) = <<ls[q]>>
    <3>1. q \in Int /\ q <= q /\ \A j \in q..q : j = q
      OBVIOUS
    <3>2. ls[q] \in Seq(Text)
      BY <2>1 DEF Cut
    <3>3. /\ SubSeq(ls, q, q) \in Seq(Seq(Text))
          /\ Len(SubSeq(ls, q, q)) = IF q <= q THEN q - q + 1 ELSE 0
          /\ \A j \in 1..q-q+1 : SubSeq(ls, q, q)[j] = ls[q+j-1]
      BY <3>1, <3>2, SubSeqProperties
    <3>4. q - q + 1 = 1 /\ (\A j \in 1..1 : j = 1) /\ 1 \in 1..1 /\ q + 1 - 1 = q
      OBVIOUS
    <3> DEFINE x == SubSeq(ls, q, q)
               y == <<ls[q]>>
    <3>5. y \in Seq(Seq(Text)) /\ Len(y) = 1 /\ y[1] = ls[q]
      BY <3>2
    <3>6. x \in Seq(Seq(Text)) /\ Len(x) = 1 /\ x[1] = ls[q]
      BY <3>1, <3>3, <3>4
    <3> HIDE DEF x, y
    <3>7. Len(x) = Len(y) /\ \A j \in 1..Len(x) : x[j] = y[j]
      BY <3>4, <3>5, <3>6
    <3>8. x = y
      BY <3>5, <3>6, <3>7, SeqEqual
    <3> QED
      BY <3>8 DEF x, y
  <2>7. R(t)
    BY <2>1, <2>4, <2>5, <2>6
  <2> HIDE DEF R
  <2> QED
    BY <2>1, <2>7
<1>11. ASSUME NEW h \in Nat, h \in P
       PROVE  h + 1 \in P
  <2> HIDE DEF R
  <2> SUFFICES ASSUME h + 1 <= q - 1 - k
               PROVE  R(q - 1 - (h + 1))
    OBVIOUS
  <2> DEFINE t == q - 1 - (h + 1)
             u == t + 1
  <2>1. t \in k..q-1 /\ u \in k+1..q-1 /\ q - 1 - h = u /\ h <= q - 1 - k /\ u \in 1..n
        /\ t \in 0..n /\ u \in 0..n /\ t < u /\ u - 1 = t
    OBVIOUS
  <2>2. R(u)
    BY <1>11, <2>1
  <2> HIDE DEF t, P
  <2> DEFINE i == e[t] - b + 1
             m == Min(Later(w, d, i))
             g == e[u]
             x == g - z + 1 - b
  <2>3. i \in 1..Len(w)+1 /\ \A j \in Occurrences(w, d) : j >= i => \E v \in u..q-1 : j = e[v] - z + 1 - b
    BY <1>9, <2>1
  <2>4. e[t] \in Nat /\ g \in Nat /\ e[t] <= g - z /\ g <= Len(s) /\ SubSeq(s, e[t] + 1, g - z) = ls[u] /\ b <= e[t]
    <3>1. e[u-1] <= g - z /\ g <= Len(s) /\ SubSeq(s, e[u-1] + 1, g - z) = ls[u]
      BY <1>3, <2>1 DEF z
    <3>2. k <= t
      BY <2>1
    <3>3. e[k] <= e[t]
      BY <1>rise, <2>1, <3>2
    <3> QED
      BY <1>1, <2>1, <3>1, <3>3 DEF b
  <2>5. g <= c
    <3>1. q \in 1..n /\ q \in 0..n /\ q - 1 \in 0..n /\ u <= q - 1 /\ u \in 0..n
      BY <2>1
    <3>a. g <= e[q-1]
      <4> HIDE DEF u
      <4> QED
        BY <1>rise, <3>1
    <3>b. e[q-1] <= e[q] - z
      BY <1>3, <3>1 DEF z
    <3>2. g <= e[q-1] /\ e[q-1] <= e[q] - z /\ e[q-1] \in Nat /\ e[q] \in Nat
      BY <1>1, <3>1, <3>a, <3>b
    <3>3. c = e[q] - z
      BY DEF c, z
    <3> QED
      BY <1>1, <2>4, <3>2, <3>3 DEF z
  <2>6. x \in Occurrences(w, d)
    BY <1>7, <2>1 DEF z, b
  <2>7. x \in Nat /\ x >= i /\ x + z = g - b + 1 /\ x - 1 = g - z - b
    <3> HIDE DEF g
    <3>1. z \in {1, 2}
      BY <1>1 DEF z
    <3> QED
      BY <1>4, <2>4, <3>1
  <2>8. Later(w, d, i) # {}
    BY <2>6, <2>7 DEF Later
  <2>9. m \in Occurrences(w, d) /\ m \in Nat /\ i <= m /\ m <= x
    <3> HIDE DEF x, i
    <3> QED
      BY <1>5, <2>3, <2>6, <2>7, <2>8, LaterIs
  <2> HIDE DEF m
  <2>10. m = x
    <3>1. i \in Nat
      BY <2>3
    <3> HIDE DEF i, x
    <3>2. PICK v \in u..q-1 : m = e[v] - z + 1 - b
      BY <2>3, <2>9, <3>1
    <3>3. v \in 0..n /\ u \in 0..n /\ u <= v
      BY <2>1
    <3>a. g <= e[v]
      <4> HIDE DEF u
      <4> QED
        BY <1>rise, <3>3
    <3>4. g <= e[v] /\ e[v] \in Nat
      BY <1>1, <3>3, <3>a
    <3>5. x <= m
      <4> DEFINE y == e[v]
      <4>1. m = y - z + 1 - b /\ g <= y /\ y \in Nat /\ g \in Nat /\ z \in {1, 2} /\ b \in Nat
        BY <1>1, <1>4, <2>4, <3>2, <3>4 DEF z
      <4> HIDE DEF y, g
      <4> QED
        BY <4>1 DEF x
    <3> QED
      BY <2>7, <2>9, <3>5
  <2>11. f[i] = <<SubSeq(w, i, x - 1)>> \o f[x + z]
    <3>1. f[i] = <<SubSeq(w, i, m - 1)>> \o f[m + Len(Ending[d])]
      <4>1. i \in 1..(Len(w) + 1) /\ Later(w, d, i) # {} /\ 1 \in Nat
        BY <2>3, <2>8
      <4> HIDE DEF i
      <4>2. f[i] = IF Later(w, d, i) = {} THEN <<SubSeq(w, i, Len(w))>>
                   ELSE <<SubSeq(w, i, Min(Later(w, d, i)) - 1)>>
                          \o f[Min(Later(w, d, i)) + Len(Ending[d])]
        BY <1>8, <4>1
      <4> QED
        BY <4>1, <4>2 DEF m
    <3> HIDE DEF i, x
    <3> QED
      BY <2>10, <3>1 DEF z, Size
  <2>12. SubSeq(w, i, x - 1) = ls[u]
    <3> DEFINE a == e[t]
               y == g - z
    <3>1. y \in Nat /\ a \in Nat /\ b <= a /\ a <= y /\ y <= c
      <4>1. z \in {1, 2}
        BY <1>1 DEF z
      <4> HIDE DEF g
      <4> QED
        BY <1>4, <2>4, <2>5, <4>1
    <3> HIDE DEF a, y
    <3>2. SubSeq(SubSeq(s, b + 1, c), a - b + 1, y - b) = SubSeq(s, a + 1, y)
      BY <1>1, <1>4, <3>1, WindowOfWindow
    <3>3. x - 1 = y - b
      BY <2>7 DEF y
    <3> HIDE DEF x, g
    <3> QED
      BY <2>4, <3>2, <3>3 DEF a, y, w
  <2>13. f[x + z] = SubSeq(ls, u + 1, q)
    <3>1. x + z = e[u] - b + 1
      BY <2>7
    <3> HIDE DEF x
    <3> QED
      BY <2>2, <3>1 DEF R
  <2>14. SubSeq(ls, u, q) = <<ls[u]>> \o SubSeq(ls, u + 1, q)
    <3>1. ls \in Seq(Seq(Text)) /\ u \in 1..Len(ls) /\ q \in u..Len(ls)
      BY <2>1 DEF AllEnd
    <3> HIDE DEF u
    <3> QED
      BY <3>1, SubSeqRecursiveFirst
  <2> HIDE DEF u, x
  <2>15. f[i] = SubSeq(ls, u, q)
    BY <2>11, <2>12, <2>13, <2>14
  <2>16. R(t)
    BY <2>15 DEF R, u
  <2> QED
    BY <2>16 DEF t
<1> HIDE DEF P, R
<1>12. Nat \subseteq P
  BY <1>10, <1>11, SetInduction
<1>13. q - 1 - k \in Nat /\ q - 1 - (q - 1 - k) = k /\ q - 1 - k <= q - 1 - k
  OBVIOUS
<1>14. R(k)
  BY <1>12, <1>13 DEF P
<1>15. e[k] - b + 1 = 1
  BY <1>4 DEF b
<1> QED
  BY <1>8, <1>14, <1>15 DEF R, w, b, c, z

-----------------------------------------------------------------------------
(* What is read, and what a line read is split into. *)

\* What readRecvBuf returns, and keeps.
Read(line, rest, d) == [line |-> line, rest |-> rest, delimiter |-> d]

\* A read finds the end of no line, or takes all up to one and keeps what is behind it.
LEMMA ReadIs ==
  ASSUME NEW n \in Nat, NEW ls, NEW es, NEW s, NEW e, Cut(s, ls, es, e, n),
         NEW k \in 0..n, NEW r \in Nat, e[k] <= r, r <= Len(s)
  PROVE  LET buf == SubSeq(s, e[k] + 1, r)
         IN  \/ /\ ReadRecvBuf(buf) = Read(<<>>, buf, delimiter)
                /\ \A j \in k+1..n : ~(e[j] <= r)
             \/ \E q \in k+1..n :
                  /\ e[q] <= r
                  /\ ReadRecvBuf(buf) =
                       Read(SubSeq(s, e[k] + 1, e[q] - Size(es[q])), SubSeq(s, e[q] + 1, r), es[q])
                  /\ \A j \in k+1..n : e[j] <= r /\ es[j] = es[q] => j <= q
<1> DEFINE b == e[k]
           buf == SubSeq(s, b + 1, r)
           d == IF Occurrences(buf, "CRLF") # {} THEN "CRLF" ELSE "LF"
           z == Size(d)
           m == FoundAt(buf, d)
<1>1. s \in Seq(Byte) /\ b \in Nat /\ Len(s) \in Nat /\ d \in {"CRLF", "LF"} /\ \A j \in 0..n : e[j] \in Nat
  BY LenProperties DEF Cut
<1>2. z \in {1, 2} /\ z \in Nat
  BY <1>1, EndingIs
<1>3. buf \in Seq(Byte) /\ Len(buf) = r - b
  <2> HIDE DEF b
  <2> QED
    BY <1>1, Window DEF b
<1>4. ReadRecvBuf(buf) =
        IF Occurrences(buf, d) = {} THEN Read(<<>>, buf, delimiter)
        ELSE Read(SubSeq(buf, 1, m - 1), SubSeq(buf, m + z, Len(buf)), d)
  BY DEF ReadRecvBuf, Read, Behind, Size
<1>5. CASE Occurrences(buf, d) = {}
  <2>1. d = "LF" /\ Occurrences(buf, "LF") = {}
    BY <1>5
  <2>2. ASSUME NEW j \in k+1..n, e[j] <= r
        PROVE  FALSE
    <3>1. e[j] - Size("LF") + 1 - e[k] \in Occurrences(SubSeq(s, e[k] + 1, r), "LF")
      <4>1. "LF" \in {"CRLF", "LF"} /\ "LF" # "CRLF"
        OBVIOUS
      <4> QED
        BY <2>2, <4>1, EndOccurs
    <3> QED
      BY <2>1, <3>1
  <2> HIDE DEF d, m
  <2>3. ReadRecvBuf(buf) = Read(<<>>, buf, delimiter)
    BY <1>4, <1>5
  <2> QED
    BY <2>2, <2>3
<1>6. CASE Occurrences(buf, d) # {}
  <2>1. m \in Occurrences(buf, d) /\ \A i \in Occurrences(buf, d) : m >= i
    <3>1. Len(buf) \in Nat
      BY <1>3, LenProperties
    <3> HIDE DEF d, buf
    <3>2. Occurrences(buf, d) \subseteq 0..Len(buf)
      <4>1. \A i \in Occurrences(buf, d) : i \in 1..Len(buf)
        BY DEF Occurrences
      <4>2. \A i \in 1..Len(buf) : i \in 0..Len(buf)
        BY <3>1
      <4> QED
        BY <4>1, <4>2
    <3> QED
      BY <1>6, <3>1, <3>2, MaxIs DEF FoundAt
  <2> HIDE DEF m
  <2>2. d = "LF" => Occurrences(buf, "CRLF") = {}
    BY <1>1, Symbols
  <2> HIDE DEF d
  <2>3. PICK q \in k+1..n : e[k] + m + Size(d) - 1 = e[q] /\ e[q] <= r /\ (d = "CRLF" => es[q] = "CRLF")
    <3>1. m \in Occurrences(SubSeq(s, e[k] + 1, r), d) /\ d \in {"CRLF", "LF"}
      BY <1>1, <2>1
    <3> HIDE DEF b, z, buf
    <3> QED
      BY <3>1, OccurrenceEnds
  <2>4. q \in 0..n /\ q \in 1..n /\ es[q] \in {"CRLF", "LF"} /\ e[q] \in Nat
    <3>1. q \in 0..n /\ q \in 1..n
      OBVIOUS
    <3> QED
      BY <1>1, <3>1, CutEnd
  <2>5. d = es[q]
    <3> SUFFICES ASSUME d = "LF", es[q] = "CRLF"
                 PROVE  FALSE
      BY <1>1, <2>3, <2>4
    <3>1. "CRLF" \in {"CRLF", "LF"}
      OBVIOUS
    <3>2. e[q] - Size("CRLF") + 1 - e[k] \in Occurrences(SubSeq(s, e[k] + 1, r), "CRLF")
      BY <2>3, <3>1, EndOccurs
    <3> QED
      BY <2>2, <3>2
  <2>6. ASSUME NEW j \in k+1..n, e[j] <= r, es[j] = es[q]
        PROVE  j <= q
    <3>1. e[j] - Size(d) + 1 - e[k] \in Occurrences(SubSeq(s, e[k] + 1, r), d)
      BY <1>1, <2>5, <2>6, EndOccurs
    <3>2. e[j] - z + 1 - b <= m
      BY <2>1, <3>1
    <3>3. j \in 0..n /\ e[j] \in Nat /\ m \in Nat
      <4>1. m \in 1..Len(buf) /\ Len(buf) \in Nat
        BY <1>3, <2>1, LenProperties DEF Occurrences
      <4>2. j \in 0..n
        OBVIOUS
      <4> QED
        BY <1>1, <4>1, <4>2
    <3>4. e[j] <= e[q]
      <4> DEFINE x == e[j]
                 y == e[q]
      <4>1. x - z + 1 - b <= m /\ b + m + z - 1 = y /\ x \in Nat /\ y \in Nat
        BY <2>3, <2>4, <3>2, <3>3
      <4> HIDE DEF x, y, b, z
      <4>2. x <= y
        BY <1>1, <1>2, <3>3, <4>1
      <4> QED
        BY <4>2 DEF x, y
    <3>5. q < j => e[q] < e[j]
      BY <2>4, <3>3, CutGrows
    <3> QED
      BY <2>4, <3>3, <3>4, <3>5
  <2> DEFINE f == e[q]
  <2>7. /\ m \in Nat /\ f \in Nat /\ f - z \in Nat /\ b <= f - z /\ f - z <= r /\ b <= f /\ f <= r
        /\ m - 1 = f - z - b /\ m + z = f - b + 1
    <3>1. m \in Nat /\ m >= 1
      <4>1. m \in 1..Len(buf) /\ Len(buf) \in Nat
        BY <1>3, <2>1, LenProperties DEF Occurrences
      <4> QED
        BY <4>1
    <3>2. b + m + z - 1 = f /\ f <= r /\ f \in Nat
      BY <2>3, <2>4
    <3> HIDE DEF b, f, z
    <3> QED
      BY <1>1, <1>2, <3>1, <3>2
  <2>8. SubSeq(buf, 1, m - 1) = SubSeq(s, b + 1, f - z)
    <3> DEFINE c == f - z
    <3>1. c \in Nat /\ b <= b /\ b <= c /\ c <= r /\ b - b + 1 = 1 /\ m - 1 = c - b
      BY <1>1, <2>7
    <3> HIDE DEF b, c, m
    <3>2. SubSeq(SubSeq(s, b + 1, r), b - b + 1, c - b) = SubSeq(s, b + 1, c)
      BY <1>1, <3>1, WindowOfWindow
    <3> QED
      BY <3>1, <3>2 DEF c
  <2>9. SubSeq(buf, m + z, Len(buf)) = SubSeq(s, f + 1, r)
    <3>1. r <= r /\ Len(buf) = r - b /\ b <= r
      BY <1>3
    <3> HIDE DEF b, f, m
    <3>2. SubSeq(SubSeq(s, b + 1, r), f - b + 1, r - b) = SubSeq(s, f + 1, r)
      BY <1>1, <2>7, <3>1, WindowOfWindow
    <3> QED
      BY <2>7, <3>1, <3>2
  <2>10. ReadRecvBuf(buf) = Read(SubSeq(s, b + 1, f - z), SubSeq(s, f + 1, r), d)
    <3> HIDE DEF b, f, buf
    <3> QED
      BY <1>4, <1>6, <2>8, <2>9 DEF m
  <2>11. ReadRecvBuf(buf) = Read(SubSeq(s, b + 1, f - Size(es[q])), SubSeq(s, f + 1, r), es[q])
    BY <2>5, <2>10
  <2> QED
    BY <2>3, <2>6, <2>11
<1> QED
  BY <1>5, <1>6

\* What is dropped with the last member.
LEMMA FrontIs ==
  ASSUME NEW S, NEW x \in Seq(S), x # <<>>
  PROVE  /\ Front(x) \in Seq(S) /\ x = Append(Front(x), Last(x)) /\ Len(x) = Len(Front(x)) + 1
         /\ Last(x) \in S
         /\ \A j \in 0..Len(Front(x)) : SubSeq(Front(x), 1, j) = SubSeq(x, 1, j)
<1>1. PICK y \in Seq(S), z \in S : x = Append(y, z)
  BY SequenceEmptyOrAppend
<1>2. Len(x) = Len(y) + 1 /\ Len(y) \in Nat /\ x[Len(y)+1] = z /\ \A i \in 1..Len(y) : x[i] = y[i]
  BY <1>1, AppendProperties, LenProperties
<1>3. Last(x) = z
  BY <1>2 DEF Last
<1>4. Front(x) = y
  <2>1. Front(x) = SubSeq(x, 1, Len(y))
    BY <1>2 DEF Front
  <2>2. SubSeq(x, 0 + 1, Len(y)) \in Seq(S) /\ Len(SubSeq(x, 0 + 1, Len(y))) = Len(y) - 0
        /\ \A i \in 1..Len(y)-0 : SubSeq(x, 0 + 1, Len(y))[i] = x[0+i]
    BY <1>2, Window
  <2>3. 0 + 1 = 1 /\ Len(y) - 0 = Len(y) /\ \A i \in 1..Len(y) : 0 + i = i
    BY <1>2
  <2>4. SubSeq(x, 1, Len(y)) = y
    BY <1>2, <2>2, <2>3, SeqEqual
  <2> QED
    BY <2>1, <2>4
<1>5. ASSUME NEW j \in 0..Len(y)
      PROVE  SubSeq(y, 1, j) = SubSeq(x, 1, j)
  <2>1. /\ SubSeq(x, 0 + 1, j) \in Seq(S) /\ Len(SubSeq(x, 0 + 1, j)) = j - 0
        /\ \A i \in 1..j-0 : SubSeq(x, 0 + 1, j)[i] = x[0+i]
    BY <1>2, Window
  <2>2. /\ SubSeq(y, 0 + 1, j) \in Seq(S) /\ Len(SubSeq(y, 0 + 1, j)) = j - 0
        /\ \A i \in 1..j-0 : SubSeq(y, 0 + 1, j)[i] = y[0+i]
    BY <1>2, Window
  <2>3. 0 + 1 = 1 /\ j - 0 = j /\ \A i \in 1..j : 0 + i = i /\ i \in 1..Len(y)
    BY <1>2
  <2> QED
    BY <1>2, <2>1, <2>2, <2>3, SeqEqual
<1> QED
  BY <1>1, <1>2, <1>3, <1>4, <1>5

\* Splitting keeps the pieces, but perhaps not an empty one at the end.
LEMMA SplitIs ==
  ASSUME NEW w \in Seq(Byte), NEW d \in {"CRLF", "LF"}
  PROVE  /\ Split(w, d) \in Seq(Seq(Byte))
         /\ FlattenSeq(Split(w, d)) = FlattenSeq(Pieces(w, d))
         /\ Commands(Split(w, d)) = Commands(Pieces(w, d))
         /\ Len(Split(w, d)) <= Len(Pieces(w, d))
         /\ \A j \in 0..Len(Split(w, d)) : SubSeq(Split(w, d), 1, j) = SubSeq(Pieces(w, d), 1, j)
<1> DEFINE p == Pieces(w, d)
           x == Split(w, d)
<1>1. p \in Seq(Seq(Byte)) /\ p # <<>> /\ Len(p) \in Nat
  BY PiecesApart, LenProperties DEF Apart
<1>2. x = p \/ (Last(p) = <<>> /\ x = Front(p))
  BY DEF Split
<1> HIDE DEF x, p
<1>3. CASE x = p
  BY <1>1, <1>3 DEF x, p
<1>4. CASE Last(p) = <<>> /\ x = Front(p)
  <2>1. /\ Front(p) \in Seq(Seq(Byte)) /\ p = Append(Front(p), <<>>) /\ Len(p) = Len(Front(p)) + 1
        /\ \A j \in 0..Len(Front(p)) : SubSeq(Front(p), 1, j) = SubSeq(p, 1, j)
    BY <1>1, <1>4, FrontIs
  <2>2. <<>> \in Seq(Byte) /\ CommandIn(<<>>) = <<>>
    BY EmptySeq DEF CommandIn
  <2>3. FlattenSeq(p) = FlattenSeq(x) \o <<>> /\ FlattenSeq(x) \in Seq(Byte)
    BY <1>4, <2>1, <2>2, FlattenAppend, FlattenType
  <2>4. Commands(p) = Commands(x) \o <<>> /\ Commands(x) \in Seq(Seq(Byte))
    BY <1>4, <2>1, <2>2, CommandsAppend, CommandsType
  <2>5. FlattenSeq(x) = FlattenSeq(p)
    BY <2>3, ConcatEmptySeq
  <2>6. Commands(x) = Commands(p)
    BY <2>4, ConcatEmptySeq
  <2>7. Len(x) <= Len(p)
    <3>1. Len(x) \in Nat
      BY <1>4, <2>1, LenProperties
    <3> QED
      BY <1>4, <2>1, <3>1
  <2> QED
    BY <1>4, <2>1, <2>5, <2>6, <2>7 DEF x, p
<1> QED
  BY <1>2, <1>3, <1>4

\* Nothing has one empty piece.
LEMMA PiecesOfNothing ==
  ASSUME NEW d \in {"CRLF", "LF"}
  PROVE  Pieces(<<>>, d) = <<<<>>>>
<1>1. <<>> \in Seq(Byte) /\ Len(<<>>) = 0
  BY EmptySeq
<1>2. PICK f : /\ Pieces(<<>>, d) = f[1]
               /\ \A i \in 1..Len(<<>>)+1 :
                    f[i] = IF Later(<<>>, d, i) = {} THEN <<SubSeq(<<>>, i, Len(<<>>))>>
                           ELSE <<SubSeq(<<>>, i, Min(Later(<<>>, d, i)) - 1)>>
                                  \o f[Min(Later(<<>>, d, i)) + Len(Ending[d])]
  BY <1>1, PiecesFrom
<1>3. Later(<<>>, d, 1) = {}
  <2>1. 1..Len(<<>>) = {}
    BY <1>1
  <2> QED
    BY <2>1 DEF Later, Occurrences
<1>4. 1 \in 1..Len(<<>>)+1
  BY <1>1
<1>5. f[1] = <<SubSeq(<<>>, 1, 0)>>
  BY <1>1, <1>2, <1>3, <1>4
<1>6. SubSeq(<<>>, 1, 0) = <<>>
  BY SubSeqEmpty
<1> QED
  BY <1>2, <1>5, <1>6

-----------------------------------------------------------------------------
(* Text is kept, line by line. *)

\* x is all the text of lines k + 1 to q, and each of its pieces ends where a line does.
Kept(x, s, e, k, q) ==
  /\ TextOf(FlattenSeq(x)) = TextOf(SubSeq(s, e[k] + 1, e[q]))
  /\ \A j \in 0..Len(x) :
       \E h \in k..q : TextOf(FlattenSeq(SubSeq(x, 1, j))) = TextOf(SubSeq(s, e[k] + 1, e[h]))

\* A line has no text at its end.
LEMMA EndText ==
  ASSUME NEW n \in Nat, NEW ls, NEW es, NEW s, NEW e, Cut(s, ls, es, e, n), NEW q \in 1..n,
         NEW b \in Nat, b <= e[q] - Size(es[q])
  PROVE  TextOf(SubSeq(s, b + 1, e[q])) = TextOf(SubSeq(s, b + 1, e[q] - Size(es[q])))
<1> DEFINE f == e[q]
           z == Size(es[q])
           c == f - z
<1>1. s \in Seq(Byte) /\ Len(s) \in Nat
  BY LenProperties DEF Cut
<1>2. e[q-1] \in Nat /\ f \in 1..Len(s) /\ es[q] \in {"CRLF", "LF"} /\ e[q-1] <= f - z
      /\ s[f] = "LF" /\ (es[q] = "CRLF" => s[f-1] = "CR")
  BY CutEnd
<1>3. z \in {1, 2} /\ (z = 2 => es[q] = "CRLF")
  BY <1>2, EndingIs
<1>4. c \in Nat /\ b <= c /\ c <= f /\ f <= Len(s) /\ f \in Nat /\ f - c = z
  <2> DEFINE a == e[q-1]
  <2>1. a \in Nat /\ a <= f - z
    BY <1>2
  <2> HIDE DEF a, f, z
  <2>2. c \in Nat /\ c <= f /\ f <= Len(s) /\ f \in Nat /\ f - c = z
    BY <1>1, <1>2, <1>3, <2>1
  <2>3. b <= c
    BY DEF f, z
  <2> QED
    BY <2>2, <2>3
<1> HIDE DEF f, z, c
<1>5. SubSeq(s, b + 1, c) \o SubSeq(s, c + 1, f) = SubSeq(s, b + 1, f)
  <2> DEFINE a == b + 1
  <2>1. a \in 1..Len(s)+1 /\ c \in a-1..Len(s) /\ f \in c..Len(s)
    BY <1>1, <1>4
  <2> HIDE DEF a
  <2>2. SubSeq(s, a, c) \o SubSeq(s, c + 1, f) = SubSeq(s, a, f)
    BY <1>1, <2>1, ConcatAdjacentSubSeq
  <2> QED
    BY <2>2 DEF a
<1>6. SubSeq(s, b + 1, c) \in Seq(Byte)
  <2>1. c <= Len(s)
    BY <1>1, <1>4
  <2> QED
    BY <1>1, <1>4, <2>1, Window
<1>7. SubSeq(s, c + 1, f) \in Seq(Byte) /\ Len(SubSeq(s, c + 1, f)) = z
      /\ \A i \in 1..z : SubSeq(s, c + 1, f)[i] = s[c+i]
  BY <1>1, <1>4, Window
<1>8. ASSUME NEW i \in 1..z
      PROVE  s[c+i] \notin Text
  <2>1. c + i = f \/ (z = 2 /\ c + i = f - 1)
    BY <1>3, <1>4
  <2> QED
    BY <1>2, <1>3, <2>1, Symbols DEF f
<1>9. TextOf(SubSeq(s, c + 1, f)) = <<>>
  BY <1>7, <1>8, NoText
<1>10. TextOf(SubSeq(s, b + 1, f)) = TextOf(SubSeq(s, b + 1, c)) \o <<>>
  BY <1>5, <1>6, <1>7, <1>9, TextConcat
<1>11. TextOf(SubSeq(s, b + 1, c)) \in Seq(Text)
  BY <1>6, TextType
<1>12. TextOf(SubSeq(s, b + 1, f)) = TextOf(SubSeq(s, b + 1, c))
  BY <1>10, <1>11, ConcatEmptySeq
<1> QED
  BY <1>12 DEF c, f, z

\* What split makes of lines k + 1 to q keeps their text.
LEMMA SplitKept ==
  ASSUME NEW n \in Nat, NEW ls, NEW es, NEW s, NEW e, Cut(s, ls, es, e, n),
         NEW k \in 0..n, NEW q \in k+1..n
  PROVE  Kept(Split(SubSeq(s, e[k] + 1, e[q] - Size(es[q])), es[q]), s, e, k, q)
<1> DEFINE b == e[k]
           d == es[q]
           z == Size(d)
           c == e[q] - z
           w == SubSeq(s, b + 1, c)
           x == Split(w, d)
           y == Pieces(w, d)
<1>1. s \in Seq(Byte) /\ Len(s) \in Nat /\ b \in Nat /\ e[q] \in Nat /\ q \in 1..n /\ q \in 0..n
  <2>1. q \in 1..n /\ q \in 0..n
    OBVIOUS
  <2> QED
    BY <2>1, LenProperties DEF Cut
<1>2. e[q-1] \in Nat /\ e[q] \in 1..Len(s) /\ d \in {"CRLF", "LF"} /\ e[q-1] <= e[q] - z
  BY <1>1, CutEnd
<1>3. b <= e[q-1]
  <2>1. q - 1 \in 0..n /\ (k = q - 1 \/ k < q - 1)
    OBVIOUS
  <2>2. k < q - 1 => e[k] < e[q-1]
    BY <2>1, CutGrows
  <2> QED
    BY <1>1, <1>2, <2>1, <2>2
<1>4. z \in {1, 2}
  BY <1>2, EndingIs
<1>5. c \in Nat /\ b <= c /\ c <= Len(s) /\ c < e[q] /\ b <= e[q]
  <2> DEFINE a == e[q-1]
             f == e[q]
  <2>1. a \in Nat /\ f \in 1..Len(s) /\ a <= f - z /\ b <= a
    BY <1>2, <1>3
  <2> HIDE DEF a, b, z
  <2>2. f - z \in Nat /\ b <= f - z /\ f - z <= Len(s) /\ f - z < f /\ b <= f
    <3> HIDE DEF f
    <3> QED
      BY <1>1, <1>4, <2>1
  <2> QED
    BY <2>2
<1>6. w \in Seq(Byte) /\ Len(w) = c - b
  <2> HIDE DEF b, c
  <2> QED
    BY <1>1, <1>5, Window
<1>7. Apart(y, w, d, 1)
  <2> HIDE DEF w, d
  <2> QED
    BY <1>2, <1>6, PiecesApart
<1>8. /\ x \in Seq(Seq(Byte)) /\ FlattenSeq(x) = FlattenSeq(y) /\ Len(x) <= Len(y)
      /\ \A j \in 0..Len(x) : SubSeq(x, 1, j) = SubSeq(y, 1, j)
  <2> HIDE DEF w, d
  <2> QED
    BY <1>2, <1>6, SplitIs
<1>9. y \in Seq(Seq(Byte)) /\ Len(y) \in Nat /\ SubSeq(y, 1, Len(y)) = y
  <2>1. y \in Seq(Seq(Byte))
    <3> HIDE DEF w, d, y
    <3> QED
      BY <1>7 DEF Apart
  <2> HIDE DEF y
  <2> QED
    BY <2>1, LenProperties, SubSeqFull
<1> HIDE DEF x, y
<1>10. TextOf(SubSeq(s, b + 1, e[q])) = TextOf(SubSeq(s, b + 1, c))
  <2> HIDE DEF b
  <2> QED
    BY <1>1, <1>5, EndText
<1>11. ASSUME NEW p \in Nat, p <= c - b
       PROVE  SubSeq(w, 1, p) = SubSeq(s, b + 1, b + p)
  <2> DEFINE g == b + p
  <2>1. g \in Nat /\ b <= b /\ b <= g /\ g <= c /\ b - b + 1 = 1 /\ g - b = p
    <3> HIDE DEF b, c
    <3> QED
      BY <1>1, <1>5, <1>11
  <2> HIDE DEF g, b, c
  <2>2. SubSeq(SubSeq(s, b + 1, c), b - b + 1, g - b) = SubSeq(s, b + 1, g)
    BY <1>1, <1>5, <2>1, WindowOfWindow
  <2> QED
    BY <2>1, <2>2 DEF g
<1>12. ASSUME NEW j \in 0..Len(y)
       PROVE  \E h \in k..q : /\ TextOf(FlattenSeq(SubSeq(y, 1, j))) = TextOf(SubSeq(s, b + 1, e[h]))
                              /\ j = Len(y) => h = q
  <2>1. PICK p \in 1-1..Len(w) :
          /\ \/ p = 1 - 1
             \/ p = Len(w)
             \/ \E o \in Occurrences(w, d) : p = o + Size(d) - 1
          /\ j = Len(y) => p = Len(w)
          /\ TextOf(FlattenSeq(SubSeq(y, 1, j))) = TextOf(SubSeq(w, 1, p))
    <3> HIDE DEF w, d
    <3> DEFINE u == 1
    <3>1. Apart(y, w, d, u)
      BY <1>7
    <3> HIDE DEF u
    <3>2. \E p \in u-1..Len(w) :
            /\ \/ p = u - 1
               \/ p = Len(w)
               \/ \E o \in Occurrences(w, d) : p = o + Size(d) - 1
            /\ j = Len(y) => p = Len(w)
            /\ TextOf(FlattenSeq(SubSeq(y, 1, j))) = TextOf(SubSeq(w, u, p))
      BY <3>1, ApartAt
    <3> QED
      BY <3>2 DEF u
  <2>2. p \in Nat /\ p <= c - b
    <3> HIDE DEF w, b, c
    <3> QED
      BY <1>1, <1>5, <1>6
  <2>3. TextOf(FlattenSeq(SubSeq(y, 1, j))) = TextOf(SubSeq(s, b + 1, b + p))
    <3> HIDE DEF w, b, c
    <3> QED
      BY <1>11, <2>1, <2>2
  <2>4. CASE p = Len(w)
    <3>1. b + p = c
      <4> HIDE DEF w, b, c
      <4> QED
        BY <1>1, <1>5, <1>6, <2>4
    <3>2. q \in k..q
      OBVIOUS
    <3> HIDE DEF b, c, w
    <3>3. TextOf(FlattenSeq(SubSeq(y, 1, j))) = TextOf(SubSeq(s, b + 1, e[q]))
      BY <1>10, <2>3, <3>1
    <3> QED
      BY <3>2, <3>3
  <2>5. CASE p = 0 /\ p # Len(w)
    <3>a. k \in k..q
      OBVIOUS
    <3>b. b + 0 = e[k]
      BY <1>1
    <3> HIDE DEF b, w
    <3>1. b + p = e[k] /\ k \in k..q /\ j # Len(y)
      BY <2>1, <2>5, <3>a, <3>b
    <3> HIDE DEF b
    <3> QED
      BY <2>3, <3>1
  <2>6. CASE p # 0 /\ p # Len(w)
    <3>1. PICK o \in Occurrences(w, d) : p = o + z - 1
      <4>1. 1 - 1 = 0
        OBVIOUS
      <4> HIDE DEF w, d
      <4> QED
        BY <2>1, <2>6, <4>1
    <3>2. PICK h \in k+1..n : e[k] + o + Size(d) - 1 = e[h] /\ e[h] <= c
      <4>1. e[k] <= c /\ c \in Nat /\ c <= Len(s) /\ o \in Occurrences(SubSeq(s, e[k] + 1, c), d) /\ d \in {"CRLF", "LF"}
        BY <1>2, <1>5
      <4> HIDE DEF w, d, c, z
      <4> QED
        BY <4>1, OccurrenceEnds
    <3>3. h \in 0..n /\ e[h] \in Nat
      <4>1. h \in 0..n
        OBVIOUS
      <4> QED
        BY <4>1 DEF Cut
    <3>4. ~(q <= h)
      <4>1. q < h => e[q] < e[h]
        BY <1>1, <3>3, CutGrows
      <4>2. e[h] < e[q]
        <5> HIDE DEF c
        <5> QED
          BY <1>1, <1>5, <3>2, <3>3
      <4>3. h = q => ~(e[h] < e[q])
        BY <3>3
      <4>4. q <= h => q = h \/ q < h
        BY <1>1, <3>3
      <4> QED
        BY <1>1, <3>3, <4>1, <4>2, <4>3, <4>4
    <3>5. h \in k..q
      BY <3>4
    <3>6. b + p = e[h]
      <4>1. b + o + z - 1 = e[h] /\ o \in Nat
        <5>1. o \in 1..Len(w) /\ Len(w) \in Nat
          BY <1>6, LenProperties DEF Occurrences
        <5> QED
          BY <3>2, <5>1
      <4> HIDE DEF b, z
      <4> QED
        BY <1>1, <1>4, <3>1, <4>1
    <3>7. j # Len(y)
      BY <2>1, <2>6
    <3> HIDE DEF b
    <3> QED
      BY <2>3, <3>5, <3>6, <3>7
  <2> QED
    BY <2>4, <2>5, <2>6
<1> HIDE DEF b, c, w, d, z
<1>13. TextOf(FlattenSeq(x)) = TextOf(SubSeq(s, b + 1, e[q]))
  <2>1. Len(y) \in 0..Len(y)
    BY <1>9
  <2>2. TextOf(FlattenSeq(SubSeq(y, 1, Len(y)))) = TextOf(SubSeq(s, b + 1, e[q]))
    BY <1>12, <2>1
  <2> QED
    BY <1>8, <1>9, <2>2
<1>14. ASSUME NEW j \in 0..Len(x)
       PROVE  \E h \in k..q : TextOf(FlattenSeq(SubSeq(x, 1, j))) = TextOf(SubSeq(s, b + 1, e[h]))
  <2>1. j \in 0..Len(y)
    <3>1. Len(x) \in Nat
      BY <1>8, LenProperties
    <3> QED
      BY <1>8, <1>9, <3>1
  <2>2. SubSeq(x, 1, j) = SubSeq(y, 1, j)
    BY <1>8
  <2> QED
    BY <1>12, <2>1, <2>2
<1>15. Kept(x, s, e, k, q)
  BY <1>13, <1>14 DEF Kept, b
<1> QED
  BY <1>15 DEF x, w, c, b, z, d

\* What split makes of nothing: no text, and no command.
LEMMA SplitOfNothing ==
  ASSUME NEW d \in {"CRLF", "LF"}, NEW s, NEW e, NEW k \in Nat, e[k] \in Nat
  PROVE  /\ Split(<<>>, d) \in Seq(Seq(Byte))
         /\ Kept(Split(<<>>, d), s, e, k, k)
         /\ Commands(Split(<<>>, d)) = <<>>
<1> DEFINE x == Split(<<>>, d)
           y == <<<<>>>>
<1>1. <<>> \in Seq(Byte) /\ <<>> \in Seq(Seq(Byte)) /\ y \in Seq(Seq(Byte)) /\ Len(y) = 1
  BY EmptySeq
<1>2. /\ x \in Seq(Seq(Byte)) /\ FlattenSeq(x) = FlattenSeq(y) /\ Commands(x) = Commands(y)
      /\ Len(x) <= Len(y)
      /\ \A j \in 0..Len(x) : SubSeq(x, 1, j) = SubSeq(y, 1, j)
  BY <1>1, SplitIs, PiecesOfNothing
<1>3. FlattenSeq(y) = <<>> /\ FlattenSeq(<<>>) = <<>> /\ Commands(y) = <<>>
  BY <1>1, FlattenOne, FlattenEmpty, CommandsOfEmptyLine
<1>4. SubSeq(s, e[k] + 1, e[k]) = <<>>
  <2>1. e[k] \in Int /\ e[k] + 1 \in Int /\ e[k] < e[k] + 1
    OBVIOUS
  <2> QED
    BY <2>1, SubSeqEmpty
<1> HIDE DEF x
<1>5. ASSUME NEW j \in 0..Len(x)
      PROVE  FlattenSeq(SubSeq(x, 1, j)) = <<>>
  <2>1. j = 0 \/ j = 1
    <3>1. Len(x) \in Nat /\ Len(x) <= 1
      BY <1>1, <1>2, LenProperties
    <3> QED
      BY <3>1
  <2>2. SubSeq(y, 1, 0) = <<>>
    BY SubSeqEmpty
  <2>3. SubSeq(y, 1, 1) = y
    BY <1>1, SubSeqFull
  <2> QED
    BY <1>2, <1>3, <2>1, <2>2, <2>3
<1>6. k \in k..k
  OBVIOUS
<1>7. Kept(x, s, e, k, k)
  BY <1>2, <1>3, <1>4, <1>5, <1>6 DEF Kept
<1> QED
  BY <1>2, <1>3, <1>7 DEF x

\* The first j of y \o x end in y or in x.
EndsIn(y, x, j) ==
  \/ j \in 0..Len(y) /\ SubSeq(y \o x, 1, j) = SubSeq(y, 1, j)
  \/ \E i \in 0..Len(x) : SubSeq(y \o x, 1, j) = y \o SubSeq(x, 1, i)

\* Every prefix of y \o x is one of those.
LEMMA PrefixOfConcat ==
  ASSUME NEW S, NEW y \in Seq(S), NEW x \in Seq(S), NEW j \in 0..Len(y \o x)
  PROVE  EndsIn(y, x, j)
<1> DEFINE t == y \o x
<1>1. /\ t \in Seq(S) /\ Len(t) = Len(y) + Len(x) /\ Len(y) \in Nat /\ Len(x) \in Nat
      /\ \A h \in 1..Len(y)+Len(x) : t[h] = IF h <= Len(y) THEN y[h] ELSE x[h - Len(y)]
  BY ConcatProperties, LenProperties
<1> HIDE DEF t
<1>2. ASSUME NEW u \in Seq(S), NEW h \in 0..Len(u)
      PROVE  SubSeq(u, 1, h) \in Seq(S) /\ Len(SubSeq(u, 1, h)) = h /\ \A i \in 1..h : SubSeq(u, 1, h)[i] = u[i]
  <2>1. /\ SubSeq(u, 0 + 1, h) \in Seq(S) /\ Len(SubSeq(u, 0 + 1, h)) = h - 0
        /\ \A i \in 1..h-0 : SubSeq(u, 0 + 1, h)[i] = u[0+i]
    <3>1. 0 \in Nat /\ h \in Nat /\ 0 <= h /\ h <= Len(u)
      BY LenProperties
    <3> QED
      BY <3>1, Window
  <2>2. 0 + 1 = 1 /\ h - 0 = h /\ \A i \in 1..h : 0 + i = i
    OBVIOUS
  <2> QED
    BY <2>1, <2>2
<1>3. j \in 0..Len(t)
  BY DEF t
<1>4. SubSeq(t, 1, j) \in Seq(S) /\ Len(SubSeq(t, 1, j)) = j /\ \A i \in 1..j : SubSeq(t, 1, j)[i] = t[i]
  BY <1>1, <1>2, <1>3
<1>5. CASE j <= Len(y)
  <2>1. j \in 0..Len(y) /\ \A i \in 1..j : i \in 1..Len(y)+Len(x) /\ i <= Len(y)
    BY <1>1, <1>3, <1>5
  <2>2. SubSeq(y, 1, j) \in Seq(S) /\ Len(SubSeq(y, 1, j)) = j /\ \A i \in 1..j : SubSeq(y, 1, j)[i] = y[i]
    BY <1>2, <2>1
  <2>3. \A i \in 1..j : SubSeq(t, 1, j)[i] = SubSeq(y, 1, j)[i]
    BY <1>1, <1>4, <2>1, <2>2
  <2>4. SubSeq(t, 1, j) = SubSeq(y, 1, j)
    BY <1>4, <2>2, <2>3, SeqEqual
  <2> QED
    BY <2>1, <2>4 DEF t, EndsIn
<1>6. CASE ~(j <= Len(y))
  <2> DEFINE g == j - Len(y)
             v == SubSeq(x, 1, g)
             w == y \o v
  <2>1. g \in 0..Len(x) /\ Len(y) + g = j
    BY <1>1, <1>3, <1>6
  <2> HIDE DEF g
  <2>2. v \in Seq(S) /\ Len(v) = g /\ \A i \in 1..g : v[i] = x[i]
    BY <1>2, <2>1
  <2> HIDE DEF v
  <2>3. w \in Seq(S) /\ Len(w) = Len(y) + Len(v)
        /\ \A i \in 1..Len(y)+Len(v) : w[i] = IF i <= Len(y) THEN y[i] ELSE v[i - Len(y)]
    BY <2>2, ConcatProperties
  <2> HIDE DEF w
  <2>4. ASSUME NEW i \in 1..j
        PROVE  SubSeq(t, 1, j)[i] = w[i]
    <3>1. i \in 1..Len(y)+Len(x) /\ i \in 1..Len(y)+Len(v)
      BY <1>1, <2>1, <2>2
    <3>2. CASE i <= Len(y)
      BY <1>1, <1>4, <2>3, <3>1, <3>2
    <3>3. CASE ~(i <= Len(y))
      <4>1. i - Len(y) \in 1..g
        BY <1>1, <2>1, <3>3
      <4> QED
        BY <1>1, <1>4, <2>2, <2>3, <3>1, <3>3, <4>1
    <3> QED
      BY <3>2, <3>3
  <2>5. Len(w) = j
    BY <2>1, <2>2, <2>3
  <2>6. SubSeq(t, 1, j) = w
    BY <1>4, <2>3, <2>4, <2>5, SeqEqual
  <2> QED
    BY <2>1, <2>6 DEF t, w, v, EndsIn
<1> QED
  BY <1>5, <1>6

\* Lines behind lines.
LEMMA KeptMore ==
  ASSUME NEW s \in Seq(Byte), NEW e, NEW k \in Nat, NEW q \in Nat, k <= q, e[0] = 0,
         \A h \in 0..q : e[h] \in 0..Len(s), \A h \in k..q : e[k] <= e[h],
         NEW y \in Seq(Seq(Byte)), NEW x \in Seq(Seq(Byte)), Kept(y, s, e, 0, k), Kept(x, s, e, k, q)
  PROVE  Kept(y \o x, s, e, 0, q)
<1> DEFINE b == e[k]
<1>1. k \in 0..q /\ b \in 0..Len(s) /\ e[0] + 1 = 1 /\ Len(s) \in Nat /\ b \in Nat
  <2>1. k \in 0..q /\ Len(s) \in Nat
    BY LenProperties
  <2>2. b \in 0..Len(s)
    BY <2>1
  <2> QED
    BY <2>1, <2>2
<1>2. TextOf(FlattenSeq(y)) = TextOf(SubSeq(s, 1, b))
  BY <1>1 DEF Kept
<1>3. ASSUME NEW u \in Seq(Seq(Byte)), NEW h \in k..q,
             TextOf(FlattenSeq(u)) = TextOf(SubSeq(s, b + 1, e[h]))
      PROVE  TextOf(FlattenSeq(y \o u)) = TextOf(SubSeq(s, 1, e[h]))
  <2> DEFINE c == e[h]
  <2>1. c \in 0..Len(s) /\ b <= c /\ c \in Nat
    <3>1. h \in 0..q
      OBVIOUS
    <3>2. c \in 0..Len(s) /\ b <= c
      BY <3>1
    <3> QED
      BY <3>2
  <2> HIDE DEF b, c
  <2>2. SubSeq(s, 1, b) \o SubSeq(s, b + 1, c) = SubSeq(s, 1, c)
    <3>1. 1 \in 1..Len(s)+1 /\ b \in 1-1..Len(s) /\ c \in b..Len(s)
      BY <1>1, <2>1
    <3> QED
      BY <3>1, ConcatAdjacentSubSeq
  <2>3. SubSeq(s, 1, b) \in Seq(Byte) /\ SubSeq(s, b + 1, c) \in Seq(Byte)
    <3>1. SubSeq(s, 0 + 1, b) \in Seq(Byte) /\ 0 + 1 = 1
      <4>1. 0 \in Nat /\ 0 <= b /\ b <= Len(s)
        BY <1>1
      <4> QED
        BY <1>1, <4>1, Window
    <3>2. SubSeq(s, b + 1, c) \in Seq(Byte)
      <4>1. c <= Len(s)
        BY <1>1, <2>1
      <4> QED
        BY <1>1, <2>1, <4>1, Window
    <3> QED
      BY <3>1, <3>2
  <2>4. FlattenSeq(y \o u) = FlattenSeq(y) \o FlattenSeq(u)
        /\ FlattenSeq(y) \in Seq(Byte) /\ FlattenSeq(u) \in Seq(Byte)
    BY FlattenConcat, FlattenType
  <2>5. TextOf(FlattenSeq(y \o u)) = TextOf(FlattenSeq(y)) \o TextOf(FlattenSeq(u))
    BY <2>4, TextConcat
  <2>6. TextOf(SubSeq(s, 1, c)) = TextOf(SubSeq(s, 1, b)) \o TextOf(SubSeq(s, b + 1, c))
    BY <2>2, <2>3, TextConcat
  <2>7. TextOf(FlattenSeq(u)) = TextOf(SubSeq(s, b + 1, c))
    BY <1>3 DEF c, b
  <2>8. TextOf(FlattenSeq(y \o u)) = TextOf(SubSeq(s, 1, c))
    BY <1>2, <2>5, <2>6, <2>7
  <2> QED
    BY <2>8 DEF c
<1>4. TextOf(FlattenSeq(y \o x)) = TextOf(SubSeq(s, 1, e[q]))
  <2>1. q \in k..q /\ TextOf(FlattenSeq(x)) = TextOf(SubSeq(s, b + 1, e[q]))
    BY DEF Kept
  <2> HIDE DEF b
  <2> QED
    BY <1>3, <2>1
<1>5. ASSUME NEW j \in 0..Len(y \o x)
      PROVE  \E h \in 0..q : TextOf(FlattenSeq(SubSeq(y \o x, 1, j))) = TextOf(SubSeq(s, 1, e[h]))
  <2>1. CASE j \in 0..Len(y) /\ SubSeq(y \o x, 1, j) = SubSeq(y, 1, j)
    <3>1. PICK h \in 0..k : TextOf(FlattenSeq(SubSeq(y, 1, j))) = TextOf(SubSeq(s, e[0] + 1, e[h]))
      BY <2>1 DEF Kept
    <3>2. h \in 0..q
      OBVIOUS
    <3>3. TextOf(FlattenSeq(SubSeq(y \o x, 1, j))) = TextOf(SubSeq(s, 1, e[h]))
      <4> HIDE DEF b
      <4>1. e[0] + 1 = 1
        BY <1>1
      <4>2. TextOf(SubSeq(s, e[0] + 1, e[h])) = TextOf(SubSeq(s, 1, e[h]))
        BY <4>1
      <4> QED
        BY <2>1, <3>1, <4>2
    <3> QED
      BY <3>2, <3>3
  <2>2. CASE \E i \in 0..Len(x) : SubSeq(y \o x, 1, j) = y \o SubSeq(x, 1, i)
    <3>1. PICK i \in 0..Len(x) : SubSeq(y \o x, 1, j) = y \o SubSeq(x, 1, i)
      BY <2>2
    <3>2. PICK h \in k..q : TextOf(FlattenSeq(SubSeq(x, 1, i))) = TextOf(SubSeq(s, b + 1, e[h]))
      BY DEF Kept
    <3>3. SubSeq(x, 1, i) \in Seq(Seq(Byte))
      <4>1. \A g \in 1..i : g \in 1..Len(x)
        BY LenProperties
      <4>2. \A g \in 1..i : x[g] \in Seq(Byte)
        BY <4>1, ElementOfSeq
      <4>3. i \in Int /\ 1 \in Int
        OBVIOUS
      <4> QED
        BY <4>2, <4>3, SubSeqProperties
    <3>4. h \in 0..q
      OBVIOUS
    <3> HIDE DEF b
    <3>5. TextOf(FlattenSeq(y \o SubSeq(x, 1, i))) = TextOf(SubSeq(s, 1, e[h]))
      BY <1>3, <3>2, <3>3
    <3> QED
      BY <3>1, <3>4, <3>5
  <2>3. EndsIn(y, x, j)
    BY PrefixOfConcat
  <2> QED
    BY <2>1, <2>2, <2>3 DEF EndsIn
<1> QED
  BY <1>1, <1>4, <1>5 DEF Kept

\* The text of the first h lines.
LEMMA LinesText ==
  ASSUME NEW n \in Nat, NEW ls \in Seq(Seq(Text)), Len(ls) = n, NEW es, NEW s, NEW e,
         Cut(s, ls, es, e, n), NEW h \in 0..n
  PROVE  TextOf(SubSeq(s, 1, e[h])) = FlattenSeq(SubSeq(ls, 1, h))
<1> DEFINE R(i) == TextOf(SubSeq(s, 1, e[i])) = FlattenSeq(SubSeq(ls, 1, i))
           P == {i \in Nat : i <= n => R(i)}
<1>1. s \in Seq(Byte) /\ Len(s) \in Nat /\ e[0] = 0
  BY LenProperties DEF Cut
<1>2. 0 \in P
  <2>1. SubSeq(s, 1, 0) = <<>> /\ SubSeq(ls, 1, 0) = <<>>
    BY SubSeqEmpty
  <2>2. R(0)
    BY <1>1, <2>1, TextEmpty, FlattenEmpty
  <2> HIDE DEF R
  <2> QED
    BY <2>2
<1>3. ASSUME NEW i \in Nat, i \in P
      PROVE  i + 1 \in P
  <2> HIDE DEF R
  <2> SUFFICES ASSUME i + 1 <= n
               PROVE  R(i + 1)
    OBVIOUS
  <2> DEFINE g == i + 1
  <2>1. g \in 1..n /\ g - 1 = i /\ g \in 1..Len(ls) /\ g \in Nat
    OBVIOUS
  <2>2. R(i)
    BY <1>3, <2>1
  <2> HIDE DEF g, P
  <2> DEFINE b == e[i]
             c == e[g] - Size(es[g])
  <2>3. b \in Nat /\ e[g] \in 1..Len(s) /\ b <= c /\ SubSeq(s, b + 1, c) = ls[g] /\ es[g] \in {"CRLF", "LF"}
    <3>1. e[g-1] \in Nat /\ e[g] \in 1..Len(s) /\ es[g] \in {"CRLF", "LF"}
          /\ e[g-1] <= e[g] - Size(es[g])
          /\ SubSeq(s, e[g-1] + 1, e[g] - Size(es[g])) = ls[g]
      BY <2>1, CutEnd
    <3> QED
      BY <2>1, <3>1
  <2>4. c \in Nat /\ c <= Len(s)
    <3>1. Size(es[g]) \in {1, 2}
      BY <2>3, EndingIs
    <3> DEFINE z == Size(es[g])
               f == e[g]
    <3>2. z \in {1, 2} /\ f \in 1..Len(s) /\ b <= f - z
      BY <2>3, <3>1
    <3> HIDE DEF z, f, b
    <3>3. f - z \in Nat /\ f - z <= Len(s)
      BY <1>1, <2>3, <3>2
    <3> QED
      BY <3>3 DEF z, f
  <2>5. TextOf(SubSeq(s, 1, e[g])) = TextOf(SubSeq(s, 1, c))
    <3> DEFINE o == 0
    <3>1. o \in Nat /\ o <= e[g] - Size(es[g])
      BY <2>4
    <3> HIDE DEF o
    <3>2. TextOf(SubSeq(s, o + 1, e[g])) = TextOf(SubSeq(s, o + 1, e[g] - Size(es[g])))
      BY <2>1, <3>1, EndText
    <3>3. o + 1 = 1
      BY DEF o
    <3> QED
      BY <3>2, <3>3
  <2> HIDE DEF b, c
  <2>6. SubSeq(s, 1, b) \o SubSeq(s, b + 1, c) = SubSeq(s, 1, c)
    <3>1. 1 \in 1..Len(s)+1 /\ b \in 1-1..Len(s) /\ c \in b..Len(s)
      BY <1>1, <2>3, <2>4
    <3> QED
      BY <1>1, <3>1, ConcatAdjacentSubSeq
  <2>7. SubSeq(s, 1, b) \in Seq(Byte) /\ SubSeq(s, b + 1, c) \in Seq(Byte)
    <3>1. SubSeq(s, 0 + 1, b) \in Seq(Byte) /\ 0 + 1 = 1
      <4>1. 0 \in Nat /\ 0 <= b /\ b <= Len(s)
        BY <1>1, <2>3, <2>4
      <4> QED
        BY <1>1, <2>3, <4>1, Window
    <3>2. SubSeq(s, b + 1, c) \in Seq(Byte)
      BY <1>1, <2>3, <2>4, Window
    <3> QED
      BY <3>1, <3>2
  <2>8. TextOf(SubSeq(s, 1, c)) = TextOf(SubSeq(s, 1, b)) \o TextOf(ls[g])
    BY <2>3, <2>6, <2>7, TextConcat
  <2>9. ls[g] \in Seq(Text)
    BY <2>1, ElementOfSeq
  <2>10. TextOf(ls[g]) = ls[g]
    BY <2>9, TextOfText
  <2>11. SubSeq(ls, 1, g) = SubSeq(ls, 1, i) \o <<ls[g]>> /\ SubSeq(ls, 1, i) \in Seq(Seq(Text))
    <3>1. 1 \in 1..Len(ls) /\ g \in 1..Len(ls)
      BY <2>1
    <3>2. SubSeq(ls, 1, g) = SubSeq(ls, 1, g - 1) \o <<ls[g]>>
      BY <3>1, SubSeqRecursiveSecond
    <3>3. SubSeq(ls, 1, i) \in Seq(Seq(Text))
      <4>1. \A j \in 1..i : j \in 1..Len(ls)
        BY <2>1
      <4>2. \A j \in 1..i : ls[j] \in Seq(Text)
        BY <4>1, ElementOfSeq
      <4>3. i \in Int /\ 1 \in Int
        OBVIOUS
      <4> QED
        BY <4>2, <4>3, SubSeqProperties
    <3> QED
      BY <2>1, <3>2, <3>3
  <2>12. FlattenSeq(SubSeq(ls, 1, g)) = FlattenSeq(SubSeq(ls, 1, i)) \o ls[g]
    <3>1. <<ls[g]>> \in Seq(Seq(Text)) /\ FlattenSeq(<<ls[g]>>) = ls[g]
      BY <2>9, FlattenOne
    <3> QED
      BY <2>11, <3>1, FlattenConcat
  <2>13. TextOf(SubSeq(s, 1, b)) = FlattenSeq(SubSeq(ls, 1, i))
    BY <2>2 DEF R, b
  <2>14. TextOf(SubSeq(s, 1, e[g])) = FlattenSeq(SubSeq(ls, 1, g))
    BY <2>5, <2>8, <2>10, <2>12, <2>13
  <2>15. R(g)
    BY <2>14 DEF R
  <2> QED
    BY <2>15 DEF g
<1> HIDE DEF P, R
<1>4. Nat \subseteq P
  BY <1>2, <1>3, SetInduction
<1>5. h \in Nat /\ h <= n
  OBVIOUS
<1>6. R(h)
  BY <1>4, <1>5 DEF P
<1> QED
  BY <1>6 DEF R

-----------------------------------------------------------------------------
(* How many lines have arrived. *)

\* Of m lines, the first q are in the first r bytes, and no other is.
Arrived(e, m, r, q) == q \in 0..m /\ e[q] <= r /\ \A j \in 1..m : e[j] <= r => j <= q

\* Some number of lines has arrived.
LEMMA ArrivedSome ==
  ASSUME NEW n \in Nat, NEW ls, NEW es, NEW s, NEW e, Cut(s, ls, es, e, n), NEW r \in Nat
  PROVE  \E q : Arrived(e, n, r, q)
<1> DEFINE S == {j \in 0..n : e[j] <= r}
<1>1. S \subseteq 0..n /\ 0 \in S
  BY DEF Cut
<1>2. S # {}
  BY <1>1
<1>3. Max(S) \in S /\ \A y \in S : Max(S) >= y
  <2> HIDE DEF S
  <2> QED
    BY <1>1, <1>2, MaxIs
<1>4. PICK q \in S : \A y \in S : q >= y
  <2> HIDE DEF S
  <2> QED
    BY <1>3
<1>5. q \in 0..n /\ e[q] <= r
  OBVIOUS
<1>6. ASSUME NEW j \in 1..n, e[j] <= r
      PROVE  j <= q
  <2>1. j \in S
    BY <1>6
  <2>2. q >= j
    BY <1>4, <2>1
  <2> HIDE DEF S
  <2> QED
    BY <1>5, <2>2
<1> QED
  BY <1>5, <1>6 DEF Arrived

\* Every one of them has its LF, and no other byte is one.
LEMMA ArrivedAll ==
  ASSUME NEW n \in Nat, NEW ls, NEW es, NEW s, NEW e, Cut(s, ls, es, e, n),
         NEW r \in Nat, r <= Len(s), NEW q, Arrived(e, n, r, q)
  PROVE  {i \in 1..r : s[i] = "LF"} = {e[j] : j \in 1..q}
<1>1. q \in 0..n /\ e[q] <= r /\ Len(s) \in Nat /\ \A j \in 0..n : e[j] \in Nat
  BY LenProperties DEF Arrived, Cut
<1>2. ASSUME NEW i \in 1..r, s[i] = "LF"
      PROVE  i \in {e[j] : j \in 1..q}
  <2>1. i \in 1..Len(s) /\ i <= r
    BY <1>1
  <2>2. PICK j \in 1..n : i = e[j]
    BY <1>2, <2>1, CutLF
  <2>3. j <= q
    BY <2>1, <2>2 DEF Arrived
  <2>4. j \in 1..q
    BY <1>1, <2>3
  <2> QED
    BY <2>2, <2>4
<1>3. ASSUME NEW j \in 1..q
      PROVE  e[j] \in 1..r /\ s[e[j]] = "LF"
  <2>1. j \in 1..n /\ j \in 0..n /\ (j = q \/ j < q)
    BY <1>1
  <2>2. e[j] \in 1..Len(s) /\ s[e[j]] = "LF"
    BY <2>1, CutEnd
  <2>3. j < q => e[j] < e[q]
    BY <1>1, <2>1, CutGrows
  <2>4. e[q] \in Nat /\ e[j] \in Nat
    BY <1>1, <2>1
  <2>5. e[j] <= r
    BY <1>1, <2>1, <2>3, <2>4
  <2> QED
    BY <1>1, <2>2, <2>5
<1> QED
  BY <1>2, <1>3

\* The ends of q lines are q positions.
LEMMA ArrivedCount ==
  ASSUME NEW n \in Nat, NEW ls, NEW es, NEW s, NEW e, Cut(s, ls, es, e, n), NEW q \in 0..n
  PROVE  Cardinality({e[j] : j \in 1..q}) = q
<1> DEFINE S == {e[j] : j \in 1..q}
           f == [j \in 1..q |-> e[j]]
<1>1. \A j \in 1..q : j \in 0..n /\ e[j] \in Nat
  BY DEF Cut
<1>2. ASSUME NEW i \in 1..q, NEW j \in 1..q, f[i] = f[j]
      PROVE  i = j
  <2>1. i \in 0..n /\ j \in 0..n /\ e[i] = e[j] /\ e[i] \in Nat
    BY <1>1, <1>2
  <2>2. (i < j => e[i] < e[j]) /\ (j < i => e[j] < e[i])
    BY <2>1, CutGrows
  <2> QED
    BY <2>1, <2>2
<1>3. f \in [1..q -> S] /\ \A x \in S : \E j \in 1..q : f[j] = x
  OBVIOUS
<1>4. f \in Bijection(1..q, S)
  <2>1. f \in Injection(1..q, S)
    BY <1>2, <1>3 DEF Injection, IsInjective
  <2>2. f \in Surjection(1..q, S)
    BY <1>3 DEF Surjection
  <2> QED
    BY <2>1, <2>2 DEF Bijection
<1>5. ExistsBijection(1..q, S) /\ q \in Nat
  <2>1. Bijection(1..q, S) # {}
    BY <1>4
  <2> HIDE DEF S
  <2>2. ExistsBijection(1..q, S)
    BY <2>1 DEF ExistsBijection
  <2> QED
    BY <2>2
<1> HIDE DEF S
<1>6. Cardinality(S) = q
  BY <1>5, FS_CountingElements
<1> QED
  BY <1>6 DEF S

\* The last of them is the greatest.
LEMMA ArrivedLast ==
  ASSUME NEW n \in Nat, NEW ls, NEW es, NEW s, NEW e, Cut(s, ls, es, e, n), NEW q \in 0..n
  PROVE  Max({e[j] : j \in 1..q} \cup {0}) = e[q]
<1> DEFINE S == {e[j] : j \in 1..q} \cup {0}
<1>1. (\A j \in 0..q : j \in 0..n /\ e[j] \in Nat) /\ e[0] = 0
  BY DEF Cut
<1>2. S \subseteq Nat
  BY <1>1
<1>3. e[q] \in S
  <2>1. q = 0 \/ q \in 1..q
    OBVIOUS
  <2> QED
    BY <1>1, <2>1
<1>4. ASSUME NEW y \in S
      PROVE  e[q] >= y
  <2>1. e[q] \in Nat /\ q \in 0..n
    BY <1>1
  <2>2. CASE y = 0
    <3> HIDE DEF S
    <3> QED
      BY <2>1, <2>2
  <2>3. ASSUME NEW j \in 1..q
        PROVE  e[q] >= e[j]
    <3>1. j \in 0..n /\ e[j] \in Nat /\ (j = q \/ j < q)
      BY <1>1
    <3>2. j < q => e[j] < e[q]
      BY <2>1, <3>1, CutGrows
    <3> QED
      BY <2>1, <3>1, <3>2
  <2> QED
    BY <2>2, <2>3
<1> HIDE DEF S
<1>5. Max(S) = e[q]
  BY <1>2, <1>3, <1>4, MaxOnly
<1> QED
  BY <1>5 DEF S

-----------------------------------------------------------------------------
(* The lines of a read. *)

\* What a read takes is bytes, and so is what it is split into.
LEMMA ReadLines ==
  ASSUME NEW n \in Nat, NEW ls, NEW es, NEW s, NEW e, Cut(s, ls, es, e, n),
         NEW k \in 0..n, NEW q \in k+1..n
  PROVE  /\ es[q] \in {"CRLF", "LF"}
         /\ SubSeq(s, e[k] + 1, e[q] - Size(es[q])) \in Seq(Byte)
         /\ Split(SubSeq(s, e[k] + 1, e[q] - Size(es[q])), es[q]) \in Seq(Seq(Byte))
<1> DEFINE b == e[k]
           a == e[q-1]
           f == e[q]
           z == Size(es[q])
           c == f - z
           w == SubSeq(s, b + 1, c)
<1>1. s \in Seq(Byte) /\ Len(s) \in Nat /\ b \in Nat
  BY LenProperties DEF Cut
<1>2. q \in 1..n /\ q - 1 \in 0..n /\ (k = q - 1 \/ k < q - 1)
  OBVIOUS
<1>3. a \in Nat /\ f \in 1..Len(s) /\ es[q] \in {"CRLF", "LF"} /\ a <= f - z
  BY <1>2, CutEnd
<1>4. b <= a
  <2>1. k < q - 1 => e[k] < e[q-1]
    BY <1>2, CutGrows
  <2> QED
    BY <1>1, <1>2, <1>3, <2>1
<1>5. z \in {1, 2}
  BY <1>3, EndingIs
<1> HIDE DEF a, b, f, z
<1>6. c \in Nat /\ b <= c /\ c <= Len(s)
  BY <1>1, <1>3, <1>4, <1>5
<1> HIDE DEF c
<1>7. w \in Seq(Byte)
  BY <1>1, <1>6, Window
<1> HIDE DEF w
<1>8. Split(w, es[q]) \in Seq(Seq(Byte))
  BY <1>3, <1>7, SplitIs
<1> QED
  BY <1>3, <1>7, <1>8 DEF w, b, c, f, z

\* Lines that end alike are read into themselves.
LEMMA ReadAlike ==
  ASSUME NEW n \in Nat, NEW ls, NEW es, NEW s, NEW e, Cut(s, ls, es, e, n),
         NEW k \in 0..n, NEW q \in k+1..n, AllEnd(ls, es, es[q], n)
  PROVE  Commands(SubSeq(ls, 1, k)) \o Commands(Split(SubSeq(s, e[k] + 1, e[q] - Size(es[q])), es[q]))
           = Commands(SubSeq(ls, 1, q))
<1> DEFINE d == es[q]
           w == SubSeq(s, e[k] + 1, e[q] - Size(d))
           u == SubSeq(ls, 1, k)
           v == SubSeq(ls, k + 1, q)
           S == Seq(Text)
<1>1. d \in {"CRLF", "LF"} /\ w \in Seq(Byte)
  BY ReadLines
<1>2. q \in 0..n /\ k < q
  OBVIOUS
<1>3. Pieces(w, d) = v
  BY <1>1, <1>2, PiecesLines
<1>4. Commands(Split(w, d)) = Commands(v)
  BY <1>1, <1>3, SplitIs
<1>5. ls \in Seq(S) /\ Len(ls) = n
  BY DEF AllEnd
<1> HIDE DEF S, w, d
<1>6. SubSeq(ls, 1, k) \o SubSeq(ls, k + 1, q) = SubSeq(ls, 1, q)
  <2>1. 1 \in 1..Len(ls)+1 /\ k \in 1-1..Len(ls) /\ q \in k..Len(ls)
    BY <1>2, <1>5
  <2> QED
    BY <1>5, <2>1, ConcatAdjacentSubSeq
<1>7. u \in Seq(S) /\ v \in Seq(S)
  <2>1. SubSeq(ls, 0 + 1, k) \in Seq(S) /\ 0 + 1 = 1
    <3>1. 0 \in Nat /\ k \in Nat /\ 0 <= k /\ k <= Len(ls)
      BY <1>5
    <3> QED
      BY <1>5, <3>1, Window
  <2>2. SubSeq(ls, k + 1, q) \in Seq(S)
    <3>1. k \in Nat /\ q \in Nat /\ k <= q /\ q <= Len(ls)
      BY <1>2, <1>5
    <3> QED
      BY <1>5, <3>1, Window
  <2> QED
    BY <2>1, <2>2
<1> HIDE DEF u, v
<1>8. Commands(u \o v) = Commands(u) \o Commands(v)
  BY <1>7, CommandsConcat DEF S
<1>9. Commands(u \o v) = Commands(SubSeq(ls, 1, q))
  BY <1>6 DEF u, v
<1> QED
  BY <1>4, <1>8, <1>9 DEF w, d, u

-----------------------------------------------------------------------------
(* The invariant. *)

\* The stream is m lines, and e says where each of them ends.
Lined(e, m) ==
  /\ m \in Nat
  /\ Cut(stream, lines, endings, e, m)
  /\ lines \in Seq(Seq(Text)) /\ Len(lines) = m
  /\ DOMAIN endings = 1..m

\* What waits in the buffer came behind the first k lines, and what was parsed is the
\* text of those.  If the lines end alike, no other line has arrived, and those were
\* parsed one by one.
Taken(e, m, k) ==
  /\ k \in 0..m /\ e[k] <= received
  /\ recvBuf = SubSeq(stream, e[k] + 1, received)
  /\ Kept(parsed, stream, e, 0, k)
  /\ Alike => /\ Arrived(e, m, received, k)
              /\ Commands(parsed) = Commands(SubSeq(lines, 1, k))

\* What the variables of Server::parse hold.
Buffers ==
  /\ received \in 0..Len(stream)
  /\ parsed \in Seq(Seq(Byte))
  /\ delimiter \in {"CRLF", "LF"}

\* The inductive invariant.
IInv == Buffers /\ \E e, m, k : Lined(e, m) /\ Taken(e, m, k)

\* Nothing received, nothing taken.
LEMMA InitInv ==
  Init => IInv
<1> SUFFICES ASSUME Init
             PROVE  IInv
  OBVIOUS
<1>1. PICK m \in 1..MaxLines :
        /\ lines \in [1..m -> BoundedSeq(Text, MaxLength)]
        /\ endings \in [1..m -> {"CRLF", "LF"}]
        /\ stream = FlattenSeq([i \in 1..m |-> lines[i] \o Ending[endings[i]]])
  BY DEF Init
<1>2. m \in Nat
  BY SizeAssumption
<1>3. BoundedSeq(Text, MaxLength) \subseteq Seq(Text)
  BY SizeAssumption DEF BoundedSeq, SeqOf
<1>4. lines \in [1..m -> Seq(Text)]
  BY <1>1, <1>3
<1>5. lines \in Seq(Seq(Text)) /\ Len(lines) = m
  <2> DEFINE S == Seq(Text)
  <2> HIDE DEF S
  <2>1. lines \in [1..m -> S]
    BY <1>4 DEF S
  <2>2. lines \in Seq(S) /\ Len(lines) = m
    BY <1>2, <2>1
  <2> QED
    BY <2>2 DEF S
<1>6. PICK e : Cut(stream, lines, endings, e, m)
  BY <1>1, <1>2, <1>4, SentIsCut
<1>7. Lined(e, m)
  BY <1>1, <1>2, <1>5, <1>6 DEF Lined
<1>8. stream \in Seq(Byte) /\ Len(stream) \in Nat /\ e[0] = 0 /\ e \in [0..m -> Nat]
  BY <1>6, LenProperties DEF Cut
<1>9. received = 0 /\ recvBuf = <<>> /\ parsed = <<>> /\ delimiter \in {"CRLF", "LF"}
  BY DEF Init
<1>10. Buffers
  BY <1>8, <1>9, EmptySeq DEF Buffers
<1>11. Taken(e, m, 0)
  <2>1. 0 \in 0..m /\ e[0] <= received
    BY <1>2, <1>8, <1>9
  <2>2. SubSeq(stream, e[0] + 1, received) = <<>> /\ SubSeq(stream, e[0] + 1, e[0]) = <<>>
    BY <1>8, <1>9, SubSeqEmpty
  <2>3. SubSeq(lines, 1, 0) = <<>>
    BY SubSeqEmpty
  <2>4. Kept(<<>>, stream, e, 0, 0)
    <3>1. Len(<<>>) = 0 /\ SubSeq(<<>>, 1, 0) = <<>> /\ 0 \in 0..0
      BY SubSeqEmpty, EmptySeq
    <3>2. TextOf(FlattenSeq(<<>>)) = TextOf(SubSeq(stream, e[0] + 1, e[0]))
      BY <2>2, FlattenEmpty, TextEmpty
    <3>3. \A j \in 0..Len(<<>>) : j = 0
      BY <3>1
    <3> QED
      BY <3>1, <3>2, <3>3 DEF Kept
  <2>5. Arrived(e, m, received, 0)
    <3>1. ASSUME NEW j \in 1..m, e[j] <= received
          PROVE  FALSE
      <4>1. 0 \in 0..m /\ j \in 0..m /\ 0 < j
        BY <1>2
      <4>2. e[0] < e[j] /\ e[j] \in Nat
        BY <1>2, <1>6, <1>8, <4>1, CutGrows
      <4> QED
        BY <1>8, <1>9, <3>1, <4>2
    <3> QED
      BY <2>1, <3>1 DEF Arrived
  <2> QED
    BY <1>9, <2>1, <2>2, <2>3, <2>4, <2>5 DEF Taken
<1> QED
  BY <1>7, <1>10, <1>11 DEF IInv

\* What the invariant says of the numbers.
LEMMA Facts ==
  ASSUME NEW e, NEW m, NEW k, Buffers, Lined(e, m), Taken(e, m, k)
  PROVE  /\ m \in Nat /\ k \in 0..m /\ k \in Nat /\ received \in Nat /\ received \in 0..Len(stream)
         /\ e[k] <= received
         /\ stream \in Seq(Byte) /\ Len(stream) \in Nat /\ e \in [0..m -> Nat] /\ e[0] = 0
         /\ e[k] \in Nat
         /\ Cut(stream, lines, endings, e, m)
<1>1. m \in Nat /\ Cut(stream, lines, endings, e, m)
  BY DEF Lined
<1>2. stream \in Seq(Byte) /\ e \in [0..m -> Nat] /\ e[0] = 0
  BY <1>1 DEF Cut
<1>3. k \in 0..m /\ e[k] <= received
  BY DEF Taken
<1>4. received \in 0..Len(stream) /\ Len(stream) \in Nat
  BY <1>2, LenProperties DEF Buffers
<1> QED
  BY <1>1, <1>2, <1>3, <1>4

\* Parse, with what readRecvBuf returned.
LEMMA ParseIs ==
  ASSUME NEW n, NEW buf, NEW line, NEW rest, NEW d, Parse(n),
         recvBuf \o SubSeq(stream, received + 1, received + n) = buf,
         ReadRecvBuf(buf) = Read(line, rest, d)
  PROVE  /\ recvBuf' = rest /\ delimiter' = d /\ received' = received + n
         /\ parsed' = parsed \o Split(line, d)
         /\ lines' = lines /\ endings' = endings /\ stream' = stream
<1>1. /\ Read(line, rest, d).rest = rest
      /\ Read(line, rest, d).delimiter = d
      /\ Read(line, rest, d).line = line
  BY DEF Read
<1> QED
  BY <1>1 DEF Parse

\* A read that ends no line, and one that takes lines k + 1 to q.
LEMMA ReadNothing ==
  ASSUME NEW e, NEW m, NEW k, NEW n \in Nat, Buffers, Lined(e, m), Taken(e, m, k), Parse(n),
         received + n <= Len(stream),
         ReadRecvBuf(SubSeq(stream, e[k] + 1, received + n))
           = Read(<<>>, SubSeq(stream, e[k] + 1, received + n), delimiter),
         recvBuf \o SubSeq(stream, received + 1, received + n) = SubSeq(stream, e[k] + 1, received + n),
         \A j \in k+1..m : ~(e[j] <= received + n)
  PROVE  Buffers' /\ Lined(e, m)' /\ Taken(e, m, k)'
<1> DEFINE buf == SubSeq(stream, e[k] + 1, received + n)
           x == Split(<<>>, delimiter)
<1>1. /\ recvBuf' = buf /\ delimiter' = delimiter /\ received' = received + n
      /\ parsed' = parsed \o x
      /\ lines' = lines /\ endings' = endings /\ stream' = stream
  BY ParseIs
<1>2. /\ m \in Nat /\ k \in 0..m /\ k \in Nat /\ received \in Nat /\ e[k] <= received
      /\ stream \in Seq(Byte) /\ Len(stream) \in Nat /\ e \in [0..m -> Nat] /\ e[0] = 0
      /\ Cut(stream, lines, endings, e, m)
  BY Facts
<1>3. parsed \in Seq(Seq(Byte)) /\ delimiter \in {"CRLF", "LF"} /\ Kept(parsed, stream, e, 0, k)
  BY DEF Buffers, Taken
<1>4. e[k] \in Nat
  BY <1>2
<1>5. x \in Seq(Seq(Byte)) /\ Kept(x, stream, e, k, k) /\ Commands(x) = <<>>
  BY <1>2, <1>3, <1>4, SplitOfNothing
<1>6. (\A h \in 0..k : e[h] \in 0..Len(stream)) /\ \A h \in k..k : e[k] <= e[h]
  <2>1. ASSUME NEW h \in 0..k
        PROVE  e[h] \in 0..Len(stream)
    <3>1. h \in 0..m /\ (h = 0 \/ h \in 1..m)
      BY <1>2
    <3>2. h \in 1..m => e[h] \in 1..Len(stream)
      BY <1>2, CutEnd
    <3> QED
      BY <1>2, <3>1, <3>2
  <2>2. e[k] <= e[k] /\ k..k = {k}
    BY <1>2, <1>4
  <2> QED
    BY <2>1, <2>2
<1> HIDE DEF x, buf
<1>7. Kept(parsed \o x, stream, e, 0, k)
  <2>1. k <= k
    BY <1>2
  <2> QED
    BY <1>2, <1>3, <1>5, <1>6, <2>1, KeptMore
<1>8. parsed \o x \in Seq(Seq(Byte))
  BY <1>3, <1>5, AppendConcat, ConcatProperties
<1>9. received + n \in 0..Len(stream) /\ e[k] <= received + n
  BY <1>2, <1>4
<1>10. Buffers'
  BY <1>1, <1>3, <1>8, <1>9 DEF Buffers
<1>11. Lined(e, m)'
  BY <1>1 DEF Lined
<1>12. ASSUME Alike
       PROVE  Arrived(e, m, received + n, k) /\ Commands(parsed \o x) = Commands(SubSeq(lines, 1, k))
  <2>1. ASSUME NEW j \in 1..m, e[j] <= received + n
        PROVE  j <= k
    <3>1. j \notin k+1..m
      BY <2>1
    <3> QED
      BY <1>2, <3>1
  <2>2. Commands(parsed \o x) = Commands(parsed) \o <<>>
    BY <1>3, <1>5, CommandsConcat
  <2>3. Commands(parsed) \in Seq(Seq(Byte))
    BY <1>3, CommandsType
  <2>4. Commands(parsed) \o <<>> = Commands(parsed)
    <3> DEFINE S == Seq(Byte)
    <3>1. Commands(parsed) \in Seq(S)
      BY <2>3
    <3> HIDE DEF S
    <3> QED
      BY <3>1, ConcatEmptySeq
  <2>5. Commands(parsed) = Commands(SubSeq(lines, 1, k))
    BY <1>12 DEF Taken
  <2>6. Arrived(e, m, received + n, k)
    BY <1>2, <1>9, <2>1 DEF Arrived
  <2> QED
    BY <2>2, <2>4, <2>5, <2>6
<1>13. Taken(e, m, k)'
  <2>1. Alike' = Alike
    BY <1>1 DEF Alike
  <2>2. recvBuf' = SubSeq(stream', e[k] + 1, received')
    BY <1>1 DEF buf
  <2>3. Kept(parsed', stream', e, 0, k)
    BY <1>1, <1>7
  <2>4. Alike' => Arrived(e, m, received', k) /\ Commands(parsed') = Commands(SubSeq(lines', 1, k))
    BY <1>1, <1>12, <2>1
  <2>5. k \in 0..m /\ e[k] <= received'
    BY <1>1, <1>2, <1>9
  <2> QED
    BY <2>2, <2>3, <2>4, <2>5 DEF Taken
<1> QED
  BY <1>10, <1>11, <1>13

\* The other case.
LEMMA ReadSome ==
  ASSUME NEW e, NEW m, NEW k, NEW n \in Nat, Buffers, Lined(e, m), Taken(e, m, k), Parse(n),
         received + n <= Len(stream),
         NEW q \in k+1..m, e[q] <= received + n,
         ReadRecvBuf(SubSeq(stream, e[k] + 1, received + n))
           = Read(SubSeq(stream, e[k] + 1, e[q] - Size(endings[q])),
                  SubSeq(stream, e[q] + 1, received + n), endings[q]),
         recvBuf \o SubSeq(stream, received + 1, received + n) = SubSeq(stream, e[k] + 1, received + n),
         \A j \in k+1..m : e[j] <= received + n /\ endings[j] = endings[q] => j <= q
  PROVE  Buffers' /\ Lined(e, m)' /\ Taken(e, m, q)'
<1> DEFINE w == SubSeq(stream, e[k] + 1, e[q] - Size(endings[q]))
           x == Split(w, endings[q])
           rest == SubSeq(stream, e[q] + 1, received + n)
<1>1. /\ recvBuf' = rest /\ delimiter' = endings[q] /\ received' = received + n
      /\ parsed' = parsed \o x
      /\ lines' = lines /\ endings' = endings /\ stream' = stream
  BY ParseIs
<1>2. /\ m \in Nat /\ k \in 0..m /\ k \in Nat /\ received \in Nat /\ e[k] <= received
      /\ stream \in Seq(Byte) /\ Len(stream) \in Nat /\ e \in [0..m -> Nat] /\ e[0] = 0
      /\ Cut(stream, lines, endings, e, m)
  BY Facts
<1>3. parsed \in Seq(Seq(Byte)) /\ Kept(parsed, stream, e, 0, k)
  BY DEF Buffers, Taken
<1>4. q \in 0..m /\ q \in 1..m /\ q \in Nat /\ k < q /\ k <= q /\ e[q] \in Nat /\ e[k] \in Nat
  <2>1. q \in 0..m /\ q \in 1..m /\ q \in Nat /\ k < q /\ k <= q
    BY <1>2
  <2> QED
    BY <1>2, <2>1
<1>5. endings[q] \in {"CRLF", "LF"} /\ x \in Seq(Seq(Byte))
  BY <1>2, ReadLines
<1>6. Kept(x, stream, e, k, q)
  BY <1>2, SplitKept
<1>7. (\A h \in 0..q : e[h] \in 0..Len(stream)) /\ \A h \in k..q : e[k] <= e[h]
  <2>1. ASSUME NEW h \in 0..q
        PROVE  e[h] \in 0..Len(stream)
    <3>1. h \in 0..m /\ (h = 0 \/ h \in 1..m)
      BY <1>2, <1>4
    <3>2. h \in 1..m => e[h] \in 1..Len(stream)
      BY <1>2, CutEnd
    <3> QED
      BY <1>2, <3>1, <3>2
  <2>2. ASSUME NEW h \in k..q
        PROVE  e[k] <= e[h]
    <3>1. h \in 0..m /\ (h = k \/ k < h)
      BY <1>2, <1>4
    <3>2. k < h => e[k] < e[h]
      BY <1>2, <3>1, CutGrows
    <3>3. e[h] \in Nat
      BY <1>2, <3>1
    <3> QED
      BY <1>4, <3>1, <3>2, <3>3
  <2> QED
    BY <2>1, <2>2
<1>8. ASSUME Alike
      PROVE  Arrived(e, m, received + n, q) /\ Commands(parsed) \o Commands(x) = Commands(SubSeq(lines, 1, q))
  <2>1. \A j \in 1..m : endings[j] = endings[q]
    BY <1>4, <1>8 DEF Alike, Lined
  <2>2. AllEnd(lines, endings, endings[q], m)
    BY <2>1 DEF AllEnd, Lined
  <2>3. Commands(SubSeq(lines, 1, k)) \o Commands(x) = Commands(SubSeq(lines, 1, q))
    <3>1. Commands(SubSeq(lines, 1, k))
            \o Commands(Split(SubSeq(stream, e[k] + 1, e[q] - Size(endings[q])), endings[q]))
            = Commands(SubSeq(lines, 1, q))
      <4> HIDE DEF x, w
      <4>1. m \in Nat /\ Cut(stream, lines, endings, e, m) /\ k \in 0..m
        BY <1>2
      <4> QED
        BY <2>2, <4>1, ReadAlike
    <3> QED
      BY <3>1
  <2>4. Commands(parsed) = Commands(SubSeq(lines, 1, k))
    BY <1>8 DEF Taken
  <2>5. ASSUME NEW j \in 1..m, e[j] <= received + n
        PROVE  j <= q
    <3>1. j \in k+1..m => j <= q
      BY <2>1, <2>5
    <3>2. j \notin k+1..m => j <= k
      BY <1>2
    <3>3. j <= k => j <= q
      BY <1>2, <1>4
    <3> QED
      BY <3>1, <3>2, <3>3
  <2>6. Arrived(e, m, received + n, q)
    BY <1>4, <2>5 DEF Arrived
  <2> QED
    BY <2>3, <2>4, <2>6
<1> HIDE DEF x, rest
<1>9. Kept(parsed \o x, stream, e, 0, q)
  BY <1>2, <1>3, <1>4, <1>5, <1>6, <1>7, KeptMore
<1>10. parsed \o x \in Seq(Seq(Byte))
  BY <1>3, <1>5, ConcatProperties
<1>11. received + n \in 0..Len(stream)
  BY <1>2
<1>12. Buffers'
  BY <1>1, <1>5, <1>10, <1>11 DEF Buffers
<1>13. Lined(e, m)'
  BY <1>1 DEF Lined
<1>14. Commands(parsed \o x) = Commands(parsed) \o Commands(x)
  BY <1>3, <1>5, CommandsConcat
<1>15. Taken(e, m, q)'
  <2>1. Alike' = Alike
    BY <1>1 DEF Alike
  <2>2. recvBuf' = SubSeq(stream', e[q] + 1, received')
    BY <1>1 DEF rest
  <2>3. Kept(parsed', stream', e, 0, q)
    BY <1>1, <1>9
  <2>4. Alike' => Arrived(e, m, received', q) /\ Commands(parsed') = Commands(SubSeq(lines', 1, q))
    BY <1>1, <1>8, <1>14, <2>1
  <2>5. q \in 0..m /\ e[q] <= received'
    BY <1>1, <1>4
  <2> QED
    BY <2>2, <2>3, <2>4, <2>5 DEF Taken
<1> QED
  BY <1>12, <1>13, <1>15

\* Server::parse keeps the invariant, whatever recv returned.
LEMMA ParseInv ==
  ASSUME IInv, NEW n \in 1..BufSize, received + n <= Len(stream), Parse(n)
  PROVE  IInv'
<1>1. PICK e, m, k : Lined(e, m) /\ Taken(e, m, k)
  BY DEF IInv
<1>2. Buffers /\ n \in Nat
  BY DEF IInv
<1>3. /\ m \in Nat /\ k \in 0..m /\ e[k] <= received /\ e[k] \in Nat /\ received \in 0..Len(stream)
      /\ stream \in Seq(Byte) /\ Len(stream) \in Nat
      /\ Cut(stream, lines, endings, e, m)
      /\ recvBuf = SubSeq(stream, e[k] + 1, received)
  <2>1. /\ m \in Nat /\ k \in 0..m /\ e[k] <= received /\ received \in 0..Len(stream)
        /\ stream \in Seq(Byte) /\ Len(stream) \in Nat /\ e \in [0..m -> Nat]
        /\ Cut(stream, lines, endings, e, m)
        /\ recvBuf = SubSeq(stream, e[k] + 1, received)
    BY <1>1, <1>2, LenProperties DEF Taken, Lined, Buffers, Cut
  <2> QED
    BY <2>1
<1> DEFINE r == received + n
<1>4. r \in Nat /\ e[k] <= r /\ r <= Len(stream) /\ received <= r
  BY <1>2, <1>3
<1>5. recvBuf \o SubSeq(stream, received + 1, r) = SubSeq(stream, e[k] + 1, r)
  <2> DEFINE b == e[k]
             a == b + 1
  <2> HIDE DEF b, r
  <2>1. a \in 1..Len(stream)+1 /\ received \in a-1..Len(stream) /\ r \in received..Len(stream)
    BY <1>3, <1>4 DEF b
  <2> HIDE DEF a
  <2>2. SubSeq(stream, a, received) \o SubSeq(stream, received + 1, r) = SubSeq(stream, a, r)
    BY <1>3, <2>1, ConcatAdjacentSubSeq
  <2> QED
    BY <1>3, <2>2 DEF a, b
<1>6. \/ /\ ReadRecvBuf(SubSeq(stream, e[k] + 1, r)) = Read(<<>>, SubSeq(stream, e[k] + 1, r), delimiter)
         /\ \A j \in k+1..m : ~(e[j] <= r)
      \/ \E q \in k+1..m :
           /\ e[q] <= r
           /\ ReadRecvBuf(SubSeq(stream, e[k] + 1, r))
                = Read(SubSeq(stream, e[k] + 1, e[q] - Size(endings[q])),
                       SubSeq(stream, e[q] + 1, r), endings[q])
           /\ \A j \in k+1..m : e[j] <= r /\ endings[j] = endings[q] => j <= q
  <2> HIDE DEF r
  <2> QED
    BY <1>3, <1>4, ReadIs
<1>7. CASE /\ ReadRecvBuf(SubSeq(stream, e[k] + 1, r)) = Read(<<>>, SubSeq(stream, e[k] + 1, r), delimiter)
           /\ \A j \in k+1..m : ~(e[j] <= r)
  <2>1. Buffers' /\ Lined(e, m)' /\ Taken(e, m, k)'
    BY <1>1, <1>2, <1>5, <1>7, ReadNothing
  <2> QED
    BY <2>1 DEF IInv
<1>8. CASE \E q \in k+1..m :
             /\ e[q] <= r
             /\ ReadRecvBuf(SubSeq(stream, e[k] + 1, r))
                  = Read(SubSeq(stream, e[k] + 1, e[q] - Size(endings[q])),
                         SubSeq(stream, e[q] + 1, r), endings[q])
             /\ \A j \in k+1..m : e[j] <= r /\ endings[j] = endings[q] => j <= q
  <2>1. PICK q \in k+1..m :
             /\ e[q] <= r
             /\ ReadRecvBuf(SubSeq(stream, e[k] + 1, r))
                  = Read(SubSeq(stream, e[k] + 1, e[q] - Size(endings[q])),
                         SubSeq(stream, e[q] + 1, r), endings[q])
             /\ \A j \in k+1..m : e[j] <= r /\ endings[j] = endings[q] => j <= q
    BY <1>8
  <2>2. Buffers' /\ Lined(e, m)' /\ Taken(e, m, q)'
    BY <1>1, <1>2, <1>5, <2>1, ReadSome
  <2> QED
    BY <2>2 DEF IInv
<1> QED
  BY <1>6, <1>7, <1>8

\* So does every step.
LEMMA StepInv ==
  IInv /\ [Next]_vars => IInv'
<1> SUFFICES ASSUME IInv, [Next]_vars
             PROVE  IInv'
  OBVIOUS
<1>1. CASE Next
  <2>1. PICK n \in 1..BufSize : received + n <= Len(stream) /\ Parse(n)
    BY <1>1 DEF Next
  <2> QED
    BY <2>1, ParseInv
<1>2. CASE UNCHANGED vars
  <2>1. Buffers' = Buffers
    BY <1>2 DEF Buffers, vars
  <2>2. PICK e, m, k : Lined(e, m) /\ Taken(e, m, k)
    BY DEF IInv
  <2>3. Lined(e, m)' /\ Taken(e, m, k)'
    BY <1>2, <2>2 DEF Lined, Taken, Alike, vars
  <2> QED
    BY <2>1, <2>3 DEF IInv
<1> QED
  BY <1>1, <1>2

-----------------------------------------------------------------------------
(* What follows from it. *)

\* What has arrived, counted and located by its LFs.
LEMMA CompleteIs ==
  ASSUME NEW e, NEW m, NEW k, Buffers, Lined(e, m), Taken(e, m, k), NEW q, Arrived(e, m, received, q)
  PROVE  Complete = q /\ Max(Ended \cup {0}) = e[q]
<1>1. m \in Nat /\ Cut(stream, lines, endings, e, m) /\ received \in Nat /\ received <= Len(stream)
  <2>1. received \in 0..Len(stream) /\ Len(stream) \in Nat
    BY Facts
  <2>2. m \in Nat /\ Cut(stream, lines, endings, e, m)
    BY Facts
  <2> QED
    BY <2>1, <2>2
<1>2. Ended = {e[j] : j \in 1..q}
  BY <1>1, ArrivedAll DEF Ended
<1>3. q \in 0..m
  BY DEF Arrived
<1>4. Cardinality({e[j] : j \in 1..q}) = q
  BY <1>1, <1>3, ArrivedCount
<1>5. Max({e[j] : j \in 1..q} \cup {0}) = e[q]
  BY <1>1, <1>3, ArrivedLast
<1> QED
  BY <1>2, <1>4, <1>5 DEF Complete

\* The invariant says what waits.
LEMMA InvTail ==
  IInv => TailKept
<1> SUFFICES ASSUME IInv, Alike
             PROVE  recvBuf = SubSeq(stream, Max(Ended \cup {0}) + 1, received)
  BY DEF TailKept
<1>1. PICK e, m, k : Lined(e, m) /\ Taken(e, m, k)
  BY DEF IInv
<1>2. Arrived(e, m, received, k) /\ recvBuf = SubSeq(stream, e[k] + 1, received)
  BY <1>1 DEF Taken
<1>3. Buffers
  BY DEF IInv
<1>4. Max(Ended \cup {0}) = e[k]
  BY <1>1, <1>2, <1>3, CompleteIs
<1> QED
  BY <1>2, <1>4

\* The invariant says what was parsed, line by line.
LEMMA InvWhole ==
  IInv => LinesWhole
<1> SUFFICES ASSUME IInv, Alike
             PROVE  Commands(parsed) = Commands(SubSeq(lines, 1, Complete))
  BY DEF LinesWhole
<1>1. PICK e, m, k : Lined(e, m) /\ Taken(e, m, k)
  BY DEF IInv
<1>2. Arrived(e, m, received, k) /\ Commands(parsed) = Commands(SubSeq(lines, 1, k))
  BY <1>1 DEF Taken
<1>3. Buffers
  BY DEF IInv
<1>4. Complete = k
  BY <1>1, <1>2, <1>3, CompleteIs
<1> QED
  BY <1>2, <1>4

\* The invariant says where every symbol is.
LEMMA InvLost ==
  IInv => NothingLost
<1> SUFFICES ASSUME IInv
             PROVE  NothingLost
  OBVIOUS
<1>1. PICK e, m, k : Lined(e, m) /\ Taken(e, m, k)
  BY DEF IInv
<1>2. Buffers
  BY DEF IInv
<1>3. /\ m \in Nat /\ k \in 0..m /\ received \in 0..Len(stream) /\ e[k] <= received
      /\ stream \in Seq(Byte) /\ Len(stream) \in Nat /\ e[0] = 0 /\ e[k] \in Nat
      /\ Cut(stream, lines, endings, e, m)
  BY <1>1, <1>2, Facts
<1>4. parsed \in Seq(Seq(Byte)) /\ recvBuf = SubSeq(stream, e[k] + 1, received) /\ Kept(parsed, stream, e, 0, k)
  BY <1>1, <1>2 DEF Buffers, Taken
<1>5. PICK q : Arrived(e, m, received, q)
  <2>1. received \in Nat
    BY <1>3
  <2> QED
    BY <1>3, <2>1, ArrivedSome
<1>6. Complete = q
  BY <1>1, <1>2, <1>5, CompleteIs
<1>7. q \in 0..m /\ k <= q
  <2>1. q \in 0..m /\ \A j \in 1..m : e[j] <= received => j <= q
    BY <1>5 DEF Arrived
  <2>2. k = 0 \/ k \in 1..m
    BY <1>3
  <2>3. k \in 1..m => k <= q
    BY <1>3, <2>1
  <2> QED
    BY <2>1, <2>2, <2>3
<1>8. e[0] + 1 = 1
  BY <1>3
<1>9. TextOf(FlattenSeq(parsed) \o recvBuf) = TextOf(SubSeq(stream, 1, received))
  <2> DEFINE b == e[k]
             u == FlattenSeq(parsed)
             v == SubSeq(stream, 1, b)
             w == SubSeq(stream, b + 1, received)
  <2>1. u \in Seq(Byte)
    BY <1>4, FlattenType
  <2>2. TextOf(u) = TextOf(v)
    BY <1>4, <1>8 DEF Kept
  <2>3. recvBuf = w
    BY <1>4
  <2>4. b \in Nat /\ b <= received /\ received \in Nat /\ received <= Len(stream) /\ b <= Len(stream)
    <3> HIDE DEF b
    <3>1. b \in Nat /\ b <= received
      BY <1>3 DEF b
    <3> QED
      BY <1>3, <3>1
  <2> HIDE DEF b, u
  <2>5. v \in Seq(Byte)
    <3>1. SubSeq(stream, 0 + 1, b) \in Seq(Byte) /\ 0 + 1 = 1
      <4>1. 0 \in Nat /\ 0 <= b
        BY <2>4
      <4> QED
        BY <1>3, <2>4, <4>1, Window
    <3> QED
      BY <3>1
  <2>6. w \in Seq(Byte)
    BY <1>3, <2>4, Window
  <2>7. v \o w = SubSeq(stream, 1, received)
    <3>1. 1 \in 1..Len(stream)+1 /\ b \in 1-1..Len(stream) /\ received \in b..Len(stream)
      BY <1>3, <2>4
    <3> QED
      BY <1>3, <3>1, ConcatAdjacentSubSeq
  <2> HIDE DEF v, w
  <2>8. TextOf(u \o w) = TextOf(u) \o TextOf(w) /\ TextOf(v \o w) = TextOf(v) \o TextOf(w)
    BY <2>1, <2>5, <2>6, TextConcat
  <2>9. TextOf(u \o recvBuf) = TextOf(SubSeq(stream, 1, received))
    BY <2>2, <2>3, <2>7, <2>8
  <2> QED
    BY <2>9 DEF u
<1>10. ASSUME NEW j \in 0..Len(parsed)
       PROVE  \E n \in 0..Complete :
                TextOf(FlattenSeq(SubSeq(parsed, 1, j))) = FlattenSeq(SubSeq(lines, 1, n))
  <2>1. PICK h \in 0..k :
          TextOf(FlattenSeq(SubSeq(parsed, 1, j))) = TextOf(SubSeq(stream, e[0] + 1, e[h]))
    BY <1>4 DEF Kept
  <2>2. h \in 0..m /\ h \in 0..q
    BY <1>3, <1>7
  <2>3. lines \in Seq(Seq(Text)) /\ Len(lines) = m
    BY <1>1 DEF Lined
  <2>4. TextOf(SubSeq(stream, 1, e[h])) = FlattenSeq(SubSeq(lines, 1, h))
    BY <1>3, <2>2, <2>3, LinesText
  <2>5. TextOf(FlattenSeq(SubSeq(parsed, 1, j))) = FlattenSeq(SubSeq(lines, 1, h))
    BY <1>8, <2>1, <2>4
  <2> QED
    BY <1>6, <2>2, <2>5
<1> QED
  BY <1>9, <1>10 DEF NothingLost

-----------------------------------------------------------------------------
(* The theorems. *)

\* Whatever recv returns, what waits in the buffer is what came behind the end of some
\* line, what was parsed is the text before it, and for a peer that ends its lines alike
\* that line is the last that has arrived (Server::parse, ConnectSocket::readRecvBuf).
THEOREM Invariance ==
  Spec => []IInv
<1>1. Init => IInv
  BY InitInv
<1>2. IInv /\ [Next]_vars => IInv'
  BY StepInv
<1> QED
  BY <1>1, <1>2, PTL DEF Spec

\* The buffer of a peer that ends its lines alike holds what came behind its last
\* complete line: nothing that was parsed, and all that was not (readRecvBuf).
THEOREM LeftOver ==
  Spec => []TailKept
<1>1. IInv => TailKept
  BY InvTail
<1> QED
  BY <1>1, Invariance, PTL

\* Its lines are parsed one by one, each once, in order and unchanged, however recv cuts
\* them (Server::parse, split).
THEOREM Whole ==
  Spec => []LinesWhole
<1>1. IInv => LinesWhole
  BY InvWhole
<1> QED
  BY <1>1, Invariance, PTL

\* Of any peer, mixed endings included, every symbol received is parsed or waits, once
\* and in order, and no parsed piece ends inside a line (Server::parse).
THEOREM Lossless ==
  Spec => []NothingLost
<1>1. IInv => NothingLost
  BY InvLost
<1> QED
  BY <1>1, Invariance, PTL
=============================================================================
