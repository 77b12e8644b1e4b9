----------------------------- MODULE WireProofs -----------------------------
(***************************************************************************)
(* What is written for the gateway is read there as it was meant: every    *)
(* query, with all its names and values, and every encrypted body.         *)
(*                                                                         *)
(* The model's loops are recursive functions; each is first shown to exist *)
(* and to take one step per element (the Steps lemmas), then the facts     *)
(* about it follow by appending one element at a time.                     *)
(***************************************************************************)
EXTENDS Wire, WellFoundedInduction, TLAPS

-----------------------------------------------------------------------------
(* Numbers and sequences.                                                  *)

\* A property of 0 that every number hands on holds of all, with a set in the
\* place of the property.
LEMMA CountingUp ==
    ASSUME NEW S, 0 \in S, \A n \in Nat : n \in S => n + 1 \in S
    PROVE  Nat \subseteq S
<1> DEFINE T == Nat \ S
           R == OpToRel(<, Nat)
<1> SUFFICES ASSUME T # {} PROVE FALSE
  OBVIOUS
<1>1. IsWellFoundedOn(R, Nat)
  BY NatLessThanWellFounded
<1>2. \A x, y \in Nat : y < x => <<y, x>> \in R
  BY DEF OpToRel
<1> HIDE DEF R
<1>3. PICK x \in T : \A y \in T : <<y, x>> \notin R
  BY <1>1, WFMin
<1>4. x # 0 /\ x - 1 \in Nat /\ x - 1 < x
  BY <1>3
<1>5. x - 1 \in S
  BY <1>2, <1>3, <1>4
<1> QED BY <1>3, <1>4, <1>5

\* A set that holds the empty sequence and, with a sequence, every longer one by
\* one element, holds them all.
LEMMA ByAppending ==
    ASSUME NEW C, NEW T, <<>> \in T,
           \A s \in Seq(C), c \in C : s \in T => Append(s, c) \in T
    PROVE  Seq(C) \subseteq T
<1> DEFINE S == {n \in Nat : \A s \in Seq(C) : Len(s) = n => s \in T}
<1>1. 0 \in S
  OBVIOUS
<1>2. ASSUME NEW n \in Nat, n \in S PROVE n + 1 \in S
  <2> SUFFICES ASSUME NEW s \in Seq(C), Len(s) = n + 1 PROVE s \in T
    OBVIOUS
  <2> DEFINE front == [i \in 1..n |-> s[i]]
  <2>1. front \in Seq(C) /\ Len(front) = n /\ s[n + 1] \in C
    OBVIOUS
  <2>2. s = Append(front, s[n + 1])
    OBVIOUS
  <2>3. front \in T
    BY <1>2, <2>1
  <2> HIDE DEF front
  <2> QED BY <2>1, <2>2, <2>3
<1> HIDE DEF S
<1>3. Nat \subseteq S
  BY <1>1, <1>2, CountingUp
<1> QED BY <1>3 DEF S

\* Two runs that start alike, and stay alike from each position to the next, are
\* alike everywhere.
LEMMA SameRun ==
    ASSUME NEW n \in Nat, NEW g, NEW h, g[0] = h[0],
           \A i \in 1..n : g[i - 1] = h[i - 1] => g[i] = h[i]
    PROVE  g[n] = h[n]
<1> DEFINE S == {i \in Nat : i <= n => g[i] = h[i]}
<1>1. 0 \in S
  OBVIOUS
<1>2. ASSUME NEW i \in Nat, i \in S PROVE i + 1 \in S
  <2>1. i + 1 <= n => i + 1 \in 1..n /\ (i + 1) - 1 = i /\ i <= n
    OBVIOUS
  <2> QED BY <1>2, <2>1
<1> HIDE DEF S
<1>3. Nat \subseteq S
  BY <1>1, <1>2, CountingUp
<1> QED BY <1>3 DEF S

\* The parts of an appended sequence.
LEMMA Appended ==
    ASSUME NEW C, NEW s \in Seq(C), NEW c \in C
    PROVE  /\ Append(s, c) \in Seq(C) /\ Len(Append(s, c)) = Len(s) + 1 /\ Len(s) \in Nat
           /\ \A i \in 1..Len(s) : Append(s, c)[i] = s[i]
           /\ Append(s, c)[Len(s) + 1] = c
OBVIOUS

-----------------------------------------------------------------------------
(* Writing one piece after another.                                        *)

\* text is the loop of FlattenSeq over the first n pieces
Flattening(seqs, n, text) ==
    text = [i \in 1..n |-> IF i = 1 THEN seqs[i] ELSE text[i - 1] \o seqs[i]]

\* Any number of pieces can be written.
LEMMA FlatteningExists ==
    ASSUME NEW seqs
    PROVE  \A n \in Nat : \E g : Flattening(seqs, n, g)
<1> DEFINE S == {n \in Nat : \E g : Flattening(seqs, n, g)}
<1>1. 0 \in S
  <2> DEFINE g == [i \in 1..0 |-> <<>>]
  <2>1. Flattening(seqs, 0, g)
    BY DEF Flattening
  <2> QED BY <2>1
<1>2. ASSUME NEW n \in Nat, n \in S PROVE n + 1 \in S
  <2>1. PICK g : Flattening(seqs, n, g)
    BY <1>2
  <2> DEFINE last == IF n = 0 THEN seqs[n + 1] ELSE g[n] \o seqs[n + 1]
             h == [i \in 1..(n + 1) |-> IF i = n + 1 THEN last ELSE g[i]]
  <2>2. ASSUME NEW i \in 1..(n + 1)
        PROVE  h[i] = IF i = 1 THEN seqs[i] ELSE h[i - 1] \o seqs[i]
    <3>1. CASE i = n + 1
      <4>1. i - 1 = n /\ n # n + 1 /\ ((i = 1) = (n = 0)) /\ (n # 0 => n \in 1..(n + 1))
        BY <3>1
      <4> HIDE DEF last
      <4>2. h[i] = last /\ (n # 0 => h[i - 1] = g[n])
        BY <3>1, <4>1
      <4> HIDE DEF h
      <4> QED BY <3>1, <4>1, <4>2 DEF last
    <3>2. CASE i # n + 1
      <4> HIDE DEF last
      <4>1. i \in 1..n /\ h[i] = g[i]
        BY <3>2
      <4>2. i # 1 => i - 1 \in 1..n /\ h[i - 1] = g[i - 1]
        BY <3>2
      <4> HIDE DEF h
      <4> QED BY <2>1, <4>1, <4>2 DEF Flattening
    <3> QED BY <3>1, <3>2
  <2>3. h = [i \in 1..(n + 1) |-> h[i]]
    OBVIOUS
  <2> HIDE DEF h
  <2>4. Flattening(seqs, n + 1, h)
    BY <2>2, <2>3 DEF Flattening
  <2> QED BY <2>4
<1> HIDE DEF S
<1>3. Nat \subseteq S
  BY <1>1, <1>2, CountingUp
<1> QED BY <1>3 DEF S

\* FlattenSeq, one piece at a time.
LEMMA FlattenSteps ==
    ASSUME NEW C, NEW s \in Seq(Seq(C)), NEW c \in Seq(C)
    PROVE  /\ FlattenSeq(<<>>) = <<>>
           /\ FlattenSeq(Append(s, c)) = IF s = <<>> THEN c ELSE FlattenSeq(s) \o c
<1>1. ASSUME NEW t \in Seq(Seq(C)), Len(t) # 0
      PROVE  \E g : Flattening(t, Len(t), g) /\ FlattenSeq(t) = g[Len(t)]
  <2> DEFINE g == CHOOSE g : Flattening(t, Len(t), g)
  <2>1. Len(t) \in Nat
    OBVIOUS
  <2>2. \E x : Flattening(t, Len(t), x)
    BY <2>1, FlatteningExists
  <2>3. Flattening(t, Len(t), g)
    BY <2>2
  <2>4. FlattenSeq(t) = g[Len(t)]
    BY <1>1 DEF FlattenSeq, Flattening
  <2> QED BY <2>3, <2>4
<1>2. FlattenSeq(<<>>) = <<>>
  BY DEF FlattenSeq
<1> DEFINE n == Len(s)
           t == Append(s, c)
<1>3. /\ t \in Seq(Seq(C)) /\ Len(t) = n + 1 /\ n \in Nat /\ (n = 0 <=> s = <<>>)
      /\ (\A i \in 1..n : t[i] = s[i]) /\ t[n + 1] = c
  BY Appended
<1> HIDE DEF n, t
<1>4. Len(t) # 0
  BY <1>3
<1>5. PICK h : Flattening(t, n + 1, h) /\ FlattenSeq(t) = h[n + 1]
  BY <1>1, <1>3, <1>4
<1>6. CASE n = 0
  BY <1>2, <1>3, <1>5, <1>6 DEF Flattening, t
<1>7. CASE n # 0
  <2>4. PICK g : Flattening(s, n, g) /\ FlattenSeq(s) = g[n]
    BY <1>1, <1>7 DEF n
  <2> DEFINE S == {i \in Nat : i \in 1..n => g[i] = h[i]}
  <2>5. 0 \in S
    OBVIOUS
  <2>6. ASSUME NEW i \in Nat, i \in S PROVE i + 1 \in S
    <3> SUFFICES ASSUME i + 1 \in 1..n PROVE g[i + 1] = h[i + 1]
      OBVIOUS
    <3>1. (i + 1) - 1 = i /\ i + 1 \in 1..(n + 1) /\ (i + 1 # 1 => i \in 1..n)
      BY <1>3
    <3>2. g[i + 1] = IF i + 1 = 1 THEN s[i + 1] ELSE g[(i + 1) - 1] \o s[i + 1]
      BY <2>4 DEF Flattening
    <3>3. h[i + 1] = IF i + 1 = 1 THEN t[i + 1] ELSE h[(i + 1) - 1] \o t[i + 1]
      BY <1>5, <3>1 DEF Flattening
    <3>4. t[i + 1] = s[i + 1]
      BY <1>3
    <3>5. i + 1 # 1 => g[i] = h[i]
      BY <2>6, <3>1
    <3> QED BY <3>1, <3>2, <3>3, <3>4, <3>5
  <2> HIDE DEF S
  <2>7. Nat \subseteq S
    BY <2>5, <2>6, CountingUp
  <2>8. g[n] = h[n]
    BY <1>3, <1>7, <2>7 DEF S
  <2>9. h[n + 1] = h[n] \o c
    <3>1. n + 1 \in 1..(n + 1) /\ n + 1 # 1 /\ (n + 1) - 1 = n
      BY <1>3, <1>7
    <3>2. h[n + 1] = h[(n + 1) - 1] \o t[n + 1]
      BY <1>5, <3>1 DEF Flattening
    <3> QED BY <1>3, <3>1, <3>2
  <2> QED BY <1>2, <1>3, <1>5, <1>7, <2>4, <2>8, <2>9 DEF t
<1> QED BY <1>6, <1>7

\* The pieces of a text make a text, and appending a piece is writing it at the end.
LEMMA Flattened ==
    ASSUME NEW C, NEW s \in Seq(Seq(C)), NEW c \in Seq(C)
    PROVE  /\ FlattenSeq(<<>>) = <<>> /\ FlattenSeq(s) \in Seq(C)
           /\ FlattenSeq(Append(s, c)) = FlattenSeq(s) \o c
<1> DEFINE T == {t \in Seq(Seq(C)) : FlattenSeq(t) \in Seq(C)}
<1>1. FlattenSeq(<<>>) = <<>>
  BY FlattenSteps
<1>2. <<>> \in T
  <2>1. <<>> \in Seq(Seq(C)) /\ <<>> \in Seq(C)
    OBVIOUS
  <2> QED BY <1>1, <2>1
<1>3. ASSUME NEW t \in Seq(Seq(C)), NEW d \in Seq(C), t \in T PROVE Append(t, d) \in T
  <2>1. FlattenSeq(Append(t, d)) = IF t = <<>> THEN d ELSE FlattenSeq(t) \o d
    BY FlattenSteps
  <2>2. FlattenSeq(t) \o d \in Seq(C)
    BY <1>3
  <2>3. Append(t, d) \in Seq(Seq(C))
    OBVIOUS
  <2>4. FlattenSeq(Append(t, d)) \in Seq(C)
    BY <2>1, <2>2
  <2> QED BY <2>3, <2>4
<1> HIDE DEF T
<1>4. Seq(Seq(C)) \subseteq T
  BY <1>2, <1>3, ByAppending
<1>5. FlattenSeq(s) \in Seq(C)
  BY <1>4 DEF T
<1>6. FlattenSeq(Append(s, c)) = FlattenSeq(s) \o c
  <2>1. FlattenSeq(Append(s, c)) = IF s = <<>> THEN c ELSE FlattenSeq(s) \o c
    BY FlattenSteps
  <2>2. <<>> \o c = c
    OBVIOUS
  <2> QED BY <1>1, <2>1, <2>2
<1> QED BY <1>1, <1>5, <1>6

-----------------------------------------------------------------------------
(* Splitting.                                                              *)

\* parts is the loop of Split over the first n characters
Splitting(s, sep, n, parts) ==
    parts = [i \in 0..n |-> IF i = 0 THEN <<<<>>>> ELSE PutCharacter(parts[i - 1], s[i], sep)]

\* Any number of characters can be gone through.
LEMMA SplittingExists ==
    ASSUME NEW s, NEW sep
    PROVE  \A n \in Nat : \E g : Splitting(s, sep, n, g)
<1> DEFINE S == {n \in Nat : \E g : Splitting(s, sep, n, g)}
<1>1. 0 \in S
  <2> DEFINE g == [i \in 0..0 |-> <<<<>>>>]
  <2>1. Splitting(s, sep, 0, g)
    BY DEF Splitting
  <2> QED BY <2>1
<1>2. ASSUME NEW n \in Nat, n \in S PROVE n + 1 \in S
  <2>1. PICK g : Splitting(s, sep, n, g)
    BY <1>2
  <2> DEFINE h == [i \in 0..(n + 1) |-> IF i = n + 1 THEN PutCharacter(g[n], s[n + 1], sep) ELSE g[i]]
  <2>2. ASSUME NEW i \in 0..(n + 1)
        PROVE  h[i] = IF i = 0 THEN <<<<>>>> ELSE PutCharacter(h[i - 1], s[i], sep)
    <3>1. CASE i = n + 1
      <4>1. i # 0 /\ i - 1 = n /\ i - 1 \in 0..(n + 1) /\ n # n + 1
        BY <3>1
      <4>2. h[i] = PutCharacter(g[n], s[n + 1], sep) /\ h[i - 1] = g[n]
        BY <3>1, <4>1
      <4> HIDE DEF h
      <4> QED BY <3>1, <4>1, <4>2
    <3>2. CASE i # n + 1
      <4>1. i \in 0..n /\ h[i] = g[i]
        BY <3>2
      <4>2. i # 0 => i - 1 \in 0..n /\ h[i - 1] = g[i - 1]
        BY <3>2
      <4> HIDE DEF h
      <4> QED BY <2>1, <4>1, <4>2 DEF Splitting
    <3> QED BY <3>1, <3>2
  <2>3. h = [i \in 0..(n + 1) |-> h[i]]
    OBVIOUS
  <2> HIDE DEF h
  <2>4. Splitting(s, sep, n + 1, h)
    BY <2>2, <2>3 DEF Splitting
  <2> QED BY <2>4
<1> HIDE DEF S
<1>3. Nat \subseteq S
  BY <1>1, <1>2, CountingUp
<1> QED BY <1>3 DEF S

\* Split, one character at a time.
LEMMA SplitSteps ==
    ASSUME NEW C, NEW s \in Seq(C), NEW c \in C, NEW sep
    PROVE  /\ Split(<<>>, sep) = <<<<>>>>
           /\ Split(Append(s, c), sep) = PutCharacter(Split(s, sep), c, sep)
<1>1. ASSUME NEW t \in Seq(C)
      PROVE  \E g : Splitting(t, sep, Len(t), g) /\ Split(t, sep) = g[Len(t)]
  <2> DEFINE g == CHOOSE g : Splitting(t, sep, Len(t), g)
  <2>1. Len(t) \in Nat
    OBVIOUS
  <2>2. \E x : Splitting(t, sep, Len(t), x)
    BY <2>1, SplittingExists
  <2>3. Splitting(t, sep, Len(t), g)
    BY <2>2
  <2>4. Split(t, sep) = g[Len(t)]
    BY DEF Split, Splitting
  <2> QED BY <2>3, <2>4
<1>2. Split(<<>>, sep) = <<<<>>>>
  <2>1. <<>> \in Seq(C) /\ Len(<<>>) = 0
    OBVIOUS
  <2>2. PICK g : Splitting(<<>>, sep, 0, g) /\ Split(<<>>, sep) = g[0]
    BY <1>1, <2>1
  <2> QED BY <2>2 DEF Splitting
<1> DEFINE n == Len(s)
           t == Append(s, c)
<1>3. /\ t \in Seq(C) /\ Len(t) = n + 1 /\ n \in Nat
      /\ (\A i \in 1..n : t[i] = s[i]) /\ t[n + 1] = c
  BY Appended
<1>4. PICK g : Splitting(s, sep, n, g) /\ Split(s, sep) = g[n]
  BY <1>1
<1>5. PICK h : Splitting(t, sep, n + 1, h) /\ Split(t, sep) = h[n + 1]
  BY <1>1, <1>3
<1> HIDE DEF n, t
<1>6. g[n] = h[n]
  <2>1. g[0] = h[0]
    BY <1>3, <1>4, <1>5 DEF Splitting
  <2>2. ASSUME NEW i \in 1..n, g[i - 1] = h[i - 1] PROVE g[i] = h[i]
    <3>1. g[i] = PutCharacter(g[i - 1], s[i], sep)
      BY <1>3, <1>4 DEF Splitting
    <3>2. h[i] = PutCharacter(h[i - 1], t[i], sep)
      BY <1>3, <1>5 DEF Splitting
    <3> QED BY <1>3, <2>2, <3>1, <3>2
  <2> QED BY <1>3, <2>1, <2>2, SameRun
<1>7. h[n + 1] = PutCharacter(h[n], c, sep)
  <2>1. n + 1 \in 0..(n + 1) /\ n + 1 # 0 /\ (n + 1) - 1 = n
    BY <1>3
  <2>2. h[n + 1] = PutCharacter(h[(n + 1) - 1], t[n + 1], sep)
    BY <1>5, <2>1 DEF Splitting
  <2> QED BY <1>3, <2>1, <2>2
<1> QED BY <1>2, <1>4, <1>5, <1>6, <1>7 DEF n, t

\* Appending is the same before and after a concatenation.
LEMMA AppendedLast ==
    ASSUME NEW C, NEW s \in Seq(C), NEW t \in Seq(C), NEW c \in C
    PROVE  s \o Append(t, c) = Append(s \o t, c)
OBVIOUS

\* Nothing splits into one empty part.
LEMMA SplitOfNothing ==
    ASSUME NEW sep
    PROVE  Split(<<>>, sep) = <<<<>>>>
<1>1. <<>> \in Seq({0}) /\ 0 \in {0}
  OBVIOUS
<1> QED BY <1>1, SplitSteps

\* Split gives texts, at least one.
LEMMA SplitGives ==
    ASSUME NEW C, NEW s \in Seq(C), NEW sep
    PROVE  Split(s, sep) \in Seq(Seq(C)) /\ Len(Split(s, sep)) \in Nat \ {0}
<1> DEFINE T == {t \in Seq(C) : Split(t, sep) \in Seq(Seq(C)) /\ Len(Split(t, sep)) \in Nat \ {0}}
<1>1. <<>> \in T
  <2>1. Split(<<>>, sep) = <<<<>>>>
    BY SplitOfNothing
  <2>2. <<<<>>>> \in Seq(Seq(C)) /\ Len(<<<<>>>>) \in Nat \ {0} /\ <<>> \in Seq(C)
    OBVIOUS
  <2>3. Split(<<>>, sep) \in Seq(Seq(C)) /\ Len(Split(<<>>, sep)) \in Nat \ {0}
    BY <2>1, <2>2, Zenon
  <2> QED BY <2>2, <2>3
<1>2. ASSUME NEW t \in Seq(C), NEW c \in C, t \in T PROVE Append(t, c) \in T
  <2> DEFINE ps == Split(t, sep)
             n == Len(ps)
  <2>1. Split(Append(t, c), sep) = PutCharacter(ps, c, sep) /\ Append(t, c) \in Seq(C)
    BY SplitSteps
  <2>2. ps \in Seq(Seq(C)) /\ n \in Nat \ {0} /\ ps[n] \in Seq(C)
    BY <1>2
  <2> HIDE DEF ps
  <2>3. CASE c = sep
    <3> DEFINE qs == Append(ps, <<>>)
    <3>1. qs \in Seq(Seq(C)) /\ Len(qs) = n + 1
      BY <2>2
    <3>2. Split(Append(t, c), sep) = qs
      BY <2>1, <2>3 DEF PutCharacter
    <3> HIDE DEF qs
    <3> QED BY <2>1, <2>2, <3>1, <3>2
  <2>4. CASE c # sep
    <3> DEFINE qs == [ps EXCEPT ![n] = Append(@, c)]
    <3>1. Append(ps[n], c) \in Seq(C)
      BY <2>2
    <3>2. qs \in Seq(Seq(C)) /\ Len(qs) = n
      BY <2>2, <3>1
    <3>3. Split(Append(t, c), sep) = qs
      BY <2>1, <2>4 DEF PutCharacter
    <3> QED BY <2>1, <2>2, <3>2, <3>3
  <2> QED BY <2>3, <2>4
<1> HIDE DEF T
<1>3. Seq(C) \subseteq T
  BY <1>1, <1>2, ByAppending
<1> QED BY <1>3 DEF T

\* the parts with more text in the last one
WithMore(parts, p) == [parts EXCEPT ![Len(parts)] = @ \o p]

Without(p, sep) == \A i \in 1..Len(p) : p[i] # sep

\* What holds no separator goes on in the last part.
LEMMA SplitMore ==
    ASSUME NEW C, NEW s \in Seq(C), NEW sep, NEW p \in Seq(C), Without(p, sep)
    PROVE  Split(s \o p, sep) = WithMore(Split(s, sep), p)
<1> DEFINE ps == Split(s, sep)
           n == Len(ps)
           T == {t \in Seq(C) : Without(t, sep) => Split(s \o t, sep) = WithMore(ps, t)}
<1>0. ps \in Seq(Seq(C)) /\ n \in Nat \ {0} /\ ps[n] \in Seq(C) /\ n \in 1..Len(ps)
  <2>1. ps \in Seq(Seq(C)) /\ n \in Nat \ {0}
    BY SplitGives
  <2> HIDE DEF ps
  <2> QED BY <2>1
<1>1. <<>> \in T
  <2>1. <<>> \in Seq(C) /\ s \o <<>> = s
    OBVIOUS
  <2> HIDE DEF ps
  <2>2. ps[n] \o <<>> = ps[n]
    BY <1>0
  <2>3. WithMore(ps, <<>>) = ps
    BY <1>0, <2>2 DEF WithMore
  <2> QED BY <2>1, <2>3 DEF ps
<1>2. ASSUME NEW t \in Seq(C), NEW c \in C, t \in T PROVE Append(t, c) \in T
  <2> HIDE DEF ps
  <2> SUFFICES ASSUME Without(Append(t, c), sep)
               PROVE  Split(s \o Append(t, c), sep) = WithMore(ps, Append(t, c))
    OBVIOUS
  <2>1. Append(t, c) \in Seq(C) /\ s \o t \in Seq(C)
    OBVIOUS
  <2>2. c # sep /\ Without(t, sep)
    <3> DEFINE m == Len(t)
    <3>1. /\ Len(Append(t, c)) = m + 1 /\ m \in Nat /\ Append(t, c)[m + 1] = c
          /\ \A i \in 1..m : Append(t, c)[i] = t[i]
      OBVIOUS
    <3> HIDE DEF m
    <3>2. \A i \in 1..(m + 1) : Append(t, c)[i] # sep
      BY <3>1 DEF Without
    <3>3. \A i \in 1..m : t[i] # sep
      BY <3>1, <3>2
    <3>4. c # sep
      BY <3>1, <3>2
    <3> QED BY <3>3, <3>4 DEF Without, m
  <2>3. Split(s \o t, sep) = WithMore(ps, t)
    BY <1>2, <2>2
  <2> HIDE DEF T, n
  <2>4. s \o Append(t, c) = Append(s \o t, c)
    BY AppendedLast
  <2>5. Split(Append(s \o t, c), sep) = PutCharacter(Split(s \o t, sep), c, sep)
    BY <2>1, SplitSteps
  <2>6. ps[n] \o Append(t, c) = Append(ps[n] \o t, c)
    <3>1. ASSUME NEW a \in Seq(C) PROVE a \o Append(t, c) = Append(a \o t, c)
      BY AppendedLast
    <3> QED BY <1>0, <3>1
  <2>7. Len(WithMore(ps, t)) = n
    BY <1>0 DEF WithMore, n
  <2>8. PutCharacter(WithMore(ps, t), c, sep) = WithMore(ps, Append(t, c))
    BY <1>0, <2>2, <2>6, <2>7 DEF PutCharacter, WithMore, n
  <2> QED BY <2>3, <2>4, <2>5, <2>8
<1> HIDE DEF T
<1>3. Seq(C) \subseteq T
  BY <1>1, <1>2, ByAppending
<1> QED BY <1>3 DEF T

\* A text without separators is one part; after a separator a new one begins.
LEMMA SplitPart ==
    ASSUME NEW C, NEW s \in Seq(C), NEW sep \in C, NEW p \in Seq(C), Without(p, sep)
    PROVE  /\ Split(p, sep) = <<p>>
           /\ Split(s \o (<<sep>> \o p), sep) = Append(Split(s, sep), p)
<1>0. <<>> \in Seq(C) /\ <<>> \o p = p
  OBVIOUS
<1>1. Split(p, sep) = <<p>>
  <2>1. Split(<<>>, sep) = <<<<>>>>
    BY SplitOfNothing
  <2>2. Split(<<>> \o p, sep) = WithMore(Split(<<>>, sep), p)
    <3>1. ASSUME NEW r \in Seq(C) PROVE Split(r \o p, sep) = WithMore(Split(r, sep), p)
      BY SplitMore
    <3> QED BY <1>0, <3>1
  <2>4. WithMore(<<<<>>>>, p) = <<p>>
    BY <1>0 DEF WithMore
  <2> QED BY <1>0, <2>1, <2>2, <2>4
<1>2. Split(s \o (<<sep>> \o p), sep) = Append(Split(s, sep), p)
  <2> DEFINE ps == Split(s, sep)
             t == Append(s, sep)
  <2>1. s \o (<<sep>> \o p) = t \o p /\ t \in Seq(C)
    OBVIOUS
  <2>2. Split(t, sep) = Append(ps, <<>>)
    BY SplitSteps DEF PutCharacter
  <2> HIDE DEF t
  <2>3. Split(t \o p, sep) = WithMore(Split(t, sep), p)
    BY <2>1, SplitMore
  <2>4. ps \in Seq(Seq(C))
    BY SplitGives
  <2> HIDE DEF ps
  <2>6. WithMore(Append(ps, <<>>), p) = Append(ps, p)
    <3> DEFINE n == Len(ps)
               a == Append(ps, <<>>)
               b == Append(ps, p)
    <3>1. /\ n \in Nat /\ a \in Seq(Seq(C)) /\ Len(a) = n + 1 /\ a[n + 1] = <<>>
          /\ \A i \in 1..n : a[i] = ps[i]
      BY <1>0, <2>4
    <3>2. b \in Seq(Seq(C)) /\ Len(b) = n + 1 /\ b[n + 1] = p /\ \A i \in 1..n : b[i] = ps[i]
      BY <1>0, <2>4
    <3> HIDE DEF n, a, b
    <3> DEFINE e == [a EXCEPT ![n + 1] = @ \o p]
    <3>3. e \in Seq(Seq(C)) /\ Len(e) = n + 1
      BY <1>0, <3>1
    <3>4. e[n + 1] = p
      BY <1>0, <3>1
    <3>5. ASSUME NEW i \in 1..n PROVE e[i] = ps[i]
      BY <3>1
    <3> HIDE DEF e
    <3>6. ASSUME NEW i \in 1..(n + 1) PROVE e[i] = b[i]
      <4>1. CASE i = n + 1
        BY <3>2, <3>4, <4>1
      <4>2. CASE i \in 1..n
        BY <3>2, <3>5, <4>2
      <4> QED BY <3>1, <4>1, <4>2
    <3>7. e = b
      BY <3>1, <3>2, <3>3, <3>6
    <3> QED BY <3>1, <3>7 DEF a, b, e, WithMore
  <2> QED BY <2>1, <2>2, <2>3, <2>6 DEF ps
<1> QED BY <1>1, <1>2

\* JoinPairs, one pair at a time.
LEMMA JoinSteps ==
    ASSUME NEW C, "&" \in C, NEW ps \in Seq(Seq(C)), NEW p \in Seq(C)
    PROVE  /\ JoinPairs(<<>>) = <<>> /\ JoinPairs(ps) \in Seq(C)
           /\ JoinPairs(Append(ps, p)) = IF ps = <<>> THEN p ELSE JoinPairs(ps) \o (<<"&">> \o p)
<1> DEFINE L(s) == [i \in 1..Len(s) |-> IF i = 1 THEN s[i] ELSE <<"&">> \o s[i]]
           last == IF ps = <<>> THEN p ELSE <<"&">> \o p
<1>1. ASSUME NEW s PROVE JoinPairs(s) = FlattenSeq(L(s))
  BY DEF JoinPairs
<1>2. ASSUME NEW s \in Seq(Seq(C)) PROVE L(s) \in Seq(Seq(C)) /\ Len(L(s)) = Len(s)
  <2>1. \A x \in Seq(C) : <<"&">> \o x \in Seq(C)
    OBVIOUS
  <2>2. \A i \in 1..Len(s) : L(s)[i] \in Seq(C)
    BY <2>1
  <2> QED BY <2>2
<1>3. L(<<>>) = <<>> /\ <<>> \in Seq(Seq(C))
  OBVIOUS
<1>4. last \in Seq(C)
  OBVIOUS
<1>5. L(Append(ps, p)) = Append(L(ps), last)
  <2> DEFINE n == Len(ps)
             t == Append(ps, p)
  <2>1. /\ t \in Seq(Seq(C)) /\ Len(t) = n + 1 /\ n \in Nat /\ (ps = <<>> <=> n = 0)
        /\ t[n + 1] = p /\ \A i \in 1..n : t[i] = ps[i]
    OBVIOUS
  <2> HIDE DEF t
  <2>2. L(t) \in Seq(Seq(C)) /\ Len(L(t)) = n + 1
    BY <1>2, <2>1
  <2>3. L(ps) \in Seq(Seq(C)) /\ Len(L(ps)) = n
    BY <1>2
  <2>4. ASSUME NEW i \in 1..n PROVE L(t)[i] = L(ps)[i]
    BY <2>1
  <2>5. L(t)[n + 1] = last
    BY <2>1
  <2> DEFINE a == L(t)
             b == L(ps)
  <2> HIDE DEF L, last
  <2>6. /\ a \in Seq(Seq(C)) /\ Len(a) = n + 1 /\ b \in Seq(Seq(C)) /\ Len(b) = n
        /\ a[n + 1] = last /\ \A i \in 1..n : a[i] = b[i]
    BY <2>2, <2>3, <2>4, <2>5
  <2> HIDE DEF a, b, n
  <2>7. a = Append(b, last)
    BY <1>4, <2>1, <2>6
  <2> QED BY <2>7 DEF a, b, t
<1>6. L(ps) \in Seq(Seq(C))
  BY <1>2
<1>9. FlattenSeq(<<>>) = <<>>
  BY <1>6, <1>4, Flattened
<1> DEFINE b == L(ps)
<1> HIDE DEF L, last
<1>7. FlattenSeq(b) \in Seq(C) /\ FlattenSeq(Append(b, last)) = FlattenSeq(b) \o last
  <2>1. b \in Seq(Seq(C))
    BY <1>6
  <2> HIDE DEF b
  <2> QED BY <1>4, <2>1, Flattened
<1>8. JoinPairs(<<>>) = <<>> /\ JoinPairs(ps) = FlattenSeq(b) /\ JoinPairs(Append(ps, p)) = FlattenSeq(b) \o last
  BY <1>1, <1>3, <1>5, <1>7, <1>9
<1> HIDE DEF b
<1>10. CASE ps = <<>>
  <2>1. last = p /\ FlattenSeq(b) = <<>> /\ <<>> \o p = p
    BY <1>8, <1>10 DEF last
  <2> QED BY <1>7, <1>8, <1>10, <2>1
<1>11. CASE ps # <<>>
  BY <1>7, <1>8, <1>11 DEF last
<1> QED BY <1>10, <1>11

\* s joined, and s joined with one more pair p
JoinsOn(s, p) ==
    JoinPairs(Append(s, p)) = IF s = <<>> THEN p ELSE JoinPairs(s) \o (<<"&">> \o p)

\* Joining goes on pair by pair.
LEMMA JoinsOnAll ==
    ASSUME NEW C, "&" \in C
    PROVE  \A s \in Seq(Seq(C)), p \in Seq(C) : JoinsOn(s, p)
<1> SUFFICES ASSUME NEW s \in Seq(Seq(C)), NEW p \in Seq(C) PROVE JoinsOn(s, p)
  OBVIOUS
<1> QED BY JoinSteps DEF JoinsOn

\* What is joined is a text.
LEMMA JoinGives ==
    ASSUME NEW C, "&" \in C
    PROVE  \A s \in Seq(Seq(C)) : JoinPairs(s) \in Seq(C)
<1> SUFFICES ASSUME NEW s \in Seq(Seq(C)) PROVE JoinPairs(s) \in Seq(C)
  OBVIOUS
<1>1. <<>> \in Seq(C)
  OBVIOUS
<1> QED BY <1>1, JoinSteps

\* Pairs without the separator in them come apart as they were joined.
LEMMA SplitsAsJoined ==
    ASSUME NEW C, "&" \in C, NEW ps \in Seq(Seq(C)), ps # <<>>,
           \A i \in 1..Len(ps) : Without(ps[i], "&")
    PROVE  Split(JoinPairs(ps), "&") = ps
<1>0. /\ \A s \in Seq(Seq(C)), p \in Seq(C) : JoinsOn(s, p)
      /\ \A s \in Seq(Seq(C)) : JoinPairs(s) \in Seq(C)
  BY JoinsOnAll, JoinGives
<1> DEFINE Fine(s) == \A i \in 1..Len(s) : Without(s[i], "&")
           T == {s \in Seq(Seq(C)) : s # <<>> /\ Fine(s) => Split(JoinPairs(s), "&") = s}
<1>1. <<>> \in T
  OBVIOUS
<1>2. ASSUME NEW s \in Seq(Seq(C)), NEW p \in Seq(C), s \in T PROVE Append(s, p) \in T
  <2>0. Append(s, p) \in Seq(Seq(C))
    OBVIOUS
  <2> HIDE DEF Fine
  <2> SUFFICES ASSUME Fine(Append(s, p)) PROVE Split(JoinPairs(Append(s, p)), "&") = Append(s, p)
    BY <2>0
  <2>1. Without(p, "&") /\ Fine(s)
    <3> DEFINE n == Len(s)
               t == Append(s, p)
    <3>1. Len(t) = n + 1 /\ n \in Nat /\ t[n + 1] = p /\ \A i \in 1..n : t[i] = s[i]
      OBVIOUS
    <3>2. Fine(t)
      OBVIOUS
    <3> HIDE DEF t
    <3> QED BY <3>1, <3>2 DEF Fine
  <2>2. s # <<>> => Split(JoinPairs(s), "&") = s
    BY <1>2, <2>1
  <2>3. /\ JoinPairs(s) \in Seq(C)
        /\ JoinPairs(Append(s, p)) = IF s = <<>> THEN p ELSE JoinPairs(s) \o (<<"&">> \o p)
    BY <1>0 DEF JoinsOn
  <2>4. CASE s = <<>>
    <3>1. JoinPairs(Append(s, p)) = p
      BY <2>3, <2>4
    <3>2. Split(p, "&") = <<p>>
      BY <2>1, <2>3, SplitPart
    <3>3. Append(s, p) = <<p>>
      BY <2>4
    <3> QED BY <3>1, <3>2, <3>3
  <2>5. CASE s # <<>>
    <3>1. JoinPairs(Append(s, p)) = JoinPairs(s) \o (<<"&">> \o p)
      BY <2>3, <2>5
    <3> DEFINE r == JoinPairs(s)
    <3>2. r \in Seq(C)
      BY <2>3
    <3> HIDE DEF r
    <3>3. Split(r \o (<<"&">> \o p), "&") = Append(Split(r, "&"), p)
      BY <2>1, <3>2, SplitPart
    <3> QED BY <2>2, <2>5, <3>1, <3>3 DEF r
  <2> QED BY <2>4, <2>5
<1>3. Seq(Seq(C)) \subseteq T
  <2> HIDE DEF T
  <2> QED BY <1>1, <1>2, ByAppending
<1> QED BY <1>3

-----------------------------------------------------------------------------
(* Escaping and unescaping.                                                *)

\* r is the loop of Unescape over the first n characters
Reading(s, n, r) ==
    r = [i \in 0..n |-> IF i = 0 THEN [out |-> <<>>, held |-> <<>>] ELSE ReadCharacter(r[i - 1], s[i])]

\* what Unescape has read of s
ReadOf(s) == LET r == CHOOSE r : Reading(s, Len(s), r) IN r[Len(s)]

\* Any number of characters can be read.
LEMMA ReadingExists ==
    ASSUME NEW s
    PROVE  \A n \in Nat : \E g : Reading(s, n, g)
<1> DEFINE S == {n \in Nat : \E g : Reading(s, n, g)}
<1>1. 0 \in S
  <2> DEFINE g == [i \in 0..0 |-> [out |-> <<>>, held |-> <<>>]]
  <2>1. Reading(s, 0, g)
    BY DEF Reading
  <2> QED BY <2>1
<1>2. ASSUME NEW n \in Nat, n \in S PROVE n + 1 \in S
  <2>1. PICK g : Reading(s, n, g)
    BY <1>2
  <2> DEFINE h == [i \in 0..(n + 1) |-> IF i = n + 1 THEN ReadCharacter(g[n], s[n + 1]) ELSE g[i]]
  <2>2. ASSUME NEW i \in 0..(n + 1)
        PROVE  h[i] = IF i = 0 THEN [out |-> <<>>, held |-> <<>>] ELSE ReadCharacter(h[i - 1], s[i])
    <3>1. CASE i = n + 1
      <4>1. i # 0 /\ i - 1 = n /\ i - 1 \in 0..(n + 1) /\ n # n + 1
        BY <3>1
      <4>2. h[i] = ReadCharacter(g[n], s[n + 1]) /\ h[i - 1] = g[n]
        BY <3>1, <4>1
      <4> HIDE DEF h
      <4> QED BY <3>1, <4>1, <4>2
    <3>2. CASE i # n + 1
      <4>1. i \in 0..n /\ h[i] = g[i]
        BY <3>2
      <4>2. i # 0 => i - 1 \in 0..n /\ h[i - 1] = g[i - 1]
        BY <3>2
      <4> HIDE DEF h
      <4> QED BY <2>1, <4>1, <4>2 DEF Reading
    <3> QED BY <3>1, <3>2
  <2>3. h = [i \in 0..(n + 1) |-> h[i]]
    OBVIOUS
  <2> HIDE DEF h
  <2>4. Reading(s, n + 1, h)
    BY <2>2, <2>3 DEF Reading
  <2> QED BY <2>4
<1> HIDE DEF S
<1>3. Nat \subseteq S
  BY <1>1, <1>2, CountingUp
<1> QED BY <1>3 DEF S

\* What Unescape has read, one character at a time.
LEMMA ReadSteps ==
    ASSUME NEW C, NEW s \in Seq(C), NEW c \in C
    PROVE  /\ ReadOf(<<>>) = [out |-> <<>>, held |-> <<>>]
           /\ ReadOf(Append(s, c)) = ReadCharacter(ReadOf(s), c)
<1>1. ASSUME NEW t \in Seq(C)
      PROVE  \E g : Reading(t, Len(t), g) /\ ReadOf(t) = g[Len(t)]
  <2> DEFINE g == CHOOSE g : Reading(t, Len(t), g)
  <2>1. Len(t) \in Nat
    OBVIOUS
  <2>2. \E x : Reading(t, Len(t), x)
    BY <2>1, ReadingExists
  <2>3. Reading(t, Len(t), g)
    BY <2>2
  <2>4. ReadOf(t) = g[Len(t)]
    BY DEF ReadOf, Reading
  <2> QED BY <2>3, <2>4
<1>2. ReadOf(<<>>) = [out |-> <<>>, held |-> <<>>]
  <2>1. <<>> \in Seq(C) /\ Len(<<>>) = 0
    OBVIOUS
  <2>2. PICK g : Reading(<<>>, 0, g) /\ ReadOf(<<>>) = g[0]
    BY <1>1, <2>1
  <2> QED BY <2>2 DEF Reading
<1> DEFINE n == Len(s)
           t == Append(s, c)
<1>3. /\ t \in Seq(C) /\ Len(t) = n + 1 /\ n \in Nat
      /\ (\A i \in 1..n : t[i] = s[i]) /\ t[n + 1] = c
  BY Appended
<1>4. PICK g : Reading(s, n, g) /\ ReadOf(s) = g[n]
  BY <1>1
<1>5. PICK h : Reading(t, n + 1, h) /\ ReadOf(t) = h[n + 1]
  BY <1>1, <1>3
<1> HIDE DEF n, t
<1>6. g[n] = h[n]
  <2>1. g[0] = h[0]
    BY <1>3, <1>4, <1>5 DEF Reading
  <2>2. ASSUME NEW i \in 1..n, g[i - 1] = h[i - 1] PROVE g[i] = h[i]
    <3>1. g[i] = ReadCharacter(g[i - 1], s[i])
      BY <1>3, <1>4 DEF Reading
    <3>2. h[i] = ReadCharacter(h[i - 1], t[i])
      BY <1>3, <1>5 DEF Reading
    <3> QED BY <1>3, <2>2, <3>1, <3>2
  <2> QED BY <1>3, <2>1, <2>2, SameRun
<1>7. h[n + 1] = ReadCharacter(h[n], c)
  <2>1. n + 1 \in 0..(n + 1) /\ n + 1 # 0 /\ (n + 1) - 1 = n
    BY <1>3
  <2>2. h[n + 1] = ReadCharacter(h[(n + 1) - 1], t[n + 1])
    BY <1>5, <2>1 DEF Reading
  <2> QED BY <1>3, <2>1, <2>2
<1> QED BY <1>2, <1>4, <1>5, <1>6, <1>7 DEF n, t

\* Unescape gives what was read.
LEMMA UnescapeReads ==
    ASSUME NEW s
    PROVE  Unescape(s) = ReadOf(s).out /\ (UnescapeFails(s) <=> ReadOf(s).held # <<>>)
<1>1. ReadAll(s) = ReadOf(s)
  BY DEF ReadAll, ReadOf, Reading
<1> QED BY <1>1 DEF Unescape, UnescapeFails

\* how a character is written
Piece(c) == IF isUnreserved(c) THEN <<c>> ELSE <<"%">> \o upperhex[c]

Hex == {"0", "2", "3", "5", "6", "B", "C", "D", "F"}

\* what an escaped text is made of: no separator among it
InEscaped(C) == (C \ Reserved) \cup Hex \cup {"%"}

\* An escape sequence, character by character.
LEMMA ThreeCharacters ==
    ASSUME NEW a, NEW b
    PROVE  <<"%">> \o <<a, b>> = <<"%", a, b>>
<1> DEFINE S == {"%", a, b}
           x == <<"%">> \o <<a, b>>
           y == <<"%", a, b>>
<1>1. <<"%">> \in Seq(S) /\ <<a, b>> \in Seq(S) /\ y \in Seq(S) /\ Len(y) = 3
  OBVIOUS
<1>2. x \in Seq(S) /\ Len(x) = 3
  BY <1>1
<1>3. x[1] = y[1] /\ x[2] = y[2] /\ x[3] = y[3]
  BY <1>1
<1> HIDE DEF x, y
<1>4. x = y
  BY <1>1, <1>2, <1>3
<1> QED BY <1>4 DEF x, y

\* Equal pairs have equal members.
LEMMA SamePair ==
    ASSUME NEW a, NEW b, NEW c, NEW d, <<a, b>> = <<c, d>>
    PROVE  a = c /\ b = d
OBVIOUS

\* A reserved character is "%" and two digits, and no other is written with these.
LEMMA HexOf ==
    ASSUME NEW c \in Reserved
    PROVE  \E a, b \in Hex : /\ upperhex[c] = <<a, b>>
                             /\ (CHOOSE x \in Reserved : upperhex[x] = <<a, b>>) = c
<1> DEFINE one(x) == IF x = "=" THEN "3" ELSE "2"
           two(x) == IF x = "&" THEN "6" ELSE IF x = "=" THEN "D" ELSE IF x = "%" THEN "5"
                     ELSE IF x = " " THEN "0" ELSE IF x = "+" THEN "B" ELSE IF x = "/" THEN "F" ELSE "C"
           back(z) == IF z = "6" THEN "&" ELSE IF z = "D" THEN "=" ELSE IF z = "5" THEN "%"
                      ELSE IF z = "0" THEN " " ELSE IF z = "B" THEN "+" ELSE IF z = "F" THEN "/" ELSE ","
<1>1. ASSUME NEW x \in Reserved PROVE upperhex[x] = <<one(x), two(x)>>
  BY DEF upperhex, Reserved
<1>2. ASSUME NEW x \in Reserved PROVE back(two(x)) = x
  BY DEF Reserved
<1>3. one(c) \in Hex /\ two(c) \in Hex
  BY DEF Hex
<1> HIDE DEF one, two, back
<1>4. ASSUME NEW x \in Reserved, upperhex[x] = upperhex[c] PROVE x = c
  <2>1. <<one(x), two(x)>> = <<one(c), two(c)>>
    BY <1>1, <1>4
  <2>2. two(x) = two(c)
    BY <2>1, SamePair
  <2>3. back(two(x)) = x /\ back(two(c)) = c
    BY <1>2
  <2> QED BY <2>2, <2>3
<1> QED BY <1>1, <1>3, <1>4

\* Escaping, one character at a time.
LEMMA EscapeSteps ==
    ASSUME NEW C, NEW s \in Seq(C), NEW c \in C
    PROVE  /\ rfc3986Escape(<<>>) = <<>>
           /\ rfc3986Escape(s) \in Seq(InEscaped(C))
           /\ Piece(c) \in Seq(InEscaped(C))
           /\ rfc3986Escape(Append(s, c)) = rfc3986Escape(s) \o Piece(c)
<1> DEFINE L(t) == [i \in 1..Len(t) |-> Piece(t[i])]
<1>1. ASSUME NEW t PROVE rfc3986Escape(t) = FlattenSeq(L(t))
  BY DEF rfc3986Escape, Piece
<1>2. ASSUME NEW x \in C PROVE Piece(x) \in Seq(InEscaped(C))
  <2>1. CASE x \notin Reserved
    BY <2>1 DEF Piece, isUnreserved, InEscaped
  <2>2. CASE x \in Reserved
    <3>1. PICK a, b \in Hex : upperhex[x] = <<a, b>>
      BY <2>2, HexOf
    <3>2. Piece(x) = <<"%", a, b>>
      BY <2>2, <3>1, ThreeCharacters DEF Piece, isUnreserved
    <3>3. a \in InEscaped(C) /\ b \in InEscaped(C) /\ "%" \in InEscaped(C)
      BY DEF InEscaped
    <3> HIDE DEF InEscaped
    <3> QED BY <3>2, <3>3
  <2> QED BY <2>1, <2>2
<1>3. ASSUME NEW t \in Seq(C) PROVE L(t) \in Seq(Seq(InEscaped(C))) /\ Len(L(t)) = Len(t)
  BY <1>2
<1>4. L(<<>>) = <<>>
  OBVIOUS
<1>5. L(Append(s, c)) = Append(L(s), Piece(c))
  <2> DEFINE n == Len(s)
             t == Append(s, c)
  <2>1. t \in Seq(C) /\ Len(t) = n + 1 /\ n \in Nat /\ t[n + 1] = c /\ \A i \in 1..n : t[i] = s[i]
    OBVIOUS
  <2> HIDE DEF t
  <2>2. L(t) \in Seq(Seq(InEscaped(C))) /\ Len(L(t)) = n + 1
    BY <1>3, <2>1
  <2>3. L(s) \in Seq(Seq(InEscaped(C))) /\ Len(L(s)) = n
    BY <1>3
  <2>4. ASSUME NEW i \in 1..n PROVE L(t)[i] = L(s)[i]
    BY <2>1
  <2>5. L(t)[n + 1] = Piece(c)
    BY <2>1
  <2> DEFINE a == L(t)
             b == L(s)
  <2> HIDE DEF L
  <2>6. /\ a \in Seq(Seq(InEscaped(C))) /\ Len(a) = n + 1 /\ b \in Seq(Seq(InEscaped(C))) /\ Len(b) = n
        /\ a[n + 1] = Piece(c) /\ \A i \in 1..n : a[i] = b[i]
    BY <2>2, <2>3, <2>4, <2>5
  <2> HIDE DEF a, b, n
  <2>7. a = Append(b, Piece(c))
    BY <1>2, <2>1, <2>6
  <2> QED BY <2>7 DEF a, b, t
<1> DEFINE b == L(s)
<1>6. b \in Seq(Seq(InEscaped(C))) /\ Piece(c) \in Seq(InEscaped(C))
  BY <1>2, <1>3
<1> HIDE DEF b
<1>7. /\ FlattenSeq(<<>>) = <<>> /\ FlattenSeq(b) \in Seq(InEscaped(C))
      /\ FlattenSeq(Append(b, Piece(c))) = FlattenSeq(b) \o Piece(c)
  BY <1>6, Flattened
<1>8. rfc3986Escape(<<>>) = FlattenSeq(<<>>)
  BY <1>1, <1>4
<1>9. rfc3986Escape(s) = FlattenSeq(b)
  BY <1>1 DEF b
<1>10. rfc3986Escape(Append(s, c)) = FlattenSeq(Append(b, Piece(c)))
  BY <1>1, <1>5 DEF b
<1> QED BY <1>6, <1>7, <1>8, <1>9, <1>10

\* An escaped text holds no separator.
LEMMA EscapedIn ==
    ASSUME NEW C, NEW s \in Seq(C)
    PROVE  rfc3986Escape(s) \in Seq(InEscaped(C))
<1>1. ASSUME NEW c \in C PROVE rfc3986Escape(s) \in Seq(InEscaped(C))
  BY EscapeSteps
<1>2. CASE C = {}
  <2>1. s = <<>> /\ <<>> \in Seq({0}) /\ 0 \in {0}
    BY <1>2
  <2>2. rfc3986Escape(<<>>) = <<>>
    BY <2>1, EscapeSteps
  <2>3. <<>> \in Seq(InEscaped(C))
    OBVIOUS
  <2>4. rfc3986Escape(s) = <<>>
    BY <2>1, <2>2, Zenon
  <2> QED BY <2>3, <2>4
<1> QED BY <1>1, <1>2

\* A piece is read as the character it was written for.
LEMMA PieceReads ==
    ASSUME NEW C, NEW e \in Seq(C), NEW c, Piece(c) \in Seq(C), NEW out,
           ReadOf(e) = [out |-> out, held |-> <<>>]
    PROVE  ReadOf(e \o Piece(c)) = [out |-> Append(out, c), held |-> <<>>]
<1>1. CASE c \notin Reserved
  <2>0. Piece(c) = <<c>>
    BY <1>1 DEF Piece, isUnreserved
  <2>1. Piece(c) = <<c>> /\ c \in C /\ c # "%" /\ c # "+"
    <3>1. <<c>>[1] \in C
      BY <2>0
    <3>2. c # "%" /\ c # "+"
      BY <1>1 DEF Reserved
    <3> QED BY <2>0, <3>1, <3>2
  <2>2. e \o <<c>> = Append(e, c)
    BY <2>1
  <2>3. ReadOf(Append(e, c)) = ReadCharacter(ReadOf(e), c)
    BY <2>1, ReadSteps
  <2>4. ReadCharacter([out |-> out, held |-> <<>>], c) = [out |-> Append(out, c), held |-> <<>>]
    BY <2>1 DEF ReadCharacter
  <2> QED BY <2>1, <2>2, <2>3, <2>4
<1>2. CASE c \in Reserved
  <2>1. PICK a, b \in Hex : /\ upperhex[c] = <<a, b>>
                            /\ (CHOOSE x \in Reserved : upperhex[x] = <<a, b>>) = c
    BY <1>2, HexOf
  <2>2. Piece(c) = <<"%", a, b>>
    BY <1>2, <2>1, ThreeCharacters DEF Piece, isUnreserved
  <2>3. "%" \in C /\ a \in C /\ b \in C
    <3>1. \A i \in 1..3 : <<"%", a, b>>[i] \in C
      BY <2>2
    <3> QED BY <3>1
  <2> DEFINE e1 == Append(e, "%")
             e2 == Append(e1, a)
             e3 == Append(e2, b)
  <2>4. e \o Piece(c) = e3 /\ e1 \in Seq(C) /\ e2 \in Seq(C)
    BY <2>2, <2>3
  <2>5. ReadOf(e1) = ReadCharacter(ReadOf(e), "%")
    BY <2>3, ReadSteps
  <2> HIDE DEF e1
  <2>6. ReadOf(e2) = ReadCharacter(ReadOf(e1), a)
    BY <2>3, <2>4, ReadSteps
  <2> HIDE DEF e2
  <2>7. ReadOf(e3) = ReadCharacter(ReadOf(e2), b)
    BY <2>3, <2>4, ReadSteps
  <2> HIDE DEF e3
  <2>8. ReadCharacter([out |-> out, held |-> <<>>], "%") = [out |-> out, held |-> <<"%">>]
    BY DEF ReadCharacter
  <2>9. ReadCharacter([out |-> out, held |-> <<"%">>], a) = [out |-> out, held |-> <<"%", a>>]
    BY DEF ReadCharacter
  <2>10. ReadCharacter([out |-> out, held |-> <<"%", a>>], b) = [out |-> Append(out, c), held |-> <<>>]
    <3> DEFINE r == [out |-> out, held |-> <<"%", a>>]
    <3>1. Len(r.held) = 2 /\ r.held[2] = a /\ r.out = out
      OBVIOUS
    <3>a. IsEscape(a, b)
      BY <1>2, <2>1 DEF IsEscape
    <3> HIDE DEF r
    <3>2. ReadCharacter(r, b) = [out |-> Append(r.out, CHOOSE x \in Reserved : upperhex[x] = <<r.held[2], b>>),
                                 held |-> <<>>]
      BY <3>1, <3>a DEF ReadCharacter
    <3> QED BY <2>1, <3>1, <3>2 DEF r
  <2> QED BY <2>4, <2>5, <2>6, <2>7, <2>8, <2>9, <2>10
<1> QED BY <1>1, <1>2

\* sign/canonical.go, rfc3986Escape: a text that was escaped is read as it was,
\* whatever its characters, a written-out escape, a plus or a separator included.
THEOREM EscapedTextIsReadBack ==
    ASSUME NEW C, NEW text \in Seq(C)
    PROVE  Unescape(rfc3986Escape(text)) = text /\ ~UnescapeFails(rfc3986Escape(text))
<1> DEFINE T == {t \in Seq(C) : ReadOf(rfc3986Escape(t)) = [out |-> t, held |-> <<>>]}
<1>1. <<>> \in T
  <2>1. <<>> \in Seq({0}) /\ 0 \in {0} /\ <<>> \in Seq(C)
    OBVIOUS
  <2>2. rfc3986Escape(<<>>) = <<>>
    BY <2>1, EscapeSteps
  <2>3. ReadOf(<<>>) = [out |-> <<>>, held |-> <<>>]
    BY <2>1, ReadSteps
  <2> QED BY <2>1, <2>2, <2>3
<1>2. ASSUME NEW t \in Seq(C), NEW c \in C, t \in T PROVE Append(t, c) \in T
  <2> DEFINE e == rfc3986Escape(t)
  <2>1. e \in Seq(InEscaped(C)) /\ Piece(c) \in Seq(InEscaped(C)) /\ rfc3986Escape(Append(t, c)) = e \o Piece(c)
    BY EscapeSteps
  <2>2. ReadOf(e) = [out |-> t, held |-> <<>>]
    BY <1>2
  <2> HIDE DEF e
  <2>3. ReadOf(e \o Piece(c)) = [out |-> Append(t, c), held |-> <<>>]
    BY <2>1, <2>2, PieceReads
  <2>4. Append(t, c) \in Seq(C)
    OBVIOUS
  <2> QED BY <2>1, <2>3, <2>4
<1>3. Seq(C) \subseteq T
  <2> HIDE DEF T
  <2> QED BY <1>1, <1>2, ByAppending
<1>4. ReadOf(rfc3986Escape(text)).out = text /\ ReadOf(rfc3986Escape(text)).held = <<>>
  BY <1>3
<1> QED BY <1>4, UnescapeReads

-----------------------------------------------------------------------------
(* Cutting a pair.                                                         *)

\* The least of a set of numbers, when it is known.
LEMMA MinIs ==
    ASSUME NEW S, NEW m \in Nat, m \in S, \A y \in S : y \in Nat /\ m <= y
    PROVE  Min(S) = m
<1>1. \E x \in S : \A y \in S : x <= y
  OBVIOUS
<1>2. Min(S) \in S /\ \A y \in S : Min(S) <= y
  BY <1>1 DEF Min
<1> DEFINE x == Min(S)
<1>3. x \in Nat /\ m <= x /\ x <= m
  BY <1>2
<1> HIDE DEF x
<1>4. x = m
  BY <1>3
<1> QED BY <1>4 DEF x

\* The greatest of a set of numbers, when it is known.
LEMMA MaxIs ==
    ASSUME NEW S, NEW m \in Nat, m \in S, \A y \in S : y \in Nat /\ y <= m
    PROVE  Max(S) = m
<1>1. \E x \in S : \A y \in S : x >= y
  OBVIOUS
<1>2. Max(S) \in S /\ \A y \in S : Max(S) >= y
  BY <1>1 DEF Max
<1> DEFINE x == Max(S)
<1>3. x \in Nat /\ m <= x /\ x <= m
  BY <1>2
<1> HIDE DEF x
<1>4. x = m
  BY <1>3
<1> QED BY <1>4 DEF x

\* The greatest of a set of one number.
LEMMA MaxOfOne ==
    ASSUME NEW m \in Nat
    PROVE  Max({m}) = m
BY DEF Max

\* A pair is cut into its name and its value.
LEMMA CutPair ==
    ASSUME NEW C, NEW v \in Seq(C), NEW k, k # "="
    PROVE  /\ Cut(<<k, "=">> \o v) = [key |-> <<k>>, value |-> v]
           /\ <<k, "=">> \o v # <<>>
<1> DEFINE D == C \cup {k, "="}
           part == <<k, "=">> \o v
           n == Len(v)
<1>1. v \in Seq(D) /\ <<k, "=">> \in Seq(D) /\ n \in Nat
  OBVIOUS
<1>2. /\ part \in Seq(D) /\ Len(part) = n + 2 /\ part[1] = k /\ part[2] = "="
      /\ \A i \in 1..n : part[i + 2] = v[i]
  BY <1>1
<1> HIDE DEF part, D
<1>3. Min({i \in 1..Len(part) : part[i] = "="} \cup {Len(part) + 1}) = 2
  <2> DEFINE S == {i \in 1..Len(part) : part[i] = "="} \cup {Len(part) + 1}
  <2>1. 2 \in S
    BY <1>1, <1>2
  <2>2. ASSUME NEW y \in S PROVE y \in Nat /\ 2 <= y
    BY <1>1, <1>2
  <2> HIDE DEF S
  <2>3. Min(S) = 2
    BY <2>1, <2>2, MinIs
  <2> QED BY <2>3 DEF S
<1>4. SubSeq(part, 1, 2 - 1) = <<k>>
  <2> DEFINE w == SubSeq(part, 1, 1)
  <2>1. w \in Seq(D) /\ Len(w) = 1 /\ w[1] = k
    BY <1>1, <1>2
  <2> HIDE DEF w
  <2>2. <<k>> \in Seq({k}) /\ Len(<<k>>) = 1 /\ <<k>>[1] = k
    OBVIOUS
  <2>3. w = <<k>>
    BY <2>1, <2>2
  <2> QED BY <2>3 DEF w
<1>5. SubSeq(part, 2 + 1, Len(part)) = v
  <2> DEFINE w == SubSeq(part, 3, n + 2)
  <2>1. w \in Seq(D) /\ Len(w) = n
    BY <1>1, <1>2
  <2>2. ASSUME NEW i \in 1..n PROVE w[i] = v[i]
    <3>1. w[i] = part[3 + i - 1]
      BY <1>1, <1>2
    <3>2. 3 + i - 1 = i + 2
      OBVIOUS
    <3> QED BY <1>2, <3>1, <3>2
  <2> HIDE DEF w
  <2>3. w = v
    BY <1>1, <2>1, <2>2
  <2> QED BY <1>2, <2>3 DEF w
<1>6. part # <<>>
  BY <1>1, <1>2
<1>7. Cut(part) = [key |-> <<k>>, value |-> v]
  BY <1>3, <1>4, <1>5 DEF Cut
<1> QED BY <1>6, <1>7 DEF part

-----------------------------------------------------------------------------
(* Grouping by name.                                                       *)

\* q is the loop of ParseQuery over the first n parts
Grouping(parts, n, q) ==
    q = [i \in 0..n |-> IF i = 0 THEN None ELSE AddPart(q[i - 1], parts[i])]

\* the values ParseQuery has gathered from parts
Grouped(parts) == LET q == CHOOSE q : Grouping(parts, Len(parts), q) IN q[Len(parts)]

\* Any number of parts can be gathered.
LEMMA GroupingExists ==
    ASSUME NEW parts
    PROVE  \A n \in Nat : \E g : Grouping(parts, n, g)
<1> DEFINE S == {n \in Nat : \E g : Grouping(parts, n, g)}
<1>1. 0 \in S
  <2> DEFINE g == [i \in 0..0 |-> None]
  <2>1. Grouping(parts, 0, g)
    BY DEF Grouping
  <2> QED BY <2>1
<1>2. ASSUME NEW n \in Nat, n \in S PROVE n + 1 \in S
  <2>1. PICK g : Grouping(parts, n, g)
    BY <1>2
  <2> DEFINE h == [i \in 0..(n + 1) |-> IF i = n + 1 THEN AddPart(g[n], parts[n + 1]) ELSE g[i]]
  <2>2. ASSUME NEW i \in 0..(n + 1)
        PROVE  h[i] = IF i = 0 THEN None ELSE AddPart(h[i - 1], parts[i])
    <3>1. CASE i = n + 1
      <4>1. i # 0 /\ i - 1 = n /\ i - 1 \in 0..(n + 1) /\ n # n + 1
        BY <3>1
      <4>2. h[i] = AddPart(g[n], parts[n + 1]) /\ h[i - 1] = g[n]
        BY <3>1, <4>1
      <4> HIDE DEF h
      <4> QED BY <3>1, <4>1, <4>2
    <3>2. CASE i # n + 1
      <4>1. i \in 0..n /\ h[i] = g[i]
        BY <3>2
      <4>2. i # 0 => i - 1 \in 0..n /\ h[i - 1] = g[i - 1]
        BY <3>2
      <4> HIDE DEF h
      <4> QED BY <2>1, <4>1, <4>2 DEF Grouping
    <3> QED BY <3>1, <3>2
  <2>3. h = [i \in 0..(n + 1) |-> h[i]]
    OBVIOUS
  <2> HIDE DEF h
  <2>4. Grouping(parts, n + 1, h)
    BY <2>2, <2>3 DEF Grouping
  <2> QED BY <2>4
<1> HIDE DEF S
<1>3. Nat \subseteq S
  BY <1>1, <1>2, CountingUp
<1> QED BY <1>3 DEF S

\* What ParseQuery has gathered, one part at a time.
LEMMA GroupSteps ==
    ASSUME NEW C, NEW s \in Seq(C), NEW c \in C
    PROVE  /\ Grouped(<<>>) = None
           /\ Grouped(Append(s, c)) = AddPart(Grouped(s), c)
<1>1. ASSUME NEW t \in Seq(C)
      PROVE  \E g : Grouping(t, Len(t), g) /\ Grouped(t) = g[Len(t)]
  <2> DEFINE g == CHOOSE g : Grouping(t, Len(t), g)
  <2>1. Len(t) \in Nat
    OBVIOUS
  <2>2. \E x : Grouping(t, Len(t), x)
    BY <2>1, GroupingExists
  <2>3. Grouping(t, Len(t), g)
    BY <2>2
  <2>4. Grouped(t) = g[Len(t)]
    BY DEF Grouped, Grouping
  <2> QED BY <2>3, <2>4
<1>2. Grouped(<<>>) = None
  <2>1. <<>> \in Seq(C) /\ Len(<<>>) = 0
    OBVIOUS
  <2>2. PICK g : Grouping(<<>>, 0, g) /\ Grouped(<<>>) = g[0]
    BY <1>1, <2>1
  <2> QED BY <2>2 DEF Grouping
<1> DEFINE n == Len(s)
           t == Append(s, c)
<1>3. /\ t \in Seq(C) /\ Len(t) = n + 1 /\ n \in Nat
      /\ (\A i \in 1..n : t[i] = s[i]) /\ t[n + 1] = c
  BY Appended
<1>4. PICK g : Grouping(s, n, g) /\ Grouped(s) = g[n]
  BY <1>1
<1>5. PICK h : Grouping(t, n + 1, h) /\ Grouped(t) = h[n + 1]
  BY <1>1, <1>3
<1> HIDE DEF n, t
<1>6. g[n] = h[n]
  <2>1. g[0] = h[0]
    BY <1>3, <1>4, <1>5 DEF Grouping
  <2>2. ASSUME NEW i \in 1..n, g[i - 1] = h[i - 1] PROVE g[i] = h[i]
    <3>1. g[i] = AddPart(g[i - 1], s[i])
      BY <1>3, <1>4 DEF Grouping
    <3>2. h[i] = AddPart(h[i - 1], t[i])
      BY <1>3, <1>5 DEF Grouping
    <3> QED BY <1>3, <2>2, <3>1, <3>2
  <2> QED BY <1>3, <2>1, <2>2, SameRun
<1>7. h[n + 1] = AddPart(h[n], c)
  <2>1. n + 1 \in 0..(n + 1) /\ n + 1 # 0 /\ (n + 1) - 1 = n
    BY <1>3
  <2>2. h[n + 1] = AddPart(h[(n + 1) - 1], t[n + 1])
    BY <1>5, <2>1 DEF Grouping
  <2> QED BY <1>3, <2>1, <2>2
<1> QED BY <1>2, <1>4, <1>5, <1>6, <1>7 DEF n, t

\* The names, one by one: where each is in the order, and that none is a separator.
LEMMA NamesAre ==
    /\ Len(KeyOrder) = 15
    /\ \A i \in 1..15 : KeyOrder[i] \in Names
    /\ \A k \in Names : \E i \in 1..15 : KeyOrder[i] = k
    /\ \A k \in Names : k # "&" /\ k # "="
    /\ \A i, j \in 1..15 : KeyOrder[i] = KeyOrder[j] => i = j
<1>1. Len(KeyOrder) = 15
  BY DEF KeyOrder
<1>2. \A i \in 1..15 : KeyOrder[i] \in Names
  BY <1>1 DEF Names
<1>3. \A k \in Names : \E i \in 1..15 : KeyOrder[i] = k
  BY <1>1 DEF Names
<1> DEFINE at(k) == IF k = "billId" THEN 1 ELSE IF k = "count" THEN 2 ELSE IF k = "endDate" THEN 3
                    ELSE IF k = "endMonth" THEN 4 ELSE IF k = "externalReferenceUid" THEN 5
                    ELSE IF k = "overdueStatus" THEN 6 ELSE IF k = "refundStatus" THEN 7
                    ELSE IF k = "repaymentStatus" THEN 8 ELSE IF k = "requestId" THEN 9
                    ELSE IF k = "start" THEN 10 ELSE IF k = "startDate" THEN 11
                    ELSE IF k = "startMonth" THEN 12 ELSE IF k = "status" THEN 13
                    ELSE IF k = "transactionType" THEN 14 ELSE IF k = "type" THEN 15 ELSE 16
<1>4. ASSUME NEW i \in 1..15 PROVE at(KeyOrder[i]) = i
  BY DEF KeyOrder
<1>5. at("&") = 16 /\ at("=") = 16
  OBVIOUS
<1> HIDE DEF at
<1>6. \A i, j \in 1..15 : KeyOrder[i] = KeyOrder[j] => i = j
  BY <1>4
<1>7. \A k \in Names : k # "&" /\ k # "="
  BY <1>3, <1>4, <1>5
<1> QED BY <1>1, <1>2, <1>3, <1>6, <1>7

\* what a pair is made of
InPair(C) == InEscaped(C) \cup Names \cup {"="}

\* The queries whose texts are made of C.
Values(C) == [Names -> Seq(Seq(C))]

\* A pair is no separator, and is read as one more value of its name.
LEMMA PairAdds ==
    ASSUME NEW C, NEW k \in Names, NEW v \in Seq(C), NEW q \in Values(C)
    PROVE  Pair(k, v) \in Seq(InPair(C)) /\ AddPart(q, Pair(k, v)) = [q EXCEPT ![k] = Append(@, v)]
<1> DEFINE e == rfc3986Escape(v)
<1>1. e \in Seq(InEscaped(C)) /\ Unescape(e) = v /\ k # "="
  BY EscapedIn, EscapedTextIsReadBack, NamesAre
<1> HIDE DEF e
<1>2. Pair(k, v) = <<k, "=">> \o e
  BY DEF Pair, e
<1>3. Cut(Pair(k, v)) = [key |-> <<k>>, value |-> e] /\ Pair(k, v) # <<>>
  BY <1>1, <1>2, CutPair
<1>4. Pair(k, v) \in Seq(InPair(C))
  <2>1. e \in Seq(InPair(C)) /\ <<k, "=">> \in Seq(InPair(C))
    BY <1>1 DEF InPair
  <2> HIDE DEF InPair
  <2> QED BY <1>2, <2>1
<1>5. AddPart(q, Pair(k, v)) = [q EXCEPT ![k] = Append(@, v)]
  <2> DEFINE kv == Cut(Pair(k, v))
  <2>1. kv.key[1] = k /\ kv.value = e
    BY <1>3
  <2> HIDE DEF kv
  <2>2. AddPart(q, Pair(k, v)) = [q EXCEPT ![kv.key[1]] = Append(@, Unescape(kv.value))]
    BY <1>3 DEF AddPart, kv
  <2> QED BY <1>1, <2>1, <2>2
<1> QED BY <1>4, <1>5

\* Appending, as a function.
LEMMA AppendIs ==
    ASSUME NEW C, NEW b \in Seq(C), NEW p \in C
    PROVE  Append(b, p) = [i \in 1..(Len(b) + 1) |-> IF i = Len(b) + 1 THEN p ELSE b[i]]
<1> DEFINE n == Len(b)
           a == Append(b, p)
           c == [i \in 1..(n + 1) |-> IF i = n + 1 THEN p ELSE b[i]]
<1>1. n \in Nat /\ a \in Seq(C) /\ Len(a) = n + 1 /\ \A i \in 1..(n + 1) : a[i] = IF i = n + 1 THEN p ELSE b[i]
  OBVIOUS
<1>2. c \in Seq(C) /\ Len(c) = n + 1 /\ \A i \in 1..(n + 1) : c[i] = IF i = n + 1 THEN p ELSE b[i]
  OBVIOUS
<1> HIDE DEF a, c, n
<1>3. a = c
  BY <1>1, <1>2
<1> QED BY <1>3 DEF a, c, n

\* the pairs of one name
PairsFor(k, vs) == [i \in 1..Len(vs) |-> Pair(k, vs[i])]

\* The pairs of one name add all its values.
LEMMA GroupMore ==
    ASSUME NEW C, NEW k \in Names, NEW vs \in Seq(Seq(C)), NEW ps \in Seq(Seq(InPair(C))),
           Grouped(ps) \in Values(C)
    PROVE  /\ PairsFor(k, vs) \in Seq(Seq(InPair(C)))
           /\ Grouped(ps \o PairsFor(k, vs)) = [Grouped(ps) EXCEPT ![k] = @ \o vs]
<1> DEFINE q == Grouped(ps)
           W == InPair(C)
           T == {us \in Seq(Seq(C)) : /\ PairsFor(k, us) \in Seq(Seq(W))
                                      /\ Grouped(ps \o PairsFor(k, us)) = [q EXCEPT ![k] = @ \o us]}
<1>0. q \in Values(C) /\ q[k] \in Seq(Seq(C))
  BY DEF Values
<1> HIDE DEF W
<1>1. <<>> \in T
  <2>1. PairsFor(k, <<>>) = <<>> /\ <<>> \in Seq(Seq(W)) /\ <<>> \in Seq(Seq(C))
    BY DEF PairsFor
  <2>2. ps \o <<>> = ps
    BY DEF W
  <2> HIDE DEF q
  <2>3. q[k] \o <<>> = q[k]
    BY <1>0
  <2>4. [q EXCEPT ![k] = @ \o <<>>] = q
    BY <1>0, <2>3 DEF Values
  <2> QED BY <2>1, <2>2, <2>4 DEF q
<1>2. ASSUME NEW us \in Seq(Seq(C)), NEW u \in Seq(C), us \in T PROVE Append(us, u) \in T
  <2> DEFINE b == PairsFor(k, us)
             p == Pair(k, u)
             r == ps \o b
  <2>1. b \in Seq(Seq(W)) /\ Grouped(r) = [q EXCEPT ![k] = @ \o us]
    BY <1>2
  <2> HIDE DEF q
  <2>2. p \in Seq(W) /\ \A x \in Values(C) : AddPart(x, p) = [x EXCEPT ![k] = Append(@, u)]
    BY <1>0, PairAdds DEF W
  <2>3. PairsFor(k, Append(us, u)) = Append(b, p)
    <3> DEFINE n == Len(us)
               t == Append(us, u)
               a == PairsFor(k, t)
    <3>1. /\ t \in Seq(Seq(C)) /\ Len(t) = n + 1 /\ n \in Nat /\ t[n + 1] = u
          /\ \A i \in 1..n : t[i] = us[i]
      OBVIOUS
    <3> HIDE DEF t
    <3>2. Len(b) = n /\ \A i \in 1..n : b[i] = Pair(k, us[i])
      BY <3>1 DEF PairsFor
    <3> HIDE DEF b, n
    <3>3. a = [i \in 1..(n + 1) |-> Pair(k, t[i])]
      BY <3>1 DEF PairsFor
    <3>4. ASSUME NEW i \in 1..(n + 1) PROVE Pair(k, t[i]) = IF i = n + 1 THEN p ELSE b[i]
      <4>1. CASE i = n + 1
        BY <3>1, <4>1
      <4>2. CASE i # n + 1
        <5>1. i \in 1..n
          BY <3>1, <4>2
        <5> QED BY <3>1, <3>2, <4>2, <5>1
      <4> QED BY <4>1, <4>2
    <3> HIDE DEF a, p
    <3>5. Append(b, p) = [i \in 1..(n + 1) |-> IF i = n + 1 THEN p ELSE b[i]]
      BY <2>1, <2>2, <3>2, AppendIs
    <3>9. a = Append(b, p)
      BY <3>3, <3>4, <3>5
    <3> QED BY <3>9 DEF a, t
  <2> HIDE DEF b, p
  <2>4. ps \o Append(b, p) = Append(r, p) /\ r \in Seq(Seq(W)) /\ Append(b, p) \in Seq(Seq(W))
    BY <2>1, <2>2 DEF W
  <2> HIDE DEF r
  <2>5. Grouped(Append(r, p)) = AddPart(Grouped(r), p)
    BY <2>2, <2>4, GroupSteps
  <2>6. [q EXCEPT ![k] = @ \o us] \in Values(C)
    BY <1>0 DEF Values
  <2>7. AddPart([q EXCEPT ![k] = @ \o us], p) = [[q EXCEPT ![k] = @ \o us] EXCEPT ![k] = Append(@, u)]
    BY <2>2, <2>6
  <2>8. [[q EXCEPT ![k] = @ \o us] EXCEPT ![k] = Append(@, u)] = [q EXCEPT ![k] = @ \o Append(us, u)]
    <3>1. q[k] \o Append(us, u) = Append(q[k] \o us, u)
      <4>1. ASSUME NEW a \in Seq(Seq(C)) PROVE a \o Append(us, u) = Append(a \o us, u)
        BY AppendedLast
      <4> QED BY <1>0, <4>1
    <3> QED BY <1>0, <3>1 DEF Values
  <2>9. Append(us, u) \in Seq(Seq(C))
    OBVIOUS
  <2>10. Grouped(ps \o PairsFor(k, Append(us, u))) = [q EXCEPT ![k] = @ \o Append(us, u)]
    BY <2>1, <2>3, <2>4, <2>5, <2>7, <2>8
  <2> QED BY <2>3, <2>4, <2>9, <2>10
<1>3. Seq(Seq(C)) \subseteq T
  <2> HIDE DEF T
  <2> QED BY <1>1, <1>2, ByAppending
<1> QED BY <1>3 DEF W

\* the pairs of the first j names, name by name
Upto(q, j) == [i \in 1..j |-> PairsFor(KeyOrder[i], q[KeyOrder[i]])]

\* q without the names after the first j
Kept(q, j) == [k \in Names |-> IF \E i \in 1..j : KeyOrder[i] = k THEN q[k] ELSE <<>>]

\* The pairs of all names, grouped by name, are the query.
LEMMA SortedPairsGroup ==
    ASSUME NEW C, NEW q \in Values(C)
    PROVE  SortedPairs(q) \in Seq(Seq(InPair(C))) /\ Grouped(SortedPairs(q)) = q
<1> DEFINE X == Seq(InPair(C))
           Done(j) == /\ Upto(q, j) \in Seq(Seq(X))
                      /\ FlattenSeq(Upto(q, j)) \in Seq(X)
                      /\ Grouped(FlattenSeq(Upto(q, j))) = Kept(q, j)
           S == {j \in Nat : j <= 15 => Done(j)}
<1>0. \A k \in Names : q[k] \in Seq(Seq(C))
  BY DEF Values
<1>1. 0 \in S
  <2>1. Upto(q, 0) = <<>> /\ <<>> \in Seq(Seq(X)) /\ <<>> \in Seq(X) /\ <<>> \in X
    BY DEF Upto
  <2>2. FlattenSeq(<<>>) = <<>>
    BY DEF FlattenSeq
  <2>3. Grouped(<<>>) = None
    <3>1. <<>> \in Seq({0}) /\ 0 \in {0}
      OBVIOUS
    <3> QED BY <3>1, GroupSteps
  <2>4. Kept(q, 0) = None
    BY DEF Kept, None
  <2> HIDE DEF X
  <2> QED BY <2>1, <2>2, <2>3, <2>4
<1>2. ASSUME NEW j \in Nat, j \in S PROVE j + 1 \in S
  <2> SUFFICES ASSUME j + 1 <= 15 PROVE Done(j + 1)
    OBVIOUS
  <2> DEFINE U == Upto(q, j)
             F == FlattenSeq(U)
             k == KeyOrder[j + 1]
             b == PairsFor(k, q[k])
  <2>1. U \in Seq(Seq(X)) /\ F \in Seq(X) /\ Grouped(F) = Kept(q, j)
    BY <1>2
  <2>2. k \in Names /\ q[k] \in Seq(Seq(C)) /\ j \in 0..14 /\ j + 1 \in 1..15
    BY <1>0, NamesAre
  <2>3. Kept(q, j) \in Values(C)
    <3>1. <<>> \in Seq(Seq(C))
      OBVIOUS
    <3> QED BY <1>0, <3>1 DEF Kept, Values
  <2> HIDE DEF F, k
  <2>4. b \in Seq(X) /\ Grouped(F \o b) = [Grouped(F) EXCEPT ![k] = @ \o q[k]]
    <3>1. Grouped(F) \in Values(C)
      BY <2>1, <2>3
    <3>2. ASSUME NEW vs \in Seq(Seq(C))
          PROVE  /\ PairsFor(k, vs) \in Seq(X)
                 /\ Grouped(F \o PairsFor(k, vs)) = [Grouped(F) EXCEPT ![k] = @ \o vs]
      BY <2>1, <2>2, <3>1, GroupMore
    <3> QED BY <2>2, <3>2
  <2>5. Upto(q, j + 1) = Append(U, b)
    <3>1. Len(U) = j
      BY DEF Upto
    <3> HIDE DEF b, X
    <3>2. Append(U, b) = [i \in 1..(j + 1) |-> IF i = j + 1 THEN b ELSE U[i]]
      BY <2>1, <2>4, <3>1, AppendIs
    <3>3. ASSUME NEW i \in 1..(j + 1)
          PROVE  PairsFor(KeyOrder[i], q[KeyOrder[i]]) = IF i = j + 1 THEN b ELSE U[i]
      <4>1. CASE i = j + 1
        BY <4>1 DEF b, k
      <4>2. CASE i # j + 1
        BY <4>2 DEF Upto
      <4> QED BY <4>1, <4>2
    <3>4. Upto(q, j + 1) = [i \in 1..(j + 1) |-> PairsFor(KeyOrder[i], q[KeyOrder[i]])]
      BY DEF Upto
    <3> QED BY <3>2, <3>3, <3>4
  <2> HIDE DEF b, U
  <2>6. FlattenSeq(Append(U, b)) = F \o b
    BY <2>1, <2>4, Flattened DEF F
  <2>7. Append(U, b) \in Seq(Seq(X)) /\ F \o b \in Seq(X)
    <3> HIDE DEF X
    <3> QED BY <2>1, <2>4
  <2>8. [Kept(q, j) EXCEPT ![k] = @ \o q[k]] = Kept(q, j + 1)
    <3>1. ~ \E i \in 1..j : KeyOrder[i] = k
      BY <2>2, NamesAre DEF k
    <3>2. Kept(q, j)[k] = <<>>
      BY <2>2, <3>1 DEF Kept
    <3>3. <<>> \o q[k] = q[k]
      BY <2>2
    <3>4. ASSUME NEW n \in Names
          PROVE  (\E i \in 1..(j + 1) : KeyOrder[i] = n) <=> (n = k \/ \E i \in 1..j : KeyOrder[i] = n)
      BY DEF k
    <3>5. ASSUME NEW n \in Names
          PROVE  [Kept(q, j) EXCEPT ![k] = @ \o q[k]][n] = Kept(q, j + 1)[n]
      BY <2>2, <3>2, <3>3, <3>4 DEF Kept
    <3> QED BY <3>5 DEF Kept
  <2> QED BY <2>1, <2>4, <2>5, <2>6, <2>7, <2>8
<1>3. 15 \in S
  <2> HIDE DEF S
  <2>1. Nat \subseteq S
    BY <1>1, <1>2, CountingUp
  <2> QED BY <2>1
<1>4. Done(15)
  BY <1>3
<1> HIDE DEF Done, S
<1>5. SortedPairs(q) = FlattenSeq(Upto(q, 15))
  BY NamesAre DEF SortedPairs, Upto, PairsFor
<1>6. Kept(q, 15) = q
  BY NamesAre DEF Kept, Values
<1> QED BY <1>4, <1>5, <1>6 DEF Done

\* Pairs that were joined are parsed by grouping them.
LEMMA ParsedAsJoined ==
    ASSUME NEW W, "&" \notin W, NEW ps \in Seq(Seq(W))
    PROVE  ParseQuery(JoinPairs(ps)) = Grouped(ps)
<1> DEFINE D == W \cup {"&"}
<1>0. ps \in Seq(Seq(D)) /\ "&" \in D
  <2>1. Seq(W) \subseteq Seq(D)
    OBVIOUS
  <2> QED BY <2>1
<1>1. ASSUME NEW wire PROVE ParseQuery(wire) = Grouped(Split(wire, "&"))
  BY DEF ParseQuery, Grouped, Grouping
<1>2. ASSUME NEW i \in 1..Len(ps) PROVE Without(ps[i], "&")
  <2>1. ps[i] \in Seq(W)
    OBVIOUS
  <2> QED BY <2>1 DEF Without
<1> HIDE DEF D
<1>3. CASE ps # <<>>
  <2>1. Split(JoinPairs(ps), "&") = ps
    BY <1>0, <1>2, <1>3, SplitsAsJoined
  <2> QED BY <1>1, <2>1
<1>4. CASE ps = <<>>
  <2>1. JoinPairs(ps) = <<>>
    <3>1. <<>> \in Seq(D)
      OBVIOUS
    <3> QED BY <1>0, <1>4, <3>1, JoinSteps
  <2>2. Split(<<>>, "&") = <<<<>>>>
    BY SplitOfNothing
  <2>3. <<>> \in Seq({<<>>}) /\ <<>> \in {<<>>} /\ Append(<<>>, <<>>) = <<<<>>>>
    OBVIOUS
  <2>4. Grouped(<<>>) = None /\ Grouped(Append(<<>>, <<>>)) = AddPart(Grouped(<<>>), <<>>)
    BY <2>3, GroupSteps
  <2>5. AddPart(None, <<>>) = None
    BY DEF AddPart
  <2>6. Grouped(<<<<>>>>) = None
    BY <2>3, <2>4, <2>5
  <2> QED BY <1>1, <1>4, <2>1, <2>2, <2>4, <2>6
<1> QED BY <1>3, <1>4

\* sign/canonical.go, EncodeWireQueryRFC3986: the gateway reads every query as it
\* was asked, every name with every value in its order, whatever the texts hold.
THEOREM QueriesAreReadBack ==
    ASSUME NEW C, NEW q \in Values(C)
    PROVE  ParseQuery(EncodeWireQueryRFC3986(q)) = q
<1>1. "&" \notin InPair(C)
  BY NamesAre DEF InPair, InEscaped, Hex, Reserved
<1>2. SortedPairs(q) \in Seq(Seq(InPair(C))) /\ Grouped(SortedPairs(q)) = q
  BY SortedPairsGroup
<1>3. ParseQuery(JoinPairs(SortedPairs(q))) = Grouped(SortedPairs(q))
  BY <1>1, <1>2, ParsedAsJoined
<1> QED BY <1>2, <1>3 DEF EncodeWireQueryRFC3986

\* sign/canonical.go, "byte-identical to CanonicalQuery's output (when
\* CanonicalQuery doesn't error)": without repeated names the canonical form is the
\* query on the wire.
THEOREM SingleValuesAreCanonical ==
    ASSUME NEW C, NEW q \in Values(C), CanonicalQuery(q).err = "nil"
    PROVE  CanonicalQuery(q).text = EncodeWireQueryRFC3986(q)
<1>1. ~ \E k \in Names : Len(q[k]) > 1
  BY DEF CanonicalQuery
<1>2. CanonicalQuery(q).text = JoinPairs(SortedPairs(FirstValues(q)))
  BY <1>1 DEF CanonicalQuery
<1>3. ASSUME NEW k \in Names PROVE FirstValues(q)[k] = q[k]
  <2>1. q[k] \in Seq(Seq(C)) /\ ~(Len(q[k]) > 1)
    BY <1>1 DEF Values
  <2> DEFINE vs == q[k]
  <2> HIDE DEF vs
  <2>2. FirstValues(q)[k] = IF vs = <<>> THEN <<>> ELSE <<vs[1]>>
    BY DEF FirstValues, vs
  <2>3. vs # <<>> => vs = <<vs[1]>>
    BY <2>1 DEF vs
  <2> QED BY <2>2, <2>3 DEF vs
<1>4. FirstValues(q) = q
  BY <1>3 DEF FirstValues, Values
<1> QED BY <1>2, <1>4 DEF EncodeWireQueryRFC3986

-----------------------------------------------------------------------------
(* Padding.                                                                *)

\* What is left over by a division.
LEMMA Remainder ==
    ASSUME NEW B \in Nat \ {0}, NEW x \in Nat
    PROVE  x % B \in 0..(B - 1) /\ \E k \in Nat : x - (x % B) = B * k
<1>1. x % B \in Int /\ x % B >= 0 /\ x % B < B
  OBVIOUS
<1>2. x \div B \in Nat
  OBVIOUS
<1>3. x - (x % B) = B * (x \div B)
  OBVIOUS
<1>4. \E k \in Nat : x - (x % B) = B * k
  BY <1>2, <1>3, Zenon
<1>5. x % B \in 0..(B - 1)
  BY <1>1
<1> QED BY <1>4, <1>5

\* Nothing is left over of a multiple.
LEMMA NoRemainder ==
    ASSUME NEW B \in Nat \ {0}, NEW k \in Nat
    PROVE  (B * k) % B = 0
<1> DEFINE x == B * k
           m == x % B
<1>0. x \in Nat
  OBVIOUS
<1>1. m \in 0..(B - 1)
  BY <1>0, Remainder
<1>2. PICK d \in Nat : x - m = B * d
  <2> HIDE DEF x
  <2> QED BY <1>0, Remainder
<1> HIDE DEF m
<1>3. B * (k - d) = m
  BY <1>1, <1>2
<1>4. CASE k - d >= 1
  <2>1. B * (k - d) >= B
    BY <1>4
  <2> QED BY <1>1, <1>3, <2>1
<1>5. CASE k - d <= -1
  <2>1. B * (k - d) < 0
    BY <1>5
  <2> QED BY <1>1, <1>3, <2>1
<1>6. CASE k - d = 0
  BY <1>3, <1>6 DEF m, x
<1> QED BY <1>4, <1>5, <1>6

\* encrypt/aes.go: for every block size and every plaintext, whatever its length
\* and even if it ends like a padding, pkcs5Unpad gives back what pkcs5Pad got.
THEOREM PaddingComesOff ==
    ASSUME NEW S, NEW plain \in Seq(S)
    PROVE  /\ Len(pkcs5Pad(plain)) # 0 /\ Len(pkcs5Pad(plain)) % BlockSize = 0
           /\ pkcs5Unpad(pkcs5Pad(plain)) = [err |-> "nil", plain |-> plain]
<1> DEFINE L == Len(plain)
           r == L % BlockSize
           n == BlockSize - r
           tail == [i \in 1..n |-> n]
           in == plain \o tail
<1> USE BlockAssumption
<1>0. L \in Nat
  OBVIOUS
<1>1. PICK k \in Nat : L - r = BlockSize * k
  BY <1>0, Remainder
<1>2. r \in 0..(BlockSize - 1)
  BY <1>0, Remainder
<1>3. n \in 1..BlockSize /\ L + n = BlockSize * (k + 1)
  <2> HIDE DEF r, L
  <2>1. n \in 1..BlockSize
    BY <1>2
  <2>2. BlockSize * (k + 1) = BlockSize * k + BlockSize
    OBVIOUS
  <2> QED BY <1>0, <1>1, <1>2, <2>1, <2>2
<1>4. (L + n) % BlockSize = 0
  <2>1. k + 1 \in Nat
    OBVIOUS
  <2> QED BY <1>3, <2>1, NoRemainder
<1>5. pkcs5Pad(plain) = in
  BY DEF pkcs5Pad
<1> HIDE DEF n
<1>6. n \in Nat \ {0} /\ n <= BlockSize
  BY <1>3
<1>7. tail \in Seq(Nat) /\ Len(tail) = n /\ \A i \in 1..n : tail[i] = n
  BY <1>6
<1>8. /\ plain \in Seq(S \cup Nat) /\ tail \in Seq(S \cup Nat)
  BY <1>7
<1> HIDE DEF tail
<1>9. /\ Len(in) = L + n /\ \A i \in 1..L : in[i] = plain[i]
      /\ \A i \in (L + 1)..(L + n) : in[i] = n
  <2>1. Len(in) = L + n
    BY <1>7, <1>8
  <2>2. \A i \in 1..L : in[i] = plain[i]
    BY <1>7, <1>8
  <2>3. ASSUME NEW i \in (L + 1)..(L + n) PROVE in[i] = n
    <3>1. i - L \in 1..n
      BY <1>0, <1>6
    <3>2. in[i] = tail[i - L]
      BY <1>0, <1>6, <1>7, <1>8
    <3> QED BY <1>7, <3>1, <3>2
  <2> QED BY <2>1, <2>2, <2>3
<1>10. in \in Seq(S \cup Nat)
  BY <1>8
<1> HIDE DEF in
<1>11. in[Len(in)] = n
  BY <1>0, <1>6, <1>9
<1>12. SubSeq(in, 1, L) = plain
  <2>1. Len(SubSeq(in, 1, L)) = L /\ \A i \in 1..L : SubSeq(in, 1, L)[i] = in[i]
    BY <1>0, <1>6, <1>9, <1>10
  <2>2. SubSeq(in, 1, L) \in Seq(S \cup Nat)
    BY <1>0, <1>6, <1>9, <1>10
  <2> QED BY <1>8, <1>9, <2>1, <2>2
<1>13. Len(in) # 0 /\ Len(in) % BlockSize = 0 /\ Len(in) - n = L
  BY <1>0, <1>4, <1>6, <1>9
<1>14. \A i \in (Len(in) - n + 1)..Len(in) : in[i] = n
  BY <1>9, <1>13
<1>15. pkcs5Unpad(in) = [err |-> "nil", plain |-> plain]
  BY <1>6, <1>11, <1>12, <1>13, <1>14 DEF pkcs5Unpad
<1> QED BY <1>5, <1>13, <1>15

-----------------------------------------------------------------------------
(* The encryption header and the envelope.                                 *)

\* A text holds no character that it is not made of.
LEMMA NotInIt ==
    ASSUME NEW W, NEW c, c \notin W, NEW h \in Seq(W)
    PROVE  h \in Seq(W \cup {c}) /\ Without(h, c) /\ c \in W \cup {c}
<1>1. \A i \in 1..Len(h) : h[i] \in W
  OBVIOUS
<1> QED BY <1>1 DEF Without

\* The characters of a text are in its alphabet.
LEMMA InItsSet ==
    ASSUME NEW W, NEW h \in Seq(W)
    PROVE  \A i \in 1..Len(h) : h[i] \in W
OBVIOUS

\* From its first to its last character a text is itself.
LEMMA WholeSubSeq ==
    ASSUME NEW W, NEW h \in Seq(W)
    PROVE  h = IF 1..Len(h) = {} THEN <<>> ELSE SubSeq(h, Min(1..Len(h)), Max(1..Len(h)))
<1>1. PICK n \in Nat : n = Len(h)
  OBVIOUS
<1>2. CASE n = 0
  <2>1. \A x \in 1..n : FALSE
    BY <1>2
  <2>2. 1..n = {}
    BY <2>1, Zenon
  <2>3. h = <<>>
    <3>1. Len(h) = 0
      BY <1>1, <1>2
    <3> QED BY <3>1
  <2> QED BY <1>1, <2>2, <2>3
<1>3. CASE n # 0
  <2>1. Min(1..n) = 1
    <3>1. 1 \in 1..n /\ \A y \in 1..n : y \in Nat /\ 1 <= y
      BY <1>3
    <3> QED BY <3>1, MinIs
  <2>2. Max(1..n) = n
    <3>1. n \in 1..n /\ \A y \in 1..n : y \in Nat /\ y <= n
      BY <1>3
    <3> QED BY <3>1, MaxIs
  <2>3. SubSeq(h, 1, n) = h
    BY <1>1
  <2>4. 1..n # {}
    <3>1. 1 \in 1..n
      BY <1>3
    <3> QED BY <3>1, Zenon
  <2> QED BY <1>1, <2>1, <2>2, <2>3, <2>4
<1> QED BY <1>2, <1>3

\* A text without a space is not trimmed.
LEMMA NothingToTrim ==
    ASSUME NEW W, " " \notin W, NEW h \in Seq(W)
    PROVE  TrimSpace(h) = h
<1> DEFINE kept == {i \in 1..Len(h) : h[i] # " "}
<1>1. \A i \in 1..Len(h) : h[i] \in W
  BY InItsSet
<1>2. kept = 1..Len(h)
  BY <1>1, Zenon
<1>3. TrimSpace(h) = IF kept = {} THEN <<>> ELSE SubSeq(h, Min(kept), Max(kept))
  BY DEF TrimSpace
<1> HIDE DEF kept
<1> QED BY <1>2, <1>3, WholeSubSeq

\* The header gives back the wrapped key it was built with.
LEMMA HeaderReads ==
    ASSUME NEW C, NEW text \in Seq(C)
    PROVE  /\ ParseEncryptHeader(BuildEncryptHeader(text)).err = "nil"
           /\ SymmetricKeyFrom(ParseEncryptHeader(BuildEncryptHeader(text)).kv) = text
<1> DEFINE e == rfc3986Escape(text)
           W == InEscaped(C) \cup {"symmetricKey", "="}
           D == W \cup {","}
           header == <<"symmetricKey", "=">> \o e
<1>1. e \in Seq(InEscaped(C)) /\ Unescape(e) = text /\ ~UnescapeFails(e)
  BY EscapedIn, EscapedTextIsReadBack
<1> HIDE DEF e
<1>2. header \in Seq(W) /\ "," \notin W /\ " " \notin W
  <2>1. e \in Seq(W) /\ <<"symmetricKey", "=">> \in Seq(W)
    BY <1>1
  <2>2. "," \notin W /\ " " \notin W
    BY DEF InEscaped, Hex, Reserved
  <2> HIDE DEF W
  <2>3. header \in Seq(W)
    BY <2>1
  <2> QED BY <2>2, <2>3, Zenon
<1>3. header \in Seq(D) /\ Without(header, ",") /\ "," \in D
  <2> HIDE DEF header, W
  <2> QED BY <1>2, NotInIt
<1>4. Cut(header) = [key |-> <<"symmetricKey">>, value |-> e] /\ header # <<>>
  BY <1>1, CutPair
<1>5. Split(header, ",") = <<header>>
  <2> HIDE DEF D, header
  <2> QED BY <1>3, SplitPart
<1>6. BuildEncryptHeader(text) = header
  BY DEF BuildEncryptHeader, e
<1>7. header[2] = "=" /\ 2 \in 1..Len(header)
  BY <1>1
<1>8. e \in Seq(W) /\ <<"symmetricKey">> \in Seq(W)
  BY <1>1
<1> HIDE DEF header, D, W
<1>9. TrimSpace(header) = header /\ TrimSpace(e) = e /\ TrimSpace(<<"symmetricKey">>) = <<"symmetricKey">>
  BY <1>2, <1>8, NothingToTrim
<1>10. KeyOf(header) = <<"symmetricKey">> /\ ValueOf(header) = e
  BY <1>4, <1>9 DEF KeyOf, ValueOf
<1>11. ~Malformed(header)
  BY <1>1, <1>7, <1>10 DEF Malformed
<1> DEFINE parts == Split(header, ",")
           trimmed == [i \in 1..Len(parts) |-> TrimSpace(parts[i])]
           given == {i \in 1..Len(parts) : trimmed[i] # <<>>}
           LastOf(k) == trimmed[Max({i \in given : KeyOf(trimmed[i]) = k})]
           kv == [k \in {KeyOf(trimmed[i]) : i \in given} |-> Unescape(ValueOf(LastOf(k)))]
           parsed == ParseEncryptHeader(header)
<1>12. Len(parts) = 1 /\ parts[1] = header
  <2>1. parts = <<header>>
    BY <1>5, Zenon
  <2> HIDE DEF parts
  <2> QED BY <2>1
<1> HIDE DEF parts
<1>13. trimmed = [i \in 1..1 |-> TrimSpace(parts[i])] /\ trimmed[1] = header
  BY <1>9, <1>12
<1> HIDE DEF trimmed
<1>14. given = {1}
  BY <1>4, <1>12, <1>13
<1> HIDE DEF given
<1>15. {i \in given : KeyOf(trimmed[i]) = <<"symmetricKey">>} = {1}
  BY <1>10, <1>13, <1>14
<1>16. LastOf(<<"symmetricKey">>) = header
  BY <1>13, <1>15, MaxOfOne
<1>17. {KeyOf(trimmed[i]) : i \in given} = {<<"symmetricKey">>}
  BY <1>10, <1>13, <1>14
<1> HIDE DEF LastOf
<1>18. <<"symmetricKey">> \in DOMAIN kv /\ kv[<<"symmetricKey">>] = text
  BY <1>1, <1>10, <1>16, <1>17
<1> HIDE DEF kv
<1>19. parsed = [err |-> "nil", kv |-> kv]
  <2>1. ~(given = {} \/ \E i \in given : Malformed(trimmed[i]))
    BY <1>11, <1>13, <1>14
  <2> QED BY <2>1 DEF ParseEncryptHeader, parts, trimmed, given, LastOf, kv
<1> HIDE DEF parsed
<1>20. parsed.err = "nil" /\ SymmetricKeyFrom(parsed.kv) = text
  BY <1>18, <1>19 DEF SymmetricKeyFrom
<1> QED BY <1>6, <1>20 DEF parsed

\* encrypt/envelope.go, Marshal and Unmarshal: whoever holds the private key of the
\* pair a body was encrypted for reads the plaintext, for every plaintext and every
\* random key.
THEOREM EncryptedBodiesOpen ==
    ASSUME NEW S, NEW plain \in Seq(S), NEW key \in RandomAESKey, NEW pub,
           <<key, pub>> \in DOMAIN Base64
    PROVE  Unmarshal(Marshal(plain, pub, key).header, Marshal(plain, pub, key).body, pub)
             = [err |-> "nil", plain |-> plain]
<1> DEFINE text == Base64[<<key, pub>>]
           header == BuildEncryptHeader(text)
           body == [key |-> key, blocks |-> pkcs5Pad(plain)]
<1>1. Marshal(plain, pub, key).header = header /\ Marshal(plain, pub, key).body = body
  BY DEF Marshal, WrapAESKey, EncryptBody
<1>2. text \in Seq(Characters) /\ text # <<>> /\ \A b \in DOMAIN Base64 : Base64[b] = text => b = <<key, pub>>
  BY Base64Assumption
<1>3. ParseEncryptHeader(header).err = "nil" /\ SymmetricKeyFrom(ParseEncryptHeader(header).kv) = text
  BY <1>2, HeaderReads
<1>4. UnwrapAESKey(text, pub) = key
  <2> DEFINE keys == {pair \in DOMAIN Base64 : pair[2] = pub /\ Base64[pair] = text}
  <2>1. <<key, pub>>[2] = pub /\ <<key, pub>>[1] = key
    OBVIOUS
  <2>2. <<key, pub>> \in keys
    BY <2>1
  <2>3. \A pair \in keys : pair = <<key, pub>>
    BY <1>2
  <2> HIDE DEF keys
  <2>4. (CHOOSE pair \in keys : TRUE) = <<key, pub>>
    BY <2>2, <2>3
  <2>5. UnwrapAESKey(text, pub) = (CHOOSE pair \in keys : TRUE)[1]
    BY <2>2 DEF UnwrapAESKey, keys
  <2> QED BY <2>1, <2>4, <2>5
<1>5. ValidateAESKey(key)
  BY BlockAssumption DEF RandomAESKey, ValidateAESKey
<1>6. /\ Len(pkcs5Pad(plain)) # 0 /\ Len(pkcs5Pad(plain)) % BlockSize = 0
      /\ pkcs5Unpad(pkcs5Pad(plain)) = [err |-> "nil", plain |-> plain]
  BY PaddingComesOff
<1>7. DecryptBody(body, key) = [err |-> "nil", plain |-> plain]
  <2>1. body.blocks = pkcs5Pad(plain) /\ body.key = key
    OBVIOUS
  <2> HIDE DEF body
  <2> QED BY <1>6, <2>1 DEF DecryptBody
<1> HIDE DEF text, header, body
<1>8. Unmarshal(header, body, pub) = DecryptBody(body, key)
  BY <1>2, <1>3, <1>4, <1>5 DEF Unmarshal
<1> QED BY <1>1, <1>7, <1>8
=============================================================================
