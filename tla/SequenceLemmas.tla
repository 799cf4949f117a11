--------------------------- MODULE SequenceLemmas ---------------------------
(***************************************************************************)
(* Lemmas about sequences that the proofs of several modules use: what     *)
(* Append, Tail and SubSeq do to the elements of a sequence, and what      *)
(* Only(s, R) keeps of it. Only is recursive; what holds for it holds by   *)
(* induction, stated here for a set of numbers and a set of sequences.     *)
(***************************************************************************)
EXTENDS Selection, SequencesExt, FiniteSets, TLAPS, SequenceTheorems, FiniteSetTheorems,
        WellFoundedInduction

\* Induction: a set with 0 that has the successor of each of its numbers has all.
LEMMA InductionOnNat ==
    ASSUME NEW T \in SUBSET Nat, 0 \in T, \A n \in T : n + 1 \in T
    PROVE  T = Nat
<1>1. IsWellFoundedOn(OpToRel(<, Nat), Nat)
  BY NatLessThanWellFounded
<1> SUFFICES ASSUME Nat \ T # {} PROVE FALSE
  OBVIOUS
<1>2. PICK x \in Nat \ T : \A y \in Nat \ T : <<y, x>> \notin OpToRel(<, Nat)
  BY <1>1, WFMin
<1>3. x - 1 \in Nat \ T
  <2>1. x # 0 /\ x - 1 \in Nat /\ (x - 1) + 1 = x
    OBVIOUS
  <2> QED
    BY <2>1
<1>4. <<x - 1, x>> \in OpToRel(<, Nat)
  BY <1>2, <1>3 DEF OpToRel
<1> QED
  BY <1>2, <1>3, <1>4

\* The same for a set of sequences that is closed under Append.
LEMMA InductionOnSeq ==
    ASSUME NEW S, NEW T \in SUBSET Seq(S),
           <<>> \in T, \A s \in T, e \in S : Append(s, e) \in T
    PROVE  T = Seq(S)
<1> DEFINE N == {n \in Nat : \A s \in Seq(S) : Len(s) = n => s \in T}
<1>1. 0 \in N
  BY EmptySeq
<1>2. ASSUME NEW n \in N
      PROVE  n + 1 \in N
  <2>1. ASSUME NEW s \in Seq(S), Len(s) = n + 1
        PROVE  s \in T
    <3> DEFINE front == SubSeq(s, 1, n)
    <3>1. n \in Nat /\ s[n + 1] \in S
      BY <2>1, ElementOfSeq
    <3>2. front \in Seq(S) /\ Len(front) = n /\ \A i \in 1 .. n : front[i] = s[i]
      BY <2>1, <3>1, SubSeqProperties, SMTT(30)
    <3>3. front \in T
      BY <3>1, <3>2
    <3>4. s = Append(front, s[n + 1])
      <4> DEFINE e == s[n + 1]
      <4>1. e \in S /\ n \in Nat /\ e = s[n + 1] /\ \A i \in 1 .. n + 1 : i \in 1 .. n \/ i = n + 1
        BY <3>1
      <4> HIDE DEF front, e
      <4>2. /\ Append(front, e) \in Seq(S)
            /\ Len(Append(front, e)) = n + 1
            /\ \A i \in 1 .. n : Append(front, e)[i] = front[i]
            /\ Append(front, e)[n + 1] = e
        <5>1. front \in Seq(S) /\ e \in S
          BY <3>2, <4>1
        <5>2. /\ Append(front, e) \in Seq(S)
              /\ Len(Append(front, e)) = Len(front) + 1
              /\ \A i \in 1 .. Len(front) : Append(front, e)[i] = front[i]
              /\ Append(front, e)[Len(front) + 1] = e
          BY ONLY <5>1, AppendProperties
        <5> QED
          BY <3>2, <5>2
      <4>3. \A i \in 1 .. n + 1 : Append(front, e)[i] = s[i]
        BY <3>2, <4>1, <4>2
      <4>4. s = Append(front, e)
        BY <2>1, <4>2, <4>3, SeqEqual
      <4> QED
        BY <4>1, <4>4
    <3> QED
      BY <3>1, <3>3, <3>4
  <2> QED
    BY <2>1
<1>3. N = Nat
  <2> HIDE DEF N
  <2>1. N \in SUBSET Nat
    BY DEF N
  <2> QED
    BY <1>1, <1>2, <2>1, InductionOnNat
<1> QED
  BY <1>3, LenProperties

\* What the recursive function of Only is.
OnlyStep(s, R, g, i) ==
    IF i = 0 THEN <<>> ELSE IF s[i] \in R THEN Append(g[i - 1], s[i]) ELSE g[i - 1]

\* g holds Only of the prefixes of s.
Selects(S, s, R, g) ==
    /\ g \in [0 .. Len(s) -> Seq(S)]
    /\ \A i \in 0 .. Len(s) : g[i] = OnlyStep(s, R, g, i)

\* There is such a function: the recursion of Only is well founded.
LEMMA OnlyExists ==
    ASSUME NEW S, NEW s \in Seq(S), NEW R
    PROVE  \E g : Selects(S, s, R, g)
<1> DEFINE Good(n) == \E g \in [0 .. n -> Seq(S)] : \A i \in 0 .. n : g[i] = OnlyStep(s, R, g, i)
           T == {n \in Nat : n <= Len(s) => Good(n)}
<1>1. Len(s) \in Nat
  BY LenProperties
<1>2. Good(0)
  <2> DEFINE g == [i \in 0 .. 0 |-> <<>>]
  <2>1. g \in [0 .. 0 -> Seq(S)] /\ \A i \in 0 .. 0 : g[i] = OnlyStep(s, R, g, i)
    BY EmptySeq DEF OnlyStep
  <2> QED
    BY <2>1
<1>3. ASSUME NEW n \in Nat, n + 1 <= Len(s), Good(n)
      PROVE  Good(n + 1)
  <2>2. PICK g \in [0 .. n -> Seq(S)] : \A i \in 0 .. n : g[i] = OnlyStep(s, R, g, i)
    BY <1>3
  <2> DEFINE h == [i \in 0 .. (n + 1) |-> IF i <= n THEN g[i] ELSE OnlyStep(s, R, g, i)]
  <2>3. OnlyStep(s, R, g, n + 1) \in Seq(S)
    <3>1. s[n + 1] \in S /\ g[n] \in Seq(S) /\ n + 1 - 1 = n /\ n + 1 # 0
      BY <1>1, <1>3, ElementOfSeq
    <3> QED
      BY <3>1, AppendProperties DEF OnlyStep
  <2>4. h \in [0 .. (n + 1) -> Seq(S)]
    <3>1. \A i \in 0 .. (n + 1) : i <= n \/ i = n + 1
      OBVIOUS
    <3> QED
      BY <2>3, <3>1
  <2>5. ASSUME NEW i \in 0 .. (n + 1)
        PROVE  h[i] = OnlyStep(s, R, h, i)
    <3>1. i # 0 => i - 1 \in 0 .. n /\ h[i - 1] = g[i - 1]
      OBVIOUS
    <3>2. OnlyStep(s, R, h, i) = OnlyStep(s, R, g, i)
      BY <3>1 DEF OnlyStep
    <3>3. i \notin 0 .. n => h[i] = OnlyStep(s, R, g, i)
      OBVIOUS
    <3>4. i \in 0 .. n => h[i] = g[i]
      OBVIOUS
    <3> QED
      BY <2>2, <3>2, <3>3, <3>4
  <2> QED
    BY <2>4, <2>5
<1> HIDE DEF Good
<1>4. T \in SUBSET Nat /\ 0 \in T
  BY <1>2
<1>5. \A n \in T : n + 1 \in T
  BY <1>1, <1>3
<1>6. T = Nat
  <2> HIDE DEF T
  <2> QED
    BY <1>4, <1>5, InductionOnNat
<1>7. Good(Len(s))
  BY <1>1, <1>6
<1> QED
  BY <1>7 DEF Good, Selects

\* There is one only, so Only is its value at the end.
LEMMA OnlyIs ==
    ASSUME NEW S, NEW s \in Seq(S), NEW R, NEW g, Selects(S, s, R, g)
    PROVE  Only(s, R) = g[Len(s)]
<1> DEFINE F(f) == [i \in 0 .. Len(s) |->
                       IF i = 0 THEN <<>>
                       ELSE IF s[i] \in R THEN Append(f[i - 1], s[i]) ELSE f[i - 1]]
           only == CHOOSE f : f = F(f)
           T    == {i \in Nat : i <= Len(s) => only[i] = g[i]}
<1>0. g \in [0 .. Len(s) -> Seq(S)] /\ \A i \in 0 .. Len(s) : g[i] = OnlyStep(s, R, g, i)
  BY DEF Selects
<1>1. g = F(g)
  BY <1>0 DEF OnlyStep
<1>2. only = F(only)
  <2> HIDE DEF F
  <2> QED
    BY <1>1
<1>3. \A i \in 0 .. Len(s) : only[i] = OnlyStep(s, R, only, i)
  <2> HIDE DEF only
  <2>1. \A i \in 0 .. Len(s) : F(only)[i] = OnlyStep(s, R, only, i)
    BY DEF OnlyStep
  <2> HIDE DEF F
  <2> QED
    BY <1>2, <2>1
<1>4. Len(s) \in Nat
  BY LenProperties
<1> HIDE DEF only
<1>5. T \in SUBSET Nat /\ 0 \in T
  BY <1>0, <1>3, <1>4 DEF OnlyStep
<1>6. ASSUME NEW i \in T
      PROVE  i + 1 \in T
  <2> SUFFICES ASSUME i + 1 <= Len(s) PROVE only[i + 1] = g[i + 1]
    OBVIOUS
  <2>1. i + 1 \in 0 .. Len(s) /\ i + 1 # 0 /\ (i + 1) - 1 = i /\ only[i] = g[i]
    BY <1>4
  <2>2. only[i + 1] = OnlyStep(s, R, only, i + 1) /\ g[i + 1] = OnlyStep(s, R, g, i + 1)
    BY <1>0, <1>3, <2>1
  <2>3. OnlyStep(s, R, only, i + 1) = OnlyStep(s, R, g, i + 1)
    BY <2>1 DEF OnlyStep
  <2> QED
    BY <2>2, <2>3
<1>7. T = Nat
  <2> HIDE DEF T
  <2> QED
    BY <1>5, <1>6, InductionOnNat
<1>8. Only(s, R) = only[Len(s)]
  BY DEF Only, only
<1> QED
  BY <1>4, <1>7, <1>8

\* Only of nothing, and of one element more.
LEMMA OnlyEmpty ==
    ASSUME NEW R
    PROVE  Only(<<>>, R) = <<>>
<1> DEFINE g == [i \in 0 .. 0 |-> <<>>]
<1>1. <<>> \in Seq({}) /\ Len(<<>>) = 0
  BY EmptySeq
<1>2. Selects({}, <<>>, R, g) /\ g[0] = <<>>
  BY <1>1 DEF Selects, OnlyStep
<1> HIDE DEF g
<1> QED
  BY <1>1, <1>2, OnlyIs, ZenonT(40)

\* An element at the end is selected last, or not at all.
LEMMA OnlyAppend ==
    ASSUME NEW S, NEW s \in Seq(S), NEW e \in S, NEW R
    PROVE  /\ Only(s, R) \in Seq(S)
           /\ e \in R => Only(Append(s, e), R) = Append(Only(s, R), e)
           /\ e \notin R => Only(Append(s, e), R) = Only(s, R)
<1> DEFINE n == Len(s)
           t == Append(s, e)
<1>1. n \in Nat /\ t \in Seq(S) /\ Len(t) = n + 1 /\ t[n + 1] = e /\ \A i \in 1 .. n : t[i] = s[i]
  BY LenProperties, AppendProperties
<1>2. PICK g : Selects(S, s, R, g)
  BY OnlyExists
<1>3. g \in [0 .. n -> Seq(S)] /\ \A i \in 0 .. n : g[i] = OnlyStep(s, R, g, i)
  BY <1>2 DEF Selects
<1>4. Only(s, R) = g[n]
  BY <1>2, OnlyIs
<1> DEFINE last == IF e \in R THEN Append(g[n], e) ELSE g[n]
           h == [i \in 0 .. n + 1 |-> IF i = n + 1 THEN last ELSE g[i]]
<1>5. g[n] \in Seq(S) /\ last \in Seq(S)
  BY <1>1, <1>3, AppendProperties
<1> HIDE DEF n, t, last
<1>6. /\ \A i \in 0 .. n + 1 : i = n + 1 \/ i \in 0 .. n
      /\ n \in 0 .. n + 1 /\ n # n + 1 /\ (n + 1) - 1 = n
  BY <1>1
<1>7. h \in [0 .. n + 1 -> Seq(S)]
  BY <1>3, <1>5, <1>6
<1>8. h[n + 1] = last /\ \A i \in 0 .. n : h[i] = g[i]
  BY <1>1
<1> HIDE DEF h
<1>9. ASSUME NEW i \in 0 .. n + 1
      PROVE  h[i] = OnlyStep(t, R, h, i)
  <2>1. CASE i = n + 1
    BY <1>1, <1>6, <1>8, <2>1 DEF OnlyStep, last
  <2>2. CASE i # n + 1
    <3>1. i \in 0 .. n /\ (i # 0 => i - 1 \in 0 .. n /\ i \in 1 .. n)
      BY <1>1, <2>2
    <3>2. h[i] = g[i] /\ (i # 0 => h[i - 1] = g[i - 1] /\ t[i] = s[i])
      BY <1>1, <1>8, <3>1
    <3>3. OnlyStep(t, R, h, i) = OnlyStep(s, R, g, i)
      BY <3>2 DEF OnlyStep
    <3> QED
      BY <1>3, <3>1, <3>2, <3>3
  <2> QED
    BY <2>1, <2>2
<1>10. Selects(S, t, R, h)
  BY <1>1, <1>7, <1>9 DEF Selects
<1>11. Only(t, R) = h[n + 1]
  BY <1>1, <1>10, OnlyIs
<1> QED
  BY <1>4, <1>5, <1>8, <1>11 DEF t, last

\* The smaller of two integers, as FiniteSetsExt defines it.
LEMMA MinOfTwo ==
    ASSUME NEW a \in Int, NEW b \in Int
    PROVE  /\ Min({a, b}) \in {a, b}
           /\ Min({a, b}) <= a
           /\ Min({a, b}) <= b
<1>1. \E x \in {a, b} : \A y \in {a, b} : x <= y
  OBVIOUS
<1> QED
  BY <1>1 DEF Min

\* Appending adds one element to the range, and keeps an injective sequence
\* injective when the element is new.
LEMMA RangeAppend ==
    ASSUME NEW S, NEW s \in Seq(S), NEW e \in S
    PROVE  /\ Range(Append(s, e)) = Range(s) \cup {e}
           /\ (IsInjective(s) /\ e \notin Range(s)) => IsInjective(Append(s, e))
<1>1. /\ Append(s, e) \in Seq(S)
      /\ Len(Append(s, e)) = Len(s) + 1
      /\ \A i \in 1 .. Len(s) : Append(s, e)[i] = s[i]
      /\ Append(s, e)[Len(s) + 1] = e
  BY AppendProperties
<1>2. /\ DOMAIN s = 1 .. Len(s)
      /\ DOMAIN Append(s, e) = 1 .. (Len(s) + 1)
      /\ Len(s) \in Nat
  BY <1>1, LenProperties
<1>3. Range(Append(s, e)) = Range(s) \cup {e}
  BY <1>1, <1>2 DEF Range
<1>4. (IsInjective(s) /\ e \notin Range(s)) => IsInjective(Append(s, e))
  BY <1>1, <1>2 DEF Range, IsInjective
<1> QED
  BY <1>3, <1>4

\* Taking the head of an injective sequence removes it from the range.
LEMMA RangeTail ==
    ASSUME NEW S, NEW s \in Seq(S), s # <<>>
    PROVE  /\ Head(s) \in Range(s)
           /\ Range(s) = Range(Tail(s)) \cup {Head(s)}
           /\ IsInjective(s) => /\ IsInjective(Tail(s))
                                /\ Head(s) \notin Range(Tail(s))
<1>1. /\ Tail(s) \in Seq(S)
      /\ Len(Tail(s)) = Len(s) - 1
      /\ \A i \in 1 .. Len(Tail(s)) : Tail(s)[i] = s[i + 1]
  BY HeadTailProperties
<1>2. /\ DOMAIN s = 1 .. Len(s)
      /\ DOMAIN Tail(s) = 1 .. Len(Tail(s))
      /\ Len(s) \in Nat \ {0}
  BY <1>1, LenProperties, EmptySeq
<1>3. Head(s) = s[1]
  OBVIOUS
<1>4. \A i \in 1 .. Len(s) : i = 1 \/ (i - 1 \in 1 .. Len(Tail(s)) /\ s[i] = Tail(s)[i - 1])
  BY <1>1, <1>2
<1>5. Head(s) \in Range(s)
  BY <1>2, <1>3 DEF Range
<1>6. Range(s) = Range(Tail(s)) \cup {Head(s)}
  <2>1. \A x \in Range(s) : x \in Range(Tail(s)) \cup {Head(s)}
    <3>1. TAKE x \in Range(s)
    <3>2. PICK i \in 1 .. Len(s) : s[i] = x
      BY <1>2 DEF Range
    <3>3. CASE i = 1
      BY <3>2, <3>3, <1>3
    <3>4. CASE i # 1
      <4>1. i - 1 \in DOMAIN Tail(s) /\ Tail(s)[i - 1] = x
        BY <3>2, <3>4, <1>4, <1>2
      <4> QED
        BY <4>1 DEF Range
    <3> QED
      BY <3>3, <3>4
  <2>2. Range(Tail(s)) \subseteq Range(s)
    BY <1>1, <1>2 DEF Range
  <2> QED
    BY <2>1, <2>2, <1>5
<1>7. ASSUME IsInjective(s)
      PROVE  IsInjective(Tail(s)) /\ Head(s) \notin Range(Tail(s))
  BY <1>1, <1>2, <1>3, <1>7 DEF Range, IsInjective
<1> QED
  BY <1>5, <1>6, <1>7

\* The two parts of a sequence cut after its first n.
LEMMA CutInTwo ==
    ASSUME NEW S, NEW s \in Seq(S), NEW n \in 0 .. Len(s)
    PROVE  LET front == SubSeq(s, 1, n)
               rest  == SubSeq(s, n + 1, Len(s))
           IN  /\ front \in Seq(S) /\ Len(front) = n
               /\ DOMAIN front = 1 .. n
               /\ \A i \in 1 .. n : front[i] = s[i]
               /\ rest \in Seq(S) /\ Len(rest) = Len(s) - n
               /\ DOMAIN rest = 1 .. Len(s) - n
               /\ \A i \in 1 .. Len(s) - n : rest[i] = s[n + i]
<1> DEFINE front == SubSeq(s, 1, n)
           rest  == SubSeq(s, n + 1, Len(s))
<1>1. Len(s) \in Nat /\ n \in Nat /\ n <= Len(s)
  BY LenProperties
<1>2. DOMAIN s = 1 .. Len(s) /\ \A i \in 1 .. Len(s) : s[i] \in S
  BY ElementOfSeq, LenProperties
<1>3. /\ front \in Seq(S) /\ Len(front) = n
      /\ DOMAIN front = 1 .. n
      /\ \A i \in 1 .. n : front[i] = s[i]
  <2>1. /\ front \in Seq(S)
        /\ Len(front) = IF 1 <= n THEN n - 1 + 1 ELSE 0
        /\ \A i \in 1 .. n - 1 + 1 : front[i] = s[1 + i - 1]
    BY <1>1, <1>2, SubSeqProperties
  <2> QED
    BY <2>1, <1>1, LenProperties
<1>4. /\ rest \in Seq(S) /\ Len(rest) = Len(s) - n
      /\ DOMAIN rest = 1 .. Len(s) - n
      /\ \A i \in 1 .. Len(s) - n : rest[i] = s[n + i]
  <2>1. /\ rest \in Seq(S)
        /\ Len(rest) = IF n + 1 <= Len(s) THEN Len(s) - (n + 1) + 1 ELSE 0
        /\ \A i \in 1 .. Len(s) - (n + 1) + 1 : rest[i] = s[n + 1 + i - 1]
    BY <1>1, <1>2, SubSeqProperties
  <2>2. Len(rest) = Len(s) - n /\ DOMAIN rest = 1 .. Len(s) - n
    BY <2>1, <1>1, LenProperties
  <2> QED
    BY <2>1, <2>2, <1>1
<1> QED
  BY <1>3, <1>4

\* Splitting an injective sequence in two splits its range in two.
LEMMA RangeSplit ==
    ASSUME NEW S, NEW s \in Seq(S), NEW n \in 0 .. Len(s)
    PROVE  LET front == SubSeq(s, 1, n)
               rest  == SubSeq(s, n + 1, Len(s))
           IN  /\ front \in Seq(S) /\ Len(front) = n
               /\ rest \in Seq(S)  /\ Len(rest) = Len(s) - n
               /\ Range(s) = Range(front) \cup Range(rest)
               /\ IsInjective(s) => /\ IsInjective(rest)
                                    /\ Range(front) \cap Range(rest) = {}
<1> DEFINE front == SubSeq(s, 1, n)
           rest  == SubSeq(s, n + 1, Len(s))
<1>1. Len(s) \in Nat /\ n \in Nat /\ n <= Len(s)
  BY LenProperties
<1>2. DOMAIN s = 1 .. Len(s) /\ \A i \in 1 .. Len(s) : s[i] \in S
  BY ElementOfSeq, LenProperties
<1>3. /\ front \in Seq(S) /\ Len(front) = n
      /\ DOMAIN front = 1 .. n
      /\ \A i \in 1 .. n : front[i] = s[i]
  BY CutInTwo
<1>4. /\ rest \in Seq(S) /\ Len(rest) = Len(s) - n
      /\ DOMAIN rest = 1 .. Len(s) - n
      /\ \A i \in 1 .. Len(s) - n : rest[i] = s[n + i]
  BY CutInTwo
<1> HIDE DEF front, rest
<1>5. \A x \in Range(s) : x \in Range(front) \cup Range(rest)
  <2>1. TAKE x \in Range(s)
  <2>2. PICK i \in 1 .. Len(s) : s[i] = x
    BY <1>2 DEF Range
  <2>3. CASE i <= n
    <3>1. i \in DOMAIN front /\ front[i] = x
      BY <2>2, <2>3, <1>1, <1>3
    <3> QED
      BY <3>1 DEF Range
  <2>4. CASE i > n
    <3>1. i - n \in DOMAIN rest /\ rest[i - n] = x
      BY <2>2, <2>4, <1>1, <1>4
    <3> QED
      BY <3>1 DEF Range
  <2> QED
    BY <2>3, <2>4, <1>1
<1>6. Range(front) \subseteq Range(s)
  BY <1>1, <1>2, <1>3 DEF Range
<1>7. Range(rest) \subseteq Range(s)
  <2>1. \A i \in DOMAIN rest : n + i \in DOMAIN s
    BY <1>1, <1>2, <1>4
  <2> QED
    BY <2>1, <1>4 DEF Range
<1>8. ASSUME IsInjective(s)
      PROVE  IsInjective(rest) /\ Range(front) \cap Range(rest) = {}
  <2>1. \A i \in DOMAIN front : i \in DOMAIN s
    BY <1>1, <1>2, <1>3
  <2>2. \A i \in DOMAIN rest : n + i \in DOMAIN s /\ n + i \notin DOMAIN front
    BY <1>1, <1>2, <1>3, <1>4
  <2>3. IsInjective(rest)
    <3>1. SUFFICES ASSUME NEW i \in DOMAIN rest, NEW j \in DOMAIN rest, i # j
                   PROVE  rest[i] # rest[j]
      BY DEF IsInjective
    <3>2. n + i \in DOMAIN s /\ n + j \in DOMAIN s /\ n + i # n + j
      BY <1>1, <1>4, <2>2, <3>1
    <3>3. rest[i] = s[n + i] /\ rest[j] = s[n + j]
      BY <1>4
    <3> QED
      BY <1>8, <3>2, <3>3 DEF IsInjective
  <2>4. \A i \in DOMAIN front, j \in DOMAIN rest : front[i] # rest[j]
    BY <1>3, <1>4, <1>8, <2>1, <2>2 DEF IsInjective
  <2> QED
    BY <2>3, <2>4 DEF Range
<1>9. /\ front \in Seq(S) /\ Len(front) = n
      /\ rest \in Seq(S) /\ Len(rest) = Len(s) - n
      /\ Range(s) = Range(front) \cup Range(rest)
      /\ IsInjective(s) => /\ IsInjective(rest)
                           /\ Range(front) \cap Range(rest) = {}
  BY <1>3, <1>4, <1>5, <1>6, <1>7, <1>8
<1> QED
  BY <1>9 DEF front, rest

\* A sequence has no more elements than positions.
LEMMA RangeCardinality ==
    ASSUME NEW S, NEW s \in Seq(S)
    PROVE  IsFiniteSet(Range(s)) /\ Cardinality(Range(s)) <= Len(s)
<1>1. Len(s) \in Nat /\ DOMAIN s = 1 .. Len(s)
  BY LenProperties
<1>2. IsFiniteSet(1 .. Len(s)) /\ Cardinality(1 .. Len(s)) = Len(s)
  BY <1>1, FS_Interval, SMTT(30)
<1>3. s \in Surjection(1 .. Len(s), Range(s))
  <2>1. s \in [1 .. Len(s) -> Range(s)]
    BY <1>1, LenProperties DEF Range
  <2>2. \A y \in Range(s) : \E i \in 1 .. Len(s) : s[i] = y
    BY <1>1 DEF Range
  <2> QED
    BY <2>1, <2>2 DEF Surjection
<1> QED
  BY <1>2, <1>3, FS_Surjection

\* It is a sequence over the same set.
LEMMA OnlyInSeq ==
    ASSUME NEW S, NEW s \in Seq(S), NEW R
    PROVE  Only(s, R) \in Seq(S)
<1>1. PICK g : Selects(S, s, R, g)
  BY OnlyExists
<1>2. Only(s, R) = g[Len(s)]
  BY <1>1, OnlyIs
<1>3. Len(s) \in Nat
  BY LenProperties
<1> QED
  BY <1>1, <1>2, <1>3 DEF Selects

\* What it keeps are the elements of s that are in R.
LEMMA OnlyRange ==
    ASSUME NEW S, NEW s \in Seq(S), NEW R
    PROVE  Range(Only(s, R)) = Range(s) \cap R
<1> DEFINE T == {q \in Seq(S) : Range(Only(q, R)) = Range(q) \cap R}
<1>1. <<>> \in T
  BY EmptySeq, OnlyEmpty DEF Range
<1>2. ASSUME NEW q \in T, NEW e \in S
      PROVE  Append(q, e) \in T
  <2>1. q \in Seq(S) /\ Append(q, e) \in Seq(S) /\ Range(Only(q, R)) = Range(q) \cap R
    BY AppendProperties
  <2>2. /\ Only(q, R) \in Seq(S)
        /\ e \in R => Only(Append(q, e), R) = Append(Only(q, R), e)
        /\ e \notin R => Only(Append(q, e), R) = Only(q, R)
    BY <2>1, OnlyAppend
  <2>3. /\ Range(Append(q, e)) = Range(q) \cup {e}
        /\ Range(Append(Only(q, R), e)) = Range(Only(q, R)) \cup {e}
    BY <2>1, <2>2, RangeAppend
  <2>4. Range(Only(Append(q, e), R)) = Range(Append(q, e)) \cap R
    BY <2>1, <2>2, <2>3
  <2> QED
    BY <2>1, <2>4
<1>3. T = Seq(S)
  <2> HIDE DEF T
  <2>1. T \in SUBSET Seq(S)
    BY DEF T
  <2> QED
    BY <1>1, <1>2, <2>1, InductionOnSeq
<1> QED
  BY <1>3

\* Two sets that agree on the elements of s keep the same of them.
LEMMA OnlySame ==
    ASSUME NEW S, NEW s \in Seq(S), NEW R, NEW Q, Range(s) \cap R = Range(s) \cap Q
    PROVE  Only(s, R) = Only(s, Q)
<1> DEFINE T == {q \in Seq(S) : Range(q) \cap R = Range(q) \cap Q => Only(q, R) = Only(q, Q)}
<1>1. <<>> \in T
  BY EmptySeq, OnlyEmpty
<1>2. ASSUME NEW q \in T, NEW e \in S
      PROVE  Append(q, e) \in T
  <2>1. q \in Seq(S) /\ Append(q, e) \in Seq(S)
    BY AppendProperties
  <2>2. Range(Append(q, e)) = Range(q) \cup {e}
    BY <2>1, RangeAppend
  <2>3. ASSUME Range(Append(q, e)) \cap R = Range(Append(q, e)) \cap Q
        PROVE  Only(Append(q, e), R) = Only(Append(q, e), Q)
    <3>1. Range(q) \cap R = Range(q) \cap Q /\ (e \in R <=> e \in Q)
      BY <2>2, <2>3
    <3>2. Only(q, R) = Only(q, Q)
      BY <3>1
    <3> HIDE DEF T
    <3>3. \A P : /\ e \in P => Only(Append(q, e), P) = Append(Only(q, P), e)
                 /\ e \notin P => Only(Append(q, e), P) = Only(q, P)
      <4>1. TAKE P
      <4>2. /\ Only(q, P) \in Seq(S)
            /\ e \in P => Only(Append(q, e), P) = Append(Only(q, P), e)
            /\ e \notin P => Only(Append(q, e), P) = Only(q, P)
        BY <2>1, OnlyAppend
      <4> QED
        BY <4>2
    <3> QED
      BY <3>1, <3>2, <3>3
  <2> QED
    BY <2>1, <2>3
<1>3. T = Seq(S)
  <2> HIDE DEF T
  <2>1. T \in SUBSET Seq(S)
    BY DEF T
  <2> QED
    BY <1>1, <1>2, <2>1, InductionOnSeq
<1> QED
  BY <1>3

\* Nothing is kept of a sequence without elements in R.
LEMMA OnlyNone ==
    ASSUME NEW S, NEW s \in Seq(S), NEW R, Range(s) \cap R = {}
    PROVE  Only(s, R) = <<>>
<1>1. Only(s, R) \in Seq(S) /\ Range(Only(s, R)) = {}
  BY OnlyInSeq, OnlyRange
<1>2. Len(Only(s, R)) = 0
  <2>1. Len(Only(s, R)) \in Nat /\ DOMAIN Only(s, R) = 1 .. Len(Only(s, R))
    BY <1>1, LenProperties
  <2>2. DOMAIN Only(s, R) = {}
    BY <1>1 DEF Range
  <2> QED
    BY <2>1, <2>2
<1> QED
  BY <1>1, <1>2, EmptySeq

\* What disjoint sets keep adds up.
LEMMA OnlyLen ==
    ASSUME NEW S, NEW s \in Seq(S), NEW R, NEW Q, R \cap Q = {}
    PROVE  Len(Only(s, R \cup Q)) = Len(Only(s, R)) + Len(Only(s, Q))
<1> DEFINE T == {q \in Seq(S) : Len(Only(q, R \cup Q)) = Len(Only(q, R)) + Len(Only(q, Q))}
<1>1. <<>> \in T
  BY EmptySeq, OnlyEmpty
<1>2. ASSUME NEW q \in T, NEW e \in S
      PROVE  Append(q, e) \in T
  <2>1. q \in Seq(S) /\ Append(q, e) \in Seq(S)
    BY AppendProperties
  <2>2. Len(Only(q, R \cup Q)) = Len(Only(q, R)) + Len(Only(q, Q))
    OBVIOUS
  <2> HIDE DEF T
  <2>3. \A P : /\ Len(Only(q, P)) \in Nat
               /\ e \in P => Len(Only(Append(q, e), P)) = Len(Only(q, P)) + 1
               /\ e \notin P => Len(Only(Append(q, e), P)) = Len(Only(q, P))
    <3>1. TAKE P
    <3>2. /\ Only(q, P) \in Seq(S)
          /\ e \in P => Only(Append(q, e), P) = Append(Only(q, P), e)
          /\ e \notin P => Only(Append(q, e), P) = Only(q, P)
      BY <2>1, OnlyAppend
    <3>3. Len(Only(q, P)) \in Nat /\ Len(Append(Only(q, P), e)) = Len(Only(q, P)) + 1
      BY <3>2, LenProperties, AppendProperties
    <3> QED
      BY <3>2, <3>3
  <2>4. Len(Only(q, R)) \in Nat /\ Len(Only(q, Q)) \in Nat
    BY <2>3
  <2>5. Len(Only(Append(q, e), R \cup Q)) = Len(Only(Append(q, e), R)) + Len(Only(Append(q, e), Q))
    <3>1. CASE e \in R
      <4>1. /\ Len(Only(Append(q, e), R \cup Q)) = Len(Only(q, R \cup Q)) + 1
            /\ Len(Only(Append(q, e), R)) = Len(Only(q, R)) + 1
            /\ Len(Only(Append(q, e), Q)) = Len(Only(q, Q))
        BY <2>3, <3>1
      <4> QED
        BY <2>2, <2>4, <4>1
    <3>2. CASE e \in Q
      <4>1. /\ Len(Only(Append(q, e), R \cup Q)) = Len(Only(q, R \cup Q)) + 1
            /\ Len(Only(Append(q, e), R)) = Len(Only(q, R))
            /\ Len(Only(Append(q, e), Q)) = Len(Only(q, Q)) + 1
        BY <2>3, <3>2
      <4> QED
        BY <2>2, <2>4, <4>1
    <3>3. CASE e \notin R \cup Q
      BY <2>2, <2>3, <3>3
    <3> QED
      BY <3>1, <3>2, <3>3
  <2> QED
    BY <2>1, <2>5 DEF T
<1>3. T = Seq(S)
  <2> HIDE DEF T
  <2>1. T \in SUBSET Seq(S)
    BY DEF T
  <2> QED
    BY <1>1, <1>2, <2>1, InductionOnSeq
<1> QED
  BY <1>3

\* A set that holds every element keeps the sequence.
LEMMA OnlyAll ==
    ASSUME NEW S, NEW s \in Seq(S), NEW R, Range(s) \subseteq R
    PROVE  Only(s, R) = s
<1> DEFINE T == {q \in Seq(S) : Range(q) \subseteq R => Only(q, R) = q}
<1>1. <<>> \in T
  BY EmptySeq, OnlyEmpty
<1>2. ASSUME NEW q \in T, NEW e \in S
      PROVE  Append(q, e) \in T
  <2>1. q \in Seq(S) /\ Append(q, e) \in Seq(S)
    BY AppendProperties
  <2>2. /\ Range(Append(q, e)) = Range(q) \cup {e}
        /\ e \in R => Only(Append(q, e), R) = Append(Only(q, R), e)
        /\ e \notin R => Only(Append(q, e), R) = Only(q, R)
    BY <2>1, RangeAppend, OnlyAppend
  <2> QED
    BY <2>1, <2>2
<1>3. T = Seq(S)
  <2> HIDE DEF T
  <2>1. T \in SUBSET Seq(S)
    BY DEF T
  <2> QED
    BY <1>1, <1>2, <2>1, InductionOnSeq
<1> QED
  BY <1>3

\* Two elements, one appended to the other.
LEMMA AppendPair ==
    ASSUME NEW S, NEW a \in S, NEW b \in S
    PROVE  Append(<<a>>, b) = <<a, b>>
<1> DEFINE t == <<a, b>>
           u == Append(<<a>>, b)
<1>1. <<a>> \in Seq(S)
  OBVIOUS
<1>2. t \in Seq(S) /\ Len(t) = 2 /\ t[1] = a /\ t[2] = b
  OBVIOUS
<1>3. u \in Seq(S)
  BY <1>1, AppendProperties
<1>4. Len(u) = 2 /\ u[1] = a /\ u[2] = b
  <2>1. Len(u) = 2
    OBVIOUS
  <2>2. u[1] = a
    OBVIOUS
  <2>3. u[2] = b
    OBVIOUS
  <2> QED
    BY <2>1, <2>2, <2>3
<1> HIDE DEF t, u
<1>5. \A i \in 1 .. 2 : u[i] = t[i]
  BY <1>2, <1>4
<1>6. u = t
  BY <1>2, <1>3, <1>4, <1>5, SeqEqual
<1> QED
  BY <1>6 DEF u, t

\* Of a pair whose second element alone is in R, that element.
LEMMA OnlySecond ==
    ASSUME NEW S, NEW a \in S, NEW b \in S, NEW R, a \notin R, b \in R
    PROVE  Only(<<a, b>>, R) = <<b>>
<1> DEFINE s == <<a>>
<1>1. s \in Seq(S) /\ DOMAIN s = 1 .. 1 /\ s[1] = a
  OBVIOUS
<1>2. Append(s, b) = <<a, b>>
  BY AppendPair
<1> HIDE DEF s
<1>3. Range(s) \cap R = {}
  BY <1>1 DEF Range
<1>4. Only(s, R) = <<>>
  BY <1>1, <1>3, OnlyNone
<1>5. /\ Only(s, R) \in Seq(S)
      /\ b \in R => Only(Append(s, b), R) = Append(Only(s, R), b)
      /\ b \notin R => Only(Append(s, b), R) = Only(s, R)
  BY <1>1, OnlyAppend
<1>6. Append(<<>>, b) = <<b>>
  OBVIOUS
<1> QED
  BY <1>2, <1>4, <1>5, <1>6

\* The bounded sequences of a type invariant are sequences within the bound, ...
LEMMA BoundedIsSeq ==
    ASSUME NEW S, NEW n \in Nat, NEW s \in SeqOf(S, n)
    PROVE  s \in Seq(S) /\ Len(s) \in Nat /\ Len(s) <= n
<1>1. PICK m \in 0 .. n : s \in [1 .. m -> S]
  BY DEF SeqOf
<1>2. m \in Nat /\ m <= n
  OBVIOUS
<1>3. s \in Seq(S)
  BY <1>1, <1>2, SeqDef
<1>4. Len(s) = m
  BY <1>1, <1>2, <1>3, SMTT(30)
<1> QED
  BY <1>2, <1>3, <1>4

\* ... and those are all of them.
LEMMA SeqIsBounded ==
    ASSUME NEW S, NEW n \in Nat, NEW s \in Seq(S), Len(s) <= n
    PROVE  s \in SeqOf(S, n)
<1>1. Len(s) \in Nat /\ s \in [1 .. Len(s) -> S]
  BY LenProperties
<1>2. Len(s) \in 0 .. n
  BY <1>1
<1> QED
  BY <1>1, <1>2 DEF SeqOf

\* What is left of a bounded queue when its head is taken.
LEMMA BoundedTail ==
    ASSUME NEW S, NEW n \in Nat, NEW s \in SeqOf(S, n), s # <<>>
    PROVE  Head(s) \in S /\ Tail(s) \in SeqOf(S, n)
<1>1. s \in Seq(S) /\ Len(s) \in Nat /\ Len(s) <= n
  BY BoundedIsSeq
<1>2. Head(s) \in S /\ Tail(s) \in Seq(S) /\ Len(Tail(s)) = Len(s) - 1
  BY <1>1, HeadTailProperties
<1>3. Len(Tail(s)) <= n
  BY <1>1, <1>2
<1> QED
  BY <1>2, <1>3, SeqIsBounded

\* A bounded queue that is not full, with one more.
LEMMA BoundedAppend ==
    ASSUME NEW S, NEW n \in Nat, NEW s \in SeqOf(S, n), NEW e \in S, Len(s) < n
    PROVE  Append(s, e) \in SeqOf(S, n)
<1>1. s \in Seq(S) /\ Len(s) \in Nat
  BY BoundedIsSeq
<1>2. Append(s, e) \in Seq(S) /\ Len(Append(s, e)) = Len(s) + 1
  BY <1>1, AppendProperties
<1>3. Len(Append(s, e)) <= n
  BY <1>1, <1>2
<1> QED
  BY <1>2, <1>3, SeqIsBounded

\* A queue is its head, before the rest.
LEMMA HeadAndTail ==
    ASSUME NEW S, NEW q \in Seq(S), q # <<>>
    PROVE  <<Head(q)>> \o Tail(q) = <<>> \o q
<1>1. Tail(q) \in Seq(S) /\ Head(q) \in S /\ Len(Tail(q)) = Len(q) - 1 /\ Len(q) \in Nat \ {0}
      /\ \A i \in 1 .. Len(Tail(q)) : Tail(q)[i] = q[i + 1]
  BY HeadTailProperties, EmptySeq
<1>2. <<Head(q)>> \in Seq(S) /\ Len(<<Head(q)>>) = 1 /\ <<Head(q)>>[1] = q[1]
  BY <1>1
<1>3. /\ <<Head(q)>> \o Tail(q) \in Seq(S)
      /\ Len(<<Head(q)>> \o Tail(q)) = 1 + (Len(q) - 1)
      /\ \A i \in 1 .. 1 + (Len(q) - 1) : (<<Head(q)>> \o Tail(q))[i] =
            IF i <= 1 THEN <<Head(q)>>[i] ELSE Tail(q)[i - 1]
  BY <1>1, <1>2, ConcatProperties
<1>4. \A i \in 1 .. Len(q) : (<<Head(q)>> \o Tail(q))[i] = q[i]
  BY <1>1, <1>2, <1>3
<1>5. Len(<<Head(q)>> \o Tail(q)) = Len(q)
  BY <1>1, <1>3
<1>6. <<Head(q)>> \o Tail(q) = q
  BY <1>3, <1>4, <1>5, SeqEqual
<1> QED
  BY <1>6, ConcatEmptySeq

\* An element of its own goes to the end of the queue before it.
LEMMA PutAtEnd ==
    ASSUME NEW S, NEW h \in Seq(S), NEW q \in Seq(S), NEW e \in S
    PROVE  (h \o Append(q, e)) \o <<>> = (h \o q) \o <<e>>
<1>1. Append(q, e) \in Seq(S) /\ Append(q, e) = q \o <<e>> /\ <<e>> \in Seq(S)
  BY AppendProperties, AppendIsConcat
<1>2. h \o Append(q, e) \in Seq(S)
  BY <1>1, ConcatProperties
<1>3. (h \o Append(q, e)) \o <<>> = h \o Append(q, e)
  BY <1>2, ConcatEmptySeq
<1>4. h \o (q \o <<e>>) = (h \o q) \o <<e>>
  BY <1>1, ConcatAssociative
<1> QED
  BY <1>1, <1>3, <1>4

\* An element at the head of what follows is appended to what comes before.
LEMMA HeadJoinsFront ==
    ASSUME NEW S, NEW a \in Seq(S), NEW q \in Seq(S), NEW f \in Seq(S), NEW e \in S
    PROVE  Append(a, e) \o ((<<>> \o q) \o f) = a \o ((<<e>> \o q) \o f)
<1>1. <<e>> \in Seq(S) /\ q \o f \in Seq(S)
  BY ConcatProperties
<1>2. <<>> \o q = q
  BY ConcatEmptySeq
<1>3. Append(a, e) = a \o <<e>> /\ (<<e>> \o q) \o f = <<e>> \o (q \o f)
  <2>1. Append(a, e) = a \o <<e>>
    BY AppendIsConcat
  <2>2. (<<e>> \o q) \o f = <<e>> \o (q \o f)
    BY <1>1, ConcatAssociative
  <2> QED
    BY <2>1, <2>2
<1>4. (a \o <<e>>) \o (q \o f) = a \o (<<e>> \o (q \o f))
  BY <1>1, ConcatAssociative
<1> QED
  BY <1>2, <1>3, <1>4

\* An element put after the rest is the last of all.
LEMMA EndIsAppended ==
    ASSUME NEW S, NEW a \in Seq(S), NEW p \in Seq(S), NEW e \in S
    PROVE  a \o (p \o <<e>>) = Append(a \o (p \o <<>>), e)
<1>1. <<e>> \in Seq(S) /\ a \o p \in Seq(S) /\ p \o <<>> = p
  BY ConcatProperties, ConcatEmptySeq
<1>2. a \o (p \o <<e>>) = (a \o p) \o <<e>>
  BY <1>1, ConcatAssociative
<1>3. Append(a \o p, e) = (a \o p) \o <<e>>
  BY <1>1, AppendIsConcat
<1> QED
  BY <1>1, <1>2, <1>3

\* The element after the first ones of a sequence is the next of it.
LEMMA NextOfPrefix ==
    ASSUME NEW S, NEW a \in Seq(S), NEW e \in S, NEW u \in Seq(S), NEW s,
           Append(a, e) \o u = s
    PROVE  Len(a) < Len(s) /\ e = s[Len(a) + 1]
<1>1. /\ Append(a, e) \in Seq(S) /\ Len(Append(a, e)) = Len(a) + 1
      /\ Append(a, e)[Len(a) + 1] = e
  BY AppendProperties
<1>2. Len(a) \in Nat /\ Len(u) \in Nat
  BY LenProperties
<1> DEFINE b == Append(a, e)
<1> HIDE DEF b
<1>3. /\ Len(b \o u) = Len(b) + Len(u)
      /\ \A i \in 1 .. Len(b) + Len(u) : (b \o u)[i] = IF i <= Len(b) THEN b[i] ELSE u[i - Len(b)]
  BY <1>1, ConcatProperties DEF b
<1>4. Len(b) = Len(a) + 1 /\ b[Len(a) + 1] = e /\ b \o u = s
  BY <1>1 DEF b
<1> QED
  BY <1>2, <1>3, <1>4

\* A sequence is a prefix of any that continues it.
LEMMA PrefixOfConcat ==
    ASSUME NEW S, NEW s \in Seq(S), NEW t \in Seq(S)
    PROVE  IsPrefix(s, s \o t)
<1>1. /\ s \o t \in Seq(S) /\ Len(s \o t) = Len(s) + Len(t)
      /\ Len(s) \in Nat /\ Len(t) \in Nat
      /\ \A i \in 1 .. Len(s) : (s \o t)[i] = s[i]
  BY ConcatProperties, LenProperties
<1>2. /\ SubSeq(s, 1, Len(s)) \in Seq(S) /\ SubSeq(s \o t, 1, Len(s)) \in Seq(S)
      /\ Len(SubSeq(s, 1, Len(s))) = Len(s) /\ Len(SubSeq(s \o t, 1, Len(s))) = Len(s)
      /\ \A i \in 1 .. Len(s) : SubSeq(s, 1, Len(s))[i] = s[i]
      /\ \A i \in 1 .. Len(s) : SubSeq(s \o t, 1, Len(s))[i] = s[i]
  <2>1. \A i \in 1 .. Len(s) : s[i] \in S /\ (s \o t)[i] \in S
    BY <1>1, ElementOfSeq
  <2> QED
    BY <1>1, <2>1, SubSeqProperties
<1>3. SubSeq(s, 1, Len(s)) = SubSeq(s \o t, 1, Len(s))
  BY <1>2, SeqEqual
<1> QED
  BY <1>1, <1>3 DEF IsPrefix

\* An element at the end of the second of two sequences in a row is at the end of the whole.
LEMMA ConcatAppend ==
    ASSUME NEW S, NEW s \in Seq(S), NEW u \in Seq(S), NEW e \in S
    PROVE  s \o Append(u, e) = Append(s \o u, e)
<1>1. <<e>> \in Seq(S)
  OBVIOUS
<1>2. s \o u \in Seq(S)
  BY ConcatProperties
<1>3. Append(u, e) = u \o <<e>>
  BY AppendIsConcat
<1>4. Append(s \o u, e) = (s \o u) \o <<e>>
  BY <1>2, AppendIsConcat
<1>5. (s \o u) \o <<e>> = s \o (u \o <<e>>)
  BY <1>1, ConcatAssociative
<1> QED
  BY <1>3, <1>4, <1>5

\* What is selected of two sequences in a row.
LEMMA OnlyConcat ==
    ASSUME NEW S, NEW s \in Seq(S), NEW u \in Seq(S), NEW R
    PROVE  Only(s \o u, R) = Only(s, R) \o Only(u, R)
<1>1. ASSUME NEW v \in Seq(S), NEW e \in S
      PROVE  /\ e \in R => Only(Append(v, e), R) = Append(Only(v, R), e)
             /\ e \notin R => Only(Append(v, e), R) = Only(v, R)
  <2>1. CASE e \in R
    BY <2>1, OnlyAppend
  <2>2. CASE e \notin R
    BY <2>2, OnlyAppend
  <2> QED
    BY <2>1, <2>2
<1> DEFINE T == {q \in Seq(S) : Only(s \o q, R) = Only(s, R) \o Only(q, R)}
<1>2. Only(s, R) \in Seq(S)
  BY OnlyInSeq
<1>3. <<>> \in T
  <2>1. <<>> \in Seq(S) /\ s \o <<>> = s /\ Only(s, R) \o <<>> = Only(s, R)
    BY <1>2, EmptySeq, ConcatEmptySeq
  <2> QED
    BY <2>1, OnlyEmpty
<1>4. ASSUME NEW q \in T, NEW e \in S
      PROVE  Append(q, e) \in T
  <2>1. /\ q \in Seq(S) /\ Append(q, e) \in Seq(S) /\ <<e>> \in Seq(S) /\ s \o q \in Seq(S)
        /\ Only(q, R) \in Seq(S) /\ Only(s \o q, R) = Only(s, R) \o Only(q, R)
    <3>1. q \in Seq(S) /\ Only(s \o q, R) = Only(s, R) \o Only(q, R)
      OBVIOUS
    <3>2. Append(q, e) \in Seq(S)
      BY <3>1, AppendProperties
    <3>3. s \o q \in Seq(S)
      BY <3>1, ConcatProperties
    <3>4. Only(q, R) \in Seq(S)
      BY <3>1, OnlyInSeq
    <3>5. <<e>> \in Seq(S)
      OBVIOUS
    <3> HIDE DEF T
    <3> QED
      BY <3>1, <3>2, <3>3, <3>4, <3>5
  <2> HIDE DEF T
  <2>2. s \o Append(q, e) = Append(s \o q, e)
    BY <2>1, ConcatAppend, SMTT(30)
  <2>3. Only(s, R) \o Append(Only(q, R), e) = Append(Only(s, R) \o Only(q, R), e)
    <3> DEFINE a == Only(s, R)
               b == Only(q, R)
    <3>1. a \in Seq(S) /\ b \in Seq(S)
      BY <1>2, <2>1
    <3> HIDE DEF a, b
    <3>2. a \o Append(b, e) = Append(a \o b, e)
      BY <3>1, ConcatAppend
    <3> QED
      BY <3>2 DEF a, b
  <2>4. /\ e \in R => Only(Append(q, e), R) = Append(Only(q, R), e)
        /\ e \notin R => Only(Append(q, e), R) = Only(q, R)
    BY <2>1, <1>1
  <2>5. /\ e \in R => Only(Append(s \o q, e), R) = Append(Only(s \o q, R), e)
        /\ e \notin R => Only(Append(s \o q, e), R) = Only(s \o q, R)
    BY <2>1, <1>1
  <2>6. Only(s \o Append(q, e), R) = Only(s, R) \o Only(Append(q, e), R)
    BY <2>1, <2>2, <2>3, <2>4, <2>5
  <2> QED
    BY <2>1, <2>6 DEF T
<1>5. T = Seq(S)
  <2> HIDE DEF T
  <2>1. T \in SUBSET Seq(S)
    BY DEF T
  <2> QED
    BY <1>3, <1>4, <2>1, InductionOnSeq
<1> QED
  BY <1>5

\* The empty set as a sequence.
LEMMA SetToSeqEmpty == SetToSeq({}) = <<>>
<1>1. Cardinality({}) = 0 /\ 1 .. 0 = {}
  BY FS_EmptySet
<1>2. /\ <<>> \in [1 .. 0 -> {}] /\ IsInjective(<<>>)
      /\ \A f \in [1 .. 0 -> {}] : f = <<>>
  BY <1>1 DEF IsInjective
<1> QED
  BY <1>1, <1>2 DEF SetToSeq

\* A set of one element as a sequence.
LEMMA SetToSeqOne ==
    ASSUME NEW e
    PROVE  SetToSeq({e}) = <<e>>
<1>1. Cardinality({e}) = 1
  BY FS_Singleton
<1>2. /\ <<e>> \in [1 .. 1 -> {e}] /\ IsInjective(<<e>>)
      /\ \A f \in [1 .. 1 -> {e}] : f = <<e>>
  <2>1. <<e>> = [i \in 1 .. 1 |-> e]
    OBVIOUS
  <2> QED
    BY <2>1 DEF IsInjective
<1> QED
  BY <1>1, <1>2 DEF SetToSeq

=============================================================================
