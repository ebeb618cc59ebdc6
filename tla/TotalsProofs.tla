----------------------------- MODULE TotalsProofs ------------------------------
(***************************************************************************)
(* What the total of a sequence is, by induction over its length.          *)
(***************************************************************************)
EXTENDS Totals, SequencesExt, SequenceTheorems, FiniteSetTheorems, WellFoundedInduction, TLAPS

(* Induction, about a set of numbers instead of a predicate.                *)
LEMMA Induction ==
  ASSUME NEW T, 0 \in T, \A n \in Nat : n \in T => n + 1 \in T
  PROVE  \A n \in Nat : n \in T
<1> DEFINE R == {x \in Nat \X Nat : x[1] < x[2]}
           U == Nat \ T
<1>1. IsWellFoundedOn(R, Nat)
  <2>1. R = OpToRel(<, Nat)
    BY DEF OpToRel
  <2> QED BY <2>1, NatLessThanWellFounded
<1>2. SUFFICES ASSUME U # {} PROVE FALSE
  OBVIOUS
<1>3. PICK x \in U : \A y \in U : ~ (<<y, x>> \in R)
  <2>1. U \subseteq Nat
    OBVIOUS
  <2> HIDE DEF U, R
  <2> QED BY <1>1, <1>2, <2>1, WFMin
<1>4. x - 1 \in Nat /\ x - 1 \notin T
  <2>1. x # 0 /\ x \in Nat
    OBVIOUS
  <2>2. x - 1 \in Nat /\ (x - 1) + 1 = x
    BY <2>1
  <2> QED BY <2>2
<1>5. <<x - 1, x>> \in R
  BY <1>4
<1> QED BY <1>3, <1>4, <1>5

(* The totals of the beginnings of a sequence.                              *)
IsTotals(t, s) ==
  t \in [0..Len(s) -> Nat] /\ t[0] = 0 /\ \A i \in 1..Len(s) : t[i] = t[i - 1] + s[i]

LEMMA TotalsExist ==
  ASSUME NEW s \in Seq(Nat)
  PROVE  \E t : IsTotals(t, s) /\ Total(s) = t[Len(s)]
<1> DEFINE Step(g, n) == [i \in 0..n |-> IF i = 0 THEN 0 ELSE g[i - 1] + s[i]]
           P(n) == n <= Len(s) => \E g \in [0..n -> Nat] : g = Step(g, n)
           T == {n \in Nat : P(n)}
<1>1. Len(s) \in Nat /\ \A i \in 1..Len(s) : s[i] \in Nat
  BY LenProperties, ElementOfSeq
<1>2. P(0)
  <2> DEFINE g == [i \in 0..0 |-> 0]
  <2>1. g \in [0..0 -> Nat] /\ \A i \in 0..0 : i = 0 /\ g[i] = 0
    OBVIOUS
  <2> HIDE DEF g
  <2>2. Step(g, 0) = [i \in 0..0 |-> 0]
    BY <2>1
  <2>3. g = Step(g, 0)
    BY <2>2 DEF g
  <2> QED BY <2>1, <2>3
<1>3. ASSUME NEW n \in Nat, P(n) PROVE P(n + 1)
  <2> SUFFICES ASSUME n + 1 <= Len(s)
               PROVE  \E g \in [0..(n + 1) -> Nat] : g = Step(g, n + 1)
    OBVIOUS
  <2>0. n <= Len(s)
    BY <1>1
  <2>1. PICK g \in [0..n -> Nat] : g = Step(g, n)
    BY <1>3, <2>0
  <2>2. /\ n + 1 \in 1..Len(s) /\ \A i \in 0..(n + 1) : i \in 0..n \/ i = n + 1
        /\ s[n + 1] \in Nat
    BY <1>1
  <2> DEFINE h == [i \in 0..(n + 1) |-> IF i = n + 1 THEN g[n] + s[n + 1] ELSE g[i]]
  <2>3. h \in [0..(n + 1) -> Nat]
    BY SMTT(30), <2>1, <2>2
  <2>4. \A i \in 0..(n + 1) : h[i] = IF i = 0 THEN 0 ELSE h[i - 1] + s[i]
    <3> SUFFICES ASSUME NEW i \in 0..(n + 1)
                 PROVE  h[i] = IF i = 0 THEN 0 ELSE h[i - 1] + s[i]
      OBVIOUS
    <3>1. CASE i = n + 1
      <4>1. h[i] = g[n] + s[i] /\ i - 1 = n /\ i # 0 /\ h[n] = g[n]
        BY <3>1
      <4> QED BY <4>1
    <3>2. CASE i # n + 1
      <4>1. i \in 0..n /\ h[i] = g[i]
        BY <2>2, <3>2
      <4>2. g[i] = IF i = 0 THEN 0 ELSE g[i - 1] + s[i]
        BY <2>1, <4>1
      <4>3. i # 0 => i - 1 \in 0..n /\ h[i - 1] = g[i - 1]
        BY <4>1
      <4> QED BY <4>1, <4>2, <4>3
    <3> QED BY <3>1, <3>2
  <2>5. h = Step(h, n + 1)
    BY <2>3, <2>4
  <2> QED BY <2>3, <2>5
<1>4. P(Len(s))
  <2> HIDE DEF P
  <2>1. 0 \in T /\ \A n \in Nat : n \in T => n + 1 \in T
    BY <1>2, <1>3
  <2> HIDE DEF T
  <2>2. Len(s) \in T
    BY <1>1, <2>1, Induction
  <2> QED BY <2>2 DEF T
<1>5. \E g : g = Step(g, Len(s))
  BY <1>1, <1>4
<1> DEFINE t == CHOOSE g : g = Step(g, Len(s))
<1>6. t = Step(t, Len(s))
  BY <1>5
<1>7. Total(s) = t[Len(s)]
  BY DEF Total
<1> HIDE DEF t
<1>8. /\ t[0] = 0 /\ \A i \in 1..Len(s) : t[i] = t[i - 1] + s[i]
      /\ t = [i \in 0..Len(s) |-> t[i]]
  <2>1. \A i \in 0..Len(s) : t[i] = IF i = 0 THEN 0 ELSE t[i - 1] + s[i]
    BY <1>6
  <2> QED BY <1>1, <1>6, <2>1
<1>9. \A i \in 0..Len(s) : t[i] \in Nat
  <2> DEFINE P1(n) == n <= Len(s) => t[n] \in Nat
             N == {n \in Nat : P1(n)}
  <2>1. P1(0)
    BY <1>8
  <2>2. ASSUME NEW n \in Nat, P1(n) PROVE P1(n + 1)
    <3> SUFFICES ASSUME n + 1 <= Len(s) PROVE t[n + 1] \in Nat
      OBVIOUS
    <3>1. t[n] \in Nat /\ n + 1 \in 1..Len(s) /\ (n + 1) - 1 = n
      BY <1>1, <2>2
    <3>2. t[n + 1] = t[n] + s[n + 1] /\ s[n + 1] \in Nat
      BY <1>1, <1>8, <3>1
    <3> QED BY <3>1, <3>2
  <2> HIDE DEF P1
  <2>3. 0 \in N /\ \A n \in Nat : n \in N => n + 1 \in N
    BY <2>1, <2>2
  <2> HIDE DEF N
  <2>4. \A n \in Nat : n \in N
    BY <2>3, Induction
  <2> QED BY <1>1, <2>4 DEF N, P1
<1>10. IsTotals(t, s)
  BY <1>8, <1>9 DEF IsTotals
<1> QED BY <1>7, <1>10

(* Two ways to add up the same numbers.                                     *)
Alike(t, u, n, k) ==
  /\ \A i \in 0..n : t[i] \in Nat /\ u[i + k] \in Nat
  /\ \A i \in 1..n : t[i] - t[i - 1] = u[i + k] - u[i + k - 1]

LEMMA SameSteps ==
  ASSUME NEW n \in Nat, NEW k \in Nat, NEW t, NEW u, Alike(t, u, n, k)
  PROVE  t[n] - t[0] = u[n + k] - u[k]
<1> USE DEF Alike
<1> DEFINE T == {m \in Nat : m <= n => t[m] - t[0] = u[m + k] - u[k]}
<1>1. 0 \in T
  <2>1. t[0] \in Nat /\ u[0 + k] \in Nat /\ 0 + k = k
    OBVIOUS
  <2> QED BY <2>1
<1>2. ASSUME NEW m \in Nat, m \in T PROVE m + 1 \in T
  <2> SUFFICES ASSUME m + 1 <= n PROVE t[m + 1] - t[0] = u[m + 1 + k] - u[k]
    OBVIOUS
  <2>1. m + 1 \in 1..n /\ m \in 0..n /\ m + 1 \in 0..n /\ 0 \in 0..n /\ (m + 1) - 1 = m
        /\ (m + 1) + k - 1 = m + k /\ 0 + k = k /\ m + 1 + k = (m + 1) + k
    OBVIOUS
  <2>2. t[m] - t[0] = u[m + k] - u[k]
    BY <1>2, <2>1
  <2>3. t[m + 1] - t[m] = u[(m + 1) + k] - u[m + k]
    BY <2>1
  <2>4. /\ t[0] \in Nat /\ t[m] \in Nat /\ t[m + 1] \in Nat
        /\ u[k] \in Nat /\ u[m + k] \in Nat /\ u[(m + 1) + k] \in Nat
    BY <2>1
  <2> QED BY <2>1, <2>2, <2>3, <2>4
<1> HIDE DEF T
<1>3. n \in T
  BY <1>1, <1>2, Induction
<1> QED BY <1>3 DEF T

LEMMA TotalOfConcat ==
  ASSUME NEW s \in Seq(Nat), NEW r \in Seq(Nat)
  PROVE  Total(s \o r) = Total(s) + Total(r)
<1> DEFINE q == s \o r
<1>1. /\ q \in Seq(Nat) /\ Len(q) = Len(s) + Len(r) /\ Len(s) \in Nat /\ Len(r) \in Nat
      /\ \A i \in 1..Len(s) : q[i] = s[i]
      /\ \A i \in 1..Len(r) : q[i + Len(s)] = r[i]
  <2>1. /\ q \in Seq(Nat) /\ Len(q) = Len(s) + Len(r) /\ Len(s) \in Nat /\ Len(r) \in Nat
        /\ \A i \in 1..(Len(s) + Len(r)) : q[i] = IF i <= Len(s) THEN s[i] ELSE r[i - Len(s)]
    BY ConcatProperties, LenProperties
  <2> HIDE DEF q
  <2>2. \A i \in 1..Len(s) : q[i] = s[i]
    BY <2>1
  <2>3. \A i \in 1..Len(r) : q[i + Len(s)] = r[i]
    <3> TAKE i \in 1..Len(r)
    <3>1. /\ i + Len(s) \in 1..(Len(s) + Len(r)) /\ ~(i + Len(s) <= Len(s))
          /\ (i + Len(s)) - Len(s) = i
      BY <2>1
    <3> QED BY <2>1, <3>1
  <2> QED BY <2>1, <2>2, <2>3
<1> HIDE DEF q
<1>2. PICK t : IsTotals(t, s) /\ Total(s) = t[Len(s)]
  BY TotalsExist
<1>3. PICK v : IsTotals(v, r) /\ Total(r) = v[Len(r)]
  BY TotalsExist
<1>4. PICK u : IsTotals(u, q) /\ Total(q) = u[Len(q)]
  BY <1>1, TotalsExist
<1>5. t[Len(s)] - t[0] = u[Len(s) + 0] - u[0]
  <2>1. \A i \in 0..Len(s) : t[i] \in Nat /\ u[i + 0] \in Nat
    BY SMTT(30), <1>1, <1>2, <1>4 DEF IsTotals
  <2>2. \A i \in 1..Len(s) : t[i] - t[i - 1] = u[i + 0] - u[i + 0 - 1]
    <3> TAKE i \in 1..Len(s)
    <3>1. t[i] = t[i - 1] + s[i] /\ u[i] = u[i - 1] + q[i] /\ q[i] = s[i]
      BY <1>1, <1>2, <1>4 DEF IsTotals
    <3>2. t[i - 1] \in Nat /\ u[i - 1] \in Nat /\ s[i] \in Nat
      <4>1. i - 1 \in 0..Len(s) /\ i - 1 \in 0..Len(q)
        BY <1>1
      <4>2. t[i - 1] \in Nat /\ u[i - 1] \in Nat
        BY <1>2, <1>4, <4>1 DEF IsTotals
      <4> QED BY <4>2, ElementOfSeq
    <3>3. i + 0 = i /\ i + 0 - 1 = i - 1
      BY <1>1
    <3> QED BY <3>1, <3>2, <3>3
  <2>3. Alike(t, u, Len(s), 0)
    BY <2>1, <2>2 DEF Alike
  <2> QED BY <1>1, <2>3, SameSteps
<1>6. v[Len(r)] - v[0] = u[Len(r) + Len(s)] - u[Len(s)]
  <2>1. \A i \in 0..Len(r) : v[i] \in Nat /\ u[i + Len(s)] \in Nat
    <3> TAKE i \in 0..Len(r)
    <3>1. i + Len(s) \in 0..Len(q)
      BY <1>1
    <3> QED BY <1>3, <1>4, <3>1 DEF IsTotals
  <2>2. \A i \in 1..Len(r) : v[i] - v[i - 1] = u[i + Len(s)] - u[i + Len(s) - 1]
    <3> TAKE i \in 1..Len(r)
    <3>1. /\ i + Len(s) \in 1..Len(q) /\ i - 1 \in 0..Len(r) /\ i + Len(s) - 1 \in 0..Len(q)
      BY SMTT(30), <1>1
    <3>2. /\ v[i] = v[i - 1] + r[i] /\ u[i + Len(s)] = u[i + Len(s) - 1] + q[i + Len(s)]
          /\ q[i + Len(s)] = r[i]
      <4>1. v[i] = v[i - 1] + r[i]
        BY <1>3 DEF IsTotals
      <4>2. u[i + Len(s)] = u[i + Len(s) - 1] + q[i + Len(s)]
        BY <1>4, <3>1 DEF IsTotals
      <4> QED BY <1>1, <4>1, <4>2
    <3>3. v[i - 1] \in Nat /\ u[i + Len(s) - 1] \in Nat
      BY <1>3, <1>4, <3>1 DEF IsTotals
    <3>4. r[i] \in Nat
      BY ElementOfSeq
    <3> QED BY SMTT(30), <3>2, <3>3, <3>4
  <2>3. Alike(v, u, Len(r), Len(s))
    BY <2>1, <2>2 DEF Alike
  <2> QED BY <1>1, <2>3, SameSteps
<1>7. /\ t[0] = 0 /\ u[0] = 0 /\ v[0] = 0 /\ t[Len(s)] \in Nat /\ v[Len(r)] \in Nat
      /\ u[Len(q)] \in Nat /\ u[Len(s)] \in Nat
  <2>1. Len(s) \in 0..Len(s) /\ Len(r) \in 0..Len(r) /\ Len(q) \in 0..Len(q) /\ Len(s) \in 0..Len(q)
    BY <1>1
  <2>2. t[0] = 0 /\ t[Len(s)] \in Nat
    BY <1>2, <2>1 DEF IsTotals
  <2>3. v[0] = 0 /\ v[Len(r)] \in Nat
    BY <1>3, <2>1 DEF IsTotals
  <2>4. u[0] = 0 /\ u[Len(q)] \in Nat /\ u[Len(s)] \in Nat
    BY <1>4, <2>1 DEF IsTotals
  <2> QED BY <2>2, <2>3, <2>4
<1>8. Len(s) + 0 = Len(s) /\ Len(r) + Len(s) = Len(q)
  BY <1>1
<1> QED BY <1>2, <1>3, <1>4, <1>5, <1>6, <1>7, <1>8 DEF q

LEMMA TotalOfEmpty == Total(<<>>) = 0
<1>1. <<>> \in Seq(Nat) /\ Len(<<>>) = 0
  BY EmptySeq
<1>2. PICK t : IsTotals(t, <<>>) /\ Total(<<>>) = t[Len(<<>>)]
  BY <1>1, TotalsExist
<1> QED BY <1>1, <1>2 DEF IsTotals

LEMMA TotalIsNat ==
  ASSUME NEW s \in Seq(Nat)
  PROVE  Total(s) \in Nat
<1>1. PICK t : IsTotals(t, s) /\ Total(s) = t[Len(s)]
  BY TotalsExist
<1>2. Len(s) \in 0..Len(s)
  BY LenProperties
<1> QED BY <1>1, <1>2 DEF IsTotals

LEMMA TotalOfOne ==
  ASSUME NEW n \in Nat
  PROVE  Total(<<n>>) = n
<1>1. <<n>> \in Seq(Nat) /\ Len(<<n>>) = 1 /\ <<n>>[1] = n
  OBVIOUS
<1> HIDE DEF Total
<1>2. PICK t : IsTotals(t, <<n>>) /\ Total(<<n>>) = t[Len(<<n>>)]
  BY <1>1, TotalsExist
<1>3. t[1] = t[0] + n /\ t[0] = 0
  <2>1. 1 \in 1..Len(<<n>>) /\ 1 - 1 = 0
    BY <1>1
  <2> QED BY <1>1, <1>2, <2>1 DEF IsTotals
<1> QED BY <1>1, <1>2, <1>3

(* What is in a sequence made of two.                                       *)
LEMMA ConcatElements ==
  ASSUME NEW S, NEW c \in Seq(S), NEW d \in Seq(S)
  PROVE  /\ c \o d \in Seq(S) /\ Len(c \o d) = Len(c) + Len(d) /\ Len(c) \in Nat /\ Len(d) \in Nat
         /\ \A i \in 1..Len(c) : (c \o d)[i] = c[i]
         /\ \A i \in 1..Len(d) : (c \o d)[Len(c) + i] = d[i]
         /\ \A i \in 1..Len(c \o d) :
              i \in 1..Len(c) \/ \E j \in 1..Len(d) : i = Len(c) + j
<1>1. /\ c \o d \in Seq(S) /\ Len(c \o d) = Len(c) + Len(d) /\ Len(c) \in Nat /\ Len(d) \in Nat
      /\ \A i \in 1..(Len(c) + Len(d)) : (c \o d)[i] = IF i <= Len(c) THEN c[i] ELSE d[i - Len(c)]
  BY ConcatProperties, LenProperties
<1>2. \A i \in 1..Len(c) : (c \o d)[i] = c[i]
  BY <1>1
<1>3. \A i \in 1..Len(d) : (c \o d)[Len(c) + i] = d[i]
  <2> TAKE i \in 1..Len(d)
  <2>1. Len(c) + i \in 1..(Len(c) + Len(d)) /\ ~(Len(c) + i <= Len(c)) /\ (Len(c) + i) - Len(c) = i
    BY <1>1
  <2> QED BY <1>1, <2>1
<1>4. \A i \in 1..Len(c \o d) : i \in 1..Len(c) \/ \E j \in 1..Len(d) : i = Len(c) + j
  <2> TAKE i \in 1..Len(c \o d)
  <2>1. CASE i > Len(c)
    <3>1. i - Len(c) \in 1..Len(d) /\ i = Len(c) + (i - Len(c))
      BY <1>1, <2>1
    <3> QED BY <3>1
  <2> QED BY <1>1, <2>1
<1> QED BY <1>1, <1>2, <1>3, <1>4

LEMMA ConcatParts ==
  ASSUME NEW S, NEW c \in Seq(S), NEW d \in Seq(S), NEW e, e = c \o d
  PROVE  /\ e \in Seq(S) /\ Len(e) = Len(c) + Len(d) /\ Len(c) \in Nat /\ Len(d) \in Nat
         /\ \A i \in 1..Len(c) : e[i] = c[i]
         /\ \A i \in 1..Len(d) : e[Len(c) + i] = d[i]
<1>1. c \o d \in Seq(S) /\ Len(c \o d) = Len(c) + Len(d) /\ Len(c) \in Nat /\ Len(d) \in Nat
  BY ConcatElements
<1>2. \A i \in 1..Len(c) : (c \o d)[i] = c[i]
  BY ConcatElements
<1>3. \A i \in 1..Len(d) : (c \o d)[Len(c) + i] = d[i]
  BY ConcatElements
<1> QED BY <1>1, <1>2, <1>3

(* Taking the head of a sequence.                                          *)
LEMMA TailElements ==
  ASSUME NEW S, NEW q \in Seq(S), q # <<>>
  PROVE  /\ Tail(q) \in Seq(S) /\ Len(Tail(q)) = Len(q) - 1 /\ Len(q) \in Nat \ {0}
         /\ Head(q) = q[1] /\ q[1] \in S
         /\ \A i \in 1..Len(Tail(q)) : Tail(q)[i] = q[i + 1] /\ i + 1 \in 1..Len(q)
         /\ q = <<Head(q)>> \o Tail(q)
<1>1. /\ Tail(q) \in Seq(S) /\ Len(Tail(q)) = Len(q) - 1 /\ Head(q) = q[1] /\ Head(q) \in S
      /\ Len(q) \in Nat /\ \A i \in 1..Len(Tail(q)) : Tail(q)[i] = q[i + 1]
  BY HeadTailProperties, LenProperties
<1>2. Len(q) # 0
  BY EmptySeq
<1>3. \A i \in 1..Len(Tail(q)) : i + 1 \in 1..Len(q)
  BY <1>1
<1>4. q = <<Head(q)>> \o Tail(q)
  <2> DEFINE h == <<Head(q)>>
             t == Tail(q)
  <2>1. h \in Seq(S) /\ Len(h) = 1 /\ h[1] = q[1]
    BY <1>1
  <2> HIDE DEF h, t
  <2>2. /\ h \o t \in Seq(S) /\ Len(h \o t) = 1 + Len(t) /\ (h \o t)[1] = h[1] /\ Len(t) \in Nat
        /\ \A i \in 1..Len(t) : (h \o t)[1 + i] = t[i]
    <3>1. t \in Seq(S)
      BY <1>1 DEF t
    <3>2. h \in Seq(S)
      BY <2>1
    <3>3. /\ h \o t \in Seq(S) /\ Len(h \o t) = Len(h) + Len(t) /\ Len(t) \in Nat
          /\ \A i \in 1..Len(h) : (h \o t)[i] = h[i]
          /\ \A i \in 1..Len(t) : (h \o t)[Len(h) + i] = t[i]
      <4> HIDE DEF h, t
      <4> QED BY <3>1, <3>2, ConcatElements
    <3> QED BY <2>1, <3>3
  <2>3. \A i \in 1..Len(q) : (h \o t)[i] = q[i]
    <3> TAKE i \in 1..Len(q)
    <3>1. CASE i = 1
      BY <2>1, <2>2, <3>1
    <3>2. CASE i # 1
      <4>1. i - 1 \in 1..Len(t) /\ (i - 1) + 1 = i /\ 1 + (i - 1) = i
        BY <1>1, <3>2 DEF t
      <4>2. t[i - 1] = q[i]
        BY <1>1, <4>1 DEF t
      <4>3. (h \o t)[i] = t[i - 1]
        BY <2>2, <4>1
      <4> QED BY <4>2, <4>3
    <3> QED BY <3>1, <3>2
  <2>4. Len(h \o t) = Len(q)
    BY <1>1, <2>2 DEF t
  <2>5. q = h \o t
    <3> HIDE DEF h, t
    <3> QED BY <2>2, <2>3, <2>4, SeqEqual
  <2> QED BY <2>5 DEF h, t
<1> QED BY <1>1, <1>2, <1>3, <1>4

LEMMA MapOfConcat ==
  ASSUME NEW S, NEW c \in Seq(S), NEW d \in Seq(S), NEW w \in [S -> Nat]
  PROVE  /\ [i \in 1..Len(c) |-> w[c[i]]] \in Seq(Nat)
         /\ [i \in 1..Len(c \o d) |-> w[(c \o d)[i]]]
              = [i \in 1..Len(c) |-> w[c[i]]] \o [i \in 1..Len(d) |-> w[d[i]]]
<1> DEFINE f(q) == [i \in 1..Len(q) |-> w[q[i]]]
<1>1. ASSUME NEW q \in Seq(S)
      PROVE  f(q) \in Seq(Nat) /\ Len(f(q)) = Len(q) /\ \A i \in 1..Len(q) : f(q)[i] = w[q[i]]
  <2>1. Len(q) \in Nat /\ \A i \in 1..Len(q) : q[i] \in S
    BY LenProperties, ElementOfSeq
  <2>2. f(q) \in [1..Len(q) -> Nat]
    BY <2>1
  <2>3. f(q) \in Seq(Nat)
    BY <2>1, <2>2, SeqDef
  <2>4. DOMAIN f(q) = 1..Len(f(q)) /\ Len(f(q)) \in Nat
    BY <2>3, LenProperties
  <2>5. 1..Len(q) = 1..Len(f(q))
    BY <2>4
  <2>6. Len(f(q)) = Len(q)
    BY <2>1, <2>4, <2>5
  <2> QED BY <2>3, <2>6
<1>2. /\ c \o d \in Seq(S) /\ Len(c \o d) = Len(c) + Len(d) /\ Len(c) \in Nat /\ Len(d) \in Nat
      /\ \A i \in 1..Len(c) : (c \o d)[i] = c[i]
      /\ \A i \in 1..Len(d) : (c \o d)[Len(c) + i] = d[i]
      /\ \A i \in 1..Len(c \o d) : i \in 1..Len(c) \/ \E j \in 1..Len(d) : i = Len(c) + j
  BY ConcatElements
<1>3. /\ f(c) \in Seq(Nat) /\ Len(f(c)) = Len(c) /\ \A i \in 1..Len(c) : f(c)[i] = w[c[i]]
      /\ f(d) \in Seq(Nat) /\ Len(f(d)) = Len(d) /\ \A i \in 1..Len(d) : f(d)[i] = w[d[i]]
  BY <1>1
<1>4. /\ f(c \o d) \in Seq(Nat) /\ Len(f(c \o d)) = Len(c) + Len(d)
      /\ \A i \in 1..Len(c \o d) : f(c \o d)[i] = w[(c \o d)[i]]
  <2> HIDE DEF f
  <2>1. c \o d \in Seq(S)
    BY <1>2
  <2>2. /\ f(c \o d) \in Seq(Nat) /\ Len(f(c \o d)) = Len(c \o d)
        /\ \A i \in 1..Len(c \o d) : f(c \o d)[i] = w[(c \o d)[i]]
    BY <1>1, <2>1
  <2> QED BY <1>2, <2>2
<1> HIDE DEF f
<1>5. /\ f(c) \o f(d) \in Seq(Nat) /\ Len(f(c) \o f(d)) = Len(c) + Len(d)
      /\ \A i \in 1..Len(c) : (f(c) \o f(d))[i] = f(c)[i]
      /\ \A i \in 1..Len(d) : (f(c) \o f(d))[Len(c) + i] = f(d)[i]
  <2> DEFINE x == f(c)
             y == f(d)
  <2>1. x \in Seq(Nat) /\ y \in Seq(Nat) /\ Len(x) = Len(c) /\ Len(y) = Len(d)
    BY <1>3
  <2> HIDE DEF x, y
  <2>2. \A S1 : x \in Seq(S1) /\ y \in Seq(S1) =>
          /\ x \o y \in Seq(S1) /\ Len(x \o y) = Len(x) + Len(y)
          /\ \A i \in 1..Len(x) : (x \o y)[i] = x[i]
          /\ \A i \in 1..Len(y) : (x \o y)[Len(x) + i] = y[i]
    BY ConcatElements
  <2>3. /\ x \o y \in Seq(Nat) /\ Len(x \o y) = Len(c) + Len(d)
        /\ \A i \in 1..Len(c) : (x \o y)[i] = x[i]
        /\ \A i \in 1..Len(d) : (x \o y)[Len(c) + i] = y[i]
    BY <2>1, <2>2
  <2> QED BY <2>3 DEF x, y
<1>6. \A i \in 1..Len(c \o d) : f(c \o d)[i] = (f(c) \o f(d))[i]
  <2> TAKE i \in 1..Len(c \o d)
  <2>1. CASE i \in 1..Len(c)
    BY SMTT(30), <1>2, <1>3, <1>4, <1>5, <2>1
  <2>2. CASE \E j \in 1..Len(d) : i = Len(c) + j
    <3>1. PICK j \in 1..Len(d) : i = Len(c) + j
      BY <2>2
    <3>2. f(c \o d)[i] = w[d[j]]
      BY <1>2, <1>4, <3>1
    <3>3. (f(c) \o f(d))[i] = w[d[j]]
      BY <1>3, <1>5, <3>1
    <3> QED BY <3>2, <3>3
  <2> QED BY <1>2, <2>1, <2>2
<1>7. f(c \o d) = f(c) \o f(d)
  <2>1. Len(f(c \o d)) = Len(f(c) \o f(d)) /\ 1..Len(f(c \o d)) = 1..Len(c \o d)
    BY <1>2, <1>4, <1>5
  <2> QED BY <1>4, <1>5, <1>6, <2>1, SeqEqual
<1> QED BY <1>3, <1>7 DEF f
-----------------------------------------------------------------------------
(* The weights of a sequence's elements, together.                          *)
Tally(w, c) == Total([i \in 1..Len(c) |-> w[c[i]]])

LEMMA TallyOfConcat ==
  ASSUME NEW S, NEW c \in Seq(S), NEW d \in Seq(S), NEW w \in [S -> Nat]
  PROVE  /\ Tally(w, c \o d) = Tally(w, c) + Tally(w, d)
         /\ Tally(w, c) \in Nat /\ Tally(w, d) \in Nat
<1> DEFINE f(q) == [i \in 1..Len(q) |-> w[q[i]]]
<1>1. f(c) \in Seq(Nat) /\ f(c \o d) = f(c) \o f(d)
  BY SMTT(30), MapOfConcat
<1>2. f(d) \in Seq(Nat)
  BY MapOfConcat
<1> DEFINE x == f(c)
           y == f(d)
<1>3. x \in Seq(Nat) /\ y \in Seq(Nat) /\ f(c \o d) = x \o y
  BY <1>1, <1>2
<1>4. Tally(w, c) = Total(x) /\ Tally(w, d) = Total(y) /\ Tally(w, c \o d) = Total(f(c \o d))
  BY DEF Tally
<1> HIDE DEF x, y, f
<1>5. Total(x \o y) = Total(x) + Total(y) /\ Total(x) \in Nat /\ Total(y) \in Nat
  BY <1>3, TotalOfConcat, TotalIsNat
<1> QED BY <1>3, <1>4, <1>5

LEMMA TallyOfEmpty ==
  ASSUME NEW w
  PROVE  Tally(w, <<>>) = 0
<1>1. [i \in 1..Len(<<>>) |-> w[<<>>[i]]] = <<>>
  OBVIOUS
<1> QED BY <1>1, TotalOfEmpty DEF Tally

LEMMA TallyOfOne ==
  ASSUME NEW S, NEW e \in S, NEW w \in [S -> Nat]
  PROVE  <<e>> \in Seq(S) /\ Tally(w, <<e>>) = w[e]
<1>1. [i \in 1..Len(<<e>>) |-> w[<<e>>[i]]] = <<w[e]>>
  OBVIOUS
<1>2. w[e] \in Nat
  OBVIOUS
<1>3. Tally(w, <<e>>) = Total(<<w[e]>>)
  BY <1>1 DEF Tally
<1> QED BY <1>2, <1>3, TotalOfOne

LEMMA TallyOfTail ==
  ASSUME NEW S, NEW q \in Seq(S), q # <<>>, NEW w \in [S -> Nat]
  PROVE  /\ Head(q) \in S /\ Tail(q) \in Seq(S)
         /\ Tally(w, q) = w[Head(q)] + Tally(w, Tail(q))
         /\ Tally(w, Tail(q)) \in Nat /\ w[Head(q)] \in Nat
<1> DEFINE h == Head(q)
           t == Tail(q)
<1>1. h \in S /\ t \in Seq(S) /\ q = <<h>> \o t
  BY TailElements
<1> HIDE DEF h, t
<1>2. <<h>> \in Seq(S) /\ Tally(w, <<h>>) = w[h]
  BY <1>1, TallyOfOne
<1>3. Tally(w, <<h>> \o t) = Tally(w, <<h>>) + Tally(w, t) /\ Tally(w, t) \in Nat
  BY <1>1, <1>2, TallyOfConcat
<1>4. w[h] \in Nat
  BY <1>1
<1> QED BY <1>1, <1>2, <1>3, <1>4 DEF h, t

(* Numbers of which one may be more than nothing.                           *)
LEMMA TotalOfSingle ==
  ASSUME NEW s \in Seq(Nat), NEW k \in Nat \ {0}, \A i \in 1..Len(s) : i # k => s[i] = 0
  PROVE  Total(s) = IF k \in 1..Len(s) THEN s[k] ELSE 0
<1>1. PICK t : IsTotals(t, s) /\ Total(s) = t[Len(s)]
  BY TotalsExist
<1> DEFINE T == {m \in Nat : m <= Len(s) => t[m] = IF k <= m THEN s[k] ELSE 0}
<1>2. Len(s) \in Nat
  BY LenProperties
<1>3. 0 \in T
  BY <1>1 DEF IsTotals
<1>4. ASSUME NEW m \in Nat, m \in T PROVE m + 1 \in T
  <2> SUFFICES ASSUME m + 1 <= Len(s) PROVE t[m + 1] = IF k <= m + 1 THEN s[k] ELSE 0
    OBVIOUS
  <2>1. m + 1 \in 1..Len(s) /\ (m + 1) - 1 = m /\ m <= Len(s) /\ m \in 0..Len(s)
    BY <1>2
  <2>2. t[m] = IF k <= m THEN s[k] ELSE 0
    BY <1>4, <2>1
  <2>3. t[m + 1] = t[m] + s[m + 1] /\ t[m] \in Nat
    <3>1. t[m + 1] = t[(m + 1) - 1] + s[m + 1]
      BY <1>1, <2>1 DEF IsTotals
    <3>2. t[m] \in Nat
      BY <1>1, <2>1 DEF IsTotals
    <3> QED BY <2>1, <3>1, <3>2
  <2>4. s[m + 1] \in Nat
    BY <2>1, ElementOfSeq
  <2>5. CASE m + 1 = k
    BY <2>2, <2>3, <2>4, <2>5
  <2>6. CASE m + 1 # k
    <3>1. s[m + 1] = 0
      BY <2>1, <2>6
    <3>2. k <= m + 1 <=> k <= m
      BY <2>6
    <3> QED BY <2>2, <2>3, <3>1, <3>2
  <2> QED BY <2>5, <2>6
<1> HIDE DEF T
<1>5. Len(s) \in T
  BY <1>2, <1>3, <1>4, Induction
<1>6. t[Len(s)] = IF k <= Len(s) THEN s[k] ELSE 0
  BY <1>2, <1>5 DEF T
<1> QED BY <1>1, <1>2, <1>6

-----------------------------------------------------------------------------
LEMMA FunctionIsSequence ==
  ASSUME NEW S, NEW n \in Nat, NEW a \in [1..n -> S]
  PROVE  a \in Seq(S) /\ Len(a) = n
<1>1. a \in Seq(S)
  BY SeqDef
<1>2. DOMAIN a = 1..Len(a) /\ Len(a) \in Nat
  BY <1>1, LenProperties
<1>3. 1..n = 1..Len(a)
  BY <1>2
<1> QED BY <1>1, <1>2, <1>3

(* The sequences of a sequence, one after the other.                        *)
IsFlattening(g, Q) ==
  \A i \in 1..Len(Q) : g[i] = IF i = 1 THEN Q[i] ELSE g[i - 1] \o Q[i]

LEMMA FlatteningExists ==
  ASSUME NEW Q, Len(Q) \in Nat \ {0}
  PROVE  \E g : IsFlattening(g, Q) /\ FlattenSeq(Q) = g[Len(Q)]
<1> DEFINE Step(g, n) == [i \in 1..n |-> IF i = 1 THEN Q[i] ELSE g[i - 1] \o Q[i]]
           P(n) == \E g : g = Step(g, n)
           T == {n \in Nat : P(n)}
<1>1. P(0)
  <2> DEFINE g == [i \in 1..0 |-> 0]
  <2>1. g = Step(g, 0)
    OBVIOUS
  <2> QED BY <2>1
<1>2. ASSUME NEW n \in Nat, P(n) PROVE P(n + 1)
  <2>1. PICK g : g = Step(g, n)
    BY <1>2
  <2> DEFINE h == [i \in 1..(n + 1) |->
                    IF i = n + 1 THEN (IF i = 1 THEN Q[i] ELSE g[n] \o Q[i]) ELSE g[i]]
  <2>2. \A i \in 1..(n + 1) : h[i] = IF i = 1 THEN Q[i] ELSE h[i - 1] \o Q[i]
    <3> TAKE i \in 1..(n + 1)
    <3>1. CASE i = n + 1
      <4>1. h[i] = IF i = 1 THEN Q[i] ELSE g[n] \o Q[i]
        BY <3>1
      <4>2. i # 1 => i - 1 = n /\ i - 1 \in 1..(n + 1) /\ i - 1 # n + 1
        BY <3>1
      <4>3. i # 1 => h[i - 1] = g[n]
        BY <4>2
      <4> QED BY <4>1, <4>3
    <3>2. CASE i # n + 1
      <4>1. i \in 1..n /\ h[i] = g[i]
        BY <3>2
      <4>2. g[i] = IF i = 1 THEN Q[i] ELSE g[i - 1] \o Q[i]
        BY <2>1, <4>1
      <4>3. i # 1 => i - 1 \in 1..(n + 1) /\ i - 1 # n + 1
        BY <4>1
      <4>4. i # 1 => h[i - 1] = g[i - 1]
        BY <4>3
      <4> QED BY <4>1, <4>2, <4>4
    <3> QED BY <3>1, <3>2
  <2>3. h = [i \in 1..(n + 1) |-> h[i]]
    OBVIOUS
  <2> HIDE DEF h
  <2>4. h = Step(h, n + 1)
    BY <2>2, <2>3
  <2> QED BY <2>4
<1>3. P(Len(Q))
  <2> HIDE DEF P
  <2>1. 0 \in T /\ \A n \in Nat : n \in T => n + 1 \in T
    BY <1>1, <1>2
  <2> HIDE DEF T
  <2>2. Len(Q) \in T
    BY <2>1, Induction
  <2> QED BY <2>2 DEF T
<1> DEFINE g == CHOOSE g : g = Step(g, Len(Q))
<1>4. g = Step(g, Len(Q))
  BY <1>3
<1>5. FlattenSeq(Q) = g[Len(Q)]
  BY DEF FlattenSeq
<1> HIDE DEF g
<1>6. IsFlattening(g, Q)
  BY <1>4 DEF IsFlattening
<1> QED BY <1>5, <1>6

LEMMA TallyOfFlatten ==
  ASSUME NEW S, NEW Q \in Seq(Seq(S)), NEW w \in [S -> Nat]
  PROVE  /\ FlattenSeq(Q) \in Seq(S)
         /\ [i \in 1..Len(Q) |-> Tally(w, Q[i])] \in Seq(Nat)
         /\ Tally(w, FlattenSeq(Q)) = Total([i \in 1..Len(Q) |-> Tally(w, Q[i])])
<1> DEFINE a == [i \in 1..Len(Q) |-> Tally(w, Q[i])]
<1>1. Len(Q) \in Nat /\ \A i \in 1..Len(Q) : Q[i] \in Seq(S)
  BY LenProperties, ElementOfSeq
<1>2. \A i \in 1..Len(Q) : Tally(w, Q[i]) \in Nat
  BY <1>1, TallyOfConcat
<1>3. a \in Seq(Nat) /\ Len(a) = Len(Q) /\ \A i \in 1..Len(Q) : a[i] = Tally(w, Q[i])
  <2>1. a \in [1..Len(Q) -> Nat]
    BY <1>2
  <2>2. a \in Seq(Nat) /\ Len(a) = Len(Q)
    BY <1>1, <2>1, FunctionIsSequence
  <2> QED BY <2>2
<1> HIDE DEF a
<1>4. CASE Len(Q) = 0
  <2>1. Q = <<>> /\ FlattenSeq(Q) = <<>>
    BY <1>4 DEF FlattenSeq
  <2>2. a = <<>>
    BY <1>3, <1>4
  <2>3. FlattenSeq(Q) \in Seq(S)
    BY <2>1, EmptySeq
  <2>4. Tally(w, FlattenSeq(Q)) = Total(a)
    BY <2>1, <2>2, TallyOfEmpty, TotalOfEmpty
  <2> QED BY <1>3, <2>3, <2>4 DEF a
<1>5. CASE Len(Q) # 0
  <2>1. PICK g : IsFlattening(g, Q) /\ FlattenSeq(Q) = g[Len(Q)]
    BY <1>1, <1>5, FlatteningExists
  <2>2. PICK t : IsTotals(t, a) /\ Total(a) = t[Len(a)]
    BY <1>3, TotalsExist
  <2> DEFINE P(n) == n \in 1..Len(Q) => g[n] \in Seq(S) /\ Tally(w, g[n]) = t[n]
             T == {n \in Nat : P(n)}
  <2>3. ASSUME NEW n \in Nat, P(n), n + 1 \in 1..Len(Q)
        PROVE  g[n + 1] \in Seq(S) /\ Tally(w, g[n + 1]) = t[n + 1]
    <3>1. /\ (n + 1) - 1 = n /\ n \in 0..Len(a) /\ n + 1 \in 1..Len(a)
          /\ Q[n + 1] \in Seq(S)
      <4>1. Q[n + 1] \in Seq(S)
        BY <1>1, <2>3
      <4> QED BY SMTT(30), <1>1, <1>3, <2>3, <4>1
    <3>2. t[n + 1] = t[n] + a[n + 1] /\ t[n] \in Nat /\ t[0] = 0
      <4>1. t[n + 1] = t[(n + 1) - 1] + a[n + 1]
        BY <2>2, <3>1 DEF IsTotals
      <4>2. t[n] \in Nat /\ t[0] = 0
        BY <2>2, <3>1 DEF IsTotals
      <4> QED BY <3>1, <4>1, <4>2
    <3>3. a[n + 1] = Tally(w, Q[n + 1]) /\ Tally(w, Q[n + 1]) \in Nat
      BY <1>2, <1>3, <2>3
    <3>4. g[n + 1] = IF n + 1 = 1 THEN Q[n + 1] ELSE g[n] \o Q[n + 1]
      <4>1. g[n + 1] = IF n + 1 = 1 THEN Q[n + 1] ELSE g[(n + 1) - 1] \o Q[n + 1]
        BY <2>1, <2>3 DEF IsFlattening
      <4> QED BY <3>1, <4>1
    <3>5. CASE n = 0
      <4>1. g[n + 1] = Q[n + 1]
        BY <3>4, <3>5
      <4>2. t[n + 1] = Tally(w, Q[n + 1])
        BY <3>2, <3>3, <3>5
      <4> QED BY <3>1, <4>1, <4>2
    <3>6. CASE n # 0
      <4>1. n \in 1..Len(Q) /\ n + 1 # 1
        BY <2>3, <3>6, <1>1
      <4>2. g[n] \in Seq(S) /\ Tally(w, g[n]) = t[n]
        BY <2>3, <4>1
      <4>3. g[n + 1] = g[n] \o Q[n + 1]
        BY <3>4, <4>1
      <4> DEFINE c == g[n]
                 d == Q[n + 1]
      <4>4. c \in Seq(S) /\ d \in Seq(S)
        BY <3>1, <4>2
      <4> HIDE DEF c, d
      <4>5. Tally(w, c \o d) = Tally(w, c) + Tally(w, d) /\ c \o d \in Seq(S)
        <5>1. Tally(w, c \o d) = Tally(w, c) + Tally(w, d)
          BY <4>4, TallyOfConcat
        <5>2. c \o d \in Seq(S)
          BY <4>4, ConcatProperties
        <5> QED BY <5>1, <5>2
      <4> QED BY <3>2, <3>3, <4>2, <4>3, <4>5 DEF c, d
    <3> QED BY <3>5, <3>6
  <2>4. 0 \in T /\ \A n \in Nat : n \in T => n + 1 \in T
    <3>1. 0 \in T
      BY <1>1
    <3>2. ASSUME NEW n \in Nat, n \in T PROVE n + 1 \in T
      <4>1. P(n)
        BY <3>2
      <4> HIDE DEF P
      <4>2. P(n + 1)
        BY <2>3, <4>1 DEF P
      <4> QED BY <4>2
    <3> QED BY <3>1, <3>2
  <2> HIDE DEF T
  <2>5. Len(Q) \in T
    BY <1>1, <2>4, Induction
  <2>6. g[Len(Q)] \in Seq(S) /\ Tally(w, g[Len(Q)]) = t[Len(Q)]
    BY <1>1, <1>5, <2>5 DEF T
  <2> QED BY <1>3, <2>1, <2>2, <2>6 DEF a
<1> QED BY <1>4, <1>5

-----------------------------------------------------------------------------
(* One number of a sequence changes.                                        *)
LEMMA TotalOfExcept ==
  ASSUME NEW s \in Seq(Nat), NEW k \in 1..Len(s), NEW v \in Nat
  PROVE  /\ [s EXCEPT ![k] = v] \in Seq(Nat) /\ s[k] \in Nat
         /\ Total([s EXCEPT ![k] = v]) + s[k] = Total(s) + v
<1> DEFINE r == [s EXCEPT ![k] = v]
<1>1. Len(s) \in Nat /\ DOMAIN s = 1..Len(s) /\ \A i \in 1..Len(s) : s[i] \in Nat
  BY LenProperties, ElementOfSeq
<1>2. r \in [1..Len(s) -> Nat] /\ \A i \in 1..Len(s) : r[i] = IF i = k THEN v ELSE s[i]
  <2>1. s = [i \in 1..Len(s) |-> s[i]]
    BY <1>1
  <2> QED BY <1>1, <2>1
<1>3. r \in Seq(Nat) /\ Len(r) = Len(s)
  <2> HIDE DEF r
  <2> QED BY <1>1, <1>2, FunctionIsSequence
<1>4. PICK t : IsTotals(t, s) /\ Total(s) = t[Len(s)]
  BY TotalsExist
<1> HIDE DEF r
<1>5. PICK u : IsTotals(u, r) /\ Total(r) = u[Len(r)]
  BY <1>3, TotalsExist
<1> DEFINE T == {m \in Nat : m <= Len(s) => IF m < k THEN u[m] = t[m] ELSE u[m] + s[k] = t[m] + v}
<1>6. 0 \in T
  BY <1>4, <1>5 DEF IsTotals
<1>7. ASSUME NEW m \in Nat, m \in T PROVE m + 1 \in T
  <2> SUFFICES ASSUME m + 1 <= Len(s)
               PROVE  IF m + 1 < k THEN u[m + 1] = t[m + 1] ELSE u[m + 1] + s[k] = t[m + 1] + v
    OBVIOUS
  <2>1. m + 1 \in 1..Len(s) /\ (m + 1) - 1 = m /\ m <= Len(s) /\ m \in 0..Len(s)
    BY <1>1
  <2>2. IF m < k THEN u[m] = t[m] ELSE u[m] + s[k] = t[m] + v
    BY <1>7, <2>1
  <2>3. t[m + 1] = t[(m + 1) - 1] + s[m + 1] /\ t[m] \in Nat
    BY <1>4, <2>1 DEF IsTotals
  <2>4. u[m + 1] = u[(m + 1) - 1] + r[m + 1] /\ u[m] \in Nat
    BY <1>3, <1>5, <2>1 DEF IsTotals
  <2>5. s[m + 1] \in Nat /\ s[k] \in Nat /\ r[m + 1] = IF m + 1 = k THEN v ELSE s[m + 1]
    BY <1>1, <1>2, <2>1
  <2>6. t[m + 1] = t[m] + s[m + 1] /\ u[m + 1] = u[m] + r[m + 1]
    BY <2>1, <2>3, <2>4
  <2>7. CASE m + 1 = k
    <3>1. m < k /\ ~(m + 1 < k) /\ r[m + 1] = v /\ s[m + 1] = s[k]
      BY <2>5, <2>7
    <3>2. u[m + 1] = t[m] + v /\ t[m + 1] = t[m] + s[k] /\ t[m] \in Nat /\ s[k] \in Nat
      BY <2>2, <2>3, <2>5, <2>6, <3>1
    <3>3. u[m + 1] + s[k] = t[m + 1] + v
      BY <3>2
    <3> QED BY <3>1, <3>3
  <2>8. CASE m + 1 # k
    <3>1. (m + 1 < k <=> m < k) /\ r[m + 1] = s[m + 1]
      BY <2>5, <2>8
    <3>2. t[m + 1] = t[m] + s[m + 1] /\ u[m + 1] = u[m] + s[m + 1]
      BY <2>6, <3>1
    <3> DEFINE a == t[m]
               b == u[m]
               c == s[m + 1]
               d == s[k]
    <3>3. a \in Nat /\ b \in Nat /\ c \in Nat /\ d \in Nat
      BY <2>3, <2>4, <2>5
    <3>4. t[m + 1] = a + c /\ u[m + 1] = b + c /\ IF m < k THEN b = a ELSE b + d = a + v
      BY <2>2, <3>2
    <3> HIDE DEF a, b, c
    <3>5. IF m < k THEN b + c = a + c ELSE (b + c) + d = (a + c) + v
      BY SMTT(30), <3>3, <3>4
    <3> QED BY <3>1, <3>4, <3>5
  <2> QED BY <2>7, <2>8
<1> HIDE DEF T
<1>8. Len(s) \in T
  BY <1>1, <1>6, <1>7, Induction
<1>9. u[Len(s)] + s[k] = t[Len(s)] + v
  BY <1>1, <1>8 DEF T
<1> QED BY <1>1, <1>3, <1>4, <1>5, <1>9 DEF r

LEMMA TotalOfZeros ==
  ASSUME NEW s \in Seq(Nat), \A i \in 1..Len(s) : s[i] = 0
  PROVE  Total(s) = 0
<1>1. Len(s) \in Nat
  BY LenProperties
<1>2. Len(s) + 1 \in Nat \ {0} /\ Len(s) + 1 \notin 1..Len(s)
  BY <1>1
<1>3. \A k \in Nat \ {0} : k \notin 1..Len(s) => Total(s) = 0
  BY TotalOfSingle
<1> QED BY <1>2, <1>3

(* Totals of smaller numbers are smaller.                                   *)
LEMMA TotalIsMonotone ==
  ASSUME NEW s \in Seq(Nat), NEW r \in Seq(Nat), Len(r) = Len(s), \A i \in 1..Len(s) : r[i] <= s[i]
  PROVE  Total(r) <= Total(s)
<1>1. PICK t : IsTotals(t, s) /\ Total(s) = t[Len(s)]
  BY TotalsExist
<1>2. PICK u : IsTotals(u, r) /\ Total(r) = u[Len(r)]
  BY TotalsExist
<1> DEFINE T == {m \in Nat : m <= Len(s) => u[m] <= t[m]}
<1>3. Len(s) \in Nat
  BY LenProperties
<1>4. 0 \in T
  BY <1>1, <1>2 DEF IsTotals
<1>5. ASSUME NEW m \in Nat, m \in T PROVE m + 1 \in T
  <2> SUFFICES ASSUME m + 1 <= Len(s) PROVE u[m + 1] <= t[m + 1]
    OBVIOUS
  <2>1. m + 1 \in 1..Len(s) /\ (m + 1) - 1 = m /\ m <= Len(s) /\ m \in 0..Len(s)
    BY <1>3
  <2>2. u[m] <= t[m]
    BY <1>5, <2>1
  <2>3. t[m + 1] = t[m] + s[m + 1] /\ t[m] \in Nat
    <3>1. t[m + 1] = t[(m + 1) - 1] + s[m + 1] /\ t[m] \in Nat
      BY <1>1, <2>1 DEF IsTotals
    <3> QED BY <2>1, <3>1
  <2>4. u[m + 1] = u[m] + r[m + 1] /\ u[m] \in Nat
    <3>1. u[m + 1] = u[(m + 1) - 1] + r[m + 1] /\ u[m] \in Nat
      BY <1>2, <2>1 DEF IsTotals
    <3> QED BY <2>1, <3>1
  <2>5. s[m + 1] \in Nat /\ r[m + 1] \in Nat /\ r[m + 1] <= s[m + 1]
    BY <2>1, ElementOfSeq
  <2> QED BY SMTT(30), <2>2, <2>3, <2>4, <2>5
<1> HIDE DEF T
<1>6. Len(s) \in T
  BY <1>3, <1>4, <1>5, Induction
<1> QED BY <1>1, <1>2, <1>3, <1>6 DEF T

LEMMA Enumeration ==
  ASSUME NEW S, IsFiniteSet(S)
  PROVE  /\ Cardinality(S) \in Nat
         /\ \E e \in [1..Cardinality(S) -> S] : IsEnumeration(e, S)
<1>1. Cardinality(S) \in Nat /\ ExistsBijection(1..Cardinality(S), S)
  BY FS_CardinalityType
<1>2. PICK e : e \in Bijection(1..Cardinality(S), S)
  BY <1>1 DEF ExistsBijection
<1>3. e \in [1..Cardinality(S) -> S] /\ IsEnumeration(e, S)
  BY <1>2 DEF IsEnumeration, Bijection, Injection, Surjection, IsInjective
<1> QED BY <1>1, <1>3

(* The numbers of a set in the order they are added up.                     *)
LEMMA OverEnumeration ==
  ASSUME NEW S, IsFiniteSet(S)
  PROVE  /\ Cardinality(S) \in Nat
         /\ \E e \in [1..Cardinality(S) -> S] :
              /\ IsEnumeration(e, S)
              /\ \A f \in [S -> Nat] :
                   /\ [i \in 1..Cardinality(S) |-> f[e[i]]] \in Seq(Nat)
                   /\ Len([i \in 1..Cardinality(S) |-> f[e[i]]]) = Cardinality(S)
                   /\ TotalOver(S, f) = Total([i \in 1..Cardinality(S) |-> f[e[i]]])
<1> DEFINE n == Cardinality(S)
           e == CHOOSE e \in [1..n -> S] : IsEnumeration(e, S)
<1>1. n \in Nat /\ e \in [1..n -> S] /\ IsEnumeration(e, S)
  BY Enumeration
<1>2. \A f : TotalOver(S, f) = Total([i \in 1..n |-> f[e[i]]])
  BY DEF TotalOver
<1> HIDE DEF e
<1>3. ASSUME NEW f \in [S -> Nat]
      PROVE  [i \in 1..n |-> f[e[i]]] \in Seq(Nat) /\ Len([i \in 1..n |-> f[e[i]]]) = n
  <2> DEFINE a == [i \in 1..n |-> f[e[i]]]
  <2>1. a \in [1..n -> Nat]
    BY <1>1
  <2> HIDE DEF a
  <2> QED BY ZenonT(30), <1>1, <2>1, FunctionIsSequence DEF a
<1> HIDE DEF n
<1> QED BY <1>1, <1>2, <1>3 DEF n

LEMMA TotalOverIsNat ==
  ASSUME NEW S, IsFiniteSet(S), NEW f \in [S -> Nat]
  PROVE  TotalOver(S, f) \in Nat
<1> DEFINE a(e) == [i \in 1..Cardinality(S) |-> f[e[i]]]
<1>1. PICK e : a(e) \in Seq(Nat) /\ TotalOver(S, f) = Total(a(e))
  BY OverEnumeration
<1> HIDE DEF a
<1> QED BY <1>1, TotalIsNat

LEMMA TotalOverZeros ==
  ASSUME NEW S, IsFiniteSet(S), NEW f \in [S -> Nat], \A x \in S : f[x] = 0
  PROVE  TotalOver(S, f) = 0
<1> DEFINE a(e) == [i \in 1..Cardinality(S) |-> f[e[i]]]
<1>1. PICK e \in [1..Cardinality(S) -> S] :
        a(e) \in Seq(Nat) /\ Len(a(e)) = Cardinality(S) /\ TotalOver(S, f) = Total(a(e))
  BY OverEnumeration
<1>2. \A i \in 1..Cardinality(S) : a(e)[i] = 0
  BY <1>1
<1> HIDE DEF a
<1> QED BY <1>1, <1>2, TotalOfZeros

(* One number of a set changes.                                            *)
LEMMA TotalOverExcept ==
  ASSUME NEW S, IsFiniteSet(S), NEW f \in [S -> Nat], NEW x \in S, NEW v \in Nat
  PROVE  TotalOver(S, [f EXCEPT ![x] = v]) + f[x] = TotalOver(S, f) + v
<1> DEFINE g == [f EXCEPT ![x] = v]
           a(h, e) == [i \in 1..Cardinality(S) |-> h[e[i]]]
<1>1. g \in [S -> Nat]
  OBVIOUS
<1>2. PICK e \in [1..Cardinality(S) -> S] :
        /\ IsEnumeration(e, S)
        /\ \A h \in [S -> Nat] :
             /\ a(h, e) \in Seq(Nat)
             /\ Len(a(h, e)) = Cardinality(S)
             /\ TotalOver(S, h) = Total(a(h, e))
  BY OverEnumeration
<1>3. PICK k \in 1..Cardinality(S) : e[k] = x
  BY <1>2 DEF IsEnumeration
<1>4. a(g, e) = [a(f, e) EXCEPT ![k] = v]
  <2>1. \A i \in 1..Cardinality(S) : e[i] = x <=> i = k
    BY <1>2, <1>3 DEF IsEnumeration
  <2>2. \A i \in 1..Cardinality(S) : g[e[i]] = IF i = k THEN v ELSE f[e[i]]
    BY <1>2, <2>1
  <2> QED BY <2>2
<1>5. a(f, e)[k] = f[x]
  BY <1>3
<1> DEFINE s == a(f, e)
<1>6. s \in Seq(Nat) /\ Len(s) = Cardinality(S) /\ TotalOver(S, f) = Total(s)
      /\ TotalOver(S, g) = Total([s EXCEPT ![k] = v]) /\ s[k] = f[x]
  BY <1>1, <1>2, <1>4, <1>5
<1> HIDE DEF s, a, g
<1>7. Total([s EXCEPT ![k] = v]) + s[k] = Total(s) + v
  BY ZenonT(30), <1>3, <1>6, TotalOfExcept
<1> QED BY <1>6, <1>7 DEF g

-----------------------------------------------------------------------------
(* Recursion over numbers.                                                  *)

(* A function that is defined by the step from one number to the next.      *)
StepsOf(F, N, S) == F \in [1..N -> [S -> S]]
Iterates(f, F, N, S, x) ==
  f \in [0..N -> S] /\ f[0] = x /\ \A n \in 1..N : f[n] = F[n][f[n - 1]]

LEMMA RecursionExists ==
  ASSUME NEW S, NEW x, NEW N, NEW F, x \in S, N \in Nat, StepsOf(F, N, S)
  PROVE  \E f : Iterates(f, F, N, S, x)
<1> USE DEF StepsOf, Iterates
<1> DEFINE Is(f, m) == f \in [0..m -> S] /\ f[0] = x /\ \A n \in 1..m : f[n] = F[n][f[n - 1]]
           T == {m \in Nat : m <= N => \E f : Is(f, m)}
<1>1. 0 \in T
  <2> DEFINE f == [i \in 0..0 |-> x]
  <2>1. Is(f, 0)
    OBVIOUS
  <2> QED BY <2>1
<1>2. ASSUME NEW m \in Nat, m \in T PROVE m + 1 \in T
  <2> SUFFICES ASSUME m + 1 <= N PROVE \E f : Is(f, m + 1)
    OBVIOUS
  <2>1. PICK f : Is(f, m)
    BY <1>2
  <2>2. /\ m + 1 \in 1..N /\ f[m] \in S /\ F[m + 1] \in [S -> S]
        /\ \A i \in 0..(m + 1) : i \in 0..m \/ i = m + 1
        /\ \A i \in 1..(m + 1) : i \in 1..m \/ i = m + 1
        /\ \A i \in 1..m : i \in 0..m /\ i - 1 \in 0..m /\ i # m + 1 /\ i - 1 # m + 1
    BY <2>1
  <2>3. F[m + 1][f[m]] \in S
    BY <2>2
  <2> DEFINE y == F[m + 1][f[m]]
             h == [i \in 0..(m + 1) |-> IF i = m + 1 THEN y ELSE f[i]]
  <2> HIDE DEF y
  <2>4. /\ h \in [0..(m + 1) -> S] /\ h[m + 1] = y /\ h[m] = f[m] /\ h[0] = x
        /\ \A i \in 0..m : h[i] = f[i]
    BY <2>1, <2>2, <2>3 DEF y
  <2> HIDE DEF h
  <2>5. \A n \in 1..(m + 1) : h[n] = F[n][h[n - 1]]
    BY <2>1, <2>2, <2>4 DEF y
  <2> QED BY <2>4, <2>5
<1> HIDE DEF T
<1>3. N \in T
  BY <1>1, <1>2, Induction
<1> QED BY <1>3 DEF T

-----------------------------------------------------------------------------
(* Division.                                                                *)

LEMMA Multiples ==
  ASSUME NEW f \in Nat \ {0}, NEW d \in Int
  PROVE  /\ f * d \in Int
         /\ d >= 1 => f * d >= f
         /\ d >= 2 => f * d >= 2 * f
         /\ d <= -1 => f * d <= -f
         /\ d = 0 => f * d = 0
         /\ d = 1 => f * d = f
<1>1. d >= 1 => f * (d - 1) >= 0
  OBVIOUS
<1>2. d >= 2 => f * (d - 2) >= 0
  OBVIOUS
<1>3. d <= -1 => f * (-1 - d) >= 0
  OBVIOUS
<1>4. f * (d - 1) = f * d - f /\ f * (d - 2) = f * d - 2 * f /\ f * (-1 - d) = -f - f * d
  OBVIOUS
<1>5. f * d \in Int
  OBVIOUS
<1> DEFINE p == f * d
<1>6. p = f * d
  OBVIOUS
<1> HIDE DEF p
<1>7. (d >= 1 => p - f >= 0) /\ (d >= 2 => p - 2 * f >= 0) /\ (d <= -1 => -f - p >= 0) /\ p \in Int
  BY <1>1, <1>2, <1>3, <1>4, <1>5, <1>6
<1>8. (d = 0 => p = 0) /\ (d = 1 => p = f)
  BY <1>6
<1> QED BY <1>6, <1>7, <1>8

LEMMA DivisionOf ==
  ASSUME NEW n \in Int, NEW f \in Nat \ {0}
  PROVE  n \div f \in Int /\ n % f \in 0 .. f - 1 /\ n = f * (n \div f) + (n % f)
<1>1. n \div f \in Int
  OBVIOUS
<1>2. n % f \in 0 .. f - 1
  OBVIOUS
<1>3. n = f * (n \div f) + (n % f)
  OBVIOUS
<1> QED BY <1>1, <1>2, <1>3

(* Quotient and remainder are the only ones.                                *)
LEMMA DivisionIs ==
  ASSUME NEW n \in Int, NEW f \in Nat \ {0}, NEW q \in Int, NEW r \in 0 .. f - 1, n = f * q + r
  PROVE  n \div f = q /\ n % f = r
<1> DEFINE a == n \div f
           b == n % f
           d == a - q
<1>1. a \in Int /\ b \in 0 .. f - 1 /\ n = f * a + b /\ d \in Int
  BY DivisionOf
<1> HIDE DEF a, b
<1>2. f * a = f * q + f * d
  BY <1>1
<1>3. f * q \in Int /\ f * a \in Int /\ f * d \in Int
  BY <1>1
<1> DEFINE u == f * q
           v == f * a
           w == f * d
<1>4. u \in Int /\ v \in Int /\ w \in Int /\ v = u + w /\ n = u + r /\ n = v + b
  BY <1>1, <1>2, <1>3
<1>5. (d >= 1 => w >= f) /\ (d <= -1 => w <= -f) /\ (d = 0 => w = 0)
  BY <1>1, Multiples
<1> HIDE DEF u, v, w
<1>6. w > -f /\ w < f
  BY <1>1, <1>4
<1>7. d = 0
  BY <1>1, <1>5, <1>6
<1>8. a = q /\ b = r
  BY <1>1, <1>4, <1>5, <1>7
<1> QED BY <1>8 DEF a, b

LEMMA RemainderOfNext ==
  ASSUME NEW n \in Int, NEW f \in Nat \ {0}
  PROVE  (n + 1) % f = IF (n % f) + 1 = f THEN 0 ELSE (n % f) + 1
<1> DEFINE q == n \div f
           r == n % f
<1>1. q \in Int /\ r \in 0 .. f - 1 /\ n = f * q + r
  BY DivisionOf
<1> HIDE DEF q, r
<1>2. CASE r + 1 = f
  <2>1. f * (q + 1) = f * q + f /\ f * q \in Int
    BY <1>1
  <2>2. n + 1 = f * (q + 1) + 0
    BY <1>1, <1>2, <2>1
  <2>3. 0 \in 0 .. f - 1 /\ q + 1 \in Int /\ n + 1 \in Int
    BY <1>1
  <2>4. (n + 1) % f = 0
    BY <2>2, <2>3, DivisionIs
  <2> QED BY <1>2, <2>4 DEF r
<1>3. CASE r + 1 # f
  <2>1. r + 1 \in 0 .. f - 1 /\ n + 1 \in Int
    BY <1>1, <1>3
  <2>2. f * q \in Int
    BY <1>1
  <2>3. n + 1 = f * q + (r + 1)
    BY <1>1, <2>2
  <2>4. (n + 1) % f = r + 1
    BY <1>1, <2>1, <2>3, DivisionIs
  <2> QED BY <1>3, <2>4 DEF r
<1> QED BY <1>2, <1>3

LEMMA QuotientIsMonotone ==
  ASSUME NEW m \in Int, NEW n \in Int, m <= n, NEW f \in Nat \ {0}
  PROVE  m \div f <= n \div f
<1> DEFINE a == m \div f
           b == n \div f
           r == m % f
           s == n % f
           d == b - a
<1>1. a \in Int /\ b \in Int /\ r \in 0 .. f - 1 /\ s \in 0 .. f - 1 /\ d \in Int
      /\ m = f * a + r /\ n = f * b + s
  BY DivisionOf
<1> HIDE DEF a, b, r, s
<1>2. f * b = f * a + f * d
  BY <1>1
<1>3. f * b \in Int /\ f * a \in Int /\ f * d \in Int
  BY <1>1
<1> DEFINE u == f * b
           v == f * a
           w == f * d
<1>4. u \in Int /\ v \in Int /\ w \in Int /\ u = v + w /\ m = v + r /\ n = u + s
  BY <1>1, <1>2, <1>3
<1>5. d <= -1 => w <= -f
  BY <1>1, Multiples
<1> HIDE DEF u, v, w
<1>6. w > -f
  BY <1>1, <1>4
<1>7. ~(d <= -1)
  BY <1>5, <1>6, <1>4
<1>8. a <= b
  BY <1>1, <1>7
<1> QED BY <1>8 DEF a, b

===============================================================================
