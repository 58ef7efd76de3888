-------------------------- MODULE TaskParserProofs --------------------------
(***************************************************************************)
(* parse_task reads what the clients of judged write: for every task that  *)
(* it is made for, and for every buffer that begins with its text.         *)
(***************************************************************************)
EXTENDS TaskParser, FiniteSetTheorems, SequenceTheorems, TLAPS

USE DEF Lost

------------------------- (* induction over a text *) -----------------------
\* Every set of natural numbers that is not empty has a least element: the strict subsets
\* of an interval are well founded.
LEMMA LeastNumber ==
  ASSUME NEW S \in SUBSET Nat, S # {}
  PROVE  \E m \in S : \A n \in S : m <= n
<1>1. PICK n \in S : TRUE
  OBVIOUS
<1> DEFINE Below == {k \in S : k <= n}
           Family == {0..k : k \in Below}
<1>2. IsWellFoundedOn(StrictSubsetOrdering(0..n), FiniteSubsetsOf(0..n))
  BY FS_StrictSubsetOrderingWellFounded
<1>3. \A k \in Below : k \in Int /\ 0..k \subseteq 0..n /\ IsFiniteSet(0..k)
  BY <1>1, FS_Interval
<1>4. Family \subseteq FiniteSubsetsOf(0..n) /\ Family # {}
  BY <1>1, <1>3 DEF FiniteSubsetsOf
<1>5. PICK x \in Family : \A y \in Family : <<y, x>> \notin StrictSubsetOrdering(0..n)
  BY <1>2, <1>4, WFMin
<1>6. PICK m \in Below : x = 0..m
  BY <1>5
<1>7. ASSUME NEW k \in Below
      PROVE  ~(k < m)
  <2>1. SUFFICES ASSUME k < m PROVE FALSE
    OBVIOUS
  <2>2. 0..k \in Family /\ 0..k \subseteq 0..m /\ 0..k \in SUBSET (0..n) /\ 0..m \in SUBSET (0..n)
    BY <2>1, <1>3, <1>1
  <2>3. m \in 0..m /\ m \notin 0..k
    BY <2>1, <1>1
  <2>4. <<0..k, 0..m>> \in StrictSubsetOrdering(0..n)
    BY <2>2, <2>3, Zenon DEF StrictSubsetOrdering
  <2>. QED BY <1>5, <1>6, <2>2, <2>4
<1> QED BY <1>1, <1>6, <1>7

\* Induction over the natural numbers, for a set instead of a predicate.
LEMMA Induct ==
  ASSUME NEW S, 0 \in S, \A n \in Nat : n \in S => n + 1 \in S
  PROVE  Nat \subseteq S
<1> SUFFICES ASSUME Nat \ S # {} PROVE FALSE
  OBVIOUS
<1>1. PICK m \in Nat \ S : \A n \in Nat \ S : m <= n
  BY LeastNumber
<1> QED BY <1>1

-------------------------- (* pieces side by side *) ------------------------
\* Two sequences, one behind the other.
LEMMA ConcatAt ==
  ASSUME NEW T, NEW s \in Seq(T), NEW r \in Seq(T)
  PROVE  /\ s \o r \in Seq(T) /\ Len(s \o r) = Len(s) + Len(r)
         /\ Len(s) \in Nat /\ Len(r) \in Nat
         /\ \A k \in 1..Len(s) : (s \o r)[k] = s[k]
         /\ \A k \in 1..Len(r) : (s \o r)[Len(s) + k] = r[k]
<1>1. /\ s \o r \in Seq(T) /\ Len(s \o r) = Len(s) + Len(r)
      /\ \A i \in 1..Len(s) + Len(r) : (s \o r)[i] = IF i <= Len(s) THEN s[i] ELSE r[i - Len(s)]
  BY ConcatProperties
<1> DEFINE m == Len(s)  n == Len(r)
<1>2. m \in Nat /\ n \in Nat
  OBVIOUS
<1> HIDE DEF m, n
<1>3. \A k \in 1..m : k \in 1..m + n /\ k <= m
  BY <1>2
<1>4. \A k \in 1..n : m + k \in 1..m + n /\ ~(m + k <= m) /\ (m + k) - m = k
  BY <1>2
<1> USE DEF m, n
<1>5. \A k \in 1..Len(s) : (s \o r)[k] = s[k]
  BY <1>1, <1>3, Zenon
<1>6. \A k \in 1..Len(r) : (s \o r)[Len(s) + k] = r[k]
  BY <1>1, <1>4, Zenon
<1>. QED  BY <1>1, <1>2, <1>5, <1>6

\* One token, q[1], before a sequence, and behind one.
LEMMA Before ==
  ASSUME NEW T, NEW q \in Seq(T), Len(q) = 1, NEW s \in Seq(T)
  PROVE  /\ q \o s \in Seq(T) /\ Len(q \o s) = Len(s) + 1 /\ (q \o s)[1] = q[1]
         /\ \A k \in 1..Len(s) : (q \o s)[k + 1] = s[k]
<1> DEFINE m == Len(s)
<1>1. /\ q \o s \in Seq(T) /\ Len(q \o s) = Len(q) + m /\ m \in Nat
      /\ \A k \in 1..Len(q) : (q \o s)[k] = q[k]
      /\ \A k \in 1..m : (q \o s)[Len(q) + k] = s[k]
  BY ConcatAt, SMTT(60)
<1> HIDE DEF m
<1>2. /\ 1 + m = m + 1 /\ 1 \in 1..1 /\ \A k \in 1..m : 1 + k = k + 1
  BY <1>1
<1>3. /\ q \o s \in Seq(T) /\ Len(q \o s) = m + 1 /\ (q \o s)[1] = q[1]
      /\ \A k \in 1..m : (q \o s)[k + 1] = s[k]
  BY <1>1, <1>2
<1>. QED  BY <1>3 DEF m

LEMMA Behind ==
  ASSUME NEW T, NEW q \in Seq(T), Len(q) = 1, NEW s \in Seq(T)
  PROVE  /\ s \o q \in Seq(T) /\ Len(s \o q) = Len(s) + 1 /\ (s \o q)[Len(s) + 1] = q[1]
         /\ \A k \in 1..Len(s) : (s \o q)[k] = s[k]
<1> DEFINE m == Len(s)
<1>1. /\ s \o q \in Seq(T) /\ Len(s \o q) = m + Len(q) /\ m \in Nat
      /\ \A k \in 1..m : (s \o q)[k] = s[k]
      /\ \A k \in 1..Len(q) : (s \o q)[m + k] = q[k]
  BY ConcatAt
<1> HIDE DEF m
<1>2. 1 \in 1..1
  OBVIOUS
<1>3. /\ s \o q \in Seq(T) /\ Len(s \o q) = m + 1 /\ (s \o q)[m + 1] = q[1]
      /\ \A k \in 1..m : (s \o q)[k] = s[k]
  BY <1>1, <1>2
<1>. QED  BY <1>3 DEF m

\* The recursion in FlattenSeq has a solution, so that the function is one.
LEMMA FlattenDef ==
  ASSUME NEW n \in Nat \ {0}, NEW ss, Len(ss) = n
  PROVE  \E f : /\ f = [i \in 1..n |-> IF i = 1 THEN ss[i] ELSE f[i - 1] \o ss[i]]
                /\ FlattenSeq(ss) = f[n]
<1> DEFINE Following(f, i) == IF i = 1 THEN ss[i] ELSE f[i - 1] \o ss[i]
           Solved == {m \in Nat : \E f : f = [i \in 1..m |-> Following(f, i)]}
<1>1. 0 \in Solved
  <2>1. [i \in 1..0 |-> Following(<<>>, i)] = [i \in 1..0 |-> Following([k \in 1..0 |-> Following(<<>>, k)], i)]
    OBVIOUS
  <2>. QED BY <2>1
<1>2. ASSUME NEW m \in Nat, m \in Solved
      PROVE  m + 1 \in Solved
  <2>1. PICK f : f = [i \in 1..m |-> Following(f, i)]
    BY <1>2
  <2> DEFINE g == [i \in 1..(m + 1) |-> IF i = m + 1 THEN Following(f, m + 1) ELSE f[i]]
  <2>2. ASSUME NEW i \in 1..(m + 1)
        PROVE  g[i] = Following(g, i)
    <3>1. i # 1 => g[i - 1] = f[i - 1]
      OBVIOUS
    <3>2. CASE i = m + 1
      BY <3>1, <3>2
    <3>3. CASE i # m + 1
      <4>1. i \in 1..m /\ g[i] = f[i]
        BY <3>3
      <4>2. f[i] = Following(f, i)
        BY <2>1, <4>1
      <4>. QED BY <4>1, <4>2, <3>1
    <3>. QED BY <3>2, <3>3
  <2>3. g = [i \in 1..(m + 1) |-> Following(g, i)]
    BY <2>2
  <2> HIDE DEF g, Following
  <2>. QED BY <2>3
<1>3. \E f : f = [i \in 1..n |-> Following(f, i)]
  <2> HIDE DEF Following
  <2>. QED BY <1>1, <1>2, Induct
<1>4. FlattenSeq(ss) = (CHOOSE f : f = [i \in 1..n |-> Following(f, i)])[n]
  <2>1. Len(ss) # 0
    OBVIOUS
  <2>. QED  BY <2>1, Zenon DEF FlattenSeq
<1> QED BY <1>3, <1>4, Zenon

\* Where the pieces of a flattened sequence are: pre[i] is the length of the first i.
Pieces(T, n, ss, pre) ==
  /\ pre \in [0..n -> Nat] /\ pre[0] = 0
  /\ \A i \in 1..n : pre[i] = pre[i - 1] + Len(ss[i])
  /\ FlattenSeq(ss) \in Seq(T) /\ Len(FlattenSeq(ss)) = pre[n]
  /\ \A i \in 1..n : pre[i] <= pre[n]
  /\ \A i \in 1..n : \A k \in 1..Len(ss[i]) : FlattenSeq(ss)[pre[i - 1] + k] = ss[i][k]

LEMMA Flatten ==
  ASSUME NEW T, NEW n \in Nat \ {0}, NEW ss \in [1..n -> Seq(T)]
  PROVE  \E pre : Pieces(T, n, ss, pre)
<1>1. Len(ss) = n
  OBVIOUS
<1>2. PICK f : /\ f = [i \in 1..n |-> IF i = 1 THEN ss[i] ELSE f[i - 1] \o ss[i]]
               /\ FlattenSeq(ss) = f[n]
  BY <1>1, FlattenDef
<1>3. f[1] = ss[1] /\ \A i \in 2..n : f[i] = f[i - 1] \o ss[i]
  <2>1. \A i \in 1..n : f[i] = IF i = 1 THEN ss[i] ELSE f[i - 1] \o ss[i]
    BY <1>2, Zenon
  <2>2. 1 \in 1..n /\ \A i \in 2..n : i \in 1..n /\ i # 1
    OBVIOUS
  <2>. QED  BY <2>1, <2>2, Zenon
<1> DEFINE pre == [i \in 0..n |-> IF i = 0 THEN 0 ELSE Len(f[i])]
<1>4. pre[0] = 0 /\ (\A i \in 1..n : pre[i] = Len(f[i])) /\ pre = [i \in 0..n |-> pre[i]]
  OBVIOUS
<1> HIDE DEF pre
<1> DEFINE At(i, j) == /\ pre[j] = pre[j - 1] + Len(ss[j]) /\ pre[j] \in Nat /\ pre[j - 1] \in Nat
                       /\ pre[j] <= pre[i]
                       /\ \A k \in 1..Len(ss[j]) : f[i][pre[j - 1] + k] = ss[j][k]
           P(i) == f[i] \in Seq(T) /\ \A j \in 1..i : At(i, j)
           Good == {i \in Nat : i + 1 <= n => P(i + 1)}
<1> HIDE DEF At
<1>5. P(1)
  <2>0. 1 \in 1..n /\ 1 - 1 = 0
    OBVIOUS
  <2>1. ss[1] \in Seq(T) /\ pre[0] = 0 /\ pre[1] = Len(f[1])
    BY <1>4, <2>0
  <2>2. Len(ss[1]) \in Nat
    BY <2>1
  <2>3. At(1, 1)
    BY <1>3, <2>0, <2>1, <2>2 DEF At
  <2>4. \A j \in 1..1 : j = 1
    OBVIOUS
  <2>. QED  BY <1>3, <2>1, <2>3, <2>4
<1>6. ASSUME NEW m \in Nat \ {0}, m + 1 <= n, P(m)
      PROVE  P(m + 1)
  <2>1. m \in 1..n /\ m + 1 \in 1..n /\ m + 1 \in 2..n /\ (m + 1) - 1 = m
    BY <1>6
  <2>2. f[m + 1] = f[m] \o ss[m + 1] /\ ss[m + 1] \in Seq(T) /\ f[m] \in Seq(T)
    BY <1>3, <2>1, <1>6
  <2>3. pre[m + 1] = Len(f[m + 1]) /\ pre[m] = Len(f[m])
    BY <2>1, <1>4
  <2> DEFINE lm == Len(f[m])  ln == Len(ss[m + 1])
  <2>4. /\ f[m + 1] \in Seq(T) /\ Len(f[m + 1]) = lm + ln /\ lm \in Nat /\ ln \in Nat
        /\ \A k \in 1..lm : f[m + 1][k] = f[m][k]
        /\ \A k \in 1..ln : f[m + 1][lm + k] = ss[m + 1][k]
    <3> DEFINE a == f[m]  c == ss[m + 1]
    <3>1. a \in Seq(T) /\ c \in Seq(T) /\ f[m + 1] = a \o c
      BY <2>2
    <3> HIDE DEF a, c
    <3>2. /\ a \o c \in Seq(T) /\ Len(a \o c) = Len(a) + Len(c)
          /\ Len(a) \in Nat /\ Len(c) \in Nat
          /\ \A k \in 1..Len(a) : (a \o c)[k] = a[k]
          /\ \A k \in 1..Len(c) : (a \o c)[Len(a) + k] = c[k]
      BY <3>1, ConcatAt
    <3>. QED  BY <3>1, <3>2, Zenon DEF a, c
  <2>5. pre[m + 1] = lm + ln /\ pre[m] = lm /\ lm \in Nat
    BY <2>3, <2>4
  <2> HIDE DEF lm
  <2>6. At(m + 1, m + 1)
    <3>1. pre[m + 1] = pre[m] + ln /\ pre[m + 1] \in Nat /\ pre[m] \in Nat
      BY <2>4, <2>5
    <3>. QED  BY <2>1, <2>4, <2>5, <3>1, SMTT(60) DEF At
  <2>7. ASSUME NEW j \in 1..m
        PROVE  At(m + 1, j)
    <3>1. /\ pre[j] = pre[j - 1] + Len(ss[j]) /\ pre[j] \in Nat /\ pre[j - 1] \in Nat
          /\ pre[j] <= pre[m]
          /\ \A k \in 1..Len(ss[j]) : f[m][pre[j - 1] + k] = ss[j][k]
      BY <1>6 DEF At
    <3> DEFINE lj == Len(ss[j])
    <3>2. lj \in Nat
      <4>1. j \in 1..n /\ ss[j] \in Seq(T)
        BY <2>1
      <4>. QED  BY <4>1
    <3> HIDE DEF lj, ln
    <3>3. pre[j] <= pre[m + 1]
      BY <3>1, <2>4, <2>5
    <3>4. ASSUME NEW k \in 1..lj
          PROVE  f[m + 1][pre[j - 1] + k] = ss[j][k]
      <4>1. pre[j] = pre[j - 1] + lj
        BY <3>1 DEF lj
      <4>2. pre[j - 1] + k \in 1..lm
        <5>1. pre[j - 1] + lj <= lm /\ pre[j - 1] \in Nat
          <6>1. pre[j - 1] \in Nat /\ pre[j] <= pre[m]
            BY <3>1
          <6>. QED  BY <2>5, <4>1, <6>1
        <5> DEFINE q == pre[j - 1]
        <5>2. q \in Nat /\ q + lj <= lm
          BY <5>1
        <5> HIDE DEF q
        <5>3. q + k \in 1..lm
          BY <2>5, <3>2, <5>2
        <5>. QED  BY <5>3 DEF q
      <4>3. f[m][pre[j - 1] + k] = ss[j][k]
        BY <3>1 DEF lj
      <4>. QED  BY <4>2, <4>3, <2>4
    <3>. QED  BY <3>1, <3>3, <3>4 DEF At, lj
  <2>8. \A j \in 1..(m + 1) : j = m + 1 \/ j \in 1..m
    OBVIOUS
  <2>. QED  BY <2>4, <2>6, <2>7, <2>8
<1>7. P(n)
  <2> HIDE DEF P
  <2>1. 0 \in Good
    BY <1>5
  <2>2. ASSUME NEW i \in Nat, i \in Good PROVE i + 1 \in Good
    <3>1. SUFFICES ASSUME (i + 1) + 1 <= n PROVE P((i + 1) + 1)
      OBVIOUS
    <3>2. i + 1 <= n /\ i + 1 \in Nat \ {0}
      BY <3>1
    <3>. QED  BY <2>2, <3>1, <3>2, <1>6
  <2>3. Nat \subseteq Good
    <3> HIDE DEF Good
    <3>. QED  BY <2>1, <2>2, Induct
  <2>4. n - 1 \in Nat /\ (n - 1) + 1 = n /\ n <= n
    OBVIOUS
  <2>5. n - 1 \in Good
    BY <2>3, <2>4
  <2>. QED  BY <2>4, <2>5
<1>8. pre \in [0..n -> Nat]
  <2>1. ASSUME NEW j \in 0..n PROVE pre[j] \in Nat
    <3>1. CASE j = 0
      BY <3>1, <1>4
    <3>2. CASE j # 0
      <4>1. At(n, j)
        BY <3>2, <1>7
      <4>. QED  BY <4>1 DEF At
    <3>. QED  BY <3>1, <3>2
  <2>. QED  BY <2>1, <1>4
<1>9. /\ \A i \in 1..n : pre[i] = pre[i - 1] + Len(ss[i])
      /\ \A i \in 1..n : pre[i] <= pre[n]
      /\ \A i \in 1..n : \A k \in 1..Len(ss[i]) : f[n][pre[i - 1] + k] = ss[i][k]
  BY <1>7 DEF At
<1>10. f[n] \in Seq(T) /\ Len(f[n]) = pre[n] /\ pre[0] = 0
  <2>1. n \in 1..n
    OBVIOUS
  <2>. QED  BY <1>4, <1>7, <2>1
<1> DEFINE F == FlattenSeq(ss)
<1>11. F = f[n]
  BY <1>2
<1>12. Pieces(T, n, ss, pre)
  <2> HIDE DEF F
  <2>1. /\ pre \in [0..n -> Nat] /\ pre[0] = 0
        /\ \A i \in 1..n : pre[i] = pre[i - 1] + Len(ss[i])
        /\ F \in Seq(T) /\ Len(F) = pre[n]
        /\ \A i \in 1..n : pre[i] <= pre[n]
        /\ \A i \in 1..n : \A k \in 1..Len(ss[i]) : F[pre[i - 1] + k] = ss[i][k]
    BY <1>8, <1>9, <1>10, <1>11, Zenon
  <2>. QED  BY <2>1, Zenon DEF Pieces, F
<1>. QED  BY <1>12

---------------------------- (* the scanner *) --------------------------------
\* A scan that is said where it ends.
LEMMA PastFound ==
  ASSUME NEW b, Len(b) \in Nat, NEW p \in Nat \ {0}, NEW S, NEW n \in Nat, NEW i \in p..Len(b),
         b[i] \in S, \A j \in p..(i - 1) : b[j] \notin S
  PROVE  Past(b, p, S, n) = n + i
<1> DEFINE hits == {k \in p..Len(b) : b[k] \in S}
           least == CHOOSE k \in hits : \A j \in hits : k <= j
<1>1. i \in hits /\ \A j \in hits : i <= j
  OBVIOUS
<1>2. least \in hits /\ \A j \in hits : least <= j
  <2> HIDE DEF hits
  <2>. QED  BY <1>1
<1>3. least = i
  <2> HIDE DEF least
  <2>. QED  BY <1>1, <1>2
<1>4. Past(b, p, S, n) = IF p = 0 \/ hits = {} THEN 0 ELSE n + least
  BY DEF Past
<1> HIDE DEF hits, least
<1>. QED  BY <1>1, <1>3, <1>4

\* The same of a scan that stops at the token.
LEMMA PastStops ==
  ASSUME NEW b, Len(b) \in Nat, NEW p \in Nat \ {0}, NEW S, NEW i \in p..Len(b),
         b[i] \in S, \A j \in p..(i - 1) : b[j] \notin S
  PROVE  Past(b, p, S, 0) = i
<1>1. PICK n \in Nat : n = 0
  OBVIOUS
<1>2. Past(b, p, S, n) = n + i
  BY PastFound
<1>. QED  BY <1>1, <1>2

\* A scan finds nothing, or it says where it ends.
LEMMA PastCases ==
  ASSUME NEW b, Len(b) \in Nat, NEW p \in Nat, NEW S, NEW n \in Nat
  PROVE  \/ Past(b, p, S, n) = 0
         \/ /\ p # 0
            /\ \E i \in p..Len(b) : /\ b[i] \in S /\ (\A j \in p..(i - 1) : b[j] \notin S)
                                    /\ Past(b, p, S, n) = n + i
<1> DEFINE hits == {k \in p..Len(b) : b[k] \in S}
<1>1. CASE p = 0 \/ hits = {}
  BY <1>1 DEF Past
<1>2. CASE p # 0 /\ hits # {}
  <2>1. hits \in SUBSET Nat
    OBVIOUS
  <2>2. PICK l \in hits : \A j \in hits : l <= j
    <3> HIDE DEF hits
    <3>. QED  BY <1>2, <2>1, LeastNumber
  <2>3. PICK i \in p..Len(b) : b[i] \in S /\ \A j \in p..(i - 1) : b[j] \notin S
    BY <2>2
  <2>4. p \in Nat \ {0}
    BY <1>2
  <2> HIDE DEF hits
  <2>5. Past(b, p, S, n) = n + i
    BY <2>3, <2>4, PastFound
  <2>. QED  BY <2>3, <2>4, <2>5
<1>. QED  BY <1>1, <1>2

\* Where a scan may come to.
LEMMA PastRange ==
  ASSUME NEW b, Len(b) \in Nat, NEW p \in Nat, NEW S, NEW n \in Nat
  PROVE  /\ Past(b, p, S, n) \in Nat
         /\ Past(b, p, S, n) # 0 => /\ p # 0 /\ Past(b, p, S, n) \in (n + p)..(n + Len(b))
                                    /\ b[Past(b, p, S, n) - n] \in S
<1>1. CASE Past(b, p, S, n) = 0
  BY <1>1
<1>2. ASSUME p # 0, NEW i \in p..Len(b), b[i] \in S, Past(b, p, S, n) = n + i
      PROVE  Past(b, p, S, n) \in (n + p)..(n + Len(b)) /\ Past(b, p, S, n) - n = i
  BY <1>2
<1>. QED  BY <1>1, <1>2, PastCases

\* What Items says of one position, given what f says of the others.
Item(b, f, q) ==
  IF q = 0 \/ q > Len(b) THEN [at |-> 0, val |-> <<>>]
  ELSE IF b[q] = "]" THEN [at |-> q, val |-> <<>>]
  ELSE LET after == Past(b, q, {"quote"}, 1)
           stop == Past(b, after, {"quote", "]"}, 0)
           rest == f[IF stop # 0 /\ b[stop] = "quote" THEN stop + 1 ELSE stop]
       IN [at |-> rest.at, val |-> <<SubSeq(b, q, after - 2)>> \o rest.val]

\* The recursion of Items goes to the end of the buffer, or to where nothing is.
LEMMA ItemDepends ==
  ASSUME NEW b, Len(b) \in Nat, NEW q \in Nat, NEW f, NEW g,
         f[0] = g[0], \A r \in (q + 1)..(Len(b) + 1) : q # 0 => f[r] = g[r]
  PROVE  Item(b, f, q) = Item(b, g, q)
<1> SUFFICES ASSUME q # 0, ~(q > Len(b)), b[q] # "]"
             PROVE  Item(b, f, q) = Item(b, g, q)
  BY DEF Item
<1> DEFINE after == Past(b, q, {"quote"}, 1)
           stop == Past(b, after, {"quote", "]"}, 0)
           next == IF stop # 0 /\ b[stop] = "quote" THEN stop + 1 ELSE stop
<1>1. after \in Nat /\ (after # 0 => after \in (q + 1)..(Len(b) + 1))
  BY PastRange
<1>2. stop \in Nat /\ (stop # 0 => after # 0 /\ stop \in after..Len(b))
  <2> HIDE DEF after
  <2>. QED  BY <1>1, PastRange
<1> HIDE DEF after, stop
<1>3. next = 0 \/ next \in (q + 1)..(Len(b) + 1)
  BY <1>1, <1>2
<1>4. f[next] = g[next]
  <2> HIDE DEF next
  <2>. QED  BY <1>3
<1> HIDE DEF next
<1>5. \A h : Item(b, h, q) = [at |-> h[next].at, val |-> <<SubSeq(b, q, after - 2)>> \o h[next].val]
  BY Zenon DEF Item, after, stop, next
<1>. QED  BY <1>4, <1>5

LEMMA ItemsDef ==
  ASSUME NEW b, Len(b) \in Nat
  PROVE  \A q \in 0..(Len(b) + 2) : Items(b)[q] = Item(b, Items(b), q)
<1> DEFINE N == Len(b) + 2
           D(m) == {q \in 0..N : q = 0 \/ q + m >= N}
           Solved == {m \in Nat : \E f : f = [q \in D(m) |-> Item(b, f, q)]}
<1>1. 0 \in Solved
  <2> DEFINE f == [q \in D(0) |-> [at |-> 0, val |-> <<>>]]
  <2>1. \A q \in D(0) : q = 0 \/ q > Len(b)
    OBVIOUS
  <2>2. \A q \in D(0) : Item(b, f, q) = [at |-> 0, val |-> <<>>]
    BY <2>1, Zenon DEF Item
  <2>3. f = [q \in D(0) |-> Item(b, f, q)]
    <3> HIDE DEF D
    <3>. QED  BY <2>2
  <2> HIDE DEF f
  <2>. QED  BY <2>3
<1>2. ASSUME NEW m \in Nat, m \in Solved
      PROVE  m + 1 \in Solved
  <2>1. PICK f : f = [q \in D(m) |-> Item(b, f, q)]
    BY <1>2
  <2> DEFINE g == [q \in D(m + 1) |-> IF q \in D(m) THEN f[q] ELSE Item(b, f, q)]
  <2>2. ASSUME NEW q \in D(m + 1)
        PROVE  g[q] = Item(b, g, q)
    <3>1. /\ 0 \in D(m) /\ 0 \in D(m + 1) /\ q \in Nat
          /\ \A r \in (q + 1)..(Len(b) + 1) : q # 0 => r \in D(m) /\ r \in D(m + 1)
      <4> DEFINE l == Len(b)
      <4>1. l \in Nat /\ N = l + 2
        OBVIOUS
      <4> HIDE DEF l, N
      <4>2. N \in Nat /\ 0 \in D(m) /\ 0 \in D(m + 1) /\ q \in Nat /\ (q = 0 \/ q + (m + 1) >= N)
        BY <4>1
      <4>3. ASSUME NEW r \in (q + 1)..(l + 1)
            PROVE  q # 0 => r \in D(m) /\ r \in D(m + 1)
        BY <4>1, <4>2
      <4>. QED  BY <4>2, <4>3 DEF l
    <3>2. g[0] = f[0] /\ \A r \in (q + 1)..(Len(b) + 1) : q # 0 => g[r] = f[r]
      <4> HIDE DEF D
      <4>. QED  BY <3>1, Zenon
    <3>3. Item(b, g, q) = Item(b, f, q)
      <4> HIDE DEF g
      <4>. QED  BY <3>1, <3>2, ItemDepends
    <3>4. q \in D(m) => f[q] = Item(b, f, q)
      <4> HIDE DEF D
      <4>. QED  BY <2>1, Zenon
    <3>5. g[q] = IF q \in D(m) THEN f[q] ELSE Item(b, f, q)
      <4> HIDE DEF D
      <4>. QED  OBVIOUS
    <3> HIDE DEF g, D
    <3>. QED  BY <3>3, <3>4, <3>5
  <2>3. g = [q \in D(m + 1) |-> Item(b, g, q)]
    <3>1. g = [q \in D(m + 1) |-> g[q]]
      OBVIOUS
    <3> HIDE DEF g, D
    <3>. QED  BY <2>2, <3>1
  <2> HIDE DEF g, D
  <2>. QED  BY <2>3
<1>3. \E f : f = [q \in 0..N |-> Item(b, f, q)]
  <2>1. D(N) = 0..N /\ N \in Nat
    OBVIOUS
  <2>2. N \in Solved
    <3> HIDE DEF D, Solved, N
    <3>. QED  BY <1>1, <1>2, <2>1, Induct
  <2> HIDE DEF D, N
  <2>. QED  BY <2>1, <2>2
<1>4. Items(b) = CHOOSE f : f = [q \in 0..N |-> Item(b, f, q)]
  BY Zenon DEF Items, Item
<1>5. Items(b) = [q \in 0..N |-> Item(b, Items(b), q)]
  BY <1>3, <1>4, Zenon
<1>. QED  BY <1>5, Zenon

\* The recursion of Progress has a solution.
LEMMA ProgressDef ==
  ASSUME NEW b
  PROVE  /\ Progress(b)[0] = [at |-> 1, vals |-> <<>>]
         /\ \A i \in 1..16 :
              LET next == Read(b, Progress(b)[i - 1].at, Script[i])
              IN Progress(b)[i] = [at |-> next.at, vals |-> Append(Progress(b)[i - 1].vals, next.val)]
<1> DEFINE Following(f, i) ==
             IF i = 0 THEN [at |-> 1, vals |-> <<>>]
             ELSE LET next == Read(b, f[i - 1].at, Script[i])
                  IN [at |-> next.at, vals |-> Append(f[i - 1].vals, next.val)]
           Solved == {m \in Nat : \E f : f = [i \in 0..m |-> Following(f, i)]}
<1>0. \A f : Following(f, 0) = [at |-> 1, vals |-> <<>>]
  OBVIOUS
<1>1. ASSUME NEW f, NEW g, NEW i, f[i - 1] = g[i - 1]
      PROVE  Following(f, i) = Following(g, i)
  BY <1>1, Zenon
<1>2. 0 \in Solved
  <2> DEFINE f == [i \in 0..0 |-> [at |-> 1, vals |-> <<>>]]
  <2>1. \A i \in 0..0 : i = 0
    OBVIOUS
  <2> HIDE DEF Following
  <2>2. f = [i \in 0..0 |-> Following(f, i)]
    BY <2>1, <1>0
  <2> HIDE DEF f
  <2>. QED  BY <2>2
<1>3. ASSUME NEW m \in Nat, m \in Solved
      PROVE  m + 1 \in Solved
  <2> HIDE DEF Following
  <2>1. PICK f : f = [i \in 0..m |-> Following(f, i)]
    BY <1>3
  <2> DEFINE g == [i \in 0..(m + 1) |-> IF i = m + 1 THEN Following(f, m + 1) ELSE f[i]]
  <2>2. ASSUME NEW i \in 0..(m + 1)
        PROVE  g[i] = Following(g, i)
    <3>1. i # 0 => g[i - 1] = f[i - 1]
      OBVIOUS
    <3>2. Following(g, i) = Following(f, i)
      <4> HIDE DEF g
      <4>. QED  BY <3>1, <1>0, <1>1
    <3>3. CASE i = m + 1
      BY <3>2, <3>3
    <3>4. CASE i # m + 1
      <4>1. i \in 0..m /\ g[i] = f[i]
        BY <3>4
      <4>2. f[i] = Following(f, i)
        BY <2>1, <4>1
      <4>. QED BY <4>1, <4>2, <3>2
    <3>. QED BY <3>3, <3>4
  <2>3. g = [i \in 0..(m + 1) |-> Following(g, i)]
    BY <2>2
  <2> HIDE DEF g
  <2>. QED BY <2>3
<1>4. \E f : f = [i \in 0..16 |-> Following(f, i)]
  <2> HIDE DEF Following
  <2>. QED BY <1>2, <1>3, Induct
<1>5. Progress(b) = CHOOSE f : f = [i \in 0..16 |-> Following(f, i)]
  BY Zenon DEF Progress
<1>6. Progress(b) = [i \in 0..16 |-> Following(Progress(b), i)]
  BY <1>4, <1>5, Zenon
<1>7. \A i \in 0..16 : Progress(b)[i] = Following(Progress(b), i)
  BY <1>6, Zenon
<1>8. 0 \in 0..16 /\ \A i \in 1..16 : i \in 0..16 /\ i # 0
  OBVIOUS
<1>. QED  BY <1>7, <1>8, Zenon

----------------------- (* where a text has its tokens *) -------------------
LEMMA Marked == \A m \in Marks \cup {"{", "}", "key", "null"} : m \in Tokens
BY ParserAssumption DEF Tokens

LEMMA OneToken ==
  ASSUME NEW T, NEW a \in T
  PROVE  <<a>> \in Seq(T) /\ Len(<<a>>) = 1 /\ <<a>>[1] = a
OBVIOUS

LEMMA Alone ==
  /\ <<"quote">> \in Seq(Tokens) /\ Len(<<"quote">>) = 1 /\ <<"quote">>[1] = "quote"
  /\ <<",">> \in Seq(Tokens) /\ Len(<<",">>) = 1 /\ <<",">>[1] = ","
  /\ <<":">> \in Seq(Tokens) /\ Len(<<":">>) = 1 /\ <<":">>[1] = ":"
  /\ <<"[">> \in Seq(Tokens) /\ Len(<<"[">>) = 1 /\ <<"[">>[1] = "["
  /\ <<"{">> \in Seq(Tokens) /\ Len(<<"{">>) = 1 /\ <<"{">>[1] = "{"
  /\ <<"}">> \in Seq(Tokens) /\ Len(<<"}">>) = 1 /\ <<"}">>[1] = "}"
<1>1. /\ "quote" \in Tokens /\ "," \in Tokens /\ ":" \in Tokens /\ "[" \in Tokens
      /\ "{" \in Tokens /\ "}" \in Tokens
  BY Marked DEF Marks
<1>2. <<"quote">> \in Seq(Tokens) /\ Len(<<"quote">>) = 1 /\ <<"quote">>[1] = "quote"
  BY <1>1, OneToken
<1>3. <<",">> \in Seq(Tokens) /\ Len(<<",">>) = 1 /\ <<",">>[1] = ","
  BY <1>1, OneToken
<1>4. <<":">> \in Seq(Tokens) /\ Len(<<":">>) = 1 /\ <<":">>[1] = ":"
  BY <1>1, OneToken
<1>5. <<"[">> \in Seq(Tokens) /\ Len(<<"[">>) = 1 /\ <<"[">>[1] = "["
  BY <1>1, OneToken
<1>6. <<"{">> \in Seq(Tokens) /\ Len(<<"{">>) = 1 /\ <<"{">>[1] = "{"
  BY <1>1, OneToken
<1>7. <<"}">> \in Seq(Tokens) /\ Len(<<"}">>) = 1 /\ <<"}">>[1] = "}"
  BY <1>1, OneToken
<1>. QED  BY <1>2, <1>3, <1>4, <1>5, <1>6, <1>7, Zenon

LEMMA StringAt ==
  ASSUME NEW s \in Seq(Tokens)
  PROVE  /\ String(s) \in Seq(Tokens) /\ Len(s) \in Nat /\ Len(String(s)) = Len(s) + 2
         /\ String(s)[1] = "quote" /\ String(s)[Len(s) + 2] = "quote"
         /\ \A k \in 1..Len(s) : String(s)[1 + k] = s[k]
<1> DEFINE o == <<"quote">>  q == o \o s  m == Len(s)
<1>1. o \in Seq(Tokens) /\ Len(o) = 1 /\ o[1] = "quote"
  <2>1. "quote" \in Tokens
    BY Marked DEF Marks
  <2>. QED  BY <2>1
<1>2. String(s) = q \o o
  BY DEF String
<1> HIDE DEF o
<1>3. /\ q \in Seq(Tokens) /\ Len(q) = m + 1 /\ q[1] = "quote" /\ m \in Nat
      /\ \A k \in 1..m : q[k + 1] = s[k]
  BY <1>1, Before
<1> HIDE DEF q, m
<1>4. /\ String(s) \in Seq(Tokens) /\ Len(String(s)) = Len(q) + 1 /\ String(s)[Len(q) + 1] = "quote"
      /\ \A k \in 1..Len(q) : String(s)[k] = q[k]
  BY <1>1, <1>2, <1>3, Behind
<1>5. /\ (m + 1) + 1 = m + 2 /\ 1 \in 1..(m + 1)
      /\ \A k \in 1..m : k + 1 \in 1..(m + 1) /\ 1 + k = k + 1
  BY <1>3
<1>. QED  BY <1>3, <1>4, <1>5 DEF m

LEMMA Offsets ==
  ASSUME NEW m \in Nat
  PROVE  /\ 1 \in 1..(m + 2) /\ m + 2 \in 1..(m + 2) /\ (m + 2) + 1 = m + 3
         /\ \A k \in 1..m : 1 + k \in 1..(m + 2)
OBVIOUS

\* An element of a list, with its comma.
LEMMA ElementAt ==
  ASSUME NEW s \in Seq(Tokens), NEW c \in Seq(Tokens), Len(c) = 1, c[1] = ","
  PROVE  /\ String(s) \o c \in Seq(Tokens) /\ Len(String(s) \o c) = Len(s) + 3
         /\ (String(s) \o c)[1] = "quote" /\ (String(s) \o c)[Len(s) + 2] = "quote"
         /\ (String(s) \o c)[Len(s) + 3] = ","
         /\ \A k \in 1..Len(s) : (String(s) \o c)[1 + k] = s[k]
<1> DEFINE q == String(s)  m == Len(s)
<1>1. /\ q \in Seq(Tokens) /\ m \in Nat /\ Len(q) = m + 2
      /\ q[1] = "quote" /\ q[m + 2] = "quote" /\ \A k \in 1..m : q[1 + k] = s[k]
  BY StringAt
<1> HIDE DEF q, m
<1>2. /\ q \o c \in Seq(Tokens) /\ Len(q \o c) = Len(q) + 1 /\ (q \o c)[Len(q) + 1] = ","
      /\ \A k \in 1..Len(q) : (q \o c)[k] = q[k]
  <2>1. q \in Seq(Tokens)
    BY <1>1
  <2>. QED  BY <2>1, Behind
<1>3. /\ 1 \in 1..(m + 2) /\ m + 2 \in 1..(m + 2) /\ (m + 2) + 1 = m + 3
      /\ \A k \in 1..m : 1 + k \in 1..(m + 2)
  <2>1. m \in Nat
    BY <1>1
  <2>. QED  BY <2>1, Offsets
<1>4. /\ q \o c \in Seq(Tokens) /\ Len(q \o c) = m + 3
      /\ (q \o c)[1] = "quote" /\ (q \o c)[m + 2] = "quote" /\ (q \o c)[m + 3] = ","
      /\ \A k \in 1..m : (q \o c)[1 + k] = s[k]
  BY <1>1, <1>2, <1>3
<1>. QED  BY <1>4 DEF q, m

\* The elements of a list lie side by side, each behind its quote and before quote and comma.
ListPieces(l, pre) ==
  /\ pre \in [0..Len(l) -> Nat]
  /\ pre[0] = 0 /\ Len(List(l)) = pre[Len(l)] + 3 /\ List(l)[1] = "["
  /\ List(l)[pre[Len(l)] + 2] = "null" /\ List(l)[pre[Len(l)] + 3] = "]"
  /\ \A j \in 1..Len(l) :
       /\ pre[j] = pre[j - 1] + Len(l[j]) + 3 /\ pre[j] <= pre[Len(l)]
       /\ List(l)[pre[j - 1] + 2] = "quote"
       /\ \A k \in 1..Len(l[j]) : List(l)[pre[j - 1] + 2 + k] = l[j][k]
       /\ List(l)[pre[j - 1] + 3 + Len(l[j])] = "quote"
       /\ List(l)[pre[j - 1] + 4 + Len(l[j])] = ","

LEMMA ListAt ==
  ASSUME NEW l \in PlainList
  PROVE  /\ List(l) \in Seq(Tokens) /\ Len(l) \in Nat \ {0} /\ Len(l) < ExecArgc
         /\ \A j \in 1..Len(l) : l[j] \in Seq(Tokens) /\ Len(l[j]) \in Nat
         /\ \E pre : ListPieces(l, pre)
<1> DEFINE n == Len(l)
           ss == [j \in DOMAIN l |-> String(l[j]) \o <<",">>]
           F == FlattenSeq(ss)
<1>1. /\ n \in Nat \ {0} /\ n < ExecArgc /\ DOMAIN l = 1..n
      /\ \A j \in 1..n : l[j] \in Seq(Tokens) /\ Len(l[j]) \in Nat
  <2>1. l \in Seq(Plain) /\ n \in 1..(ExecArgc - 1) /\ ExecArgc \in Nat
    BY ParserAssumption DEF PlainList
  <2>2. \A j \in 1..n : l[j] \in Plain
    BY <2>1
  <2>3. \A s \in Plain : s \in Seq(Tokens) /\ Len(s) \in Nat
    BY DEF Plain
  <2>4. DOMAIN l = 1..n
    BY <2>1
  <2> HIDE DEF n
  <2>. QED  BY <2>1, <2>2, <2>3, <2>4
<1>2. List(l) = (<<"[">> \o F) \o <<"null", "]">>
  BY DEF List
<1>3. ASSUME NEW j \in 1..n
      PROVE  /\ ss[j] \in Seq(Tokens) /\ Len(ss[j]) = Len(l[j]) + 3
             /\ ss[j][1] = "quote" /\ ss[j][Len(l[j]) + 2] = "quote" /\ ss[j][Len(l[j]) + 3] = ","
             /\ \A k \in 1..Len(l[j]) : ss[j][1 + k] = l[j][k]
  <2>1. ss[j] = String(l[j]) \o <<",">> /\ l[j] \in Seq(Tokens)
    BY <1>1
  <2> DEFINE s == l[j]  c == <<",">>  e == String(s) \o c
  <2>2. c \in Seq(Tokens) /\ Len(c) = 1 /\ c[1] = "," /\ s \in Seq(Tokens) /\ e = ss[j]
    BY <2>1, Alone, Zenon
  <2> HIDE DEF s, c, ss
  <2>3. /\ e \in Seq(Tokens) /\ Len(e) = Len(s) + 3
        /\ e[1] = "quote" /\ e[Len(s) + 2] = "quote" /\ e[Len(s) + 3] = ","
        /\ \A k \in 1..Len(s) : e[1 + k] = s[k]
    BY <2>2, ElementAt
  <2> HIDE DEF e
  <2>. QED  BY <2>2, <2>3, Zenon DEF s
<1>4. ss \in [1..n -> Seq(Tokens)]
  <2>1. ss = [j \in 1..n |-> ss[j]]
    BY <1>1
  <2> HIDE DEF ss
  <2>. QED  BY <1>3, <2>1
<1> HIDE DEF ss
<1>5. PICK pre : Pieces(Tokens, n, ss, pre)
  <2>1. n \in Nat \ {0}
    BY <1>1
  <2> HIDE DEF n
  <2>. QED  BY <2>1, <1>4, Flatten
<1>5a. /\ pre \in [0..n -> Nat] /\ pre[0] = 0
       /\ \A j \in 1..n : pre[j] = pre[j - 1] + Len(ss[j])
       /\ F \in Seq(Tokens) /\ Len(F) = pre[n]
       /\ \A j \in 1..n : pre[j] <= pre[n]
       /\ \A j \in 1..n : \A k \in 1..Len(ss[j]) : F[pre[j - 1] + k] = ss[j][k]
  BY <1>5, Zenon DEF Pieces
<1> HIDE DEF F
<1> DEFINE G == <<"[">> \o F
           m == pre[n]
<1>6. m \in Nat
  BY <1>1, <1>5a
<1>7. /\ G \in Seq(Tokens) /\ Len(G) = m + 1 /\ G[1] = "["
      /\ \A k \in 1..m : G[1 + k] = F[k]
  <2> DEFINE o == <<"[">>
  <2>1. o \in Seq(Tokens) /\ Len(o) = 1 /\ o[1] = "["
    <3>1. "[" \in Tokens
      BY Marked DEF Marks
    <3>. QED  BY <3>1
  <2>2. /\ G \in Seq(Tokens) /\ Len(G) = Len(F) + 1
        /\ G[1] = "[" /\ \A k \in 1..Len(F) : G[k + 1] = F[k]
    <3>1. G = o \o F
      OBVIOUS
    <3> HIDE DEF o, G
    <3>2. o \o F \in Seq(Tokens) /\ Len(o \o F) = Len(F) + 1
          /\ (o \o F)[1] = o[1] /\ \A k \in 1..Len(F) : (o \o F)[k + 1] = F[k]
      BY <2>1, <1>5a, Before
    <3>. QED  BY <2>1, <3>1, <3>2
  <2>3. Len(F) = m
    BY <1>5a
  <2> HIDE DEF G, m
  <2>4. \A k \in 1..m : 1 + k = k + 1
    BY <1>6
  <2>. QED  BY <2>2, <2>3, <2>4
<1> HIDE DEF G
<1>8. /\ List(l) \in Seq(Tokens) /\ Len(List(l)) = m + 3 /\ List(l)[1] = "["
      /\ List(l)[m + 2] = "null" /\ List(l)[m + 3] = "]"
      /\ \A k \in 1..m : List(l)[1 + k] = F[k]
  <2> DEFINE e == <<"null", "]">>
  <2>1. e \in Seq(Tokens) /\ Len(e) = 2 /\ e[1] = "null" /\ e[2] = "]"
    <3>1. "null" \in Tokens /\ "]" \in Tokens
      BY Marked DEF Marks
    <3>. QED  BY <3>1
  <2> HIDE DEF e
  <2>2. /\ G \o e \in Seq(Tokens) /\ Len(G \o e) = Len(G) + 2
        /\ (\A k \in 1..Len(G) : (G \o e)[k] = G[k]) /\ \A k \in 1..2 : (G \o e)[Len(G) + k] = e[k]
    <3>1. /\ e \in Seq(Tokens) /\ G \in Seq(Tokens)
      BY <2>1, <1>7
    <3>2. /\ G \o e \in Seq(Tokens) /\ Len(G \o e) = Len(G) + Len(e)
          /\ \A k \in 1..Len(G) : (G \o e)[k] = G[k]
          /\ \A k \in 1..Len(e) : (G \o e)[Len(G) + k] = e[k]
      BY <3>1, ConcatAt
    <3>. QED  BY <3>2, <2>1
  <2>3. List(l) = G \o e
    BY <1>2 DEF G, e
  <2> HIDE DEF m
  <2>4. /\ 1 \in 1..(m + 1) /\ (m + 1) + 1 = m + 2 /\ (m + 1) + 2 = m + 3 /\ 1 \in 1..2 /\ 2 \in 1..2
        /\ \A k \in 1..m : 1 + k \in 1..(m + 1)
    BY <1>6
  <2>. QED  BY <2>1, <2>2, <2>3, <2>4, <1>7
<1>9. ASSUME NEW j \in 1..n
      PROVE  /\ pre[j] = pre[j - 1] + Len(l[j]) + 3 /\ pre[j] <= m
             /\ List(l)[pre[j - 1] + 2] = "quote"
             /\ \A k \in 1..Len(l[j]) : List(l)[pre[j - 1] + 2 + k] = l[j][k]
             /\ List(l)[pre[j - 1] + 3 + Len(l[j])] = "quote"
             /\ List(l)[pre[j - 1] + 4 + Len(l[j])] = ","
  <2> DEFINE h == pre[j - 1]  c == Len(l[j])
  <2>1. h \in Nat /\ pre[j] \in Nat
    <3>1. j \in 0..n /\ j - 1 \in 0..n
      BY <1>1
    <3> HIDE DEF n
    <3>. QED  BY <3>1, <1>5a
  <2>2. c \in Nat
    BY <1>1
  <2>3. /\ Len(ss[j]) = c + 3 /\ ss[j][1] = "quote" /\ ss[j][c + 2] = "quote" /\ ss[j][c + 3] = ","
        /\ \A k \in 1..c : ss[j][1 + k] = l[j][k]
    BY <1>3
  <2>4. pre[j] = h + Len(ss[j]) /\ pre[j] <= m /\ \A k \in 1..Len(ss[j]) : F[h + k] = ss[j][k]
    BY <1>5a
  <2> HIDE DEF h, c, m, n
  <2>5. \A k \in 1..(c + 3) : h + k \in 1..m /\ F[h + k] = ss[j][k] /\ 1 + (h + k) = h + 1 + k
    <3>1. ASSUME NEW k \in 1..(c + 3)
          PROVE  h + k \in 1..m /\ F[h + k] = ss[j][k] /\ 1 + (h + k) = h + 1 + k
      <4>1. pre[j] = h + (c + 3)
        BY <2>3, <2>4
      <4>2. h + k \in 1..m /\ 1 + (h + k) = h + 1 + k
        BY <2>1, <2>2, <2>4, <4>1, <1>6
      <4>3. F[h + k] = ss[j][k]
        BY <2>3, <2>4
      <4>. QED  BY <4>2, <4>3
    <3>. QED  BY <3>1
  <2>6. \A k \in 1..(c + 3) : List(l)[h + 1 + k] = ss[j][k]
    BY <2>5, <1>8
  <2>7. /\ 1 \in 1..(c + 3) /\ c + 2 \in 1..(c + 3) /\ c + 3 \in 1..(c + 3)
        /\ h + 1 + 1 = h + 2 /\ h + 1 + (c + 2) = h + 3 + c /\ h + 1 + (c + 3) = h + 4 + c
        /\ \A k \in 1..c : 1 + k \in 1..(c + 3) /\ h + 1 + (1 + k) = h + 2 + k
    BY <2>1, <2>2
  <2>8. /\ List(l)[h + 2] = "quote" /\ List(l)[h + 3 + c] = "quote" /\ List(l)[h + 4 + c] = ","
        /\ \A k \in 1..c : List(l)[h + 2 + k] = l[j][k]
    <3>1. List(l)[h + 2] = "quote" /\ List(l)[h + 3 + c] = "quote" /\ List(l)[h + 4 + c] = ","
      <4>1. List(l)[h + 1 + 1] = ss[j][1] /\ List(l)[h + 1 + (c + 2)] = ss[j][c + 2]
            /\ List(l)[h + 1 + (c + 3)] = ss[j][c + 3]
        BY <2>6, <2>7
      <4>. QED  BY <4>1, <2>3, <2>7
    <3>2. ASSUME NEW k \in 1..c PROVE List(l)[h + 2 + k] = l[j][k]
      <4>1. List(l)[h + 1 + (1 + k)] = ss[j][1 + k]
        BY <2>6, <2>7
      <4>. QED  BY <4>1, <2>3, <2>7
    <3>. QED  BY <3>1, <3>2
  <2>9. pre[j] = h + c + 3 /\ pre[j] <= m
    <3>1. pre[j] = h + (c + 3) /\ pre[j] <= m
      BY <2>3, <2>4
    <3>. QED  BY <2>1, <2>2, <3>1
  <2>. QED  BY <2>8, <2>9 DEF h, c
<1>10. ListPieces(l, pre)
  BY <1>5a, <1>8, <1>9 DEF ListPieces
<1>. QED  BY <1>1, <1>8, <1>10

\* What the parser is to make of the i-th member.
Value(t, i) ==
  IF i <= 6 THEN t.limits[i]
  ELSE IF i = 11 THEN t.argv ELSE IF i = 12 THEN t.envp
  ELSE t.paths[IF i <= 10 THEN i - 6 ELSE i - 8]

\* The text of a number, of a string or of a list.
Written(i, v) == IF i <= 6 THEN <<v>> ELSE IF i \in {11, 12} THEN List(v) ELSE String(v)

LEMMA PlainTypes ==
  ASSUME NEW t \in PlainTask
  PROVE  /\ \A i \in 1..6 : t.limits[i] \in Numerals /\ t.limits[i] \in Tokens
         /\ \A i \in 1..8 : t.paths[i] \in Plain /\ t.paths[i] \in Seq(Tokens)
         /\ t.argv \in PlainList /\ t.envp \in PlainList
<1>1. Numerals \subseteq Tokens
  BY ParserAssumption DEF Tokens
<1>2. Plain \subseteq Seq(Tokens)
  BY DEF Plain
<1>3. /\ t.limits \in [1..6 -> Numerals] /\ t.paths \in [1..8 -> Plain]
      /\ t.argv \in PlainList /\ t.envp \in PlainList
  BY DEF PlainTask
<1>. QED  BY <1>1, <1>2, <1>3

LEMMA Row ==
  ASSUME NEW T, NEW n \in Nat, NEW f, f = [k \in 1..n |-> f[k]], \A k \in 1..n : f[k] \in T
  PROVE  f \in Seq(T) /\ Len(f) = n
<1>1. f \in [1..n -> T]
  OBVIOUS
<1>. QED  BY <1>1

LEMMA ValueTypes ==
  ASSUME NEW t \in PlainTask, NEW i \in 1..16
  PROVE  /\ i <= 6 => Value(t, i) \in Numerals
         /\ i \in {11, 12} => Value(t, i) \in PlainList
         /\ ~(i <= 6) /\ i \notin {11, 12} => Value(t, i) \in Plain
<1>1. CASE i <= 6
  <2>1. i \in 1..6
    BY <1>1
  <2>. QED  BY <1>1, <2>1, PlainTypes DEF Value
<1>2. CASE i \in {11, 12}
  BY <1>2, PlainTypes DEF Value
<1>3. CASE ~(i <= 6) /\ i \notin {11, 12} /\ i <= 10
  <2>1. i - 6 \in 1..8
    BY <1>3
  <2>. QED  BY <1>3, <2>1, PlainTypes DEF Value
<1>4. CASE ~(i <= 6) /\ i \notin {11, 12} /\ ~(i <= 10)
  <2>1. i - 8 \in 1..8
    BY <1>4
  <2>. QED  BY <1>4, <2>1, PlainTypes DEF Value
<1>. QED  BY <1>1, <1>2, <1>3, <1>4

LEMMA MembersAt ==
  ASSUME NEW t \in PlainTask, NEW i \in 1..16
  PROVE  Members(t)[i] = Written(i, Value(t, i)) /\ Members(t)[i] \in Seq(Tokens)
<1> DEFINE E == Seq(Tokens)
           A == [k \in 1..6 |-> <<t.limits[k]>>]
           B == [k \in 1..4 |-> String(t.paths[k])]
           C == <<List(t.argv), List(t.envp)>>
           D == [k \in 1..4 |-> String(t.paths[k + 4])]
<1>1. Members(t) = ((A \o B) \o C) \o D
  BY Zenon DEF Members
<1>2. \A k \in 1..8 : String(t.paths[k]) \in E
  <2>1. ASSUME NEW k \in 1..8
        PROVE  String(t.paths[k]) \in E
    <3>1. t.paths[k] \in Seq(Tokens)
      BY PlainTypes
    <3>. QED  BY <3>1, StringAt
  <2>. QED  BY <2>1
<1>3. \A k \in 1..6 : <<t.limits[k]>> \in E
  BY PlainTypes, OneToken
<1>4. List(t.argv) \in E /\ List(t.envp) \in E
  BY PlainTypes, ListAt
<1> HIDE DEF E
<1>5. /\ A = [k \in 1..6 |-> A[k]] /\ B = [k \in 1..4 |-> B[k]] /\ D = [k \in 1..4 |-> D[k]]
      /\ \A k \in 1..6 : A[k] = <<t.limits[k]>> /\ A[k] \in E
      /\ \A k \in 1..4 : B[k] = String(t.paths[k]) /\ B[k] \in E
      /\ \A k \in 1..4 : D[k] = String(t.paths[k + 4]) /\ D[k] \in E
  BY <1>2, <1>3
<1>6. C \in Seq(E) /\ Len(C) = 2 /\ C[1] = List(t.argv) /\ C[2] = List(t.envp) /\ C[1] \in E /\ C[2] \in E
  BY <1>4
<1> HIDE DEF A, B, C, D
<1>7. A \in Seq(E) /\ Len(A) = 6 /\ B \in Seq(E) /\ Len(B) = 4 /\ D \in Seq(E) /\ Len(D) = 4
  <2>1. 6 \in Nat /\ 4 \in Nat
    OBVIOUS
  <2>2. A \in Seq(E) /\ Len(A) = 6
    BY <1>5, <2>1, Row
  <2>3. B \in Seq(E) /\ Len(B) = 4
    BY <1>5, <2>1, Row
  <2>4. D \in Seq(E) /\ Len(D) = 4
    BY <1>5, <2>1, Row
  <2>. QED  BY <2>2, <2>3, <2>4
<1> DEFINE AB == A \o B
<1>8. /\ AB \in Seq(E) /\ Len(AB) = Len(A) + Len(B)
      /\ \A k \in 1..Len(A) : AB[k] = A[k]
      /\ \A k \in 1..Len(B) : AB[Len(A) + k] = B[k]
  <2>1. A \in Seq(E) /\ B \in Seq(E)
    BY <1>7
  <2>. QED  BY <2>1, ConcatAt
<1>9. AB \in Seq(E) /\ Len(AB) = 10
  BY <1>7, <1>8
<1> DEFINE ABC == AB \o C
<1> HIDE DEF AB
<1>10. /\ ABC \in Seq(E) /\ Len(ABC) = Len(AB) + Len(C)
       /\ \A k \in 1..Len(AB) : ABC[k] = AB[k]
       /\ \A k \in 1..Len(C) : ABC[Len(AB) + k] = C[k]
  <2>1. AB \in Seq(E) /\ C \in Seq(E)
    BY <1>9, <1>6
  <2>. QED  BY <2>1, ConcatAt
<1>11. ABC \in Seq(E) /\ Len(ABC) = 12
  BY <1>6, <1>9, <1>10
<1> HIDE DEF ABC
<1>12. /\ \A k \in 1..Len(ABC) : (ABC \o D)[k] = ABC[k]
       /\ \A k \in 1..Len(D) : (ABC \o D)[Len(ABC) + k] = D[k]
  <2>1. ABC \in Seq(E) /\ D \in Seq(E)
    BY <1>11, <1>7
  <2>. QED  BY <2>1, ConcatAt
<1>13. Members(t) = ABC \o D
  BY <1>1 DEF AB, ABC
<1>14. \A k \in 1..12 : Members(t)[k] = ABC[k]
  BY <1>11, <1>12, <1>13
<1>15. \A k \in 1..4 : Members(t)[12 + k] = D[k]
  BY <1>7, <1>11, <1>12, <1>13
<1>16. (\A k \in 1..10 : ABC[k] = AB[k]) /\ \A k \in 1..2 : ABC[10 + k] = C[k]
  BY <1>6, <1>9, <1>10
<1>17. (\A k \in 1..6 : AB[k] = A[k]) /\ \A k \in 1..4 : AB[6 + k] = B[k]
  BY <1>7, <1>8
<1>18. CASE i \in 1..6
  <2>1. i \in 1..12 /\ i \in 1..10 /\ i <= 6
    BY <1>18
  <2>2. Members(t)[i] = <<t.limits[i]>> /\ Members(t)[i] \in E
    BY <1>18, <2>1, <1>14, <1>16, <1>17, <1>5
  <2>. QED  BY <2>1, <2>2 DEF Written, Value, E
<1>19. CASE i \in 7..10
  <2>1. /\ i \in 1..12 /\ i \in 1..10 /\ i - 6 \in 1..4 /\ 6 + (i - 6) = i
        /\ ~(i <= 6) /\ i <= 10 /\ i # 11 /\ i # 12
    BY <1>19
  <2>2. Members(t)[i] = AB[6 + (i - 6)]
    BY <2>1, <1>14, <1>16
  <2>3. Members(t)[i] = String(t.paths[i - 6]) /\ Members(t)[i] \in E
    BY <2>1, <2>2, <1>17, <1>5
  <2>. QED  BY <2>1, <2>3 DEF Written, Value, E
<1>20. CASE i \in {11, 12}
  <2>1. /\ i \in 1..12 /\ i - 10 \in 1..2 /\ 10 + (i - 10) = i /\ ~(i <= 6)
        /\ (i = 11 => i - 10 = 1) /\ (i = 12 => i - 10 = 2)
    BY <1>20
  <2>2. Members(t)[i] = C[i - 10]
    BY <2>1, <1>14, <1>16
  <2>3. Members(t)[i] \in E /\ (i = 11 => Members(t)[i] = List(t.argv)) /\ (i = 12 => Members(t)[i] = List(t.envp))
    BY <1>20, <2>1, <2>2, <1>6
  <2>. QED  BY <1>20, <2>3 DEF Written, Value, E
<1>21. CASE i \in 13..16
  <2>1. /\ i - 12 \in 1..4 /\ 12 + (i - 12) = i /\ (i - 12) + 4 = i - 8
        /\ ~(i <= 6) /\ ~(i <= 10) /\ i # 11 /\ i # 12
    BY <1>21
  <2>2. Members(t)[i] = D[i - 12]
    BY <2>1, <1>15
  <2>3. Members(t)[i] = String(t.paths[i - 8]) /\ Members(t)[i] \in E
    BY <2>1, <2>2, <1>5
  <2>. QED  BY <2>1, <2>3 DEF Written, Value, E
<1>. QED  BY <1>18, <1>19, <1>20, <1>21

\* A member behind its separator q and its key.
Piece(q, m) == q \o (String(<<"key">>) \o <<":">> \o m)

LEMMA PieceAt ==
  ASSUME NEW q \in Seq(Tokens), Len(q) = 1, NEW m \in Seq(Tokens)
  PROVE  /\ Piece(q, m) \in Seq(Tokens) /\ Len(m) \in Nat /\ Len(Piece(q, m)) = Len(m) + 5
         /\ Piece(q, m)[1] = q[1] /\ Piece(q, m)[2] = "quote" /\ Piece(q, m)[3] = "key"
         /\ Piece(q, m)[4] = "quote" /\ Piece(q, m)[5] = ":"
         /\ \A k \in 1..Len(m) : Piece(q, m)[k + 5] = m[k]
<1> DEFINE piece == Piece(q, m)
<1> DEFINE w == <<"key">>  K == String(w)  c == <<":">>
<1>1. w \in Seq(Tokens) /\ Len(w) = 1 /\ w[1] = "key"
  <2>1. "key" \in Tokens
    BY Marked
  <2>. QED  BY <2>1, OneToken
<1>2. c \in Seq(Tokens) /\ Len(c) = 1 /\ c[1] = ":"
  BY Alone, Zenon
<1>3. piece = q \o ((K \o c) \o m)
  BY Zenon DEF Piece
<1> HIDE DEF piece
<1> HIDE DEF w, c
<1>4. /\ K \in Seq(Tokens) /\ Len(K) = Len(w) + 2 /\ K[1] = "quote" /\ K[Len(w) + 2] = "quote"
      /\ \A k \in 1..Len(w) : K[1 + k] = w[k]
  BY <1>1, StringAt
<1> HIDE DEF K
<1>5. K \in Seq(Tokens) /\ Len(K) = 3 /\ K[1] = "quote" /\ K[2] = "key" /\ K[3] = "quote"
  <2>1. 1 + 2 = 3 /\ 1 \in 1..1 /\ 1 + 1 = 2
    OBVIOUS
  <2>. QED  BY <2>1, <1>1, <1>4
<1>6. /\ K \o c \in Seq(Tokens) /\ Len(K \o c) = Len(K) + 1 /\ (K \o c)[Len(K) + 1] = c[1]
      /\ \A k \in 1..Len(K) : (K \o c)[k] = K[k]
  <2>1. K \in Seq(Tokens)
    BY <1>5
  <2>. QED  BY <1>2, <2>1, Behind
<1> DEFINE Kc == K \o c
<1>7. /\ Kc \in Seq(Tokens) /\ Len(Kc) = 4 /\ Kc[1] = "quote" /\ Kc[2] = "key" /\ Kc[3] = "quote"
      /\ Kc[4] = ":"
  <2>1. 3 + 1 = 4 /\ 1 \in 1..3 /\ 2 \in 1..3 /\ 3 \in 1..3
    OBVIOUS
  <2>. QED  BY <2>1, <1>2, <1>5, <1>6
<1> HIDE DEF Kc
<1> DEFINE r == Kc \o m  l == Len(m)
<1>8. /\ r \in Seq(Tokens) /\ Len(r) = Len(Kc) + l /\ l \in Nat
      /\ \A k \in 1..Len(Kc) : r[k] = Kc[k]
      /\ \A k \in 1..l : r[Len(Kc) + k] = m[k]
  <2>1. Kc \in Seq(Tokens)
    BY <1>7
  <2>. QED  BY <2>1, ConcatAt
<1>9. piece = q \o r
  BY <1>3 DEF Kc
<1> HIDE DEF r, l
<1>10. /\ q \o r \in Seq(Tokens) /\ Len(q \o r) = Len(r) + 1 /\ (q \o r)[1] = q[1]
       /\ \A k \in 1..Len(r) : (q \o r)[k + 1] = r[k]
  <2>1. r \in Seq(Tokens)
    BY <1>8
  <2>. QED  BY <2>1, Before
<1>11. /\ Len(r) = 4 + l /\ l \in Nat /\ \A k \in 1..(4 + l) : piece[k + 1] = r[k]
       /\ \A k \in 1..l : r[4 + k] = m[k]
       /\ r[1] = "quote" /\ r[2] = "key" /\ r[3] = "quote" /\ r[4] = ":"
  <2>1. 1 \in 1..4 /\ 2 \in 1..4 /\ 3 \in 1..4 /\ 4 \in 1..4
    OBVIOUS
  <2>. QED  BY <2>1, <1>7, <1>8, <1>9, <1>10
<1>12. /\ (4 + l) + 1 = l + 5 /\ 1 + 1 = 2 /\ 2 + 1 = 3 /\ 3 + 1 = 4 /\ 4 + 1 = 5
       /\ 1 \in 1..(4 + l) /\ 2 \in 1..(4 + l) /\ 3 \in 1..(4 + l) /\ 4 \in 1..(4 + l)
       /\ \A k \in 1..l : 4 + k \in 1..(4 + l) /\ (4 + k) + 1 = k + 5
  <2>1. l \in Nat
    BY <1>8
  <2>. QED  BY <2>1
<1>13. piece[2] = "quote" /\ piece[3] = "key" /\ piece[4] = "quote" /\ piece[5] = ":"
  <2>1. piece[1 + 1] = r[1] /\ piece[2 + 1] = r[2] /\ piece[3 + 1] = r[3] /\ piece[4 + 1] = r[4]
    BY <1>11, <1>12
  <2>. QED  BY <2>1, <1>11, <1>12
<1>14. \A k \in 1..l : piece[k + 5] = m[k]
  BY <1>11, <1>12
<1>15. piece \in Seq(Tokens) /\ Len(piece) = l + 5 /\ piece[1] = q[1]
  BY <1>8, <1>9, <1>10, <1>11, <1>12
<1>. QED  BY <1>8, <1>13, <1>14, <1>15, Zenon DEF l, piece

------------------------- (* reading one member *) --------------------------
\* The member behind position h: the scanner comes from p, which is the last token of the member
\* before it, or the separator behind that.
Starts(b, h, p) ==
  /\ b \in Seq(Tokens) /\ h \in Nat /\ p \in {h, h + 1} /\ p # 0 /\ h + 6 <= Len(b)
  /\ p = h => b[h] \in {"quote", "]"}
  /\ b[h + 1] \in {"{", ","} /\ b[h + 2] = "quote" /\ b[h + 3] = "key" /\ b[h + 4] = "quote"
  /\ b[h + 5] = ":"

LEMMA StartsTypes ==
  ASSUME NEW b, NEW h, NEW p, Starts(b, h, p)
  PROVE  /\ b \in Seq(Tokens) /\ Len(b) \in Nat /\ h \in Nat /\ p \in Nat \ {0} /\ p \in {h, h + 1}
         /\ h + 6 <= Len(b) /\ b[h + 5] = ":"
<1>1. /\ b \in Seq(Tokens) /\ h \in Nat /\ p \in {h, h + 1} /\ p # 0 /\ h + 6 <= Len(b)
      /\ b[h + 5] = ":"
  BY Zenon DEF Starts
<1>2. b \in Seq(Tokens) => Len(b) \in Nat
  OBVIOUS
<1>3. p \in Nat \ {0}
  <2>1. h \in Nat /\ p \in {h, h + 1} /\ p # 0
    BY <1>1
  <2>. QED  BY <2>1
<1>. QED  BY <1>1, <1>2, <1>3

LEMMA Sums ==
  ASSUME NEW h \in Nat, NEW m \in Nat
  PROVE  /\ h + 5 \in Nat /\ h + 6 \in Nat \ {0} /\ h + 7 \in Nat \ {0}
         /\ h + 7 \in (h + 6)..m <=> h + 7 <= m
         /\ h + 6 \in 1..m <=> h + 6 <= m
         /\ (h + 7) - 1 = h + 6 /\ (h + 5) + 1 = h + 6 /\ (h + 6) + 1 = h + 7
         /\ 0 + (h + 7) = h + 7
         /\ \A j \in (h + 6)..(h + 6) : j = h + 6
         /\ \A k \in 1..1 : k = 1
OBVIOUS

LEMMA MoreSums ==
  ASSUME NEW h \in Nat, NEW m \in Nat
  PROVE  /\ h + 6 \in Nat /\ (h + 6) + 1 = h + 7 /\ (h + 6) + 1 + m = h + 7 + m /\ 0 \in Nat
         /\ 0 + ((h + 6) + 1 + m) = h + 7 + m /\ (h + 7 + m) - 1 = (h + 6) + m
OBVIOUS

LEMMA ToMember ==
  ASSUME NEW b, NEW h, NEW p, Starts(b, h, p)
  PROVE  /\ Past(b, p, {":"}, 1) = h + 6
         /\ b[h + 6] = "[" => Past(b, p, {"["}, 1) = h + 7
<1>1. /\ h \in Nat /\ p \in Nat \ {0} /\ Len(b) \in Nat /\ p \in {h, h + 1} /\ h + 6 <= Len(b)
      /\ b[h + 5] = ":"
  BY StartsTypes
<1> DEFINE L == Len(b)
<1> HIDE DEF L
<1>2. h + 5 \in p..L /\ h + 6 \in p..L /\ (h + 5) + 1 = h + 6 /\ (h + 6) + 1 = h + 7
      /\ \A j \in p..(h + 4) : j \in {h + 1, h + 2, h + 3, h + 4} \/ j = p
  BY <1>1 DEF L
<1>3. \A j \in p..(h + 4) : b[j] # ":" /\ b[j] # "["
  BY <1>1, <1>2 DEF Starts
<1>4. Past(b, p, {":"}, 1) = 1 + (h + 5)
  <2>1. (h + 5) - 1 = h + 4 /\ b[h + 5] \in {":"} /\ 1 \in Nat
    BY <1>1
  <2>2. \A j \in p..((h + 5) - 1) : b[j] \notin {":"}
    BY <1>3, <2>1
  <2>. QED  BY <1>1, <1>2, <2>1, <2>2, PastFound DEF L
<1>5. b[h + 6] = "[" => Past(b, p, {"["}, 1) = 1 + (h + 6)
  <2>1. SUFFICES ASSUME b[h + 6] = "["
                 PROVE  Past(b, p, {"["}, 1) = 1 + (h + 6)
    OBVIOUS
  <2>2. b[h + 6] \in {"["} /\ 1 \in Nat
    BY <2>1
  <2>3. \A j \in p..((h + 6) - 1) : j \in p..(h + 4) \/ j = h + 5
    BY <1>1
  <2>4. \A j \in p..((h + 6) - 1) : b[j] \notin {"["}
    BY <1>1, <1>3, <2>3
  <2>. QED  BY <1>1, <1>2, <2>2, <2>4, PastFound DEF L
<1>. QED  BY <1>1, <1>4, <1>5

\* A part of a sequence: x is the m elements of b behind position h.
PartBehind(T, b, h, m, x) == x \in Seq(T) /\ Len(x) = m /\ \A i \in 1..m : x[i] = b[h + i]

LEMMA PartOf ==
  ASSUME NEW T, NEW b \in Seq(T), NEW h \in Nat, NEW m \in Nat, h + m <= Len(b)
  PROVE  PartBehind(T, b, h, m, SubSeq(b, h + 1, h + m))
<1> DEFINE x == SubSeq(b, h + 1, h + m)
<1>1. h + 1 \in 1..(Len(b) + 1) /\ h + m \in (h + 1) - 1..Len(b)
  OBVIOUS
<1>2. /\ x \in Seq(T) /\ Len(x) = IF h + 1 <= h + m THEN (h + m) - (h + 1) + 1 ELSE 0
      /\ \A i \in 1..((h + m) - (h + 1) + 1) : x[i] = b[(h + 1) + i - 1]
  BY <1>1
<1> HIDE DEF x
<1>3. (h + m) - (h + 1) + 1 = m /\ \A i \in 1..m : (h + 1) + i - 1 = h + i
  OBVIOUS
<1>4. Len(x) = m
  BY <1>2
<1>5. x \in Seq(T) /\ Len(x) = m /\ \A i \in 1..m : x[i] = b[h + i]
  BY <1>2, <1>3, <1>4
<1>. QED  BY <1>5, Zenon DEF x, PartBehind

LEMMA ElementsIn ==
  ASSUME NEW T, NEW s \in Seq(T), NEW n, Len(s) = n
  PROVE  \A k \in 1..n : s[k] \in T
OBVIOUS

\* What lies behind position h of b, cut out.
LEMMA CutOut ==
  ASSUME NEW T, NEW b \in Seq(T), NEW s \in Seq(T), NEW h \in Nat, h + Len(s) <= Len(b),
         \A k \in 1..Len(s) : b[h + k] = s[k]
  PROVE  SubSeq(b, h + 1, h + Len(s)) = s
<1> DEFINE m == Len(s)  x == SubSeq(b, h + 1, h + m)
<1>1. m \in Nat
  OBVIOUS
<1>2. x \in Seq(T) /\ Len(x) = m /\ \A i \in 1..m : x[i] = b[h + i]
  <2>1. PartBehind(T, b, h, m, x)
    BY <1>1, PartOf, Zenon
  <2>. QED  BY <2>1, Zenon DEF PartBehind
<1> HIDE DEF x
<1>3. x \in Seq(T) /\ s \in Seq(T) /\ Len(x) = Len(s) /\ \A i \in 1..Len(s) : x[i] = s[i]
  BY <1>2
<1>. QED  BY <1>3 DEF x

LEMMA ReadNumberAt ==
  ASSUME NEW b, NEW h, NEW p, Starts(b, h, p), NEW v \in Numerals, b[h + 6] = v, b[h + 7] = ",",
         h + 7 <= Len(b)
  PROVE  ReadNumber(b, p) = [at |-> h + 7, val |-> v]
<1>1. b \in Seq(Tokens) /\ h \in Nat /\ Len(b) \in Nat
  BY StartsTypes
<1>2. v \in Tokens /\ v # ","
  BY ParserAssumption DEF Tokens, Marks
<1>3. Past(b, p, {":"}, 1) = h + 6
  BY ToMember
<1>4. Past(b, h + 6, {","}, 0) = h + 7
  <2>1. h + 6 \in Nat \ {0} /\ h + 7 \in (h + 6)..Len(b) /\ 0 + (h + 7) = h + 7
        /\ (h + 7) - 1 = h + 6 /\ \A j \in (h + 6)..(h + 6) : j = h + 6
    BY <1>1, Sums, Zenon
  <2>2. \A j \in (h + 6)..((h + 7) - 1) : b[j] \notin {","}
    BY <1>2, <2>1, Zenon
  <2>3. b[h + 7] \in {","}
    OBVIOUS
  <2>. QED  BY <1>1, <2>1, <2>2, <2>3, PastStops, Zenon
<1>5. SubSeq(b, h + 6, (h + 7) - 1) = <<v>>
  <2> DEFINE q == <<v>>  g == h + 5
  <2>1. q \in Seq(Tokens) /\ Len(q) = 1 /\ q[1] = v
    BY <1>2, OneToken
  <2> HIDE DEF q
  <2>2. g \in Nat /\ g + 1 = h + 6 /\ (h + 7) - 1 = g + 1
    <3>1. h + 5 \in Nat /\ (h + 5) + 1 = h + 6 /\ (h + 7) - 1 = h + 6
      BY <1>1, Sums, Zenon
    <3>. QED  BY <3>1, Zenon
  <2>22. g + 1 <= Len(b) /\ \A k \in 1..1 : k = 1
    <3>1. h + 6 <= Len(b)
      BY StartsTypes
    <3>. QED  BY <2>2, <3>1, Sums, <1>1, Zenon
  <2> HIDE DEF g
  <2>3. b \in Seq(Tokens) /\ g + Len(q) <= Len(b) /\ \A k \in 1..Len(q) : b[g + k] = q[k]
    BY <1>1, <2>1, <2>2, <2>22
  <2>4. SubSeq(b, g + 1, g + Len(q)) = q
    BY <2>1, <2>2, <2>3, CutOut
  <2>. QED  BY <2>1, <2>2, <2>4 DEF q
<1>6. Strtoul(<<v>>) = v
  BY DEF Strtoul
<1>. QED  BY <1>3, <1>4, <1>5, <1>6, Zenon DEF ReadNumber

LEMMA NoQuote ==
  ASSUME NEW s \in Plain
  PROVE  s \in Seq(Tokens) /\ Len(s) \in Nat /\ \A k \in 1..Len(s) : s[k] # "quote"
<1>1. s \in Seq(Tokens) /\ "quote" \notin Range(s)
  BY DEF Plain
<1>. QED  BY <1>1 DEF Range

\* A string without a quote in it, behind position h, ends at the quote that follows.
LEMMA ToQuote ==
  ASSUME NEW b \in Seq(Tokens), NEW h \in Nat, NEW s \in Plain, NEW n \in Nat,
         \A k \in 1..Len(s) : b[h + k] = s[k], b[h + 1 + Len(s)] = "quote",
         h + 1 + Len(s) <= Len(b)
  PROVE  /\ Past(b, h + 1, {"quote"}, n) = n + (h + 1 + Len(s))
         /\ SubSeq(b, h + 1, h + Len(s)) = s
<1> DEFINE m == Len(s)  L == Len(b)
<1>1. s \in Seq(Tokens) /\ m \in Nat /\ L \in Nat /\ \A k \in 1..m : s[k] # "quote"
  BY NoQuote
<1>2. h + m <= L /\ \A k \in 1..m : b[h + k] = s[k]
  BY <1>1
<1>3. SubSeq(b, h + 1, h + m) = s
  BY <1>1, <1>2, CutOut
<1>4. b[h + 1 + m] = "quote" /\ h + 1 + m <= L
  OBVIOUS
<1> HIDE DEF m, L
<1>5. /\ h + 1 \in Nat \ {0} /\ h + 1 + m \in (h + 1)..L
      /\ \A j \in (h + 1)..((h + 1 + m) - 1) : j - h \in 1..m /\ h + (j - h) = j
  BY <1>1, <1>4
<1>6. \A j \in (h + 1)..((h + 1 + m) - 1) : b[j] \notin {"quote"}
  <2>1. ASSUME NEW j \in (h + 1)..((h + 1 + m) - 1)
        PROVE  b[j] # "quote"
    <3>1. b[h + (j - h)] = s[j - h] /\ s[j - h] # "quote"
      BY <1>1, <1>2, <1>5, Zenon
    <3>. QED  BY <1>5, <3>1
  <2>. QED  BY <2>1
<1>7. Past(b, h + 1, {"quote"}, n) = n + (h + 1 + m)
  <2>1. b[h + 1 + m] \in {"quote"}
    BY <1>4
  <2>. QED  BY <1>1, <1>5, <1>6, <2>1, PastFound DEF L
<1>. QED  BY <1>3, <1>7 DEF m

LEMMA ReadStringAt ==
  ASSUME NEW b, NEW h, NEW p, Starts(b, h, p), NEW s \in Plain, b[h + 6] = "quote",
         \A k \in 1..Len(s) : b[h + 6 + k] = s[k], b[h + 7 + Len(s)] = "quote",
         h + 7 + Len(s) <= Len(b)
  PROVE  ReadString(b, p) = [at |-> h + 7 + Len(s), val |-> s]
<1> DEFINE m == Len(s)  L == Len(b)
<1>1. b \in Seq(Tokens) /\ h \in Nat /\ L \in Nat /\ h + 6 <= L /\ m \in Nat
  BY NoQuote, StartsTypes, Zenon
<1>2. Past(b, p, {":"}, 1) = h + 6
  BY ToMember
<1>3. Skip(b, h + 6) = h + 7
  <2>1. h + 6 \in 1..L /\ (h + 6) + 1 = h + 7
    BY <1>1, Sums, Zenon
  <2>2. b[h + 6] \in Marks
    BY DEF Marks
  <2>. QED  BY <2>1, <2>2, Zenon DEF Skip
<1>4. /\ h + 6 \in Nat /\ (h + 6) + 1 = h + 7 /\ (h + 6) + 1 + m = h + 7 + m /\ 0 \in Nat
      /\ 0 + ((h + 6) + 1 + m) = h + 7 + m /\ (h + 7 + m) - 1 = (h + 6) + m
  BY <1>1, MoreSums, Zenon
<1>5. /\ b[(h + 6) + 1 + m] = "quote" /\ (h + 6) + 1 + m <= L
  BY <1>4
<1>6. /\ Past(b, (h + 6) + 1, {"quote"}, 0) = 0 + ((h + 6) + 1 + m)
      /\ SubSeq(b, (h + 6) + 1, (h + 6) + m) = s
  BY <1>1, <1>4, <1>5, ToQuote, ZenonT(60)
<1> HIDE DEF m, L
<1>7. Past(b, h + 7, {"quote"}, 0) = h + 7 + m /\ SubSeq(b, h + 7, (h + 7 + m) - 1) = s
  BY <1>4, <1>6
<1>8. ReadString(b, p) = [at |-> h + 7 + m, val |-> s]
  BY <1>2, <1>3, <1>7, Zenon DEF ReadString
<1>. QED  BY <1>8 DEF m

\* An element behind position g, whose quote has been passed, and what follows it: another
\* element, or nil and the bracket.
Element(b, g, s) ==
  /\ \A k \in 1..Len(s) : b[g + k] = s[k]
  /\ b[g + 1 + Len(s)] = "quote" /\ b[g + 2 + Len(s)] = ","
  /\ \/ b[g + 3 + Len(s)] = "quote"
     \/ b[g + 3 + Len(s)] = "null" /\ b[g + 4 + Len(s)] = "]"
  /\ g + 4 + Len(s) <= Len(b)

LEMMA ElementSums ==
  ASSUME NEW g \in Nat, NEW m \in Nat, NEW L \in Nat, g + 4 + m <= L
  PROVE  /\ g + 1 \in 0..(L + 2) /\ g + 1 # 0 /\ ~(g + 1 > L) /\ g + 1 + m <= L
         /\ 1 + (g + 1 + m) = g + 2 + m /\ g + 2 + m # 0 /\ (g + 2 + m) - 2 = g + m
         /\ g + 2 + m \in Nat \ {0}
         /\ g + 3 + m \in (g + 2 + m)..L /\ g + 4 + m \in (g + 2 + m)..L
         /\ g + 3 + m # 0 /\ (g + 3 + m) + 1 = g + 4 + m
         /\ \A j \in (g + 2 + m)..((g + 3 + m) - 1) : j = g + 2 + m
         /\ \A j \in (g + 2 + m)..((g + 4 + m) - 1) : j \in {g + 2 + m, g + 3 + m}
OBVIOUS

LEMMA ItemAt ==
  ASSUME NEW b \in Seq(Tokens), NEW g \in Nat, NEW s \in Plain, s # <<>> => s[1] # "]",
         Element(b, g, s)
  PROVE  Items(b)[g + 1] = [at  |-> Items(b)[g + 4 + Len(s)].at,
                            val |-> <<s>> \o Items(b)[g + 4 + Len(s)].val]
<1> DEFINE m == Len(s)  L == Len(b)
<1>1. m \in Nat /\ L \in Nat /\ s \in Seq(Tokens) /\ \A k \in 1..m : s[k] # "quote"
  BY NoQuote
<1>2. /\ \A k \in 1..m : b[g + k] = s[k]
      /\ b[g + 1 + m] = "quote" /\ b[g + 2 + m] = "," /\ g + 4 + m <= L
      /\ b[g + 3 + m] = "quote" \/ (b[g + 3 + m] = "null" /\ b[g + 4 + m] = "]")
  BY Zenon DEF Element
<1>3. /\ g + 1 \in 0..(L + 2) /\ g + 1 # 0 /\ ~(g + 1 > L) /\ g + 1 + m <= L
      /\ 1 + (g + 1 + m) = g + 2 + m /\ g + 2 + m # 0 /\ (g + 2 + m) - 2 = g + m
      /\ g + 2 + m \in Nat \ {0}
      /\ g + 3 + m \in (g + 2 + m)..L /\ g + 4 + m \in (g + 2 + m)..L
      /\ g + 3 + m # 0 /\ (g + 3 + m) + 1 = g + 4 + m
      /\ \A j \in (g + 2 + m)..((g + 3 + m) - 1) : j = g + 2 + m
      /\ \A j \in (g + 2 + m)..((g + 4 + m) - 1) : j \in {g + 2 + m, g + 3 + m}
  BY <1>1, <1>2, ElementSums, Zenon
<1>4. /\ Past(b, g + 1, {"quote"}, 1) = 1 + (g + 1 + m)
      /\ SubSeq(b, g + 1, g + m) = s
  <2>1. 1 \in Nat
    OBVIOUS
  <2>. QED  BY <1>2, <1>3, <2>1, ToQuote, ZenonT(60)
<1>5. b[g + 1] # "]"
  <2>1. CASE s = <<>>
    <3>1. m = 0 /\ g + 1 + 0 = g + 1
      BY <2>1
    <3>2. b[g + 1] = "quote"
      BY <1>2, <3>1
    <3>. QED  BY <3>2
  <2>2. CASE s # <<>>
    <3>1. 1 \in 1..m
      BY <1>1, <2>2
    <3>2. b[g + 1] = s[1] /\ s[1] # "]"
      BY <1>2, <2>2, <3>1
    <3>. QED  BY <3>2
  <2>. QED  BY <2>1, <2>2
<1> HIDE DEF m, L
<1> DEFINE S == {"quote", "]"}
           stop == Past(b, g + 2 + m, S, 0)
           next == IF stop # 0 /\ b[stop] = "quote" THEN stop + 1 ELSE stop
<1>6. Len(b) \in Nat /\ b[g + 2 + m] \notin S
  BY <1>1, <1>2 DEF L
<1>7. next = g + 4 + m
  <2>1. CASE b[g + 3 + m] = "quote"
    <3>1. b[g + 3 + m] \in S
      BY <2>1
    <3>2. \A j \in (g + 2 + m)..((g + 3 + m) - 1) : b[j] \notin S
      BY <1>3, <1>6, Zenon
    <3>3. stop = g + 3 + m
      BY <1>3, <1>6, <3>1, <3>2, PastStops, Zenon DEF L
    <3> HIDE DEF stop
    <3>. QED  BY <2>1, <3>3, <1>3, Zenon
  <2>2. CASE b[g + 3 + m] = "null" /\ b[g + 4 + m] = "]"
    <3>1. b[g + 4 + m] \in S /\ b[g + 3 + m] \notin S
      BY <2>2
    <3>2. \A j \in (g + 2 + m)..((g + 4 + m) - 1) : b[j] \notin S
      BY <1>3, <1>6, <3>1, Zenon
    <3>3. stop = g + 4 + m
      BY <1>3, <1>6, <3>1, <3>2, PastStops, Zenon DEF L
    <3> HIDE DEF stop
    <3>4. "]" # "quote"
      OBVIOUS
    <3>. QED  BY <2>2, <3>3, <3>4, Zenon
  <2>. QED  BY <1>2, <2>1, <2>2
<1>8. Items(b)[g + 1] = Item(b, Items(b), g + 1)
  BY <1>3, <1>6, ItemsDef, Zenon DEF L
<1>9. Past(b, g + 1, {"quote"}, 1) = g + 2 + m
  BY <1>3, <1>4, Zenon
<1>10. SubSeq(b, g + 1, (g + 2 + m) - 2) = s
  BY <1>3, <1>4, Zenon
<1>11. Item(b, Items(b), g + 1) = [at |-> Items(b)[next].at, val |-> <<s>> \o Items(b)[next].val]
  BY <1>3, <1>5, <1>9, <1>10, Zenon DEF Item, L
<1> HIDE DEF next
<1>. QED  BY <1>7, <1>8, <1>11, Zenon DEF m

LEMMA ItemsEnd ==
  ASSUME NEW b \in Seq(Tokens), NEW q \in 1..Len(b), b[q] = "]"
  PROVE  Items(b)[q] = [at |-> q, val |-> <<>>]
<1>1. Len(b) \in Nat /\ q \in 0..(Len(b) + 2) /\ q # 0 /\ ~(q > Len(b))
  OBVIOUS
<1>2. Items(b)[q] = Item(b, Items(b), q)
  BY <1>1, ItemsDef
<1>. QED  BY <1>1, <1>2, Zenon DEF Item

\* What lies behind position H.
Behold(b, H, x) == H + Len(x) <= Len(b) /\ \A k \in 1..Len(x) : b[H + k] = x[k]

LEMMA ListSums ==
  ASSUME NEW H \in Nat, NEW h \in Nat, NEW m \in Nat, NEW N \in Nat, h + m + 3 <= N
  PROVE  /\ H + h + 2 \in Nat /\ (H + h + 2) + 1 = H + h + 3
         /\ (H + h + 2) + 4 + m = H + (h + m + 3) + 3
         /\ \A k \in 1..m : /\ (H + h + 2) + k = H + (h + 2 + k)
                            /\ h + 2 + k \in 1..(N + 3)
         /\ (H + h + 2) + 1 + m = H + (h + 3 + m) /\ h + 3 + m \in 1..(N + 3)
         /\ (H + h + 2) + 2 + m = H + (h + 4 + m) /\ h + 4 + m \in 1..(N + 3)
         /\ (H + h + 2) + 3 + m = H + ((h + m + 3) + 2) /\ (h + m + 3) + 2 \in 1..(N + 3)
         /\ (H + h + 2) + 4 + m = H + ((h + m + 3) + 3) /\ (h + m + 3) + 3 \in 1..(N + 3)
         /\ H + (h + m + 3) + 3 <= H + (N + 3)
OBVIOUS

LEMMA Later == ASSUME NEW a \in Nat, NEW c \in Nat, NEW d \in Nat, a <= c, c <= d PROVE a <= d
OBVIOUS

LEMMA PlainListTypes ==
  ASSUME NEW l \in PlainList
  PROVE  /\ Len(l) \in Nat \ {0} /\ Len(l) < ExecArgc /\ l \in Seq(Seq(Tokens))
         /\ \A j \in 1..Len(l) : /\ l[j] \in Plain /\ l[j] \in Seq(Tokens) /\ Len(l[j]) \in Nat
                                 /\ l[j] # <<>> => l[j][1] # "]"
<1>1. /\ l \in Seq(Plain) /\ Len(l) \in 1..(ExecArgc - 1) /\ ExecArgc \in Nat
      /\ \A j \in DOMAIN l : l[j] # <<>> => l[j][1] # "]"
  BY ParserAssumption DEF PlainList
<1>2. DOMAIN l = 1..Len(l) /\ \A j \in 1..Len(l) : l[j] \in Plain
  BY <1>1
<1>3. \A s \in Plain : s \in Seq(Tokens) /\ Len(s) \in Nat
  BY NoQuote
<1>4. l \in Seq(Seq(Tokens))
  <2>1. l \in [1..Len(l) -> Plain] /\ Plain \subseteq Seq(Tokens) /\ Len(l) \in Nat
    BY <1>1, <1>3
  <2>2. l \in [1..Len(l) -> Seq(Tokens)]
    BY <2>1
  <2>. QED  BY <2>1, <2>2
<1> DEFINE n == Len(l)
<1>5. n \in 1..(ExecArgc - 1) /\ ExecArgc \in Nat
  BY <1>1
<1> HIDE DEF n
<1>6. n \in Nat \ {0} /\ n < ExecArgc
  BY <1>5
<1>. QED  BY <1>1, <1>2, <1>3, <1>4, <1>6 DEF n

\* The j-th element of a list that lies behind H.
LEMMA ListElement ==
  ASSUME NEW b \in Seq(Tokens), NEW H \in Nat, NEW l \in PlainList, NEW pre, ListPieces(l, pre),
         Behold(b, H, List(l)), NEW j \in 1..Len(l)
  PROVE  Items(b)[H + pre[j - 1] + 3] = [at  |-> Items(b)[H + pre[j] + 3].at,
                                         val |-> <<l[j]>> \o Items(b)[H + pre[j] + 3].val]
<1> DEFINE h == pre[j - 1]  s == l[j]  m == Len(s)  n == Len(l)  N == pre[n]  x == List(l)
<1>1. /\ s \in Plain /\ m \in Nat /\ n \in Nat \ {0}
      /\ s # <<>> => s[1] # "]"
  BY PlainListTypes
<1>2. h \in Nat /\ N \in Nat /\ pre[j] \in Nat
  <2>1. pre \in [0..n -> Nat]
    BY DEF ListPieces
  <2>2. j - 1 \in 0..n /\ n \in 0..n /\ j \in 0..n
    BY <1>1
  <2> HIDE DEF n
  <2>. QED  BY <2>1, <2>2
<1>3. /\ Len(x) = N + 3 /\ x[N + 2] = "null" /\ x[N + 3] = "]"
      /\ \A i \in 1..n :
           /\ pre[i] = pre[i - 1] + Len(l[i]) + 3 /\ pre[i] <= N
           /\ x[pre[i - 1] + 2] = "quote"
           /\ \A k \in 1..Len(l[i]) : x[pre[i - 1] + 2 + k] = l[i][k]
           /\ x[pre[i - 1] + 3 + Len(l[i])] = "quote"
           /\ x[pre[i - 1] + 4 + Len(l[i])] = ","
  BY Zenon DEF ListPieces
<1>4. /\ pre[j] = h + m + 3 /\ pre[j] <= N
      /\ \A k \in 1..m : x[h + 2 + k] = s[k]
      /\ x[h + 3 + m] = "quote" /\ x[h + 4 + m] = ","
  BY <1>3, Zenon
<1>5. x[pre[j] + 2] = "quote" \/ (x[pre[j] + 2] = "null" /\ x[pre[j] + 3] = "]")
  <2>1. CASE j = n
    BY <2>1, <1>3
  <2>2. CASE j # n
    <3>1. j + 1 \in 1..n /\ (j + 1) - 1 = j
      BY <2>2, <1>1
    <3>2. x[pre[(j + 1) - 1] + 2] = "quote"
      BY <3>1, <1>3, Zenon
    <3>. QED  BY <3>1, <3>2
  <2>. QED  BY <2>1, <2>2
<1>6. H + (N + 3) <= Len(b) /\ \A k \in 1..(N + 3) : b[H + k] = x[k]
  BY <1>3, Zenon DEF Behold
<1> HIDE DEF h, s, m, n, N, x
<1>7. h + m + 3 <= N
  BY <1>4
<1>8. /\ H + h + 2 \in Nat /\ (H + h + 2) + 1 = H + h + 3
      /\ (H + h + 2) + 4 + m = H + (h + m + 3) + 3
      /\ \A k \in 1..m : /\ (H + h + 2) + k = H + (h + 2 + k)
                         /\ h + 2 + k \in 1..(N + 3)
      /\ (H + h + 2) + 1 + m = H + (h + 3 + m) /\ h + 3 + m \in 1..(N + 3)
      /\ (H + h + 2) + 2 + m = H + (h + 4 + m) /\ h + 4 + m \in 1..(N + 3)
      /\ (H + h + 2) + 3 + m = H + ((h + m + 3) + 2) /\ (h + m + 3) + 2 \in 1..(N + 3)
      /\ (H + h + 2) + 4 + m = H + ((h + m + 3) + 3) /\ (h + m + 3) + 3 \in 1..(N + 3)
      /\ H + (h + m + 3) + 3 <= H + (N + 3)
  <2>1. m \in Nat
    BY <1>1
  <2>. QED  BY <1>2, <1>7, <2>1, ListSums
<1> DEFINE g == H + h + 2
<1> HIDE DEF g
<1>9. Element(b, g, s)
  <2>1. ASSUME NEW k \in 1..m
        PROVE  b[g + k] = s[k]
    <3>1. g + k = H + (h + 2 + k) /\ h + 2 + k \in 1..(N + 3)
      BY <1>8, Zenon DEF g
    <3>. QED  BY <3>1, <1>4, <1>6, Zenon
  <2>2. b[g + 1 + m] = "quote" /\ b[g + 2 + m] = ","
    BY <1>4, <1>6, <1>8, Zenon DEF g
  <2>3. b[g + 3 + m] = x[pre[j] + 2] /\ b[g + 4 + m] = x[pre[j] + 3]
    BY <1>4, <1>6, <1>8, Zenon DEF g
  <2>4. g + 4 + m <= Len(b)
    <3>1. g + 4 + m \in Nat /\ H + (N + 3) \in Nat /\ Len(b) \in Nat
      <4>1. Len(b) \in Nat
        OBVIOUS
      <4>2. g \in Nat /\ m \in Nat
        BY <1>1, <1>8, Zenon DEF g
      <4>3. g + 4 + m \in Nat
        BY <4>2
      <4>4. H + (N + 3) \in Nat
        BY <1>2
      <4>. QED  BY <4>1, <4>3, <4>4
    <3>2. g + 4 + m <= H + (N + 3)
      BY <1>8, Zenon DEF g
    <3>. QED  BY <3>1, <3>2, <1>6, Later, Zenon
  <2>5. \/ b[g + 3 + m] = "quote"
        \/ b[g + 3 + m] = "null" /\ b[g + 4 + m] = "]"
    BY <1>5, <2>3, Zenon
  <2>. QED  BY <2>1, <2>2, <2>4, <2>5, Zenon DEF Element, m
<1>10. g \in Nat
  BY <1>8, Zenon DEF g
<1>11. Items(b)[g + 1] = [at  |-> Items(b)[g + 4 + m].at, val |-> <<s>> \o Items(b)[g + 4 + m].val]
  BY <1>1, <1>9, <1>10, ItemAt, Zenon DEF m
<1>12. g + 1 = H + h + 3 /\ g + 4 + m = H + pre[j] + 3
  BY <1>4, <1>8, Zenon DEF g
<1>. QED  BY <1>11, <1>12, Zenon DEF h, s

\* The items from the element behind position q are the last m of l, and end at e.
LastItems(b, l, q, m, e) ==
  /\ Items(b)[q].at = e
  /\ Items(b)[q].val \in Seq(Seq(Tokens)) /\ Len(Items(b)[q].val) = m
  /\ \A k \in 1..m : Items(b)[q].val[k] = l[(Len(l) - m) + k]

LEMMA OneItemMore ==
  ASSUME NEW b, NEW l \in Seq(Seq(Tokens)), NEW q, NEW r, NEW e, NEW m \in Nat, m + 1 <= Len(l),
         LastItems(b, l, r, m, e),
         Items(b)[q] = [at |-> Items(b)[r].at, val |-> <<l[Len(l) - m]>> \o Items(b)[r].val]
  PROVE  LastItems(b, l, q, m + 1, e)
<1> DEFINE n == Len(l)  x == l[n - m]  v == Items(b)[r].val  w == Items(b)[q].val  c == <<x>>
           T == Seq(Tokens)
<1>1. n \in Nat /\ n - m \in 1..n
  OBVIOUS
<1>2. x \in T
  <2>1. \A i \in 1..n : l[i] \in T
    OBVIOUS
  <2> HIDE DEF T, n
  <2>. QED  BY <1>1, <2>1
<1>3. /\ Items(b)[r].at = e /\ v \in Seq(T) /\ Len(v) = m
      /\ \A k \in 1..m : v[k] = l[(n - m) + k]
  BY Zenon DEF LastItems
<1>4. Items(b)[q].at = e /\ w = c \o v
  BY <1>3, SMTT(60)
<1> HIDE DEF x, T
<1>5. c \in Seq(T) /\ Len(c) = 1 /\ c[1] = x
  BY <1>2, OneToken
<1> HIDE DEF c, v, w, n
<1>6. /\ c \o v \in Seq(T) /\ Len(c \o v) = Len(v) + 1 /\ (c \o v)[1] = c[1]
      /\ \A k \in 1..Len(v) : (c \o v)[k + 1] = v[k]
  <2>1. v \in Seq(T)
    BY <1>3
  <2>. QED  BY <1>5, <2>1, Before, SMTT(60)
<1>7. w \in Seq(T) /\ Len(w) = m + 1 /\ w[1] = x /\ \A k \in 1..m : w[k + 1] = l[(n - m) + k]
  BY <1>3, <1>4, <1>5, <1>6
<1>8. ASSUME NEW k \in 1..(m + 1)
      PROVE  w[k] = l[(n - (m + 1)) + k]
  <2>1. (n - (m + 1)) + k = (n - m) + (k - 1)
    BY <1>1
  <2>2. CASE k = 1
    <3>1. (n - m) + (k - 1) = n - m
      BY <1>1, <2>2
    <3>. QED  BY <2>1, <2>2, <3>1, <1>7 DEF x
  <2>3. CASE k # 1
    <3>1. k - 1 \in 1..m /\ (k - 1) + 1 = k
      BY <2>3
    <3>2. w[(k - 1) + 1] = l[(n - m) + (k - 1)]
      BY <3>1, <1>7
    <3>. QED  BY <2>1, <3>1, <3>2
  <2>. QED  BY <2>2, <2>3
<1>. QED  BY <1>4, <1>7, <1>8 DEF LastItems, w, T, n

LEMMA SameSequence ==
  ASSUME NEW T, NEW s \in Seq(T), NEW r \in Seq(T), Len(s) = Len(r), \A k \in 1..Len(r) : s[k] = r[k]
  PROVE  s = r
OBVIOUS

LEMMA ListEnds ==
  ASSUME NEW l \in PlainList
  PROVE  /\ List(l)[1] = "[" /\ List(l)[2] = "quote" /\ List(l)[Len(List(l))] = "]"
         /\ Len(List(l)) \in Nat /\ Len(List(l)) >= 3
<1>1. PICK pre : ListPieces(l, pre)
  BY ListAt
<1> DEFINE n == Len(l)  x == List(l)  N == pre[n]
<1>2. n \in Nat \ {0}
  BY PlainListTypes
<1>3. 1 \in 1..n /\ n \in 0..n /\ 1 - 1 = 0
  BY <1>2
<1>4. /\ pre \in [0..n -> Nat] /\ pre[0] = 0 /\ Len(x) = N + 3 /\ x[1] = "["
      /\ x[N + 3] = "]" /\ x[pre[1 - 1] + 2] = "quote"
  BY <1>1, <1>3, Zenon DEF ListPieces
<1> HIDE DEF n, x
<1>5. N \in Nat /\ pre[1 - 1] + 2 = 2
  BY <1>3, <1>4
<1> HIDE DEF N
<1>6. N + 3 \in Nat /\ N + 3 >= 3
  BY <1>5
<1>. QED  BY <1>4, <1>5, <1>6, Zenon DEF x

LEMMA ListItems ==
  ASSUME NEW b \in Seq(Tokens), NEW H \in Nat, NEW l \in PlainList, Behold(b, H, List(l))
  PROVE  Items(b)[H + 3] = [at |-> H + Len(List(l)), val |-> l]
<1>1. PICK pre : ListPieces(l, pre)
  BY ListAt
<1> DEFINE n == Len(l)  x == List(l)  q(i) == H + pre[i] + 3  e == q(n)
           P(m) == LastItems(b, l, q(n - m), m, e)
           Good == {m \in Nat : m <= n => P(m)}
<1>2. n \in Nat \ {0} /\ l \in Seq(Seq(Tokens))
  BY PlainListTypes
<1>3. pre \in [0..n -> Nat] /\ pre[0] = 0 /\ Len(x) = pre[n] + 3 /\ x[pre[n] + 3] = "]"
  BY <1>1, Zenon DEF ListPieces
<1>4. /\ n \in 0..n /\ 0 \in 0..n /\ 1 - 1 = 0 /\ n - 0 = n /\ n - n = 0
      /\ \A m \in Nat : m + 1 <= n => n - m \in 1..n /\ n - (m + 1) = (n - m) - 1 /\ m <= n
  BY <1>2
<1>5. /\ pre[n] \in Nat /\ e \in Nat /\ e = H + Len(x) /\ pre[n] + 3 \in 1..Len(x) /\ Len(x) >= 3
      /\ H + (pre[n] + 3) = e /\ Len(x) \in Nat
  <2> HIDE DEF n, x
  <2>1. pre[n] \in Nat
    BY <1>3, <1>4
  <2> DEFINE N == pre[n]
  <2>2. N \in Nat /\ Len(x) = N + 3
    BY <2>1, <1>3
  <2> HIDE DEF N
  <2>3. /\ H + N + 3 \in Nat /\ H + N + 3 = H + (N + 3) /\ N + 3 \in 1..(N + 3) /\ N + 3 >= 3
        /\ N + 3 \in Nat
    BY <2>2
  <2>. QED  BY <2>2, <2>3, Zenon DEF N
<1>6. H + Len(x) <= Len(b) /\ \A k \in 1..Len(x) : b[H + k] = x[k]
  BY Zenon DEF Behold
<1>7. b[e] = "]" /\ e \in 1..Len(b)
  <2>1. Len(b) \in Nat
    OBVIOUS
  <2> HIDE DEF x, n
  <2>2. b[e] = "]"
    BY <1>3, <1>5, <1>6
  <2>3. e # 0 /\ e <= Len(b)
    BY <1>5, <1>6
  <2> HIDE DEF e
  <2>. QED  BY <1>5, <2>1, <2>2, <2>3
<1>8. 0 \in Good
  <2> HIDE DEF e, n
  <2>1. Items(b)[e] = [at |-> e, val |-> <<>>]
    BY <1>7, ItemsEnd
  <2>2. <<>> \in Seq(Seq(Tokens)) /\ Len(<<>>) = 0 /\ \A k \in 1..0 : FALSE
    OBVIOUS
  <2>3. LastItems(b, l, e, 0, e)
    BY <2>1, <2>2 DEF LastItems
  <2>. QED  BY <2>3, <1>4 DEF e
<1>9. ASSUME NEW m \in Nat, m \in Good
      PROVE  m + 1 \in Good
  <2>1. SUFFICES ASSUME m + 1 <= n PROVE P(m + 1)
    OBVIOUS
  <2>2. n - m \in 1..n /\ n - (m + 1) = (n - m) - 1 /\ m <= n
    BY <2>1, <1>4
  <2>3. LastItems(b, l, q(n - m), m, e)
    BY <1>9, <2>2
  <2> DEFINE j == n - m
  <2>4. Items(b)[q(j - 1)] = [at  |-> Items(b)[q(j)].at, val |-> <<l[j]>> \o Items(b)[q(j)].val]
    <3> HIDE DEF j
    <3>1. j \in 1..Len(l)
      BY <2>2 DEF j
    <3>. QED  BY <1>1, <3>1, ListElement, ZenonT(60)
  <2> HIDE DEF q, e
  <2>5. LastItems(b, l, q(j - 1), m + 1, e)
    BY <1>2, <2>1, <2>3, <2>4, OneItemMore, Zenon
  <2>. QED  BY <2>2, <2>5, Zenon
<1>10. P(n)
  <2>1. n \in Nat /\ n <= n
    BY <1>2
  <2> HIDE DEF P
  <2>2. Nat \subseteq Good
    <3> HIDE DEF Good
    <3>. QED  BY <1>8, <1>9, Induct
  <2>. QED  BY <2>1, <2>2
<1> DEFINE z == Items(b)[q(0)]
<1>11. /\ z.at = e /\ z.val \in Seq(Seq(Tokens)) /\ Len(z.val) = n
       /\ \A k \in 1..n : z.val[k] = l[(n - n) + k]
  BY <1>10, <1>4, Zenon DEF LastItems
<1>12. z.val = l
  <2>1. \A k \in 1..n : (n - n) + k = k
    BY <1>4
  <2> HIDE DEF z
  <2>2. \A k \in 1..n : z.val[k] = l[k]
    BY <1>11, <2>1
  <2> DEFINE v == z.val
  <2>3. v \in Seq(Seq(Tokens)) /\ l \in Seq(Seq(Tokens)) /\ Len(v) = Len(l)
        /\ \A k \in 1..Len(l) : v[k] = l[k]
    BY <1>2, <1>11, <2>2
  <2> HIDE DEF v
  <2>4. v = l
    BY <2>3, SameSequence
  <2>. QED  BY <2>4 DEF v
<1>13. z = [at |-> z.at, val |-> z.val]
  <2>1. PICK j \in 1..n : j - 1 = 0
    BY <1>2, <1>4
  <2>2. z = [at  |-> Items(b)[q(j)].at, val |-> <<l[j]>> \o Items(b)[q(j)].val]
    <3>1. Items(b)[q(j - 1)] = [at  |-> Items(b)[q(j)].at, val |-> <<l[j]>> \o Items(b)[q(j)].val]
      BY <1>1, ListElement, ZenonT(60)
    <3>. QED  BY <2>1, <3>1, Zenon
  <2> HIDE DEF z
  <2>. QED  BY <2>2
<1>14. q(0) = H + 3
  BY <1>3, <1>4
<1>. QED  BY <1>5, <1>11, <1>12, <1>13, <1>14, Zenon

LEMMA ReadListAt ==
  ASSUME NEW b, NEW h, NEW p, Starts(b, h, p), NEW l \in PlainList, Behold(b, h + 5, List(l))
  PROVE  /\ ReadList(b, p) = [at |-> h + 5 + Len(List(l)), val |-> l]
         /\ b[h + 5 + Len(List(l))] = "]"
<1> DEFINE H == h + 5  x == List(l)
<1>1. b \in Seq(Tokens) /\ h \in Nat /\ Len(b) \in Nat
  BY StartsTypes
<1>2. H \in Nat /\ H + 1 = h + 6 /\ H + 2 = h + 7 /\ (h + 7) + 1 = H + 3
  BY <1>1
<1>3. H + Len(x) <= Len(b) /\ \A k \in 1..Len(x) : b[H + k] = x[k]
  BY Zenon DEF Behold
<1>4. /\ Items(b)[H + 3] = [at |-> H + Len(x), val |-> l]
      /\ x[1] = "[" /\ x[2] = "quote" /\ Len(x) \in Nat /\ Len(x) >= 3 /\ x[Len(x)] = "]"
  <2>1. Items(b)[H + 3] = [at |-> H + Len(x), val |-> l]
    BY <1>1, <1>2, ListItems, ZenonT(60)
  <2>2. x[1] = "[" /\ x[2] = "quote" /\ Len(x) \in Nat /\ Len(x) >= 3 /\ x[Len(x)] = "]"
    BY ListEnds
  <2>. QED  BY <2>1, <2>2, Zenon
<1> HIDE DEF H, x
<1>5. b[h + 6] = "[" /\ b[h + 7] = "quote" /\ h + 7 \in 1..Len(b)
  <2>1. 1 \in 1..Len(x) /\ 2 \in 1..Len(x)
    BY <1>4
  <2>2. b[H + 1] = "[" /\ b[H + 2] = "quote"
    BY <2>1, <1>3, <1>4
  <2>3. H + 2 <= Len(b) /\ H + 2 \in 1..Len(b)
    BY <1>1, <1>2, <1>3, <1>4
  <2>. QED  BY <1>2, <2>2, <2>3
<1>6. Past(b, p, {"["}, 1) = h + 7
  BY <1>5, ToMember
<1>7. Skip(b, h + 7) = H + 3
  <2>1. b[h + 7] \in Marks
    BY <1>5 DEF Marks
  <2>. QED  BY <1>2, <1>5, <2>1, Zenon DEF Skip
<1>8. Len(l) < ExecArgc
  BY PlainListTypes
<1> DEFINE all == [at |-> H + Len(x), val |-> l]
<1>9. all.at = H + Len(x) /\ all.val = l
  OBVIOUS
<1>10. ReadList(b, p) = [at |-> IF Len(all.val) < ExecArgc THEN all.at ELSE 0, val |-> all.val]
  BY <1>4, <1>6, <1>7, Zenon DEF ReadList
<1> HIDE DEF all
<1>11. b[H + Len(x)] = "]"
  <2>1. Len(x) \in 1..Len(x)
    BY <1>4
  <2>. QED  BY <2>1, <1>3, <1>4, Zenon
<1>. QED  BY <1>8, <1>9, <1>10, <1>11, Zenon DEF H, x

--------------------------- (* reading a text *) ----------------------------
\* The members of a text lie side by side, each behind its separator, its key and a colon.
TextPieces(t, pre) ==
  /\ pre \in [0..16 -> Nat] /\ pre[0] = 0
  /\ Text(t) \in Seq(Tokens) /\ Len(Text(t)) = pre[16] + 1
  /\ \A i \in 1..16 :
       /\ pre[i] = pre[i - 1] + 5 + Len(Members(t)[i]) /\ pre[i] <= pre[16]
       /\ Text(t)[pre[i - 1] + 1] = IF i = 1 THEN "{" ELSE ","
       /\ Text(t)[pre[i - 1] + 2] = "quote" /\ Text(t)[pre[i - 1] + 3] = "key"
       /\ Text(t)[pre[i - 1] + 4] = "quote" /\ Text(t)[pre[i - 1] + 5] = ":"
       /\ \A k \in 1..Len(Members(t)[i]) : Text(t)[pre[i - 1] + 5 + k] = Members(t)[i][k]

LEMMA PieceSums ==
  ASSUME NEW h \in Nat, NEW m \in Nat
  PROVE  /\ h + (m + 5) = h + 5 + m
         /\ 1 \in 1..(m + 5) /\ 2 \in 1..(m + 5) /\ 3 \in 1..(m + 5) /\ 4 \in 1..(m + 5)
         /\ 5 \in 1..(m + 5)
         /\ \A k \in 1..m : k + 5 \in 1..(m + 5) /\ h + (k + 5) = h + 5 + k
         /\ \A k \in 1..m : h + 5 + k \in 1..(h + 5 + m)
         /\ h + 5 + m >= h + 5
OBVIOUS

LEMMA TextAt ==
  ASSUME NEW t \in PlainTask
  PROVE  \E pre : TextPieces(t, pre)
<1> DEFINE sep(i) == IF i = 1 THEN "{" ELSE ","
           M == Members(t)
           piece(i) == <<sep(i)>> \o (String(<<"key">>) \o <<":">> \o M[i])
           ss == [i \in 1..16 |-> piece(i)]
           F == FlattenSeq(ss)
<1>1. Text(t) = F \o <<"}">>
  BY Zenon DEF Text
<1>2. ASSUME NEW i \in 1..16
      PROVE  /\ ss[i] \in Seq(Tokens) /\ Len(M[i]) \in Nat /\ Len(ss[i]) = Len(M[i]) + 5
             /\ ss[i][1] = sep(i) /\ ss[i][2] = "quote" /\ ss[i][3] = "key" /\ ss[i][4] = "quote"
             /\ ss[i][5] = ":" /\ \A k \in 1..Len(M[i]) : ss[i][k + 5] = M[i][k]
  <2> DEFINE q == <<sep(i)>>  m == M[i]  p == ss[i]
  <2>1. m \in Seq(Tokens)
    BY MembersAt
  <2>2. q \in Seq(Tokens) /\ Len(q) = 1 /\ q[1] = sep(i)
    <3>1. sep(i) \in Tokens
      BY Marked DEF Marks
    <3> HIDE DEF sep
    <3>. QED  BY <3>1, OneToken
  <2>3. p = Piece(q, m)
    BY Zenon DEF Piece
  <2> HIDE DEF q, m, p, sep
  <2>4. /\ p \in Seq(Tokens) /\ Len(m) \in Nat /\ Len(p) = Len(m) + 5
        /\ p[1] = q[1] /\ p[2] = "quote" /\ p[3] = "key" /\ p[4] = "quote"
        /\ p[5] = ":" /\ \A k \in 1..Len(m) : p[k + 5] = m[k]
    <3>1. q \in Seq(Tokens) /\ Len(q) = 1
      BY <2>2
    <3>. QED  BY <2>1, <2>3, <3>1, PieceAt
  <2>. QED  BY <2>2, <2>4, Zenon DEF m, p
<1> HIDE DEF M, sep
<1>3. ss \in [1..16 -> Seq(Tokens)]
  <2>1. ss = [i \in 1..16 |-> ss[i]]
    OBVIOUS
  <2> HIDE DEF ss
  <2>. QED  BY <1>2, <2>1
<1> HIDE DEF ss
<1>4. PICK pre : Pieces(Tokens, 16, ss, pre)
  <2>1. 16 \in Nat \ {0}
    OBVIOUS
  <2>. QED  BY <2>1, <1>3, Flatten
<1>5. /\ pre \in [0..16 -> Nat] /\ pre[0] = 0
      /\ \A i \in 1..16 : pre[i] = pre[i - 1] + Len(ss[i])
      /\ F \in Seq(Tokens) /\ Len(F) = pre[16]
      /\ \A i \in 1..16 : pre[i] <= pre[16]
      /\ \A i \in 1..16 : \A k \in 1..Len(ss[i]) : F[pre[i - 1] + k] = ss[i][k]
  BY <1>4, Zenon DEF Pieces
<1> HIDE DEF F
<1> DEFINE x == Text(t)
<1>6. /\ x \in Seq(Tokens) /\ Len(x) = pre[16] + 1
      /\ \A k \in 1..pre[16] : x[k] = F[k]
  <2> DEFINE q == <<"}">>
  <2>1. q \in Seq(Tokens) /\ Len(q) = 1
    BY Alone, Zenon
  <2>2. x = F \o q
    BY <1>1
  <2> HIDE DEF q, x
  <2>3. F \in Seq(Tokens)
    BY <1>5
  <2>4. /\ F \o q \in Seq(Tokens) /\ Len(F \o q) = Len(F) + 1
        /\ \A k \in 1..Len(F) : (F \o q)[k] = F[k]
    BY <2>1, <2>3, Behind
  <2>. QED  BY <2>2, <2>4, <1>5
<1> HIDE DEF x
<1>7. ASSUME NEW i \in 1..16
      PROVE  /\ pre[i] = pre[i - 1] + 5 + Len(M[i]) /\ pre[i] <= pre[16]
             /\ x[pre[i - 1] + 1] = sep(i)
             /\ x[pre[i - 1] + 2] = "quote" /\ x[pre[i - 1] + 3] = "key"
             /\ x[pre[i - 1] + 4] = "quote" /\ x[pre[i - 1] + 5] = ":"
             /\ \A k \in 1..Len(M[i]) : x[pre[i - 1] + 5 + k] = M[i][k]
  <2> DEFINE h == pre[i - 1]  m == Len(M[i])  N == pre[16]
  <2>1. h \in Nat /\ N \in Nat /\ pre[i] \in Nat
    <3>1. i - 1 \in 0..16 /\ i \in 0..16 /\ 16 \in 0..16
      OBVIOUS
    <3>. QED  BY <3>1, <1>5
  <2>2. /\ Len(ss[i]) = m + 5 /\ m \in Nat
        /\ ss[i][1] = sep(i) /\ ss[i][2] = "quote" /\ ss[i][3] = "key" /\ ss[i][4] = "quote"
        /\ ss[i][5] = ":" /\ \A k \in 1..m : ss[i][k + 5] = M[i][k]
    BY <1>2
  <2>3. /\ pre[i] = h + (m + 5) /\ pre[i] <= N
        /\ \A k \in 1..(m + 5) : F[h + k] = ss[i][k]
    BY <1>5, <2>2
  <2>4. \A k \in 1..N : x[k] = F[k]
    BY <1>6
  <2> HIDE DEF h, m, N
  <2>5. /\ h + (m + 5) = h + 5 + m
        /\ 1 \in 1..(m + 5) /\ 2 \in 1..(m + 5) /\ 3 \in 1..(m + 5) /\ 4 \in 1..(m + 5)
        /\ 5 \in 1..(m + 5)
        /\ \A k \in 1..m : k + 5 \in 1..(m + 5) /\ h + (k + 5) = h + 5 + k
    BY <2>1, <2>2, PieceSums
  <2>6. ASSUME NEW k \in 1..(m + 5)
        PROVE  x[h + k] = ss[i][k]
    <3>1. h + (m + 5) <= N
      BY <2>3
    <3>2. h + k \in 1..N
      BY <2>1, <2>2, <3>1
    <3>. QED  BY <2>3, <2>4, <3>2, Zenon
  <2>7. ASSUME NEW k \in 1..m
        PROVE  x[h + 5 + k] = M[i][k]
    <3>1. k + 5 \in 1..(m + 5) /\ h + (k + 5) = h + 5 + k
      BY <2>5
    <3>2. x[h + (k + 5)] = ss[i][k + 5]
      BY <3>1, <2>6, Zenon
    <3>. QED  BY <3>1, <3>2, <2>2, Zenon
  <2>8. /\ x[h + 1] = sep(i) /\ x[h + 2] = "quote" /\ x[h + 3] = "key" /\ x[h + 4] = "quote"
        /\ x[h + 5] = ":"
    BY <2>2, <2>5, <2>6, Zenon
  <2>9. pre[i] = h + 5 + m /\ pre[i] <= N
    BY <2>3, <2>5
  <2>. QED  BY <2>7, <2>8, <2>9, Zenon DEF h, m, N
<1>8. TextPieces(t, pre)
  BY <1>5, <1>6, <1>7, Zenon DEF TextPieces, x, M, sep
<1>. QED  BY <1>8

\* A buffer that begins with the text of t, perhaps without its closing brace.
Begins(b, t) ==
  /\ b \in Seq(Tokens) /\ Len(Text(t)) <= Len(b) + 1
  /\ \A k \in 1..(Len(Text(t)) - 1) : b[k] = Text(t)[k]

\* Where the scanner may be behind the member that ends at e.
Stands(b, p, e) == p \in {e, e + 1} /\ p # 0 /\ (p = e => b[e] \in {"quote", "]"})

\* The room a member takes, for any kind of it.
LEMMA MemberSize ==
  ASSUME NEW t \in PlainTask, NEW i \in 1..16
  PROVE  Len(Members(t)[i]) \in Nat /\ Len(Members(t)[i]) >= 1
<1> DEFINE v == Value(t, i)
<1>1. Members(t)[i] = Written(i, v)
  BY MembersAt
<1>2. CASE i <= 6
  <2>1. Members(t)[i] = <<v>>
    BY <1>1, <1>2 DEF Written
  <2>. QED  BY <2>1
<1>3. CASE i \in {11, 12}
  <2>1. Members(t)[i] = List(v) /\ v \in PlainList
    BY <1>1, <1>3, ValueTypes DEF Written
  <2> HIDE DEF v
  <2>2. PICK pre : ListPieces(v, pre)
    BY <2>1, ListAt
  <2>3. Len(v) \in Nat \ {0}
    BY <2>1, PlainListTypes
  <2> DEFINE n == Len(v)  N == pre[n]
  <2>4. pre \in [0..n -> Nat] /\ Len(List(v)) = N + 3 /\ n \in 0..n
    <3>1. pre \in [0..n -> Nat] /\ Len(List(v)) = N + 3
      BY <2>2, Zenon DEF ListPieces
    <3>. QED  BY <2>3, <3>1
  <2> HIDE DEF n
  <2>5. N \in Nat
    BY <2>4
  <2> HIDE DEF N
  <2>6. N + 3 \in Nat /\ N + 3 >= 1
    BY <2>5
  <2>. QED  BY <2>1, <2>4, <2>6, Zenon
<1>4. CASE ~(i <= 6) /\ i \notin {11, 12}
  <2>1. Members(t)[i] = String(v)
    BY <1>1, <1>4 DEF Written
  <2>2. v \in Seq(Tokens)
    BY <1>4, ValueTypes, NoQuote
  <2> HIDE DEF v
  <2>3. Len(String(v)) = Len(v) + 2 /\ Len(v) \in Nat
    BY <2>2, StringAt
  <2>. QED  BY <2>1, <2>3
<1>. QED  BY <1>2, <1>3, <1>4

LEMMA StartSums ==
  ASSUME NEW h \in Nat, NEW m \in Nat, NEW N \in Nat, NEW L \in Nat, m >= 1, h + 5 + m <= N, N <= L
  PROVE  /\ h + 1 \in 1..N /\ h + 2 \in 1..N /\ h + 3 \in 1..N /\ h + 4 \in 1..N /\ h + 5 \in 1..N
         /\ \A k \in 1..m : h + 5 + k \in 1..N
         /\ h + 6 <= L /\ h + 5 + m <= L
         /\ (h + 5 + m) + 1 <= N => (h + 5 + m) + 1 \in 1..N /\ (h + 5 + m) + 1 <= L
OBVIOUS

LEMMA NextSums ==
  ASSUME NEW e \in Nat, NEW l \in Nat, NEW N \in Nat, e + 5 + l <= N
  PROVE  e + 1 <= N
OBVIOUS

\* The i-th member, M, lies between h and e.
Lies(b, M, p, i, h, e) ==
  /\ Starts(b, h, p)
  /\ e = h + 5 + Len(M) /\ e <= Len(b)
  /\ \A k \in 1..Len(M) : b[h + 5 + k] = M[k]
  /\ i < 16 => b[e + 1] = "," /\ e + 1 <= Len(b)

LEMMA MemberStarts ==
  ASSUME NEW t \in PlainTask, NEW b, Begins(b, t), NEW pre, TextPieces(t, pre), NEW i \in 1..16,
         NEW p, Stands(b, p, pre[i - 1])
  PROVE  Lies(b, Members(t)[i], p, i, pre[i - 1], pre[i])
<1> DEFINE h == pre[i - 1]  M == Members(t)[i]  m == Len(M)  N == pre[16]  x == Text(t)
<1>1. m \in Nat /\ m >= 1
  BY MemberSize
<1>2. h \in Nat /\ N \in Nat /\ pre[i] \in Nat
  <2>1. pre \in [0..16 -> Nat]
    BY DEF TextPieces
  <2>2. i - 1 \in 0..16 /\ 16 \in 0..16 /\ i \in 0..16
    OBVIOUS
  <2>. QED  BY <2>1, <2>2
<1>3. /\ pre[i] = h + 5 + m /\ pre[i] <= N
      /\ x[h + 1] = (IF i = 1 THEN "{" ELSE ",")
      /\ x[h + 2] = "quote" /\ x[h + 3] = "key" /\ x[h + 4] = "quote" /\ x[h + 5] = ":"
      /\ \A k \in 1..m : x[h + 5 + k] = M[k]
  BY Zenon DEF TextPieces
<1>4. N <= Len(b) /\ Len(b) \in Nat /\ b \in Seq(Tokens) /\ \A k \in 1..N : b[k] = x[k]
  <2>1. Len(x) = N + 1
    BY Zenon DEF TextPieces
  <2>2. b \in Seq(Tokens) /\ Len(x) <= Len(b) + 1 /\ \A k \in 1..(Len(x) - 1) : b[k] = x[k]
    BY Zenon DEF Begins
  <2> DEFINE L == Len(b)
  <2>3. L \in Nat
    BY <2>2
  <2> HIDE DEF x, L, N
  <2>4. (N + 1) - 1 = N /\ (N + 1 <= L + 1 => N <= L)
    BY <2>3, <1>2
  <2>5. N <= L /\ \A k \in 1..N : b[k] = x[k]
    BY <2>1, <2>2, <2>4 DEF L
  <2>. QED  BY <2>2, <2>3, <2>5 DEF L
<1>5. i < 16 => x[pre[i] + 1] = "," /\ pre[i] + 1 <= N
  <2>1. SUFFICES ASSUME i < 16 PROVE x[pre[i] + 1] = "," /\ pre[i] + 1 <= N
    OBVIOUS
  <2> DEFINE j == i + 1
  <2>2. j \in 1..16 /\ j # 1 /\ j - 1 = i /\ j \in 0..16
    BY <2>1
  <2> HIDE DEF j
  <2>3. /\ pre[j] = pre[j - 1] + 5 + Len(Members(t)[j]) /\ pre[j] <= N
        /\ x[pre[j - 1] + 1] = (IF j = 1 THEN "{" ELSE ",")
    BY <2>2, Zenon DEF TextPieces
  <2>4. Len(Members(t)[j]) \in Nat
    BY <2>2, MemberSize
  <2> DEFINE l == Len(Members(t)[j])  e == pre[i]
  <2>5. pre[j] = e + 5 + l /\ l \in Nat /\ e \in Nat
    BY <2>2, <2>3, <2>4, <1>2
  <2> HIDE DEF l, e, N
  <2>6. e + 1 <= N
    <3>1. e + 5 + l <= N
      BY <2>3, <2>5, Zenon
    <3>. QED  BY <2>5, <3>1, <1>2, NextSums, Zenon
  <2>. QED  BY <2>2, <2>3, <2>6, Zenon DEF e
<1> HIDE DEF h, m, N, x
<1>6. /\ h + 1 \in 1..N /\ h + 2 \in 1..N /\ h + 3 \in 1..N /\ h + 4 \in 1..N /\ h + 5 \in 1..N
      /\ \A k \in 1..m : h + 5 + k \in 1..N
      /\ h + 6 <= Len(b) /\ pre[i] <= Len(b) /\ (pre[i] + 1 <= N => pre[i] + 1 \in 1..N /\ pre[i] + 1 <= Len(b))
  <2> DEFINE L == Len(b)  e == h + 5 + m
  <2>1. L \in Nat /\ N <= L /\ e <= N /\ pre[i] = e
    BY <1>3, <1>4, Zenon
  <2>2. /\ h + 1 \in 1..N /\ h + 2 \in 1..N /\ h + 3 \in 1..N /\ h + 4 \in 1..N /\ h + 5 \in 1..N
        /\ \A k \in 1..m : h + 5 + k \in 1..N
        /\ h + 6 <= L /\ e <= L /\ (e + 1 <= N => e + 1 \in 1..N /\ e + 1 <= L)
    <3> HIDE DEF L
    <3>. QED  BY <1>1, <1>2, <2>1, StartSums
  <2> HIDE DEF e
  <2>. QED  BY <2>1, <2>2, Zenon DEF L
<1>7. /\ b[h + 1] \in {"{", ","} /\ b[h + 2] = "quote" /\ b[h + 3] = "key" /\ b[h + 4] = "quote"
      /\ b[h + 5] = ":" /\ \A k \in 1..m : b[h + 5 + k] = M[k]
  BY <1>3, <1>4, <1>6
<1>8. Starts(b, h, p)
  BY <1>2, <1>4, <1>6, <1>7 DEF Starts, Stands, h
<1>9. i < 16 => b[pre[i] + 1] = "," /\ pre[i] + 1 <= Len(b)
  BY <1>4, <1>5, <1>6
<1>. QED  BY <1>3, <1>6, <1>7, <1>8, <1>9, Zenon DEF h, m, Lies

\* One statement of parse_task on such a buffer: the member that it reads, and where it stops.
ReadsMember(b, t, p, i, e) ==
  /\ Read(b, p, Script[i]).val = Value(t, i)
  /\ Stands(b, Read(b, p, Script[i]).at, e)
  /\ i > 6 => Read(b, p, Script[i]).at = e

LEMMA NumberMember ==
  ASSUME NEW t \in PlainTask, NEW b, Begins(b, t), NEW pre, TextPieces(t, pre), NEW i \in 1..6,
         NEW p, Stands(b, p, pre[i - 1])
  PROVE  ReadsMember(b, t, p, i, pre[i])
<1> DEFINE h == pre[i - 1]  v == Value(t, i)  M == Members(t)[i]
<1>1. i \in 1..16 /\ i < 16 /\ i <= 6 /\ ~(i > 6)
  OBVIOUS
<1>2. /\ Starts(b, h, p) /\ pre[i] = h + 5 + Len(M)
      /\ \A k \in 1..Len(M) : b[h + 5 + k] = M[k]
      /\ b[pre[i] + 1] = "," /\ pre[i] + 1 <= Len(b)
  <2>1. Lies(b, M, p, i, h, pre[i])
    BY <1>1, MemberStarts, Zenon
  <2>. QED  BY <1>1, <2>1, Zenon DEF Lies
<1>3. v \in Numerals /\ M = <<v>>
  <2>1. M = Written(i, v) /\ v \in Numerals
    BY <1>1, MembersAt, ValueTypes, Zenon
  <2>. QED  BY <1>1, <2>1, Zenon DEF Written
<1>4. Len(M) = 1 /\ M[1] = v /\ 1 \in 1..1
  BY <1>3
<1>5. h \in Nat
  BY <1>2, StartsTypes
<1> HIDE DEF M, h, v
<1>6. /\ h + 5 + 1 = h + 6 /\ (h + 5 + 1) + 1 = h + 7 /\ h + 7 = (h + 6) + 1 /\ h + 7 # 0
  BY <1>5
<1>7. b[h + 6] = v /\ b[h + 7] = "," /\ h + 7 <= Len(b) /\ pre[i] = h + 6
  BY <1>2, <1>4, <1>6, Zenon
<1>8. ReadNumber(b, p) = [at |-> h + 7, val |-> v]
  <2>1. Starts(b, h, p) /\ v \in Numerals
    BY <1>2, <1>3
  <2>. QED  BY <2>1, <1>7, ReadNumberAt
<1>9. Script[i] = "number"
  BY <1>1 DEF Script
<1> DEFINE r == Read(b, p, Script[i])
<1>10. r = [at |-> h + 7, val |-> v]
  BY <1>8, <1>9, Zenon DEF Read
<1> HIDE DEF r
<1>11. r.val = v /\ r.at = pre[i] + 1 /\ r.at # 0 /\ ~(i > 6)
  BY <1>1, <1>6, <1>7, <1>10
<1>12. r.at # pre[i]
  <2>1. h + 7 # h + 6
    BY <1>5
  <2>. QED  BY <2>1, <1>7, <1>10
<1>. QED  BY <1>11, <1>12, Zenon DEF ReadsMember, Stands, r, v

LEMMA StringMember ==
  ASSUME NEW t \in PlainTask, NEW b, Begins(b, t), NEW pre, TextPieces(t, pre), NEW i \in 1..16,
         ~(i <= 6), i \notin {11, 12}, NEW p, Stands(b, p, pre[i - 1])
  PROVE  ReadsMember(b, t, p, i, pre[i])
<1> DEFINE h == pre[i - 1]  s == Value(t, i)  M == Members(t)[i]
<1>1. i > 6
  OBVIOUS
<1>2. /\ Starts(b, h, p) /\ pre[i] = h + 5 + Len(M) /\ pre[i] <= Len(b)
      /\ \A k \in 1..Len(M) : b[h + 5 + k] = M[k]
  <2>1. Lies(b, M, p, i, h, pre[i])
    BY MemberStarts, Zenon
  <2>. QED  BY <2>1, Zenon DEF Lies
<1>3. s \in Plain /\ M = String(s)
  <2>1. M = Written(i, s) /\ s \in Plain
    BY MembersAt, ValueTypes, Zenon
  <2>. QED  BY <2>1, Zenon DEF Written
<1> HIDE DEF M, s
<1>4. /\ Len(s) \in Nat /\ Len(M) = Len(s) + 2
      /\ M[1] = "quote" /\ M[Len(s) + 2] = "quote" /\ \A k \in 1..Len(s) : M[1 + k] = s[k]
  <2>1. s \in Seq(Tokens)
    BY <1>3, NoQuote
  <2>. QED  BY <1>3, <2>1, StringAt
<1>5. h \in Nat
  BY <1>2, StartsTypes
<1> DEFINE m == Len(s)
<1> HIDE DEF h, m
<1>6. /\ 1 \in 1..(m + 2) /\ m + 2 \in 1..(m + 2) /\ h + 5 + 1 = h + 6
      /\ h + 5 + (m + 2) = h + 7 + m /\ h + 7 + m # 0
      /\ \A k \in 1..m : 1 + k \in 1..(m + 2) /\ h + 5 + (1 + k) = h + 6 + k
  BY <1>4, <1>5 DEF m
<1>7. b[h + 6] = "quote" /\ b[h + 7 + m] = "quote" /\ pre[i] = h + 7 + m
  BY <1>2, <1>4, <1>6, Zenon DEF m
<1>8. \A k \in 1..m : b[h + 6 + k] = s[k]
  <2>1. ASSUME NEW k \in 1..m
        PROVE  b[h + 6 + k] = s[k]
    <3>1. b[h + 5 + (1 + k)] = M[1 + k]
      BY <1>2, <1>4, <1>6, Zenon DEF m
    <3>. QED  BY <3>1, <1>4, <1>6, Zenon DEF m
  <2>. QED  BY <2>1
<1>9. ReadString(b, p) = [at |-> h + 7 + m, val |-> s]
  <2>1. Starts(b, h, p) /\ s \in Plain /\ h + 7 + m <= Len(b)
    BY <1>2, <1>3, <1>7
  <2>2. b[h + 6] = "quote" /\ b[h + 7 + m] = "quote"
    BY <1>7
  <2>. QED  BY <2>1, <2>2, <1>8, ReadStringAt DEF m
<1>10. Script[i] = "string"
  BY DEF Script
<1> DEFINE r == Read(b, p, Script[i])
<1>11. r = [at |-> h + 7 + m, val |-> s]
  BY <1>9, <1>10 DEF Read
<1> HIDE DEF r
<1>12. r.val = s /\ r.at = pre[i] /\ r.at # 0 /\ b[pre[i]] = "quote"
  BY <1>6, <1>7, <1>11, Zenon
<1>. QED  BY <1>12 DEF ReadsMember, Stands, r, s

LEMMA ListMember ==
  ASSUME NEW t \in PlainTask, NEW b, Begins(b, t), NEW pre, TextPieces(t, pre), NEW i \in {11, 12},
         NEW p, Stands(b, p, pre[i - 1])
  PROVE  ReadsMember(b, t, p, i, pre[i])
<1> DEFINE h == pre[i - 1]  l == Value(t, i)  M == Members(t)[i]
<1>1. i \in 1..16 /\ ~(i <= 6)
  OBVIOUS
<1>2. /\ Starts(b, h, p) /\ pre[i] = h + 5 + Len(M) /\ pre[i] <= Len(b)
      /\ \A k \in 1..Len(M) : b[h + 5 + k] = M[k]
  <2>1. Lies(b, M, p, i, h, pre[i])
    BY <1>1, MemberStarts, Zenon
  <2>. QED  BY <1>1, <2>1, Zenon DEF Lies
<1>3. l \in PlainList /\ M = List(l)
  <2>1. M = Written(i, l) /\ l \in PlainList
    BY <1>1, MembersAt, ValueTypes, Zenon
  <2>. QED  BY <1>1, <2>1, Zenon DEF Written
<1>4. h \in Nat
  BY <1>2, StartsTypes
<1> HIDE DEF M, l, h
<1>5. Behold(b, h + 5, List(l))
  BY <1>2, <1>3, Zenon DEF Behold
<1>6. ReadList(b, p) = [at |-> h + 5 + Len(M), val |-> l] /\ b[h + 5 + Len(M)] = "]"
  <2>1. Starts(b, h, p) /\ l \in PlainList
    BY <1>2, <1>3
  <2>2. ReadList(b, p) = [at |-> h + 5 + Len(List(l)), val |-> l] /\ b[h + 5 + Len(List(l))] = "]"
    BY <2>1, <1>5, ReadListAt
  <2>. QED  BY <2>2, <1>3, Zenon
<1>7. Script[i] = "list"
  BY <1>1 DEF Script
<1> DEFINE r == Read(b, p, Script[i])
<1>8. r = [at |-> pre[i], val |-> l]
  BY <1>2, <1>6, <1>7 DEF Read
<1> HIDE DEF r
<1>9. pre[i] # 0
  <2>1. Len(M) \in Nat
    BY <1>3, ListEnds
  <2> DEFINE m == Len(M)
  <2> HIDE DEF m
  <2>2. h + 5 + m # 0
    BY <1>4, <2>1 DEF m
  <2>. QED  BY <2>2, <1>2 DEF m
<1>10. r.val = l /\ r.at = pre[i] /\ r.at # 0 /\ b[pre[i]] = "]"
  BY <1>2, <1>6, <1>8, <1>9, Zenon
<1>. QED  BY <1>10 DEF ReadsMember, Stands, r, l

LEMMA MemberRead ==
  ASSUME NEW t \in PlainTask, NEW b, Begins(b, t), NEW pre, TextPieces(t, pre), NEW i \in 1..16,
         NEW p, Stands(b, p, pre[i - 1])
  PROVE  ReadsMember(b, t, p, i, pre[i])
<1>1. CASE i <= 6
  <2>1. i \in 1..6
    BY <1>1
  <2>. QED  BY <2>1, NumberMember, Zenon
<1>2. CASE ~(i <= 6) /\ i \notin {11, 12}
  BY <1>2, StringMember, Zenon
<1>3. CASE i \in {11, 12}
  BY <1>3, ListMember, Zenon
<1>. QED  BY <1>1, <1>2, <1>3

\* The task of which values v are read, each in its place.
LEMMA TaskRead ==
  ASSUME NEW t \in PlainTask, NEW V, NEW v \in Seq(V), Len(v) = 16, \A j \in 1..16 : v[j] = Value(t, j)
  PROVE  TaskOf(v) = t
<1>1. /\ t = [limits |-> t.limits, paths |-> t.paths, argv |-> t.argv, envp |-> t.envp]
      /\ t.limits = [k \in 1..6 |-> t.limits[k]] /\ t.paths = [k \in 1..8 |-> t.paths[k]]
  BY DEF PlainTask
<1>2. \A j \in 1..16 : v[j] \in V
  BY ElementsIn, Zenon
<1>3. v[11] = t.argv /\ v[12] = t.envp
  <2>1. v[11] = Value(t, 11) /\ v[12] = Value(t, 12)
    OBVIOUS
  <2>. QED  BY <2>1 DEF Value
<1>4. /\ \A k \in 1..6 : v[k] = t.limits[k]
      /\ \A k \in 1..4 : v[6 + k] = t.paths[k]
      /\ \A k \in 1..4 : v[12 + k] = t.paths[4 + k]
  <2>1. ASSUME NEW k \in 1..6
        PROVE  v[k] = t.limits[k]
    <3>1. v[k] = Value(t, k) /\ k <= 6
      OBVIOUS
    <3>. QED  BY <3>1 DEF Value
  <2>2. ASSUME NEW k \in 1..4
        PROVE  v[6 + k] = t.paths[k] /\ v[12 + k] = t.paths[4 + k]
    <3> DEFINE i == 6 + k  j == 12 + k
    <3>1. /\ i \in 1..16 /\ ~(i <= 6) /\ i # 11 /\ i # 12 /\ i <= 10 /\ i - 6 = k
          /\ j \in 1..16 /\ ~(j <= 6) /\ j # 11 /\ j # 12 /\ ~(j <= 10) /\ j - 8 = 4 + k
      OBVIOUS
    <3>2. v[i] = Value(t, i) /\ v[j] = Value(t, j)
      BY <3>1
    <3> HIDE DEF i, j
    <3>3. v[i] = t.paths[k] /\ v[j] = t.paths[4 + k]
      BY <3>1, <3>2, Zenon DEF Value
    <3>. QED  BY <3>3 DEF i, j
  <2>. QED  BY <2>1, <2>2
<1> DEFINE A == SubSeq(v, 1, 6)  B == SubSeq(v, 7, 10)  C == SubSeq(v, 13, 16)
<1>5. /\ A \in Seq(V) /\ Len(A) = 6 /\ \A k \in 1..6 : A[k] = v[k]
      /\ B \in Seq(V) /\ Len(B) = 4 /\ \A k \in 1..4 : B[k] = v[6 + k]
      /\ C \in Seq(V) /\ Len(C) = 4 /\ \A k \in 1..4 : C[k] = v[12 + k]
  <2>1. /\ 0 \in Nat /\ 4 \in Nat /\ 6 \in Nat /\ 12 \in Nat
        /\ 0 + 6 <= Len(v) /\ 6 + 4 <= Len(v) /\ 12 + 4 <= Len(v)
        /\ 0 + 1 = 1 /\ 0 + 6 = 6 /\ 6 + 1 = 7 /\ 6 + 4 = 10 /\ 12 + 1 = 13 /\ 12 + 4 = 16
        /\ \A k \in 1..6 : 0 + k = k
    OBVIOUS
  <2>2. PartBehind(V, v, 0, 6, SubSeq(v, 0 + 1, 0 + 6))
    BY <2>1, PartOf, Zenon
  <2>3. PartBehind(V, v, 6, 4, SubSeq(v, 6 + 1, 6 + 4))
    BY <2>1, PartOf, Zenon
  <2>4. PartBehind(V, v, 12, 4, SubSeq(v, 12 + 1, 12 + 4))
    BY <2>1, PartOf, Zenon
  <2>5. A \in Seq(V) /\ Len(A) = 6 /\ \A k \in 1..6 : A[k] = v[k]
    BY <2>1, <2>2, Zenon DEF PartBehind
  <2>6. B \in Seq(V) /\ Len(B) = 4 /\ \A k \in 1..4 : B[k] = v[6 + k]
    BY <2>1, <2>3, Zenon DEF PartBehind
  <2>7. C \in Seq(V) /\ Len(C) = 4 /\ \A k \in 1..4 : C[k] = v[12 + k]
    BY <2>1, <2>4, Zenon DEF PartBehind
  <2>. QED  BY <2>5, <2>6, <2>7, Zenon
<1> HIDE DEF A, B, C
<1>6. A = t.limits
  <2> DEFINE f == t.limits
  <2>1. \A k \in 1..6 : f[k] \in V /\ A[k] = f[k]
    <3>1. \A k \in 1..6 : k \in 1..16
      OBVIOUS
    <3>. QED  BY <3>1, <1>2, <1>4, <1>5, Zenon
  <2>2. f = [k \in 1..6 |-> f[k]] /\ 6 \in Nat
    BY <1>1
  <2> HIDE DEF f
  <2>3. f \in Seq(V) /\ Len(f) = 6
    BY <2>1, <2>2, Row
  <2>4. A = f
    BY <1>5, <2>1, <2>3, SameSequence, ZenonT(60)
  <2>. QED  BY <2>4 DEF f
<1>7. B \o C = t.paths
  <2> DEFINE f == t.paths  g == B \o C
  <2>1. f = [k \in 1..8 |-> f[k]] /\ 8 \in Nat
    BY <1>1
  <2>2. /\ g \in Seq(V) /\ Len(g) = Len(B) + Len(C)
        /\ \A k \in 1..Len(B) : g[k] = B[k]
        /\ \A k \in 1..Len(C) : g[Len(B) + k] = C[k]
    <3>1. B \in Seq(V) /\ C \in Seq(V)
      BY <1>5
    <3>. QED  BY <3>1, ConcatAt
  <2> HIDE DEF g
  <2>3. /\ Len(g) = 8 /\ \A k \in 1..4 : g[k] = t.paths[k]
        /\ \A k \in 1..4 : g[4 + k] = t.paths[4 + k]
    BY <2>2, <1>4, <1>5, SMTT(60)
  <2>4. \A k \in 1..8 : g[k] = f[k]
    <3>1. \A k \in 1..8 : k \in 1..4 \/ (k - 4 \in 1..4 /\ 4 + (k - 4) = k)
      OBVIOUS
    <3>2. ASSUME NEW k \in 1..8 PROVE g[k] = f[k]
      <4>1. CASE k \in 1..4
        BY <4>1, <2>3
      <4>2. CASE k - 4 \in 1..4 /\ 4 + (k - 4) = k
        <5>1. g[4 + (k - 4)] = t.paths[4 + (k - 4)]
          BY <4>2, <2>3, Zenon
        <5>. QED  BY <4>2, <5>1, Zenon
      <4>. QED  BY <3>1, <4>1, <4>2
    <3>. QED  BY <3>2
  <2> HIDE DEF f
  <2>5. \A k \in 1..8 : f[k] \in V
    <3>1. \A k \in 1..8 : g[k] \in V
      BY <2>2, <2>3, ElementsIn, Zenon
    <3>. QED  BY <3>1, <2>4
  <2>6. f \in Seq(V) /\ Len(f) = 8
    BY <2>1, <2>5, Row
  <2>7. g = f
    <3>1. g \in Seq(V)
      BY <2>2
    <3>. QED  BY <2>3, <2>4, <2>6, <3>1, SameSequence
  <2>. QED  BY <2>7 DEF f, g
<1>8. TaskOf(v) = [limits |-> A, paths |-> B \o C, argv |-> v[11], envp |-> v[12]]
  BY DEF TaskOf, A, B, C
<1>. QED  BY <1>1, <1>3, <1>6, <1>7, <1>8, Zenon

\* parse_task, given a whole request, gets to its end and takes out of it what was put in
\* (utils.c:99-174).
THEOREM WholeRead ==
  ASSUME NEW t \in PlainTask, NEW b, Begins(b, t)
  PROVE  Scan(b).at = Len(Text(t)) - 1 /\ Scan(b).at # 0 /\ TaskOf(Scan(b).vals) = t
<1>1. PICK pre : TextPieces(t, pre)
  BY TextAt
<1> DEFINE V == {Value(t, j) : j \in 1..16}
           at(i) == Progress(b)[i].at
           vals(i) == Progress(b)[i].vals
           Been(i) == /\ Stands(b, at(i), pre[i]) /\ (i > 6 => at(i) = pre[i])
                      /\ vals(i) \in Seq(V) /\ Len(vals(i)) = i
                      /\ \A j \in 1..i : vals(i)[j] = Value(t, j)
           Good == {i \in Nat : i <= 16 => Been(i)}
<1>2. Been(0)
  <2>1. at(0) = 1 /\ vals(0) = <<>>
    <3>1. Progress(b)[0] = [at |-> 1, vals |-> <<>>]
      BY ProgressDef, Zenon
    <3>. QED  BY <3>1
  <2>2. pre[0] = 0
    BY <1>1, Zenon DEF TextPieces
  <2>3. Stands(b, 1, 0)
    BY DEF Stands
  <2>4. <<>> \in Seq(V) /\ Len(<<>>) = 0 /\ ~(0 > 6) /\ 1..0 = {}
    OBVIOUS
  <2> HIDE DEF at, vals, V
  <2>. QED  BY <2>1, <2>2, <2>3, <2>4, Zenon
<1>3. ASSUME NEW k \in Nat, k \in Good
      PROVE  k + 1 \in Good
  <2>1. SUFFICES ASSUME k + 1 <= 16 PROVE Been(k + 1)
    OBVIOUS
  <2> DEFINE i == k + 1
  <2>2. i \in 1..16 /\ i - 1 = k /\ k <= 16 /\ i \in Nat
    BY <2>1
  <2>3. Been(k)
    BY <1>3, <2>2
  <2> DEFINE r == Read(b, at(k), Script[i])
  <2>4. Progress(b)[i] = [at |-> r.at, vals |-> Append(vals(k), r.val)]
    <3> HIDE DEF i
    <3>. QED  BY <2>2, ProgressDef, Zenon
  <2> HIDE DEF r
  <2>5. at(i) = r.at /\ vals(i) = Append(vals(k), r.val)
    BY <2>4
  <2> HIDE DEF at, vals
  <2>6. ReadsMember(b, t, at(k), i, pre[i])
    <3>1. Stands(b, at(k), pre[i - 1])
      BY <2>2, <2>3, Zenon
    <3> HIDE DEF i
    <3>. QED  BY <1>1, <2>2, <3>1, MemberRead, Zenon
  <2>7. r.val = Value(t, i) /\ Stands(b, r.at, pre[i]) /\ (i > 6 => r.at = pre[i])
    BY <2>6, Zenon DEF ReadsMember, r
  <2>8. r.val \in V
    BY <2>2, <2>7
  <2> HIDE DEF V
  <2> DEFINE w == vals(k)  x == r.val
  <2>9. w \in Seq(V) /\ Len(w) = k /\ x \in V /\ \A j \in 1..k : w[j] = Value(t, j)
    BY <2>3, <2>8
  <2> HIDE DEF w, x
  <2>10. /\ Append(w, x) \in Seq(V) /\ Len(Append(w, x)) = Len(w) + 1
         /\ \A j \in 1..Len(w) : Append(w, x)[j] = w[j]
         /\ Append(w, x)[Len(w) + 1] = x
    <3>1. w \in Seq(V) /\ x \in V
      BY <2>9
    <3>. QED  BY <3>1, AppendProperties
  <2>11. vals(i) = Append(w, x)
    BY <2>5 DEF w, x
  <2>12. ASSUME NEW j \in 1..i
         PROVE  Append(w, x)[j] = Value(t, j)
    <3>1. j \in 1..k \/ j = k + 1
      OBVIOUS
    <3>2. CASE j \in 1..k
      BY <3>2, <2>9, <2>10
    <3>3. CASE j = k + 1
      BY <3>3, <2>7, <2>9, <2>10 DEF x
    <3>. QED  BY <3>1, <3>2, <3>3
  <2>13. Stands(b, at(i), pre[i]) /\ (i > 6 => at(i) = pre[i])
    BY <2>5, <2>7
  <2>. QED  BY <2>9, <2>10, <2>11, <2>12, <2>13
<1>4. Been(16)
  <2> HIDE DEF Been
  <2>1. Nat \subseteq Good
    <3>1. 0 \in Good
      BY <1>2
    <3> HIDE DEF Good
    <3>. QED  BY <1>3, <3>1, Induct
  <2>. QED  BY <2>1
<1>5. at(16) = pre[16] /\ at(16) # 0
  <2>1. 16 > 6
    OBVIOUS
  <2>. QED  BY <2>1, <1>4, Zenon DEF Stands
<1>6. pre[16] = Len(Text(t)) - 1
  <2>1. pre \in [0..16 -> Nat] /\ Len(Text(t)) = pre[16] + 1 /\ 16 \in 0..16
    <3>1. pre \in [0..16 -> Nat] /\ Len(Text(t)) = pre[16] + 1
      BY <1>1, Zenon DEF TextPieces
    <3>2. 16 \in 0..16
      OBVIOUS
    <3>. QED  BY <3>1, <3>2, Zenon
  <2> DEFINE N == pre[16]
  <2>2. N \in Nat /\ Len(Text(t)) = N + 1
    BY <2>1
  <2> HIDE DEF N
  <2>3. (N + 1) - 1 = N
    BY <2>2
  <2>. QED  BY <2>2, <2>3, Zenon DEF N
<1>7. TaskOf(vals(16)) = t
  <2>1. vals(16) \in Seq(V) /\ Len(vals(16)) = 16 /\ \A j \in 1..16 : vals(16)[j] = Value(t, j)
    BY <1>4, Zenon
  <2> HIDE DEF vals, V
  <2>. QED  BY <2>1, TaskRead, Zenon
<1>. QED  BY <1>5, <1>6, <1>7, Zenon DEF Scan

---------------------- (* reading the front of a text *) --------------------
\* A buffer that holds the front of w.
FrontOf(b, w) ==
  /\ b \in Seq(Tokens) /\ w \in Seq(Tokens) /\ Len(b) <= Len(w)
  /\ \A k \in 1..Len(b) : b[k] = w[k]

LEMMA FrontTypes ==
  ASSUME NEW b, NEW w, FrontOf(b, w)
  PROVE  /\ b \in Seq(Tokens) /\ w \in Seq(Tokens) /\ Len(b) \in Nat /\ Len(w) \in Nat
         /\ Len(b) <= Len(w) /\ \A k \in 1..Len(b) : b[k] = w[k]
<1>1. /\ b \in Seq(Tokens) /\ w \in Seq(Tokens) /\ Len(b) <= Len(w)
      /\ \A k \in 1..Len(b) : b[k] = w[k]
  BY Zenon DEF FrontOf
<1>2. Len(b) \in Nat /\ Len(w) \in Nat
  BY <1>1
<1>. QED  BY <1>1, <1>2

\* What a scan finds in the front it finds in the whole.
LEMMA PastFront ==
  ASSUME NEW b, NEW w, FrontOf(b, w), NEW p \in Nat, NEW S, NEW n \in Nat, Past(b, p, S, n) # 0
  PROVE  Past(w, p, S, n) = Past(b, p, S, n)
<1> DEFINE L == Len(b)  K == Len(w)
<1>1. L \in Nat /\ K \in Nat /\ L <= K /\ \A k \in 1..L : b[k] = w[k]
  BY FrontTypes
<1>2. PICK i \in p..L : /\ p # 0 /\ b[i] \in S /\ (\A j \in p..(i - 1) : b[j] \notin S)
                        /\ Past(b, p, S, n) = n + i
  BY <1>1, PastCases
<1> HIDE DEF L, K
<1>3. /\ p \in Nat \ {0} /\ i \in p..K /\ i \in 1..L /\ \A j \in p..(i - 1) : j \in 1..L
  BY <1>1, <1>2
<1>4. w[i] \in S /\ \A j \in p..(i - 1) : w[j] \notin S
  BY <1>1, <1>2, <1>3
<1>5. Past(w, p, S, n) = n + i
  BY <1>1, <1>3, <1>4, PastFound DEF K
<1>. QED  BY <1>2, <1>5

LEMMA PartFront ==
  ASSUME NEW b, NEW w, FrontOf(b, w), NEW p \in Nat \ {0}, NEW e \in Nat, p <= e + 1, e <= Len(b)
  PROVE  SubSeq(w, p, e) = SubSeq(b, p, e)
<1>1. /\ b \in Seq(Tokens) /\ w \in Seq(Tokens) /\ Len(b) \in Nat /\ Len(w) \in Nat
      /\ Len(b) <= Len(w) /\ \A k \in 1..Len(b) : b[k] = w[k]
  BY FrontTypes
<1> DEFINE h == p - 1  m == e - (p - 1)
<1>2. /\ h \in Nat /\ m \in Nat /\ h + 1 = p /\ h + m = e
      /\ \A k \in 1..m : h + k \in 1..e
  OBVIOUS
<1> HIDE DEF h, m
<1>3. h + m <= Len(b) /\ h + m <= Len(w) /\ \A k \in 1..e : k \in 1..Len(b)
  BY <1>1, <1>2
<1> DEFINE x == SubSeq(b, h + 1, h + m)  y == SubSeq(w, h + 1, h + m)
<1>4. PartBehind(Tokens, b, h, m, x) /\ PartBehind(Tokens, w, h, m, y)
  BY <1>1, <1>2, <1>3, PartOf, Zenon
<1> HIDE DEF x, y
<1>5. /\ x \in Seq(Tokens) /\ Len(x) = m /\ (\A k \in 1..m : x[k] = b[h + k])
      /\ y \in Seq(Tokens) /\ Len(y) = m /\ (\A k \in 1..m : y[k] = w[h + k])
  BY <1>4, Zenon DEF PartBehind
<1>6. \A k \in 1..m : x[k] = y[k]
  BY <1>1, <1>2, <1>3, <1>5, Zenon
<1>7. x = y
  BY <1>5, <1>6, SameSequence
<1>. QED  BY <1>2, <1>7, Zenon DEF x, y

LEMMA SkipFront ==
  ASSUME NEW b, NEW w, FrontOf(b, w), NEW p \in Nat
  PROVE  /\ Skip(b, p) \in {p, p + 1}
         /\ p \notin 1..Len(b) => Skip(b, p) = p
         /\ p \in 1..Len(b) => Skip(w, p) = Skip(b, p)
<1>1. Len(b) \in Nat /\ Len(w) \in Nat /\ Len(b) <= Len(w) /\ \A k \in 1..Len(b) : b[k] = w[k]
  BY FrontTypes
<1>2. p \in 1..Len(b) => p \in 1..Len(w) /\ b[p] = w[p]
  BY <1>1
<1>. QED  BY <1>2, Zenon DEF Skip

\* The two cursors of a number: an end means that there was a colon.
LEMMA NumberFront ==
  ASSUME NEW b, NEW w, FrontOf(b, w), NEW p \in Nat
  PROVE  /\ ReadNumber(b, p).at \in Nat
         /\ ReadNumber(b, p).at # 0 => p # 0 /\ ReadNumber(w, p) = ReadNumber(b, p)
<1> DEFINE from == Past(b, p, {":"}, 1)  to == Past(b, from, {","}, 0)
<1>1. Len(b) \in Nat /\ 1 \in Nat /\ 0 \in Nat
  BY FrontTypes
<1>2. from \in Nat /\ (from # 0 => p # 0)
  BY <1>1, PastRange
<1>3. to \in Nat /\ (to # 0 => from # 0 /\ to \in from..Len(b))
  <2> HIDE DEF from
  <2>1. to \in Nat /\ (to # 0 => from # 0 /\ to \in (0 + from)..(0 + Len(b)))
    BY <1>1, <1>2, PastRange
  <2> HIDE DEF to
  <2>. QED  BY <1>1, <1>2, <2>1
<1>4. ReadNumber(b, p) = [at |-> to, val |-> Strtoul(SubSeq(b, from, to - 1))]
  BY Zenon DEF ReadNumber
<1>5. ASSUME to # 0
      PROVE  p # 0 /\ ReadNumber(w, p) = ReadNumber(b, p)
  <2>1. from # 0 /\ p # 0
    BY <1>2, <1>3, <1>5
  <2>2. Past(w, p, {":"}, 1) = from
    BY <1>1, <2>1, PastFront
  <2>3. Past(w, from, {","}, 0) = to
    <3> HIDE DEF from
    <3> DEFINE S == {","}
    <3>1. from \in Nat /\ 0 \in Nat /\ Past(b, from, S, 0) # 0
      BY <1>2, <1>5
    <3> HIDE DEF S
    <3>2. Past(w, from, S, 0) = Past(b, from, S, 0)
      BY <3>1, PastFront
    <3>. QED  BY <3>2 DEF S
  <2>4. ReadNumber(w, p) = [at |-> to, val |-> Strtoul(SubSeq(w, from, to - 1))]
    BY <2>2, <2>3, Zenon DEF ReadNumber
  <2> HIDE DEF from, to
  <2>5. SubSeq(w, from, to - 1) = SubSeq(b, from, to - 1)
    <3>1. from \in Nat \ {0} /\ to - 1 \in Nat /\ from <= (to - 1) + 1 /\ to - 1 <= Len(b)
      BY <1>1, <1>2, <1>3, <1>5, <2>1
    <3> DEFINE e == to - 1
    <3>2. from \in Nat \ {0} /\ e \in Nat /\ from <= e + 1 /\ e <= Len(b)
      BY <3>1
    <3> HIDE DEF e
    <3>3. SubSeq(w, from, e) = SubSeq(b, from, e)
      BY <3>2, PartFront
    <3>. QED  BY <3>3 DEF e
  <2>. QED  BY <1>4, <2>1, <2>4, <2>5, Zenon
<1> HIDE DEF from, to
<1>6. ReadNumber(b, p).at = to
  BY <1>4
<1>. QED  BY <1>3, <1>5, <1>6, Zenon

LEMMA StringFront ==
  ASSUME NEW b, NEW w, FrontOf(b, w), NEW p \in Nat
  PROVE  /\ ReadString(b, p).at \in Nat
         /\ ReadString(b, p).at # 0 => p # 0 /\ ReadString(w, p) = ReadString(b, p)
<1> DEFINE x == Past(b, p, {":"}, 1)  from == Skip(b, x)  to == Past(b, from, {"quote"}, 0)
<1>1. Len(b) \in Nat /\ 1 \in Nat /\ 0 \in Nat
  BY FrontTypes
<1>2. x \in Nat /\ (x # 0 => p # 0)
  BY <1>1, PastRange
<1>3. /\ from \in Nat /\ from \in {x, x + 1}
      /\ x \notin 1..Len(b) => from = x
      /\ x \in 1..Len(b) => Skip(w, x) = from
  <2> HIDE DEF x
  <2>1. /\ from \in {x, x + 1} /\ (x \notin 1..Len(b) => from = x)
        /\ x \in 1..Len(b) => Skip(w, x) = from
    BY <1>2, SkipFront, Zenon
  <2>. QED  BY <1>2, <2>1
<1>4. to \in Nat /\ (to # 0 => from # 0 /\ to \in from..Len(b))
  <2> HIDE DEF from
  <2>1. to \in Nat /\ (to # 0 => from # 0 /\ to \in (0 + from)..(0 + Len(b)))
    BY <1>1, <1>3, PastRange
  <2> HIDE DEF to
  <2>. QED  BY <1>1, <1>3, <2>1
<1>5. ReadString(b, p) = [at |-> to, val |-> SubSeq(b, from, to - 1)]
  BY Zenon DEF ReadString
<1>6. ASSUME to # 0
      PROVE  p # 0 /\ ReadString(w, p) = ReadString(b, p)
  <2>1. from # 0 /\ from <= Len(b) /\ x # 0 /\ x \in 1..Len(b)
    <3> HIDE DEF x, from, to
    <3>. QED  BY <1>1, <1>2, <1>3, <1>4, <1>6
  <2>2. Past(w, p, {":"}, 1) = x /\ p # 0
    BY <1>1, <1>2, <2>1, PastFront
  <2>3. Past(w, from, {"quote"}, 0) = to
    <3> HIDE DEF from
    <3>. QED  BY <1>1, <1>3, <1>6, PastFront
  <2>4. ReadString(w, p) = [at |-> to, val |-> SubSeq(w, from, to - 1)]
    BY <1>3, <2>1, <2>2, <2>3, Zenon DEF ReadString
  <2> HIDE DEF from, to
  <2>5. SubSeq(w, from, to - 1) = SubSeq(b, from, to - 1)
    <3>1. from \in Nat \ {0} /\ to - 1 \in Nat /\ from <= (to - 1) + 1 /\ to - 1 <= Len(b)
      BY <1>1, <1>3, <1>4, <1>6, <2>1
    <3> DEFINE e == to - 1
    <3>2. from \in Nat \ {0} /\ e \in Nat /\ from <= e + 1 /\ e <= Len(b)
      BY <3>1
    <3> HIDE DEF e
    <3>3. SubSeq(w, from, e) = SubSeq(b, from, e)
      BY <3>2, PartFront
    <3>. QED  BY <3>3 DEF e
  <2>. QED  BY <1>5, <2>2, <2>4, <2>5, Zenon
<1> HIDE DEF from, to
<1>7. ReadString(b, p).at = to
  BY <1>5
<1>. QED  BY <1>4, <1>6, <1>7, Zenon

LEMMA ItemsLost ==
  ASSUME NEW b, Len(b) \in Nat, NEW q \in 0..(Len(b) + 2), q = 0 \/ q > Len(b)
  PROVE  Items(b)[q] = [at |-> 0, val |-> <<>>]
<1>1. Items(b)[q] = Item(b, Items(b), q)
  BY ItemsDef, Zenon
<1>. QED  BY <1>1, Zenon DEF Item

\* The items from position q are those of the whole text, if they have an end.
SameItems(b, w, q) ==
  /\ Items(b)[q].at \in Nat
  /\ Items(b)[q].at # 0 => Items(w)[q] = Items(b)[q]

LEMMA ItemsFront ==
  ASSUME NEW b, NEW w, FrontOf(b, w)
  PROVE  \A q \in 0..(Len(b) + 2) : SameItems(b, w, q)
<1> DEFINE L == Len(b)  N == L + 2
           Good == {m \in Nat : \A q \in 0..N : q + m >= N => SameItems(b, w, q)}
<1>1. L \in Nat /\ N \in Nat /\ Len(w) \in Nat /\ L <= Len(w) /\ \A k \in 1..L : b[k] = w[k]
  BY FrontTypes
<1>2. ASSUME NEW q \in 0..N, q = 0 \/ q > L
      PROVE  SameItems(b, w, q)
  <2>1. Items(b)[q] = [at |-> 0, val |-> <<>>]
    BY <1>1, <1>2, ItemsLost
  <2>2. Items(b)[q].at = 0 /\ 0 \in Nat
    BY <2>1
  <2>. QED  BY <2>2, Zenon DEF SameItems
<1>3. 0 \in Good
  <2>1. ASSUME NEW q \in 0..N, q + 0 >= N
        PROVE  q > L
    BY <1>1, <2>1
  <2>. QED  BY <1>2, <2>1
<1>4. ASSUME NEW m \in Nat, m \in Good
      PROVE  m + 1 \in Good
  <2>1. SUFFICES ASSUME NEW q \in 0..N, q + (m + 1) >= N
                 PROVE  SameItems(b, w, q)
    OBVIOUS
  <2>2. CASE q = 0 \/ q > L
    BY <1>2, <2>2
  <2>3. CASE ~(q = 0 \/ q > L)
    <3>1. /\ q \in 1..L /\ q \in Nat \ {0} /\ q \in 0..N /\ q \in 0..(Len(w) + 2) /\ ~(q > Len(w))
          /\ b[q] = w[q]
      BY <1>1, <2>3
    <3>2. Items(b)[q] = Item(b, Items(b), q) /\ Items(w)[q] = Item(w, Items(w), q)
      BY <1>1, <3>1, ItemsDef, Zenon
    <3>3. CASE b[q] = "]"
      <4>1. Items(b)[q] = [at |-> q, val |-> <<>>] /\ Items(w)[q] = [at |-> q, val |-> <<>>]
        BY <2>3, <3>1, <3>2, <3>3, Zenon DEF Item
      <4>2. Items(b)[q].at = q /\ Items(w)[q] = Items(b)[q] /\ q \in Nat
        BY <3>1, <4>1
      <4>. QED  BY <4>2, Zenon DEF SameItems
    <3>4. CASE b[q] # "]"
      <4> DEFINE S == {"quote"}  R == {"quote", "]"}
                 after == Past(b, q, S, 1)
                 stop == Past(b, after, R, 0)
                 next == IF stop # 0 /\ b[stop] = "quote" THEN stop + 1 ELSE stop
      <4>1. Items(b)[q] = [at |-> Items(b)[next].at, val |-> <<SubSeq(b, q, after - 2)>> \o Items(b)[next].val]
        BY <2>3, <3>2, <3>4, Zenon DEF Item
      <4>2. after \in Nat /\ (after # 0 => after \in (q + 1)..(L + 1))
        <5>1. q \in Nat /\ 1 \in Nat
          BY <3>1
        <5>2. after \in Nat /\ (after # 0 => after \in (1 + q)..(1 + L))
          <6> HIDE DEF S
          <6>. QED  BY <1>1, <5>1, PastRange
        <5> HIDE DEF after
        <5>. QED  BY <1>1, <5>1, <5>2
      <4>3. stop \in Nat /\ (stop # 0 => after # 0 /\ stop \in after..L)
        <5> HIDE DEF after, R
        <5>1. stop \in Nat /\ (stop # 0 => after # 0 /\ stop \in (0 + after)..(0 + L))
          <6>1. 0 \in Nat
            OBVIOUS
          <6>. QED  BY <1>1, <4>2, <6>1, PastRange
        <5> HIDE DEF stop
        <5>. QED  BY <1>1, <4>2, <5>1
      <4>4. next \in 0..N /\ (next # 0 => stop # 0 /\ next + m >= N)
        <5> HIDE DEF after, stop
        <5>. QED  BY <1>1, <2>1, <3>1, <4>2, <4>3
      <4>5. SameItems(b, w, next)
        <5>1. CASE next = 0
          BY <1>2, <4>4, <5>1
        <5>2. CASE next # 0
          <6> HIDE DEF next
          <6>. QED  BY <1>4, <4>4, <5>2
        <5>. QED  BY <5>1, <5>2
      <4>6. Items(b)[next].at = 0 \/ next # 0
        <5>1. SUFFICES ASSUME next = 0 PROVE Items(b)[next].at = 0
          OBVIOUS
        <5>2. 0 \in 0..(L + 2)
          BY <1>1
        <5>3. Items(b)[0] = [at |-> 0, val |-> <<>>]
          BY <1>1, <5>2, ItemsLost
        <5>4. Items(b)[0].at = 0
          BY <5>3
        <5>. QED  BY <5>1, <5>4, Zenon
      <4>7. ASSUME Items(b)[next].at # 0
            PROVE  Items(w)[q] = Items(b)[q]
        <5>1. next # 0 /\ stop # 0 /\ after # 0 /\ Items(w)[next] = Items(b)[next]
          BY <4>3, <4>4, <4>5, <4>6, <4>7, Zenon DEF SameItems
        <5>2. Past(w, q, S, 1) = after
          <6> HIDE DEF S
          <6>1. q \in Nat /\ 1 \in Nat
            BY <3>1
          <6>. QED  BY <5>1, <6>1, PastFront
        <5>3. Past(w, after, R, 0) = stop
          <6> HIDE DEF after, R
          <6>1. 0 \in Nat
            OBVIOUS
          <6>. QED  BY <4>2, <5>1, <6>1, PastFront
        <5>4. w[stop] = b[stop]
          <6> HIDE DEF stop, after
          <6>1. stop \in 1..L
            BY <4>2, <4>3, <5>1
          <6>. QED  BY <1>1, <6>1
        <5>5. Items(w)[q] = [at |-> Items(w)[next].at, val |-> <<SubSeq(w, q, after - 2)>> \o Items(w)[next].val]
          BY <3>1, <3>2, <3>4, <5>2, <5>3, <5>4, Zenon DEF Item
        <5>6. SubSeq(w, q, after - 2) = SubSeq(b, q, after - 2)
          <6> DEFINE e == after - 2
          <6>1. e \in Nat /\ q <= e + 1 /\ e <= L
            <7> HIDE DEF after
            <7>. QED  BY <1>1, <3>1, <4>2, <5>1
          <6> HIDE DEF e
          <6>2. SubSeq(w, q, e) = SubSeq(b, q, e)
            BY <3>1, <6>1, PartFront
          <6>. QED  BY <6>2 DEF e
        <5> HIDE DEF after, stop, next
        <5>. QED  BY <4>1, <5>1, <5>5, <5>6
      <4>8. Items(b)[q].at = Items(b)[next].at
        <5> HIDE DEF after, next
        <5>. QED  BY <4>1
      <4>. QED  BY <4>5, <4>7, <4>8, Zenon DEF SameItems
    <3>. QED  BY <3>3, <3>4
  <2>. QED  BY <2>2, <2>3
<1>5. N \in Good
  <2> HIDE DEF Good, N
  <2>. QED  BY <1>1, <1>3, <1>4, Induct
<1>6. \A q \in 0..N : q + N >= N
  BY <1>1
<1>. QED  BY <1>5, <1>6

LEMMA ListFront ==
  ASSUME NEW b, NEW w, FrontOf(b, w), NEW p \in Nat
  PROVE  /\ ReadList(b, p).at \in Nat
         /\ ReadList(b, p).at # 0 => p # 0 /\ ReadList(w, p) = ReadList(b, p)
<1> DEFINE S == {"["}  x == Past(b, p, S, 1)  q == Skip(b, x)  all == Items(b)[q]
<1>1. Len(b) \in Nat /\ 1 \in Nat /\ 0 \in Nat
  BY FrontTypes
<1>2. x \in Nat /\ (x # 0 => p # 0 /\ x \in (1 + p)..(1 + Len(b)))
  <2> HIDE DEF S
  <2>. QED  BY <1>1, PastRange
<1>3. /\ q \in {x, x + 1}
      /\ x \notin 1..Len(b) => q = x
      /\ x \in 1..Len(b) => Skip(w, x) = q
  <2> HIDE DEF x
  <2>. QED  BY <1>2, SkipFront, Zenon
<1>4. q \in 0..(Len(b) + 2)
  <2> HIDE DEF x, q
  <2>. QED  BY <1>1, <1>2, <1>3
<1>5. SameItems(b, w, q)
  BY <1>4, ItemsFront, Zenon
<1>6. x \notin 1..Len(b) => all.at = 0
  <2>1. SUFFICES ASSUME x \notin 1..Len(b) PROVE all.at = 0
    OBVIOUS
  <2>2. q = 0 \/ q > Len(b)
    <3> HIDE DEF x, q
    <3>. QED  BY <1>1, <1>2, <1>3, <2>1
  <2> HIDE DEF q
  <2>3. Items(b)[q] = [at |-> 0, val |-> <<>>]
    BY <1>1, <1>4, <2>2, ItemsLost
  <2>. QED  BY <2>3
<1>7. ReadList(b, p) = [at |-> IF Len(all.val) < ExecArgc THEN all.at ELSE 0, val |-> all.val]
  BY Zenon DEF ReadList
<1>8. ASSUME all.at # 0
      PROVE  p # 0 /\ ReadList(w, p) = ReadList(b, p)
  <2>1. x \in 1..Len(b) /\ x # 0
    <3>1. x \in 1..Len(b)
      BY <1>6, <1>8
    <3> HIDE DEF x
    <3>. QED  BY <3>1
  <2>2. p # 0 /\ Past(w, p, S, 1) = x
    <3> HIDE DEF S
    <3>. QED  BY <1>1, <1>2, <2>1, PastFront
  <2>3. Skip(w, x) = q /\ Items(w)[q] = all
    BY <1>3, <1>5, <1>8, <2>1, Zenon DEF SameItems
  <2>4. ReadList(w, p) = [at |-> IF Len(all.val) < ExecArgc THEN all.at ELSE 0, val |-> all.val]
    BY <2>2, <2>3, Zenon DEF ReadList
  <2> HIDE DEF all
  <2>. QED  BY <1>7, <2>2, <2>4
<1>9. all.at \in Nat
  BY <1>5, Zenon DEF SameItems
<1> HIDE DEF all
<1>10. ReadList(b, p).at = IF Len(all.val) < ExecArgc THEN all.at ELSE 0
  BY <1>7
<1>. QED  BY <1>1, <1>8, <1>9, <1>10, Zenon

\* A parse that comes to an end in the front of a text comes to the same in the whole.
LEMMA ScanFront ==
  ASSUME NEW b, NEW w, FrontOf(b, w), Scan(b).at # 0
  PROVE  Scan(w) = Scan(b)
<1> DEFINE B(i) == Progress(b)[i]  W(i) == Progress(w)[i]
           P(i) == B(i).at \in Nat /\ (B(i).at # 0 => W(i) = B(i))
           Good == {i \in Nat : i <= 16 => P(i)}
<1>1. 0 \in Good
  <2>1. B(0) = [at |-> 1, vals |-> <<>>] /\ W(0) = [at |-> 1, vals |-> <<>>]
    BY ProgressDef, Zenon
  <2> HIDE DEF B, W
  <2>2. B(0).at = 1 /\ 1 \in Nat /\ W(0) = B(0) /\ 0 \in Nat
    BY <2>1
  <2>. QED  BY <2>2
<1>2. ASSUME NEW k \in Nat, k \in Good
      PROVE  k + 1 \in Good
  <2>1. SUFFICES ASSUME k + 1 <= 16 PROVE P(k + 1)
    OBVIOUS
  <2> DEFINE i == k + 1
  <2>2. i \in 1..16 /\ i - 1 = k /\ k <= 16
    BY <2>1
  <2>3. P(k)
    BY <1>2, <2>2
  <2> DEFINE p == B(k).at  r == Read(b, p, Script[i])
  <2>4. /\ B(i) = [at |-> r.at, vals |-> Append(B(k).vals, r.val)]
        /\ W(i) = [at |-> Read(w, W(k).at, Script[i]).at,
                   vals |-> Append(W(k).vals, Read(w, W(k).at, Script[i]).val)]
    <3> HIDE DEF i
    <3>. QED  BY <2>2, ProgressDef, Zenon
  <2>5. Script[i] \in {"number", "string", "list"}
    <3> HIDE DEF i
    <3>. QED  BY <2>2 DEF Script
  <2>6. p \in Nat
    BY <2>3
  <2>7. r.at \in Nat /\ (r.at # 0 => p # 0 /\ Read(w, p, Script[i]) = r)
    <3> DEFINE kind == Script[i]
    <3> HIDE DEF p, i
    <3>1. CASE kind = "number"
      BY <2>6, <3>1, NumberFront DEF Read
    <3>2. CASE kind = "string"
      BY <2>6, <3>2, StringFront DEF Read
    <3>3. CASE kind = "list"
      BY <2>6, <3>3, ListFront DEF Read
    <3>. QED  BY <2>5, <3>1, <3>2, <3>3
  <2>8. B(i).at = r.at
    <3> HIDE DEF B, r
    <3>. QED  BY <2>4
  <2>9. ASSUME r.at # 0
        PROVE  W(i) = B(i)
    <3>1. W(k) = B(k) /\ Read(w, p, Script[i]) = r
      BY <2>3, <2>7, <2>9, Zenon
    <3>. QED  BY <2>4, <3>1, Zenon
  <2>. QED  BY <2>7, <2>8, <2>9, Zenon
<1>3. P(16)
  <2> HIDE DEF P
  <2>1. Nat \subseteq Good
    <3> HIDE DEF Good
    <3>. QED  BY <1>1, <1>2, Induct
  <2>. QED  BY <2>1
<1>. QED  BY <1>3, Zenon DEF Scan

LEMMA FrontBegins ==
  ASSUME NEW t, NEW b, FrontOf(b, Text(t)), Len(b) + 1 >= Len(Text(t))
  PROVE  Begins(b, t)
<1> DEFINE w == Text(t)
<1>1. /\ b \in Seq(Tokens) /\ w \in Seq(Tokens) /\ Len(b) \in Nat /\ Len(w) \in Nat
      /\ Len(b) <= Len(w) /\ \A k \in 1..Len(b) : b[k] = w[k]
  BY FrontTypes
<1>2. Len(w) <= Len(b) + 1 /\ \A k \in 1..(Len(w) - 1) : k \in 1..Len(b)
  <2> HIDE DEF w
  <2>. QED  BY <1>1 DEF w
<1> HIDE DEF w
<1>3. b \in Seq(Tokens) /\ Len(w) <= Len(b) + 1 /\ \A k \in 1..(Len(w) - 1) : b[k] = w[k]
  BY <1>1, <1>2
<1>. QED  BY <1>3, Zenon DEF Begins, w

LEMMA WholeBegins ==
  ASSUME NEW t, Text(t) \in Seq(Tokens)
  PROVE  Begins(Text(t), t)
<1> DEFINE w == Text(t)
<1>1. Len(w) \in Nat
  OBVIOUS
<1> HIDE DEF w
<1>2. Len(w) <= Len(w) + 1
  BY <1>1
<1>. QED  BY <1>2, Zenon DEF Begins, w

\* Where parse_task comes to the end of a front of a text, it has read the task that the text was
\* made of: nothing shorter is taken for another task (utils.c:99-174).
THEOREM FrontRead ==
  ASSUME NEW t \in PlainTask, NEW b, FrontOf(b, Text(t)), Scan(b).at # Lost
  PROVE  TaskOf(Scan(b).vals) = t
<1>1. Text(t) \in Seq(Tokens)
  BY Zenon DEF FrontOf
<1>2. Begins(Text(t), t)
  BY <1>1, WholeBegins, Zenon
<1>3. TaskOf(Scan(Text(t)).vals) = t
  BY <1>2, WholeRead, Zenon
<1>4. Scan(Text(t)) = Scan(b)
  BY ScanFront, Zenon
<1>. QED  BY <1>3, <1>4, Zenon
=============================================================================
