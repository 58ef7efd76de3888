--------------------------- MODULE ComparorProofs ---------------------------
(***************************************************************************)
(* compare(), for files of any length over any bytes: AC is given for an   *)
(* exact match and for nothing else, and on plain files the two passes     *)
(* come to the verdict of the reference.                                   *)
(***************************************************************************)
EXTENDS Comparor, FiniteSetTheorems, SequenceTheorems, TLAPS

LEMMA FileLength == \A s \in Files : s \in Seq(Bytes) /\ Len(s) \in Nat
BY ByteAssumption

\* The type invariant holds: the positions stay within the files (comparor.c:23-60).
THEOREM TypeCorrect == Spec => []TypeOK
<1> USE FileLength DEF TypeOK
<1>1. Init => TypeOK
  BY DEF Init
<1>2. TypeOK /\ [Step]_vars => TypeOK'
  <2> SUFFICES ASSUME TypeOK, Step PROVE TypeOK'
    BY DEF vars
  <2>1. /\ Len(target) \in Nat /\ Len(user) \in Nat
        /\ t \in Nat /\ u \in Nat /\ t <= Len(target) /\ u <= Len(user)
    OBVIOUS
  <2>2. CASE NoTarget \/ OpenFailed \/ Open \/ TargetRead \/ Accept \/ JudgeLayout
    BY <2>2 DEF NoTarget, OpenFailed, Open, TargetRead, Accept, JudgeLayout, Finish
  <2>3. CASE SameByte \/ OtherByte \/ ExtraBlank \/ Rewind
    BY <2>1, <2>3 DEF SameByte, OtherByte, ExtraBlank, Rewind
  <2>4. CASE SameVisible \/ OtherVisible \/ NoneVisible
    BY <2>1, <2>4 DEF SameVisible, OtherVisible, NoneVisible, VisibleAfter
  <2> QED
    BY <2>2, <2>3, <2>4 DEF Step
<1> QED
  BY <1>1, <1>2, PTL DEF Spec

\* The first pass in each of its stages.  While diff is unset, everything up to the
\* two positions agrees; once it is set, the files are known not to match.
PassInv ==
  /\ pc = "open" => t = 0
  /\ pc \in {"open", "prefix"} => diff = 0 /\ t = u
  /\ pc = "prefix" => \A k \in 1..t : target[k] = user[k]
  /\ pc = "extra" /\ diff = 0 =>
       /\ t = Len(target) /\ t <= u
       /\ \A k \in 1..t : target[k] = user[k]
       /\ \A k \in (t + 1)..u : user[k] \in Blank
  /\ pc = "extra" /\ diff = 1 => ~Exact
  /\ pc \in {"visible", "rest"} => ~Exact
  /\ AcceptIsExact

LEMMA PassStep ==
  ASSUME TypeOK, PassInv, Step
  PROVE  PassInv'
<1> USE FileLength DEF TypeOK, PassInv, AcceptIsExact
<1>1. /\ Len(target) \in Nat /\ Len(user) \in Nat
      /\ t \in Nat /\ u \in Nat /\ t <= Len(target) /\ u <= Len(user)
  OBVIOUS
<1>2. target' = target /\ user' = user /\ (Exact' <=> Exact)
  <2>1. target' = target /\ user' = user
    BY DEF Step, NoTarget, OpenFailed, Open, SameByte, OtherByte, TargetRead, ExtraBlank, Accept,
      Rewind, SameVisible, OtherVisible, NoneVisible, JudgeLayout
  <2> QED
    BY <2>1 DEF Exact, BlankFrom
<1>3. CASE NoTarget \/ OpenFailed \/ Open
  BY <1>1, <1>2, <1>3 DEF NoTarget, OpenFailed, Open
<1>4. CASE SameByte
  BY <1>1, <1>2, <1>4 DEF SameByte
<1>5. CASE OtherByte
  <2>1. ~Exact
    BY <1>1, <1>5 DEF OtherByte, Exact
  <2> QED
    BY <1>2, <1>5, <2>1 DEF OtherByte
<1>6. CASE TargetRead
  BY <1>1, <1>2, <1>6 DEF TargetRead
<1>7. CASE ExtraBlank
  BY <1>1, <1>2, <1>7 DEF ExtraBlank
<1>8. CASE Accept
  <2>1. Exact
    BY <1>1, <1>8 DEF Accept, AtExtraEnd, ExtraByte, Exact, BlankFrom
  <2> QED
    BY <1>2, <1>8, <2>1 DEF Accept, Finish
<1>9. CASE Rewind
  <2>1. ~Exact
    BY <1>1, <1>9 DEF Rewind, AtExtraEnd, ExtraByte, Exact, BlankFrom
  <2> QED
    BY <1>2, <1>9, <2>1 DEF Rewind
<1>10. CASE SameVisible \/ OtherVisible \/ NoneVisible
  BY <1>2, <1>10 DEF SameVisible, OtherVisible, NoneVisible
<1>11. CASE JudgeLayout
  BY <1>2, <1>11 DEF JudgeLayout, Finish
<1> QED
  BY <1>3, <1>4, <1>5, <1>6, <1>7, <1>8, <1>9, <1>10, <1>11 DEF Step

LEMMA PassHolds == Spec => []PassInv
<1>1. Init => PassInv
  BY DEF Init, PassInv, AcceptIsExact
<1>2. TypeOK /\ PassInv /\ [Step]_vars => PassInv'
  <2>1. PassInv /\ UNCHANGED vars => PassInv'
    BY DEF vars, PassInv, AcceptIsExact, Exact, BlankFrom
  <2> QED
    BY <2>1, PassStep
<1> QED
  BY <1>1, <1>2, TypeCorrect, PTL DEF Spec

\* The first pass decides exactly: whatever the two files are, AC is the verdict if
\* and only if the user's file is the expected one with blanks behind it
\* (comparor.c:26-36).
THEOREM AcceptIsExactHolds == Spec => []AcceptIsExact
<1>1. PassInv => AcceptIsExact
  BY DEF PassInv
<1> QED
  BY <1>1, PassHolds, PTL

------------------------- (* induction over a file *) ------------------------
\* Every set of natural numbers that is not empty has a least element: the strict subsets
\* of an interval are well founded.
LEMMA LeastNumber ==
  ASSUME NEW S \in SUBSET Nat, S # {}
  PROVE  \E m \in S : \A n \in S : m <= n
<1>1. PICK n \in S : TRUE
  OBVIOUS
<1> DEFINE Below == {k \in S : k <= n}
           Family == {0..k : k \in Below}
<1>2. IsWellFoundedOn(StrictSubsetOrdering(0..n), FiniteSubsetsOf(0..n))
  BY FS_StrictSubsetOrderingWellFounded
<1>3. \A k \in Below : k \in Int /\ 0..k \subseteq 0..n /\ IsFiniteSet(0..k)
  BY <1>1, FS_Interval
<1>4. Family \subseteq FiniteSubsetsOf(0..n) /\ Family # {}
  BY <1>1, <1>3 DEF FiniteSubsetsOf
<1>5. PICK x \in Family : \A y \in Family : <<y, x>> \notin StrictSubsetOrdering(0..n)
  BY <1>2, <1>4, WFMin
<1>6. PICK m \in Below : x = 0..m
  BY <1>5
<1>7. ASSUME NEW k \in Below
      PROVE  ~(k < m)
  <2>1. SUFFICES ASSUME k < m PROVE FALSE
    OBVIOUS
  <2>2. 0..k \in Family /\ 0..k \subseteq 0..m /\ 0..k \in SUBSET (0..n) /\ 0..m \in SUBSET (0..n)
    BY <2>1, <1>3, <1>1
  <2>3. m \in 0..m /\ m \notin 0..k
    BY <2>1, <1>1
  <2>4. <<0..k, 0..m>> \in StrictSubsetOrdering(0..n)
    BY <2>2, <2>3, Zenon DEF StrictSubsetOrdering
  <2>. QED BY <1>5, <1>6, <2>2, <2>4
<1> QED BY <1>1, <1>6, <1>7

\* Induction over the natural numbers, for a set instead of a predicate.
LEMMA Induct ==
  ASSUME NEW S, 0 \in S, \A n \in Nat : n \in S => n + 1 \in S
  PROVE  Nat \subseteq S
<1> SUFFICES ASSUME Nat \ S # {} PROVE FALSE
  OBVIOUS
<1>1. PICK m \in Nat \ S : \A n \in Nat \ S : m <= n
  BY LeastNumber
<1> QED BY <1>1

\* The recursion of BytesUpTo has a solution, so that the function is one.
LEMMA BytesUpToDef ==
  ASSUME NEW s \in Files, NEW kind
  PROVE  BytesUpTo(s, kind) = [n \in 0..Len(s) |->
           IF n = 0 THEN <<>>
           ELSE IF s[n] \in kind THEN Append(BytesUpTo(s, kind)[n - 1], s[n])
           ELSE BytesUpTo(s, kind)[n - 1]]
<1> DEFINE Following(f, n) == IF n = 0 THEN <<>>
                      ELSE IF s[n] \in kind THEN Append(f[n - 1], s[n]) ELSE f[n - 1]
           Solved == {m \in Nat : \E f : f = [n \in 0..m |-> Following(f, n)]}
<1>1. 0 \in Solved
  <2>1. [n \in 0..0 |-> <<>>] = [n \in 0..0 |-> Following([k \in 0..0 |-> <<>>], n)]
    OBVIOUS
  <2>. QED BY <2>1
<1>2. ASSUME NEW m \in Nat, m \in Solved
      PROVE  m + 1 \in Solved
  <2>1. PICK f : f = [n \in 0..m |-> Following(f, n)]
    BY <1>2
  <2> DEFINE g == [n \in 0..(m + 1) |-> IF n = m + 1 THEN Following(f, m + 1) ELSE f[n]]
  <2>2. ASSUME NEW n \in 0..(m + 1)
        PROVE  g[n] = Following(g, n)
    <3>1. CASE n = m + 1
      BY <3>1
    <3>2. CASE n # m + 1
      <4>1. n \in 0..m /\ g[n] = f[n]
        BY <3>2
      <4>2. f[n] = Following(f, n)
        BY <2>1, <4>1
      <4>3. n # 0 => g[n - 1] = f[n - 1]
        BY <4>1
      <4>. QED BY <4>1, <4>2, <4>3
    <3>. QED BY <3>1, <3>2
  <2>3. g = [n \in 0..(m + 1) |-> Following(g, n)]
    BY <2>2
  <2> HIDE DEF g, Following
  <2>. QED BY <2>3
<1>3. \E f : f = [n \in 0..Len(s) |-> Following(f, n)]
  <2> HIDE DEF Following
  <2>. QED BY <1>1, <1>2, Induct, FileLength
<1>4. BytesUpTo(s, kind) = CHOOSE f : f = [n \in 0..Len(s) |-> Following(f, n)]
  BY Zenon DEF BytesUpTo
<1> QED BY <1>3, <1>4, Zenon

\* The visible bytes among the first n of s: what the third loop compares.
VisibleUpTo(s) == BytesUpTo(s, Visible)

VisibleOf(s) == VisibleUpTo(s)[Len(s)]

LEMMA VisibleFacts ==
  ASSUME NEW s \in Files
  PROVE  /\ VisibleUpTo(s)[0] = <<>>
         /\ \A n \in 1..Len(s) :
              VisibleUpTo(s)[n] = IF s[n] \in Visible THEN Append(VisibleUpTo(s)[n - 1], s[n])
                                  ELSE VisibleUpTo(s)[n - 1]
         /\ \A n \in 0..Len(s) : VisibleUpTo(s)[n] \in Seq(Visible)
<1> DEFINE V == VisibleUpTo(s)
<1>1. /\ V[0] = <<>>
      /\ \A n \in 1..Len(s) : V[n] = IF s[n] \in Visible THEN Append(V[n - 1], s[n]) ELSE V[n - 1]
  <2>1. V = [n \in 0..Len(s) |->
               IF n = 0 THEN <<>> ELSE IF s[n] \in Visible THEN Append(V[n - 1], s[n]) ELSE V[n - 1]]
    BY BytesUpToDef DEF VisibleUpTo
  <2>2. Len(s) \in Nat
    BY FileLength
  <2>3. ASSUME NEW n \in 0..Len(s)
        PROVE  V[n] = IF n = 0 THEN <<>>
                      ELSE IF s[n] \in Visible THEN Append(V[n - 1], s[n]) ELSE V[n - 1]
    <3> HIDE DEF V
    <3> QED
      BY <2>1, Zenon
  <2> HIDE DEF V
  <2> QED
    BY <2>2, <2>3
<1> HIDE DEF V
<1> DEFINE Typed == {n \in Nat : n <= Len(s) => V[n] \in Seq(Visible)}
<1>2. 0 \in Typed
  <2>1. <<>> \in Seq(Visible)
    OBVIOUS
  <2> QED
    BY <1>1, <2>1
<1>3. ASSUME NEW n \in Nat, n \in Typed PROVE n + 1 \in Typed
  <2>1. SUFFICES ASSUME n + 1 <= Len(s) PROVE V[n + 1] \in Seq(Visible)
    OBVIOUS
  <2>2. V[n] \in Seq(Visible) /\ n + 1 \in 1..Len(s) /\ (n + 1) - 1 = n
    BY <1>3, <2>1, FileLength
  <2>3. V[n + 1] = IF s[n + 1] \in Visible THEN Append(V[n], s[n + 1]) ELSE V[n]
    BY <1>1, <2>2
  <2> QED
    BY <2>2, <2>3
<1>4. \A n \in 0..Len(s) : V[n] \in Seq(Visible)
  <2>1. Nat \subseteq Typed
    <3> HIDE DEF Typed
    <3> QED
      BY <1>2, <1>3, Induct
  <2> QED
    BY <2>1, FileLength
<1> QED
  BY <1>1, <1>4 DEF V

\* Further bytes leave those that have been seen where they are.
LEMMA VisibleGrows ==
  ASSUME NEW s \in Files, NEW i \in 0..Len(s), NEW n \in i..Len(s)
  PROVE  /\ Len(VisibleUpTo(s)[i]) <= Len(VisibleUpTo(s)[n])
         /\ \A k \in 1..Len(VisibleUpTo(s)[i]) : VisibleUpTo(s)[n][k] = VisibleUpTo(s)[i][k]
<1> DEFINE V == VisibleUpTo(s)
           Grown(m) == /\ Len(V[i]) <= Len(V[m])
                       /\ \A k \in 1..Len(V[i]) : V[m][k] = V[i][k]
           Fine == {d \in Nat : i + d <= Len(s) => Grown(i + d)}
<1>1. /\ \A m \in 1..Len(s) : V[m] = IF s[m] \in Visible THEN Append(V[m - 1], s[m]) ELSE V[m - 1]
      /\ \A m \in 0..Len(s) : V[m] \in Seq(Visible)
  BY VisibleFacts
<1> HIDE DEF V
<1>2. 0 \in Fine
  BY <1>1, FileLength
<1>3. ASSUME NEW d \in Nat, d \in Fine PROVE d + 1 \in Fine
  <2>1. SUFFICES ASSUME i + (d + 1) <= Len(s) PROVE Grown(i + (d + 1))
    OBVIOUS
  <2>2. /\ i + d \in 0..Len(s) /\ i + (d + 1) \in 1..Len(s)
        /\ (i + (d + 1)) - 1 = i + d
    BY <2>1, FileLength
  <2>3. Grown(i + d)
    BY <1>3, <2>2
  <2>4. V[i + (d + 1)] = IF s[i + (d + 1)] \in Visible THEN Append(V[i + d], s[i + (d + 1)]) ELSE V[i + d]
    BY <1>1, <2>2
  <2>5. V[i + d] \in Seq(Visible) /\ V[i] \in Seq(Visible)
    BY <1>1, <2>2
  <2> QED
    BY <2>3, <2>4, <2>5
<1>4. n - i \in Nat /\ i + (n - i) = n
  BY FileLength
<1>5. Nat \subseteq Fine
  <2> HIDE DEF Fine
  <2> QED
    BY <1>2, <1>3, Induct
<1>6. Grown(n)
  <2>1. i + (n - i) <= Len(s)
    BY <1>4, FileLength
  <2>2. n - i \in Fine
    BY <1>4, <1>5
  <2> HIDE DEF Grown
  <2> QED
    BY <1>4, <2>1, <2>2
<1> QED
  BY <1>6 DEF V

\* What is not visible adds nothing.
LEMMA NoneBetween ==
  ASSUME NEW s \in Files, NEW i \in 0..Len(s), NEW n \in i..Len(s),
         \A k \in (i + 1)..n : s[k] \notin Visible
  PROVE  VisibleUpTo(s)[n] = VisibleUpTo(s)[i]
<1> DEFINE V == VisibleUpTo(s)
           Same == {d \in Nat : i + d <= n => V[i + d] = V[i]}
<1>1. \A m \in 1..Len(s) : V[m] = IF s[m] \in Visible THEN Append(V[m - 1], s[m]) ELSE V[m - 1]
  BY VisibleFacts
<1> HIDE DEF V
<1>2. 0 \in Same
  BY FileLength
<1>3. ASSUME NEW d \in Nat, d \in Same PROVE d + 1 \in Same
  <2>1. SUFFICES ASSUME i + (d + 1) <= n PROVE V[i + (d + 1)] = V[i]
    OBVIOUS
  <2>2. /\ i + (d + 1) \in 1..Len(s) /\ (i + (d + 1)) - 1 = i + d
        /\ i + (d + 1) \in (i + 1)..n
    BY <2>1, FileLength
  <2>3. V[i + d] = V[i]
    BY <1>3, <2>1
  <2> QED
    BY <1>1, <2>2, <2>3
<1>4. n - i \in Nat /\ i + (n - i) = n
  BY FileLength
<1>5. Nat \subseteq Same
  <2> HIDE DEF Same
  <2> QED
    BY <1>2, <1>3, Induct
<1>6. V[n] = V[i]
  BY <1>4, <1>5
<1> QED
  BY <1>6 DEF V

\* The next visible byte is the next one that is seen.
LEMMA NextIsSeen ==
  ASSUME NEW s \in Files, NEW i \in 0..Len(s), NEW k, Next(k, s, i)
  PROVE  /\ k \in (i + 1)..Len(s) /\ s[k] \in Visible
         /\ VisibleUpTo(s)[k] = Append(VisibleUpTo(s)[i], s[k])
<1>1. /\ k \in (i + 1)..Len(s) /\ s[k] \in Visible
      /\ \A l \in (i + 1)..Len(s) : s[l] \in Visible => k <= l
  BY DEF Next, VisibleAfter
<1>2. Len(s) \in Nat
  BY FileLength
<1>3. k - 1 \in i..Len(s) /\ k \in 1..Len(s)
  BY <1>1, <1>2
<1>4. \A l \in (i + 1)..(k - 1) : s[l] \notin Visible
  BY <1>1, <1>2
<1>5. VisibleUpTo(s)[k - 1] = VisibleUpTo(s)[i]
  BY <1>3, <1>4, NoneBetween
<1> QED
  BY <1>1, <1>3, <1>5, VisibleFacts

\* A file with nothing visible left has been seen.
LEMMA NoneLeft ==
  ASSUME NEW s \in Files, NEW i \in 0..Len(s), VisibleAfter(s, i) = {}
  PROVE  VisibleOf(s) = VisibleUpTo(s)[i]
<1>1. Len(s) \in Nat
  BY FileLength
<1>2. \A l \in (i + 1)..Len(s) : s[l] \notin Visible
  BY DEF VisibleAfter
<1> QED
  BY <1>1, <1>2, NoneBetween DEF VisibleOf

\* A visible byte after i makes what is seen longer.
LEMMA SeenIsLonger ==
  ASSUME NEW s \in Files, NEW i \in 0..Len(s), NEW l \in VisibleAfter(s, i)
  PROVE  Len(VisibleUpTo(s)[i]) < Len(VisibleOf(s))
<1> DEFINE V == VisibleUpTo(s)
<1>1. /\ Len(s) \in Nat /\ l \in 1..Len(s) /\ s[l] \in Visible
      /\ l - 1 \in i..Len(s) /\ l - 1 \in 0..Len(s) /\ l \in 0..Len(s)
      /\ Len(s) \in l..Len(s)
  BY FileLength DEF VisibleAfter
<1>2. /\ V[l] = Append(V[l - 1], s[l])
      /\ V[i] \in Seq(Visible) /\ V[l - 1] \in Seq(Visible) /\ V[l] \in Seq(Visible)
      /\ V[Len(s)] \in Seq(Visible)
  <2>1. /\ \A n \in 1..Len(s) : V[n] = IF s[n] \in Visible THEN Append(V[n - 1], s[n]) ELSE V[n - 1]
        /\ \A n \in 0..Len(s) : V[n] \in Seq(Visible)
    BY VisibleFacts
  <2> HIDE DEF V
  <2>2. V[l] = Append(V[l - 1], s[l])
    BY <1>1, <2>1
  <2> QED
    BY <1>1, <2>1, <2>2
<1>3. Len(V[i]) <= Len(V[l - 1])
  BY <1>1, VisibleGrows
<1>4. Len(V[l]) <= Len(V[Len(s)])
  BY <1>1, VisibleGrows
<1> HIDE DEF V
<1>5. Len(V[l]) = Len(V[l - 1]) + 1
  BY <1>2
<1>6. Len(V[i]) < Len(V[Len(s)])
  BY <1>2, <1>3, <1>4, <1>5
<1> QED
  BY <1>6 DEF V, VisibleOf

\* Two files that agree up to one visible byte each, and not in that, are not alike.
LEMMA SeenDiffers ==
  ASSUME NEW s \in Files, NEW i \in 0..Len(s), NEW k, Next(k, s, i),
         NEW r \in Files, NEW j \in 0..Len(r), NEW l, Next(l, r, j),
         VisibleUpTo(s)[i] = VisibleUpTo(r)[j], s[k] # r[l]
  PROVE  VisibleOf(s) # VisibleOf(r)
<1> DEFINE V == VisibleUpTo(s)
           W == VisibleUpTo(r)
           n == Len(V[i]) + 1
<1>1. /\ k \in 0..Len(s) /\ V[k] = Append(V[i], s[k]) /\ V[i] \in Seq(Visible)
      /\ l \in 0..Len(r) /\ W[l] = Append(V[i], r[l])
      /\ Len(s) \in k..Len(s) /\ Len(r) \in l..Len(r)
  <2>1. /\ k \in (i + 1)..Len(s) /\ V[k] = Append(V[i], s[k])
        /\ l \in (j + 1)..Len(r) /\ W[l] = Append(W[j], r[l])
    BY NextIsSeen
  <2>2. V[i] \in Seq(Visible)
    BY VisibleFacts
  <2>3. Len(s) \in Nat /\ Len(r) \in Nat
    BY FileLength
  <2>4. V[i] = W[j]
    OBVIOUS
  <2> HIDE DEF V, W
  <2> QED
    BY <2>1, <2>2, <2>3, <2>4
<1>2. n \in 1..Len(V[k]) /\ V[k][n] = s[k] /\ n \in 1..Len(W[l]) /\ W[l][n] = r[l]
  <2> HIDE DEF V, W
  <2> QED
    BY <1>1
<1>3. V[Len(s)][n] = V[k][n]
  BY <1>1, <1>2, VisibleGrows
<1>4. W[Len(r)][n] = W[l][n]
  BY <1>1, <1>2, VisibleGrows
<1> QED
  BY <1>2, <1>3, <1>4 DEF VisibleOf

\* What the second pass computes on any two files: the same visible bytes in the same order,
\* whatever is between them, and blanks after the last of the user's.
Alike ==
  /\ VisibleOf(target) = VisibleOf(user)
  /\ \E n \in 0..Len(user) : VisibleAfter(user, n) = {} /\ BlankFrom(user, n)
                              /\ (n = 0 \/ user[n] \in Visible)

VerdictAsRead ==
  pc = "done" => result = IF Exact THEN "AC" ELSE IF Alike THEN "PE" ELSE "WA"

\* The second pass in each of its stages.  Up to a difference both files have shown the same
\* visible bytes; behind the last of them the rest is blank as far as it has been read.
Matched ==
  {n \in 0..u : /\ n = 0 \/ user[n] \in Visible
                /\ VisibleOf(target) = VisibleUpTo(user)[n]
                /\ \A k \in (n + 1)..u : user[k] \in Blank}

LayoutInv ==
  /\ pc = "visible" => /\ diff = 0 /\ VisibleUpTo(target)[t] = VisibleUpTo(user)[u]
                       /\ u = 0 \/ user[u] \in Visible
  /\ pc = "rest" /\ diff = 0 => Matched # {}
  /\ pc = "rest" /\ diff = 1 => ~Alike
  /\ VerdictAsRead

\* When the last loop stops, the byte it stops at decides.
LEMMA RestDecides ==
  ASSUME TypeOK, NEW n \in Matched, AtExtraEnd
  PROVE  Alike <=> ~ExtraByte
<1>1. /\ target \in Files /\ user \in Files /\ Len(user) \in Nat /\ u \in Nat /\ u <= Len(user)
      /\ n \in 0..u /\ n \in 0..Len(user)
  BY FileLength DEF TypeOK, Matched
<1>2. CASE u = Len(user)
  <2>1. BlankFrom(user, n) /\ ~ExtraByte
    BY <1>1, <1>2 DEF Matched, BlankFrom, ExtraByte
  <2>2. VisibleAfter(user, n) = {}
    BY <1>1, <2>1, ByteAssumption DEF BlankFrom, VisibleAfter
  <2>3. VisibleOf(user) = VisibleUpTo(user)[n]
    BY <1>1, <2>2, NoneLeft
  <2> QED
    BY <1>1, <2>1, <2>2, <2>3 DEF Matched, Alike
<1>3. CASE ExtraByte
  <2> SUFFICES ASSUME Alike PROVE FALSE
    BY <1>3
  <2>1. VisibleOf(user) = VisibleUpTo(user)[n]
    BY DEF Alike, Matched
  <2>2. VisibleUpTo(user)[n] \in Seq(Visible)
    BY <1>1, VisibleFacts
  <2>3. VisibleAfter(user, n) = {}
    <3> SUFFICES ASSUME NEW l \in VisibleAfter(user, n) PROVE FALSE
      OBVIOUS
    <3>1. Len(VisibleUpTo(user)[n]) < Len(VisibleOf(user))
      BY <1>1, SeenIsLonger
    <3> QED
      BY <2>1, <2>2, <3>1
  <2>4. PICK m \in 0..Len(user) : /\ VisibleAfter(user, m) = {} /\ BlankFrom(user, m)
                                  /\ m = 0 \/ user[m] \in Visible
    BY DEF Alike
  <2>5. m = n
    BY <1>1, <2>3, <2>4 DEF VisibleAfter, Matched
  <2> QED
    BY <1>1, <1>3, <2>4, <2>5 DEF BlankFrom, ExtraByte
<1> QED
  BY <1>2, <1>3 DEF AtExtraEnd

\* Both are about the files, which stay the same.
LEMMA SameFiles ==
  ASSUME UNCHANGED <<target, user>>
  PROVE  /\ (Exact' <=> Exact) /\ (Alike' <=> Alike)
         /\ VisibleUpTo(target)' = VisibleUpTo(target) /\ VisibleUpTo(user)' = VisibleUpTo(user)
         /\ VisibleOf(target)' = VisibleOf(target)
<1>1. (Exact' <=> Exact) /\ (Alike' <=> Alike)
  BY DEF Exact, BlankFrom, Alike, VisibleOf, VisibleUpTo, BytesUpTo, VisibleAfter
<1> QED
  BY <1>1 DEF VisibleOf, VisibleUpTo, BytesUpTo

LEMMA LayoutStep ==
  ASSUME TypeOK, PassInv, PassInv', LayoutInv, Step
  PROVE  LayoutInv'
<1>1. /\ target \in Files /\ user \in Files /\ Len(target) \in Nat /\ Len(user) \in Nat
      /\ t \in 0..Len(target) /\ u \in 0..Len(user) /\ t \in Nat /\ u \in Nat
  BY FileLength DEF TypeOK
<1>2. target' = target /\ user' = user
  BY DEF Step, NoTarget, OpenFailed, Open, SameByte, OtherByte, TargetRead, ExtraBlank, Accept,
    Rewind, SameVisible, OtherVisible, NoneVisible, JudgeLayout
<1>3. (Exact' <=> Exact) /\ (Alike' <=> Alike)
  BY <1>2, SameFiles
<1>4. /\ VisibleUpTo(target)' = VisibleUpTo(target) /\ VisibleUpTo(user)' = VisibleUpTo(user)
      /\ VisibleOf(target)' = VisibleOf(target)
  BY <1>2, SameFiles
<1>5. CASE NoTarget \/ OpenFailed \/ Open \/ SameByte \/ OtherByte \/ TargetRead
  BY <1>5 DEF NoTarget, OpenFailed, Open, SameByte, OtherByte, TargetRead, LayoutInv,
    VerdictAsRead
<1>6. CASE ExtraBlank
  <2>1. /\ pc' = pc /\ diff' = diff /\ result' = result /\ pc \in {"extra", "rest"}
        /\ u' = u + 1 /\ user[u + 1] \in Blank
    BY <1>6 DEF ExtraBlank
  <2>2. Matched \subseteq Matched'
    BY <1>1, <1>2, <1>4, <2>1 DEF Matched
  <2> QED
    BY <1>3, <2>1, <2>2 DEF LayoutInv, VerdictAsRead
<1>7. CASE Accept
  <2>1. pc' = "done" /\ result' = "AC"
    BY <1>7 DEF Accept, Finish
  <2>2. Exact'
    BY <2>1 DEF PassInv, AcceptIsExact
  <2> QED
    BY <2>1, <2>2 DEF LayoutInv, VerdictAsRead
<1>8. CASE Rewind
  <2>1. /\ pc = "extra" /\ pc' = "visible" /\ t' = 0 /\ u' = 0 /\ diff' = 0 /\ result' = result
    BY <1>8 DEF Rewind
  <2>2. VisibleUpTo(target)[0] = <<>> /\ VisibleUpTo(user)[0] = <<>>
    BY <1>1, VisibleFacts
  <2> QED
    BY <1>4, <2>1, <2>2 DEF LayoutInv, VerdictAsRead
<1>9. CASE SameVisible
  <2>1. PICK k \in VisibleAfter(target, t), l \in VisibleAfter(user, u) :
          /\ Next(k, target, t) /\ Next(l, user, u)
          /\ target[k] = user[l]
          /\ t' = k /\ u' = l
    BY <1>9 DEF SameVisible
  <2>2. /\ pc = "visible" /\ pc' = pc /\ diff' = diff /\ result' = result
    BY <1>9 DEF SameVisible
  <2>3. /\ VisibleUpTo(target)[k] = Append(VisibleUpTo(target)[t], target[k])
        /\ VisibleUpTo(user)[l] = Append(VisibleUpTo(user)[u], user[l]) /\ user[l] \in Visible
    BY <1>1, <2>1, NextIsSeen
  <2> QED
    BY <1>2, <1>4, <2>1, <2>2, <2>3 DEF LayoutInv, VerdictAsRead
<1>10. CASE OtherVisible
  <2>1. PICK k \in VisibleAfter(target, t) :
          /\ Next(k, target, t)
          /\ \/ VisibleAfter(user, u) = {}
             \/ \E l \in VisibleAfter(user, u) : Next(l, user, u) /\ target[k] # user[l]
    BY <1>10 DEF OtherVisible
  <2>2. /\ pc = "visible" /\ pc' = "rest" /\ diff' = 1 /\ result' = result
    BY <1>10 DEF OtherVisible
  <2>3. VisibleUpTo(target)[t] = VisibleUpTo(user)[u]
    BY <2>2 DEF LayoutInv
  <2>4. VisibleOf(target) # VisibleOf(user)
    <3>1. CASE VisibleAfter(user, u) = {}
      <4>1. VisibleOf(user) = VisibleUpTo(target)[t]
        BY <1>1, <2>3, <3>1, NoneLeft
      <4>2. Len(VisibleUpTo(target)[t]) < Len(VisibleOf(target))
        BY <1>1, SeenIsLonger
      <4>3. VisibleUpTo(target)[t] \in Seq(Visible)
        BY <1>1, VisibleFacts
      <4> QED
        BY <4>1, <4>2, <4>3
    <3>2. CASE \E l \in VisibleAfter(user, u) : Next(l, user, u) /\ target[k] # user[l]
      BY <1>1, <2>1, <2>3, <3>2, SeenDiffers
    <3> QED
      BY <2>1, <3>1, <3>2
  <2> QED
    BY <1>3, <2>2, <2>4 DEF LayoutInv, VerdictAsRead, Alike
<1>11. CASE NoneVisible
  <2>1. /\ pc = "visible" /\ pc' = "rest" /\ diff' = diff /\ u' = u /\ result' = result
        /\ VisibleAfter(target, t) = {}
    BY <1>11 DEF NoneVisible
  <2>2. VisibleOf(target) = VisibleUpTo(target)[t]
    BY <1>1, <2>1, NoneLeft
  <2>3. u \in Matched
    BY <1>1, <2>1, <2>2 DEF LayoutInv, Matched
  <2>4. u \in Matched'
    BY <1>1, <1>2, <1>4, <2>1, <2>3 DEF Matched
  <2> QED
    BY <2>1, <2>4 DEF LayoutInv, VerdictAsRead
<1>12. CASE JudgeLayout
  <2>1. /\ pc = "rest" /\ AtExtraEnd /\ pc' = "done"
        /\ result' = IF diff = 1 \/ ExtraByte THEN "WA" ELSE "PE"
    BY <1>12 DEF JudgeLayout, Finish
  <2>2. ~Exact /\ diff \in {0, 1}
    BY <2>1 DEF PassInv, TypeOK
  <2>3. result' = IF Alike THEN "PE" ELSE "WA"
    BY <2>1, <2>2, RestDecides DEF LayoutInv
  <2> QED
    BY <1>3, <2>1, <2>2, <2>3 DEF LayoutInv, VerdictAsRead
<1> QED
  BY <1>5, <1>6, <1>7, <1>8, <1>9, <1>10, <1>11, <1>12 DEF Step

\* The verdict is what the second pass computes, in every state.
LEMMA VerdictAsReadHolds == Spec => []VerdictAsRead
<1>1. Init => LayoutInv
  BY DEF Init, LayoutInv, VerdictAsRead
<1>2. TypeOK /\ PassInv /\ PassInv' /\ LayoutInv /\ [Step]_vars => LayoutInv'
  <2>1. LayoutInv /\ UNCHANGED vars => LayoutInv'
    <3> SUFFICES ASSUME LayoutInv, UNCHANGED vars PROVE LayoutInv'
      OBVIOUS
    <3>1. UNCHANGED <<target, user, t, u, diff, pc, result>>
      BY DEF vars
    <3>2. Matched' = Matched
      BY <3>1, SameFiles DEF Matched
    <3> QED
      BY <3>1, <3>2, SameFiles DEF LayoutInv, VerdictAsRead
  <2> QED
    BY <2>1, LayoutStep
<1>3. LayoutInv => VerdictAsRead
  BY DEF LayoutInv
<1> QED
  BY <1>1, <1>2, <1>3, TypeCorrect, PassHolds, PTL DEF Spec

--------------------------- (* plain files *) -------------------------------
\* In a plain file what is not blank is visible.
LEMMA NonBlankIsVisible ==
  ASSUME NEW s \in Files, Plain(s)
  PROVE  NonBlankOf(s) = VisibleOf(s)
<1> DEFINE N == BytesUpTo(s, Bytes \ Blank)
           V == BytesUpTo(s, Visible)
           Same == {n \in Nat : n <= Len(s) => N[n] = V[n]}
<1>1. \A n \in 0..Len(s) :
        /\ N[n] = IF n = 0 THEN <<>>
                  ELSE IF s[n] \in Bytes \ Blank THEN Append(N[n - 1], s[n]) ELSE N[n - 1]
        /\ V[n] = IF n = 0 THEN <<>>
                  ELSE IF s[n] \in Visible THEN Append(V[n - 1], s[n]) ELSE V[n - 1]
  <2> SUFFICES ASSUME NEW n \in 0..Len(s)
               PROVE  /\ N[n] = IF n = 0 THEN <<>>
                                ELSE IF s[n] \in Bytes \ Blank THEN Append(N[n - 1], s[n])
                                ELSE N[n - 1]
                      /\ V[n] = IF n = 0 THEN <<>>
                                ELSE IF s[n] \in Visible THEN Append(V[n - 1], s[n])
                                ELSE V[n - 1]
    OBVIOUS
  <2>1. N = [m \in 0..Len(s) |->
               IF m = 0 THEN <<>>
               ELSE IF s[m] \in Bytes \ Blank THEN Append(N[m - 1], s[m]) ELSE N[m - 1]]
    BY BytesUpToDef
  <2>2. V = [m \in 0..Len(s) |->
               IF m = 0 THEN <<>>
               ELSE IF s[m] \in Visible THEN Append(V[m - 1], s[m]) ELSE V[m - 1]]
    BY BytesUpToDef
  <2> HIDE DEF N, V
  <2> QED
    BY <2>1, <2>2, Zenon
<1>2. \A n \in 1..Len(s) : s[n] \in Bytes \ Blank <=> s[n] \in Visible
  <2>1. \A n \in 1..Len(s) : s[n] \in Bytes
    BY FileLength
  <2> QED
    BY <2>1, ByteAssumption DEF Plain, Bytes
<1>3. Len(s) \in Nat
  BY FileLength
<1> HIDE DEF N, V
<1>4. 0 \in Same
  BY <1>1, <1>3
<1>5. ASSUME NEW n \in Nat, n \in Same PROVE n + 1 \in Same
  <2>1. SUFFICES ASSUME n + 1 <= Len(s) PROVE N[n + 1] = V[n + 1]
    OBVIOUS
  <2>2. n + 1 \in 1..Len(s) /\ n + 1 \in 0..Len(s) /\ n + 1 # 0 /\ (n + 1) - 1 = n /\ N[n] = V[n]
    BY <1>3, <1>5, <2>1
  <2> QED
    BY <1>1, <1>2, <2>2
<1>6. Nat \subseteq Same
  <2> HIDE DEF Same
  <2> QED
    BY <1>4, <1>5, Induct
<1>7. N[Len(s)] = V[Len(s)]
  BY <1>3, <1>6
<1> QED
  BY <1>7 DEF N, V, NonBlankOf, VisibleOf, VisibleUpTo

\* Behind the last visible byte of a plain file there are blanks.
LEMMA BlankTail ==
  ASSUME NEW s \in Files, Plain(s)
  PROVE  \E n \in 0..Len(s) : VisibleAfter(s, n) = {} /\ BlankFrom(s, n)
                               /\ (n = 0 \/ s[n] \in Visible)
<1> DEFINE Rest == {m \in Nat : m <= Len(s) /\ VisibleAfter(s, m) = {}}
<1>1. Len(s) \in Nat
  BY FileLength
<1>2. Len(s) \in Rest
  BY <1>1 DEF VisibleAfter
<1>3. PICK n \in Rest : \A m \in Rest : n <= m
  BY <1>2, LeastNumber
<1>4. n \in Nat /\ n <= Len(s) /\ VisibleAfter(s, n) = {}
  BY <1>3
<1>5. BlankFrom(s, n)
  <2>1. \A k \in (n + 1)..Len(s) : s[k] \in Bytes /\ s[k] \notin Other /\ s[k] \notin Visible
    BY <1>1, <1>4, FileLength DEF VisibleAfter, Plain
  <2> QED
    BY <2>1 DEF BlankFrom, Bytes
<1>6. n = 0 \/ s[n] \in Visible
  <2> SUFFICES ASSUME n # 0, s[n] \notin Visible PROVE FALSE
    OBVIOUS
  <2>1. n - 1 \in Nat /\ n - 1 <= Len(s) /\ (n - 1) + 1 = n
    BY <1>1, <1>4
  <2>2. VisibleAfter(s, n - 1) = {}
    BY <1>1, <1>4, <2>1 DEF VisibleAfter
  <2>3. n - 1 \in Rest
    BY <2>1, <2>2
  <2> QED
    BY <1>3, <1>4, <2>3
<1> QED
  BY <1>1, <1>4, <1>5, <1>6

\* On plain files of any length the two passes compute the verdict their comments speak of:
\* AC for the expected output and blanks behind it, PE for the same non-blank chars in the
\* same order, WA for anything else (comparor.c:25-60).
THEOREM VerdictIsReferenceHolds == Spec => []VerdictIsReference
<1>1. TypeOK /\ VerdictAsRead => VerdictIsReference
  <2> SUFFICES ASSUME TypeOK, VerdictAsRead, pc = "done", Plain(target), Plain(user)
               PROVE  Alike <=> NonBlankOf(target) = NonBlankOf(user)
    BY DEF VerdictIsReference, VerdictAsRead
  <2>1. target \in Files /\ user \in Files
    BY DEF TypeOK
  <2>2. NonBlankOf(target) = VisibleOf(target) /\ NonBlankOf(user) = VisibleOf(user)
    BY <2>1, NonBlankIsVisible
  <2> QED
    BY <2>1, <2>2, BlankTail DEF Alike
<1> QED
  BY <1>1, TypeCorrect, VerdictAsReadHolds, PTL
=============================================================================
