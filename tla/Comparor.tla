------------------------------ MODULE Comparor ------------------------------
(***************************************************************************)
(* compare() of judged (comparor.c): two passes over the expected output   *)
(* (target) and the output of the submission (user), one action per turn   *)
(* of a loop.  t and u are the file positions, the number of bytes read.   *)
(***************************************************************************)
EXTENDS Naturals, SequencesExt

CONSTANTS
  Visible,   \* the bytes 33..126
  Blank,     \* '\n', '\r', '\0' and ' '
  Other,     \* every other byte: tab, the rest of the control bytes, 127..255
  Files      \* the contents a file may have

Bytes == Visible \cup Blank \cup Other

ASSUME ByteAssumption ==
  /\ Visible \cap Blank = {} /\ Visible \cap Other = {} /\ Blank \cap Other = {}
  /\ Files \subseteq Seq(Bytes)

VARIABLES target, user, t, u, diff, pc, result

vars == <<target, user, t, u, diff, pc, result>>

TypeOK ==
  /\ target \in Files /\ user \in Files
  /\ t \in 0..Len(target) /\ u \in 0..Len(user)
  /\ diff \in {0, 1}
  /\ pc \in {"open", "prefix", "extra", "visible", "rest", "done", "skipped"}
  /\ result \in {"SE", "AC", "PE", "WA"}

Init ==
  /\ target \in Files /\ user \in Files
  /\ t = 0 /\ u = 0 /\ diff = 0
  /\ pc = "open" /\ result = "SE"

-----------------------------------------------------------------------------
Finish(r) == pc' = "done" /\ result' = r

\* output_path is "": there is nothing to compare with.
NoTarget ==
  /\ pc = "open" /\ pc' = "skipped" /\ result' = "AC"
  /\ UNCHANGED <<target, user, t, u, diff>>

\* One of the files does not open: FOPEN_FAILED, the result stays SYSTEM_ERROR.
OpenFailed ==
  /\ pc = "open" /\ pc' = "skipped"
  /\ UNCHANGED <<target, user, t, u, diff, result>>

Open ==
  /\ pc = "open" /\ pc' = "prefix"
  /\ UNCHANGED <<target, user, t, u, diff, result>>

\* First loop: a byte of each, as long as they are equal.
SameByte ==
  /\ pc = "prefix" /\ t < Len(target) /\ u < Len(user)
  /\ target[t + 1] = user[u + 1]
  /\ t' = t + 1 /\ u' = u + 1
  /\ UNCHANGED <<target, user, diff, pc, result>>

\* Mutant: an output that ends early is not different.
OtherByteForgiving ==
  /\ pc = "prefix" /\ t < Len(target)
  /\ u < Len(user) => target[t + 1] # user[u + 1]
  /\ t' = t + 1
  /\ u' = IF u < Len(user) THEN u + 1 ELSE u
  /\ pc' = "extra"
  /\ diff' = IF u < Len(user) THEN 1 ELSE 0
  /\ UNCHANGED <<target, user, result>>

\* Mutant: the end of the user file is counted as a byte.
OtherBytePast ==
  /\ pc = "prefix" /\ t < Len(target)
  /\ u < Len(user) => target[t + 1] # user[u + 1]
  /\ t' = t + 1 /\ u' = u + 1
  /\ diff' = 1 /\ pc' = "extra"
  /\ UNCHANGED <<target, user, result>>

\* The loop breaks on a difference, the end of the user file included.
OtherByte ==
  /\ pc = "prefix" /\ t < Len(target)
  /\ u < Len(user) => target[t + 1] # user[u + 1]
  /\ t' = t + 1
  /\ u' = IF u < Len(user) THEN u + 1 ELSE u
  /\ diff' = 1 /\ pc' = "extra"
  /\ UNCHANGED <<target, user, result>>

TargetRead ==
  /\ pc = "prefix" /\ t = Len(target) /\ pc' = "extra"
  /\ UNCHANGED <<target, user, t, u, diff, result>>

\* Second loop, of either pass: extra output must be blank.
ExtraBlank ==
  /\ pc \in {"extra", "rest"} /\ u < Len(user)
  /\ user[u + 1] \in Blank
  /\ u' = u + 1
  /\ UNCHANGED <<target, user, t, diff, pc, result>>

\* Does that loop end on a byte that is not blank?
ExtraByte == u < Len(user) /\ user[u + 1] \notin Blank

AtExtraEnd == u = Len(user) \/ ExtraByte

Accept ==
  /\ pc = "extra" /\ AtExtraEnd
  /\ diff = 0 /\ ~ExtraByte
  /\ Finish("AC")
  /\ UNCHANGED <<target, user, t, u, diff>>

\* Mutant: diff is not reset before the second pass.
RewindStale ==
  /\ pc = "extra" /\ AtExtraEnd
  /\ diff = 1 \/ ExtraByte
  /\ t' = 0 /\ u' = 0 /\ diff' = 1 /\ pc' = "visible"
  /\ UNCHANGED <<target, user, result>>

\* Both files from the beginning, for the pass that ignores the layout.
Rewind ==
  /\ pc = "extra" /\ AtExtraEnd
  /\ diff = 1 \/ ExtraByte
  /\ t' = 0 /\ u' = 0 /\ diff' = 0 /\ pc' = "visible"
  /\ UNCHANGED <<target, user, result>>

\* The positions after i where s has a visible byte; k is the first of them.
VisibleAfter(s, i) == {k \in (i + 1)..Len(s) : s[k] \in Visible}
Next(k, s, i) == k \in VisibleAfter(s, i) /\ \A l \in VisibleAfter(s, i) : k <= l

\* Third loop: the next visible byte of each.
SameVisible ==
  /\ pc = "visible"
  /\ \E k \in VisibleAfter(target, t), l \in VisibleAfter(user, u) :
       /\ Next(k, target, t) /\ Next(l, user, u)
       /\ target[k] = user[l]
       /\ t' = k /\ u' = l
  /\ UNCHANGED <<target, user, diff, pc, result>>

OtherVisible ==
  /\ pc = "visible"
  /\ \E k \in VisibleAfter(target, t) :
       /\ Next(k, target, t) /\ t' = k
       /\ \/ VisibleAfter(user, u) = {} /\ u' = Len(user)
          \/ \E l \in VisibleAfter(user, u) :
               Next(l, user, u) /\ target[k] # user[l] /\ u' = l
  /\ diff' = 1 /\ pc' = "rest"
  /\ UNCHANGED <<target, user, result>>

NoneVisible ==
  /\ pc = "visible"
  /\ VisibleAfter(target, t) = {}
  /\ t' = Len(target) /\ pc' = "rest"
  /\ UNCHANGED <<target, user, u, diff, result>>

\* Mutant: the loop over the rest of the second pass has no end-of-file test.
JudgeLayoutLate ==
  /\ pc = "rest" /\ ExtraByte
  /\ Finish("WA")
  /\ UNCHANGED <<target, user, t, u, diff>>

JudgeLayout ==
  /\ pc = "rest" /\ AtExtraEnd
  /\ Finish(IF diff = 1 \/ ExtraByte THEN "WA" ELSE "PE")
  /\ UNCHANGED <<target, user, t, u, diff>>

-----------------------------------------------------------------------------
Step ==
  \/ NoTarget \/ OpenFailed \/ Open \/ SameByte \/ OtherByte \/ TargetRead
  \/ ExtraBlank \/ Accept \/ Rewind \/ SameVisible \/ OtherVisible \/ NoneVisible
  \/ JudgeLayout

Spec == Init /\ [][Step]_vars /\ WF_vars(Step)

-----------------------------------------------------------------------------
\* From position n on there is nothing but blanks in s.
BlankFrom(s, n) == \A k \in (n + 1)..Len(s) : s[k] \in Blank

\* "user_output must start with ans_output", extra output is blank.
Exact ==
  /\ Len(target) <= Len(user)
  /\ \A k \in 1..Len(target) : target[k] = user[k]
  /\ BlankFrom(user, Len(target))

\* The bytes of one kind among the first n of s, in their order.
BytesUpTo(s, kind) ==
  LET seen[n \in 0..Len(s)] ==
        IF n = 0 THEN <<>>
        ELSE IF s[n] \in kind THEN Append(seen[n - 1], s[n]) ELSE seen[n - 1]
  IN seen

NonBlankOf(s) == BytesUpTo(s, Bytes \ Blank)[Len(s)]

\* A file of nothing but visible characters and blanks.
Plain(s) == \A k \in 1..Len(s) : s[k] \notin Other

\* On plain files the two passes with their shared flag, the rewind and the break out of
\* each loop compute what their comments say: AC if the user's output starts with the
\* expected one and only blanks follow, PE if both have the same non-blank chars, WA for
\* anything else (comparor.c:25-60).  A tab or a byte above 126 is no blank, yet the second
\* pass leaves it out of the comparison (comparor.c:44, 48) and then refuses it at the end
\* (comparor.c:53): on files that have one the code does not do what comparor.c:41 says.
VerdictIsReference ==
  pc = "done" /\ Plain(target) /\ Plain(user) =>
    result = IF Exact THEN "AC"
             ELSE IF NonBlankOf(target) = NonBlankOf(user) THEN "PE" ELSE "WA"

\* AC is given for an exact match and for nothing else: neither the early break of
\* the first loop nor the flag the two loops share lets another output through,
\* and no exact match is left to the second pass (comparor.c:26-36).
AcceptIsExact == pc = "done" => (result = "AC" <=> Exact)

\* Every comparison comes to an end, on any two files (comparor.c:27-54).
Terminates == <>(pc \in {"done", "skipped"})
=============================================================================
