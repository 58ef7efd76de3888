--------------------------- MODULE PriorityLedger ---------------------------
(***************************************************************************)
(* Koj with a ledger beside the User table.  The ledger applies every      *)
(* charge and every reward to the points as they are at that moment; the   *)
(* code applies them to the row it read some steps before and writes the   *)
(* whole row back (views.py:58-76, mq.py:39-51, the updates of             *)
(* UserViewSet).  The two differ only where such windows overlap.          *)
(***************************************************************************)
EXTENDS Koj

VARIABLES
  ledger,   \* ledger[u]: the points of u without lost updates
  raced     \* the users who had two windows open at the same time

ledgerVars == <<vars, ledger, raced>>

\* The ledger of a user whom no client has set above the cap stays below it.
LedgerTypeOK ==
  /\ ledger \in [Users -> Nat]
  /\ \A u \in Users \ raised : ledger[u] <= MaxPriority
  /\ raced \in SUBSET Users

-----------------------------------------------------------------------------
\* The requests of u that hold its row and will write it back.
Holding(u) == {r \in Requests : Owner[r] = u /\ pc[r] \in Window}

\* Are two read-modify-write windows open on the row of u?
Overlap(u) ==
  \/ \E r, s \in Holding(u) : r # s
  \/ Holding(u) # {} /\ editing[u] # NoEdit

Charged(r) == pc[r] = "loaded" /\ pc'[r] = "charged"
Rewarded(r) == pc[r] = "rewarding" /\ pc'[r] = "dispatching"

Reassigned(u) == \E p \in Assigned : AssignPriority(u, p)

\* The account of a user who had overlapping windows is closed.
Enter(u, points) == ledger' = [ledger EXCEPT ![u] = IF u \in raced THEN 0 ELSE points]

Book ==
  \/ \E r \in Requests :
       \/ Charged(r) /\ Enter(Owner[r], Charge(ledger[Owner[r]], r \in Contest))
       \/ Rewarded(r) /\ Enter(Owner[r], Reward(ledger[Owner[r]], result[r]))
  \/ \E u \in Users, p \in Assigned : AssignPriority(u, p) /\ Enter(u, p)
  \/ /\ \A r \in Requests : ~Charged(r) /\ ~Rewarded(r)
     /\ \A u \in Users : ~Reassigned(u)
     /\ UNCHANGED ledger

LedgerInit ==
  /\ Init
  /\ ledger = [u \in Users |-> InitialPriority]
  /\ raced = {}

LedgerNext ==
  /\ Next
  /\ Book
  /\ raced' = raced \cup {u \in Users : Overlap(u)'}

LedgerSpec == LedgerInit /\ [][LedgerNext]_ledgerVars

-----------------------------------------------------------------------------
\* No charge and no reward is lost or applied twice for a user whose windows
\* never overlapped, whatever else is interleaved, fails or is delivered again
\* (views.py:58-76, mq.py:39-51).
SerialUsersExact == \A u \in Users \ raced : priority[u] = ledger[u]
=============================================================================
