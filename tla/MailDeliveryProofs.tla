-------------------------- MODULE MailDeliveryProofs --------------------------
(***************************************************************************)
(* Proofs about MailDelivery, for any messages, processes, capacity and    *)
(* times.  That the outbox keeps its invariant is taken from               *)
(* DeliveryOutboxProofs: every step of the notifier is one of the outbox's *)
(* or leaves it alone.  What is added here says, for each of the two       *)
(* protections, what it alone guarantees for a message that has not lost   *)
(* it.                                                                     *)
(***************************************************************************)
EXTENDS MailDelivery, TLAPS

OP == INSTANCE DeliveryOutboxProofs
DP == INSTANCE DeliveryDeduplicatorProofs WITH Callers <- Deliveries

(***************************************************************************)
(* The inductive invariant.                                                *)
(***************************************************************************)
\* Where a process is says what it has in hand.
PlaceInv ==
  \A w \in Callers :
    /\ pc[w] \in {"idle", "send", "finish"}
         \cup (IF w \in Deliveries THEN {"reserve", "begin", "commit"} ELSE {"retry"})
    /\ pc[w] \notin {"idle", "retry"} => mail[w] \in Ids
    /\ held[w] # None => pc[w] \in {"send", "finish"} /\ held[w].id = mail[w]
    /\ arrived[w] => pc[w] = "send"
    /\ pc[w] = "finish" => verdict[w] \in Verdicts

\* A record counts the one send made under it that reached LINE WORKS.
CountsAt(i) ==
  /\ recordReached[i] <= 1
  /\ items[i] # None /\ items[i].state = "pending" => recordReached[i] = 0

RecordInv(w) ==
  UnderItsRecord(w) =>
    /\ pc[w] = "send" => recordReached[mail[w]] = IF arrived[w] THEN 1 ELSE 0
    /\ pc[w] = "finish" /\ verdict[w] = "rejected" => recordReached[mail[w]] = 0
    /\ pc[w] = "finish" /\ verdict[w] = "success" => recordReached[mail[w]] = 1

\* While it has the outbox, a message has one record at most, and whoever sends it does so
\* under that record.
OutboxAt(i) ==
  /\ items[i] # None => ~Outbox!Expired(items[i].created) /\ notified[i] <= recordReached[i]
  /\ items[i] = None => notified[i] = 0
  /\ \A w \in Callers : pc[w] = "send" /\ mail[w] = i =>
       held[w] # None /\ ~Outbox!Expired(held[w].born)

Active(w, i) == pc[w] \in {"begin", "send", "finish"} /\ mail[w] = i

\* While it has its claim, a message is let through once.  One process at a time works on it
\* from then on: its record becomes pending only when that process ends.
ClaimAt(i) ==
  /\ claims[i] # None => ~Dedup!Lapsed(claims[i].timestamp)
  /\ claims[i] = None => items[i] = None /\ notified[i] = 0 /\ \A w \in Callers : ~Active(w, i)
  /\ notified[i] <= 1
  /\ items[i] # None /\ items[i].state = "pending" => notified[i] = 0

WorkAt(i) ==
  \A w \in Callers : Active(w, i) =>
    /\ items[i] = None \/ items[i].state = "in_flight"
    /\ \A v \in Callers : Active(v, i) => v = w
    /\ pc[w] = "begin" => items[i] = None /\ notified[i] = 0
    /\ pc[w] = "send" => notified[i] = IF arrived[w] THEN 1 ELSE 0
    /\ pc[w] = "finish" /\ verdict[w] = "rejected" => notified[i] = 0

MessageInv(i) ==
  /\ CountsAt(i)
  /\ "outbox" \notin lost[i] => OutboxAt(i)
  /\ "dedup" \notin lost[i] => ClaimAt(i) /\ WorkAt(i)

IInv ==
  /\ TypeOK /\ OP!IInv /\ DP!IInv /\ PlaceInv
  /\ \A w \in Callers : RecordInv(w)
  /\ \A i \in Ids : MessageInv(i)

(***************************************************************************)
(* The stores of the proofs are those of the notifier.                     *)
(***************************************************************************)
LEMMA Assumptions ==
  /\ OP!OutboxAssumption /\ OP!AbsenceAssumption
  /\ DP!DeduplicatorAssumption /\ DP!ClaimAbsenceAssumption
<1>1. OP!OutboxAssumption
  BY StoreAssumption
  DEF OP!OutboxAssumption, OP!IsFiniteSet, Outbox!OutboxAssumption, Outbox!IsFiniteSet
<1>2. OP!AbsenceAssumption
  BY StoreAssumption
  DEF OP!AbsenceAssumption, Outbox!AbsenceAssumption, OP!Item, OP!Claim, OP!Row, OP!States,
      Outbox!Item, Outbox!Claim, Outbox!Row, Outbox!States
<1>3. DP!DeduplicatorAssumption /\ DP!ClaimAbsenceAssumption
  BY StoreAssumption
  DEF DP!DeduplicatorAssumption, Dedup!DeduplicatorAssumption, DP!ClaimAbsenceAssumption,
      Dedup!ClaimAbsenceAssumption, DP!DedupClaim, Dedup!DedupClaim, DP!Lease, Dedup!Lease
<1> QED  BY <1>1, <1>2, <1>3

LEMMA SameFiles ==
  /\ OP!Live = Outbox!Live /\ OP!FreshNonces = Outbox!FreshNonces
  /\ \A i, t : OP!Insertions(OP!Live, i, t) = Outbox!Insertions(Outbox!Live, i, t)
<1>1. OP!Live = Outbox!Live
  BY DEF OP!Live, Outbox!Live, OP!Expired, Outbox!Expired
<1>2. OP!FreshNonces = Outbox!FreshNonces
  BY DEF OP!FreshNonces, Outbox!FreshNonces, OP!UsedNonces, Outbox!UsedNonces, OP!Stored, Outbox!Stored
<1>3. ASSUME NEW s, NEW i, NEW t
      PROVE  OP!Insertions(s, i, t) = Outbox!Insertions(s, i, t)
  BY DEF OP!Insertions, Outbox!Insertions, OP!Stored, Outbox!Stored, OP!OldestDelivered,
         Outbox!OldestDelivered, OP!Cardinality, Outbox!Cardinality, OP!IsFiniteSet, Outbox!IsFiniteSet
<1> QED  BY <1>1, <1>2, <1>3

\* An operation of the outbox here is that operation there.
LEMMA SameOperations ==
  ASSUME NEW w \in Callers
  PROVE  /\ \A i : Outbox!Begin(w, i) => OP!Begin(w, i)
         /\ \A i : Outbox!BeginRefused(w, i) => OP!BeginRefused(w, i)
         /\ \A i : Outbox!BeginFails(w, i) => OP!BeginFails(w, i)
         /\ \A s : Outbox!Finish(w, s) => OP!Finish(w, s)
         /\ \A s : Outbox!FinishFails(w, s) => OP!FinishFails(w, s)
         /\ Outbox!List(w) => OP!List(w)
         /\ Outbox!ClaimSelected(w) => OP!ClaimSelected(w)
         /\ Outbox!ClaimFails(w) => OP!ClaimFails(w)
         /\ Outbox!Crash(w) => OP!Crash(w)
<1>1. ASSUME NEW i
      PROVE  /\ Outbox!Begin(w, i) => OP!Begin(w, i)
             /\ Outbox!BeginRefused(w, i) => OP!BeginRefused(w, i)
             /\ Outbox!BeginFails(w, i) => OP!BeginFails(w, i)
  <2>1. \A n : /\ OP!InFlight(n, now) = Outbox!InFlight(n, now)
               /\ OP!Insertions(OP!Live, i, OP!InFlight(n, now))
                    = Outbox!Insertions(Outbox!Live, i, Outbox!InFlight(n, now))
    BY SameFiles DEF OP!InFlight, Outbox!InFlight
  <2>2. Outbox!Begin(w, i) => OP!Begin(w, i)
    BY <2>1, SameFiles DEF Outbox!Begin, OP!Begin
  <2>3. Outbox!BeginRefused(w, i) => OP!BeginRefused(w, i)
    BY SameFiles DEF Outbox!BeginRefused, OP!BeginRefused
  <2>4. Outbox!BeginFails(w, i) => OP!BeginFails(w, i)
    BY <2>1, SameFiles DEF Outbox!BeginFails, OP!BeginFails
  <2> QED  BY <2>2, <2>3, <2>4
<1>2. ASSUME NEW s
      PROVE  /\ Outbox!Finish(w, s) => OP!Finish(w, s)
             /\ Outbox!FinishFails(w, s) => OP!FinishFails(w, s)
  BY SameFiles
  DEF Outbox!Finish, OP!Finish, Outbox!FinishFails, OP!FinishFails, Outbox!Owns, OP!Owns,
      Outbox!Outcome, OP!Outcome
<1>3. Outbox!List(w) => OP!List(w)
  BY SameFiles DEF Outbox!List, OP!List, Outbox!Stored, OP!Stored
<1>4. /\ Outbox!ClaimSelected(w) => OP!ClaimSelected(w)
      /\ Outbox!ClaimFails(w) => OP!ClaimFails(w)
  BY SameFiles
  DEF Outbox!ClaimSelected, OP!ClaimSelected, Outbox!ClaimFails, OP!ClaimFails,
      Outbox!Claimable, OP!Claimable, Outbox!Claimed, OP!Claimed
<1>5. Outbox!Crash(w) => OP!Crash(w)
  BY DEF Outbox!Crash, OP!Crash
<1> QED  BY <1>1, <1>2, <1>3, <1>4, <1>5

\* Every step of the notifier is one of the outbox or leaves it alone.
LEMMA OutboxStep ==
  ASSUME TypeOK, PlaceInv, [Next]_vars
  PROVE  [OP!Next]_(OP!vars)
<1> USE DEF OP!vars, storeVars, outboxVars, dedupVars
<1>1. ASSUME NEW w \in Callers, Begin(w)
      PROVE  OP!Next
  <2>1. mail[w] \in Ids
    BY <1>1 DEF Begin, PlaceInv
  <2> QED
    BY <1>1, <2>1, SameOperations
    DEF Begin, Recorded, AlreadyRecorded, SendUntracked, Unrecorded, OP!Next
<1>2. ASSUME NEW w \in Callers, Finish(w)
      PROVE  OP!Next \/ UNCHANGED OP!vars
  <2>1. OutcomeOf[verdict[w]] \in OP!States \ {"in_flight"}
    BY <1>2 DEF Finish, PlaceInv, TypeOK, Verdicts, OutcomeOf, OP!States
  <2>2. mail[w] \in Ids
    BY <1>2 DEF Finish, PlaceInv
  <2> QED
    BY <1>2, <2>1, <2>2, SameOperations DEF Finish, OP!Next
<1>3. ASSUME NEW w \in Callers, Retry(w) \/ Select(w) \/ Crash(w)
      PROVE  OP!Next
  BY <1>3, SameOperations DEF Retry, Select, Crash, OP!Next
<1>4. ASSUME NEW w \in Callers,
             Reserve(w) \/ EndBeforeSend(w) \/ Commit(w) \/ Reach(w)
               \/ \E v \in Verdicts : SendReturns(w, v)
      PROVE  UNCHANGED OP!vars
  BY <1>4
  DEF Reserve, EndBeforeSend, Commit, Reach, SendReturns, Dedup!Reserve, Dedup!ReserveRefused,
      Dedup!ReserveFails, Dedup!Commit, Dedup!CommitFails
<1>5. ASSUME NEW w \in Callers, NEW i \in Ids, Arrive(w, i)
      PROVE  UNCHANGED OP!vars
  BY <1>5 DEF Arrive
<1>6. CASE Tick
  BY <1>6 DEF Tick, Outbox!Tick, OP!Tick, OP!Next
<1>7. CASE UNCHANGED vars
  BY <1>7 DEF vars
<1> QED
  BY <1>1, <1>2, <1>3, <1>4, <1>5, <1>6, <1>7 DEF Next, Step, Callers

LEMMA SameClaims ==
  /\ DP!Pruned = Dedup!Pruned /\ DP!FreshTokens = Dedup!FreshTokens
  /\ \A i, n : DP!Reserved(i, n) = Dedup!Reserved(i, n)
<1>1. DP!Pruned = Dedup!Pruned
  BY DEF DP!Pruned, Dedup!Pruned, DP!Lapsed, Dedup!Lapsed
<1>2. DP!FreshTokens = Dedup!FreshTokens
  BY DEF DP!FreshTokens, Dedup!FreshTokens, DP!UsedTokens, Dedup!UsedTokens
<1> QED  BY <1>1, <1>2 DEF DP!Reserved, Dedup!Reserved

\* Every step of the notifier is one of the duplicate store or leaves it alone.
LEMMA DedupStep ==
  ASSUME TypeOK, PlaceInv, [Next]_vars
  PROVE  [DP!Next]_(DP!vars)
<1> USE DEF DP!vars, storeVars, outboxVars, dedupVars
<1>1. ASSUME NEW w \in Callers, Reserve(w)
      PROVE  DP!Next
  <2>1. mail[w] \in Ids /\ w \in Deliveries
    BY <1>1 DEF Reserve, PlaceInv
  <2>2. \/ DP!Reserve(w, mail[w]) \/ DP!ReserveRefused(w, mail[w]) \/ DP!ReserveFails(w, mail[w])
    BY <1>1, SameClaims
    DEF Reserve, Dedup!Reserve, Dedup!ReserveRefused, Dedup!ReserveFails,
        DP!Reserve, DP!ReserveRefused, DP!ReserveFails
  <2> QED  BY <2>1, <2>2 DEF DP!Next
<1>2. ASSUME NEW w \in Callers, Commit(w)
      PROVE  DP!Next \/ UNCHANGED DP!vars
  <2>1. w \in Deliveries
    BY <1>2 DEF Commit, PlaceInv
  <2> QED
    BY <1>2, <2>1
    DEF Commit, Dedup!Commit, Dedup!CommitFails, DP!Commit, DP!CommitFails, DP!LeaseHolds,
        Dedup!LeaseHolds, DP!Committed, Dedup!Committed, DP!Next
<1>3. ASSUME NEW w \in Callers, Crash(w)
      PROVE  DP!Next \/ UNCHANGED DP!vars
  BY <1>3 DEF Crash, Outbox!Crash, Dedup!Crash, DP!Crash, DP!Next
<1>4. ASSUME NEW w \in Callers,
             EndBeforeSend(w) \/ Reach(w) \/ \E v \in Verdicts : SendReturns(w, v)
      PROVE  UNCHANGED DP!vars
  BY <1>4 DEF EndBeforeSend, Reach, SendReturns
<1>5. ASSUME NEW w \in Callers, Begin(w) \/ Finish(w) \/ Retry(w) \/ Select(w)
      PROVE  UNCHANGED DP!vars
  BY <1>5
  DEF Begin, Finish, Retry, Select, Recorded, AlreadyRecorded, SendUntracked, Unrecorded,
      Outbox!Begin, Outbox!BeginRefused, Outbox!BeginFails, Outbox!Finish, Outbox!FinishFails,
      Outbox!List, Outbox!ClaimSelected, Outbox!ClaimFails
<1>6. ASSUME NEW w \in Callers, NEW i \in Ids, Arrive(w, i)
      PROVE  UNCHANGED DP!vars
  BY <1>6 DEF Arrive
<1>7. CASE Tick
  BY <1>7 DEF Tick, Outbox!Tick, DP!Tick, DP!Next
<1>8. CASE UNCHANGED vars
  BY <1>8 DEF vars
<1> QED
  BY <1>1, <1>2, <1>3, <1>4, <1>5, <1>6, <1>7, <1>8 DEF Next, Step, Callers

LEMMA StoresIInv == IInv /\ [Next]_vars => OP!IInv' /\ DP!IInv' /\ Outbox!TypeOK' /\ Dedup!TypeOK'
<1> SUFFICES ASSUME IInv, [Next]_vars
             PROVE  OP!IInv' /\ DP!IInv' /\ Outbox!TypeOK' /\ Dedup!TypeOK'
  OBVIOUS
<1>1. OP!IInv'
  BY Assumptions, OutboxStep, OP!NextIInv DEF IInv
<1>2. DP!IInv'
  BY Assumptions, DedupStep, DP!NextIInv DEF IInv
<1>3. Outbox!TypeOK'
  BY <1>1
  DEF OP!IInv, OP!TypeOK, Outbox!TypeOK, OP!Item, OP!Claim, OP!Row, OP!States, OP!Stored,
      Outbox!Item, Outbox!Claim, Outbox!Row, Outbox!States, Outbox!Stored
<1>4. Dedup!TypeOK'
  BY <1>2
  DEF DP!IInv, DP!TypeOK, Dedup!TypeOK, DP!DedupClaim, DP!Lease, Dedup!DedupClaim, Dedup!Lease
<1> QED  BY <1>1, <1>2, <1>3, <1>4

(***************************************************************************)
(* What a step by one process leaves as it is.                             *)
(***************************************************************************)
\* A record is kept, or the message is told to have lost it.
Spared(j) ==
  \/ items'[j] = items[j]
  \/ /\ items'[j] = None /\ items[j] # None
     /\ \/ Outbox!Expired(items[j].created)
        \/ items[j].state = "delivered" /\ "outbox" \in lost'[j]

\* A claim is kept, lapsed or renewed.
ClaimStands(j) ==
  \/ claims'[j] = claims[j]
  \/ claims[j] # None /\ Dedup!Lapsed(claims[j].timestamp)
  \/ claims[j] # None /\ claims'[j] # None /\ ~Dedup!Lapsed(claims'[j].timestamp)

LeavesMessage(j) ==
  /\ Spared(j) /\ ClaimStands(j)
  /\ notified'[j] = notified[j] /\ recordReached'[j] = recordReached[j]
  /\ lost[j] \subseteq lost'[j]

LeavesProcess(v) ==
  /\ pc'[v] = pc[v] /\ mail'[v] = mail[v] /\ arrived'[v] = arrived[v]
  /\ verdict'[v] = verdict[v] /\ held'[v] = held[v]

\* What RecoverableNotification lets happen to a message.
Fate(i) ==
  /\ \/ Notification!Open(i) \/ Notification!Reach(i) \/ Notification!Reject(i)
     \/ Notification!Succeed(i) \/ Notification!Doubt(i) \/ Notification!Retry(i)
     \/ Notification!Forget(i) \/ Notification!Stays(i)
  /\ Notification!ExpiryIsFinal(i)

\* In the words of the notifier: its record is new, gone, kept, or moves.
Begun(i) ==
  /\ items[i] = None \/ Outbox!Expired(items[i].created)
  /\ items'[i] # None /\ items'[i].state = "in_flight" /\ recordReached'[i] = 0

Dropped(i) ==
  /\ items[i] # None /\ items'[i] = None /\ recordReached'[i] = recordReached[i]
  /\ Outbox!Expired(items[i].created) \/ items[i].state = "delivered"

Unmoved(i) == items'[i] = items[i] /\ recordReached'[i] = recordReached[i]

Moved(i, from, to) ==
  /\ items[i] # None /\ items[i].state = from
  /\ items'[i] # None /\ items'[i].state = to /\ items'[i].created = items[i].created

Fated(i) ==
  \/ Begun(i) \/ Dropped(i) \/ Unmoved(i)
  \/ Moved(i, "in_flight", "in_flight") /\ recordReached[i] = 0 /\ recordReached'[i] = 1
  \/ /\ recordReached'[i] = recordReached[i]
     /\ \/ Moved(i, "in_flight", "pending") /\ recordReached[i] = 0
        \/ Moved(i, "in_flight", "delivered") /\ recordReached[i] = 1
        \/ Moved(i, "in_flight", "review_only")
        \/ Moved(i, "pending", "in_flight") /\ recordReached[i] = 0

\* Both ways to put it say the same.
LEMMA FatedFate == ASSUME UNCHANGED now, NEW i \in Ids, Fated(i) PROVE Fate(i)
<1> DEFINE phase == [j \in Ids |-> PhaseOf(items[j])]
           expired == {j \in Ids : items[j] # None /\ Outbox!Expired(items[j].created)}
<1>1. phase[i] = PhaseOf(items[i]) /\ phase'[i] = PhaseOf(items'[i])
  OBVIOUS
<1>2. /\ i \in expired <=> items[i] # None /\ Outbox!Expired(items[i].created)
      /\ i \in expired' <=> items'[i] # None /\ Outbox!Expired(items'[i].created)
  BY DEF Outbox!Expired
<1> HIDE DEF phase, expired
<1>3. Fate(i) <=>
        /\ \/ /\ phase[i] = "absent" \/ i \in expired
              /\ phase'[i] = "sending" /\ recordReached'[i] = 0
           \/ /\ phase[i] = "sending" /\ phase'[i] = "sending"
              /\ recordReached[i] = 0 /\ recordReached'[i] = 1
           \/ /\ recordReached'[i] = recordReached[i]
              /\ \/ phase[i] = "sending" /\ phase'[i] = "rejected" /\ recordReached[i] = 0
                 \/ phase[i] = "sending" /\ phase'[i] = "delivered" /\ recordReached[i] = 1
                 \/ phase[i] = "sending" /\ phase'[i] = "uncertain"
                 \/ phase[i] = "rejected" /\ phase'[i] = "sending" /\ recordReached[i] = 0
                 \/ phase[i] = "delivered" /\ phase'[i] = "absent"
                 \/ i \in expired /\ phase'[i] = "absent"
                 \/ phase'[i] = phase[i]
        /\ i \in expired =>
              \/ i \in expired'
              \/ phase'[i] = "absent" /\ recordReached'[i] = recordReached[i]
              \/ phase'[i] = "sending" /\ recordReached'[i] = 0
  BY DEF Fate, Notification!Open, Notification!Reach, Notification!Reject, Notification!Succeed,
         Notification!Doubt, Notification!Retry, Notification!Forget, Notification!Stays,
         Notification!ExpiryIsFinal, Notification!Moves, Notification!Keeps, phase, expired
<1>4. CASE Begun(i)
  BY <1>1, <1>2, <1>3, <1>4 DEF Begun, PhaseOf
<1>5. CASE Dropped(i)
  BY <1>1, <1>2, <1>3, <1>5 DEF Dropped, PhaseOf
<1>6. CASE Unmoved(i)
  BY <1>1, <1>2, <1>3, <1>6 DEF Unmoved
<1>7. CASE ~(Begun(i) \/ Dropped(i) \/ Unmoved(i))
  <2>1. i \in expired => i \in expired'
    BY <1>2, <1>7 DEF Fated, Moved, Outbox!Expired
  <2> QED  BY <1>1, <1>3, <1>7, <2>1 DEF Fated, Moved, PhaseOf
<1> QED  BY <1>4, <1>5, <1>6, <1>7

\* What every step is shown to lead to.
InvAfter ==
  /\ \A v \in Callers : RecordInv(v)'
  /\ \A i \in Ids : MessageInv(i)' /\ Fate(i)

LEMMA LeftMessage ==
  ASSUME IInv, UNCHANGED now, NEW w \in Callers, NEW j \in Ids,
         \A v \in Callers \ {w} : LeavesProcess(v),
         LeavesMessage(j), Active(w, j)' => Active(w, j) /\ LeavesProcess(w)
  PROVE  MessageInv(j)' /\ Fate(j)
<1>1. MessageInv(j)
  BY DEF IInv
<1>2. CountsAt(j)'
  BY <1>1 DEF MessageInv, CountsAt, LeavesMessage, Spared
<1>3. ASSUME "outbox" \notin lost'[j]
      PROVE  OutboxAt(j)'
  <2>1. OutboxAt(j)
    BY <1>1, <1>3 DEF MessageInv, LeavesMessage
  <2>2. items'[j] = items[j]
    BY <1>3, <2>1 DEF OutboxAt, LeavesMessage, Spared
  <2> QED
    BY <2>1, <2>2 DEF OutboxAt, LeavesMessage, LeavesProcess, Outbox!Expired, Active
<1>4. ASSUME "dedup" \notin lost'[j]
      PROVE  ClaimAt(j)' /\ WorkAt(j)'
  <2>1. ClaimAt(j) /\ WorkAt(j)
    BY <1>1, <1>4 DEF MessageInv, LeavesMessage
  <2>2. items'[j] = items[j] \/ items'[j] = None
    BY DEF LeavesMessage, Spared
  <2>3. \A v \in Callers : Active(v, j)' => Active(v, j) /\ LeavesProcess(v)
    BY DEF Active, LeavesProcess
  <2>4. ClaimAt(j)'
    BY <2>1, <2>2, <2>3 DEF ClaimAt, LeavesMessage, ClaimStands, Dedup!Lapsed
  <2>5. WorkAt(j)'
    BY <2>1, <2>2, <2>3 DEF WorkAt, LeavesMessage, LeavesProcess
  <2> QED  BY <2>4, <2>5
<1>5. Fate(j)
  <2>1. Fated(j)
    BY DEF Fated, Unmoved, Dropped, LeavesMessage, Spared
  <2> QED  BY <2>1, FatedFate
<1> QED  BY <1>2, <1>3, <1>4, <1>5 DEF MessageInv

LEMMA LeftProcess ==
  ASSUME IInv, NEW v \in Callers, LeavesProcess(v),
         held[v] # None => LeavesMessage(mail[v])
  PROVE  RecordInv(v)'
<1>1. RecordInv(v)
  BY DEF IInv
<1>2. UnderItsRecord(v)' => UnderItsRecord(v) /\ LeavesMessage(mail[v])
  BY DEF UnderItsRecord, LeavesProcess, LeavesMessage, Spared
<1> QED  BY <1>1, <1>2 DEF RecordInv, LeavesProcess, LeavesMessage

\* A process ends, waits, or goes where it has no message in hand.
LEMMA QuietStep ==
  ASSUME IInv, UNCHANGED now, NEW w \in Callers,
         \A v \in Callers \ {w} : LeavesProcess(v), \A j \in Ids : LeavesMessage(j),
         pc'[w] \notin {"begin", "send", "finish"}, held'[w] = None
  PROVE  InvAfter
<1>1. \A i \in Ids : MessageInv(i)' /\ Fate(i)
  BY LeftMessage DEF Active
<1>2. ASSUME NEW v \in Callers
      PROVE  RecordInv(v)'
  <2>1. CASE v = w
    BY <2>1 DEF RecordInv, UnderItsRecord
  <2>2. CASE v # w
    <3>1. held[v] # None => mail[v] \in Ids
      BY DEF IInv, PlaceInv
    <3> QED  BY <2>2, <3>1, LeftProcess
  <2> QED  BY <2>1, <2>2
<1> QED  BY <1>1, <1>2 DEF InvAfter

\* A process works on the message m: the others need no looking after.
LEMMA WorkingStep ==
  ASSUME IInv, UNCHANGED now, NEW w \in Callers, NEW m \in Ids,
         \A v \in Callers \ {w} : LeavesProcess(v),
         \A j \in Ids \ {m} : LeavesMessage(j), mail'[w] \in {m, None},
         MessageInv(m)', Fated(m), RecordInv(w)',
         \A v \in Callers \ {w} : held[v] # None /\ mail[v] = m => RecordInv(v)'
  PROVE  InvAfter
<1>1. ASSUME NEW i \in Ids
      PROVE  MessageInv(i)' /\ Fate(i)
  <2>1. CASE i = m
    BY <2>1, FatedFate
  <2>2. CASE i # m
    <3>1. mail'[w] # i
      BY <2>2, MailDeliveryAssumption
    <3> QED  BY <2>2, <3>1, LeftMessage DEF Active
  <2> QED  BY <2>1, <2>2
<1>2. ASSUME NEW v \in Callers \ {w}
      PROVE  RecordInv(v)'
  <2>1. held[v] # None => mail[v] \in Ids
    BY DEF IInv, PlaceInv
  <2> QED  BY <2>1, LeftProcess
<1> QED  BY <1>1, <1>2 DEF InvAfter

(***************************************************************************)
(* What the operations of the outbox do to its file.                       *)
(***************************************************************************)
\* The operations drop expired records before anything else.
LEMMA LiveKeeps ==
  ASSUME TypeOK
  PROVE  \A j \in Ids : \/ Outbox!Live[j] = items[j]
                       \/ /\ Outbox!Live[j] = None /\ items[j] # None
                          /\ Outbox!Expired(items[j].created)
  BY DEF Outbox!Live, TypeOK, Outbox!TypeOK

\* A fresh token is nobody's.
LEMMA FreshToken ==
  ASSUME IInv, NEW n \in Outbox!FreshNonces
  PROVE  n \in Nonces /\ n # None /\ \A c \in Callers : held[c] # None => held[c].token # n
<1>1. OP!TypeOK /\ n \in OP!FreshNonces
  BY SameFiles DEF IInv, OP!IInv
<1> QED  BY <1>1, Assumptions, OP!FreshDiffers

\* A new record takes the place of none but a delivered one, whose message is told.
LEMMA Insertion ==
  ASSUME IInv, NEW m \in Ids, Outbox!Live[m] = None, NEW n \in Outbox!FreshNonces,
         items' \in Outbox!Insertions(Outbox!Live, m, Outbox!InFlight(n, now)),
         \A i \in EvictedBy(m) : "outbox" \in lost'[i]
  PROVE  /\ items'[m] = Outbox!InFlight(n, now) /\ items'[m] # None
         /\ \A j \in Ids \ {m} : Spared(j)
<1>1. OP!TypeOK /\ OP!NeverOverfull
  BY DEF IInv, OP!IInv
<1>2. OP!InFlight(n, now) = Outbox!InFlight(n, now)
  BY DEF OP!InFlight, Outbox!InFlight
<1>3. /\ OP!Live[m] = None /\ n \in OP!FreshNonces
      /\ items' \in OP!Insertions(OP!Live, m, OP!InFlight(n, now))
  BY <1>2, SameFiles
<1>4. OP!Rewritten(items', m, n) /\ items'[m] = OP!InFlight(n, now)
  BY <1>1, <1>3, Assumptions, OP!InsertionRewrites
<1>5. ASSUME NEW j \in Ids \ {m}
      PROVE  Spared(j)
  <2>1. \/ items'[j] = items[j]
        \/ /\ items'[j] = None /\ items[j] # None
           /\ Outbox!Expired(items[j].created) \/ items[j].state = "delivered"
    BY <1>4 DEF OP!Rewritten, OP!Kept, OP!Expired, Outbox!Expired
  <2>2. Outbox!Live[j] = items[j] \/ Outbox!Expired(items[j].created)
    BY LiveKeeps DEF IInv
  <2> QED  BY <2>1, <2>2 DEF Spared, EvictedBy
<1> QED  BY <1>2, <1>4, <1>5 DEF OP!Rewritten

\* Who works on an unexpired record finds it in the file under its token.
LEMMA Holding ==
  ASSUME IInv, NEW w \in Callers, held[w] # None, ~Outbox!Expired(held[w].born)
  PROVE  /\ mail[w] \in Ids /\ UnderItsRecord(w)
         /\ items[mail[w]].state = "in_flight" /\ items[mail[w]].created = held[w].born
<1>1. OP!HolderInv
  BY DEF IInv, OP!IInv
<1>2. held[w].id = mail[w] /\ mail[w] \in Ids
  BY DEF IInv, PlaceInv
<1> QED  BY <1>1, <1>2 DEF OP!HolderInv, OP!Expired, Outbox!Expired, UnderItsRecord

LEMMA TokensAreNames ==
  ASSUME IInv
  PROVE  /\ \A w \in Callers : held[w] # None => held[w].token \in Nonces /\ held[w].token # None
         /\ \A v, w \in Callers : v # w /\ held[v] # None /\ held[w] # None
                                    => held[v].token # held[w].token
<1>1. /\ \A w \in Callers : held[w] # None => held[w] \in Outbox!Claim
      /\ OP!TokensDiffer
  BY DEF IInv, TypeOK, Outbox!TypeOK, OP!IInv
<1> QED
  BY <1>1, StoreAssumption DEF Outbox!Claim, OP!TokensDiffer, Outbox!OutboxAssumption

(***************************************************************************)
(* The operations, one by one.                                             *)
(***************************************************************************)
LEMMA ArriveInv == ASSUME IInv, NEW w \in Callers, NEW m \in Ids, Arrive(w, m) PROVE InvAfter
<1>1. /\ pc'[w] = "reserve" /\ held'[w] = None /\ UNCHANGED now
      /\ \A v \in Callers \ {w} : LeavesProcess(v)
      /\ \A j \in Ids : LeavesMessage(j)
  BY DEF Arrive, Goto, storeVars, historyVars, IInv, TypeOK, PlaceInv, LeavesProcess,
         LeavesMessage, Spared, ClaimStands
<1> QED  BY <1>1, QuietStep

LEMMA SelectInv == ASSUME IInv, NEW w \in Callers, Select(w) PROVE InvAfter
<1>1. /\ pc'[w] = "retry" /\ held'[w] = None /\ UNCHANGED now
      /\ \A v \in Callers \ {w} : LeavesProcess(v)
      /\ \A j \in Ids : LeavesMessage(j)
  BY DEF Select, Outbox!List, Goto, dedupVars, historyVars, IInv, TypeOK, PlaceInv, LeavesProcess,
         LeavesMessage, Spared, ClaimStands
<1> QED  BY <1>1, QuietStep

LEMMA EndBeforeSendInv == ASSUME IInv, NEW w \in Callers, EndBeforeSend(w) PROVE InvAfter
<1>1. /\ pc'[w] = "commit" /\ held'[w] = None /\ UNCHANGED now
      /\ \A v \in Callers \ {w} : LeavesProcess(v)
      /\ \A j \in Ids : LeavesMessage(j)
  BY DEF EndBeforeSend, Goto, storeVars, IInv, TypeOK, PlaceInv, LeavesProcess,
         LeavesMessage, Spared, ClaimStands
<1> QED  BY <1>1, QuietStep

LEMMA CrashInv == ASSUME IInv, NEW w \in Callers, Crash(w) PROVE InvAfter
<1>1. /\ pc'[w] = "idle" /\ held'[w] = None /\ UNCHANGED now
      /\ \A v \in Callers \ {w} : LeavesProcess(v)
      /\ \A j \in Ids : LeavesMessage(j)
  BY DEF Crash, Exit, Outbox!Crash, Dedup!Crash, Goto, dedupVars, IInv, TypeOK, Outbox!TypeOK,
         LeavesProcess, LeavesMessage, Spared, ClaimStands
<1> QED  BY <1>1, QuietStep

\* A claim that is committed counts from now on.
LEMMA CommitInv == ASSUME IInv, NEW w \in Callers, Commit(w) PROVE InvAfter
<1>1. /\ pc'[w] = "idle" /\ held'[w] = None /\ UNCHANGED <<now, items, notified, recordReached, lost>>
      /\ \A v \in Callers \ {w} : LeavesProcess(v)
  BY DEF Commit, Exit, Goto, Dedup!Commit, Dedup!CommitFails, outboxVars, dedupVars, historyVars,
         IInv, TypeOK, PlaceInv, LeavesProcess
<1>2. \A j \in Ids : ClaimStands(j)
  <2>1. \/ UNCHANGED claims
        \/ Dedup!LeaseHolds(w) /\ claims' = Dedup!Committed(lease[w].id)
    BY DEF Commit, Dedup!Commit, Dedup!CommitFails, dedupVars
  <2>2. claims \in [Ids -> Dedup!DedupClaim \cup {None}] /\ now \in Nat
    BY DEF IInv, TypeOK, Dedup!TypeOK
  <2>3. ASSUME NEW j \in Ids, Dedup!LeaseHolds(w), claims' = Dedup!Committed(lease[w].id)
        PROVE  ClaimStands(j)
    <3> DEFINE c == [status |-> "committed", timestamp |-> now, token |-> None]
    <3>1. c \in Dedup!DedupClaim /\ c # None /\ ~Dedup!Lapsed(c.timestamp)
      BY <1>1, <2>2, StoreAssumption
      DEF Dedup!DedupClaim, Dedup!Lapsed, Dedup!DeduplicatorAssumption, Dedup!ClaimAbsenceAssumption
    <3>2. IF j = lease[w].id THEN claims[j] # None /\ claims'[j] = c ELSE claims'[j] = claims[j]
      BY <2>2, <2>3 DEF Dedup!Committed, Dedup!LeaseHolds
    <3> HIDE DEF c
    <3> QED  BY <3>1, <3>2 DEF ClaimStands
  <2> QED  BY <2>1, <2>3 DEF ClaimStands
<1>3. \A j \in Ids : LeavesMessage(j)
  BY <1>1, <1>2 DEF LeavesMessage, Spared
<1> QED  BY <1>1, <1>3, QuietStep

\* The first claim on a message is made before anything else happened to it.
LEMMA ReserveInv == ASSUME IInv, NEW w \in Callers, Reserve(w) PROVE InvAfter
<1>0. PICK m \in Ids : m = mail[w]
  BY DEF Reserve, IInv, PlaceInv
<1>1. /\ m = mail[w] /\ pc[w] = "reserve" /\ held[w] = None /\ ~arrived[w]
      /\ UNCHANGED <<now, items, held, arrived, verdict, notified, recordReached>>
      /\ \A v \in Callers \ {w} : LeavesProcess(v)
      /\ mail'[w] \in {m, None}
  BY <1>0 DEF Reserve, Exit, Goto, outboxVars, Dedup!Reserve, Dedup!ReserveRefused, Dedup!ReserveFails,
         IInv, TypeOK, PlaceInv, LeavesProcess
<1>2. /\ claims \in [Ids -> Dedup!DedupClaim \cup {None}] /\ now \in Nat
      /\ lost \in [Ids -> SUBSET Protections]
  BY DEF IInv, TypeOK, Dedup!TypeOK
<1>3. \A j \in Ids : ClaimStands(j) \/ j = m
  BY <1>1, <1>2 DEF Reserve, Dedup!Reserve, Dedup!ReserveRefused, Dedup!ReserveFails, Dedup!Reserved,
              Dedup!Pruned, ClaimStands
<1>4. \A j \in Ids : lost[j] \subseteq lost'[j] /\ (j # m => lost'[j] = lost[j])
  BY <1>1, <1>2 DEF Reserve, Lose
<1>5. \A j \in Ids : j # m => LeavesMessage(j)
  BY <1>1, <1>3, <1>4 DEF LeavesMessage, Spared
<1>6. CASE pc'[w] # "begin"
  <2>1. pc'[w] = "idle" /\ ClaimStands(m)
    BY <1>1, <1>2, <1>6
    DEF Reserve, Exit, Goto, IInv, TypeOK, Dedup!ReserveRefused, Dedup!Pruned, ClaimStands
  <2>2. LeavesMessage(m)
    BY <1>1, <1>4, <2>1 DEF LeavesMessage, Spared
  <2> QED  BY <1>1, <1>5, <2>1, <2>2, QuietStep
<1>7. CASE pc'[w] = "begin"
  <2>1. mail' = mail
    BY <1>1, <1>7 DEF Reserve, Exit, Goto, IInv, TypeOK
  <2>2. MessageInv(m)
    BY <1>1 DEF IInv
  <2>3. CountsAt(m)'
    BY <1>1, <2>2 DEF MessageInv, CountsAt
  <2>4. "outbox" \notin lost'[m] => OutboxAt(m)'
    <3>1. \A v \in Callers : pc'[v] = "send" => pc[v] = "send"
      BY <1>1, <1>7 DEF LeavesProcess
    <3> QED  BY <1>1, <1>4, <2>1, <2>2, <3>1 DEF MessageInv, OutboxAt, Outbox!Expired
  <2>5. ASSUME "dedup" \notin lost'[m]
        PROVE  ClaimAt(m)' /\ WorkAt(m)'
    <3>1. Dedup!Reserve(w, m) /\ "dedup" \notin lost[m]
      BY <1>1, <1>2, <1>4, <1>7, <2>5 DEF Reserve, Exit, Goto, Lose, IInv, TypeOK
    <3>2. claims[m] = None
      BY <1>1, <1>2, <2>2, <3>1 DEF MessageInv, ClaimAt, Dedup!Reserve, Dedup!Pruned
    <3>3. items[m] = None /\ notified[m] = 0 /\ \A v \in Callers : ~Active(v, m)
      BY <2>2, <3>1, <3>2 DEF MessageInv, ClaimAt
    <3>4. \A v \in Callers : Active(v, m)' => v = w
      BY <1>1, <3>3 DEF Active, LeavesProcess
    <3>5. claims'[m] # None /\ ~Dedup!Lapsed(claims'[m].timestamp)
      <4>1. PICK n \in Dedup!FreshTokens : claims' = Dedup!Reserved(m, n)
        BY <3>1 DEF Dedup!Reserve
      <4>2. n \in Nonces
        BY <4>1 DEF Dedup!FreshTokens
      <4> DEFINE c == [status |-> "reserved", timestamp |-> now, token |-> n]
      <4>3. c \in Dedup!DedupClaim /\ c # None /\ ~Dedup!Lapsed(c.timestamp)
        BY <1>2, <4>2, StoreAssumption
        DEF Dedup!DedupClaim, Dedup!Lapsed, Dedup!DeduplicatorAssumption, Dedup!ClaimAbsenceAssumption
      <4>4. claims'[m] = c
        BY <1>1, <4>1 DEF Dedup!Reserved, Dedup!Pruned
      <4> QED  BY <4>3, <4>4
    <3>6. ClaimAt(m)'
      BY <1>1, <3>3, <3>5 DEF ClaimAt, Dedup!Lapsed
    <3>7. WorkAt(m)'
      BY <1>1, <1>7, <3>3, <3>4 DEF WorkAt
    <3> QED  BY <3>6, <3>7
  <2>6. MessageInv(m)'
    BY <2>3, <2>4, <2>5 DEF MessageInv
  <2>7. \A v \in Callers : held'[v] # None => RecordInv(v)'
    <3>1. ASSUME NEW v \in Callers, held'[v] # None
          PROVE  RecordInv(v)'
      <4>1. v # w /\ RecordInv(v) /\ LeavesProcess(v)
        BY <1>1, <3>1 DEF IInv
      <4> QED  BY <1>1, <4>1 DEF RecordInv, UnderItsRecord, LeavesProcess
    <3> QED  BY <3>1
  <2>8. RecordInv(w)'
    BY <1>1 DEF RecordInv, UnderItsRecord
  <2>9. Fated(m)
    BY <1>1 DEF Fated, Unmoved
  <2> QED  BY <1>1, <1>5, <2>6, <2>7, <2>8, <2>9, WorkingStep
<1> QED  BY <1>6, <1>7

(***************************************************************************)
(* A send begins.                                                          *)
(***************************************************************************)
\* A record in flight under a fresh token is nobody else's.
LEMMA FreshRecord ==
  ASSUME IInv, NEW n \in Outbox!FreshNonces, NEW m \in Ids, NEW w \in Callers,
         items'[m] # None, items'[m].token = n, NEW v \in Callers \ {w}, LeavesProcess(v),
         held[v] # None, mail[v] = m
  PROVE  RecordInv(v)'
<1>1. held'[v].token # items'[mail'[v]].token
  BY FreshToken DEF LeavesProcess
<1> QED  BY <1>1 DEF RecordInv, UnderItsRecord

\* What the claim says of the send that begins.
LEMMA SendBegins ==
  ASSUME IInv, NEW w \in Callers, NEW m \in Ids, "dedup" \notin lost'[m], lost[m] \subseteq lost'[m],
         \A v \in Callers \ {w} : LeavesProcess(v),
         UNCHANGED <<now, claims, notified>>, notified[m] = 0,
         claims[m] # None, \A v \in Callers \ {w} : ~Active(v, m),
         pc'[w] = "send", mail'[w] = m, ~arrived'[w],
         items'[m] = None \/ items'[m].state = "in_flight"
  PROVE  ClaimAt(m)' /\ WorkAt(m)'
<1>1. ClaimAt(m)
  BY DEF IInv, MessageInv
<1>2. \A v \in Callers : Active(v, m)' => v = w
  BY DEF Active, LeavesProcess
<1>3. ClaimAt(m)'
  BY <1>1 DEF ClaimAt, Dedup!Lapsed
<1>4. WorkAt(m)'
  BY <1>2 DEF WorkAt
<1> QED  BY <1>3, <1>4

\* Whatever begin() does, the process has the message in hand and the others do not.
LEMMA BeginLeaves ==
  ASSUME IInv, NEW w \in Callers, Begin(w)
  PROVE  /\ mail[w] \in Ids /\ Active(w, mail[w]) /\ pc[w] = "begin"
         /\ held[w] = None /\ ~arrived[w]
         /\ UNCHANGED <<now, claims, mail, arrived, verdict, notified>>
         /\ \A v \in Callers \ {w} : LeavesProcess(v)
         /\ \A j \in Ids : lost[j] \subseteq lost'[j]
<1> USE DEF dedupVars, historyVars
<1>1. /\ mail[w] \in Ids /\ Active(w, mail[w]) /\ pc[w] = "begin" /\ held[w] = None /\ ~arrived[w]
     
  BY DEF Begin, IInv, PlaceInv, Active
<1>2. UNCHANGED <<now, claims, mail, arrived, verdict, notified>>
  BY DEF Begin, Recorded, AlreadyRecorded, SendUntracked, Unrecorded, Outbox!Begin,
         Outbox!BeginRefused, Outbox!BeginFails
<1>3. \A v \in Callers \ {w} : pc'[v] = pc[v] /\ held'[v] = held[v]
  BY DEF Begin, Recorded, AlreadyRecorded, SendUntracked, Unrecorded, StartSend, Goto, Outbox!Begin,
         Outbox!BeginRefused, Outbox!BeginFails, IInv, TypeOK, Outbox!TypeOK
<1>4. \A j \in Ids : lost[j] \subseteq lost'[j]
  BY DEF Begin, Recorded, AlreadyRecorded, SendUntracked, Unrecorded
<1> QED  BY <1>1, <1>2, <1>3, <1>4 DEF LeavesProcess

LEMMA RecordedInv ==
  ASSUME IInv, NEW w \in Callers, Begin(w), Recorded(w, mail[w])
  PROVE  InvAfter
<1>0. PICK m \in Ids : m = mail[w]
  BY BeginLeaves
<1>1. /\ Active(w, m) /\ pc[w] = "begin" /\ pc'[w] = "send" /\ mail'[w] = m
      /\ ~arrived'[w]
      /\ UNCHANGED <<now, claims, mail, arrived, verdict, notified>>
      /\ \A v \in Callers \ {w} : LeavesProcess(v)
      /\ \A j \in Ids : lost[j] \subseteq lost'[j]
  BY <1>0, BeginLeaves DEF Recorded, StartSend, Goto, IInv, TypeOK
<1>2. PICK n \in Outbox!FreshNonces :
        /\ items' \in Outbox!Insertions(Outbox!Live, m, Outbox!InFlight(n, now))
        /\ held' = [held EXCEPT ![w] = [id |-> m, token |-> n, born |-> now]]
  BY <1>0 DEF Recorded, Outbox!Begin
<1>3. Outbox!Live[m] = None /\ \A i \in EvictedBy(m) : "outbox" \in lost'[i]
  BY <1>0 DEF Recorded, Outbox!Begin, EvictedBy
<1>4. /\ items'[m] = Outbox!InFlight(n, now) /\ items'[m] # None
      /\ \A j \in Ids \ {m} : Spared(j)
  BY <1>2, <1>3, Insertion
<1>5. items'[m].state = "in_flight" /\ items'[m].token = n /\ items'[m].created = now
  BY <1>4 DEF Outbox!InFlight
<1>6. recordReached'[m] = 0 /\ \A j \in Ids \ {m} : recordReached'[j] = recordReached[j]
  BY <1>0 DEF Recorded, IInv, TypeOK
<1>7. held'[w] = [id |-> m, token |-> n, born |-> now] /\ held'[w] # None
  <2>1. [id |-> m, token |-> n, born |-> now] \in Outbox!Claim
    BY FreshToken DEF Outbox!Claim, IInv, TypeOK, Outbox!TypeOK
  <2> QED
    BY <1>2, <2>1, StoreAssumption DEF IInv, TypeOK, Outbox!TypeOK, Outbox!AbsenceAssumption
<1>8. MessageInv(m) /\ now \in Nat
  BY DEF IInv, TypeOK, Outbox!TypeOK
<1>9. ~Outbox!Expired(now)
  BY <1>8, StoreAssumption DEF Outbox!Expired, Outbox!OutboxAssumption
<1>10. ASSUME "outbox" \notin lost'[m]
       PROVE  OutboxAt(m)'
  <2>1. OutboxAt(m)
    BY <1>1, <1>8, <1>10 DEF MessageInv
  <2>2. items[m] = None /\ notified[m] = 0
    BY <1>3, <2>1, LiveKeeps DEF OutboxAt, IInv
  <2>3. \A v \in Callers \ {w} : ~(pc[v] = "send" /\ mail[v] = m)
    BY <2>1, <2>2, Holding DEF OutboxAt, UnderItsRecord
  <2>4. \A v \in Callers : pc'[v] = "send" /\ mail'[v] = m => v = w
    BY <1>1, <2>3 DEF LeavesProcess
  <2> QED
    BY <1>1, <1>4, <1>5, <1>6, <1>7, <1>9, <2>2, <2>4 DEF OutboxAt, Outbox!Expired
<1>11. ASSUME "dedup" \notin lost'[m]
       PROVE  ClaimAt(m)' /\ WorkAt(m)'
  <2>1. ClaimAt(m) /\ WorkAt(m)
    BY <1>1, <1>8, <1>11 DEF MessageInv
  <2>2. claims[m] # None /\ notified[m] = 0 /\ \A v \in Callers \ {w} : ~Active(v, m)
    BY <1>1, <2>1 DEF ClaimAt, WorkAt
  <2> QED  BY <1>1, <1>5, <1>11, <2>2, SendBegins
<1>12. MessageInv(m)'
  BY <1>5, <1>6, <1>10, <1>11 DEF MessageInv, CountsAt
<1>13. RecordInv(w)'
  BY <1>1, <1>6 DEF RecordInv
<1>14. \A v \in Callers \ {w} : held[v] # None /\ mail[v] = m => RecordInv(v)'
  BY <1>1, <1>4, <1>5, FreshRecord
<1>15. \A j \in Ids \ {m} : LeavesMessage(j)
  BY <1>1, <1>4, <1>6 DEF LeavesMessage, ClaimStands
<1>16. Fated(m)
  BY <1>3, <1>4, <1>5, <1>6, LiveKeeps DEF Fated, Begun, IInv
<1> QED  BY <1>1, <1>12, <1>13, <1>14, <1>15, <1>16, WorkingStep

LEMMA AlreadyRecordedInv ==
  ASSUME IInv, NEW w \in Callers, Begin(w), AlreadyRecorded(w, mail[w])
  PROVE  InvAfter
<1>1. /\ pc'[w] = "commit" /\ held'[w] = None
      /\ UNCHANGED <<now, claims, notified, recordReached, lost>>
      /\ \A v \in Callers \ {w} : LeavesProcess(v)
  BY BeginLeaves DEF AlreadyRecorded, Outbox!BeginRefused, Goto, IInv, TypeOK
<1>2. \A j \in Ids : Spared(j)
  BY LiveKeeps DEF AlreadyRecorded, Outbox!BeginRefused, Spared, IInv
<1>3. \A j \in Ids : LeavesMessage(j)
  BY <1>1, <1>2 DEF LeavesMessage, ClaimStands
<1> QED  BY <1>1, <1>3, QuietStep

\* A message that is sent untracked has lost its record.
LEMMA UnrecordedInv ==
  ASSUME IInv, NEW w \in Callers, Begin(w), Unrecorded(w, mail[w])
  PROVE  InvAfter
<1>0. PICK m \in Ids : m = mail[w]
  BY BeginLeaves
<1>1. /\ Active(w, m) /\ pc[w] = "begin" /\ pc'[w] = "send" /\ mail'[w] = m
      /\ held'[w] = None /\ ~arrived'[w]
      /\ UNCHANGED <<now, claims, mail, held, arrived, verdict, notified>>
      /\ \A v \in Callers \ {w} : LeavesProcess(v)
      /\ \A j \in Ids : lost[j] \subseteq lost'[j]
  BY <1>0, BeginLeaves DEF Unrecorded, Outbox!BeginFails, StartSend, Goto, IInv, TypeOK
<1>2. "outbox" \in lost'[m] /\ \A i \in EvictedBy(m) : "outbox" \in lost'[i]
  BY <1>0 DEF Unrecorded, EvictedBy
<1>3. recordReached'[m] = IF items'[m] # None /\ items'[m] # items[m] THEN 0 ELSE recordReached[m]
  BY <1>0 DEF Unrecorded, IInv, TypeOK
<1>4. \A j \in Ids \ {m} : recordReached'[j] = recordReached[j]
  BY <1>0 DEF Unrecorded, IInv, TypeOK
<1>5. MessageInv(m)
  BY DEF IInv
<1>6. /\ \A j \in Ids \ {m} : Spared(j)
      /\ CountsAt(m)'
      /\ items'[m] = items[m] \/ items'[m].state = "in_flight"
      /\ Fated(m)
      /\ \A v \in Callers \ {w} : held[v] # None /\ mail[v] = m => RecordInv(v)'
  <2>1. CASE UNCHANGED items
    <3>1. \A v \in Callers \ {w} : RecordInv(v)'
      BY <1>1, <1>3, <1>4, <2>1 DEF RecordInv, UnderItsRecord, LeavesProcess, IInv, PlaceInv
    <3> QED  BY <1>3, <1>5, <2>1, <3>1 DEF Spared, MessageInv, CountsAt, Fated, Unmoved
  <2>2. CASE Outbox!Live[m] = None /\ \E n \in Outbox!FreshNonces :
               items' \in Outbox!Insertions(Outbox!Live, m, Outbox!InFlight(n, now))
    <3>1. PICK n \in Outbox!FreshNonces :
            items' \in Outbox!Insertions(Outbox!Live, m, Outbox!InFlight(n, now))
      BY <2>2
    <3>2. /\ items'[m] = Outbox!InFlight(n, now) /\ items'[m] # None
          /\ \A j \in Ids \ {m} : Spared(j)
      BY <1>2, <2>2, <3>1, Insertion
    <3>3. items'[m].state = "in_flight" /\ items'[m].token = n
      BY <3>2 DEF Outbox!InFlight
    <3>4. CountsAt(m)'
      BY <1>3, <1>5, <3>3 DEF CountsAt, MessageInv
    <3>5. Fated(m)
      BY <1>3, <2>2, <3>2, <3>3, LiveKeeps DEF Fated, Unmoved, Begun, IInv
    <3> QED  BY <1>1, <3>2, <3>3, <3>4, <3>5, FreshRecord
  <2> QED  BY <1>0, <2>1, <2>2 DEF Unrecorded, Outbox!BeginFails
<1>7. ASSUME "dedup" \notin lost'[m]
      PROVE  ClaimAt(m)' /\ WorkAt(m)'
  <2>1. ClaimAt(m) /\ WorkAt(m)
    BY <1>1, <1>5, <1>7 DEF MessageInv
  <2>2. /\ claims[m] # None /\ notified[m] = 0 /\ items[m] = None
        /\ \A v \in Callers \ {w} : ~Active(v, m)
    BY <1>1, <2>1 DEF ClaimAt, WorkAt
  <2> QED  BY <1>1, <1>6, <1>7, <2>2, SendBegins
<1>8. MessageInv(m)'
  BY <1>2, <1>6, <1>7 DEF MessageInv
<1>9. RecordInv(w)'
  BY <1>1 DEF RecordInv, UnderItsRecord
<1>10. \A j \in Ids \ {m} : LeavesMessage(j)
  BY <1>1, <1>4, <1>6 DEF LeavesMessage, ClaimStands
<1> QED  BY <1>1, <1>6, <1>8, <1>9, <1>10, WorkingStep

LEMMA BeginInv == ASSUME IInv, NEW w \in Callers, Begin(w) PROVE InvAfter
  BY RecordedInv, AlreadyRecordedInv, UnrecordedInv DEF Begin, SendUntracked

\* A pending record is taken only as the operator saw it, and nobody works on its message.
LEMMA Claiming ==
  ASSUME IInv, NEW o \in Callers, NEW m \in Ids, selection[o] # None, m = selection[o].id,
         Outbox!Claimable(selection[o]),
         NEW n \in Outbox!FreshNonces, items' = Outbox!Claimed(selection[o], n)
  PROVE  /\ items'[m] # None /\ items'[m].state = "in_flight" /\ items'[m].token = n
         /\ items[m] # None /\ items[m].state = "pending"
         /\ items'[m].created = items[m].created /\ Outbox!Live[m] = items[m]
         /\ \A j \in Ids \ {m} : Spared(j)
<1> DEFINE item == [Outbox!Live[m] EXCEPT !.state = "in_flight", !.token = n, !.rev = n]
<1>1. /\ Outbox!Live[m] # None /\ Outbox!Live[m].state = "pending" /\ Outbox!Live[m] = items[m]
      /\ items[m] \in Outbox!Item
  BY LiveKeeps DEF Outbox!Claimable, IInv, TypeOK, Outbox!TypeOK
<1>2. item \in Outbox!Item /\ item.state = "in_flight" /\ item.token = n
      /\ item.created = items[m].created
  BY <1>1, FreshToken DEF Outbox!Item, Outbox!States
<1>3. item # None
  BY <1>2, StoreAssumption DEF Outbox!AbsenceAssumption
<1>4. items'[m] = item /\ \A j \in Ids \ {m} : items'[j] = Outbox!Live[j]
  BY DEF Outbox!Claimed, Outbox!Live
<1> HIDE DEF item
<1>5. \A j \in Ids \ {m} : Spared(j)
  BY <1>4, LiveKeeps DEF Spared, IInv
<1> QED  BY <1>1, <1>2, <1>3, <1>4, <1>5

LEMMA RetryInv == ASSUME IInv, NEW o \in Callers, Retry(o) PROVE InvAfter
<1>1. /\ pc[o] = "retry" /\ held[o] = None /\ ~arrived[o]
      /\ UNCHANGED <<now, claims, arrived, verdict, notified, recordReached, lost>>
      /\ \A v \in Callers \ {o} : LeavesProcess(v)
  BY DEF Retry, StartSend, Exit, Goto, Outbox!ClaimSelected, Outbox!ClaimFails, dedupVars,
         IInv, TypeOK, Outbox!TypeOK, PlaceInv, LeavesProcess
<1>2. selection[o] # None /\ selection[o] \in Outbox!Row
  BY DEF Retry, Outbox!ClaimSelected, Outbox!ClaimFails, IInv, TypeOK, Outbox!TypeOK
<1>3. PICK m \in Ids : m = selection[o].id
  BY <1>2 DEF Outbox!Row
<1>4. MessageInv(m)
  BY DEF IInv
<1>5. CASE UNCHANGED items /\ Outbox!ClaimFails(o) /\ Exit(o)
  <2>1. pc'[o] = "idle" /\ held'[o] = None
    BY <1>1, <1>5 DEF Exit, Goto, Outbox!ClaimFails, IInv, TypeOK
  <2>2. \A j \in Ids : LeavesMessage(j)
    BY <1>1, <1>5 DEF LeavesMessage, ClaimStands, Spared
  <2> QED  BY <1>1, <2>1, <2>2, QuietStep
<1>6. ASSUME NEW n \in Outbox!FreshNonces, Outbox!Claimable(selection[o]),
             items' = Outbox!Claimed(selection[o], n),
             \/ /\ pc'[o] = "idle" /\ mail'[o] = None /\ held'[o] = None
             \/ /\ pc'[o] = "send" /\ mail'[o] = m /\ held'[o] # None
                /\ held'[o].token = n /\ held'[o].born = Outbox!Live[m].created
      PROVE  InvAfter
  <2>1. /\ items'[m] # None /\ items'[m].state = "in_flight" /\ items'[m].token = n
        /\ items[m] # None /\ items[m].state = "pending"
        /\ items'[m].created = items[m].created /\ Outbox!Live[m] = items[m]
        /\ \A j \in Ids \ {m} : Spared(j)
    BY <1>2, <1>3, <1>6, Claiming
  <2>2. CountsAt(m)' /\ recordReached'[m] = 0
    BY <1>1, <1>4, <2>1 DEF MessageInv, CountsAt
  <2>3. ASSUME "outbox" \notin lost'[m]
        PROVE  OutboxAt(m)'
    BY <1>1, <1>4, <1>6, <2>1, <2>3 DEF MessageInv, OutboxAt, Outbox!Expired, LeavesProcess
  <2>4. ASSUME "dedup" \notin lost'[m]
        PROVE  ClaimAt(m)' /\ WorkAt(m)'
    <3>1. ClaimAt(m) /\ WorkAt(m)
      BY <1>1, <1>4, <2>4 DEF MessageInv
    <3>2. claims[m] # None /\ notified[m] = 0 /\ \A v \in Callers : ~Active(v, m)
      BY <2>1, <3>1 DEF ClaimAt, WorkAt
    <3>3. \A v \in Callers : Active(v, m)' => v = o
      BY <1>1, <3>2 DEF Active, LeavesProcess
    <3>4. ClaimAt(m)'
      BY <1>1, <2>1, <3>1, <3>2 DEF ClaimAt, Dedup!Lapsed
    <3>5. WorkAt(m)'
      BY <1>1, <1>6, <2>1, <3>2, <3>3 DEF WorkAt, Active
    <3> QED  BY <3>4, <3>5
  <2>5. MessageInv(m)'
    BY <2>2, <2>3, <2>4 DEF MessageInv
  <2>6. RecordInv(o)'
    BY <1>1, <1>6, <2>2 DEF RecordInv, UnderItsRecord
  <2>7. \A v \in Callers \ {o} : held[v] # None /\ mail[v] = m => RecordInv(v)'
    BY <1>1, <2>1, FreshRecord
  <2>8. \A j \in Ids \ {m} : LeavesMessage(j)
    BY <1>1, <2>1 DEF LeavesMessage, ClaimStands
  <2>9. Fated(m)
    BY <1>1, <2>1, <2>2 DEF Fated, Moved
  <2> QED  BY <1>1, <1>6, <2>5, <2>6, <2>7, <2>8, <2>9, WorkingStep
<1>7. CASE Outbox!ClaimSelected(o) /\ StartSend(o, m) /\ mail' = [mail EXCEPT ![o] = m]
  <2>1. PICK n \in Outbox!FreshNonces :
          /\ items' = Outbox!Claimed(selection[o], n)
          /\ held' = [held EXCEPT ![o] = [id |-> m, token |-> n, born |-> Outbox!Live[m].created]]
    BY <1>3, <1>7 DEF Outbox!ClaimSelected
  <2>2. Outbox!Claimable(selection[o])
    BY <1>7 DEF Outbox!ClaimSelected
  <2>3. Outbox!Live[m].created \in Nat
    BY <1>2, <1>3, <2>1, <2>2, Claiming, StoreAssumption
    DEF IInv, TypeOK, Outbox!TypeOK, Outbox!Item
  <2>4. [id |-> m, token |-> n, born |-> Outbox!Live[m].created] \in Outbox!Claim
    BY <2>1, <2>3, FreshToken DEF Outbox!Claim
  <2>5. /\ pc'[o] = "send" /\ mail'[o] = m /\ held'[o] # None
        /\ held'[o].token = n /\ held'[o].born = Outbox!Live[m].created
    BY <1>7, <2>1, <2>4, StoreAssumption
    DEF StartSend, Goto, IInv, TypeOK, Outbox!TypeOK, Outbox!AbsenceAssumption
  <2> QED  BY <1>6, <2>1, <2>2, <2>5
<1>8. CASE Outbox!ClaimFails(o) /\ Exit(o) /\ Outbox!Claimable(selection[o])
           /\ \E n \in Outbox!FreshNonces : items' = Outbox!Claimed(selection[o], n)
  <2>1. pc'[o] = "idle" /\ mail'[o] = None /\ held'[o] = None
    BY <1>1, <1>8 DEF Exit, Goto, Outbox!ClaimFails, IInv, TypeOK
  <2> QED  BY <1>6, <1>8, <2>1
<1> QED  BY <1>3, <1>5, <1>7, <1>8 DEF Retry, Outbox!ClaimFails

(***************************************************************************)
(* A send goes on and ends.                                                *)
(***************************************************************************)
LEMMA ReachInv == ASSUME IInv, NEW w \in Callers, Reach(w) PROVE InvAfter
<1>0. PICK m \in Ids : m = mail[w]
  BY DEF Reach, IInv, PlaceInv
<1>1. /\ pc[w] = "send" /\ ~arrived[w] /\ arrived'[w] = TRUE
      /\ UNCHANGED <<now, items, held, claims, pc, mail, verdict, lost>>
      /\ \A v \in Callers \ {w} : LeavesProcess(v)
      /\ notified' = [notified EXCEPT ![m] = Increment(@)]
  BY <1>0 DEF Reach, storeVars, LeavesProcess, IInv, TypeOK
<1>2. MessageInv(m) /\ RecordInv(w) /\ notified[m] \in 0..2 /\ recordReached[m] \in 0..2
     
  BY <1>1 DEF IInv, TypeOK, PlaceInv
<1>3. notified'[m] = Increment(notified[m]) /\ \A j \in Ids \ {m} : notified'[j] = notified[j]
  BY <1>1 DEF IInv, TypeOK
<1>4. IF UnderItsRecord(w)
      THEN /\ recordReached[m] = 0 /\ recordReached'[m] = 1
           /\ \A j \in Ids \ {m} : recordReached'[j] = recordReached[j]
      ELSE UNCHANGED recordReached
  BY <1>0, <1>1, <1>2 DEF Reach, RecordInv, Increment, IInv, TypeOK
<1>5. UnderItsRecord(w) => items[m] # None /\ items[m].state = "in_flight"
  BY <1>0, TokensAreNames DEF UnderItsRecord, IInv, TypeOK, Outbox!TypeOK, Outbox!Stored
<1>6. CountsAt(m)'
  BY <1>1, <1>2, <1>4, <1>5 DEF CountsAt, MessageInv
<1>7. ASSUME "outbox" \notin lost'[m]
      PROVE  OutboxAt(m)'
  <2>1. OutboxAt(m)
    BY <1>1, <1>2, <1>7 DEF MessageInv
  <2>2. UnderItsRecord(w)
    BY <1>0, <1>1, <2>1, Holding DEF OutboxAt
  <2>3. notified[m] = 0
    BY <1>2, <1>4, <1>5, <2>1, <2>2 DEF OutboxAt
  <2> QED
    BY <1>1, <1>3, <1>4, <1>5, <2>1, <2>2, <2>3 DEF OutboxAt, Increment, Outbox!Expired
<1>8. ASSUME "dedup" \notin lost'[m]
      PROVE  ClaimAt(m)' /\ WorkAt(m)'
  <2>1. ClaimAt(m) /\ WorkAt(m)
    BY <1>1, <1>2, <1>8 DEF MessageInv
  <2>2. Active(w, m)
    BY <1>0, <1>1 DEF Active
  <2>3. /\ notified'[m] = 1 /\ claims[m] # None
        /\ items[m] = None \/ items[m].state = "in_flight"
        /\ \A v \in Callers : Active(v, m) => v = w
    BY <1>1, <1>2, <1>3, <2>1, <2>2 DEF ClaimAt, WorkAt, Increment
  <2>4. ClaimAt(m)'
    BY <1>1, <2>1, <2>3 DEF ClaimAt, Dedup!Lapsed
  <2>5. WorkAt(m)'
    BY <1>1, <1>2, <2>3 DEF WorkAt, Active
  <2> QED  BY <2>4, <2>5
<1>9. MessageInv(m)'
  BY <1>6, <1>7, <1>8 DEF MessageInv
<1>10. RecordInv(w)'
  BY <1>0, <1>1, <1>2, <1>4 DEF RecordInv, UnderItsRecord
<1>11. \A v \in Callers \ {w} : held[v] # None /\ mail[v] = m => RecordInv(v)'
  <2>1. ASSUME NEW v \in Callers \ {w}, held[v] # None, mail[v] = m, UnderItsRecord(v)
        PROVE  ~UnderItsRecord(w)
    BY <1>0, <2>1, TokensAreNames DEF UnderItsRecord
  <2>2. \A v \in Callers : RecordInv(v)
    BY DEF IInv
  <2> QED  BY <1>1, <1>4, <2>1, <2>2 DEF RecordInv, UnderItsRecord, LeavesProcess
<1>12. \A j \in Ids \ {m} : LeavesMessage(j)
  BY <1>1, <1>3, <1>4 DEF LeavesMessage, ClaimStands, Spared
<1>13. Fated(m)
  BY <1>1, <1>4, <1>5 DEF Fated, Unmoved, Moved
<1> QED  BY <1>0, <1>1, <1>9, <1>10, <1>11, <1>12, <1>13, WorkingStep

LEMMA SendReturnsInv ==
  ASSUME IInv, NEW w \in Callers, NEW r \in Verdicts, SendReturns(w, r)
  PROVE  InvAfter
<1>0. PICK m \in Ids : m = mail[w]
  BY DEF SendReturns, IInv, PlaceInv
<1>1. /\ pc[w] = "send" /\ pc'[w] = "finish" /\ verdict'[w] = r /\ (r = "rejected" => ~arrived[w])
      /\ (r = "success" => arrived[w])
      /\ UNCHANGED <<now, items, held, claims, mail, notified, recordReached, lost>>
      /\ \A v \in Callers \ {w} : LeavesProcess(v)
  BY DEF SendReturns, Goto, storeVars, historyVars, LeavesProcess, IInv, TypeOK
<1>2. MessageInv(m) /\ RecordInv(w)
  BY DEF IInv
<1>3. CountsAt(m)'
  BY <1>1, <1>2 DEF CountsAt, MessageInv
<1>4. ASSUME "outbox" \notin lost'[m]
      PROVE  OutboxAt(m)'
  <2>1. \A v \in Callers : pc'[v] = "send" => pc[v] = "send"
    BY <1>1 DEF LeavesProcess
  <2> QED  BY <1>1, <1>2, <1>4, <2>1 DEF MessageInv, OutboxAt, Outbox!Expired
<1>5. ASSUME "dedup" \notin lost'[m]
      PROVE  ClaimAt(m)' /\ WorkAt(m)'
  <2>1. ClaimAt(m) /\ WorkAt(m) /\ Active(w, m)
    BY <1>0, <1>1, <1>2, <1>5 DEF MessageInv, Active
  <2>2. \A v \in Callers : Active(v, m)' <=> v = w
    BY <1>0, <1>1, <2>1 DEF Active, LeavesProcess, WorkAt
  <2>3. ClaimAt(m)'
    BY <1>1, <2>1 DEF ClaimAt, Dedup!Lapsed
  <2>4. WorkAt(m)'
    BY <1>1, <2>1, <2>2 DEF WorkAt
  <2> QED  BY <2>3, <2>4
<1>6. MessageInv(m)'
  BY <1>3, <1>4, <1>5 DEF MessageInv
<1>7. RecordInv(w)'
  BY <1>0, <1>1, <1>2 DEF RecordInv, UnderItsRecord
<1>8. \A j \in Ids : LeavesMessage(j)
  BY <1>1 DEF LeavesMessage, ClaimStands, Spared
<1>9. \A v \in Callers \ {w} : held[v] # None /\ mail[v] = m => RecordInv(v)'
  BY <1>1, <1>8, LeftProcess
<1>10. Fated(m)
  BY <1>1 DEF Fated, Unmoved
<1> QED  BY <1>0, <1>1, <1>6, <1>7, <1>8, <1>9, <1>10, WorkingStep

\* Only a rejection of the whole leaves a record that can be sent again.
LEMMA FinishInv == ASSUME IInv, NEW w \in Callers, Finish(w) PROVE InvAfter
<1>0. PICK m \in Ids : m = mail[w]
  BY DEF Finish, IInv, PlaceInv
<1>1. /\ pc[w] = "finish" /\ pc'[w] \in {"commit", "idle"} /\ mail'[w] \in {m, None}
      /\ held'[w] = None /\ (held[w] # None => held[w].id = m)
      /\ UNCHANGED <<now, claims, notified, recordReached, lost>>
      /\ \A v \in Callers \ {w} : LeavesProcess(v)
  BY <1>0 DEF Finish, Outbox!Finish, Outbox!FinishFails, Exit, Goto, outboxVars, dedupVars,
              historyVars, LeavesProcess, IInv, TypeOK, Outbox!TypeOK, PlaceInv
<1>2. CASE UNCHANGED items
  <2>1. \A j \in Ids : LeavesMessage(j)
    BY <1>1, <1>2 DEF LeavesMessage, ClaimStands, Spared
  <2> QED  BY <1>1, <2>1, QuietStep
<1>3. CASE held[w] # None /\ Outbox!Owns(w) /\ \E n \in Outbox!FreshNonces :
             items' = Outbox!Outcome(w, OutcomeOf[verdict[w]], n)
  <2>1. PICK n \in Outbox!FreshNonces : items' = Outbox!Outcome(w, OutcomeOf[verdict[w]], n)
    BY <1>3
  <2> DEFINE s == OutcomeOf[verdict[w]]
             item == [Outbox!Live[m] EXCEPT !.state = s, !.token = None, !.rev = n]
  <2>2. /\ Outbox!Live[m] = items[m] /\ items[m] # None /\ items[m] \in Outbox!Item
        /\ items[m].state = "in_flight" /\ UnderItsRecord(w)
    BY <1>0, <1>1, <1>3, LiveKeeps DEF Outbox!Owns, IInv, TypeOK, Outbox!TypeOK, UnderItsRecord
  <2>3. /\ s \in {"delivered", "pending", "review_only"}
        /\ s = "pending" => verdict[w] = "rejected"
        /\ s = "delivered" => verdict[w] = "success"
    BY <1>1 DEF OutcomeOf, Verdicts, IInv, PlaceInv
  <2>4. item \in Outbox!Item
    BY <2>1, <2>2, <2>3, FreshToken DEF Outbox!Item, Outbox!States
  <2>5. item.state = s /\ item.token = None /\ item.created = items[m].created
    BY <2>2 DEF Outbox!Item
  <2>6. item # None
    BY <2>4, StoreAssumption DEF Outbox!AbsenceAssumption
  <2>7. items'[m] = item /\ \A j \in Ids \ {m} : items'[j] = Outbox!Live[j]
    BY <1>1, <1>3, <2>1 DEF Outbox!Outcome, Outbox!Live
  <2>8. /\ items'[m] # None /\ items'[m].token = None /\ items'[m].created = items[m].created
        /\ items'[m].state = "pending" => verdict[w] = "rejected"
        /\ items'[m].state = "delivered" => verdict[w] = "success"
        /\ items'[m].state \in {"delivered", "pending", "review_only"}
    BY <2>3, <2>5, <2>6, <2>7
  <2> HIDE DEF item, s
  <2>9. MessageInv(m) /\ RecordInv(w)
    BY DEF IInv
  <2>10. CountsAt(m)'
    BY <1>0, <1>1, <2>2, <2>8, <2>9 DEF CountsAt, MessageInv, RecordInv
  <2>11. ASSUME "outbox" \notin lost'[m]
         PROVE  OutboxAt(m)'
    <3>1. \A v \in Callers : pc'[v] = "send" => v # w
      BY <1>1
    <3> QED
      BY <1>1, <2>2, <2>8, <2>9, <2>11, <3>1 DEF MessageInv, OutboxAt, Outbox!Expired, LeavesProcess
  <2>12. ASSUME "dedup" \notin lost'[m]
         PROVE  ClaimAt(m)' /\ WorkAt(m)'
    <3>1. ClaimAt(m) /\ WorkAt(m) /\ Active(w, m)
      BY <1>0, <1>1, <2>9, <2>12 DEF MessageInv, Active
    <3>2. \A v \in Callers : ~Active(v, m)'
      BY <1>1, <3>1 DEF Active, LeavesProcess, WorkAt
    <3>3. ClaimAt(m)'
      BY <1>1, <2>8, <3>1 DEF ClaimAt, WorkAt, Dedup!Lapsed
    <3> QED  BY <3>2, <3>3 DEF WorkAt
  <2>13. MessageInv(m)'
    BY <2>10, <2>11, <2>12 DEF MessageInv
  <2>14. RecordInv(w)'
    BY <1>1 DEF RecordInv, UnderItsRecord
  <2>15. \A v \in Callers \ {w} : held[v] # None /\ mail[v] = m => RecordInv(v)'
    BY <1>1, <2>8, TokensAreNames DEF RecordInv, UnderItsRecord, LeavesProcess
  <2>16. \A j \in Ids \ {m} : LeavesMessage(j)
    BY <1>1, <2>7, LiveKeeps DEF LeavesMessage, ClaimStands, Spared, IInv
  <2>17. Fated(m)
    BY <1>0, <1>1, <2>2, <2>8, <2>9 DEF Fated, Moved, RecordInv
  <2> QED  BY <1>1, <2>13, <2>14, <2>15, <2>16, <2>17, WorkingStep
<1> QED  BY <1>2, <1>3 DEF Finish, Outbox!Finish, Outbox!FinishFails, outboxVars

\* Time takes away a protection only where the message is told.
LEMMA TickInv == ASSUME IInv, Tick PROVE InvAfter
<1>1. /\ UNCHANGED <<items, held, claims, pc, mail, verdict, arrived, notified, recordReached>>
      /\ now' = now + 1
      /\ \A i \in Ids : lost'[i] = lost[i] \cup LapsedAt(now + 1, i)
  BY DEF Tick, Outbox!Tick, dedupVars
<1>2. \A v \in Callers : RecordInv(v)'
  BY <1>1 DEF IInv, RecordInv, UnderItsRecord
<1>3. ASSUME NEW i \in Ids
      PROVE  MessageInv(i)'
  <2>1. MessageInv(i)
    BY DEF IInv
  <2>2. CountsAt(i)'
    BY <1>1, <2>1 DEF MessageInv, CountsAt
  <2>3. ASSUME "outbox" \notin lost'[i]
        PROVE  OutboxAt(i)'
    <3>1. OutboxAt(i) /\ "outbox" \notin LapsedAt(now + 1, i)
      BY <1>1, <2>1, <2>3 DEF MessageInv
    <3>2. items[i] # None => ~Outbox!Expired(items[i].created)'
      BY <1>1, <3>1 DEF LapsedAt, Outbox!Expired, Protections
    <3>3. ASSUME NEW v \in Callers, pc[v] = "send", mail[v] = i
          PROVE  held[v] # None /\ ~Outbox!Expired(held[v].born)'
      <4>1. held[v] # None /\ items[i] # None /\ items[i].created = held[v].born
        BY <3>1, <3>3, Holding DEF OutboxAt, UnderItsRecord
      <4> QED  BY <1>1, <3>2, <4>1 DEF Outbox!Expired
    <3> QED  BY <1>1, <3>1, <3>2, <3>3 DEF OutboxAt
  <2>4. ASSUME "dedup" \notin lost'[i]
        PROVE  ClaimAt(i)' /\ WorkAt(i)'
    <3>1. ClaimAt(i) /\ WorkAt(i) /\ "dedup" \notin LapsedAt(now + 1, i)
      BY <1>1, <2>1, <2>4 DEF MessageInv
    <3>2. claims[i] # None => ~Dedup!Lapsed(claims[i].timestamp)'
      BY <1>1, <3>1 DEF LapsedAt, Dedup!Lapsed, Protections
    <3>3. ClaimAt(i)'
      BY <1>1, <3>1, <3>2 DEF ClaimAt, Active
    <3> QED  BY <1>1, <3>1, <3>3 DEF WorkAt, Active
  <2> QED  BY <2>2, <2>3, <2>4 DEF MessageInv
<1>4. ASSUME NEW i \in Ids
      PROVE  Fate(i)
  <2>1. /\ PhaseOf(items'[i]) = PhaseOf(items[i]) /\ recordReached'[i] = recordReached[i]
        /\ items[i] # None /\ Outbox!Expired(items[i].created)
             => items'[i] # None /\ Outbox!Expired(items[i].created)'
    BY <1>1, StoreAssumption
    DEF Outbox!Expired, IInv, TypeOK, Outbox!TypeOK, Outbox!Item, Outbox!OutboxAssumption
  <2> QED
    BY <1>1, <2>1 DEF Fate, Notification!Stays, Notification!Keeps, Notification!ExpiryIsFinal,
                            Outbox!Expired
<1> QED  BY <1>2, <1>3, <1>4 DEF InvAfter

(***************************************************************************)
(* Types and places.                                                       *)
(***************************************************************************)
OwnTypes ==
  /\ pc \in [Callers -> Steps]
  /\ mail \in [Callers -> Ids \cup {None}]
  /\ verdict \in [Callers -> Verdicts \cup {None}]
  /\ arrived \in [Callers -> BOOLEAN]
  /\ notified \in [Ids -> 0..2]
  /\ recordReached \in [Ids -> 0..2]
  /\ lost \in [Ids -> SUBSET Protections]
  /\ settled \in SUBSET Ids

Typed == OwnTypes /\ PlaceInv

LEMMA DeliveryTyped ==
  ASSUME IInv, NEW w \in Callers, Reserve(w) \/ EndBeforeSend(w) \/ Begin(w) \/ Commit(w)
  PROVE  Typed'
<1> USE DEF Typed, OwnTypes, PlaceInv, IInv, TypeOK, Steps, Goto, storeVars, outboxVars, dedupVars,
            historyVars, Protections
<1>1. mail[w] \in Ids /\ w \in Deliveries /\ held[w] = None
  BY DEF Reserve, EndBeforeSend, Begin, Commit
<1>2. CASE Reserve(w)
  BY <1>1, <1>2
  DEF Reserve, Exit, Lose, Dedup!Reserve, Dedup!ReserveRefused, Dedup!ReserveFails
<1>3. CASE EndBeforeSend(w)
  BY <1>1, <1>3 DEF EndBeforeSend
<1>4. CASE Begin(w)
  <2>1. OwnTypes'
    BY <1>1, <1>4
    DEF Begin, Recorded, AlreadyRecorded, SendUntracked, Unrecorded, StartSend
  <2>2. /\ UNCHANGED <<mail, verdict, arrived>> /\ pc[w] = "begin" /\ ~arrived[w]
        /\ \/ pc'[w] = "send"
           \/ pc'[w] = "commit" /\ held' = held
        /\ \A v \in Callers \ {w} : pc'[v] = pc[v]
    BY <1>4
    DEF Begin, Recorded, AlreadyRecorded, Unrecorded, SendUntracked, StartSend, Outbox!BeginRefused
  <2>3. /\ \A v \in Callers \ {w} : held'[v] = held[v]
        /\ held'[w] # None => held'[w].id = mail[w]
    <3>1. \/ held' = held
          \/ \E n : held' = [held EXCEPT ![w] = [id |-> mail[w], token |-> n, born |-> now]]
      BY <1>4
      DEF Begin, Recorded, AlreadyRecorded, Unrecorded, SendUntracked, Outbox!Begin,
          Outbox!BeginRefused, Outbox!BeginFails
    <3> QED  BY <1>1, <3>1 DEF Outbox!TypeOK
  <2>4. PlaceInv
    OBVIOUS
  <2>5. PlaceInv'
    BY <1>1, <2>2, <2>3, <2>4
  <2> QED  BY <2>1, <2>5
<1>5. CASE Commit(w)
  BY <1>1, <1>5 DEF Commit, Exit
<1> QED  BY <1>2, <1>3, <1>4, <1>5

LEMMA SendingTyped ==
  ASSUME IInv, NEW w \in Callers,
         Reach(w) \/ Finish(w) \/ \E v \in Verdicts : SendReturns(w, v)
  PROVE  Typed'
<1> USE DEF Typed, OwnTypes, PlaceInv, IInv, TypeOK, Steps, Goto, storeVars, outboxVars, dedupVars,
            historyVars, Increment
<1>1. mail[w] \in Ids
  BY DEF Reach, Finish, SendReturns
<1>2. CASE Reach(w)
  BY <1>1, <1>2 DEF Reach
<1>3. CASE Finish(w)
  BY <1>1, <1>3, MailDeliveryAssumption
  DEF Finish, Exit, Outbox!Finish, Outbox!FinishFails, Outbox!TypeOK, Callers
<1>4. ASSUME NEW v \in Verdicts, SendReturns(w, v)
      PROVE  Typed'
  BY <1>1, <1>4 DEF SendReturns
<1> QED  BY <1>2, <1>3, <1>4

\* Retry(w) goes on with the message of the row, or ends.
LEMMA StopTyped ==
  ASSUME IInv, NEW w \in Callers, Retry(w) \/ Crash(w)
  PROVE  Typed'
<1> USE DEF Typed, OwnTypes, PlaceInv, IInv, TypeOK, Steps, Goto, storeVars, outboxVars, dedupVars,
            historyVars
<1>1. CASE Retry(w)
  <2>1. w \notin Deliveries /\ selection[w] # None /\ selection[w] \in Outbox!Row
        /\ selection[w].id \in Ids
    BY <1>1 DEF Retry, Outbox!ClaimSelected, Outbox!ClaimFails, Outbox!TypeOK, Outbox!Row
  <2>2. CASE Outbox!ClaimFails(w) /\ Exit(w) /\ UNCHANGED settled
    BY <1>1, <2>1, <2>2 DEF Retry, Exit, Outbox!ClaimFails
  <2>3. CASE /\ Outbox!ClaimSelected(w)
             /\ mail' = [mail EXCEPT ![w] = selection[w].id]
             /\ StartSend(w, selection[w].id)
    <3>1. /\ \A v \in Callers \ {w} : held'[v] = held[v]
          /\ held'[w].id = selection[w].id
      BY <1>1, <2>3 DEF Retry, Outbox!ClaimSelected, Outbox!TypeOK
    <3> QED  BY <1>1, <2>1, <2>3, <3>1 DEF Retry, StartSend
  <2> QED  BY <1>1, <2>2, <2>3 DEF Retry
<1>2. CASE Crash(w)
  BY <1>2 DEF Crash, Exit, Outbox!Crash, Outbox!TypeOK
<1> QED  BY <1>1, <1>2

LEMMA SelectTyped == ASSUME IInv, NEW w \in Operators, Select(w) PROVE Typed'
  BY MailDeliveryAssumption
  DEF Typed, OwnTypes, PlaceInv, IInv, TypeOK, Steps, Select, Goto, Outbox!List, dedupVars,
      historyVars, Callers

LEMMA ArriveTyped == ASSUME IInv, NEW w \in Deliveries, NEW m \in Ids, Arrive(w, m) PROVE Typed'
  BY DEF Typed, OwnTypes, PlaceInv, IInv, TypeOK, Steps, Arrive, Goto, storeVars, historyVars, Callers

LEMMA TickTyped == ASSUME IInv, Tick PROVE Typed'
  BY DEF Typed, OwnTypes, PlaceInv, IInv, TypeOK, Tick, Outbox!Tick, dedupVars, LapsedAt, Protections

(***************************************************************************)
(* The theorems.                                                           *)
(***************************************************************************)
LEMMA InitIInv == Init => IInv
<1> SUFFICES ASSUME Init
             PROVE  IInv
  OBVIOUS
<1>1. OP!IInv /\ DP!IInv
  <2>1. OP!Init
    BY DEF Init, Outbox!Init, OP!Init
  <2>2. DP!Init
    BY DEF Init, Dedup!Init, DP!Init
  <2> QED  BY <2>1, <2>2, Assumptions, OP!InitIInv, DP!InitIInv
<1>2. Outbox!TypeOK
  BY <1>1
  DEF OP!IInv, OP!TypeOK, Outbox!TypeOK, OP!Item, OP!Claim, OP!Row, OP!States, OP!Stored,
      Outbox!Item, Outbox!Claim, Outbox!Row, Outbox!States, Outbox!Stored
<1>3. Dedup!TypeOK
  BY <1>1
  DEF DP!IInv, DP!TypeOK, Dedup!TypeOK, DP!DedupClaim, DP!Lease, Dedup!DedupClaim, Dedup!Lease
<1>4. TypeOK
  BY <1>2, <1>3 DEF Init, TypeOK, Steps
<1>5. PlaceInv /\ \A w \in Callers : RecordInv(w)
  BY DEF Init, PlaceInv, RecordInv, UnderItsRecord, Outbox!Init
<1>6. \A i \in Ids : MessageInv(i)
  BY DEF Init, MessageInv, CountsAt, OutboxAt, ClaimAt, WorkAt, Active, Outbox!Init, Dedup!Init
<1> QED  BY <1>1, <1>4, <1>5, <1>6 DEF IInv

LEMMA StepAfter == ASSUME IInv, Next PROVE Typed' /\ InvAfter
<1>1. ASSUME NEW w \in Callers, Step(w)
      PROVE  Typed' /\ InvAfter
  <2>1. CASE Reserve(w) \/ EndBeforeSend(w) \/ Begin(w) \/ Commit(w)
    BY <2>1, DeliveryTyped, ReserveInv, EndBeforeSendInv, BeginInv, CommitInv
  <2>2. CASE Reach(w) \/ Finish(w) \/ \E v \in Verdicts : SendReturns(w, v)
    BY <2>2, SendingTyped, ReachInv, FinishInv, SendReturnsInv
  <2>3. CASE Retry(w)
    BY <2>3, StopTyped, RetryInv
  <2> QED  BY <1>1, <2>1, <2>2, <2>3 DEF Step
<1>2. ASSUME NEW w \in Callers, Crash(w)
      PROVE  Typed' /\ InvAfter
  BY <1>2, StopTyped, CrashInv
<1>3. ASSUME NEW w \in Deliveries, NEW m \in Ids, Arrive(w, m)
      PROVE  Typed' /\ InvAfter
  BY <1>3, ArriveTyped, ArriveInv DEF Callers
<1>4. ASSUME NEW o \in Operators, Select(o)
      PROVE  Typed' /\ InvAfter
  BY <1>4, SelectTyped, SelectInv DEF Callers
<1>5. CASE Tick
  BY <1>5, TickTyped, TickInv
<1> QED  BY <1>1, <1>2, <1>3, <1>4, <1>5 DEF Next

LEMMA NextIInv == IInv /\ [Next]_vars => IInv'
<1> SUFFICES ASSUME IInv, [Next]_vars
             PROVE  IInv'
  OBVIOUS
<1>1. CASE UNCHANGED vars
  <2> USE <1>1 DEF vars, storeVars, historyVars
  <2>1. OP!IInv' /\ DP!IInv' /\ Outbox!TypeOK' /\ Dedup!TypeOK'
    BY StoresIInv
  <2>2. TypeOK' /\ PlaceInv'
    BY <2>1 DEF IInv, TypeOK, PlaceInv
  <2>3. (\A w \in Callers : RecordInv(w))'
    BY DEF IInv, RecordInv, UnderItsRecord
  <2>4. (\A i \in Ids : MessageInv(i))'
    BY DEF IInv, MessageInv, CountsAt, OutboxAt, ClaimAt, WorkAt, Active, Outbox!Expired, Dedup!Lapsed
  <2> QED  BY <2>1, <2>2, <2>3, <2>4 DEF IInv
<1>2. CASE Next
  <2>1. OP!IInv' /\ DP!IInv' /\ Outbox!TypeOK' /\ Dedup!TypeOK'
    BY StoresIInv
  <2>2. Typed' /\ InvAfter
    BY <1>2, StepAfter
  <2> QED  BY <2>1, <2>2 DEF IInv, TypeOK, Typed, OwnTypes, InvAfter
<1> QED  BY <1>1, <1>2

LEMMA SpecIInv == Spec => []IInv
  BY InitIInv, NextIInv, PTL DEF Spec

\* The stores, the processes and the histories keep their types.
THEOREM TypeCorrect == Spec => []TypeOK
<1>1. IInv => TypeOK
  BY DEF IInv
<1> QED  BY <1>1, SpecIInv, PTL

\* One protection is enough: however deliveries, retries, deaths and failures of the stores fall,
\* a message that has one left reaches LINE WORKS at most once, is sent by one process at a time,
\* and what can be sent again has reached nothing.
THEOREM NothingTwice == Spec => []NothingIsSentTwice
<1>1. ASSUME IInv
      PROVE  NothingIsSentTwice
  <2>1. ASSUME NEW i \in Ids, "outbox" \notin lost[i] \/ "dedup" \notin lost[i]
        PROVE  notified[i] <= 1
    BY <1>1, <2>1 DEF IInv, TypeOK, MessageInv, CountsAt, OutboxAt, ClaimAt
  <2>2. DuplicateNeedsBothLost
    BY <1>1, <2>1 DEF DuplicateNeedsBothLost, IInv, TypeOK, Protections
  <2>3. ASSUME NEW v \in Callers, NEW w \in Callers, v # w, pc[v] = "send", pc[w] = "send",
               mail[v] = mail[w]
        PROVE  lost[mail[v]] = Protections
    <3>1. mail[v] \in Ids /\ MessageInv(mail[v])
      BY <1>1, <2>3 DEF IInv, PlaceInv
    <3>2. "outbox" \in lost[mail[v]]
      <4>1. ASSUME OutboxAt(mail[v])
            PROVE  FALSE
        <5>1. UnderItsRecord(v) /\ UnderItsRecord(w)
          BY <1>1, <2>3, <4>1, Holding DEF OutboxAt
        <5> QED  BY <1>1, <2>3, <5>1, TokensAreNames DEF UnderItsRecord
      <4> QED  BY <3>1, <4>1 DEF MessageInv
    <3>3. "dedup" \in lost[mail[v]]
      BY <2>3, <3>1 DEF MessageInv, WorkAt, Active
    <3> QED  BY <1>1, <3>1, <3>2, <3>3 DEF IInv, TypeOK, Protections
  <2>4. ReplayableReachedNothing
    BY <1>1 DEF ReplayableReachedNothing, IInv, MessageInv, CountsAt
  <2> QED  BY <2>2, <2>3, <2>4 DEF NothingIsSentTwice, ConcurrentSendNeedsBothLost
<1> QED  BY <1>1, SpecIInv, PTL

\* Per record, the notifier keeps the promise of RecoverableNotification: of the sends made
\* under it one at most reaches LINE WORKS, and only what certainly reached nothing is sent again.
THEOREM NotificationsAsPromised == Spec => ImplementsNotification
<1>1. Init => Notification!Init
  BY DEF Init, Notification!Init, Outbox!Init, PhaseOf
<1>2. ASSUME IInv, [Next]_vars
      PROVE  [Notification!Next]_(Notification!vars)
  <2>1. CASE Next
    BY <1>2, <2>1, StepAfter DEF InvAfter, Fate, Notification!Next
  <2>2. CASE UNCHANGED vars
    BY <2>2 DEF vars, storeVars, historyVars, Notification!vars, Outbox!Expired
  <2> QED  BY <1>2, <2>1, <2>2
<1> QED  BY <1>1, <1>2, SpecIInv, PTL DEF Spec, ImplementsNotification, Notification!Spec
===============================================================================
