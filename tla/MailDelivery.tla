---------------------------- MODULE MailDelivery ----------------------------
(***************************************************************************)
(* The notifier as a whole: the mail server starts one PHP process per     *)
(* inbound mail (DeliveryApplication::deliver), the operator starts        *)
(* processes that retry one listed record (DeliveryRecovery), and they     *)
(* meet only in the duplicate store, the outbox and LINE WORKS.  Processes *)
(* run concurrently, die at any point, and every store can fail.           *)
(*                                                                         *)
(* A send is what WebhookClient promises of one: some part of it reaches   *)
(* LINE WORKS or none does, and it ends as a success, a definite rejection *)
(* of the whole or a doubt.  Mail that is not for a notification target,   *)
(* or is the notifier's own alert, changes nothing and does not appear.    *)
(***************************************************************************)
EXTENDS Integers, FiniteSets

CONSTANTS
  Ids,         \* message identifiers
  Deliveries,  \* processes started for an inbound mail
  Operators,   \* the operator's retry sessions
  Nonces, MaxItems, Retention, Ttl, MaxTime, None

ASSUME MailDeliveryAssumption ==
  /\ Deliveries \cap Operators = {}
  /\ None \notin Ids

VARIABLES
  items, held, selection,  \* the outbox: file, tokens, listed rows
  claims, lease,           \* the duplicate store: file, reservations
  now,
  pc,        \* per process: the step of deliver() or retrySelected() it is at
  mail,      \* per process: the message it handles
  verdict,   \* per process: the result of its send
  arrived,   \* per process: did some part of its send reach LINE WORKS?
  notified,       \* history: sends of each message that reached LINE WORKS, up to 2
  recordReached,  \* history: those made under its present record, up to 2
  lost,           \* history: which of the two protections each message lost
  settled         \* history: messages handed to the webhook, or whose handling ended before

Callers == Deliveries \cup Operators

Outbox == INSTANCE DeliveryOutbox
Dedup == INSTANCE DeliveryDeduplicator WITH Callers <- Deliveries

\* The stores' own assumptions.
ASSUME StoreAssumption ==
  /\ Outbox!OutboxAssumption /\ Outbox!AbsenceAssumption
  /\ Dedup!DeduplicatorAssumption /\ Dedup!ClaimAbsenceAssumption

storeVars == <<items, held, selection, claims, lease, now>>
outboxVars == <<items, held, selection>>
dedupVars == <<claims, lease>>
historyVars == <<notified, recordReached, lost, settled>>
vars == <<storeVars, pc, mail, verdict, arrived, historyVars>>

Verdicts == {"success", "rejected", "uncertain"}

Protections == {"dedup", "outbox"}

\* Mutant of OutcomeOf: an uncertain result becomes replayable.
OutcomeReplayable ==
  [success |-> "delivered", rejected |-> "pending", uncertain |-> "pending"]

\* Mutant of OutcomeOf: an uncertain result leaves the record in flight.
OutcomeUnsettled ==
  [success |-> "delivered", rejected |-> "pending", uncertain |-> "in_flight"]

\* finish(): only a definite rejection of the whole can be replayed.
OutcomeOf ==
  [success |-> "delivered", rejected |-> "pending", uncertain |-> "review_only"]

Goto(w, step) == pc' = [pc EXCEPT ![w] = step]

\* The process ends; what it remembered is forgotten with it.
Exit(w) ==
  /\ Goto(w, "idle")
  /\ mail' = [mail EXCEPT ![w] = None]

Lose(i, protection) == lost' = [lost EXCEPT ![i] = @ \cup {protection}]

\* Records that a step removed from the file before their time.
EvictedBy(i) == {j \in Ids \ {i} : Outbox!Live[j] # None /\ items'[j] = None}

Arrive(w, m) ==
  /\ pc[w] = "idle"
  /\ Goto(w, "reserve")
  /\ mail' = [mail EXCEPT ![w] = m]
  /\ UNCHANGED <<storeVars, verdict, arrived, historyVars>>

(***************************************************************************)
(* deliver(): reserve, begin, send, finish, commit.                        *)
(***************************************************************************)
Reserve(w) ==
  LET m == mail[w] IN
  /\ pc[w] = "reserve"
  /\ \/ Dedup!Reserve(w, m) /\ Goto(w, "begin") /\ UNCHANGED <<mail, lost>>
     \/ Dedup!ReserveRefused(w, m) /\ Exit(w) /\ UNCHANGED lost
     \* Fail open: deliver without a reservation.
     \/ Dedup!ReserveFails(w, m) /\ Goto(w, "begin") /\ Lose(m, "dedup") /\ UNCHANGED mail
  /\ UNCHANGED <<outboxVars, verdict, arrived, notified, recordReached, settled>>

\* The forced error test, or an error while the notification is formatted.
EndBeforeSend(w) ==
  /\ pc[w] = "begin"
  /\ Goto(w, "commit")
  /\ settled' = settled \cup {mail[w]}
  /\ UNCHANGED <<storeVars, mail, verdict, arrived, notified, recordReached, lost>>

StartSend(w, m) ==
  /\ Goto(w, "send")
  /\ settled' = settled \cup {m}

Recorded(w, m) ==
  /\ Outbox!Begin(w, m)
  /\ recordReached' = [recordReached EXCEPT ![m] = 0]
  /\ lost' = [i \in Ids |-> IF i \in EvictedBy(m) THEN lost[i] \cup {"outbox"} ELSE lost[i]]
  /\ StartSend(w, m)

\* Mutant of AlreadyRecorded: a known message is sent again.
AlreadyRecordedSends(w, m) ==
  /\ Outbox!BeginRefused(w, m)
  /\ StartSend(w, m)
  /\ UNCHANGED <<recordReached, lost>>

\* null or a conflict: the message is known, and only the reservation is settled.
AlreadyRecorded(w, m) ==
  /\ Outbox!BeginRefused(w, m)
  /\ Goto(w, "commit")
  /\ UNCHANGED <<settled, recordReached, lost>>

Unrecorded(w, m) ==
  /\ Outbox!BeginFails(w, m)
  /\ recordReached' = IF items'[m] # None /\ items'[m] # items[m]
                      THEN [recordReached EXCEPT ![m] = 0] ELSE recordReached
  /\ lost' = [i \in Ids |-> IF i \in EvictedBy(m) \cup {m} THEN lost[i] \cup {"outbox"} ELSE lost[i]]
  /\ StartSend(w, m)

\* Mutant of SendUntracked: an outbox failure stops the notification.
UnrecordedDrops(w, m) ==
  /\ Outbox!BeginFails(w, m)
  /\ Goto(w, "commit")
  /\ UNCHANGED <<settled, recordReached, lost>>

\* An unavailable outbox must not stop the notification: it is sent untracked.
SendUntracked(w, m) == Unrecorded(w, m)

Begin(w) ==
  /\ pc[w] = "begin"
  /\ LET m == mail[w] IN Recorded(w, m) \/ AlreadyRecorded(w, m) \/ SendUntracked(w, m)
  /\ UNCHANGED <<dedupVars, mail, verdict, arrived, notified>>

(***************************************************************************)
(* sendObservedWithCompatibility(), for deliveries and retries alike.      *)
(***************************************************************************)
Increment(n) == IF n < 2 THEN n + 1 ELSE n

UnderItsRecord(w) == held[w] # None /\ items[mail[w]] # None /\ items[mail[w]].token = held[w].token

Reach(w) ==
  /\ pc[w] = "send"
  /\ ~arrived[w]
  /\ arrived' = [arrived EXCEPT ![w] = TRUE]
  /\ notified' = [notified EXCEPT ![mail[w]] = Increment(@)]
  /\ recordReached' = IF UnderItsRecord(w) THEN [recordReached EXCEPT ![mail[w]] = Increment(@)]
                      ELSE recordReached
  /\ UNCHANGED <<storeVars, pc, mail, verdict, lost, settled>>

SendReturns(w, v) ==
  /\ pc[w] = "send"
  /\ v = "success" => arrived[w]
  /\ v = "rejected" => ~arrived[w]
  /\ verdict' = [verdict EXCEPT ![w] = v]
  /\ arrived' = [arrived EXCEPT ![w] = FALSE]
  /\ Goto(w, "finish")
  /\ UNCHANGED <<storeVars, mail, historyVars>>

\* A delivery without a token has nothing to finish; a failure is logged only.
Finish(w) ==
  /\ pc[w] = "finish"
  /\ IF held[w] = None THEN UNCHANGED <<outboxVars, now>>
     ELSE Outbox!Finish(w, OutcomeOf[verdict[w]]) \/ Outbox!FinishFails(w, OutcomeOf[verdict[w]])
  /\ IF w \in Deliveries THEN Goto(w, "commit") /\ UNCHANGED mail ELSE Exit(w)
  /\ verdict' = [verdict EXCEPT ![w] = None]
  /\ UNCHANGED <<dedupVars, arrived, historyVars>>

\* commitReservation(): nothing to settle without a reservation; failures are logged.
Commit(w) ==
  /\ pc[w] = "commit"
  /\ IF lease[w] = None THEN UNCHANGED <<dedupVars, now>>
     ELSE Dedup!Commit(w) \/ Dedup!CommitFails(w)
  /\ Exit(w)
  /\ UNCHANGED <<outboxVars, verdict, arrived, historyVars>>

(***************************************************************************)
(* The operator lists the records, confirms one, and retrySelected() runs. *)
(***************************************************************************)
Select(o) ==
  /\ pc[o] = "idle"
  /\ Outbox!List(o)
  /\ Goto(o, "retry")
  /\ UNCHANGED <<dedupVars, mail, verdict, arrived, historyVars>>

Retry(o) ==
  /\ pc[o] = "retry"
  /\ \/ /\ Outbox!ClaimSelected(o)
        /\ mail' = [mail EXCEPT ![o] = selection[o].id]
        /\ StartSend(o, selection[o].id)
     \/ /\ Outbox!ClaimFails(o)
        /\ Exit(o)
        /\ UNCHANGED settled
  /\ UNCHANGED <<dedupVars, verdict, arrived, notified, recordReached, lost>>

(***************************************************************************)
(* A process dies; time passes, and protections lapse with it.             *)
(***************************************************************************)
Crash(w) ==
  /\ pc[w] # "idle"
  /\ Exit(w)
  /\ Outbox!Crash(w)
  /\ IF w \in Deliveries THEN Dedup!Crash(w) ELSE UNCHANGED dedupVars
  /\ verdict' = [verdict EXCEPT ![w] = None]
  /\ arrived' = [arrived EXCEPT ![w] = FALSE]
  /\ settled' = IF w \in Deliveries THEN settled \cup {mail[w]} ELSE settled
  /\ UNCHANGED <<notified, recordReached, lost>>

LapsedAt(t, i) ==
  {p \in Protections :
     \/ p = "dedup" /\ claims[i] # None /\ claims[i].timestamp + Ttl <= t
     \/ p = "outbox" /\ items[i] # None /\ items[i].created + Retention <= t}

Tick ==
  /\ Outbox!Tick
  /\ lost' = [i \in Ids |-> lost[i] \cup LapsedAt(now + 1, i)]
  /\ UNCHANGED <<dedupVars, pc, mail, verdict, arrived, notified, recordReached, settled>>

Init ==
  /\ Outbox!Init
  /\ Dedup!Init
  /\ pc = [w \in Callers |-> "idle"]
  /\ mail = [w \in Callers |-> None]
  /\ verdict = [w \in Callers |-> None]
  /\ arrived = [w \in Callers |-> FALSE]
  /\ notified = [i \in Ids |-> 0]
  /\ recordReached = [i \in Ids |-> 0]
  /\ lost = [i \in Ids |-> {}]
  /\ settled = {}

\* One step of a process that is running.
Step(w) ==
  \/ Reserve(w) \/ EndBeforeSend(w) \/ Begin(w) \/ Commit(w) \/ Retry(w)
  \/ Reach(w) \/ Finish(w)
  \/ \E v \in Verdicts : SendReturns(w, v)

Next ==
  \/ \E w \in Callers : Step(w) \/ Crash(w)
  \/ \E w \in Deliveries, m \in Ids : Arrive(w, m)
  \/ \E o \in Operators : Select(o)
  \/ Tick

Spec == Init /\ [][Next]_vars

\* The operating system runs every delivery that has something to do; nothing is
\* assumed about mail, operators, crashes or the clock.
FairSpec == Spec /\ \A w \in Deliveries : WF_vars(Step(w))

(***************************************************************************)
(* Properties.                                                             *)
(***************************************************************************)
Steps == {"idle", "reserve", "begin", "send", "finish", "commit", "retry"}

TypeOK ==
  /\ Outbox!TypeOK
  /\ Dedup!TypeOK
  /\ pc \in [Callers -> Steps]
  /\ mail \in [Callers -> Ids \cup {None}]
  /\ verdict \in [Callers -> Verdicts \cup {None}]
  /\ arrived \in [Callers -> BOOLEAN]
  /\ notified \in [Ids -> 0..2]
  /\ recordReached \in [Ids -> 0..2]
  /\ lost \in [Ids -> SUBSET Protections]
  /\ settled \in SUBSET Ids

\* A message reaches LINE WORKS twice only if both protections were lost for it:
\* the duplicate store failed or its claim lapsed, and the outbox was unavailable
\* to a delivery, gave up its record for another, or let it expire.  Concurrent
\* deliveries, operator retries and crashes alone never duplicate one.
DuplicateNeedsBothLost ==
  \A i \in Ids : notified[i] > 1 => lost[i] = Protections

\* A message is being sent by two processes at once only under the same terms.
ConcurrentSendNeedsBothLost ==
  \A v, w \in Callers :
    v # w /\ pc[v] = "send" /\ pc[w] = "send" /\ mail[v] = mail[w]
      => lost[mail[v]] = Protections

\* What the operator can replay never reached LINE WORKS, not even in part,
\* while its record existed.
ReplayableReachedNothing ==
  \A i \in Ids : items[i] # None /\ items[i].state = "pending" => recordReached[i] = 0

\* Nothing is shown twice: neither by a second process nor by the operator's retry.
NothingIsSentTwice ==
  DuplicateNeedsBothLost /\ ConcurrentSendNeedsBothLost /\ ReplayableReachedNothing

\* The delivery path implements the per-record promise.
PhaseOf(item) ==
  IF item = None THEN "absent"
  ELSE CASE item.state = "in_flight" -> "sending"
         [] item.state = "pending" -> "rejected"
         [] item.state = "review_only" -> "uncertain"
         [] item.state = "delivered" -> "delivered"
Notification == INSTANCE RecoverableNotification WITH
  phase <- [i \in Ids |-> PhaseOf(items[i])],
  reached <- recordReached,
  expired <- {i \in Ids : items[i] # None /\ Outbox!Expired(items[i].created)}
ImplementsNotification == Notification!Spec

\* No mail is swallowed between the two protections: unless a process that
\* handled it died or ended before the send, its first arrival leads to a send,
\* whatever fails in the stores.
EveryMailIsTried ==
  \A m \in Ids :
    (\E w \in Deliveries : pc[w] = "reserve" /\ mail[w] = m) ~> m \in settled
=============================================================================
