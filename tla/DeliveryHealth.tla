--------------------------- MODULE DeliveryHealth ---------------------------
(***************************************************************************)
(* DeliveryHealthMonitor: the persistent delivery status, and the alert    *)
(* mail it owes the administrators for the latest change of that status.   *)
(* Every notification is an observation: it takes a sequence number before *)
(* it sends and records its result, with that number, when it is done.     *)
(* Observers are processes; a number may be recorded late or never.        *)
(*                                                                         *)
(* record() runs under the exclusive lock, but it is not one step: it      *)
(* saves the new status, then runs sendmail, then saves that the alert is  *)
(* gone, and the process may die or a write may fail between any two.      *)
(* A pending alert also carries the number of its transition, which the    *)
(* file does not: the properties identify alerts by it.                    *)
(***************************************************************************)
EXTENDS Integers, FiniteSets

CONSTANTS
  Observers,    \* processes that notify
  MaxSequence,  \* PHP_INT_MAX
  MaxTime,      \* the last instant of the clock (a bound of the model)
  ClockSteps,   \* may the wall clock be set back?
  None

ASSUME HealthAssumption ==
  /\ MaxSequence \in Nat
  /\ MaxTime \in Nat
  /\ ClockSteps \in BOOLEAN

\* None stands for an absent alert and for no holder.
Alert == [type : {"error", "recovery"}, changed : Nat, failed : Nat, transition : Nat]

ASSUME NoneAssumption == None \notin Observers /\ None \notin Alert

VARIABLES
  state,      \* the file: status, changed, next, applied and the pending alert
  now,        \* the wall clock
  pc,         \* per observer: the step it is at
  sequence,   \* per observer: the number it reserved, 0 before
  holder,     \* the observer that holds the lock across steps, or None
  since,      \* history: the number of the latest transition
  mailed,     \* history: the transitions whose alert mail went out
  settled,    \* history: those whose alert was then cleared from the file
  lastMail    \* history: the transition of the last alert mail

observerVars == <<pc, sequence>>
historyVars == <<since, mailed, settled, lastMail>>
vars == <<state, now, observerVars, holder, historyVars>>

Statuses == {"healthy", "degraded"}

StatusOf(success) == IF success THEN "healthy" ELSE "degraded"

AlertType(status) == IF status = "degraded" THEN "error" ELSE "recovery"

\* readState(): a file that does not pass is an error to every caller.
Readable ==
  /\ state.applied <= state.next
  /\ state.pending # None =>
       /\ state.pending.type = AlertType(state.status)
       /\ state.pending.changed = state.changed
       /\ state.pending.failed <= state.pending.changed

\* Somebody else's step cannot start while a sendmail runs under the lock.
LockFree == holder = None

Becomes(o, step) == pc' = [pc EXCEPT ![o] = step]

End(o) ==
  /\ Becomes(o, "idle")
  /\ sequence' = [sequence EXCEPT ![o] = 0]

ReleaseIfHeld(o) == holder' = IF holder = o THEN None ELSE holder

(***************************************************************************)
(* reserveObservation()                                                    *)
(***************************************************************************)

\* PHP_INT_MAX observations have numbers; the next one fails.
NumbersLeft == state.next < MaxSequence

NextReserved == [state EXCEPT !.next = @ + 1]

Reserve(o) ==
  /\ pc[o] = "idle"
  /\ LockFree
  /\ Readable
  /\ NumbersLeft
  /\ state' = NextReserved
  /\ sequence' = [sequence EXCEPT ![o] = state.next + 1]
  /\ Becomes(o, "observe")
  /\ UNCHANGED <<now, holder, historyVars>>

\* The lock, the read, the write or the number space fails: the notification goes
\* on unobserved.  A write that throws after its rename has used up a number.
ReserveFails(o) ==
  /\ pc[o] = "idle"
  /\ \/ UNCHANGED state
     \/ LockFree /\ Readable /\ NumbersLeft /\ state' = NextReserved
  /\ UNCHANGED <<now, observerVars, holder, historyVars>>

(***************************************************************************)
(* record(): the notification ended, as a success or a failure.            *)
(***************************************************************************)
\* Mutant of Newer: late results are not dropped.
NewerThanNone(o) == sequence[o] <= state.next

\* Late results of older observations are dropped.
Newer(o) == state.applied < sequence[o] /\ sequence[o] <= state.next

Transition(success) == StatusOf(success) # state.status

Applied(o) == [state EXCEPT !.applied = sequence[o]]

\* A pending alert of an older transition is superseded.
AlertDue(o, success) ==
  [type |-> AlertType(StatusOf(success)), changed |-> now,
   failed |-> IF success THEN state.changed ELSE now, transition |-> sequence[o]]

Changed(o, success) ==
  [Applied(o) EXCEPT !.status = StatusOf(success), !.changed = now, !.pending = AlertDue(o, success)]

Recordable(o) == pc[o] = "observe" /\ LockFree /\ Readable

RecordStale(o) ==
  /\ Recordable(o)
  /\ ~Newer(o)
  /\ End(o)
  /\ UNCHANGED <<state, now, holder, historyVars>>

SaveUnchanged(o, success) ==
  /\ ~Transition(success)
  /\ state' = Applied(o)
  /\ UNCHANGED since

SaveChanged(o, success) ==
  /\ Transition(success)
  /\ state' = Changed(o, success)
  /\ since' = sequence[o]

Save(o, success) == SaveUnchanged(o, success) \/ SaveChanged(o, success)

\* The new truth is saved before any attempt to mail about it; sendPendingAlert()
\* then has something to do only when an alert is pending.
Record(o) ==
  /\ Recordable(o)
  /\ Newer(o)
  /\ \E success \in BOOLEAN : Save(o, success)
  /\ IF state'.pending = None
     THEN End(o) /\ UNCHANGED holder
     ELSE Becomes(o, "alert") /\ holder' = o /\ UNCHANGED sequence
  /\ UNCHANGED <<now, mailed, settled, lastMail>>

\* Swallowed and logged: before anything is saved, or after the rename.
RecordFails(o) ==
  /\ pc[o] = "observe"
  /\ \/ UNCHANGED <<state, since>>
     \/ /\ Recordable(o)
        /\ Newer(o)
        /\ \E success \in BOOLEAN : Save(o, success)
  /\ End(o)
  /\ UNCHANGED <<now, holder, mailed, settled, lastMail>>

(***************************************************************************)
(* sendPendingAlert(), under the lock record() took.                       *)
(***************************************************************************)
MailGoesOut ==
  /\ mailed' = mailed \cup {state.pending.transition}
  /\ lastMail' = state.pending.transition

SendAlert(o) ==
  /\ pc[o] = "alert"
  /\ MailGoesOut
  /\ Becomes(o, "clear")
  /\ UNCHANGED <<state, now, sequence, holder, since, settled>>

\* Mutant of AlertFails: the alert is cleared although sendmail failed.
AlertFailsAndForgets(o) ==
  /\ pc[o] = "alert"
  /\ MailGoesOut \/ UNCHANGED <<mailed, lastMail>>
  /\ state' = [state EXCEPT !.pending = None]
  /\ End(o)
  /\ holder' = None
  /\ UNCHANGED <<now, since, settled>>

\* Mutant of AlertFails: the error path keeps the lock.
AlertFailsHoldingLock(o) ==
  /\ pc[o] = "alert"
  /\ End(o)
  /\ UNCHANGED <<state, now, holder, historyVars>>

\* sendmail failed, or timed out when it may already have taken the mail.
AlertFails(o) ==
  /\ pc[o] = "alert"
  /\ MailGoesOut \/ UNCHANGED <<mailed, lastMail>>
  /\ End(o)
  /\ holder' = None
  /\ UNCHANGED <<state, now, since, settled>>

\* The mail was taken: the alert leaves the file.
ClearAlert(o) ==
  /\ pc[o] = "clear"
  /\ state' = [state EXCEPT !.pending = None]
  /\ settled' = settled \cup {state.pending.transition}
  /\ End(o)
  /\ holder' = None
  /\ UNCHANGED <<now, since, mailed, lastMail>>

\* The second write failed: the alert stays pending and will be repeated.
ClearFails(o) ==
  /\ pc[o] = "clear"
  /\ End(o)
  /\ holder' = None
  /\ UNCHANGED <<state, now, historyVars>>

(***************************************************************************)
(* The environment.  The kernel releases the lock of a process that dies.  *)
(***************************************************************************)
Crash(o) ==
  /\ pc[o] # "idle"
  /\ End(o)
  /\ ReleaseIfHeld(o)
  /\ UNCHANGED <<state, now, historyVars>>

Tick ==
  /\ \/ now < MaxTime /\ now' = now + 1
     \/ ClockSteps /\ now > 0 /\ now' = now - 1
  /\ UNCHANGED <<state, observerVars, holder, historyVars>>

Init ==
  /\ state = [status |-> "healthy", changed |-> 0, next |-> 0, applied |-> 0, pending |-> None]
  /\ now = 0
  /\ pc = [o \in Observers |-> "idle"]
  /\ sequence = [o \in Observers |-> 0]
  /\ holder = None
  /\ since = 0
  /\ mailed = {}
  /\ settled = {}
  /\ lastMail = 0

Step(o) ==
  \/ RecordStale(o) \/ Record(o) \/ RecordFails(o)
  \/ SendAlert(o) \/ AlertFails(o) \/ ClearAlert(o) \/ ClearFails(o)

Next ==
  \/ \E o \in Observers : Reserve(o) \/ ReserveFails(o) \/ Step(o) \/ Crash(o)
  \/ Tick

Spec == Init /\ [][Next]_vars

\* A running observer goes on: sendmail is bounded by its 15 s timeout.
FairSpec == Spec /\ \A o \in Observers : WF_vars(Step(o))

(***************************************************************************)
(* Properties.                                                             *)
(***************************************************************************)
State == [status : Statuses, changed : Nat, next : 0..MaxSequence, applied : Nat,
          pending : Alert \cup {None}]

TypeOK ==
  /\ state \in State
  /\ now \in Nat
  /\ pc \in [Observers -> {"idle", "observe", "alert", "clear"}]
  /\ sequence \in [Observers -> Nat]
  /\ holder \in Observers \cup {None}
  /\ since \in Nat
  /\ mailed \in SUBSET Nat
  /\ settled \in SUBSET Nat
  /\ lastMail \in Nat

Newest == INSTANCE LatestObservation WITH
  issued <- state.next, applied <- state.applied, status <- state.status

\* The status is always that of the newest observation recorded: a failure that
\* ends late never undoes a recovery, whatever crashes or fails in between.
ImplementsLatestObservation == Newest!Spec

\* The latest change of status is announced or still pending in the file: no
\* crash, sendmail failure or write failure loses its alert.
NoAlertIsLost ==
  since # 0 =>
    \/ since \in mailed
    \/ state.pending # None /\ state.pending.transition = since

\* Once an alert is cleared it is never pending, hence never mailed, again:
\* duplicates come only from a crash or a failure before the clearing.
ClearedAlertIsFinal ==
  state.pending # None => state.pending.transition \notin settled

\* Alert mails follow the order of the transitions: one about an older change
\* never arrives after one about a newer change.
AlertsNeverGoBack == [][lastMail' >= lastMail]_vars

\* Whatever failed, the file found by the next observation is one the monitor can
\* read, so that a pending alert is retried ("sendmailが失敗しても障害状態を保存し、
\* 保留した通知は次の観測で再試行します", README.md:106).  Needs a clock that is not set back.
PendingAlertCanBeRetried == LockFree => Readable

\* The file and its alert survive whatever fails or dies.
MonitorIsSound ==
  TypeOK /\ NoAlertIsLost /\ ClearedAlertIsFinal /\ PendingAlertCanBeRetried

\* The newest result wins, and its alert goes out after those of older ones.
ResultsAreOrdered == ImplementsLatestObservation /\ AlertsNeverGoBack

\* An observer that holds the lock over sendmail lets it go.
LockIsReleased == \A o \in Observers : holder = o ~> holder # o
=============================================================================
