------------------------ MODULE DeliveryResultProofs ------------------------
(***************************************************************************)
(* Proofs about the result of a delivery: what WebhookClient tells its     *)
(* caller of the requests it made, for any number of parts, and what       *)
(* DeliveryHealth keeps of such results, for any number of observers, any  *)
(* bound of the sequence and any clock.                                    *)
(***************************************************************************)
EXTENDS WebhookClient, DeliveryHealth, TLAPS

-----------------------------------------------------------------------------
(***************************************************************************)
(* The client.  The argument: the answers for the part being sent say      *)
(* where it is (TriesInv), and with them what was accepted (AckedInv) and  *)
(* how often each payload went out (SendsInv).                             *)
(***************************************************************************)
Out == {"first", "retry", "compat"}

Twice500 == Len(tries) = 2 /\ tries[1] = "server_500" /\ tries[2] = "server_500"

\* Only delayed answers are followed by another request for the same part.
TriesInv ==
  /\ phase = "first" => Len(tries) = 0
  /\ phase = "retry" => Len(tries) = 1 /\ tries[1] \in Delayed
  /\ phase = "compat" => Twice500 /\ form = "plain"
  /\ phase = "judge" => Len(tries) > 0
  /\ Len(tries) = 2 => tries[1] \in Delayed
  /\ Len(tries) = 3 => tries[1] \in Delayed /\ tries[2] \in Delayed /\ form = "plain"

Succeeded == Len(tries) > 0 /\ Last = "success"

\* The parts before this one were accepted, and this one when its last answer says so.
AckedInv ==
  /\ part = 0 <=> parts = 0
  /\ acked = (1..(part - 1)) \cup (IF Succeeded THEN {part} ELSE {})

\* What is still definite has reached nobody.
DefiniteInv == definite => reached = {}

Plain == IF form = "compat" THEN 0 ELSE IF Len(tries) = 3 THEN 2 ELSE Len(tries)
Compat == IF form = "compat" THEN Len(tries) ELSE IF Len(tries) = 3 THEN 1 ELSE 0

\* The payloads of this part went out as often as there are answers; those of later parts
\* never did.
SendsInv ==
  /\ sends[part]["plain"] = Plain /\ sends[part]["compat"] = Compat
  /\ \A p \in 0..MaxParts : p > part => sends[p]["plain"] = 0 /\ sends[p]["compat"] = 0

ResultInv == phase # "done" => result = Pending

SendInv ==
  /\ SendTypeOK /\ RequestsAreBounded /\ SuccessIsComplete
  /\ TriesInv /\ AckedInv /\ DefiniteInv /\ SendsInv /\ ResultInv

(***************************************************************************)
(* Requests.                                                               *)
(***************************************************************************)
\* As long as a request is out, the part was not accepted.
LEMMA NotAccepted ==
  ASSUME SendInv, phase \in Out
  PROVE  ~Succeeded /\ part \notin acked
<1>1. ~Succeeded
  BY DEF SendInv, TriesInv, Out, Succeeded, Last, Twice500, Delayed
<1>2. part \in Nat
  BY WebhookAssumption DEF SendInv, SendTypeOK
<1> QED  BY <1>1, <1>2 DEF SendInv, AckedInv

\* What every request and its answer do.
LEMMA AnswerIInv ==
  ASSUME SendInv, phase \in Out, NEW k \in Kinds, NEW f \in Forms, Answered(k, f),
         f = (IF phase = "compat" THEN "compat" ELSE form),
         phase' = "judge" \/ (phase' = "retry" /\ phase = "first" /\ k \in Delayed)
  PROVE  SendInv'
<1> DEFINE n == Len(tries)
<1> USE WebhookAssumption
<1>1. /\ tries \in Seq(Kinds) /\ n \in 0..2 /\ part \in 0..parts /\ parts \in 0..MaxParts
      /\ part \in 0..MaxParts /\ form \in Forms
  BY DEF SendInv, SendTypeOK, TriesInv, Out, Twice500
<1>2. /\ tries' \in Seq(Kinds) /\ Len(tries') = n + 1 /\ tries'[n + 1] = k
      /\ \A i \in 1..n : tries'[i] = tries[i]
  BY <1>1 DEF Answered
<1>3. UNCHANGED <<message, part, parts, form, result>>
  BY DEF Answered
<1>4. Succeeded' <=> k = "success"
  BY <1>1, <1>2 DEF Succeeded, Last
<1>5. /\ acked' = acked \cup (IF k = "success" THEN {part} ELSE {})
      /\ \/ reached' = reached
         \/ k \in MayHaveReached \cup {"success"} /\ reached' = reached \cup {part}
      /\ k = "success" => part \in reached'
      /\ definite' = (definite /\ k \in DefiniteKinds)
  BY DEF Answered, MayHaveReached
<1>6. SendTypeOK'
  <2>1. reached' \in SUBSET (0..MaxParts) /\ acked' \in SUBSET reached'
    BY <1>1, <1>5 DEF SendInv, SendTypeOK
  <2>2. sends' \in [0..MaxParts -> [Forms -> Nat]]
    <3>1. sends \in [0..MaxParts -> [Forms -> Nat]] /\ sends[part][f] + 1 \in Nat
      <4>1. sends \in [0..MaxParts -> [Forms -> Nat]]
        BY DEF SendInv, SendTypeOK
      <4>2. sends[part] \in [Forms -> Nat]
        BY <1>1, <4>1
      <4>3. sends[part][f] \in Nat
        BY <4>2
      <4> QED  BY <4>1, <4>3
    <3>2. sends' = [sends EXCEPT ![part] = [sends[part] EXCEPT ![f] = sends[part][f] + 1]]
      BY <1>1, <3>1 DEF Answered
    <3> QED  BY <1>1, <3>1, <3>2
  <2>3. Len(tries') <= 3 /\ definite' \in BOOLEAN
    BY <1>1, <1>2, <1>5 DEF SendInv, SendTypeOK
  <2>4. phase' \in {"first", "retry", "compat", "judge", "done"}
    OBVIOUS
  <2> QED  BY <1>2, <1>3, <2>1, <2>2, <2>3, <2>4 DEF SendInv, SendTypeOK
<1>7. /\ phase = "first" => n = 0
      /\ phase = "retry" => n = 1 /\ tries[1] \in Delayed
      /\ phase = "compat" => /\ n = 2 /\ tries[1] \in Delayed /\ tries[2] \in Delayed
                             /\ form = "plain"
  BY DEF SendInv, TriesInv, Twice500, Delayed
<1>8. TriesInv'
  BY <1>1, <1>2, <1>3, <1>7 DEF TriesInv, Out
<1>9. AckedInv'
  BY <1>3, <1>4, <1>5, NotAccepted DEF SendInv, AckedInv
<1>10. DefiniteInv'
  BY <1>5 DEF SendInv, DefiniteInv, DefiniteKinds, MayHaveReached
<1>11. /\ sends'[part][f] = sends[part][f] + 1
       /\ \A p \in 0..MaxParts, g \in Forms :
            <<p, g>> # <<part, f>> => sends'[p][g] = sends[p][g]
       /\ \A p \in 0..MaxParts, g \in Forms : sends[p][g] \in Nat
  BY <1>1 DEF SendInv, SendTypeOK, Answered
<1>12. SendsInv'
  <2>1. /\ sends'[part]["plain"] = Plain' /\ sends'[part]["compat"] = Compat'
    BY <1>1, <1>2, <1>3, <1>11 DEF SendInv, SendsInv, Plain, Compat, Forms, TriesInv, Twice500, Out
  <2>2. \A p \in 0..MaxParts : p > part => sends'[p]["plain"] = 0 /\ sends'[p]["compat"] = 0
    BY <1>1, <1>11 DEF SendInv, SendsInv, Forms
  <2> QED  BY <1>3, <2>1, <2>2 DEF SendsInv
<1>13. RequestsAreBounded'
  <2> SUFFICES ASSUME NEW p \in 0..MaxParts
               PROVE  /\ sends'[p]["plain"] <= 2 /\ sends'[p]["compat"] <= 2
                      /\ sends'[p]["plain"] > 0 => sends'[p]["compat"] <= 1
    BY DEF RequestsAreBounded
  <2>1. CASE p = part
    <3>1. sends'[p]["plain"] = Plain' /\ sends'[p]["compat"] = Compat'
      BY <1>3, <1>12, <2>1 DEF SendsInv
    <3>2. form = "compat" => n \in {0, 1}
      BY <1>7 DEF Out
    <3> QED  BY <1>1, <1>2, <1>3, <3>1, <3>2 DEF Plain, Compat
  <2>2. CASE p # part
    BY <1>11, <2>2 DEF SendInv, RequestsAreBounded, Forms
  <2> QED  BY <2>1, <2>2
<1>14. ResultInv' /\ SuccessIsComplete'
  BY <1>3 DEF SendInv, ResultInv, SuccessIsComplete, Out
<1> QED  BY <1>6, <1>8, <1>9, <1>10, <1>12, <1>13, <1>14 DEF SendInv

LEMMA RequestIInv == SendInv /\ Request => SendInv'
<1> SUFFICES ASSUME SendInv, NEW k \in Kinds, First(k) \/ Retry(k) \/ Compatibility(k)
             PROVE  SendInv'
  BY DEF Request
<1>1. form \in Forms
  BY DEF SendInv, SendTypeOK
<1>2. CASE First(k)
  BY <1>1, <1>2, AnswerIInv DEF First, RetriesAfter, Out
<1>3. CASE Retry(k)
  BY <1>1, <1>3, AnswerIInv DEF Retry, Out
<1>4. CASE Compatibility(k)
  BY <1>4, AnswerIInv DEF Compatibility, Out, Forms
<1> QED  BY <1>2, <1>3, <1>4

(***************************************************************************)
(* What the client makes of the answers.                                   *)
(***************************************************************************)
LEMMA TryCompatibilityIInv == SendInv /\ TryCompatibility => SendInv'
<1> SUFFICES ASSUME SendInv, TryCompatibility
             PROVE  SendInv'
  OBVIOUS
<1>1. /\ phase' = "compat" /\ phase = "judge"
      /\ UNCHANGED <<message, definite, reached, acked, sends, part, parts, form, tries, result>>
  BY DEF TryCompatibility, Judging
<1>2. Twice500 /\ form = "plain"
  BY DEF TryCompatibility, TwiceServerError, Twice500, Differs, SendInv, SendTypeOK, Forms
<1>3. SendTypeOK'
  BY <1>1 DEF SendInv, SendTypeOK
<1>4. TriesInv'
  BY <1>1, <1>2 DEF TriesInv, Twice500, Delayed
<1>5. AckedInv' /\ DefiniteInv' /\ SendsInv' /\ ResultInv'
  BY <1>1 DEF SendInv, AckedInv, DefiniteInv, SendsInv, ResultInv, Succeeded, Last, Plain, Compat
<1>6. RequestsAreBounded' /\ SuccessIsComplete'
  BY <1>1 DEF SendInv, RequestsAreBounded, SuccessIsComplete
<1> QED  BY <1>3, <1>4, <1>5, <1>6 DEF SendInv

\* Another part begins with nothing sent of it.
LEMMA PartBegins ==
  ASSUME SendInv, phase = "judge", phase' = "first", tries' = <<>>,
         UNCHANGED <<message, definite, reached, acked, sends, result>>,
         part' \in 1..parts', parts' \in 1..MaxParts, part < part', form' \in Forms,
         acked = 1..(part' - 1)
  PROVE  SendInv'
<1> USE WebhookAssumption
<1>1. /\ part' \in 0..parts' /\ parts' \in 0..MaxParts /\ part' \in 0..MaxParts /\ part' # 0
      /\ parts' # 0 /\ part \in Nat
  BY DEF SendInv, SendTypeOK
<1>2. SendTypeOK'
  <2>1. tries' \in Seq(Kinds) /\ Len(tries') <= 3
    OBVIOUS
  <2> QED  BY <1>1, <2>1 DEF SendInv, SendTypeOK
<1>3. TriesInv' /\ ~Succeeded'
  BY DEF TriesInv, Succeeded
<1>4. AckedInv'
  BY <1>1, <1>3 DEF AckedInv
<1>5. SendsInv'
  BY <1>1 DEF SendInv, SendsInv, Plain, Compat
<1>6. RequestsAreBounded' /\ SuccessIsComplete' /\ ResultInv' /\ DefiniteInv'
  BY DEF SendInv, RequestsAreBounded, SuccessIsComplete, ResultInv, DefiniteInv
<1> QED  BY <1>2, <1>3, <1>4, <1>5, <1>6 DEF SendInv

LEMMA SplitIInv == SendInv /\ Split => SendInv'
<1> SUFFICES ASSUME SendInv, Split
             PROVE  SendInv'
  OBVIOUS
<1> USE WebhookAssumption
<1>1. /\ phase = "judge" /\ phase' = "first" /\ tries' = <<>> /\ part' = 1 /\ part = 0
      /\ parts' \in 1..MaxParts /\ Last \in Invalid
      /\ UNCHANGED <<message, definite, reached, acked, sends, result>>
  BY DEF Split, Judging, Splits
<1>2. part' \in 1..parts' /\ part < part' /\ form' \in Forms
  BY <1>1 DEF Split, SendInv, SendTypeOK, Forms
<1>3. acked = 1..(part' - 1)
  BY <1>1 DEF SendInv, AckedInv, Succeeded, Invalid
<1> QED  BY <1>1, <1>2, <1>3, PartBegins

LEMMA NextPartIInv == SendInv /\ NextPart => SendInv'
<1> SUFFICES ASSUME SendInv, NextPart
             PROVE  SendInv'
  OBVIOUS
<1> USE WebhookAssumption
<1>1. /\ phase = "judge" /\ phase' = "first" /\ tries' = <<>> /\ part' = part + 1
      /\ part < parts /\ parts' = parts /\ form' = form /\ Last = "success"
      /\ UNCHANGED <<message, definite, reached, acked, sends, result>>
  BY DEF NextPart, Judging
<1>2. /\ part \in Nat /\ parts \in 0..MaxParts /\ form \in Forms
  BY DEF SendInv, SendTypeOK
<1>3. part' \in 1..parts' /\ parts' \in 1..MaxParts /\ part < part'
  BY <1>1, <1>2
<1>4. acked = 1..(part' - 1)
  <2>1. Succeeded /\ part # 0
    BY <1>1 DEF NextPart, SendInv, TriesInv, Succeeded
  <2> QED  BY <1>1, <1>2, <2>1 DEF SendInv, AckedInv
<1> QED  BY <1>1, <1>2, <1>3, <1>4, PartBegins

\* The verdict is no more than the answers say.
LEMMA VerdictIsTrue ==
  ASSUME SendInv, phase = "judge", Finishes
  PROVE  /\ Verdict \in {"success", "rejected", "uncertain"}
         /\ Verdict = "success" =>
              reached # {} /\ (0 \in acked \/ (parts > 0 /\ 1..parts \subseteq acked))
         /\ Verdict = "rejected" => reached = {}
<1> USE WebhookAssumption
<1>1. ASSUME Last = "success"
      PROVE  reached # {} /\ (0 \in acked \/ (parts > 0 /\ 1..parts \subseteq acked))
  <2>1. part = parts /\ parts \in Nat
    BY <1>1 DEF Finishes, SendInv, SendTypeOK
  <2>2. acked = (1..(part - 1)) \cup {part} /\ acked \subseteq reached
    BY <1>1 DEF SendInv, SendTypeOK, AckedInv, TriesInv, Succeeded
  <2> QED  BY <2>1, <2>2
<1> QED  BY <1>1 DEF Verdict, SendInv, DefiniteInv

\* The end changes nothing but the result.
LEMMA EndsIInv ==
  ASSUME SendInv, phase' = "done",
         UNCHANGED <<message, part, parts, form, tries, definite, reached, acked, sends>>,
         result' \in {"success", "rejected", "uncertain"},
         result' = "success" => 0 \in acked \/ (parts > 0 /\ 1..parts \subseteq acked)
  PROVE  SendInv'
<1>1. SendTypeOK'
  BY DEF SendInv, SendTypeOK
<1>2. TriesInv'
  BY DEF SendInv, TriesInv
<1>3. AckedInv' /\ DefiniteInv' /\ SendsInv' /\ ResultInv'
  BY DEF SendInv, AckedInv, DefiniteInv, SendsInv, ResultInv, Succeeded, Last, Plain, Compat
<1>4. RequestsAreBounded' /\ SuccessIsComplete'
  BY DEF SendInv, RequestsAreBounded, SuccessIsComplete
<1> QED  BY <1>1, <1>2, <1>3, <1>4 DEF SendInv

LEMMA EndIInv == SendInv /\ (EndSend \/ Unsendable) => SendInv'
<1>1. ASSUME SendInv, EndSend
      PROVE  SendInv'
  BY <1>1, VerdictIsTrue, EndsIInv DEF EndSend, Judging
<1>2. ASSUME SendInv, Unsendable
      PROVE  SendInv'
  BY <1>2, EndsIInv DEF Unsendable
<1> QED  BY <1>1, <1>2

(***************************************************************************)
(* The theorems.                                                           *)
(***************************************************************************)
LEMMA InitSendInv == SendInit => SendInv
<1> SUFFICES ASSUME SendInit
             PROVE  SendInv
  OBVIOUS
<1> USE WebhookAssumption
<1>1. SendTypeOK
  BY DEF SendInit, SendTypeOK, Forms
<1>2. TriesInv /\ AckedInv /\ DefiniteInv
  BY DEF SendInit, TriesInv, AckedInv, DefiniteInv, Succeeded
<1>3. SendsInv /\ RequestsAreBounded
  BY DEF SendInit, SendsInv, RequestsAreBounded, Plain, Compat, Forms
<1>4. ResultInv /\ SuccessIsComplete
  BY DEF SendInit, ResultInv, SuccessIsComplete
<1> QED  BY <1>1, <1>2, <1>3, <1>4 DEF SendInv

LEMMA NextSendInv == SendInv /\ [SendNext]_sendVars => SendInv'
<1> SUFFICES ASSUME SendInv, [SendNext]_sendVars
             PROVE  SendInv'
  OBVIOUS
<1>1. CASE Request
  BY <1>1, RequestIInv
<1>2. CASE Judge
  BY <1>2, TryCompatibilityIInv, SplitIInv, NextPartIInv, EndIInv DEF Judge
<1>3. CASE Unsendable
  BY <1>3, EndIInv
<1>4. CASE UNCHANGED sendVars
  <2> USE <1>4 DEF sendVars
  <2>1. SendTypeOK' /\ RequestsAreBounded' /\ SuccessIsComplete'
    BY DEF SendInv, SendTypeOK, RequestsAreBounded, SuccessIsComplete
  <2>2. TriesInv' /\ AckedInv' /\ DefiniteInv' /\ SendsInv' /\ ResultInv'
    BY DEF SendInv, TriesInv, AckedInv, DefiniteInv, SendsInv, ResultInv, Succeeded, Last, Plain,
           Compat, Twice500
  <2> QED  BY <2>1, <2>2 DEF SendInv
<1> QED  BY <1>1, <1>2, <1>3, <1>4 DEF SendNext

LEMMA SpecSendInv == SendSpec => []SendInv
  BY InitSendInv, NextSendInv, PTL DEF SendSpec

\* However the answers fall, a success covers the whole text, no payload is sent more than
\* twice, and the compatibility form of a plain one once.
THEOREM SendsAreSound == SendSpec => []SendIsSound
<1>1. SendInv => SendIsSound
  BY DEF SendInv, SendIsSound
<1> QED  BY <1>1, SpecSendInv, PTL

\* After a request that got no answer there is no other one.
THEOREM SilenceIsFinal == SendSpec => NothingAfterNoResponse
<1> DEFINE A == (\E n \in 1..Len(tries) : tries[n] = "no_response") => sends' = sends
<1>1. ASSUME SendInv, [SendNext]_sendVars, NEW n \in 1..Len(tries), tries[n] = "no_response"
      PROVE  sends' = sends
  <2>1. phase \notin Out
    BY <1>1 DEF SendInv, TriesInv, Out, Twice500, Delayed
  <2> QED  BY <1>1, <2>1
           DEF SendNext, Request, Judge, First, Retry, Compatibility, TryCompatibility, Split,
               NextPart, EndSend, Judging, Unsendable, sendVars, Out
<1>2. SendInv /\ [SendNext]_sendVars => [A]_sendVars
  BY <1>1
<1>3. [][A]_sendVars => NothingAfterNoResponse
  BY DEF NothingAfterNoResponse
<1> QED  BY <1>2, <1>3, SpecSendInv, PTL DEF SendSpec

\* The parts are sent one after the other, each when those before it were accepted, and none
\* again that was.
THEOREM PartsKeepTheirOrder == SendSpec => PartsGoInOrder
<1>1. ASSUME SendInv, [SendNext]_sendVars, sends' # sends
      PROVE  part \notin acked /\ (1..(part - 1)) \subseteq acked
  <2>1. phase \in Out
    BY <1>1
       DEF SendNext, Request, Judge, First, Retry, Compatibility, TryCompatibility, Split,
           NextPart, EndSend, Judging, Unsendable, sendVars, Out
  <2> QED  BY <1>1, <2>1, NotAccepted DEF SendInv, AckedInv
<1> QED  BY <1>1, SpecSendInv, PTL DEF SendSpec, PartsGoInOrder

\* What the client tells its callers is what WebhookSend promises them: no success of nothing,
\* and no rejection of something that arrived.
THEOREM ClientImplementsSend == SendSpec => ImplementsSend
<1>1. SendInit => Caller!Init
  BY DEF SendInit, Caller!Init
<1>2. ASSUME SendInv, SendInv', [SendNext]_sendVars
      PROVE  [Caller!Next]_(Caller!vars)
  <2> USE DEF Caller!Next, Caller!Reach, Caller!Return, Caller!MayEnd, Caller!Verdicts, Caller!vars
  <2>1. CASE Request
    <3>1. PICK k \in Kinds : First(k) \/ Retry(k) \/ Compatibility(k)
      BY <2>1 DEF Request
    <3>2. /\ phase # "done" /\ result' = result
          /\ reached' = reached \/ reached' = reached \cup {part}
      BY <3>1 DEF First, Retry, Compatibility, Answered
    <3> QED  BY <1>2, <3>2 DEF SendInv, ResultInv
  <2>2. CASE TryCompatibility \/ Split \/ NextPart
    BY <2>2 DEF TryCompatibility, Split, NextPart, Judging
  <2>3. CASE EndSend
    <3>1. /\ result' = Verdict /\ reached' = reached /\ result = Pending
          /\ Verdict \in {"success", "rejected", "uncertain"}
          /\ Verdict = "success" => reached # {}
          /\ Verdict = "rejected" => reached = {}
      BY <1>2, <2>3, VerdictIsTrue DEF EndSend, Judging, SendInv, ResultInv
    <3> QED  BY <3>1
  <2>4. CASE Unsendable
    BY <1>2, <2>4 DEF Unsendable, SendInv, ResultInv
  <2>5. CASE UNCHANGED sendVars
    BY <2>5 DEF sendVars
  <2> QED  BY <1>2, <2>1, <2>2, <2>3, <2>4, <2>5 DEF SendNext, Judge
<1> QED  BY <1>1, <1>2, SpecSendInv, PTL DEF SendSpec, ImplementsSend, Caller!Spec

\* A send keeps its promises to its callers and to the reader.
THEOREM SendsKeepPromises == SendSpec => SendKeepsItsPromise
  BY SilenceIsFinal, PartsKeepTheirOrder, ClientImplementsSend, PTL DEF SendKeepsItsPromise

-----------------------------------------------------------------------------
(***************************************************************************)
(* The monitor.                                                            *)
(***************************************************************************)
\* The alert of the latest transition is the only one ever pending, numbers and
\* alerts are never ahead of the observations they come from, and an observer
\* between two writes still finds the alert it read.
AlertInv ==
  /\ state.applied <= state.next
  /\ since <= state.applied
  /\ lastMail <= since
  /\ state.pending # None => state.pending.transition = since
  /\ \A s \in mailed \cup settled : s <= since
  /\ settled \subseteq mailed

HolderInv ==
  \A o \in Observers :
    /\ pc[o] \in {"alert", "clear"} => holder = o /\ state.pending # None
    /\ pc[o] = "clear" => since \in mailed

IInv == TypeOK /\ AlertInv /\ HolderInv /\ NoAlertIsLost /\ ClearedAlertIsFinal

USE HealthAssumption, NoneAssumption

\* The file of a fresh install satisfies the inductive invariant.
LEMMA InitIInv == Init => IInv
  BY DEF Init, IInv, TypeOK, State, AlertInv, HolderInv, NoAlertIsLost, ClearedAlertIsFinal, Statuses

\* An alert that is due is one for the new status and the number that caused it.
LEMMA AlertDueType ==
  ASSUME state \in State, now \in Nat, NEW o, sequence[o] \in Nat, NEW success \in BOOLEAN
  PROVE  /\ AlertDue(o, success) \in Alert
         /\ AlertDue(o, success) # None
         /\ AlertDue(o, success).transition = sequence[o]
  <1>1. AlertDue(o, success).transition = sequence[o]
    BY DEF AlertDue
  <1>2. AlertType(StatusOf(success)) \in {"error", "recovery"}
    BY DEF AlertType
  <1>3. state.changed \in Nat
    BY DEF State
  <1>4. AlertDue(o, success) \in Alert
    BY <1>2, <1>3 DEF AlertDue, Alert
  <1> QED
    BY <1>1, <1>4

\* What one save of record() does to the file and to the latest transition.
LEMMA SaveEffect ==
  ASSUME state \in State, now \in Nat, NEW o, sequence[o] \in Nat, NEW success \in BOOLEAN,
         since \in Nat, Newer(o), Save(o, success)
  PROVE  /\ state' \in State
         /\ state'.applied = sequence[o]
         /\ state'.next = state.next
         /\ \/ since' = since /\ state'.pending = state.pending
            \/ /\ since' = sequence[o]
               /\ state'.pending # None
               /\ state'.pending.transition = sequence[o]
  <1>1. Applied(o) \in State /\ Applied(o).applied = sequence[o]
        /\ Applied(o).next = state.next /\ Applied(o).pending = state.pending
    BY DEF Applied, State
  <1>2. CASE SaveUnchanged(o, success)
    BY <1>1, <1>2 DEF SaveUnchanged
  <1>3. CASE SaveChanged(o, success)
    <2>1. StatusOf(success) \in Statuses
      BY DEF StatusOf, Statuses
    <2>2. Changed(o, success) \in State
      BY <1>1, <2>1, AlertDueType DEF Changed, State
    <2>3. /\ Changed(o, success).applied = sequence[o]
          /\ Changed(o, success).next = state.next
          /\ Changed(o, success).pending = AlertDue(o, success)
      BY <1>1 DEF Changed, State
    <2> QED
      BY <1>3, <2>2, <2>3, AlertDueType DEF SaveChanged
  <1> QED
    BY <1>2, <1>3 DEF Save

\* An observer that ends is idle, and its number is forgotten.
LEMMA EndEffect ==
  ASSUME pc \in [Observers -> {"idle", "observe", "alert", "clear"}],
         sequence \in [Observers -> Nat], NEW o \in Observers, End(o)
  PROVE  /\ pc' \in [Observers -> {"idle", "observe", "alert", "clear"}]
         /\ sequence' \in [Observers -> Nat]
         /\ pc'[o] = "idle"
         /\ \A p \in Observers : p # o => pc'[p] = pc[p]
  BY DEF End, Becomes

\* reserveObservation() hands out a number and touches no alert.
LEMMA ReserveIInv ==
  ASSUME IInv, NEW o \in Observers, Reserve(o) \/ ReserveFails(o)
  PROVE  IInv'
  <1>1. state \in State /\ state.next \in 0..MaxSequence
    BY DEF IInv, TypeOK, State
  <1>2. CASE state' = NextReserved /\ state.next < MaxSequence
    <2>1. state' \in State /\ state'.next = state.next + 1
          /\ state'.applied = state.applied /\ state'.pending = state.pending
      BY <1>1, <1>2 DEF NextReserved, State
    <2>2. pc' \in [Observers -> {"idle", "observe", "alert", "clear"}]
          /\ sequence' \in [Observers -> Nat]
      BY <1>1 DEF IInv, TypeOK, Reserve, ReserveFails, Becomes, observerVars
    <2>3. TypeOK'
      BY <2>1, <2>2 DEF IInv, TypeOK, Reserve, ReserveFails, historyVars, observerVars
    <2>4. state.applied \in Nat /\ state.next \in Nat
      BY <1>1 DEF State
    <2>5. AlertInv'
      BY <2>1, <2>4 DEF IInv, AlertInv, Reserve, ReserveFails, historyVars
    <2>6. \A p \in Observers : pc'[p] \in {"alert", "clear"} => pc[p] = pc'[p]
      BY DEF IInv, TypeOK, Reserve, ReserveFails, Becomes, observerVars
    <2>7. HolderInv'
      BY <2>1, <2>6 DEF IInv, HolderInv, Reserve, ReserveFails, historyVars
    <2>8. NoAlertIsLost' /\ ClearedAlertIsFinal'
      BY <2>1 DEF IInv, NoAlertIsLost, ClearedAlertIsFinal, Reserve, ReserveFails, historyVars
    <2> QED
      BY <2>3, <2>5, <2>7, <2>8 DEF IInv
  <1>3. CASE UNCHANGED vars
    BY <1>3 DEF IInv, TypeOK, AlertInv, HolderInv, NoAlertIsLost, ClearedAlertIsFinal, vars,
         historyVars, observerVars
  <1> QED
    BY <1>2, <1>3 DEF Reserve, ReserveFails, NumbersLeft, vars

\* The steps that leave the file and the history as they are.
LEMMA EndingIInv ==
  ASSUME IInv, NEW o \in Observers, End(o), UNCHANGED <<state, now, historyVars>>,
         holder' = holder \/ (pc[o] \in {"alert", "clear"} /\ holder' = None)
         \/ ReleaseIfHeld(o)
  PROVE  IInv'
  <1>1. pc \in [Observers -> {"idle", "observe", "alert", "clear"}]
        /\ sequence \in [Observers -> Nat]
    BY DEF IInv, TypeOK
  <1>2. TypeOK'
    BY <1>1, EndEffect DEF IInv, TypeOK, historyVars, ReleaseIfHeld
  <1>3. AlertInv' /\ NoAlertIsLost' /\ ClearedAlertIsFinal'
    BY DEF IInv, AlertInv, NoAlertIsLost, ClearedAlertIsFinal, historyVars
  <1>4. \A p \in Observers : pc'[p] \in {"alert", "clear"} => p # o /\ pc'[p] = pc[p]
    BY <1>1, EndEffect
  <1>5. HolderInv'
    BY <1>4 DEF IInv, HolderInv, historyVars, ReleaseIfHeld
  <1> QED
    BY <1>2, <1>3, <1>5 DEF IInv

\* record() up to its first write, whether it goes on to sendmail or not.
LEMMA SavingIInv ==
  ASSUME IInv, NEW o \in Observers, Recordable(o), Newer(o),
         NEW success \in BOOLEAN, Save(o, success),
         pc' \in [Observers -> {"idle", "observe", "alert", "clear"}],
         sequence' \in [Observers -> Nat],
         \A p \in Observers : p # o => pc'[p] = pc[p],
         \/ pc'[o] = "idle" /\ holder' = holder
         \/ pc'[o] = "alert" /\ holder' = o /\ state'.pending # None,
         UNCHANGED <<now, mailed, settled, lastMail>>
  PROVE  IInv'
  <1>1. /\ state \in State /\ now \in Nat /\ sequence[o] \in Nat /\ since \in Nat
        /\ lastMail \in Nat /\ mailed \in SUBSET Nat /\ settled \in SUBSET Nat
        /\ state.applied \in Nat /\ state.next \in Nat
    BY DEF IInv, TypeOK, State
  <1>2. /\ state' \in State
        /\ state'.applied = sequence[o]
        /\ state'.next = state.next
        /\ \/ since' = since /\ state'.pending = state.pending
           \/ /\ since' = sequence[o]
              /\ state'.pending # None
              /\ state'.pending.transition = sequence[o]
    BY <1>1, SaveEffect
  <1>3. state.applied < sequence[o] /\ sequence[o] <= state.next
    BY DEF Newer
  <1>4. since <= state.applied /\ lastMail <= since /\ settled \subseteq mailed
        /\ \A s \in mailed \cup settled : s <= since
    BY DEF IInv, AlertInv
  <1>5. since' \in Nat /\ since <= since' /\ since' <= sequence[o]
    BY <1>1, <1>2, <1>3, <1>4
  <1>6. TypeOK'
    BY <1>2, <1>5 DEF IInv, TypeOK
  <1>7. \A s \in mailed \cup settled : s <= since'
    <2>1. since \in Nat /\ mailed \cup settled \subseteq Nat
      BY <1>1
    <2>2. \A s \in mailed \cup settled : s <= since
      BY <1>4
    <2> QED
      BY <1>5, <2>1, <2>2
  <1>8. AlertInv'
    BY <1>1, <1>2, <1>3, <1>4, <1>5, <1>7 DEF IInv, AlertInv
  <1>9. HolderInv'
    BY <1>2 DEF IInv, HolderInv, Recordable, LockFree
  <1>10. NoAlertIsLost'
    BY <1>2 DEF IInv, NoAlertIsLost
  <1>11. ClearedAlertIsFinal'
    <2>1. CASE since' = since /\ state'.pending = state.pending
      BY <2>1 DEF IInv, ClearedAlertIsFinal
    <2>2. CASE state'.pending.transition = sequence[o]
      <3>1. sequence[o] \notin settled
        BY <1>1, <1>3, <1>4
      <3> QED
        BY <2>2, <3>1 DEF ClearedAlertIsFinal
    <2> QED
      BY <1>2, <2>1, <2>2
  <1> QED
    BY <1>6, <1>8, <1>9, <1>10, <1>11 DEF IInv

\* record() that goes on to sendmail, or has nothing to mail.
LEMMA RecordIInv ==
  ASSUME IInv, NEW o \in Observers, Record(o)
  PROVE  IInv'
  <1>1. pc \in [Observers -> {"idle", "observe", "alert", "clear"}]
        /\ sequence \in [Observers -> Nat]
    BY DEF IInv, TypeOK
  <1>2. PICK success \in BOOLEAN : Save(o, success)
    BY DEF Record
  <1>3. /\ pc' \in [Observers -> {"idle", "observe", "alert", "clear"}]
        /\ sequence' \in [Observers -> Nat]
        /\ \A p \in Observers : p # o => pc'[p] = pc[p]
        /\ \/ pc'[o] = "idle" /\ holder' = holder
           \/ pc'[o] = "alert" /\ holder' = o /\ state'.pending # None
    BY <1>1 DEF Record, End, Becomes
  <1> QED
    BY <1>2, <1>3, SavingIInv DEF Record

\* record() whose first write fails, before or after the rename.
LEMMA RecordFailsIInv ==
  ASSUME IInv, NEW o \in Observers, RecordFails(o)
  PROVE  IInv'
  <1>1. CASE UNCHANGED <<state, since>>
    BY <1>1, EndingIInv DEF RecordFails, historyVars
  <1>2. CASE Recordable(o) /\ Newer(o) /\ \E success \in BOOLEAN : Save(o, success)
    <2>1. PICK success \in BOOLEAN : Save(o, success)
      BY <1>2
    <2>2. /\ pc' \in [Observers -> {"idle", "observe", "alert", "clear"}]
          /\ sequence' \in [Observers -> Nat]
          /\ pc'[o] = "idle"
          /\ \A p \in Observers : p # o => pc'[p] = pc[p]
      BY EndEffect DEF IInv, TypeOK, RecordFails
    <2> QED
      BY <1>2, <2>1, <2>2, SavingIInv DEF RecordFails
  <1> QED
    BY <1>1, <1>2 DEF RecordFails

\* The mail of a pending alert is that of the latest transition.
LEMMA MailedIInv ==
  ASSUME IInv, NEW o \in Observers, pc[o] = "alert", MailGoesOut, UNCHANGED <<since, settled>>
  PROVE  /\ mailed' = mailed \cup {since}
         /\ lastMail' = since
         /\ mailed' \in SUBSET Nat
         /\ lastMail' \in Nat
         /\ settled' \subseteq mailed'
         /\ \A s \in mailed' \cup settled' : s <= since
  <1>1. state.pending.transition = since /\ since \in Nat /\ mailed \in SUBSET Nat
    BY DEF IInv, TypeOK, AlertInv, HolderInv
  <1> QED
    BY <1>1 DEF IInv, AlertInv, MailGoesOut

\* sendmail took the alert: its transition counts as announced.
LEMMA SendAlertIInv ==
  ASSUME IInv, NEW o \in Observers, SendAlert(o)
  PROVE  IInv'
  <1>1. /\ mailed' = mailed \cup {since} /\ lastMail' = since
        /\ mailed' \in SUBSET Nat /\ lastMail' \in Nat /\ settled' \subseteq mailed'
        /\ \A s \in mailed' \cup settled' : s <= since
    BY MailedIInv DEF SendAlert
  <1>2. pc' = [pc EXCEPT ![o] = "clear"]
    BY DEF SendAlert, Becomes
  <1>3. TypeOK'
    BY <1>1, <1>2 DEF IInv, TypeOK, SendAlert
  <1>4. since \in Nat
    BY DEF IInv, TypeOK
  <1>5. AlertInv'
    BY <1>1, <1>4 DEF IInv, AlertInv, SendAlert
  <1>6. \A p \in Observers : p # o => pc'[p] = pc[p]
    BY <1>2 DEF IInv, TypeOK
  <1>7. HolderInv'
    BY <1>1, <1>6 DEF IInv, HolderInv, SendAlert
  <1>8. NoAlertIsLost' /\ ClearedAlertIsFinal'
    BY <1>1 DEF IInv, NoAlertIsLost, ClearedAlertIsFinal, SendAlert
  <1> QED
    BY <1>3, <1>5, <1>7, <1>8 DEF IInv

\* sendmail failed, whether or not the mail left: the alert stays pending.
LEMMA AlertFailsIInv ==
  ASSUME IInv, NEW o \in Observers, AlertFails(o)
  PROVE  IInv'
  <1>1. CASE MailGoesOut
    <2>1. /\ mailed' = mailed \cup {since} /\ lastMail' = since
          /\ mailed' \in SUBSET Nat /\ lastMail' \in Nat /\ settled' \subseteq mailed'
          /\ \A s \in mailed' \cup settled' : s <= since
      BY <1>1, MailedIInv DEF AlertFails
    <2>2. /\ pc' \in [Observers -> {"idle", "observe", "alert", "clear"}]
          /\ sequence' \in [Observers -> Nat]
          /\ pc'[o] = "idle"
          /\ \A p \in Observers : p # o => pc'[p] = pc[p]
      BY EndEffect DEF IInv, TypeOK, AlertFails
    <2>3. TypeOK'
      BY <2>1, <2>2 DEF IInv, TypeOK, AlertFails
    <2>4. since \in Nat
      BY DEF IInv, TypeOK
    <2>5. AlertInv'
      BY <2>1, <2>4 DEF IInv, AlertInv, AlertFails
    <2>6. HolderInv'
      BY <2>1, <2>2 DEF IInv, HolderInv, AlertFails
    <2>7. NoAlertIsLost' /\ ClearedAlertIsFinal'
      BY <2>1 DEF IInv, NoAlertIsLost, ClearedAlertIsFinal, AlertFails
    <2> QED
      BY <2>3, <2>5, <2>6, <2>7 DEF IInv
  <1>2. CASE UNCHANGED <<mailed, lastMail>>
    BY <1>2, EndingIInv DEF AlertFails, historyVars
  <1> QED
    BY <1>1, <1>2 DEF AlertFails

\* The second write: the announced alert leaves the file.
LEMMA ClearAlertIInv ==
  ASSUME IInv, NEW o \in Observers, ClearAlert(o)
  PROVE  IInv'
  <1>1. state \in State /\ state.pending # None /\ state.pending.transition = since
        /\ since \in mailed /\ since \in Nat
    BY DEF IInv, TypeOK, AlertInv, HolderInv, ClearAlert
  <1>2. state' \in State /\ state'.pending = None
        /\ state'.applied = state.applied /\ state'.next = state.next
    BY <1>1 DEF ClearAlert, State
  <1>3. settled' = settled \cup {since}
    BY <1>1 DEF ClearAlert
  <1>4. /\ pc' \in [Observers -> {"idle", "observe", "alert", "clear"}]
        /\ sequence' \in [Observers -> Nat]
        /\ pc'[o] = "idle"
        /\ \A p \in Observers : p # o => pc'[p] = pc[p]
    BY EndEffect DEF IInv, TypeOK, ClearAlert
  <1>5. TypeOK'
    BY <1>1, <1>2, <1>3, <1>4 DEF IInv, TypeOK, ClearAlert
  <1>6. AlertInv'
    BY <1>1, <1>2, <1>3 DEF IInv, AlertInv, ClearAlert
  <1>7. HolderInv'
    BY <1>4 DEF IInv, HolderInv, ClearAlert
  <1>8. NoAlertIsLost' /\ ClearedAlertIsFinal'
    BY <1>1, <1>2 DEF NoAlertIsLost, ClearedAlertIsFinal, ClearAlert
  <1> QED
    BY <1>5, <1>6, <1>7, <1>8 DEF IInv

\* Every step of the monitor and its environment preserves the invariant.
LEMMA NextIInv == IInv /\ [Next]_vars => IInv'
  <1> SUFFICES ASSUME IInv, [Next]_vars PROVE IInv'
    OBVIOUS
  <1>1. ASSUME NEW o \in Observers, Reserve(o) \/ ReserveFails(o) PROVE IInv'
    BY <1>1, ReserveIInv
  <1>2. ASSUME NEW o \in Observers, RecordStale(o) PROVE IInv'
    BY <1>2, EndingIInv DEF RecordStale
  <1>3. ASSUME NEW o \in Observers, Record(o) \/ RecordFails(o) PROVE IInv'
    BY <1>3, RecordIInv, RecordFailsIInv
  <1>4. ASSUME NEW o \in Observers, SendAlert(o) \/ AlertFails(o) PROVE IInv'
    BY <1>4, SendAlertIInv, AlertFailsIInv
  <1>5. ASSUME NEW o \in Observers, ClearAlert(o) PROVE IInv'
    BY <1>5, ClearAlertIInv
  <1>6. ASSUME NEW o \in Observers, ClearFails(o) PROVE IInv'
    BY <1>6, EndingIInv DEF ClearFails
  <1>7. ASSUME NEW o \in Observers, Crash(o) PROVE IInv'
    BY <1>7, EndingIInv DEF Crash
  <1>8. CASE Tick
    BY <1>8 DEF IInv, TypeOK, AlertInv, HolderInv, NoAlertIsLost, ClearedAlertIsFinal, Tick,
         historyVars, observerVars
  <1>9. CASE UNCHANGED vars
    BY <1>9 DEF IInv, TypeOK, AlertInv, HolderInv, NoAlertIsLost, ClearedAlertIsFinal, vars,
         historyVars, observerVars
  <1> QED
    BY <1>1, <1>2, <1>3, <1>4, <1>5, <1>6, <1>7, <1>8, <1>9 DEF Next, Step

\* Hence the invariant holds in every behaviour.
LEMMA SpecIInv == Spec => []IInv
  BY InitIInv, NextIInv, PTL DEF Spec

(***************************************************************************)
(* The theorems.                                                           *)
(***************************************************************************)

\* The file, the observers and the history keep their types.
THEOREM TypeCorrect == Spec => []TypeOK
  BY SpecIInv, PTL DEF IInv

\* However observations interleave and whatever write, sendmail or process fails,
\* the latest change of status is announced or pending in the file.
THEOREM AlertIsNeverLost == Spec => []NoAlertIsLost
  BY SpecIInv, PTL DEF IInv

\* An alert that was cleared after its mail is never pending again.
THEOREM ClearedIsFinal == Spec => []ClearedAlertIsFinal
  BY SpecIInv, PTL DEF IInv

\* Alert mails go out in the order of the transitions they announce.
THEOREM AlertsInOrder == Spec => AlertsNeverGoBack
  <1>1. IInv /\ [Next]_vars => [lastMail' >= lastMail]_vars
    <2> SUFFICES ASSUME IInv, Next PROVE lastMail' >= lastMail
      BY DEF vars
    <2>1. lastMail \in Nat /\ since \in Nat /\ lastMail <= since
      BY DEF IInv, TypeOK, AlertInv
    <2>2. CASE UNCHANGED lastMail
      BY <2>1, <2>2
    <2>3. ASSUME NEW o \in Observers, pc[o] = "alert", MailGoesOut PROVE lastMail' >= lastMail
      <3>1. lastMail' = since
        BY <2>3 DEF MailGoesOut, IInv, HolderInv, AlertInv
      <3> QED
        BY <2>1, <3>1
    <2> QED
      BY <2>2, <2>3 DEF Next, Step, Reserve, ReserveFails, RecordStale, Record, RecordFails,
           SendAlert, AlertFails, ClearAlert, ClearFails, Crash, Tick, historyVars
  <1> QED
    BY <1>1, SpecIInv, PTL DEF Spec, AlertsNeverGoBack

\* The file's status is a register in which the newest observation recorded wins.
THEOREM ObservationsRefine == Spec => ImplementsLatestObservation
  <1>1. Init => Newest!Init
    BY DEF Init, Newest!Init
  <1>2. IInv /\ [Next]_vars => [Newest!Next]_(Newest!vars)
    <2> SUFFICES ASSUME IInv, Next PROVE Newest!Next \/ UNCHANGED Newest!vars
      BY DEF vars, Newest!vars
    <2>1. state \in State
      BY DEF IInv, TypeOK
    <2>2. CASE UNCHANGED state
      BY <2>2 DEF Newest!vars
    <2>3. ASSUME state.next < MaxSequence, state' = NextReserved PROVE Newest!Issue
      BY <2>1, <2>3 DEF NextReserved, Newest!Issue, State
    <2>4. ASSUME NEW o \in Observers, NEW success \in BOOLEAN, Newer(o), Save(o, success)
          PROVE  Newest!Next
      <3>1. sequence[o] \in Nat /\ since \in Nat /\ now \in Nat
            /\ state.applied \in Nat /\ state.next \in Nat
        BY <2>1 DEF IInv, TypeOK, State
      <3>2. state' \in State /\ state'.applied = sequence[o] /\ state'.next = state.next
        BY <2>1, <2>4, <3>1, SaveEffect
      <3>3. state'.status \in {"healthy", "degraded"}
        BY <3>2 DEF State, Statuses
      <3>4. Newest!Apply(sequence[o])
        BY <2>4, <3>2, <3>3 DEF Newer, Newest!Apply
      <3>5. sequence[o] \in 1..state.next
        BY <2>4, <3>1 DEF Newer
      <3> QED
        BY <3>4, <3>5 DEF Newest!Next
    <2>5. ASSUME state' = [state EXCEPT !.pending = None] PROVE UNCHANGED Newest!vars
      BY <2>1, <2>5 DEF Newest!vars, State
    <2> QED
      BY <2>2, <2>3, <2>4, <2>5 DEF Next, Step, Reserve, ReserveFails, RecordStale, Record,
           RecordFails, SendAlert, AlertFails, ClearAlert, ClearFails, Crash, Tick, Newest!Next, NumbersLeft
  <1> QED
    BY <1>1, <1>2, SpecIInv, PTL DEF Spec, ImplementsLatestObservation, Newest!Spec

(***************************************************************************)
(* With a clock that is never set back.                                    *)
(***************************************************************************)

\* The recorded times never lie in the future, and a failure precedes its recovery.
ClockInv ==
  /\ state.changed <= now
  /\ Readable

\* If the clock is never set back, the monitor can read every file it wrote, so
\* that a pending alert survives any failure until an observation retries it.
THEOREM AlertCanBeRetried ==
  ASSUME ClockSteps = FALSE
  PROVE  Spec => []PendingAlertCanBeRetried
  <1>1. Init => ClockInv
    BY DEF Init, ClockInv, Readable
  <1>2. IInv /\ ClockInv /\ [Next]_vars => ClockInv'
    <2> SUFFICES ASSUME IInv, ClockInv, [Next]_vars PROVE ClockInv'
      OBVIOUS
    <2>1. state \in State /\ now \in Nat /\ state.changed \in Nat
          /\ state.applied \in Nat /\ state.next \in Nat
      BY DEF IInv, TypeOK, State
    <2>2. now' \in Nat /\ now <= now'
      BY <2>1 DEF Next, Step, Reserve, ReserveFails, RecordStale, Record, RecordFails,
           SendAlert, AlertFails, ClearAlert, ClearFails, Crash, Tick, vars
    <2>3. CASE UNCHANGED state
      BY <2>1, <2>2, <2>3 DEF ClockInv, Readable
    <2>4. CASE state' = NextReserved
      BY <2>1, <2>2, <2>4 DEF ClockInv, Readable, NextReserved, State
    <2>5. CASE state' = [state EXCEPT !.pending = None]
      BY <2>1, <2>2, <2>5 DEF ClockInv, Readable, State
    <2>6. ASSUME NEW o \in Observers, NEW success \in BOOLEAN, Newer(o), Save(o, success),
                 UNCHANGED now
          PROVE  ClockInv'
      <3>1. CASE SaveUnchanged(o, success)
        BY <2>1, <2>6, <3>1 DEF ClockInv, Readable, SaveUnchanged, Applied, Newer, State
      <3>2. CASE SaveChanged(o, success)
        <4>1. state'.status = StatusOf(success) /\ state'.changed = now
              /\ state'.applied = sequence[o] /\ state'.next = state.next
              /\ state'.pending = AlertDue(o, success)
          BY <2>1, <3>2 DEF SaveChanged, Changed, Applied, State
        <4>2. AlertDue(o, success).type = AlertType(StatusOf(success))
              /\ AlertDue(o, success).changed = now /\ AlertDue(o, success).failed <= now
          BY <2>1 DEF AlertDue, ClockInv
        <4> QED
          BY <2>1, <2>6, <4>1, <4>2 DEF ClockInv, Readable, Newer
      <3> QED
        BY <2>6, <3>1, <3>2 DEF Save
    <2> QED
      BY <2>3, <2>4, <2>5, <2>6 DEF Next, Step, Reserve, ReserveFails, RecordStale, Record,
           RecordFails, SendAlert, AlertFails, ClearAlert, ClearFails, Crash, Tick, vars
  <1>3. ClockInv => PendingAlertCanBeRetried
    BY DEF ClockInv, PendingAlertCanBeRetried
  <1> QED
    BY <1>1, <1>2, <1>3, SpecIInv, PTL DEF Spec

(***************************************************************************)
(* Together, as the runs check them.                                       *)
(***************************************************************************)

\* Unless the clock is set back, the file and its alert survive whatever fails or dies in
\* record() and around it.
THEOREM MonitorSound ==
  ASSUME ClockSteps = FALSE
  PROVE  Spec => []MonitorIsSound
  <1>1. TypeOK /\ NoAlertIsLost /\ ClearedAlertIsFinal /\ PendingAlertCanBeRetried
          => MonitorIsSound
    BY DEF MonitorIsSound
  <1>2. Spec => []PendingAlertCanBeRetried
    BY AlertCanBeRetried
  <1> QED
    BY <1>1, <1>2, TypeCorrect, AlertIsNeverLost, ClearedIsFinal, PTL

\* record() keeps observations, and sendmail their alerts, in order.
THEOREM ResultsInOrder == Spec => ResultsAreOrdered
  BY ObservationsRefine, AlertsInOrder DEF ResultsAreOrdered
=============================================================================
