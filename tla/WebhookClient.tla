--------------------------- MODULE WebhookClient ----------------------------
(***************************************************************************)
(* One call of WebhookClient::sendObservedInternal(): the requests it      *)
(* makes for one notification, and the result it draws from the answers.   *)
(* The notification is sent whole (part 0); a payload answered twice with  *)
(* HTTP 500 may be sent once more in the compatibility form; a payload     *)
(* refused as invalid may be cut into parts sent one after the other.      *)
(*                                                                         *)
(* An answer is one of a few kinds, each standing for the status, body and *)
(* headers the code tells apart.  Whether the provider acted on a request  *)
(* it did not plainly answer is not known to the client: reached records   *)
(* it for the properties.                                                  *)
(***************************************************************************)
EXTENDS Naturals, Sequences

CONSTANTS
  MaxParts,  \* the most parts a text is cut into (a bound of the model)
  Pending

ASSUME WebhookAssumption ==
  /\ MaxParts \in Nat \ {0}
  /\ Pending \notin {"success", "rejected", "uncertain"}

VARIABLES
  message,  \* what matters of the payload: size, convertible syntax, redaction
  part,     \* the part being sent: 0 is the whole
  parts,    \* how many parts the text was cut into, 0 before
  form,     \* the form of the values being sent: plain or compat
  tries,    \* the answers to the requests for this part
  definite, \* are all answers so far definite rejections?
  phase,    \* first, retry, compat: a request is out; judge: it was answered
  result,   \* Pending while running
  reached,  \* history: the parts the provider acted upon
  acked,    \* history: the parts it answered with success
  sends     \* history: requests made with each payload

sendVars == <<message, part, parts, form, tries, definite, phase, result, reached, acked, sends>>

Kinds == {"success", "invalid", "limit", "refused", "throttled", "throttled_long",
          "server_500", "server_other", "unclear", "no_response"}

\* classification invalid_parameter, with HTTP 400.
Invalid == {"invalid", "limit"}

\* Answers of which isDefiniteTotalRejection() is sure.  A description that
\* repeats a fragment of the mail is not kept in the diagnostic, and proves nothing.
DefiniteKinds ==
  IF message.echoed THEN {"limit"}
  ELSE {"invalid", "limit", "refused", "throttled", "throttled_long"}

\* The provider may have acted on these, and did on success.
MayHaveReached == {"server_500", "server_other", "unclear", "no_response"}

Delayed == {"server_500", "server_other", "throttled"}

Last == tries[Len(tries)]

Forms == {"plain", "compat"}

(***************************************************************************)
(* request(): one request and its answer.                                  *)
(***************************************************************************)
Answered(k, f) ==
  /\ tries' = Append(tries, k)
  /\ definite' = (definite /\ k \in DefiniteKinds)
  /\ acked' = IF k = "success" THEN acked \cup {part} ELSE acked
  /\ \/ k = "success" /\ reached' = reached \cup {part}
     \/ k \in MayHaveReached /\ reached' = reached \cup {part}
     \/ k # "success" /\ UNCHANGED reached
  /\ sends' = [sends EXCEPT ![part][f] = @ + 1]
  /\ UNCHANGED <<message, part, parts, form, result>>

\* A server error is repeated after 5 s, a rate limit after the 0..15 s it asks for.
RetriesAfter(k) == k \in Delayed

First(k) ==
  /\ phase = "first"
  /\ Answered(k, form)
  /\ phase' = IF RetriesAfter(k) THEN "retry" ELSE "judge"

Retry(k) ==
  /\ phase = "retry"
  /\ Answered(k, form)
  /\ phase' = "judge"

Compatibility(k) ==
  /\ phase = "compat"
  /\ Answered(k, "compat")
  /\ phase' = "judge"

(***************************************************************************)
(* What the client makes of the answers.                                   *)
(***************************************************************************)

\* The compatibility payload differs only if there is syntax to convert, and a
\* part of such a text may hold none of it.
Differs ==
  IF ~message.syntax \/ form = "compat" THEN {FALSE}
  ELSE IF part = 0 THEN {TRUE} ELSE BOOLEAN

Judging == phase = "judge" /\ UNCHANGED <<message, definite, reached, acked, sends>>

TwiceServerError == tries = <<"server_500", "server_500">>

TryCompatibility ==
  /\ Judging
  /\ TwiceServerError
  /\ TRUE \in Differs
  /\ phase' = "compat"
  /\ UNCHANGED <<part, parts, form, tries, result>>

\* Does the whole text go on in parts?  After the compatibility form only the
\* text limit counts, otherwise the local size as well.
Splits ==
  /\ part = 0
  /\ Last \in Invalid
  /\ Last = "limit" \/ (message.overCap /\ Len(tries) < 3)

Split ==
  /\ Judging
  /\ Splits
  /\ parts' \in 1..MaxParts
  /\ part' = 1
  /\ form' = IF Len(tries) = 3 THEN "compat" ELSE form
  /\ tries' = <<>>
  /\ phase' = "first"
  /\ UNCHANGED result

\* A part is sent only after the success of the one before.
NextPart ==
  /\ Judging
  /\ part # 0 /\ Last = "success" /\ part < parts
  /\ part' = part + 1
  /\ tries' = <<>>
  /\ phase' = "first"
  /\ UNCHANGED <<parts, form, result>>

\* Mutant of Verdict: only the last answer counts.
VerdictOfLast ==
  IF Last = "success" THEN "success" ELSE IF Last \in DefiniteKinds THEN "rejected" ELSE "uncertain"

\* WebhookResult as finish() of the outbox reads it.
Verdict ==
  IF Last = "success" THEN "success" ELSE IF definite THEN "rejected" ELSE "uncertain"

\* Mutant of Finishes: the first success ends the send.
FinishesAtAnySuccess ==
  /\ ~Splits
  /\ TwiceServerError => FALSE \in Differs

\* Nothing is left to try or to send.
Finishes ==
  /\ ~Splits
  /\ TwiceServerError => FALSE \in Differs
  /\ Last = "success" => part = parts

EndSend ==
  /\ Judging
  /\ Finishes
  /\ result' = Verdict
  /\ phase' = "done"
  /\ UNCHANGED <<part, parts, form, tries>>

\* A value that is no valid JSON string: no request, and no diagnostic at all.
Unsendable ==
  /\ phase = "first"
  /\ tries = <<>>
  /\ result' = "uncertain"
  /\ phase' = "done"
  /\ UNCHANGED <<message, part, parts, form, tries, definite, reached, acked, sends>>

SendInit ==
  /\ message \in [overCap : BOOLEAN, syntax : BOOLEAN, echoed : BOOLEAN]
  /\ part = 0 /\ parts = 0 /\ form = "plain"
  /\ tries = <<>> /\ definite = TRUE
  /\ phase = "first" /\ result = Pending
  /\ reached = {} /\ acked = {}
  /\ sends = [p \in 0..MaxParts |-> [f \in Forms |-> 0]]

Request == \E k \in Kinds : First(k) \/ Retry(k) \/ Compatibility(k)

Judge == TryCompatibility \/ Split \/ NextPart \/ EndSend

SendNext == Request \/ Judge \/ Unsendable

SendSpec == SendInit /\ [][SendNext]_sendVars

(***************************************************************************)
(* Properties.                                                             *)
(***************************************************************************)
SendTypeOK ==
  /\ message \in [overCap : BOOLEAN, syntax : BOOLEAN, echoed : BOOLEAN]
  /\ part \in 0..parts
  /\ parts \in 0..MaxParts
  /\ form \in Forms
  /\ tries \in Seq(Kinds) /\ Len(tries) <= 3
  /\ definite \in BOOLEAN
  /\ phase \in {"first", "retry", "compat", "judge", "done"}
  /\ result \in {"success", "rejected", "uncertain", Pending}
  /\ reached \in SUBSET (0..MaxParts)
  /\ acked \in SUBSET reached
  /\ sends \in [0..MaxParts -> [Forms -> Nat]]

\* Callers may rely on the verdict: the outbox makes a message replayable on a
\* rejection, and forgets its text on a success.
Caller == INSTANCE WebhookSend WITH arrived <- (reached # {}), verdict <- result
ImplementsSend == Caller!Spec

\* A success is complete: the whole text was accepted, or every one of its parts.
SuccessIsComplete ==
  result = "success" => 0 \in acked \/ (parts > 0 /\ 1..parts \subseteq acked)

\* A request that got no answer is the last one: neither repeated nor split.
NothingAfterNoResponse ==
  [][(\E n \in 1..Len(tries) : tries[n] = "no_response") => sends' = sends]_sendVars

\* What was accepted is not sent again, and a part waits for all those before it.
PartsGoInOrder ==
  [][sends' # sends => part \notin acked /\ (1..(part - 1)) \subseteq acked]_sendVars

\* No payload is sent more than twice, and the compatibility form of a plain one
\* only once.
RequestsAreBounded ==
  \A p \in 0..MaxParts :
    /\ sends[p]["plain"] <= 2 /\ sends[p]["compat"] <= 2
    /\ sends[p]["plain"] > 0 => sends[p]["compat"] <= 1

\* No verdict claims too much, and no payload is sent too often.
SendIsSound == SendTypeOK /\ SuccessIsComplete /\ RequestsAreBounded

\* A send keeps its promise to its callers and the order its reader expects.
SendKeepsItsPromise == ImplementsSend /\ NothingAfterNoResponse /\ PartsGoInOrder
=============================================================================
