------------------------ MODULE BootstrapMigration --------------------------
(***************************************************************************)
(* The first migration from the old command to the versioned release: the  *)
(* second half of MailManager.deploy_release(), ReleaseDeployer's          *)
(* bootstrap_migrate(), and ReleaseWorkflow.switch() between them.  While  *)
(* the old rules are gone and the new ones not yet there nothing is        *)
(* notified; the operator agrees to that for Window units of time, and two *)
(* files on the server remember how far the migration came: the scope      *)
(* journal, and a marker with the phase and its times.                     *)
(*                                                                         *)
(* One process at a time runs the menu entry, reads and writes the three   *)
(* parties (provider, marker and journal, locator) call by call, and may   *)
(* die at each; every error ends it too.  An action is a call together     *)
(* with what is decided from its answer.  The release was staged before.   *)
(***************************************************************************)
EXTENDS FilterScope

CONSTANTS
  Window,       \* how long the notifications may be stopped
  MaxTime,      \* the clock stops there (a bound of the model)
  MaxFaults,    \* deaths of the process (a bound of the model)
  Renumberings  \* whether the provider moves rules up when an earlier one is deleted

\* deploy_release() refuses a configuration without targets; every one has its old rule, and
\* there is one rule more.
ASSUME MigrationAssumption ==
  /\ Window \in Nat \ {0} /\ MaxTime \in Nat /\ MaxFaults \in Nat
  /\ Renumberings \subseteq BOOLEAN
  /\ Address # {} /\ Cardinality(Address) < MaxId

VARIABLES
  filters,    \* the provider's rules by identifier
  used,       \* identifiers 1..used were given out
  journal,    \* filter-scope.json, or None
  marker,     \* filter-maintenance.json, or None
  locator,    \* which release the stable entry point starts: "old" or "new"
  released,   \* the private configuration names the new release: the end
  session,    \* what the process has in hand
  clock,
  faults,
  renumbers,  \* which provider this is; never changes
  late        \* history: changes made although the time agreed to was over

serverVars == <<filters, used, journal, marker, locator, released>>
vars == <<serverVars, session, clock, faults, renumbers, late>>

\* doc: the journal as the process knows it; next: the journal or marker it will write,
\* and then: where it goes after that; base: the list the migration is audited against;
\* todo: identifiers to delete, or bodies to add.
Idle == [pc |-> "idle", doc |-> None, next |-> None, then |-> "idle",
         base |-> <<>>, todo |-> {}]

At(pc) == session.pc = pc
Goto(pc) == session' = [session EXCEPT !.pc = pc]
Stop == session' = Idle
Become(r) == session' = r
Writing(r, pc, value, then) == [r EXCEPT !.pc = pc, !.next = value, !.then = then]

Saving(r, doc, then) == Writing(r, "save", doc, then)
Marking(r, mark, then) == Writing(r, "mark", mark, then)

Still == UNCHANGED <<clock, faults, renumbers>>

-----------------------------------------------------------------------------
(* The marker.                                                             *)

Phases == {"prepared", "authorized", "window", "committed"}

Times == 0..MaxTime \cup {None}
Marker == [phase : Phases, authorized : Times, started : Times, ended : Times]

ASSUME AbsenceAssumption == None \notin Nat /\ None \notin Marker /\ None \notin Pending

Unmarked == [phase |-> "prepared", authorized |-> None, started |-> None, ended |-> None]

\* _read_migration_state(): the times each phase must have, and their order.
Readable(m) ==
  LET times == CASE m.phase = "prepared" -> {}
                 [] m.phase = "authorized" -> {"authorized"}
                 [] m.phase = "window" -> {"authorized", "started"}
                 [] m.phase = "committed" -> {"authorized", "started", "ended"}
      deadline == m.authorized + Window
  IN  /\ {key \in {"authorized", "started", "ended"} : m[key] # None} = times
      /\ "started" \in times => m.authorized <= m.started /\ m.started <= deadline
      /\ "ended" \in times => m.started <= m.ended /\ m.ended <= deadline

Deadline(m) == m.authorized + Window

\* Mutant of InTime: only a clock set back is noticed.
InTimeOnceBegun == marker.authorized <= clock

\* ensure_deadline()
InTime == marker.authorized <= clock /\ clock < Deadline(marker)

\* A change made now; it is late when the time was over.
Counted == late' = IF clock >= Deadline(marker) THEN late + 1 ELSE late

-----------------------------------------------------------------------------
(* Which rules are to be replaced: found in the list, or in the journal.   *)

NewBodies == {Managed(a) : a \in Address}

OldRules(rules) == {id \in DOMAIN rules : rules[id].body \in {Legacy(a) : a \in Address}}

OneOldRuleEach(rules) ==
  \A a \in Address : Cardinality({id \in DOMAIN rules : rules[id].body = Legacy(a)}) = 1

\* ScopeJournal.prepare(): schema 1.
FirstJournal(rules) ==
  [EmptyJournal EXCEPT
     !.schema = 1, !.new = NewBodies,
     !.old = [id \in OldRules(rules) |-> rules[id].body],
     !.unrelated = Restrict(rules, DOMAIN rules \ OldRules(rules))]

\* The journal found is resumed when it wants the same rules, nothing else has changed,
\* not even its place, and the one unknown rule is the one being added.
Resumable(d, rules) ==
  /\ d.new = NewBodies
  /\ \A id \in DOMAIN d.unrelated : id \in DOMAIN rules /\ rules[id] = d.unrelated[id]
  /\ \A id \in Strangers(d, rules) : IsPendingAdd(d, rules[id].body)
  /\ Cardinality(Strangers(d, rules)) <= 1

\* Mutant of TakenOver: the unknown rule is tolerated, and forgotten again.
TakenOverNever(d, rules) == d

TakenOver(d, rules) ==
  IF Strangers(d, rules) = {} THEN d
  ELSE LET id == CHOOSE i \in Strangers(d, rules) : TRUE
       IN  [d EXCEPT !.newIds = With(@, id, rules[id].body), !.pending = None]

\* An old rule is there as it was, or its absence is accounted for.
OldAccounted(d, rules) ==
  \A id \in DOMAIN d.old :
    IF id \in DOMAIN rules THEN rules[id].body = d.old[id]
    ELSE id \in d.retired \/ id \in MayVanish(d)

\* What the audited readings are compared with; a rule that is gone has lost its place.
Baseline(d, rules) ==
  [id \in (DOMAIN rules \ DOMAIN d.newIds) \cup DOMAIN d.old |->
     IF id \in DOMAIN rules THEN rules[id] ELSE [body |-> d.old[id], priority |-> 0]]

Begun(doc) ==
  Saving([Idle EXCEPT !.doc = doc, !.base = Baseline(doc, filters)], doc,
         IF OldAccounted(doc, filters) THEN "classify" ELSE "idle")

Begin ==
  /\ At("idle")
  /\ IF journal = None /\ OneOldRuleEach(filters) THEN Become(Begun(FirstJournal(filters)))
     ELSE IF journal # None /\ Resumable(journal, filters)
     THEN Become(Begun(TakenOver(journal, filters)))
     ELSE Stop
  /\ UNCHANGED <<serverVars, late>> /\ Still

-----------------------------------------------------------------------------
(* Writing the two files.  Nobody else writes them, and the write is not   *)
(* compared with what was there.                                           *)

Save ==
  /\ At("save")
  /\ IF Valid(session.next)
     THEN /\ journal' = session.next
          /\ Become([session EXCEPT !.pc = session.then, !.doc = session.next, !.next = None])
     ELSE Stop /\ UNCHANGED journal
  /\ UNCHANGED <<filters, used, marker, locator, released, late>> /\ Still

Mark ==
  /\ At("mark")
  /\ marker' = session.next
  /\ Become([session EXCEPT !.pc = session.then, !.next = None])
  /\ UNCHANGED <<filters, used, journal, locator, released, late>> /\ Still

-----------------------------------------------------------------------------
(* Where the migration stands.                                             *)

OwnIds == DOMAIN filters \cap (DOMAIN session.doc.old \cup DOMAIN session.doc.newIds)
OwnBodies == {filters[id].body : id \in OwnIds}
OldPresent == DOMAIN filters \cap DOMAIN session.doc.old

\* A reading at pc, whose news are saved first; Bs is what the process may become.
Audit(pc, Bs) ==
  LET r == session
  IN  /\ At(pc)
      /\ IF HasNews(r.doc, r.base, filters)
         THEN Become(Saving(r, News(r.doc, r.base, filters), pc))
         ELSE IF Undisturbed(r.doc, r.base, filters) THEN \E next \in Bs : Become(next)
         ELSE Stop
      /\ UNCHANGED <<serverVars, late>> /\ Still

Phase == IF marker = None THEN "none" ELSE marker.phase

\* Mutant of Interrupted: the locator was switched before the window was interrupted.
InterruptedSwitched ==
  IF Phase = "window" /\ OwnBodies \subseteq NewBodies THEN "scan"
  ELSE IF Phase = "authorized" /\ OwnBodies \subseteq Range(session.doc.old) THEN "retire"
  ELSE "idle"

\* Where an agreed migration goes on, or "idle".
Interrupted ==
  IF Phase = "window" /\ OwnBodies \subseteq NewBodies THEN "switch"
  ELSE IF Phase = "authorized" /\ OwnBodies \subseteq Range(session.doc.old) THEN "retire"
  ELSE "idle"

\* A marker that cannot be read, and a set of rules no phase explains, isolate the migration;
\* so does the complete set of new ones, which is only looked for beside the new locator.
Classify ==
  LET r == [session EXCEPT !.todo = OldPresent]
      all == OwnBodies = Range(session.doc.old)
  IN  Audit("classify",
        {IF marker # None /\ ~Readable(marker) THEN Idle
         ELSE IF Interrupted # "idle" THEN [r EXCEPT !.pc = Interrupted]
         ELSE IF all /\ marker = None THEN Marking(r, Unmarked, "consent")
         ELSE IF all THEN [r EXCEPT !.pc = "consent"]
         ELSE Idle})

\* Mutant of Consent: the agreement is kept in the process.
ConsentUnwritten ==
  /\ At("consent")
  /\ marker' = [marker EXCEPT !.authorized = clock]
  /\ Goto("retire")
  /\ UNCHANGED <<filters, used, journal, locator, released, late>> /\ Still

\* The operator agrees to the stop of the notifications, from now on.
Consent ==
  /\ At("consent")
  /\ Become(Marking(session, [marker EXCEPT !.phase = "authorized", !.authorized = clock],
                    "retire"))
  /\ UNCHANGED <<serverVars, late>> /\ Still

-----------------------------------------------------------------------------
(* The old rules go, one by one; then there are none.                      *)

\* Every change is checked for time when it is about to be prepared.
Timed(pc, Bs) ==
  /\ At(pc)
  /\ IF InTime THEN Audit(pc, Bs)
     ELSE Stop /\ UNCHANGED <<serverVars, late>> /\ Still

Retire ==
  LET r == session
      Marked(id) == Saving([r EXCEPT !.todo = @ \ {id}],
                           [r.doc EXCEPT !.phase = "active",
                                         !.pending = PendingDelete(id, r.doc.old[id])],
                           "delete")
  IN  r.todo # {} /\ Timed("retire", {Marked(id) : id \in r.todo})

Delete ==
  LET id == session.doc.pending.id
  IN  /\ At("delete")
      /\ IF id \in DOMAIN filters
         THEN filters' = Removed(filters, id, renumbers) /\ Goto("retired") /\ Counted
         ELSE Stop /\ UNCHANGED <<filters, late>>
      /\ UNCHANGED <<used, journal, marker, locator, released>> /\ Still

DeleteEnds == Audit("retired", {[session EXCEPT !.pc = "retire"]})

\* The start of the window is not checked for time, so it may come too late.
OpenWindow ==
  /\ At("retire") /\ session.todo = {}
  /\ Become(Marking(session, [marker EXCEPT !.phase = "window", !.started = clock], "switch"))
  /\ UNCHANGED <<serverVars, late>> /\ Still

-----------------------------------------------------------------------------
(* The release is switched, also when an interrupted run had done so, and  *)
(* the new rules come, one by one.                                         *)

CheckSwitch == Timed("switch", {[session EXCEPT !.pc = "swap"]})

Switch ==
  /\ At("swap")
  /\ locator' = "new" /\ Goto("scan") /\ Counted
  /\ UNCHANGED <<filters, used, journal, marker, released>> /\ Still

\* Mutant of Missing: a rule about to be added counts as added.
MissingButPending ==
  {body \in session.doc.new \ OwnBodies : ~IsPendingAdd(session.doc, body)}

\* The new rules still to be added.
Missing == session.doc.new \ OwnBodies

Scan == Audit("scan", {[session EXCEPT !.pc = "add", !.todo = Missing]})

Add ==
  LET r == session
      Marked(body) == Saving([r EXCEPT !.todo = @ \ {body}],
                             [r.doc EXCEPT !.phase = "active", !.pending = PendingAdd(body)],
                             "post")
  IN  r.todo # {} /\ Timed("add", {Marked(body) : body \in r.todo})

\* Mutant of Post: an identifier is given out again.
PostAgain ==
  LET r == session
      body == r.doc.pending.body
  IN  /\ At("post") /\ used < MaxId
      /\ filters' = Created(filters, used + 1, body, renumbers) /\ UNCHANGED used /\ Counted
      /\ Become(Saving(r, [r.doc EXCEPT !.newIds = With(@, used + 1, body)], "added"))
      /\ UNCHANGED <<journal, marker, locator, released>> /\ Still

Post ==
  LET r == session
      body == r.doc.pending.body
  IN  /\ At("post") /\ used < MaxId
      /\ filters' = Created(filters, used + 1, body, renumbers) /\ used' = used + 1 /\ Counted
      /\ Become(Saving(r, [r.doc EXCEPT !.newIds = With(@, used + 1, body)], "added"))
      /\ UNCHANGED <<journal, marker, locator, released>> /\ Still

Added == Audit("added", {Saving(session, [session.doc EXCEPT !.pending = None], "add")})

-----------------------------------------------------------------------------
(* The end: marker, journal, configuration.                                *)

Complete ==
  /\ At("add") /\ session.todo = {}
  /\ IF InTime
     THEN Become(Marking(session, [marker EXCEPT !.phase = "committed", !.ended = clock],
                         "commit"))
     ELSE Stop
  /\ UNCHANGED <<serverVars, late>> /\ Still

Commit ==
  /\ At("commit")
  /\ Become(Saving(session, [session.doc EXCEPT !.phase = "committed", !.pending = None],
                   "publish"))
  /\ UNCHANGED <<serverVars, late>> /\ Still

\* The configuration is as the process knows it: nobody else replaces it here.
Publish ==
  /\ At("publish")
  /\ released' = TRUE /\ Stop
  /\ UNCHANGED <<filters, used, journal, marker, locator, late>> /\ Still

-----------------------------------------------------------------------------
(* What else happens.                                                      *)

\* The operator declines.
Decline == At("consent") /\ Stop /\ UNCHANGED <<serverVars, late>> /\ Still

\* The process dies, is refused or does not get an answer.
Die ==
  /\ ~At("idle") /\ faults < MaxFaults
  /\ Stop /\ faults' = faults + 1
  /\ UNCHANGED <<serverVars, clock, renumbers, late>>

\* Time passes, as far as anybody looks at it.
Tick ==
  /\ clock < MaxTime /\ ~released
  /\ clock' = clock + 1
  /\ UNCHANGED <<serverVars, session, faults, renumbers, late>>

\* One old rule for each address and somebody else's, in any order where that matters.
Lists ==
  LET n == Cardinality(Address) + 1
      bodies == {Legacy(a) : a \in Address} \cup {Other}
      orders == {order \in [1..n -> bodies] :
                   Range(order) = bodies /\ (~renumbers => order[n] = Other)}
  IN  {[id \in 1..n |-> [body |-> order[id], priority |-> IF renumbers THEN id ELSE 0]]
         : order \in orders}

Init ==
  /\ renumbers \in Renumberings
  /\ filters \in Lists /\ used = Cardinality(Address) + 1
  /\ journal = None /\ marker = None /\ locator = "old" /\ released = FALSE
  /\ session = Idle
  /\ clock = 0 /\ faults = 0 /\ late = 0

\* What a process that has begun does, as long as nothing goes wrong.
Step ==
  \/ Save \/ Mark \/ Classify \/ Consent \/ Retire \/ Delete \/ DeleteEnds \/ OpenWindow
  \/ CheckSwitch \/ Switch \/ Scan \/ Add \/ Post \/ Added \/ Complete \/ Commit \/ Publish

Next == Begin \/ Step \/ Decline \/ Die \/ Tick

Spec == Init /\ [][Next]_vars

\* The Mac runs a process that has begun, and the operator, who once has agreed to the stop,
\* repeats what was interrupted.
Agreed == marker # None /\ marker.phase # "prepared"

FairSpec == Spec /\ WF_vars(Step) /\ WF_vars(Begin /\ Agreed)

-----------------------------------------------------------------------------
(* Properties.                                                             *)

\* Types; and the stored journal is always one that ScopeJournal accepts, and the stored
\* marker one that can be read again, but for a window opened after its end.
TypeOK ==
  /\ IsPartial(filters, Ids, Rule)
  /\ used \in 0..MaxId /\ DOMAIN filters \subseteq 1..used
  /\ journal # None => Valid(journal) /\ journal.schema = 1
  /\ marker # None =>
       /\ marker \in Marker
       /\ Readable(marker) \/ (marker.phase = "window" /\ marker.started > Deadline(marker))
  /\ locator \in {"old", "new"} /\ released \in BOOLEAN
  /\ clock \in 0..MaxTime /\ faults \in 0..MaxFaults

Has(form) == \E id \in DOMAIN filters : filters[id].body.form = form

\* Old rules only ever see the old release and new rules the new one; hence there is never
\* one of each, which would notify a mail twice.
RulesMatchRelease ==
  /\ Has("legacy") => locator = "old"
  /\ Has("managed") => locator = "new"

\* Rules go only after the operator's agreement and come only in the window that follows,
\* each of them while the journal names just that change.
ChangesAreAuthorised ==
  [][/\ \A id \in DOMAIN filters \ DOMAIN filters' :
          /\ marker.phase = "authorized"
          /\ journal.pending = PendingDelete(id, filters[id].body)
     /\ \A id \in DOMAIN filters' \ DOMAIN filters :
          /\ marker.phase = "window"
          /\ journal.pending = PendingAdd(filters'[id].body)]_vars

\* However often it is interrupted and repeated, at most one change is made after the time
\* the operator agreed to: the one that was just being prepared.
LateChangesAreBounded == late <= 1

\* The migration counts as committed only with exactly the new rules, one for each address,
\* next to what belongs to others, and with the new release.
CommitIsTrue ==
  [][Phase # "committed" /\ Phase' = "committed" =>
       /\ locator = "new" /\ ~Has("legacy")
       /\ \A a \in Address : Cardinality({id \in DOMAIN filters : filters[id].body = Managed(a)}) = 1
       /\ \E id \in DOMAIN filters : filters[id].body = Other]_vars

Expired == Agreed /\ clock >= Deadline(marker)

\* Nothing is left to be done but what only the process that died knew.
Isolated == Phase = "committed" /\ ~released

RuleMoved ==
  journal # None /\ \E id \in DOMAIN journal.unrelated \cap DOMAIN filters :
                      filters[id] # journal.unrelated[id]

Stranded == At("idle") /\ (Expired \/ Isolated \/ RuleMoved)

\* What the operator agreed to is brought to its end, but for three cases (section 6 of the
\* README).
MigrationConverges == Agreed ~> (released \/ Stranded)
=============================================================================
