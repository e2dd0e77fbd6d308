----------------------------- MODULE TargetSync -----------------------------
(***************************************************************************)
(* Keeping the provider's filters and the private configuration in step    *)
(* with the addresses to be notified: MailManager.sync_targets() and the   *)
(* other menu entries that replace the configuration.  A session is one    *)
(* run of such an entry: a process on the operator's Mac that makes one    *)
(* remote call after the other and may die, or be refused, at each.  Three *)
(* parties keep state: the provider (filters), the server's configuration  *)
(* and its scope journal, both replaced by compare-and-swap.               *)
(*                                                                         *)
(* Each action is one remote call together with what the session decides   *)
(* from its answer up to the next call.  Errors end the session: the       *)
(* process exits and only the three parties remember.  Consecutive reads   *)
(* of the configuration that must return one value are one action, and so  *)
(* are the reading and the first writing of the journal: a change between  *)
(* them ends the session, which Die may do at any time.                    *)
(***************************************************************************)
EXTENDS FilterScope

CONSTANTS
  Base,      \* notification_base_address: always its own source
  Sessions,  \* runs of the operator's menu
  Worlds     \* the kinds of behaviour to be considered

\* In a calm world sessions do not overlap.  In a renumbering one, besides, the provider
\* moves rules up when an earlier one is deleted.  In a shared one sessions overlap, and
\* others add and remove filters of their own.  The addresses of the server, the sessions
\* there may be, and the bounds of the model: transactions begun, deaths and changes by others, other changes of
\* the configuration.
World == [kind : {"calm", "renumbering", "shared"}, addresses : SUBSET Address,
          sessions : SUBSET Sessions, syncs : Nat, faults : Nat, edits : Nat]

\* There are identifiers for the rules a world begins with: one of each address, one of
\* somebody else's, and one that may have been deleted already.
ASSUME SyncAssumption ==
  /\ Worlds \subseteq World
  /\ \A w \in Worlds : Base \in w.addresses /\ Cardinality(w.addresses) + 2 <= MaxId

\* None is no journal.
ASSUME AbsenceAssumption ==
  None \notin JournalOf([pinned : SUBSET Address, targets : SUBSET Address, rest : Nat])

VARIABLES
  filters,  \* the provider's rules by identifier
  used,     \* identifiers 1..used were given out, some to rules deleted since
  config,   \* the private configuration
  journal,  \* the scope journal, or None
  session,  \* what each session has in hand
  syncs,    \* transactions begun so far
  faults,   \* deaths and changes by others so far
  world     \* which of the worlds this is; never changes

serverVars == <<filters, used, config, journal>>
vars == <<serverVars, session, syncs, faults, world>>

\* rest stands for the fields a synchronisation copies: recipients, webhook, test settings.
Config == [pinned : SUBSET Address, targets : SUBSET Address, rest : 0..world.edits]

\* cfg: the configuration first read; doc: the journal as this session last saw it;
\* next: the journal it is about to write, and then: where it goes after that;
\* base: the filters the plan started from; todo: bodies to add, or identifiers to retire.
Idle == [pc |-> "idle", cfg |-> None, pinned |-> {}, targets |-> {}, doc |-> None,
         resumes |-> FALSE, next |-> None, then |-> "idle", base |-> <<>>, todo |-> {}]

Goto(s, pc) == session' = [session EXCEPT ![s].pc = pc]
Stop(s) == session' = [session EXCEPT ![s] = Idle]
Become(s, record) == session' = [session EXCEPT ![s] = record]

\* The session will write the journal doc and go on at pc.
Saving(r, doc, pc) == [r EXCEPT !.pc = "save", !.next = doc, !.then = pc]

At(s, pc) == session[s].pc = pc
Alone(s) == \A t \in Sessions \ {s} : At(t, "idle")

Underway2(d) == Underway(d) /\ d.schema = 2

-----------------------------------------------------------------------------
(* Deciding what to do.                                                    *)

\* The menu reads the configuration it will work from.
Start(s) ==
  /\ s \in world.sessions /\ At(s, "idle")
  /\ world.kind = "shared" \/ Alone(s)
  /\ Become(s, [Idle EXCEPT !.pc = "journal", !.cfg = config])
  /\ UNCHANGED <<serverVars, syncs, faults, world>>

\* A transaction under way is resumed whatever was asked; one of schema 1 can only be
\* closed, and only by the menu entry that proposes nothing.
ReadJournal(s) ==
  /\ At(s, "journal")
  /\ \/ /\ ~Underway(journal)
        /\ Goto(s, "discover")
     \/ /\ Underway2(journal)
        /\ session' = [session EXCEPT ![s].pc = "plan", ![s].doc = journal,
                                      ![s].resumes = TRUE,
                                      ![s].pinned = journal.pinned,
                                      ![s].targets = journal.targets]
     \/ /\ Underway(journal) /\ journal.schema = 1
        /\ \/ session' = [session EXCEPT ![s].pc = "closePlan", ![s].doc = journal]
           \/ Stop(s)
  /\ UNCHANGED <<serverVars, syncs, faults, world>>

\* A fresh transaction: the addresses found to forward to the base, and the pinned ones,
\* as they are or as the operator proposes.  (Bounds: transactions and identifiers left.)
Discover(s) ==
  /\ At(s, "discover")
  /\ syncs < world.syncs /\ used + Cardinality(world.addresses) <= MaxId
  /\ \E found, pinned \in SUBSET world.addresses :
       /\ Base \in found
       /\ session' = [session EXCEPT ![s].pc = "plan", ![s].pinned = pinned,
                                     ![s].targets = found \cup pinned]
  /\ UNCHANGED <<serverVars, syncs, faults, world>>

Plan(s) ==
  /\ At(s, "plan")
  /\ IF Unambiguous(filters)
     THEN session' = [session EXCEPT ![s].pc = "confirm", ![s].base = filters]
     ELSE Stop(s)
  /\ UNCHANGED <<serverVars, syncs, faults, world>>

\* May this session go on from the journal it found, given the list it read?
Understood(d, rules, configured) ==
  /\ Authorised(d, rules)
  /\ Recognised(d, rules, configured)

\* The operator has typed the phrase, and the configuration is still the same.
Confirm(s) ==
  LET r == session[s]
  IN  /\ At(s, "confirm")
      /\ IF config # r.cfg THEN Stop(s)
         ELSE IF ~r.resumes THEN Goto(s, "prepare")
         ELSE IF Understood(r.doc, r.base, r.cfg.targets)
         THEN Become(s, [r EXCEPT !.pc = "scan", !.base = ResumedBaseline(r.doc, @)])
         ELSE Stop(s)
      /\ UNCHANGED <<serverVars, syncs, faults, world>>

\* The configuration a session wants to leave behind.
Wanted(r) == [r.cfg EXCEPT !.pinned = r.pinned, !.targets = r.targets]

PlanOf(r) == Prepared(r.base, r.pinned, r.targets, r.cfg, Wanted(r))

\* The intent is on record before anything is changed.  A journal somebody else has put
\* there since is taken over when it says exactly the same.
Prepare(s) ==
  LET r == session[s]
      doc == PlanOf(r)
      found == IF Underway(journal) THEN journal ELSE doc
  IN  /\ At(s, "prepare")
      /\ IF Valid(doc) /\ (Underway(journal) => journal.schema = 2 /\ SameIntent(journal, doc))
         THEN /\ journal' = found
              /\ Become(s, [r EXCEPT !.pc = "scan", !.doc = found])
         ELSE Stop(s) /\ UNCHANGED journal
      /\ syncs' = IF Underway(journal) THEN syncs ELSE syncs + 1
      /\ UNCHANGED <<filters, used, config, faults, world>>

-----------------------------------------------------------------------------
(* Writing the journal: a compare-and-swap whose answer may be lost.  It   *)
(* counts as done when the journal is what this session wants to write.    *)

Swappable(s) == journal \in {session[s].doc, session[s].next}

Save(s) ==
  LET r == session[s]
  IN  /\ At(s, "save")
      /\ IF Valid(r.next) /\ Swappable(s)
         THEN /\ journal' = r.next
              /\ Become(s, IF r.then = "idle" THEN Idle
                           ELSE [r EXCEPT !.pc = r.then, !.doc = r.next,
                                          !.next = None, !.then = "idle"])
         ELSE Stop(s) /\ UNCHANGED journal
      /\ UNCHANGED <<filters, used, config, syncs, faults, world>>

-----------------------------------------------------------------------------
(* Changing the filters.  Every reading of the list is audited, and what   *)
(* it teaches is saved before the session reads again.                     *)

\* Mutant of OwnBodies: only the rules to be retired are looked at.
OwnBodiesOld(r, rules) == {rules[id].body : id \in DOMAIN rules \cap DOMAIN r.doc.old}

\* The rules a session knows to be its own: to be retired, or created.
OwnBodies(r, rules) ==
  {rules[id].body : id \in DOMAIN rules \cap (DOMAIN r.doc.old \cup DOMAIN r.doc.newIds)}

MarkAdd(r, body) ==
  Saving(r, [r.doc EXCEPT !.phase = "active", !.pending = PendingAdd(body)], "post")

\* Mutant of MarkDelete: the mark is saved with what follows, not before the deletion.
MarkDeleteLater(r, id) ==
  [r EXCEPT !.pc = "delete", !.doc.pending = PendingDelete(id, r.doc.old[id])]

MarkDelete(r, id) ==
  Saving(r, [r.doc EXCEPT !.phase = "active", !.pending = PendingDelete(id, r.doc.old[id])],
         "delete")

Unmark(r, pc) == Saving(r, [r.doc EXCEPT !.phase = "active", !.pending = None], pc)

\* A reading at pc with nothing to save and nothing wrong, after which r goes on as in Rs.
Audit(s, pc, Rs) ==
  LET r == session[s]
  IN  /\ At(s, pc)
      /\ IF HasNews(r.doc, r.base, filters)
         THEN Become(s, Saving(r, News(r.doc, r.base, filters), pc))
         ELSE IF Undisturbed(r.doc, r.base, filters)
         THEN \E next \in Rs : Become(s, next)
         ELSE Stop(s)
      /\ UNCHANGED <<serverVars, syncs, faults, world>>

\* Which of the wanted rules are missing.
Scan(s) ==
  LET r == session[s]
      missing == r.doc.new \ OwnBodies(r, filters)
  IN  Audit(s, "scan", {[r EXCEPT !.pc = IF missing = {} THEN "scanOld" ELSE "add",
                                  !.todo = missing]})

\* _ScopedMigrationApi.add_filter(): mark, create, note the identifier, read back, unmark.
Add(s) ==
  LET r == session[s]
  IN  Audit(s, "add", {MarkAdd([r EXCEPT !.todo = @ \ {body}], body) : body \in r.todo})

Renumbers == world.kind = "renumbering"

\* Mutant of Create: an identifier is given out again.
CreateAgain(body) ==
  used < MaxId /\ filters' = Created(filters, used + 1, body, Renumbers) /\ UNCHANGED used

Create(body) ==
  used < MaxId /\ filters' = Created(filters, used + 1, body, Renumbers) /\ used' = used + 1

Post(s) ==
  LET r == session[s]
      body == r.doc.pending.body
  IN  /\ At(s, "post")
      /\ \/ /\ Create(body)
            /\ Become(s, Saving(r, [r.doc EXCEPT !.newIds = With(@, used + 1, body)], "added"))
         \/ used = MaxId /\ Stop(s) /\ UNCHANGED <<filters, used>>
      /\ UNCHANGED <<config, journal, syncs, faults, world>>

Added(s) ==
  LET r == session[s]
  IN  Audit(s, "added", {Unmark(r, IF r.todo = {} THEN "scanOld" ELSE "add")})

\* Which of the old rules are still there.
ScanOld(s) ==
  LET r == session[s]
      present == DOMAIN r.doc.old \cap DOMAIN filters
  IN  Audit(s, "scanOld", {[r EXCEPT !.pc = IF present = {} THEN "scanAll" ELSE "retire",
                                     !.todo = present]})

\* _ScopedMigrationApi.delete_filter(): mark, delete, read back; the reading retires it.
Retire(s) ==
  LET r == session[s]
  IN  Audit(s, "retire", {MarkDelete([r EXCEPT !.todo = @ \ {id}], id) : id \in r.todo})

Delete(s) ==
  LET id == session[s].doc.pending.id
  IN  /\ At(s, "delete")
      /\ IF id \in DOMAIN filters
         THEN filters' = Removed(filters, id, Renumbers) /\ Goto(s, "retired")
         ELSE Stop(s) /\ UNCHANGED filters
      /\ UNCHANGED <<used, config, journal, syncs, faults, world>>

RetireEnds(s) ==
  LET r == session[s]
  IN  Audit(s, "retired", {[r EXCEPT !.pc = IF r.todo = {} THEN "scanAll" ELSE "retire"]})

ScanAll(s) ==
  LET r == session[s]
  IN  Audit(s, "scanAll", {[r EXCEPT !.pc = "readConfig"]})

-----------------------------------------------------------------------------
(* Changing the configuration, and the end.                                *)

Proved(r, found) ==
  Saving(r, [r.doc EXCEPT !.phase = "active", !.applied = found], "finalConfig")

HasIntent(found, r) == found.pinned = r.pinned /\ found.targets = r.targets

\* Three cases: the journal says that it was replaced; a resumed session finds it replaced
\* and says so; it is still what the transaction began with.
ReadConfig(s) ==
  LET r == session[s]
  IN  /\ At(s, "readConfig")
      /\ IF r.doc.applied # None
         THEN IF config = r.doc.applied /\ config = r.doc.expected
              THEN Goto(s, "finalConfig") ELSE Stop(s)
         ELSE IF HasIntent(config, r) /\ r.resumes
         THEN IF config = r.doc.expected THEN Become(s, Proved(r, config)) ELSE Stop(s)
         ELSE IF config = r.cfg /\ config = r.doc.before /\ Wanted(r) = r.doc.expected
         THEN Goto(s, "swapConfig") ELSE Stop(s)
      /\ UNCHANGED <<serverVars, syncs, faults, world>>

SwapConfig(s) ==
  /\ At(s, "swapConfig")
  /\ IF config = session[s].cfg
     THEN config' = Wanted(session[s]) /\ Goto(s, "readBack")
     ELSE Stop(s) /\ UNCHANGED config
  /\ UNCHANGED <<filters, used, journal, syncs, faults, world>>

ReadBack(s) ==
  LET r == session[s]
  IN  /\ At(s, "readBack")
      /\ IF config = Wanted(r) THEN Become(s, Proved(r, config)) ELSE Stop(s)
      /\ UNCHANGED <<serverVars, syncs, faults, world>>

FinalConfig(s) ==
  LET r == session[s]
  IN  /\ At(s, "finalConfig")
      /\ IF config = r.doc.applied /\ config = r.doc.expected /\ HasIntent(config, r)
         THEN Goto(s, "verify") ELSE Stop(s)
      /\ UNCHANGED <<serverVars, syncs, faults, world>>

Verify(s) ==
  LET r == session[s]
  IN  /\ At(s, "verify")
      /\ IF Committable(r.doc, filters)
         THEN Become(s, Saving(r, [r.doc EXCEPT !.phase = "committed", !.pending = None], "idle"))
         ELSE Stop(s)
      /\ UNCHANGED <<serverVars, syncs, faults, world>>

-----------------------------------------------------------------------------
(* Closing a journal of schema 1, without touching anything else: all that *)
(* is read before the operator's confirmation is read again after it.      *)

ClosePlan(s) ==
  LET r == session[s]
  IN  /\ At(s, "closePlan")
      /\ IF Closable(r.doc, filters, r.cfg.targets)
         THEN Become(s, [r EXCEPT !.pc = "close", !.base = filters])
         ELSE Stop(s)
      /\ UNCHANGED <<serverVars, syncs, faults, world>>

\* Stop also stands for other forwardings found than the targets configured.
Close(s) ==
  LET r == session[s]
  IN  /\ At(s, "close")
      /\ \/ /\ journal = r.doc /\ config = r.cfg /\ filters = r.base
            /\ Become(s, Saving(r, Closed(r.doc), "idle"))
         \/ Stop(s)
      /\ UNCHANGED <<serverVars, syncs, faults, world>>

-----------------------------------------------------------------------------
(* The other menu entries that replace the configuration: error recipients,*)
(* webhook URL, error mail test.                                           *)

StartEdit(s) ==
  /\ s \in world.sessions /\ At(s, "idle") /\ config.rest < world.edits
  /\ world.kind = "shared" \/ Alone(s)
  /\ Become(s, [Idle EXCEPT !.pc = "edit", !.cfg = config])
  /\ UNCHANGED <<serverVars, syncs, faults, world>>

Edit(s) ==
  LET cfg == session[s].cfg
  IN  /\ At(s, "edit")
      /\ IF config = cfg THEN config' = [cfg EXCEPT !.rest = @ + 1] ELSE UNCHANGED config
      /\ Stop(s)
      /\ UNCHANGED <<filters, used, journal, syncs, faults, world>>

-----------------------------------------------------------------------------
(* Faults, and what others do.                                             *)

\* The operator declines what is proposed.  (To decline a resumption is to Die.)
GiveUp(s) ==
  /\ At(s, "discover") \/ (At(s, "confirm") /\ ~session[s].resumes)
  /\ Stop(s)
  /\ UNCHANGED <<serverVars, syncs, faults, world>>

\* A session dies, is refused or does not get an answer, after which it knows of nothing.
Die(s) ==
  /\ ~At(s, "idle") /\ faults < world.faults
  /\ Stop(s)
  /\ faults' = faults + 1
  /\ UNCHANGED <<serverVars, syncs, world>>

\* Somebody else's filters come and go.
Strange ==
  /\ world.kind = "shared" /\ faults < world.faults
  /\ \/ Create(Other)
     \/ /\ \E id \in DOMAIN filters : filters[id].body = Other /\ filters' = Removed(filters, id, Renumbers)
        /\ UNCHANGED used
  /\ faults' = faults + 1
  /\ UNCHANGED <<config, journal, session, syncs, world>>

-----------------------------------------------------------------------------
Fresh(rules) ==
  /\ journal = None
  /\ filters = rules
  /\ used = Cardinality(world.addresses) + 1

\* What the version before left: every managed rule in place, a legacy one marked to be
\* deleted, which it may have been.
Inherited(rules) ==
  LET old == Cardinality(world.addresses) + 2
      kept == Restrict(rules, {id \in DOMAIN rules : rules[id].body = Other})
  IN  /\ ManagedIds(rules) = DOMAIN rules \ DOMAIN kept
      /\ \E a \in world.addresses :
           /\ journal = [EmptyJournal EXCEPT
                !.schema = 1, !.phase = "active", !.old = [id \in {old} |-> Legacy(a)],
                !.new = {Managed(b) : b \in world.addresses}, !.unrelated = kept,
                !.newIds = [id \in ManagedIds(rules) |-> rules[id].body],
                !.pending = PendingDelete(old, Legacy(a))]
           /\ filters \in {rules, With(rules, old, [body |-> Legacy(a), priority |-> 0])}
      /\ used = old

\* One rule per address, managed or legacy, and one of somebody else's, whose place matters
\* only where places do.
Lists ==
  LET n == Cardinality(world.addresses) + 1
      orders == {bodies \in [1..n -> Body] :
                   /\ Other \in Range(bodies)
                   /\ \A a \in world.addresses : {Managed(a), Legacy(a)} \cap Range(bodies) # {}
                   /\ world.kind # "renumbering" => bodies[n] = Other}
  IN  {[id \in 1..n |-> [body |-> bodies[id],
                         priority |-> IF world.kind = "renumbering" THEN id ELSE 0]]
         : bodies \in orders}

Init ==
  /\ world \in Worlds
  /\ config = [pinned |-> {}, targets |-> world.addresses, rest |-> 0]
  /\ \E rules \in Lists : Fresh(rules) \/ (world.kind # "renumbering" /\ Inherited(rules))
  /\ session = [s \in Sessions |-> Idle]
  /\ syncs = 0 /\ faults = 0

\* What a session that has begun does, as long as nothing goes wrong.
Step(s) ==
  \/ ReadJournal(s) \/ Discover(s) \/ Plan(s) \/ Confirm(s) \/ Prepare(s) \/ Save(s)
  \/ Scan(s) \/ Add(s) \/ Post(s) \/ Added(s) \/ ScanOld(s) \/ Retire(s) \/ Delete(s)
  \/ RetireEnds(s) \/ ScanAll(s) \/ ReadConfig(s) \/ SwapConfig(s) \/ ReadBack(s)
  \/ FinalConfig(s) \/ Verify(s) \/ ClosePlan(s) \/ Close(s) \/ Edit(s)

Next ==
  \/ \E s \in Sessions : Start(s) \/ StartEdit(s) \/ Step(s) \/ GiveUp(s) \/ Die(s)
  \/ Strange

Spec == Init /\ [][Next]_vars

\* The Mac runs a session that has begun, and the operator repeats what was interrupted.
FairSpec ==
  /\ Spec
  /\ \A s \in Sessions : /\ WF_vars(Step(s))
                         /\ WF_vars(Start(s) /\ Underway2(journal))

-----------------------------------------------------------------------------
(* Properties.                                                             *)

IsJournal(d) ==
  /\ d.schema \in {1, 2}
  /\ IsPartial(d.old, Ids, Body) /\ IsPartial(d.newIds, Ids, Body)
  /\ IsPartial(d.unrelated, Ids, Rule)
  /\ d.new \subseteq Body /\ d.retired \subseteq Ids /\ d.pending \in Pending \cup {None}
  /\ d.pinned \cup d.targets \subseteq Address
  /\ {d.before, d.expected, d.applied} \subseteq Config \cup {None}

\* Types; and the stored journal is always one that ScopeJournal.read_exact() accepts.
TypeOK ==
  /\ IsPartial(filters, Ids, Rule)
  /\ used \in 0..MaxId /\ DOMAIN filters \subseteq 1..used
  /\ config \in Config
  /\ journal # None => IsJournal(journal) /\ Valid(journal)
  /\ faults \in 0..world.faults
  /\ world \in Worlds

Covered(a) == {Managed(a), Legacy(a)} \cap Bodies(filters) # {}

\* Nobody loses notifications by being kept as a target: the last rule of an address is
\* only ever deleted when the journal of the day does not want that address.
CoverageIsKept ==
  [][\A a \in Address : Covered(a) /\ ~Covered(a)' => a \notin journal.targets]_vars

\* A rule of this system disappears only while the stored journal wants it retired; and
\* unless sessions overlap, only while it names exactly that deletion as pending.
DeletionsAreAuthorised ==
  [][\A id \in DOMAIN filters \ DOMAIN filters' :
       \/ filters[id].body = Other
       \/ /\ Underway(journal) /\ id \in DOMAIN journal.old
          /\ journal.old[id] = filters[id].body
          /\ world.kind # "shared" => journal.pending = PendingDelete(id, filters[id].body)]_vars

\* A transaction is declared complete only when every address it wants has its managed
\* rule, no other address has one, and (but for the closing of an old journal, which
\* leaves that to the next synchronisation) the configuration says the same.  Of sessions
\* that overlap, this is so within one transaction; one that has last seen an earlier
\* transaction may put its configuration back (section 6 of the README).
CompletionIsTrue ==
  [][Underway(journal) /\ ~Underway(journal') /\ (world.kind = "shared" => syncs <= 1) =>
       IF journal.schema = 1
       THEN \A body \in journal.new : body \in Bodies(filters)
       ELSE /\ {filters[id].body : id \in ManagedIds(filters)}
               = {Managed(a) : a \in journal.targets}
            /\ LegacyIds(filters) = {}
            /\ config.targets = journal.targets /\ config.pinned = journal.pinned]_vars

\* Interrupted creations are not repeated: as long as sessions do not overlap, no address
\* ever has two managed rules, which would notify each of its mails twice.
OneRulePerAddress == world.kind # "shared" => Unambiguous(filters)

\* No writer of the configuration undoes what another one wrote.
EditsAreKept == [][config'.rest >= config.rest]_vars

\* Nothing is taken away, rule or configuration, that nobody agreed to.
NothingIsTaken == DeletionsAreAuthorised /\ EditsAreKept

\* The configuration is neither what the transaction began with nor what it wants.
ConfigMoved ==
  IF journal.applied = None THEN config \notin {journal.before, journal.expected}
  ELSE config # journal.applied

\* A rule that was retired belongs to an address no longer found anywhere.
AddressForgotten ==
  \E id \in DOMAIN journal.old \ DOMAIN filters :
    journal.old[id].addr \notin config.targets \cup journal.targets

\* The provider has moved up a rule of somebody else's.
RuleMoved ==
  \E id \in DOMAIN journal.unrelated \cap DOMAIN filters :
    filters[id] # journal.unrelated[id]

Stranded ==
  /\ \A s \in Sessions : At(s, "idle")
  /\ Underway2(journal) /\ (ConfigMoved \/ AddressForgotten \/ RuleMoved)

\* An interrupted synchronisation is completed by repeating it, except in three cases
\* (section 6 of the README), of which the last two come about without anybody else.
IntentIsSettled ==
  world.kind # "shared" => (Underway2(journal) ~> ~Underway2(journal) \/ Stranded)
=============================================================================
