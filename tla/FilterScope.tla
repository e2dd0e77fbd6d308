----------------------------- MODULE FilterScope ----------------------------
(***************************************************************************)
(* What a synchronisation of the notification targets may touch.  The mail *)
(* provider holds filters by identifier; those of this system, managed or  *)
(* legacy, send the mail of one address to the notifier, and the others    *)
(* belong to somebody else.  A journal names, before anything is changed,  *)
(* the rules to retire (old), those to create (new) and everything else    *)
(* (unrelated), and then follows what was done.                            *)
(*                                                                         *)
(* No state here: these are the decisions ScopeJournal, _ScopedMigrationApi*)
(* and MailManager take from a journal, a baseline and a list of filters.  *)
(* Digests are replaced by what they digest.                               *)
(***************************************************************************)
EXTENDS Integers, FiniteSets, Functions

CONSTANTS
  Address,  \* mail addresses of the server
  MaxId,    \* identifiers the provider can give out (a bound of the model)
  None

ASSUME ScopeAssumption ==
  /\ IsFiniteSet(Address)
  /\ MaxId \in Nat
  /\ None \notin Address

Ids == 1..MaxId

\* What a rule does, apart from its place in the provider's list.
Body == [form : {"managed", "legacy"}, addr : Address] \cup [form : {"other"}, addr : {None}]

Managed(a) == [form |-> "managed", addr |-> a]
Legacy(a) == [form |-> "legacy", addr |-> a]
Other == [form |-> "other", addr |-> None]

\* A rule with its priority; 0 stands for a rule without one.
Rule == [body : Body, priority : 0..MaxId]

\* A function from some of S to T.
IsPartial(f, S, T) == DOMAIN f \subseteq S /\ f \in [DOMAIN f -> T]

Bodies(rules) == {rules[id].body : id \in DOMAIN rules}

With(f, x, v) == [y \in DOMAIN f \cup {x} |-> IF y = x THEN v ELSE f[y]]
Without(f, x) == Restrict(f, DOMAIN f \ {x})

-----------------------------------------------------------------------------
(* The provider's side.  One that renumbers gives a new rule the last place*)
(* and moves the rules after a deleted one up; else places do not matter.  *)

Created(rules, id, body, renumbers) ==
  With(rules, id, [body |-> body,
                   priority |-> IF renumbers THEN Cardinality(DOMAIN rules) + 1 ELSE 0])

Removed(rules, id, renumbers) ==
  [i \in DOMAIN rules \ {id} |->
     IF renumbers /\ rules[i].priority > rules[id].priority
     THEN [rules[i] EXCEPT !.priority = @ - 1] ELSE rules[i]]

-----------------------------------------------------------------------------
(* The plan: which rules are this system's, and which have to go.          *)

ManagedIds(rules) == {id \in DOMAIN rules : rules[id].body.form = "managed"}
LegacyIds(rules) == {id \in DOMAIN rules : rules[id].body.form = "legacy"}

\* plan_target_sync() refuses two managed rules of one address.
Unambiguous(rules) ==
  \A i, j \in ManagedIds(rules) : rules[i].body = rules[j].body => i = j

\* Mutant of ToAdd: a legacy rule counts as the address's rule.
ToAddUncovered(rules, targets) ==
  {a \in targets : {Managed(a), Legacy(a)} \cap Bodies(rules) = {}}

ToAdd(rules, targets) == {a \in targets : Managed(a) \notin Bodies(rules)}

\* Mutant of ToRetire: the rules of addresses no longer wanted stay.
ToRetireLegacy(rules, targets) == LegacyIds(rules)

ToRetire(rules, targets) ==
  LegacyIds(rules) \cup {id \in ManagedIds(rules) : rules[id].body.addr \notin targets}

-----------------------------------------------------------------------------
(* The journal.                                                            *)

Pending == [op : {"add"}, id : {None}, body : Body] \cup [op : {"delete"}, id : Ids, body : Body]

PendingAdd(body) == [op |-> "add", id |-> None, body |-> body]
PendingDelete(id, body) == [op |-> "delete", id |-> id, body |-> body]

\* A partial function from S to T.
Partial(S, T) == UNION {[D -> T] : D \in SUBSET S}

JournalOf(Configs) ==
  [schema : {1, 2}, phase : {"prepared", "active", "committed"}, old : Partial(Ids, Body),
   new : SUBSET Body, unrelated : Partial(Ids, Rule), newIds : Partial(Ids, Body),
   retired : SUBSET Ids, pending : Pending \cup {None}, pinned : SUBSET Address,
   targets : SUBSET Address, before : Configs \cup {None}, expected : Configs \cup {None},
   applied : Configs \cup {None}]

\* The fields of a record that only schema 2 has are None in schema 1.
EmptyJournal ==
  [schema |-> 2, phase |-> "prepared", old |-> <<>>, new |-> {}, unrelated |-> <<>>,
   newIds |-> <<>>, retired |-> {}, pending |-> None, pinned |-> {}, targets |-> {},
   before |-> None, expected |-> None, applied |-> None]

\* ScopeJournal._validate(): what may be written, and read again.
Valid(d) ==
  /\ d.phase \in {"prepared", "active", "committed"}
  /\ d.pinned \subseteq d.targets
  /\ DOMAIN d.old \cap DOMAIN d.unrelated = {}
  /\ DOMAIN d.newIds \cap (DOMAIN d.old \cup DOMAIN d.unrelated) = {}
  /\ IsInjective(d.old)
  /\ Range(d.newIds) \subseteq d.new
  /\ d.retired \subseteq DOMAIN d.old \cup DOMAIN d.newIds
  /\ d.pending # None =>
       \/ d.pending.op = "add" /\ d.pending.body \in d.new
       \/ /\ d.pending.op = "delete"
          /\ \/ d.pending.id \in DOMAIN d.old /\ d.pending.body = d.old[d.pending.id]
             \/ d.pending.id \in DOMAIN d.newIds /\ d.pending.body = d.newIds[d.pending.id]
  /\ d.phase = "prepared" =>
       d.pending = None /\ DOMAIN d.newIds = {} /\ d.retired = {} /\ d.applied = None
  /\ d.phase = "committed" =>
       /\ d.pending = None
       /\ DOMAIN d.old \subseteq d.retired
       /\ Range(d.newIds) = d.new /\ IsInjective(d.newIds)
       /\ d.schema = 2 => d.applied # None

\* prepare_v2(): the journal of a plan about to be carried out.
Prepared(rules, pinned, targets, before, expected) ==
  LET retire == ToRetire(rules, targets)
  IN  [EmptyJournal EXCEPT
         !.old = [id \in retire |-> rules[id].body],
         !.new = {Managed(a) : a \in ToAdd(rules, targets)},
         !.unrelated = Restrict(rules, DOMAIN rules \ retire),
         !.pinned = pinned, !.targets = targets,
         !.before = before, !.expected = expected]

Underway(journal) == journal # None /\ journal.phase # "committed"

\* The parts of a journal that prepare_v2() compares before it takes over one it finds.
SameIntent(d, e) ==
  \A key \in {"old", "new", "unrelated", "pinned", "targets", "before", "expected"} :
    d[key] = e[key]

-----------------------------------------------------------------------------
(* Resuming: the list must be what the journal authorised, and the journal *)
(* must still be understood.                                               *)

\* Rules the journal does not know by identifier.
Strangers(d, rules) ==
  DOMAIN rules \ (DOMAIN d.unrelated \cup DOMAIN d.old \cup DOMAIN d.newIds)

IsPendingAdd(d, body) == d.pending # None /\ d.pending.op = "add" /\ d.pending.body = body

Authorised(d, rules) ==
  /\ \A id \in DOMAIN rules :
       /\ id \in DOMAIN d.unrelated => rules[id] = d.unrelated[id]
       /\ id \in DOMAIN d.old => rules[id].body = d.old[id]
       /\ id \in DOMAIN d.newIds => rules[id].body = d.newIds[id]
       /\ id \in Strangers(d, rules) => IsPendingAdd(d, rules[id].body)
  /\ Cardinality(Strangers(d, rules)) <= 1

\* The digests of the journal are recognised by guessing what they digest: the addresses
\* now configured, those wanted, and those of the rules still there to be retired.
Recognised(d, rules, configured) ==
  LET addresses == configured \cup d.targets
                   \cup {rules[id].body.addr : id \in ToRetire(rules, d.targets)}
  IN  d.new \cup Range(d.old) \subseteq {Managed(a) : a \in addresses}
                                        \cup {Legacy(a) : a \in addresses}

\* The baseline of a resumed synchronisation: without what it created, and with what it
\* retired, which has lost its priority.
ResumedBaseline(d, rules) ==
  LET kept == {id \in DOMAIN rules : /\ id \notin DOMAIN d.newIds
                                     /\ ~IsPendingAdd(d, rules[id].body)}
  IN  [id \in kept \cup DOMAIN d.old |->
         IF id \in kept THEN rules[id] ELSE [body |-> d.old[id], priority |-> 0]]

-----------------------------------------------------------------------------
(* One audited reading of the list, _ScopedMigrationApi.snapshot_filters().*)

\* Mutant of Adoptable: what was created but not noted down is never recognised.
AdoptableNever(d, base, rules) == {}

\* An unknown rule that must be the one whose creation was not confirmed.
Adoptable(d, base, rules) ==
  LET unknown == DOMAIN rules \ (DOMAIN base \cup DOMAIN d.newIds)
  IN  {id \in unknown : unknown = {id} /\ IsPendingAdd(d, rules[id].body)}

Adopted(d, base, rules) ==
  LET id == CHOOSE i \in Adoptable(d, base, rules) : TRUE
  IN  [d EXCEPT !.phase = "active", !.newIds = With(@, id, rules[id].body), !.pending = None]

Known(d, base, rules) == DOMAIN rules \subseteq DOMAIN base \cup DOMAIN d.newIds

\* The one old rule that may be missing although it was not seen to be retired.
MayVanish(d) == IF d.pending # None /\ d.pending.op = "delete" THEN {d.pending.id} ELSE {}

Compact(priorities, n) == priorities = 1..n

\* The place a rule moves up to when the retired rules before it are gone; None when the
\* baseline's places cannot be trusted.
CompactedPriority(d, base, rules, id) ==
  LET missing == DOMAIN base \ DOMAIN rules
      places == {base[i].priority : i \in DOMAIN base}
  IN  IF /\ Compact(places, Cardinality(DOMAIN base))
         /\ missing # {} /\ missing \subseteq d.retired \cup MayVanish(d)
      THEN base[id].priority
           - Cardinality({i \in missing : base[i].priority < base[id].priority})
      ELSE None

UnrelatedKept(d, base, rules) ==
  \A id \in DOMAIN base \ DOMAIN d.old :
    /\ id \in DOMAIN rules
    /\ \/ rules[id] = base[id]
       \/ /\ rules[id].body = base[id].body
          /\ rules[id].priority = CompactedPriority(d, base, rules, id)

OldKept(d, rules) ==
  \A id \in DOMAIN d.old \cap DOMAIN rules : id \notin d.retired /\ rules[id].body = d.old[id]

Vanished(d, rules) == DOMAIN d.old \ (d.retired \cup DOMAIN rules)

NewKept(d, rules) ==
  \A id \in DOMAIN d.newIds : id \in DOMAIN rules /\ rules[id].body = d.newIds[id]

Retired(d, rules) ==
  [d EXCEPT !.phase = "active", !.retired = @ \cup Vanished(d, rules), !.pending = None]

\* What the reading teaches is saved first: a rule to adopt, or one that has vanished.
HasNews(d, base, rules) ==
  \/ Adoptable(d, base, rules) # {}
  \/ /\ Known(d, base, rules) /\ UnrelatedKept(d, base, rules) /\ OldKept(d, rules)
     /\ Vanished(d, rules) # {} /\ Vanished(d, rules) = MayVanish(d)

News(d, base, rules) ==
  IF Adoptable(d, base, rules) # {} THEN Adopted(d, base, rules) ELSE Retired(d, rules)

Undisturbed(d, base, rules) ==
  /\ Known(d, base, rules) /\ UnrelatedKept(d, base, rules) /\ OldKept(d, rules)
  /\ Vanished(d, rules) = {} /\ NewKept(d, rules)

-----------------------------------------------------------------------------
(* The end: _verify_committable_scope() and the last plan.                 *)

Committable(d, rules) ==
  /\ Unambiguous(rules)
  /\ ToAdd(rules, d.targets) = {} /\ ToRetire(rules, d.targets) = {}
  /\ DOMAIN rules = DOMAIN d.unrelated \cup DOMAIN d.newIds
  /\ d.retired = DOMAIN d.old
  /\ Range(d.newIds) = d.new /\ IsInjective(d.newIds)
  /\ \A id \in DOMAIN d.unrelated : rules[id] = d.unrelated[id]
  /\ \A id \in DOMAIN d.newIds : rules[id].body = d.newIds[id]

-----------------------------------------------------------------------------
(* Journals of schema 1: _close_legacy_v1_target_journal().                *)

Closable(d, rules, automatic) ==
  /\ d.phase = "active" /\ d.pending # None /\ d.pending.op = "delete"
  /\ d.pending.id \in DOMAIN d.old \ d.retired
  /\ d.retired \subseteq DOMAIN d.old
  /\ {Managed(a) : a \in automatic} = d.new
  /\ Unambiguous(rules)
  /\ DOMAIN d.old \cap DOMAIN rules = {}
  /\ Range(d.newIds) = d.new /\ IsInjective(d.newIds) /\ NewKept(d, rules)
  /\ \A id \in DOMAIN d.unrelated \cap DOMAIN rules : rules[id] = d.unrelated[id]
  /\ ToAdd(rules, automatic) = {}
  /\ Strangers(d, rules) = ToRetire(rules, automatic)

Closed(d) == [d EXCEPT !.phase = "committed", !.pending = None, !.retired = DOMAIN d.old]
=============================================================================
