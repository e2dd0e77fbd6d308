---------------------- MODULE BootstrapMigrationProofs ----------------------
(***************************************************************************)
(* Proofs about BootstrapMigration, for any addresses, window, clock and   *)
(* number of deaths.  The argument: whatever process is at work knows the  *)
(* old rules and the new ones (Scoped), because the journal does; where it *)
(* stands says what the marker says, or will say once it is written, and   *)
(* which rules are left (Reached); and what it found in the marker when it *)
(* began puts it in such a place.                                          *)
(***************************************************************************)
EXTENDS BootstrapMigration, FiniteSetTheorems, TLAPS

(***************************************************************************)
(* The inductive invariant: the files.                                     *)
(***************************************************************************)
Legacies == {Legacy(a) : a \in Address}

NoLegacy == \A id \in DOMAIN filters : filters[id].body \notin Legacies

IsDoc(d) ==
  d \in [schema : {d.schema}, phase : {d.phase}, old : {d.old}, new : {d.new},
         unrelated : {d.unrelated}, newIds : {d.newIds}, retired : {d.retired},
         pending : {d.pending}, pinned : {d.pinned}, targets : {d.targets},
         before : {d.before}, expected : {d.expected}, applied : {d.applied}]

\* The journal knows the rules to be replaced and those that replace them.
Scoped(d) ==
  /\ IsDoc(d) /\ d.schema = 1 /\ d.new = NewBodies
  /\ DOMAIN d.old # {} /\ DOMAIN d.old \subseteq 1..used
  /\ \A id \in DOMAIN d.old :
       d.old[id] \in Legacies /\ (id \in DOMAIN filters => filters[id].body = d.old[id])
  /\ \A id \in DOMAIN filters : filters[id].body \in Legacies => id \in DOMAIN d.old
  /\ \A id \in DOMAIN d.unrelated : d.unrelated[id].body = Other

\* The identifiers of the new rules are in it, but perhaps for the one being added.
Noted(d) == \A id \in DOMAIN filters : filters[id].body \in NewBodies => id \in DOMAIN d.newIds

NotedOrPending(d) ==
  \A id \in DOMAIN filters :
    filters[id].body \in NewBodies =>
      id \in DOMAIN d.newIds \/ IsPendingAdd(d, filters[id].body)

\* A marker as it is written.
Mk(phase, authorized, started, ended) ==
  [phase |-> phase, authorized |-> authorized, started |-> started, ended |-> ended]

WellTimed(m) ==
  \/ m = Unmarked
  \/ \E x \in 0..clock : m = Mk("authorized", x, None, None)
  \/ \E x, y \in 0..clock : x <= y /\ m = Mk("window", x, y, None)
  \/ \E x, y, z \in 0..clock :
       x <= y /\ y <= z /\ z <= x + Window /\ m = Mk("committed", x, y, z)

OneRuleEach ==
  \A i, j \in DOMAIN filters :
    filters[i].body \in NewBodies /\ filters[i].body = filters[j].body => i = j

FilesInv ==
  /\ journal # None => Scoped(journal) /\ NotedOrPending(journal)
  /\ marker # None =>
       WellTimed(marker) /\ (marker.phase \in {"window", "committed"} => NoLegacy)
  /\ OneRuleEach
  /\ \E id \in DOMAIN filters : filters[id].body = Other

(***************************************************************************)
(* The inductive invariant: the process.  It is on its way to Where, with  *)
(* the journal Doc and the marker Mrk.                                     *)
(***************************************************************************)
IsSession(r) ==
  r \in [pc : {r.pc}, doc : {r.doc}, next : {r.next}, then : {r.then},
         base : {r.base}, todo : {r.todo}]

Where(r) == IF r.pc \in {"save", "mark"} THEN r.then ELSE r.pc
Doc(r) == IF r.pc = "save" THEN r.next ELSE r.doc
Mrk(r) == IF r.pc = "mark" THEN r.next ELSE marker

Opening == {"retire", "delete", "retired"}
Closing == {"scan", "add", "post", "added"}
Ending == {"commit", "publish"}
Goals == {"idle", "classify", "consent", "switch", "swap"} \cup Opening \cup Closing \cup Ending

Stands(m, phase) == m # None /\ m.phase = phase

\* What the marker is rewritten to, and from what.
Marks(r) ==
  /\ WellTimed(r.next)
  /\ \/ r.then = "consent" /\ marker = None /\ r.next = Unmarked
     \/ r.then = "retire" /\ marker = Unmarked /\ r.next.phase = "authorized"
     \/ /\ r.then \in {"switch", "commit"}
        /\ marker # None /\ marker.phase \in {"authorized", "window"}
        /\ r.next.phase = (IF r.then = "switch" THEN "window" ELSE "committed")
        /\ r.next.authorized = marker.authorized

\* The old rules that are left are still to be deleted.
Retiring(todo) == \A id \in DOMAIN filters : filters[id].body \in Legacies => id \in todo

\* The new rules are there or still to be added.
Adding(todo) ==
  todo \subseteq NewBodies /\ \A body \in NewBodies : body \in todo <=> body \notin Bodies(filters)

Reached(r) ==
  LET w == Where(r)
      d == Doc(r)
  IN  /\ w = "consent" => Mrk(r) = Unmarked
      /\ w \in {"consent"} \cup Opening => r.todo \subseteq DOMAIN d.old
      /\ w \in {"consent", "retire", "retired"} => Retiring(r.todo)
      /\ w \in Opening => Stands(Mrk(r), "authorized")
      /\ w = "delete" => \E id \in DOMAIN d.old : /\ d.pending = PendingDelete(id, d.old[id])
                                                  /\ Retiring(r.todo \cup {id})
      /\ w \in {"switch", "swap"} \cup Closing => Stands(Mrk(r), "window") /\ NoLegacy
      /\ w \in Closing \cup Ending => locator = "new"
      /\ w \in {"add", "added"} => Adding(r.todo)
      /\ w = "post" => \E body \in NewBodies : /\ d.pending = PendingAdd(body)
                                               /\ body \notin Bodies(filters)
                                               /\ body \notin r.todo
                                               /\ Adding(r.todo \cup {body})
      /\ w \in Ending => Stands(Mrk(r), "committed") /\ NoLegacy /\ Adding({})

InHand(r) ==
  /\ IsSession(r)
  /\ r.pc # "idle" =>
       /\ r.pc \in {"save", "mark"} \cup Goals
       /\ r.pc = "save" => r.then \in Goals
       /\ r.pc = "mark" => Marks(r)
       /\ r.pc # "save" => r.doc = journal
       /\ Scoped(Doc(r)) /\ Noted(Doc(r))
       /\ Reached(r)

(***************************************************************************)
(* The inductive invariant: the deadline.  Once it has passed with a       *)
(* change, no other one is in preparation.                                 *)
(***************************************************************************)
Ready(r) == r.pc # "idle" /\ Where(r) \in {"delete", "swap", "post"}

LateInv(r) ==
  /\ late \in {0, 1}
  /\ late = 1 =>
       /\ marker # None /\ marker.phase # "prepared"
       /\ clock >= marker.authorized + Window
       /\ ~Ready(r)

IInv == TypeOK /\ RulesMatchRelease /\ FilesInv /\ InHand(session) /\ LateInv(session)
(***************************************************************************)
(* The data.                                                               *)
(***************************************************************************)
\* Bodies are old, new or somebody else's, and never two of these.
LEMMA Forms ==
  /\ \A body \in Body : body \in Legacies \/ body \in NewBodies \/ body = Other
  /\ \A body \in Legacies : body \in Body /\ body.form = "legacy" /\ body \notin NewBodies
  /\ \A body \in NewBodies : body \in Body /\ body.form = "managed" /\ body \notin Legacies
  /\ Other \notin Legacies /\ Other \notin NewBodies /\ Other.form = "other" /\ Other \in Body
  /\ Legacies # {}
<1> USE DEF Body, Legacies, NewBodies, Legacy, Managed, Other
<1>1. ASSUME NEW body \in Body
      PROVE  body \in Legacies \/ body \in NewBodies \/ body = Other
  <2>1. CASE body \in [form : {"managed", "legacy"}, addr : Address]
    <3>1. /\ body = [form |-> body.form, addr |-> body.addr]
          /\ body.addr \in Address /\ body.form \in {"managed", "legacy"}
      BY <2>1
    <3> QED  BY <3>1
  <2>2. CASE body \in [form : {"other"}, addr : {None}]
    BY <2>2
  <2> QED  BY <2>1, <2>2
<1>2. ASSUME NEW body \in Legacies
      PROVE  body \in Body /\ body.form = "legacy" /\ body \notin NewBodies
  OBVIOUS
<1>3. ASSUME NEW body \in NewBodies
      PROVE  body \in Body /\ body.form = "managed" /\ body \notin Legacies
  OBVIOUS
<1>4. Other \notin Legacies /\ Other \notin NewBodies /\ Other.form = "other" /\ Other \in Body
  OBVIOUS
<1>5. Legacies # {}
  BY MigrationAssumption
<1> HIDE DEF Body, Legacies, NewBodies, Legacy, Managed, Other
<1> QED  BY <1>1, <1>2, <1>3, <1>4, <1>5

\* A marker that is well timed has its type and can be read, unless its window was opened late.
LEMMA TimedMarker ==
  ASSUME clock \in 0..MaxTime, NEW m, WellTimed(m)
  PROVE  /\ m \in Marker /\ m # None /\ m.phase \in Phases
         /\ m.phase = "prepared" => m = Unmarked
         /\ m.phase # "prepared" => m.authorized \in 0..clock
         /\ Readable(m) \/ (m.phase = "window" /\ m.started > Deadline(m))
<1> 0..clock \subseteq Times /\ None \in Times /\ None \notin 0..clock /\ None \notin Marker
  BY AbsenceAssumption, MigrationAssumption DEF Times
<1> USE MigrationAssumption
<1> DEFINE Goal ==
             /\ m \in Marker /\ m # None /\ m.phase \in Phases
             /\ m.phase = "prepared" => m = Unmarked
             /\ m.phase # "prepared" => m.authorized \in 0..clock
             /\ Readable(m) \/ (m.phase = "window" /\ m.started > Deadline(m))
<1> DEFINE Keys == {"authorized", "started", "ended"}
<1>1. CASE m = Unmarked
  BY <1>1 DEF Unmarked, Marker, Phases, Readable
<1>2. ASSUME NEW x \in 0..clock, m = Mk("authorized", x, None, None)
      PROVE  Goal
  BY <1>2 DEF Mk, Marker, Phases, Readable
<1>3. ASSUME NEW x \in 0..clock, NEW y \in 0..clock, x <= y, m = Mk("window", x, y, None)
      PROVE  Goal
  <2>1. {key \in Keys : m[key] # None} = {"authorized", "started"}
    BY <1>3 DEF Mk
  <2> QED  BY <1>3, <2>1 DEF Mk, Marker, Phases, Readable, Deadline
<1>4. ASSUME NEW x \in 0..clock, NEW y \in 0..clock, NEW z \in 0..clock,
             x <= y, y <= z, z <= x + Window, m = Mk("committed", x, y, z)
      PROVE  Goal
  <2>1. {key \in Keys : m[key] # None} = Keys
    BY <1>4 DEF Mk
  <2> QED  BY <1>4, <2>1 DEF Mk, Marker, Phases, Readable, Deadline
<1> QED  BY <1>1, <1>2, <1>3, <1>4 DEF WellTimed

\* A marker is its four fields.
Fields(phase, authorized, started, ended) ==
  [phase : {phase}, authorized : {authorized}, started : {started}, ended : {ended}]

LEMMA MarkerIs ==
  ASSUME NEW p, NEW a, NEW s, NEW e, NEW m \in Fields(p, a, s, e)
  PROVE  m = Mk(p, a, s, e)
BY DEF Fields, Mk

\* A journal that goes on with the same rules.
Revised(d, e) ==
  IsDoc(e) /\ e.schema = d.schema /\ e.new = d.new /\ e.old = d.old /\ e.unrelated = d.unrelated

LEMMA RevisedScope ==
  ASSUME NEW d, NEW e, Scoped(d), Revised(d, e)
  PROVE  Scoped(e)
  BY DEF Scoped, Revised

LEMMA IdleInHand == InHand(Idle) /\ ~Ready(Idle)
  BY DEF InHand, Idle, IsSession, Ready

\* What a reading teaches is about the same rules, and forgets no identifier.
LEMMA NewsRevise ==
  ASSUME NEW d, NEW base, IsDoc(d)
  PROVE  /\ Revised(d, News(d, base, filters))
         /\ DOMAIN d.newIds \subseteq DOMAIN News(d, base, filters).newIds
<1>1. Revised(d, Retired(d, filters)) /\ Retired(d, filters).newIds = d.newIds
  <2> DEFINE t == d.retired \cup Vanished(d, filters)
  <2> HIDE DEF t
  <2>1. LET e == [d EXCEPT !.phase = "active", !.retired = t, !.pending = None]
        IN  Revised(d, e) /\ e.newIds = d.newIds
    BY DEF IsDoc, Revised
  <2> QED  BY <2>1 DEF Retired, t
<1>2. /\ Revised(d, Adopted(d, base, filters))
      /\ DOMAIN d.newIds \subseteq DOMAIN Adopted(d, base, filters).newIds
  <2> DEFINE id == CHOOSE i \in Adoptable(d, base, filters) : TRUE
             n == With(d.newIds, id, filters[id].body)
  <2>1. DOMAIN d.newIds \subseteq DOMAIN n
    BY DEF With
  <2> HIDE DEF n
  <2>2. LET e == [d EXCEPT !.phase = "active", !.newIds = n, !.pending = None]
        IN  Revised(d, e) /\ e.newIds = n
    BY DEF IsDoc, Revised
  <2> QED  BY <2>1, <2>2 DEF Adopted, n
<1> QED  BY <1>1, <1>2 DEF News

(***************************************************************************)
(* Steps of the process alone.                                             *)
(***************************************************************************)
Quiet == UNCHANGED <<serverVars, late>> /\ Still

LEMMA SessionStep ==
  ASSUME IInv, UNCHANGED <<serverVars, late, clock, renumbers>>, faults' \in 0..MaxFaults,
         NEW r, InHand(r), session' = r, late = 1 => ~Ready(r)
  PROVE  IInv'
<1> USE DEF serverVars
<1>1. TypeOK'
  BY DEF IInv, TypeOK, Readable, Deadline
<1>2. RulesMatchRelease'
  BY DEF IInv, RulesMatchRelease, Has
<1>3. FilesInv'
  BY DEF IInv, FilesInv, Scoped, NotedOrPending, WellTimed, NoLegacy, OneRuleEach
<1>4. InHand(session)'
  BY DEF InHand, Scoped, Noted, Reached, Marks, WellTimed, NoLegacy, Retiring, Adding, Mrk, Doc,
         Bodies
<1>5. LateInv(session)'
  BY DEF IInv, LateInv
<1> QED  BY <1>1, <1>2, <1>3, <1>4, <1>5 DEF IInv

LEMMA QuietStep ==
  ASSUME IInv, Quiet, NEW r, InHand(r), session' = r, late = 1 => ~Ready(r)
  PROVE  IInv'
<1>1. UNCHANGED <<serverVars, late, clock, renumbers>> /\ faults' \in 0..MaxFaults
  BY DEF Quiet, Still, IInv, TypeOK
<1> QED  BY <1>1, SessionStep

\* Where a reading can be made, and what saving its news means for the process.
Audited == {"classify", "retire", "retired", "switch", "scan", "add", "added"}

LEMMA AuditSteps ==
  ASSUME IInv, NEW pc \in Audited, NEW Bs, Audit(pc, Bs)
  PROVE  /\ Quiet /\ At(pc)
         /\ \/ IInv'
            \/ \E r \in Bs : session' = r
<1> DEFINE r == session
           e == News(r.doc, r.base, filters)
           s == Saving(r, e, pc)
<1>1. Quiet /\ At(pc)
  BY DEF Audit, Quiet
<1>2. CASE session' = s
  <2> HIDE DEF e
  <2>1. /\ IsSession(r) /\ r.pc = pc /\ Scoped(r.doc) /\ Noted(r.doc) /\ Reached(r)
    BY <1>1 DEF IInv, InHand, At, Audited, Doc
  <2>2. /\ IsSession(s) /\ s.pc = "save" /\ s.next = e /\ s.then = pc /\ s.todo = r.todo
    BY <2>1 DEF IsSession, Saving, Writing
  <2>3. Scoped(e) /\ Noted(e) /\ e.old = r.doc.old
    <3>1. Revised(r.doc, e) /\ DOMAIN r.doc.newIds \subseteq DOMAIN e.newIds
      BY <2>1, NewsRevise DEF Scoped, e
    <3> QED  BY <2>1, <3>1, RevisedScope DEF Noted, Revised
  <2> HIDE DEF s, e
  <2>4. Reached(s)
    BY <2>1, <2>2, <2>3 DEF Reached, Where, Mrk, Doc, Audited, Opening, Closing, Ending
  <2>5. InHand(s)
    BY <2>2, <2>3, <2>4 DEF InHand, Doc, Audited, Goals, Opening, Closing
  <2>6. ~Ready(s)
    BY <2>2 DEF Ready, Where, Audited
  <2> QED  BY <1>1, <1>2, <2>5, <2>6, QuietStep
<1> HIDE DEF e
<1>3. CASE session' = Idle
  BY <1>1, <1>3, IdleInHand, QuietStep
<1> QED  BY <1>1, <1>2, <1>3 DEF Audit, Become, Stop, e

(***************************************************************************)
(* Beginning.                                                              *)
(***************************************************************************)
\* What the rules there are say about the locator.
LEMMA Kinds ==
  ASSUME IInv
  PROVE  \A id \in DOMAIN filters :
           /\ id \in 1..used
           /\ filters[id].body \in Body
           /\ filters[id].body \in Legacies => locator = "old"
           /\ filters[id].body \in NewBodies => locator = "new"
<1> SUFFICES ASSUME NEW id \in DOMAIN filters
             PROVE  /\ id \in 1..used
                    /\ filters[id].body \in Body
                    /\ filters[id].body \in Legacies => locator = "old"
                    /\ filters[id].body \in NewBodies => locator = "new"
  OBVIOUS
<1>1. id \in 1..used /\ filters[id] \in Rule
  BY DEF IInv, TypeOK, IsPartial
<1>2. filters[id].body \in Body
  BY <1>1 DEF Rule
<1> QED  BY <1>1, <1>2, Forms DEF IInv, RulesMatchRelease, Has

LEMMA FirstJournalScope ==
  ASSUME IInv, OneOldRuleEach(filters)
  PROVE  Scoped(FirstJournal(filters)) /\ Noted(FirstJournal(filters))
<1> DEFINE d == FirstJournal(filters)
           old == OldRules(filters)
<1>1. /\ IsDoc(d) /\ d.schema = 1 /\ d.new = NewBodies
      /\ d.old = [id \in old |-> filters[id].body]
      /\ d.unrelated = Restrict(filters, DOMAIN filters \ old)
  BY DEF FirstJournal, EmptyJournal, IsDoc
<1>2. /\ old \subseteq DOMAIN filters
      /\ \A id \in DOMAIN filters : id \in old <=> filters[id].body \in Legacies
  BY DEF OldRules, Legacies
<1>3. old # {}
  <2>1. PICK a \in Address : TRUE
    BY MigrationAssumption
  <2> DEFINE those == {id \in DOMAIN filters : filters[id].body = Legacy(a)}
  <2>2. Cardinality(those) = 1
    BY DEF OneOldRuleEach
  <2>3. those # {}
    BY <2>2, FS_EmptySet
  <2> QED  BY <1>2, <2>3 DEF Legacies
<1>4. \A id \in DOMAIN filters : filters[id].body \notin NewBodies
  BY <1>2, <1>3, Kinds
<1>5. \A id \in DOMAIN d.unrelated : d.unrelated[id].body = Other
  BY <1>1, <1>2, <1>4, Kinds, Forms DEF Restrict
<1> HIDE DEF d
<1>6. Scoped(d)
  BY <1>1, <1>2, <1>3, <1>5, Kinds DEF Scoped
<1> QED  BY <1>4, <1>6 DEF Noted, d

LEMMA FiniteRules ==
  ASSUME IInv
  PROVE  IsFiniteSet(DOMAIN filters)
<1>1. used \in Int /\ DOMAIN filters \subseteq 1..used
  BY DEF IInv, TypeOK
<1>2. IsFiniteSet(1..used)
  BY <1>1, FS_Interval
<1> QED  BY <1>1, <1>2, FS_Subset

LEMMA TakenOverScope ==
  ASSUME IInv, journal # None, Resumable(journal, filters)
  PROVE  Scoped(TakenOver(journal, filters)) /\ Noted(TakenOver(journal, filters))
<1> DEFINE d == journal
           unknown == Strangers(d, filters)
<1>1. Scoped(d) /\ NotedOrPending(d)
  BY DEF IInv, FilesInv
<1>2. \A id \in DOMAIN filters :
        filters[id].body \in NewBodies => id \in DOMAIN d.newIds \/ id \in unknown
  BY <1>1, Forms DEF Scoped, Resumable, Strangers
<1>3. CASE unknown = {}
  BY <1>1, <1>2, <1>3 DEF TakenOver, Noted
<1>4. CASE unknown # {}
  <2> DEFINE id == CHOOSE i \in unknown : TRUE
             n == With(d.newIds, id, filters[id].body)
             e == [d EXCEPT !.newIds = n, !.pending = None]
  <2>1. e = TakenOver(d, filters)
    BY <1>4 DEF TakenOver
  <2>2. unknown = {id}
    <3>1. id \in unknown
      BY <1>4
    <3>2. IsFiniteSet(unknown)
      BY FiniteRules, FS_Subset DEF Strangers
    <3>3. \A i \in unknown : i = id
      <4> SUFFICES ASSUME NEW i \in unknown, i # id
                   PROVE  FALSE
        OBVIOUS
      <4>1. Cardinality({i, id}) = 2
        BY FS_AddElement, FS_Singleton
      <4>2. Cardinality({i, id}) <= Cardinality(unknown) /\ Cardinality(unknown) \in Nat
        BY <3>1, <3>2, FS_Subset, FS_CardinalityType
      <4> QED  BY <4>1, <4>2 DEF Resumable
    <3> QED  BY <3>1, <3>3
  <2>3. DOMAIN n = DOMAIN d.newIds \cup {id}
    BY DEF With
  <2> HIDE DEF n, d
  <2>4. Revised(d, e) /\ e.newIds = n
    BY <1>1 DEF IsDoc, Revised, Scoped
  <2> HIDE DEF e, id
  <2>5. Noted(e)
    BY <1>2, <2>2, <2>3, <2>4 DEF Noted
  <2> QED  BY <1>1, <2>1, <2>4, <2>5, RevisedScope DEF d
<1> QED  BY <1>3, <1>4

LEMMA BeginIInv == IInv /\ Begin => IInv'
<1> SUFFICES ASSUME IInv, Begin
             PROVE  IInv'
  OBVIOUS
<1>1. Quiet
  BY DEF Begin, Quiet
<1>2. ASSUME NEW d, Scoped(d), Noted(d), Become(Begun(d))
      PROVE  IInv'
  <2> DEFINE s == Begun(d)
  <2>1. /\ IsSession(s) /\ s.pc = "save" /\ s.next = d /\ s.then \in {"classify", "idle"}
    BY DEF Begun, Saving, Writing, Idle, IsSession
  <2> HIDE DEF s
  <2>2. InHand(s) /\ ~Ready(s)
    BY <1>2, <2>1 DEF InHand, Reached, Ready, Where, Doc, Goals, Opening, Closing, Ending
  <2> QED  BY <1>1, <1>2, <2>2, QuietStep DEF Become, s
<1>3. CASE Stop
  BY <1>1, <1>3, IdleInHand, QuietStep DEF Stop
<1> QED  BY <1>2, <1>3, FirstJournalScope, TakenOverScope DEF Begin

(***************************************************************************)
(* Where the migration stands.                                             *)
(***************************************************************************)
LEMMA Standing ==
  ASSUME IInv, NEW pc \in Goals \ {"idle"}, At(pc)
  PROVE  /\ IsSession(session) /\ session.pc = pc /\ session.doc = journal
         /\ Scoped(journal) /\ Noted(journal)
         /\ Where(session) = pc /\ Doc(session) = journal /\ Mrk(session) = marker
         /\ Reached(session)
  BY DEF IInv, InHand, At, Where, Doc, Mrk, Goals, Opening, Closing, Ending

\* What a process has in hand that has read the list and goes on to another place.
LEMMA GoesOn ==
  ASSUME IInv, Scoped(journal), Noted(journal),
         NEW r, IsSession(r), r.pc \in Goals \ {"idle"}, r.doc = journal, Reached(r)
  PROVE  InHand(r)
  BY DEF InHand, Doc, Goals, Opening, Closing, Ending

LEMMA ClassifyIInv == IInv /\ Classify => IInv'
<1> SUFFICES ASSUME IInv, Classify
             PROVE  IInv'
  OBVIOUS
<1> DEFINE all == OwnBodies = Range(session.doc.old)
           r == [session EXCEPT !.todo = OldPresent]
           s1 == [r EXCEPT !.pc = Interrupted]
           s2 == Marking(r, Unmarked, "consent")
           s3 == [r EXCEPT !.pc = "consent"]
<1>1. /\ Quiet /\ At("classify")
      /\ \/ IInv'
         \/ session' = Idle
         \/ Interrupted # "idle" /\ session' = s1
         \/ Interrupted = "idle" /\ all /\ marker = None /\ session' = s2
         \/ Interrupted = "idle" /\ all /\ marker # None /\ session' = s3
  BY AuditSteps DEF Classify, Audited
<1>2. /\ IsSession(session) /\ session.doc = journal /\ Scoped(journal) /\ Noted(journal)
  BY <1>1, Standing DEF Goals
<1>3. OldPresent \subseteq DOMAIN journal.old /\ Retiring(OldPresent)
  BY <1>2 DEF OldPresent, Scoped, Retiring
<1>4. CASE session' = Idle
  BY <1>1, <1>4, IdleInHand, QuietStep
<1>5. CASE Interrupted # "idle" /\ session' = s1
  <2>1. /\ IsSession(s1) /\ s1.pc = Interrupted /\ s1.doc = journal /\ s1.todo = OldPresent
    BY <1>2 DEF IsSession
  <2> HIDE DEF s1
  <2>2. CASE Interrupted = "switch"
    <3>1. marker # None /\ marker.phase = "window"
      BY <2>2 DEF Interrupted, Phase
    <3>2. NoLegacy
      BY <3>1 DEF IInv, FilesInv
    <3>3. Reached(s1) /\ ~Ready(s1)
      BY <2>1, <2>2, <3>1, <3>2
         DEF Reached, Ready, Where, Doc, Mrk, Stands, Opening, Closing, Ending
    <3> QED  BY <1>1, <1>2, <1>5, <2>1, <2>2, <3>3, GoesOn, QuietStep DEF Goals
  <2>3. CASE Interrupted = "retire"
    <3>1. marker # None /\ marker.phase = "authorized"
      BY <2>3 DEF Interrupted, Phase
    <3>2. Reached(s1) /\ ~Ready(s1)
      BY <1>3, <2>1, <2>3, <3>1
         DEF Reached, Ready, Where, Doc, Mrk, Stands, Opening, Closing, Ending
    <3> QED  BY <1>1, <1>2, <1>5, <2>1, <2>3, <3>2, GoesOn, QuietStep DEF Goals, Opening
  <2> QED  BY <1>5, <2>2, <2>3 DEF Interrupted
<1>6. CASE marker = None /\ session' = s2
  <2>1. /\ IsSession(s2) /\ s2.pc = "mark" /\ s2.doc = journal /\ s2.todo = OldPresent
        /\ s2.next = Unmarked /\ s2.then = "consent"
    BY <1>2 DEF IsSession, Marking, Writing
  <2> HIDE DEF s2
  <2>2. Reached(s2) /\ ~Ready(s2) /\ Marks(s2)
    BY <1>3, <1>6, <2>1
       DEF Reached, Ready, Marks, Where, Doc, Mrk, WellTimed, Opening, Closing, Ending
  <2>3. InHand(s2)
    BY <1>2, <2>1, <2>2 DEF InHand, Doc
  <2> QED  BY <1>1, <1>6, <2>2, <2>3, QuietStep
<1>7. CASE Interrupted = "idle" /\ all /\ marker # None /\ session' = s3
  <2>1. /\ IsSession(s3) /\ s3.pc = "consent" /\ s3.doc = journal /\ s3.todo = OldPresent
    BY <1>2 DEF IsSession
  <2>2. marker.phase # "authorized"
    BY <1>7 DEF Interrupted, Phase
  <2>3. ~NoLegacy
    <3>1. PICK id \in DOMAIN journal.old : TRUE
      BY <1>2 DEF Scoped
    <3>2. journal.old[id] \in Legacies /\ journal.old[id] \in OwnBodies
      BY <1>2, <1>7, <3>1 DEF Scoped, Range
    <3>3. PICK i \in DOMAIN filters : filters[i].body = journal.old[id]
      BY <3>2 DEF OwnBodies, OwnIds
    <3> QED  BY <3>2, <3>3 DEF NoLegacy
  <2>4. marker = Unmarked
    BY <1>7, <2>2, <2>3, TimedMarker DEF IInv, FilesInv, TypeOK, Phases
  <2> HIDE DEF s3
  <2>5. Reached(s3) /\ ~Ready(s3)
    BY <1>3, <2>1, <2>4 DEF Reached, Ready, Where, Doc, Mrk, Opening, Closing, Ending
  <2> QED  BY <1>1, <1>2, <1>7, <2>1, <2>5, GoesOn, QuietStep DEF Goals
<1> QED  BY <1>1, <1>4, <1>5, <1>6, <1>7

(***************************************************************************)
(* The operator's agreement, and the deletions.                            *)
(***************************************************************************)
\* A process that is about to write a journal that goes on, or a marker.
LEMMA SavesOn ==
  ASSUME IInv, Scoped(journal), Noted(journal), NEW e, Revised(journal, e),
         DOMAIN journal.newIds \subseteq DOMAIN e.newIds,
         NEW r, IsSession(r), r.pc = "save", r.next = e, r.then \in Goals, Reached(r)
  PROVE  InHand(r)
<1>1. Scoped(e) /\ Noted(e)
  BY RevisedScope DEF Noted
<1> QED  BY <1>1 DEF InHand, Doc

LEMMA MarksOn ==
  ASSUME IInv, Scoped(journal), Noted(journal),
         NEW r, IsSession(r), r.pc = "mark", r.doc = journal, Marks(r), Reached(r)
  PROVE  InHand(r)
  BY DEF InHand, Doc

LEMMA ConsentIInv == IInv /\ Consent => IInv'
<1> SUFFICES ASSUME IInv, Consent
             PROVE  IInv'
  OBVIOUS
<1> DEFINE m == [marker EXCEPT !.phase = "authorized", !.authorized = clock]
           s == Marking(session, m, "retire")
<1>1. Quiet /\ At("consent") /\ session' = s
  BY DEF Consent, Quiet, Become
<1>2. /\ IsSession(session) /\ session.doc = journal /\ Scoped(journal) /\ Noted(journal)
      /\ marker = Unmarked /\ Retiring(session.todo) /\ session.todo \subseteq DOMAIN journal.old
  BY <1>1, Standing DEF Goals, Reached
<1>3. m = Mk("authorized", clock, None, None) /\ clock \in 0..clock
  <2>1. m \in Fields("authorized", clock, None, None)
    BY <1>2 DEF Unmarked, Fields
  <2>2. clock \in Nat
    BY MigrationAssumption DEF IInv, TypeOK
  <2> QED  BY <2>1, <2>2, MarkerIs
<1> HIDE DEF m
<1>4. /\ IsSession(s) /\ s.pc = "mark" /\ s.doc = journal /\ s.next = m /\ s.then = "retire"
      /\ s.todo = session.todo
  BY <1>2 DEF IsSession, Marking, Writing
<1> HIDE DEF s
<1>5. WellTimed(m) /\ m.phase = "authorized" /\ m # None
  <2>1. WellTimed(m) /\ m.phase = "authorized"
    BY <1>3 DEF WellTimed, Mk
  <2> QED  BY <2>1, TimedMarker DEF IInv, TypeOK
<1>6. Marks(s) /\ Reached(s) /\ ~Ready(s)
  BY <1>2, <1>4, <1>5
     DEF Marks, Reached, Ready, Where, Doc, Mrk, Stands, Opening, Closing, Ending
<1> QED  BY <1>1, <1>2, <1>4, <1>6, MarksOn, QuietStep

\* A change that is checked for time is not the second late one.
LEMMA TimedSteps ==
  ASSUME IInv, NEW pc \in Audited, NEW Bs, Timed(pc, Bs)
  PROVE  /\ Quiet /\ At(pc)
         /\ IInv' \/ (late # 1 /\ \E r \in Bs : session' = r)
<1>1. CASE InTime
  <2>1. late # 1
    <3> SUFFICES ASSUME late = 1
                 PROVE  FALSE
      OBVIOUS
    <3>1. clock >= marker.authorized + Window /\ marker # None /\ marker.phase # "prepared"
      BY DEF IInv, LateInv
    <3>2. marker.authorized \in Nat /\ clock \in Nat
      BY <3>1, TimedMarker, MigrationAssumption DEF IInv, FilesInv, TypeOK
    <3> QED  BY <1>1, <3>1, <3>2, MigrationAssumption DEF InTime, Deadline
  <2> QED  BY <1>1, <2>1, AuditSteps DEF Timed
<1>2. CASE ~InTime
  BY <1>2, IdleInHand, QuietStep DEF Timed, Stop, Quiet
<1> QED  BY <1>1, <1>2

LEMMA RetireIInv == IInv /\ Retire => IInv'
<1> SUFFICES ASSUME IInv, Retire
             PROVE  IInv'
  OBVIOUS
<1> DEFINE e(id) == [session.doc EXCEPT !.phase = "active",
                                        !.pending = PendingDelete(id, session.doc.old[id])]
           r(id) == [session EXCEPT !.todo = @ \ {id}]
           s(id) == Saving(r(id), e(id), "delete")
<1>1. /\ Quiet /\ At("retire")
      /\ IInv' \/ (late # 1 /\ \E id \in session.todo : session' = s(id))
  <2>1. Timed("retire", {s(id) : id \in session.todo})
    BY DEF Retire
  <2> HIDE DEF s
  <2> QED  BY <2>1, TimedSteps DEF Audited
<1>2. /\ IsSession(session) /\ session.doc = journal /\ Scoped(journal) /\ Noted(journal)
      /\ Stands(marker, "authorized") /\ Retiring(session.todo)
      /\ session.todo \subseteq DOMAIN journal.old
  BY <1>1, Standing DEF Goals, Opening, Reached
<1>3. ASSUME late # 1, NEW id \in session.todo, session' = s(id)
      PROVE  IInv'
  <2>1. /\ Revised(journal, e(id)) /\ e(id).newIds = journal.newIds
        /\ e(id).pending = PendingDelete(id, journal.old[id]) /\ e(id).old = journal.old
    BY <1>2 DEF IsDoc, Revised, Scoped
  <2>2. IsSession(r(id)) /\ r(id).todo = session.todo \ {id}
    BY <1>2 DEF IsSession
  <2> HIDE DEF e, r
  <2>3. /\ IsSession(s(id)) /\ s(id).pc = "save" /\ s(id).next = e(id)
        /\ s(id).then = "delete" /\ s(id).todo = session.todo \ {id}
    BY <2>2 DEF IsSession, Saving, Writing
  <2> HIDE DEF s
  <2>4. Retiring(s(id).todo \cup {id}) /\ id \in DOMAIN journal.old
    BY <1>2, <2>3 DEF Retiring
  <2>5. Reached(s(id))
    BY <1>2, <2>1, <2>3, <2>4 DEF Reached, Where, Doc, Mrk, Opening, Closing, Ending
  <2>6. InHand(s(id))
    BY <1>2, <2>1, <2>3, <2>5, SavesOn DEF Goals, Opening
  <2> QED  BY <1>1, <1>3, <2>6, QuietStep
<1> QED  BY <1>1, <1>3

LEMMA DeleteEndsIInv == IInv /\ DeleteEnds => IInv'
<1> SUFFICES ASSUME IInv, DeleteEnds
             PROVE  IInv'
  OBVIOUS
<1> DEFINE s == [session EXCEPT !.pc = "retire"]
<1>1. Quiet /\ At("retired") /\ (IInv' \/ session' = s)
  BY AuditSteps DEF DeleteEnds, Audited
<1>2. /\ IsSession(session) /\ session.doc = journal /\ Scoped(journal) /\ Noted(journal)
      /\ Stands(marker, "authorized") /\ Retiring(session.todo)
      /\ session.todo \subseteq DOMAIN journal.old
  BY <1>1, Standing DEF Goals, Opening, Reached
<1>3. IsSession(s) /\ s.pc = "retire" /\ s.doc = journal /\ s.todo = session.todo
  BY <1>2 DEF IsSession
<1> HIDE DEF s
<1>4. Reached(s) /\ ~Ready(s)
  BY <1>2, <1>3 DEF Reached, Ready, Where, Doc, Mrk, Opening, Closing, Ending
<1>5. InHand(s)
  BY <1>2, <1>3, <1>4, GoesOn DEF Goals, Opening
<1> QED  BY <1>1, <1>4, <1>5, QuietStep

LEMMA OpenWindowIInv == IInv /\ OpenWindow => IInv'
<1> SUFFICES ASSUME IInv, OpenWindow
             PROVE  IInv'
  OBVIOUS
<1> DEFINE m == [marker EXCEPT !.phase = "window", !.started = clock]
           s == Marking(session, m, "switch")
<1>1. Quiet /\ At("retire") /\ session.todo = {} /\ session' = s
  BY DEF OpenWindow, Quiet, Become
<1>2. /\ IsSession(session) /\ session.doc = journal /\ Scoped(journal) /\ Noted(journal)
      /\ marker # None /\ marker.phase = "authorized" /\ NoLegacy
  BY <1>1, Standing DEF Goals, Opening, Reached, Stands, Retiring, NoLegacy
<1>3. PICK x \in 0..clock : marker = Mk("authorized", x, None, None)
  BY <1>2 DEF IInv, FilesInv, WellTimed, Mk, Unmarked
<1>4. m = Mk("window", x, clock, None)
  <2>1. m \in Fields("window", x, clock, None)
    BY <1>3 DEF Mk, Fields
  <2> QED  BY <2>1, MarkerIs
<1> HIDE DEF m
<1>5. /\ IsSession(s) /\ s.pc = "mark" /\ s.doc = journal /\ s.next = m /\ s.then = "switch"
  BY <1>2 DEF IsSession, Marking, Writing
<1> HIDE DEF s
<1>6. WellTimed(m) /\ m.phase = "window" /\ m.authorized = marker.authorized /\ m # None
  <2>1. clock \in 0..clock /\ x <= clock
    BY MigrationAssumption DEF IInv, TypeOK
  <2>2. m.phase = "window" /\ m.authorized = marker.authorized
    BY <1>3, <1>4 DEF Mk
  <2>3. WellTimed(m)
    BY <1>4, <2>1 DEF WellTimed
  <2> QED  BY <2>2, <2>3, TimedMarker DEF IInv, TypeOK
<1>7. Marks(s) /\ Reached(s) /\ ~Ready(s)
  BY <1>2, <1>5, <1>6
     DEF Marks, Reached, Ready, Where, Doc, Mrk, Stands, Opening, Closing, Ending
<1> QED  BY <1>1, <1>2, <1>5, <1>7, MarksOn, QuietStep

(***************************************************************************)
(* The switch, and the new rules.                                          *)
(***************************************************************************)
LEMMA CheckSwitchIInv == IInv /\ CheckSwitch => IInv'
<1> SUFFICES ASSUME IInv, CheckSwitch
             PROVE  IInv'
  OBVIOUS
<1> DEFINE s == [session EXCEPT !.pc = "swap"]
<1>1. Quiet /\ At("switch") /\ (IInv' \/ (late # 1 /\ session' = s))
  BY TimedSteps DEF CheckSwitch, Audited
<1>2. /\ IsSession(session) /\ session.doc = journal /\ Scoped(journal) /\ Noted(journal)
      /\ Stands(marker, "window") /\ NoLegacy
  BY <1>1, Standing DEF Goals, Reached
<1>3. IsSession(s) /\ s.pc = "swap" /\ s.doc = journal
  BY <1>2 DEF IsSession
<1> HIDE DEF s
<1>4. Reached(s)
  BY <1>2, <1>3 DEF Reached, Where, Doc, Mrk, Opening, Closing, Ending
<1>5. InHand(s)
  BY <1>2, <1>3, <1>4, GoesOn DEF Goals
<1> QED  BY <1>1, <1>5, QuietStep

LEMMA ScanIInv == IInv /\ Scan => IInv'
<1> SUFFICES ASSUME IInv, Scan
             PROVE  IInv'
  OBVIOUS
<1> DEFINE s == [session EXCEPT !.pc = "add", !.todo = Missing]
<1>1. Quiet /\ At("scan") /\ (IInv' \/ session' = s)
  BY AuditSteps DEF Scan, Audited
<1>2. /\ IsSession(session) /\ session.doc = journal /\ Scoped(journal) /\ Noted(journal)
      /\ Stands(marker, "window") /\ NoLegacy /\ locator = "new"
  BY <1>1, Standing DEF Goals, Closing, Reached
<1>3. IsSession(s) /\ s.pc = "add" /\ s.doc = journal /\ s.todo = Missing
  BY <1>2 DEF IsSession
<1>4. Adding(Missing)
  <2>1. \A body \in NewBodies : body \in OwnBodies <=> body \in Bodies(filters)
    BY <1>2 DEF OwnBodies, OwnIds, Bodies, Noted
  <2> QED  BY <1>2, <2>1 DEF Adding, Missing, Scoped
<1> HIDE DEF s
<1>5. Reached(s) /\ ~Ready(s)
  BY <1>2, <1>3, <1>4 DEF Reached, Ready, Where, Doc, Mrk, Opening, Closing, Ending
<1>6. InHand(s)
  BY <1>2, <1>3, <1>5, GoesOn DEF Goals, Closing
<1> QED  BY <1>1, <1>5, <1>6, QuietStep

LEMMA AddIInv == IInv /\ Add => IInv'
<1> SUFFICES ASSUME IInv, Add
             PROVE  IInv'
  OBVIOUS
<1> DEFINE e(body) == [session.doc EXCEPT !.phase = "active", !.pending = PendingAdd(body)]
           r(body) == [session EXCEPT !.todo = @ \ {body}]
           s(body) == Saving(r(body), e(body), "post")
<1>1. /\ Quiet /\ At("add")
      /\ IInv' \/ (late # 1 /\ \E body \in session.todo : session' = s(body))
  <2>1. Timed("add", {s(body) : body \in session.todo})
    BY DEF Add
  <2> HIDE DEF s
  <2> QED  BY <2>1, TimedSteps DEF Audited
<1>2. /\ IsSession(session) /\ session.doc = journal /\ Scoped(journal) /\ Noted(journal)
      /\ Stands(marker, "window") /\ NoLegacy /\ locator = "new" /\ Adding(session.todo)
  BY <1>1, Standing DEF Goals, Closing, Reached
<1>3. ASSUME late # 1, NEW body \in session.todo, session' = s(body)
      PROVE  IInv'
  <2>1. /\ Revised(journal, e(body)) /\ e(body).newIds = journal.newIds
        /\ e(body).pending = PendingAdd(body)
    BY <1>2 DEF IsDoc, Revised, Scoped
  <2>2. IsSession(r(body)) /\ r(body).todo = session.todo \ {body}
    BY <1>2 DEF IsSession
  <2> HIDE DEF e, r
  <2>3. /\ IsSession(s(body)) /\ s(body).pc = "save" /\ s(body).next = e(body)
        /\ s(body).then = "post" /\ s(body).todo = session.todo \ {body}
    BY <2>2 DEF IsSession, Saving, Writing
  <2> HIDE DEF s
  <2>4. /\ body \in NewBodies /\ body \notin Bodies(filters) /\ body \notin s(body).todo
        /\ Adding(s(body).todo \cup {body})
    <3>1. (session.todo \ {body}) \cup {body} = session.todo
      OBVIOUS
    <3> QED  BY <1>2, <2>3, <3>1 DEF Adding
  <2>5. Reached(s(body))
    BY <1>2, <2>1, <2>3, <2>4 DEF Reached, Where, Doc, Mrk, Opening, Closing, Ending
  <2>6. InHand(s(body))
    BY <1>2, <2>1, <2>3, <2>5, SavesOn DEF Goals, Closing
  <2> QED  BY <1>1, <1>3, <2>6, QuietStep
<1> QED  BY <1>1, <1>3

LEMMA AddedIInv == IInv /\ Added => IInv'
<1> SUFFICES ASSUME IInv, Added
             PROVE  IInv'
  OBVIOUS
<1> DEFINE e == [session.doc EXCEPT !.pending = None]
           s == Saving(session, e, "add")
<1>1. Quiet /\ At("added") /\ (IInv' \/ session' = s)
  BY AuditSteps DEF Added, Audited
<1>2. /\ IsSession(session) /\ session.doc = journal /\ Scoped(journal) /\ Noted(journal)
      /\ Stands(marker, "window") /\ NoLegacy /\ locator = "new" /\ Adding(session.todo)
  BY <1>1, Standing DEF Goals, Closing, Reached
<1>3. Revised(journal, e) /\ e.newIds = journal.newIds
  BY <1>2 DEF IsDoc, Revised, Scoped
<1> HIDE DEF e
<1>4. IsSession(s) /\ s.pc = "save" /\ s.next = e /\ s.then = "add" /\ s.todo = session.todo
  BY <1>2 DEF IsSession, Saving, Writing
<1> HIDE DEF s
<1>5. Reached(s) /\ ~Ready(s)
  BY <1>2, <1>4 DEF Reached, Ready, Where, Doc, Mrk, Opening, Closing, Ending
<1>6. InHand(s)
  BY <1>2, <1>3, <1>4, <1>5, SavesOn DEF Goals, Closing
<1> QED  BY <1>1, <1>5, <1>6, QuietStep

(***************************************************************************)
(* The end, and giving up.                                                 *)
(***************************************************************************)
LEMMA CompleteIInv == IInv /\ Complete => IInv'
<1> SUFFICES ASSUME IInv, Complete
             PROVE  IInv'
  OBVIOUS
<1> DEFINE m == [marker EXCEPT !.phase = "committed", !.ended = clock]
           s == Marking(session, m, "commit")
<1>1. /\ Quiet /\ At("add") /\ session.todo = {}
      /\ (InTime /\ session' = s) \/ session' = Idle
  BY DEF Complete, Quiet, Become, Stop
<1>2. /\ IsSession(session) /\ session.doc = journal /\ Scoped(journal) /\ Noted(journal)
      /\ marker # None /\ marker.phase = "window" /\ NoLegacy /\ locator = "new" /\ Adding({})
  BY <1>1, Standing DEF Goals, Closing, Reached, Stands
<1>3. PICK x, y \in 0..clock : x <= y /\ marker = Mk("window", x, y, None)
  BY <1>2 DEF IInv, FilesInv, WellTimed, Mk, Unmarked
<1>4. m = Mk("committed", x, y, clock)
  <2>1. m \in Fields("committed", x, y, clock)
    BY <1>3 DEF Mk, Fields
  <2> QED  BY <2>1, MarkerIs
<1> HIDE DEF m
<1>5. /\ IsSession(s) /\ s.pc = "mark" /\ s.doc = journal /\ s.next = m /\ s.then = "commit"
  BY <1>2 DEF IsSession, Marking, Writing
<1> HIDE DEF s
<1>6. ASSUME InTime
      PROVE  WellTimed(m) /\ m.phase = "committed" /\ m.authorized = marker.authorized /\ m # None
  <2>1. clock \in 0..clock /\ y <= clock
    BY MigrationAssumption DEF IInv, TypeOK
  <2>2. m.phase = "committed" /\ m.authorized = x /\ marker.authorized = x
    BY <1>3, <1>4 DEF Mk
  <2>3. clock <= x + Window
    BY <1>6, <2>2, MigrationAssumption DEF InTime, Deadline, IInv, TypeOK
  <2>4. WellTimed(m)
    BY <1>3, <1>4, <2>1, <2>3 DEF WellTimed
  <2> QED  BY <2>2, <2>4, TimedMarker DEF IInv, TypeOK
<1>7. ASSUME InTime
      PROVE  Marks(s) /\ Reached(s) /\ ~Ready(s)
  BY <1>2, <1>5, <1>6, <1>7
     DEF Marks, Reached, Ready, Where, Doc, Mrk, Stands, Opening, Closing, Ending
<1>8. CASE InTime /\ session' = s
  BY <1>1, <1>2, <1>5, <1>7, <1>8, MarksOn, QuietStep
<1>9. CASE session' = Idle
  BY <1>1, <1>9, IdleInHand, QuietStep
<1> QED  BY <1>1, <1>8, <1>9

LEMMA CommitIInv == IInv /\ Commit => IInv'
<1> SUFFICES ASSUME IInv, Commit
             PROVE  IInv'
  OBVIOUS
<1> DEFINE e == [session.doc EXCEPT !.phase = "committed", !.pending = None]
           s == Saving(session, e, "publish")
<1>1. Quiet /\ At("commit") /\ session' = s
  BY DEF Commit, Quiet, Become
<1>2. /\ IsSession(session) /\ session.doc = journal /\ Scoped(journal) /\ Noted(journal)
      /\ Stands(marker, "committed") /\ NoLegacy /\ locator = "new" /\ Adding({})
  BY <1>1, Standing DEF Goals, Ending, Reached
<1>3. Revised(journal, e) /\ e.newIds = journal.newIds
  BY <1>2 DEF IsDoc, Revised, Scoped
<1> HIDE DEF e
<1>4. IsSession(s) /\ s.pc = "save" /\ s.next = e /\ s.then = "publish"
  BY <1>2 DEF IsSession, Saving, Writing
<1> HIDE DEF s
<1>5. Reached(s) /\ ~Ready(s)
  BY <1>2, <1>4 DEF Reached, Ready, Where, Doc, Mrk, Opening, Closing, Ending
<1>6. InHand(s)
  BY <1>2, <1>3, <1>4, <1>5, SavesOn DEF Goals, Ending
<1> QED  BY <1>1, <1>5, <1>6, QuietStep

LEMMA StopIInv == IInv /\ (Decline \/ Die) => IInv'
<1>1. IInv /\ Decline => IInv'
  BY IdleInHand, QuietStep DEF Decline, Quiet, Stop
<1>2. ASSUME IInv, Die
      PROVE  IInv'
  <2>1. faults' \in 0..MaxFaults
    BY <1>2, MigrationAssumption DEF Die, IInv, TypeOK
  <2> QED  BY <1>2, <2>1, IdleInHand, SessionStep DEF Die, Stop, serverVars
<1> QED  BY <1>1, <1>2

LEMMA PublishIInv == IInv /\ Publish => IInv'
<1> SUFFICES ASSUME IInv, Publish
             PROVE  IInv'
  OBVIOUS
<1>1. /\ released' = TRUE /\ session' = Idle
      /\ UNCHANGED <<filters, used, journal, marker, locator, late, clock, faults, renumbers>>
  BY DEF Publish, Stop, Still
<1>2. TypeOK'
  BY <1>1 DEF IInv, TypeOK, Readable, Deadline
<1>3. RulesMatchRelease'
  BY <1>1 DEF IInv, RulesMatchRelease, Has
<1>4. FilesInv'
  BY <1>1 DEF IInv, FilesInv, Scoped, NotedOrPending, WellTimed, NoLegacy, OneRuleEach
<1>5. InHand(session)' /\ LateInv(session)'
  BY <1>1 DEF InHand, IsSession, Idle, LateInv, Ready, IInv
<1> QED  BY <1>2, <1>3, <1>4, <1>5 DEF IInv

\* Time passes; what was well timed stays it.
LEMMA TickIInv == IInv /\ Tick => IInv'
<1> SUFFICES ASSUME IInv, Tick
             PROVE  IInv'
  OBVIOUS
<1>1. /\ clock < MaxTime /\ clock' = clock + 1 /\ clock \in 0..MaxTime
      /\ UNCHANGED <<filters, used, journal, marker, locator, released, session, late,
                     faults, renumbers>>
  BY DEF Tick, serverVars, IInv, TypeOK
<1>2. clock' \in 0..MaxTime /\ 0..clock \subseteq 0..clock'
  BY <1>1, MigrationAssumption
<1>3. TypeOK'
  BY <1>1, <1>2 DEF IInv, TypeOK, Readable, Deadline
<1>4. RulesMatchRelease'
  BY <1>1 DEF IInv, RulesMatchRelease, Has
<1>5. ASSUME NEW m, WellTimed(m)
      PROVE  WellTimed(m)'
  BY <1>2, <1>5 DEF WellTimed
<1>6. FilesInv'
  BY <1>1, <1>5 DEF IInv, FilesInv, Scoped, NotedOrPending, NoLegacy, OneRuleEach
<1>7. Marks(session) => Marks(session)'
  BY <1>1, <1>5 DEF Marks
<1>8. InHand(session)'
  BY <1>1, <1>7
     DEF IInv, InHand, Scoped, Noted, Reached, NoLegacy, Retiring, Adding, Mrk, Doc, Bodies
<1>9. LateInv(session)'
  <2> SUFFICES ASSUME late = 1
               PROVE  clock' >= marker.authorized + Window
    BY <1>1 DEF LateInv, IInv, Ready, Where
  <2>1. clock >= marker.authorized + Window /\ marker.authorized \in Nat
    BY TimedMarker DEF IInv, LateInv, FilesInv, TypeOK
  <2> QED  BY <1>1, <2>1, MigrationAssumption
<1> QED  BY <1>3, <1>4, <1>6, <1>8, <1>9 DEF IInv

(***************************************************************************)
(* The two files are written.                                              *)
(***************************************************************************)
LEMMA SaveIInv == IInv /\ Save => IInv'
<1> SUFFICES ASSUME IInv, Save
             PROVE  IInv'
  OBVIOUS
<1> DEFINE r == session
           s == [r EXCEPT !.pc = r.then, !.doc = r.next, !.next = None]
<1>1. /\ r.pc = "save"
      /\ UNCHANGED <<filters, used, marker, locator, released, late, clock, faults, renumbers>>
      /\ \/ Valid(r.next) /\ journal' = r.next /\ session' = s
         \/ journal' = journal /\ session' = Idle
  BY DEF Save, At, Still, Become, Stop
<1>2. IsSession(r) /\ r.then \in Goals /\ Scoped(r.next) /\ Noted(r.next) /\ Reached(r)
  BY <1>1 DEF IInv, InHand, Doc
<1>3. CASE Valid(r.next) /\ journal' = r.next /\ session' = s
  <2>1. IsSession(s) /\ s.pc = r.then /\ s.doc = r.next /\ s.todo = r.todo
    BY <1>2 DEF IsSession
  <2> HIDE DEF s
  <2>2. /\ Where(s) = Where(r) /\ Doc(s) = Doc(r) /\ Mrk(s) = Mrk(r)
        /\ s.pc \notin {"save", "mark"}
    BY <1>1, <1>2, <2>1 DEF Where, Doc, Mrk, Goals, Opening, Closing, Ending
  <2>3. Reached(s)
    BY <1>2, <2>1, <2>2 DEF Reached
  <2>4. TypeOK'
    BY <1>1, <1>2, <1>3 DEF IInv, TypeOK, Readable, Deadline, Scoped
  <2>5. RulesMatchRelease'
    BY <1>1 DEF IInv, RulesMatchRelease, Has
  <2>6. FilesInv'
    BY <1>1, <1>2, <1>3
       DEF IInv, FilesInv, Scoped, Noted, NotedOrPending, WellTimed, NoLegacy, OneRuleEach
  <2>7. InHand(session)'
    BY <1>1, <1>2, <1>3, <2>1, <2>2, <2>3
       DEF InHand, Scoped, Noted, Reached, NoLegacy, Retiring, Adding, Mrk, Doc, Bodies
  <2>8. LateInv(session)'
    BY <1>1, <1>3, <2>1, <2>2 DEF IInv, LateInv, Ready
  <2> QED  BY <2>4, <2>5, <2>6, <2>7, <2>8 DEF IInv
<1>4. CASE journal' = journal /\ session' = Idle
  BY <1>1, <1>4, IdleInHand, SessionStep DEF serverVars, IInv, TypeOK
<1> QED  BY <1>1, <1>3, <1>4

LEMMA MarkIInv == IInv /\ Mark => IInv'
<1> SUFFICES ASSUME IInv, Mark
             PROVE  IInv'
  OBVIOUS
<1> DEFINE r == session
           s == [r EXCEPT !.pc = r.then, !.next = None]
<1>1. /\ r.pc = "mark" /\ marker' = r.next /\ session' = s
      /\ UNCHANGED <<filters, used, journal, locator, released, late, clock, faults, renumbers>>
  BY DEF Mark, At, Still, Become
<1>2. /\ IsSession(r) /\ Marks(r) /\ r.doc = journal
      /\ Scoped(journal) /\ Noted(journal) /\ Reached(r)
  BY <1>1 DEF IInv, InHand, Doc
<1>3. r.then \in {"consent", "retire", "switch", "commit"} /\ WellTimed(r.next) /\ r.next # None
  BY <1>2, TimedMarker DEF Marks, IInv, TypeOK
<1>4. IsSession(s) /\ s.pc = r.then /\ s.doc = journal /\ s.todo = r.todo
  BY <1>2 DEF IsSession
<1> HIDE DEF s
<1>5. TypeOK'
  BY <1>1, <1>3, TimedMarker DEF IInv, TypeOK, Readable, Deadline
<1>6. RulesMatchRelease'
  BY <1>1 DEF IInv, RulesMatchRelease, Has
<1>7. r.next.phase \in {"window", "committed"} => NoLegacy
  BY <1>1, <1>2, <1>3, TimedMarker
     DEF Marks, Reached, Where, Mrk, Stands, Closing, Ending, Unmarked, IInv, TypeOK
<1>8. FilesInv'
  BY <1>1, <1>3, <1>7
     DEF IInv, FilesInv, Scoped, NotedOrPending, WellTimed, NoLegacy, OneRuleEach
<1>9. /\ Where(s) = Where(r) /\ Doc(s) = journal /\ Doc(r) = journal
      /\ s.pc \notin {"save", "mark", "idle"} /\ ~Ready(s)
  BY <1>1, <1>2, <1>3, <1>4 DEF Where, Doc, Ready
<1>10. Mrk(r) = r.next
  BY <1>1 DEF Mrk
<1>11. InHand(session)'
  BY <1>1, <1>2, <1>3, <1>4, <1>9, <1>10
     DEF InHand, Scoped, Noted, Reached, NoLegacy, Retiring, Adding, Mrk, Doc, Bodies, Goals,
         Opening, Ending
<1>12. LateInv(session)'
  <2> SUFFICES ASSUME late = 1
               PROVE  /\ marker' # None /\ marker'.phase # "prepared"
                      /\ clock >= marker'.authorized + Window
    BY <1>1, <1>9 DEF IInv, LateInv, Ready, Where
  <2>1. marker # None /\ marker.phase # "prepared" /\ clock >= marker.authorized + Window
    BY DEF IInv, LateInv
  <2>2. r.next.phase \in {"window", "committed"} /\ r.next.authorized = marker.authorized
    BY <1>2, <2>1 DEF Marks, Unmarked
  <2> QED  BY <1>1, <1>3, <2>1, <2>2
<1> QED  BY <1>5, <1>6, <1>8, <1>11, <1>12 DEF IInv

(***************************************************************************)
(* The provider's rules and the locator change.                            *)
(***************************************************************************)
\* A change that was checked for time before is at most the first late one.
LEMMA CountedOnce ==
  ASSUME IInv, Ready(session), Counted, marker # None, marker.phase # "prepared",
         UNCHANGED <<marker, clock>>
  PROVE  /\ late' \in {0, 1}
         /\ late' = 1 => /\ marker' # None /\ marker'.phase # "prepared"
                         /\ clock' >= marker'.authorized + Window
  BY DEF IInv, LateInv, Counted, Deadline

LEMMA SwitchIInv == IInv /\ Switch => IInv'
<1> SUFFICES ASSUME IInv, Switch
             PROVE  IInv'
  OBVIOUS
<1> DEFINE s == [session EXCEPT !.pc = "scan"]
<1>1. /\ At("swap") /\ session' = s /\ locator' = "new" /\ Counted
      /\ UNCHANGED <<filters, used, journal, marker, released, clock, faults, renumbers>>
  BY DEF Switch, Goto, Still
<1>2. /\ IsSession(session) /\ session.doc = journal /\ Scoped(journal) /\ Noted(journal)
      /\ marker # None /\ marker.phase = "window" /\ NoLegacy /\ Ready(session)
  BY <1>1, Standing DEF Goals, Reached, Stands, Ready
<1>3. IsSession(s) /\ s.pc = "scan" /\ s.doc = journal
  BY <1>2 DEF IsSession
<1> HIDE DEF s
<1>4. TypeOK'
  BY <1>1 DEF IInv, TypeOK, Readable, Deadline
<1>5. RulesMatchRelease'
  <2>1. \A id \in DOMAIN filters : filters[id].body.form # "legacy"
    BY <1>2, Kinds, Forms DEF NoLegacy
  <2> QED  BY <1>1, <2>1 DEF RulesMatchRelease, Has
<1>6. FilesInv'
  BY <1>1 DEF IInv, FilesInv, Scoped, NotedOrPending, WellTimed, NoLegacy, OneRuleEach
<1>7. InHand(session)'
  BY <1>1, <1>2, <1>3
     DEF InHand, Scoped, Noted, Doc, Reached, Where, Mrk, Stands, NoLegacy, Goals, Opening,
         Closing, Ending
<1>8. LateInv(session)'
  BY <1>1, <1>2, <1>3, CountedOnce DEF LateInv, Ready, Where
<1> QED  BY <1>4, <1>5, <1>6, <1>7, <1>8 DEF IInv

LEMMA DeleteIInv == IInv /\ Delete => IInv'
<1> SUFFICES ASSUME IInv, Delete
             PROVE  IInv'
  OBVIOUS
<1> DEFINE id == session.doc.pending.id
           s == [session EXCEPT !.pc = "retired"]
<1>1. /\ At("delete")
      /\ UNCHANGED <<used, journal, marker, locator, released, clock, faults, renumbers>>
      /\ \/ /\ id \in DOMAIN filters /\ filters' = Removed(filters, id, renumbers)
            /\ session' = s /\ Counted
         \/ UNCHANGED <<filters, late>> /\ session' = Idle
  BY DEF Delete, Goto, Stop, Still
<1>2. /\ IsSession(session) /\ session.doc = journal /\ Scoped(journal) /\ Noted(journal)
      /\ marker # None /\ marker.phase = "authorized" /\ Ready(session)
      /\ session.todo \subseteq DOMAIN journal.old /\ id \in DOMAIN journal.old
      /\ Retiring(session.todo \cup {id})
  <2>1. /\ IsSession(session) /\ session.pc = "delete" /\ session.doc = journal
        /\ Scoped(journal) /\ Noted(journal) /\ Where(session) = "delete"
        /\ Doc(session) = journal /\ Mrk(session) = marker /\ Reached(session)
    BY <1>1, Standing DEF Goals, Opening
  <2>2. PICK i \in DOMAIN journal.old : /\ journal.pending = PendingDelete(i, journal.old[i])
                                        /\ Retiring(session.todo \cup {i})
    BY <2>1 DEF Reached
  <2>3. id = i
    BY <2>1, <2>2 DEF PendingDelete
  <2> QED  BY <2>1, <2>2, <2>3 DEF Reached, Stands, Opening, Ready
<1>3. CASE UNCHANGED <<filters, late>> /\ session' = Idle
  BY <1>1, <1>3, IdleInHand, SessionStep DEF serverVars, IInv, TypeOK
<1>4. CASE /\ id \in DOMAIN filters /\ filters' = Removed(filters, id, renumbers)
           /\ session' = s /\ Counted
  <2>1. /\ DOMAIN filters' = DOMAIN filters \ {id}
        /\ \A i \in DOMAIN filters' : filters'[i] \in Rule /\ filters'[i].body = filters[i].body
    <3>1. \A i \in DOMAIN filters : filters[i] \in Rule
      BY DEF IInv, TypeOK, IsPartial
    <3>2. DOMAIN filters' = DOMAIN filters \ {id}
      BY <1>4 DEF Removed
    <3>3. ASSUME NEW i \in DOMAIN filters'
          PROVE  filters'[i] \in Rule /\ filters'[i].body = filters[i].body
      <4>1. CASE renumbers /\ filters[i].priority > filters[id].priority
        <5>1. filters'[i] = [filters[i] EXCEPT !.priority = @ - 1]
          BY <1>4, <3>2, <3>3, <4>1 DEF Removed
        <5>2. filters[i].priority - 1 \in 0..MaxId
          BY <1>4, <3>1, <3>2, <3>3, <4>1, ScopeAssumption DEF Rule
        <5> QED  BY <3>1, <3>2, <5>1, <5>2 DEF Rule
      <4>2. CASE ~(renumbers /\ filters[i].priority > filters[id].priority)
        BY <1>4, <3>1, <3>2, <4>2 DEF Removed
      <4> QED  BY <4>1, <4>2
    <3> QED  BY <3>2, <3>3
  <2>2. IsPartial(filters', Ids, Rule)
    <3>1. filters' = [i \in DOMAIN filters' |-> filters'[i]]
      BY <1>4 DEF Removed
    <3> QED  BY <2>1, <3>1 DEF IInv, TypeOK, IsPartial
  <2>3. IsSession(s) /\ s.pc = "retired" /\ s.doc = journal /\ s.todo = session.todo
    BY <1>2 DEF IsSession
  <2> HIDE DEF s
  <2>4. filters[id].body \in Legacies
    BY <1>2, <1>4 DEF Scoped
  <2> HIDE DEF id
  <2>5. TypeOK'
    BY <1>1, <2>1, <2>2 DEF IInv, TypeOK, Readable, Deadline
  <2>6. RulesMatchRelease'
    BY <1>1, <2>1 DEF IInv, RulesMatchRelease, Has
  <2>7. Scoped(journal)' /\ Noted(journal)'
    BY <1>1, <1>2, <2>1 DEF Scoped, Noted
  <2>8. FilesInv'
    <3>1. (NotedOrPending(journal) /\ OneRuleEach)'
      BY <1>1, <2>1, <2>7 DEF NotedOrPending, Noted, OneRuleEach, IInv, FilesInv
    <3>2. marker' # None => WellTimed(marker)' /\ marker'.phase \notin {"window", "committed"}
      BY <1>1, <1>2 DEF IInv, FilesInv, WellTimed
    <3>3. \E i \in DOMAIN filters' : filters'[i].body = Other
      BY <2>1, <2>4, Forms DEF IInv, FilesInv
    <3> QED  BY <2>7, <3>1, <3>2, <3>3 DEF FilesInv
  <2>9. Retiring(session.todo)'
    BY <1>1, <1>2, <1>4, <2>1, <2>3 DEF Retiring
  <2>10. InHand(session)'
    BY <1>1, <1>2, <1>4, <2>3, <2>7, <2>9
       DEF InHand, Reached, Where, Doc, Mrk, Stands, Goals, Opening, Closing, Ending
  <2>11. LateInv(session)'
    BY <1>1, <1>2, <1>4, <2>3, CountedOnce DEF LateInv, Ready, Where
  <2> QED  BY <2>5, <2>6, <2>8, <2>10, <2>11 DEF IInv
<1> QED  BY <1>1, <1>3, <1>4

LEMMA PostIInv == IInv /\ Post => IInv'
<1> SUFFICES ASSUME IInv, Post
             PROVE  IInv'
  OBVIOUS
<1> DEFINE body == session.doc.pending.body
           new == used + 1
           ids == With(session.doc.newIds, new, body)
           e == [session.doc EXCEPT !.newIds = ids]
           s == Saving(session, e, "added")
<1>1. /\ At("post") /\ used < MaxId /\ filters' = Created(filters, new, body, renumbers)
      /\ used' = new /\ Counted /\ session' = s
      /\ UNCHANGED <<journal, marker, locator, released, clock, faults, renumbers>>
  BY DEF Post, Become, Still
<1>2. /\ IsSession(session) /\ session.doc = journal /\ Scoped(journal) /\ Noted(journal)
      /\ marker # None /\ marker.phase = "window" /\ NoLegacy /\ Ready(session)
      /\ locator = "new" /\ journal.pending = PendingAdd(body) /\ body \in NewBodies
      /\ body \notin Bodies(filters) /\ body \notin session.todo
      /\ Adding(session.todo \cup {body})
  <2>1. /\ IsSession(session) /\ session.pc = "post" /\ session.doc = journal
        /\ Scoped(journal) /\ Noted(journal) /\ Where(session) = "post"
        /\ Doc(session) = journal /\ Mrk(session) = marker /\ Reached(session)
    BY <1>1, Standing DEF Goals, Closing
  <2>2. PICK b \in NewBodies : /\ journal.pending = PendingAdd(b)
                               /\ b \notin Bodies(filters) /\ b \notin session.todo
                               /\ Adding(session.todo \cup {b})
    BY <2>1 DEF Reached
  <2>3. body = b
    BY <2>1, <2>2 DEF PendingAdd
  <2> QED  BY <2>1, <2>2, <2>3 DEF Reached, Stands, Closing, Ready
<1>3. /\ used \in Nat /\ new \in Ids /\ new \in 1..used' /\ DOMAIN filters \subseteq 1..used
      /\ new \notin DOMAIN filters /\ 1..used \subseteq 1..used' /\ new \notin 1..used
  BY <1>1, ScopeAssumption DEF IInv, TypeOK, Ids
<1>4. PICK f : /\ f = e /\ Revised(journal, f)
              /\ DOMAIN f.newIds = DOMAIN journal.newIds \cup {new}
  <2>1. DOMAIN ids = DOMAIN journal.newIds \cup {new}
    BY <1>2 DEF With
  <2> HIDE DEF ids
  <2>2. Revised(journal, e) /\ e.newIds = ids
    BY <1>2 DEF IsDoc, Revised, Scoped
  <2> HIDE DEF e
  <2> QED  BY <2>1, <2>2
<1> HIDE DEF e
<1>5. IsSession(s) /\ s.pc = "save" /\ s.next = f /\ s.then = "added" /\ s.todo = session.todo
      /\ s.doc = journal
  BY <1>2, <1>4 DEF IsSession, Saving, Writing
<1> HIDE DEF s
<1>6. PICK p \in 0..MaxId : filters' = With(filters, new, [body |-> body, priority |-> p])
  <2>1. Cardinality(DOMAIN filters) \in Nat /\ Cardinality(DOMAIN filters) <= used
    <3>1. IsFiniteSet(1..used) /\ Cardinality(1..used) = used
      BY <1>3, FS_Interval
    <3> QED  BY <1>3, <3>1, FS_Subset, FS_CardinalityType
  <2>2. (IF renumbers THEN Cardinality(DOMAIN filters) + 1 ELSE 0) \in 0..MaxId
    BY <1>1, <1>3, <2>1, ScopeAssumption
  <2> QED  BY <1>1, <2>2 DEF Created
<1> HIDE DEF body, new
<1>7. /\ DOMAIN filters' = DOMAIN filters \cup {new}
      /\ filters'[new] = [body |-> body, priority |-> p]
      /\ \A id \in DOMAIN filters : filters'[id] = filters[id]
      /\ filters' = [id \in DOMAIN filters' |-> filters'[id]]
  BY <1>3, <1>6 DEF With
<1>8. body \in Body /\ body \notin Legacies /\ body.form = "managed"
  BY <1>2, Forms
<1>9. TypeOK'
  <2>1. \A id \in DOMAIN filters' : filters'[id] \in Rule
    BY <1>7, <1>8 DEF IInv, TypeOK, IsPartial, Rule
  <2>2. IsPartial(filters', Ids, Rule)
    BY <1>3, <1>7, <2>1 DEF IInv, TypeOK, IsPartial
  <2>3. used' \in 0..MaxId /\ DOMAIN filters' \subseteq 1..used'
    BY <1>1, <1>3, <1>7 DEF Ids
  <2> QED  BY <1>1, <2>2, <2>3 DEF IInv, TypeOK, Readable, Deadline
<1>10. NoLegacy'
  BY <1>2, <1>7, <1>8 DEF NoLegacy
<1>11. RulesMatchRelease'
  BY <1>1, <1>2, <1>7, <1>8, Kinds, Forms DEF RulesMatchRelease, Has, NoLegacy
<1>12. Scoped(journal)'
  BY <1>1, <1>2, <1>3, <1>7, <1>8 DEF Scoped
<1>13. Scoped(f)'
  BY <1>1, <1>2, <1>3, <1>4, <1>7, <1>8 DEF Scoped, Revised
<1>14. FilesInv'
  <2>1. NotedOrPending(journal)'
    <3>1. PendingAdd(body) # None
      BY <1>8, AbsenceAssumption DEF PendingAdd, Pending
    <3>2. IsPendingAdd(journal, body)
      BY <1>2, <3>1 DEF IsPendingAdd, PendingAdd
    <3> QED  BY <1>1, <1>2, <1>7, <3>2 DEF NotedOrPending, Noted
  <2>2. OneRuleEach'
    BY <1>2, <1>7 DEF OneRuleEach, Bodies, IInv, FilesInv
  <2>3. WellTimed(marker)'
    BY <1>1, <1>2 DEF IInv, FilesInv, WellTimed
  <2>4. \E id \in DOMAIN filters' : filters'[id].body = Other
    BY <1>7 DEF IInv, FilesInv
  <2> QED  BY <1>10, <1>12, <2>1, <2>2, <2>3, <2>4 DEF FilesInv
<1>15. Noted(f)'
  BY <1>2, <1>4, <1>7 DEF Noted
<1>16. Adding(session.todo)'
  <2>1. Bodies(filters') = Bodies(filters) \cup {body}
    BY <1>7 DEF Bodies
  <2> QED  BY <1>1, <1>2, <1>5, <2>1 DEF Adding
<1>17. InHand(session)'
  BY <1>1, <1>2, <1>5, <1>10, <1>13, <1>15, <1>16
     DEF InHand, Reached, Where, Doc, Mrk, Stands, Goals, Opening, Closing, Ending
<1>18. LateInv(session)'
  BY <1>1, <1>2, <1>5, CountedOnce DEF LateInv, Ready, Where
<1> QED  BY <1>9, <1>11, <1>14, <1>17, <1>18 DEF IInv

(***************************************************************************)
(* The theorems.                                                           *)
(***************************************************************************)
LEMMA InitIInv == Init => IInv
<1> SUFFICES ASSUME Init
             PROVE  IInv
  OBVIOUS
<1> DEFINE n == Cardinality(Address) + 1
           bodies == {Legacy(a) : a \in Address} \cup {Other}
<1>1. n \in 1..MaxId
  BY FS_CardinalityType, ScopeAssumption, MigrationAssumption
<1>2. PICK order \in [1..n -> bodies] :
        /\ Range(order) = bodies
        /\ filters = [id \in 1..n |-> [body |-> order[id],
                                      priority |-> IF renumbers THEN id ELSE 0]]
  BY DEF Init, Lists
<1>3. /\ used = n /\ journal = None /\ marker = None /\ locator = "old" /\ released = FALSE
      /\ session = Idle /\ clock = 0 /\ faults = 0 /\ late = 0
  BY DEF Init
<1> HIDE DEF n
<1>4. /\ DOMAIN filters = 1..n
      /\ \A id \in 1..n : filters[id].body = order[id] /\ filters[id].body \in bodies
  BY <1>2
<1>5. bodies \subseteq Body /\ \A body \in bodies : body \notin NewBodies /\ body.form # "managed"
  BY Forms DEF Legacies
<1>6. TypeOK
  <2>1. \A id \in 1..n : filters[id] \in Rule
    BY <1>1, <1>2, <1>4, <1>5, ScopeAssumption DEF Rule
  <2>2. IsPartial(filters, Ids, Rule)
    BY <1>1, <1>2, <1>4, <2>1, ScopeAssumption DEF IsPartial, Ids
  <2>3. used \in 0..MaxId /\ DOMAIN filters \subseteq 1..used
    BY <1>1, <1>3, <1>4, ScopeAssumption
  <2>4. clock \in 0..MaxTime /\ faults \in 0..MaxFaults
    BY <1>3, MigrationAssumption
  <2>5. released \in BOOLEAN /\ locator \in {"old", "new"}
    BY <1>3
  <2> QED  BY <1>3, <2>2, <2>3, <2>4, <2>5 DEF TypeOK
<1>7. RulesMatchRelease
  BY <1>3, <1>4, <1>5 DEF RulesMatchRelease, Has
<1>8. FilesInv
  <2>1. OneRuleEach
    BY <1>4, <1>5 DEF OneRuleEach
  <2>2. \E id \in DOMAIN filters : filters[id].body = Other
    <3>1. Other \in Range(order)
      BY <1>2
    <3> QED  BY <1>2, <1>4, <3>1 DEF Range
  <2> QED  BY <1>3, <2>1, <2>2 DEF FilesInv
<1>9. InHand(session) /\ LateInv(session)
  BY <1>3, IdleInHand DEF LateInv
<1> QED  BY <1>6, <1>7, <1>8, <1>9 DEF IInv

LEMMA StutterIInv == IInv /\ UNCHANGED vars => IInv'
<1> SUFFICES ASSUME IInv, UNCHANGED vars
             PROVE  IInv'
  OBVIOUS
<1>1. late = 1 => ~Ready(session)
  BY DEF IInv, LateInv
<1> QED  BY <1>1, QuietStep DEF vars, Quiet, Still, IInv

LEMMA NextIInv == IInv /\ [Next]_vars => IInv'
<1> SUFFICES ASSUME IInv, [Next]_vars
             PROVE  IInv'
  OBVIOUS
<1>1. CASE Begin
  BY <1>1, BeginIInv
<1>2. CASE Step
  BY <1>2, SaveIInv, MarkIInv, ClassifyIInv, ConsentIInv, RetireIInv, DeleteIInv,
     DeleteEndsIInv, OpenWindowIInv, CheckSwitchIInv, SwitchIInv, ScanIInv, AddIInv, PostIInv,
     AddedIInv, CompleteIInv, CommitIInv, PublishIInv
     DEF Step
<1>3. CASE Decline \/ Die
  BY <1>3, StopIInv
<1>4. CASE Tick
  BY <1>4, TickIInv
<1>5. CASE UNCHANGED vars
  BY <1>5, StutterIInv
<1> QED  BY <1>1, <1>2, <1>3, <1>4, <1>5 DEF Next

LEMMA SpecIInv == Spec => []IInv
  BY InitIInv, NextIInv, PTL DEF Spec

\* The stored journal is always one that says which rules to replace, and the stored marker
\* one that a later run can read, but for a window that was opened after its end.
THEOREM TypeCorrect == Spec => []TypeOK
<1>1. IInv => TypeOK
  BY DEF IInv
<1> QED  BY <1>1, SpecIInv, PTL

\* The rules of the old release and those of the new one never meet, and each meets only its
\* own release: a mail is not handed to both programs, whenever the migration dies.
THEOREM OneReleaseAtATime == Spec => []RulesMatchRelease
<1>1. IInv => RulesMatchRelease
  BY DEF IInv
<1> QED  BY <1>1, SpecIInv, PTL

\* After the time the operator agreed to at most one change is made, however long it took and
\* however often the migration was repeated.
THEOREM AtMostOneLateChange == Spec => []LateChangesAreBounded
<1>1. IInv => LateChangesAreBounded
  BY DEF IInv, LateInv, LateChangesAreBounded
<1> QED  BY <1>1, SpecIInv, PTL

\* A process that deletes or adds has the marker and the journal for it.
LEMMA Announced ==
  ASSUME IInv
  PROVE  /\ At("delete") =>
              /\ marker.phase = "authorized"
              /\ session.doc = journal
              /\ session.doc.pending.id \in DOMAIN filters =>
                   journal.pending = PendingDelete(session.doc.pending.id,
                                                   filters[session.doc.pending.id].body)
         /\ At("post") =>
              /\ marker.phase = "window"
              /\ session.doc = journal
              /\ journal.pending = PendingAdd(session.doc.pending.body)
<1>1. ASSUME At("delete")
      PROVE  /\ marker.phase = "authorized"
             /\ session.doc = journal
             /\ session.doc.pending.id \in DOMAIN filters =>
                  journal.pending = PendingDelete(session.doc.pending.id,
                                                  filters[session.doc.pending.id].body)
  <2>1. /\ session.doc = journal /\ Scoped(journal) /\ Where(session) = "delete"
        /\ Doc(session) = journal /\ Mrk(session) = marker /\ Reached(session)
    BY <1>1, Standing DEF Goals, Opening
  <2>2. PICK i \in DOMAIN journal.old : journal.pending = PendingDelete(i, journal.old[i])
    BY <2>1 DEF Reached
  <2>3. session.doc.pending.id = i
    BY <2>1, <2>2 DEF PendingDelete
  <2> QED  BY <2>1, <2>2, <2>3 DEF Reached, Stands, Opening, Scoped
<1>2. ASSUME At("post")
      PROVE  /\ marker.phase = "window"
             /\ session.doc = journal
             /\ journal.pending = PendingAdd(session.doc.pending.body)
  <2>1. /\ session.doc = journal /\ Where(session) = "post"
        /\ Doc(session) = journal /\ Mrk(session) = marker /\ Reached(session)
    BY <1>2, Standing DEF Goals, Closing
  <2>2. PICK b \in NewBodies : journal.pending = PendingAdd(b)
    BY <2>1 DEF Reached
  <2>3. session.doc.pending.body = b
    BY <2>1, <2>2 DEF PendingAdd
  <2> QED  BY <2>1, <2>2, <2>3 DEF Reached, Stands, Closing
<1> QED  BY <1>1, <1>2

\* Every rule that goes or comes is one the journal announced, in the phase the operator's
\* agreement opened for it.
THEOREM NothingUnannounced == Spec => ChangesAreAuthorised
<1> DEFINE A == /\ \A id \in DOMAIN filters \ DOMAIN filters' :
                     /\ marker.phase = "authorized"
                     /\ journal.pending = PendingDelete(id, filters[id].body)
                /\ \A id \in DOMAIN filters' \ DOMAIN filters :
                     /\ marker.phase = "window"
                     /\ journal.pending = PendingAdd(filters'[id].body)
<1>1. ASSUME IInv, [Next]_vars
      PROVE  [A]_vars
  <2>1. CASE filters' = filters
    BY <2>1
  <2>2. CASE Delete
    <3> DEFINE id == session.doc.pending.id
    <3>1. /\ At("delete")
          /\ filters' = filters \/ (id \in DOMAIN filters /\ DOMAIN filters' = DOMAIN filters \ {id})
      BY <2>2 DEF Delete, Removed
    <3> QED  BY <1>1, <3>1, Announced
  <2>3. CASE Post
    <3> DEFINE body == session.doc.pending.body
               new == used + 1
    <3>1. /\ At("post") /\ DOMAIN filters' = DOMAIN filters \cup {new}
          /\ filters'[new].body = body
      BY <2>3 DEF Post, Created, With
    <3> HIDE DEF new
    <3> QED  BY <1>1, <3>1, Announced
  <2> QED
    BY <1>1, <2>1, <2>2, <2>3
       DEF Next, Step, Begin, Save, Mark, Classify, Consent, Retire, DeleteEnds, OpenWindow,
           CheckSwitch, Switch, Scan, Add, Added, Complete, Commit, Publish, Decline, Die, Tick,
           Timed, Audit, serverVars, vars
<1>2. [][A]_vars => ChangesAreAuthorised
  BY DEF ChangesAreAuthorised
<1> QED  BY <1>1, <1>2, SpecIInv, PTL DEF Spec

\* The marker only says "committed" when every address has its one new rule, no old rule is
\* left, and the new release is the one that is started.
THEOREM CommittedIsComplete == Spec => CommitIsTrue
<1> DEFINE A == Phase # "committed" /\ Phase' = "committed" =>
                  /\ locator = "new" /\ ~Has("legacy")
                  /\ \A a \in Address :
                       Cardinality({id \in DOMAIN filters : filters[id].body = Managed(a)}) = 1
                  /\ \E id \in DOMAIN filters : filters[id].body = Other
<1>1. ASSUME IInv, [Next]_vars
      PROVE  [A]_vars
  <2>1. CASE marker' = marker
    BY <2>1 DEF Phase
  <2>2. ASSUME Mark, Phase' = "committed"
        PROVE  /\ locator = "new" /\ ~Has("legacy")
               /\ \A a \in Address :
                    Cardinality({id \in DOMAIN filters : filters[id].body = Managed(a)}) = 1
               /\ \E id \in DOMAIN filters : filters[id].body = Other
    <3>1. /\ session.pc = "mark" /\ marker' = session.next
          /\ Marks(session) /\ Reached(session)
      BY <1>1, <2>2 DEF Mark, At, IInv, InHand
    <3>2. session.next # None /\ session.next.phase = "committed"
      <4>1. session.next # None
        BY <1>1, <3>1, TimedMarker DEF Marks, IInv, TypeOK
      <4> QED  BY <2>2, <3>1, <4>1 DEF Phase
    <3>3. session.then = "commit"
      BY <3>1, <3>2 DEF Marks, Unmarked
    <3>4. locator = "new" /\ NoLegacy /\ Adding({})
      BY <3>1, <3>3 DEF Reached, Where, Ending
    <3>5. ~Has("legacy")
      BY <1>1, <3>4, Kinds, Forms DEF NoLegacy, Has
    <3>6. ASSUME NEW a \in Address
          PROVE  Cardinality({id \in DOMAIN filters : filters[id].body = Managed(a)}) = 1
      <4>1. Managed(a) \in NewBodies
        BY DEF NewBodies
      <4>2. PICK id \in DOMAIN filters : filters[id].body = Managed(a)
        BY <3>4, <4>1 DEF Adding, Bodies
      <4>3. {i \in DOMAIN filters : filters[i].body = Managed(a)} = {id}
        BY <1>1, <4>1, <4>2 DEF IInv, FilesInv, OneRuleEach
      <4> QED  BY <4>3, FS_Singleton
    <3> QED  BY <1>1, <3>4, <3>5, <3>6 DEF IInv, FilesInv
  <2> QED
    BY <1>1, <2>1, <2>2
       DEF Next, Step, Begin, Save, Classify, Consent, Retire, Delete, DeleteEnds, OpenWindow,
           CheckSwitch, Switch, Scan, Add, Post, Added, Complete, Commit, Publish, Decline, Die,
           Tick, Timed, Audit, serverVars, vars
<1>2. [][A]_vars => CommitIsTrue
  BY DEF CommitIsTrue
<1> QED  BY <1>1, <1>2, SpecIInv, PTL DEF Spec
=============================================================================
