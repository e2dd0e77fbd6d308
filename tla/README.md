# TLA+ verification of xserver-mail-lineworks

This directory models the mail-to-LINE-WORKS notifier of this repository in TLA+, checks the
models with TLC on small instances and proves the most important results with TLAPS.
Source paths below are relative to the repository (`src/...` is its PHP library, `bin/`, `manager/`
and `macos/` its commands and operator tools).

## 1. The system and its parts

The mail server pipes every inbound mail into a fresh PHP process (`bin/mail-to-lineworks.php`).
Processes run concurrently, share files in one private directory, post to the LINE WORKS Incoming
Webhook, and mail the administrators about their own health. An operator runs a menu on a Mac
(`manager/`) that lists and retries failed notifications, keeps the mail provider's forwarding rules
and the list of notification targets in step, and deploys releases; the menu itself is a Mac
application with an installer of its own (`macos/`).

| Part | State it keeps | Operations | Interacts with |
|---|---|---|---|
| `DeliveryOutbox.php` | `delivery-outbox.json`: a record per message (state, token, revision, time) | `begin`, `finish`, `claimSelected`, `listMetadata`, expiry, capacity | called by deliveries and retries, under the state directory's lock |
| `DeliveryDeduplicator.php` | claims: reserved or committed identifiers | `reserve`, `commit`, `release`, `claim`, pruning | called by deliveries, under its own blocking lock |
| `DeliveryApplication.php`, `DeliveryRecovery.php` | none of their own: steps of a process | `deliver`, `commitReservation`, `retrySelected` | the two stores, the webhook, the health monitor, the log |
| `WebhookClient.php` | the answers of one send | retry, compatibility form, splitting | LINE WORKS |
| `DeliveryHealthMonitor.php` | `delivery-health.json`: status, numbers, pending alert | `reserveObservation`, `record`, alert mail | state directory's lock, `SendmailClient` |
| `bin/manage-private-config.php` | `config.json`, the two-slot scope journal | compare-and-swap, initialise, adopt, recover | `manager/` over SSH |
| `manager/manage.py`, `scope_journal.py`, `xserver_api.py` | one session's plan; remotely: the provider's rules, the configuration, the scope journal | `sync_targets` and its resumption, closing of an old journal, recipients, webhook URL, error mail test | the provider's API; the helper over SSH |
| `manager/release_deployer.py` and the end of `manage.py`'s `deploy_release` | `filter-maintenance.json`: phase and times of the first migration; the locator | `bootstrap_migrate` | the provider, the journal, the locator of the stable entry point |
| `manager/release_workflow.py`, `ftps_deployer.py`, `remote_validator.py` | the live runtime, staging and backup trees on the server | `provision_fixed_runtime`, migrations, helper assets | FTPS calls, inspection over SSH |
| `macos/install_app.py`, `install_transaction.py`, `uninstall_app.py` | the application, `config.json`, transaction directories with a journal, marker, receipts | install, roll back, uninstall, recover | the operator; the file system |
| `NativePrivateStateFilesystem.php`, `SendmailClient.php`, `OperationalLogger.php` | lock file, one child process, the log | lock, atomic replacement; run a mailer; append, compact | all of the PHP side |
| `MailParser`, `QuoteTrimmer`, `NotificationFormatter`, `SystemMailAuthenticator`, ... | none | pure functions of a mail | `DeliveryApplication` |

What makes it hard:

* **Concurrency without a server.** Two processes may handle the same mail; a retry may meet a
  redelivery; a lease may lapse and a record may expire while its owner is still sending; two
  operators may synchronise at once.
* **Fail-open protections.** A broken store must neither stop a notification nor make two of one.
  Both stores can also fail *after* the rename: the entry exists and nobody has its token.
* **Transactions over parties that know of no transactions.** A synchronisation changes the
  provider's rules one by one, a configuration and a journal; the first migration adds a locator and
  a deadline; the fixed runtime is uploaded file by file while mail may start it; the Mac
  installation renames a bundle and a configuration. Each process may die between any two calls, and
  the next one infers from what is there where to go on.
* **Crashes inside a write**: the scope journal is rewritten in place, four files one after the other.
* **Crashes between two writes**: between a send and its record, a status and its alert mail, a
  deletion and its note in the journal, a configuration's backup and its replacement.
* **Results out of order**: an early send may end after a later one.
* **Ambiguous answers**: a timeout or a 5xx does not say whether the provider acted, a lost answer of
  a compare-and-swap not whether it swapped.
* **Clocks**: every deadline and every time stamp in the files comes from the wall clock.

What makes the parts correct:

* outbox: capacity never costs unfinished work; an owner keeps its record until it expires; what an
  operator confirmed is what is retried; a record whose process died is never sent again;
* duplicate store: a lease is exclusive until it lapses, and a late holder cannot touch the next one's;
* pipeline: a duplicate needs both protections to be lost; what is offered for a retry never reached
  LINE WORKS; every mail is tried;
* health: the status is that of the newest observation, the latest change is announced or pending,
  alerts are in order and final, the lock is released, the file stays readable;
* scope journal: a register that is read and swapped atomically, wherever a rewrite is torn;
* webhook: the verdict never claims more than is known; requests are bounded and in order;
* synchronisation: no address that is to stay loses its only rule, nobody else's rule is deleted and
  nobody else's change of the configuration is overwritten, a committed journal tells the truth, an
  interrupted transaction is resumed to its end;
* first migration: the old rules never meet the new release nor the new rules the old one, every
  change was agreed to, and the stop lasts no longer than agreed but for one change;
* fixed runtime: whatever mail starts is a reviewed tree, and no file is replaced before it was kept;
* Mac application: no death loses the old application or configuration, an installation ends with a
  matching pair but for one error between two statements, a removal goes as far as was asked.

## 2. Modules

Each module's comments say what its variables and actions stand for; `PROJECT.json` maps every
definition to its lines.

| Module | Models | How |
|---|---|---|
| `DeliveryOutbox` | `DeliveryOutbox.php` | `items` is the file. One action per operation, each the whole locked read-change-replace of `mutate()` including the expiry that precedes it (`Live`). `held` and `selection` are what a process remembers between operations. `BeginFails`, `FinishFails`, `ClaimFails` are every error, including a `replaceAtomic()` that throws after its rename. |
| `DeliveryDeduplicator` | `DeliveryDeduplicator.php` | `claims` is the file, `lease` what a delivery remembers. Only `reserve()` prunes, as in the code. |
| `RecoverableNotification` | abstract | What one outbox record promises: it is sent by one owner at a time, ends delivered, uncertain or rejected, and only a rejection is sent again. |
| `MailDelivery` | `DeliveryApplication.php`, `DeliveryRecovery.php` | Composes the two stores by `INSTANCE` with the steps (`pc`) of deliveries and retries. A send is what `WebhookSend` promises. |
| `WebhookSend` | abstract | One send as its callers see it. |
| `WebhookClient` | `WebhookClient.php` | `phase` is the place in `sendObservedInternal`; an answer is one of the kinds the code tells apart. |
| `LatestObservation` | abstract | A register in which the newest observation wins. |
| `DeliveryHealth` | `DeliveryHealthMonitor.php` | `record()` is cut at each of its writes and at sendmail, since a process may die there; `holder` is the lock it keeps meanwhile. `ClockSteps` lets the wall clock go back. |
| `JournalRegister` | abstract | A register read and swapped atomically; what an interrupted swap left is settled by the next operation that completes. |
| `ScopeJournalStore` | the journal of `bin/manage-private-config.php` | `target`, `slots`, `mark` are the files; `op` is the one operation under the lock, `op.pc` the file it rewrites next. Every rewrite may leave the old content, nothing, a prefix or all of the new one, and then die or throw. `SurvivesErrors` lets a read also throw half-way through its repairs; without it such an error ends the operation. |
| `FilterScope` | the decisions of `ScopeJournal`, `_ScopedMigrationApi`, `MailManager` | No state: which rules to add and retire, which journals are valid, what one audited reading of the list teaches or forbids, when a transaction may be resumed, committed or closed. |
| `TargetSync` | `sync_targets` and the other editors of the configuration | `filters`, `config`, `journal` are the three remote parties, `session` what each run of the menu has in hand; one action per remote call with the decision taken from its answer. A resumed session starts at the same `Start` and finds the journal. `Worlds` lists which combinations of provider, overlapping sessions, foreign rules, deaths and edits are explored. |
| `BootstrapMigration` | `deploy_release`'s migration, `bootstrap_migrate` | As `TargetSync`, with the marker, the locator and a clock that runs against the window; one session at a time. `late` counts changes made after the deadline. |
| `FixedRuntime` | `provision_fixed_runtime`, its migrations, the FTPS calls below | `tree` gives each place on the server (live, staging, one backup and one collecting place per batch) the version of each file and whether something unfinished lies there; one action per FTPS call. `Batch` gives every file the transaction that replaces it. |
| `AppInstall` | `install_with_config`, `uninstall`, `recover_transactions` | One action per change of the file system; `dir` is the pending transaction's directory with its journal's head, `marker` and `files` are the configuration's, `receipt` the cleanup's. A process that dies leaves only these; an error (`Fail`) is undone by the process itself, which goes by its own `published`. |
| `DeliveryOutboxProofs`, `DeliveryDeduplicatorProofs`, `DeliveryResultProofs` (`WebhookClient`, `DeliveryHealth`), `MailDeliveryProofs`, `ScopeJournalProofs` (`ScopeJournalStore`, `TargetSync`), `BootstrapMigrationProofs`, `FixedRuntimeProofs`, `AppInstallProofs` | | TLAPS theorems about the modules named. |
| `MC_*` | | TLC instances and their symmetry. |

`DeliveryHealth` is not part of `MailDelivery`: `recordSuccess`/`recordFailure` swallow every error
and their results influence nothing, so that the two could only be checked side by side. `TargetSync`
and `BootstrapMigration` use the scope journal as the register that `ScopeJournalStore` is shown to
implement, and share `FilterScope`, as the code shares `_ScopedMigrationApi`.

Operators with the comment *Mutant of X* are wrong variants of the definition below them. They are
not used by the specifications; `PROJECT.json` names, for each checked property, the variant under
which TLC finds it violated.

### Abstractions

* Payloads, digests, wording and JSON are left out; identifiers are model values. A digest conflict
  in `begin()` appears as a refused `begin` that leaves the file as it was. Where the synchronisation
  compares digests, the model compares what they digest.
* Tokens and revisions (256 random bits) are names from `Nonces` that no file and no process still
  holds. Which unused name is taken cannot matter, so one is chosen.
* Time is counted in units. Outbox, duplicate store and migration assume that the wall clock is not
  set back; the health monitor has `ClockSteps`.
* Alerts in `DeliveryHealth` carry the number of their transition, which the file lacks; no action
  reads it.
* A torn journal file is a scrap that begins every content, or a prefix that begins only one. Base64
  bodies may share longer prefixes; such a prefix behaves like a scrap for the contents that share it.
  Generations are bounded by `MaxGeneration`, which stands for `PHP_INT_MAX` and is checked as such.
* A rule is what it does (`managed` or `legacy` for an address, or `other`) and, where the provider
  renumbers, its place; one `other` rule stands for everybody else's.
* Consecutive remote reads that must return one value are one action. A change between them ends the
  session, which `Die` may do anywhere.
* A bundle, a configuration, a server file is an opaque content; the parts of a bundle are not
  modelled. `Agreements` says whether the installer's two ways of digesting a bundle agree (section 6).
* `complete()` checks its condition before it appends CLEANED, the model when it is about to vouch;
  only the one process that holds the lock acts in between.
* Counters of the history variables `notified`, `recordReached` and `late` are bounded.

## 3. Runs

| Run | Instance | Shows |
|---|---|---|
| `outbox` | 2 processes, 3 messages, 2 places, retention 2, time 0..3 | capacity, expiry, crashes, late finishes: ownership, exclusiveness, kept work, confirmed rows |
| `dedup` | 3 processes, 2 messages, Ttl 2, time 0..5 | leases are exclusive and lapse on time; late commits are refused |
| `delivery` | 2 deliveries and 1 retry session on 1 message, 1 place, Ttl 1, retention 2, time 0..2 | duplicates need both protections lost; replayable means nothing was shown; refinement of the promise; under fairness every mail is tried |
| `delivery_full` | 2 deliveries, 2 messages, 1 place | the same guarantee under eviction |
| `health` | 3 observers, 5 numbers, time 0..2 | newest wins, alerts are kept, final and in order, the file stays readable; under fairness, the lock is released |
| `webhook` | parts 1..3, all answers | verdict, completeness, bounds, order |
| `journal` | 3 bodies, generations up to 7 | the register, the order of record and mark, a settled state after every answer, resumable first writes |
| `sync` | four worlds, see below | coverage, foreign rules and edits kept, truth of a commit, resumption to the end |
| `migration` | 2 addresses, window 2 of time 0..4, 2 deaths, provider renumbering or not | rules match the release, changes agreed to and announced, at most one late, a commit is true; under fairness it converges |
| `runtime` | 4 files in the batches of the oldest predecessor, 3 deaths | what is published is whole, what is replaced is kept; under fairness it converges |
| `install` | 2 bundles, 2 configurations, 2 transactions, 2 faults, digests agreeing or not | nothing is lost, an end is a matching pair but in the one case that `EndsWhole` names, removals as asked, recovery understands itself; under fairness it converges |
| `install_crash` | the same, digests disagreeing | expected violation, see section 6 |

The properties of a run are often conjunctions of named parts, defined above them in the module
(`OwnersAreSafe` is `HolderOwnsRecord` and `HoldersAreExclusive`, and so on).

**Why the bounds are enough.** Every property of the delivery speaks of at most two processes and one
message at a time, or of one message displaced by another. Two processes per message plus a third
party (operator, or a third process) give every conflict of owner, late owner and new owner; one place
more than needed for one message and one fewer than the messages makes eviction and refusal both
happen. Times go past both lapses, Ttl before retention as in production (10 minutes against 7
days). Three parts have a first, a middle and a last one. Three bodies are what was agreed, what was
interrupted and what somebody else expects; seven generations are a first write, its repetition or
adoption, two ordinary swaps and the refusal at the end. Five numbers let three observers finish in
any order with two transitions pending in between.

`sync` explores four worlds: one session at a time over two addresses, with two synchronisations, two
deaths and one edit, at a provider that renumbers and at one that does not; and two overlapping
sessions over one address, with a death or a foreign change, or with an edit. Two addresses give a
rule to be added and one to be retired at once, with one kept; two deaths interrupt a transaction and
its resumption; the second synchronisation meets what the first one left. `MaxId` 6 never stops a
transaction that could go on. In `migration` the clock can pass the window at every step and two
deaths interrupt one resumption. In `runtime` a batch of three and a batch of one meet, the helper in
its place as the oldest predecessor lacks it; three deaths interrupt uploading, clearing and
publishing of one batch. The shorter chains of the later predecessors, at this commit the one batch
that is only the helper, are not run: they have their safety from the proofs (section 4), and their
convergence is not checked. In `install` the second transaction meets what the first left pending, and
two faults are an error and a death, two errors, or a death in the recovery from a death. Every one of these runs
reaches the states its properties guard: the mutants in `PROJECT.json` show that.

`CHECK_DEADLOCK FALSE` is set only for the webhook, whose runs end, and for the fixed runtime, where
nothing is left to do once it is deployed.

**Fairness.** `MailDelivery!FairSpec` and `DeliveryHealth!FairSpec` assume only that the operating
system goes on running a process that has something to do: curl and sendmail are bounded by their
timeouts. Nothing is assumed of mail, operators, crashes, the clock or the success of any store;
failing and crashing stay possible everywhere. The four operator tools need their operator as well:
`FairSpec` of `TargetSync`, `BootstrapMigration`, `FixedRuntime` and `AppInstall` assumes that a
process that has begun runs on (their calls have timeouts, too) and that the operator repeats, as
README.md tells him to, an operation that is pending. In `AppInstall` this repetition is strongly
fair, since an uninstallation may come between. Deaths are bounded in all four: what is shown is that
the operation is finished once they cease.

## 4. Proofs

TLC checks the instances above; the theorems below hold for every value of the constants. Each
strengthens the property to an inductive invariant, shows that every action keeps it, one lemma per
action, and derives the property.

`DeliveryOutboxProofs`, for every number of messages and processes, every capacity, retention and clock:

| Theorem | States |
|---|---|
| `TypeCorrect` | `TypeOK` |
| `CapacityIsKept` | `NeverOverfull`: the file never holds more than `MAX_ITEMS` records |
| `OwnersSafe` | `OwnersAreSafe`: a process that began a record and has not finished owns it until it expires (`OwnersKeepTheirRecord`), and alone (`OwnersAreAlone`) |
| `RecordsEndPromised` | `RecordsEndAsPromised`: only delivered records make room for others (`UnfinishedIsKept`), a record whose owner died never changes state again (`OrphansAreFrozen`), a retry claims exactly the row that was confirmed (`ConfirmedIsClaimed`) |

They assume `OutboxAssumption` (finitely many identifiers, a positive capacity and retention, `None`
no token) and `AbsenceAssumption` (`None` is no record, claim or row). The inductive invariant adds to
`TypeOK` and `NeverOverfull`: `HolderInv` (what a process holds is in the file under its token, in
flight, unless it has expired), `TokensDiffer` (no two processes hold one token) and `RowInv` (a record
whose revision is that of a listed row is that row). Without `TokensDiffer` a late finish could settle
a record begun anew by another process, and exclusiveness would not follow from owning. Capacity needs
the cardinality lemmas: an insertion either finds a free place or gives up exactly one delivered
record. The three action properties follow from one lemma, `StepFate`, on what a step does to a record.

`DeliveryDeduplicatorProofs`, for every number of identifiers and processes and every time to live:

| Theorem | States |
|---|---|
| `TypeCorrect` | `TypeOK` |
| `LeasesAreExclusive` | `LeaseIsExclusive`: a reservation is its holder's own until it lapses |
| `ClaimsEndPromised` | `ClaimsEndAsPromised`: a holder that is late cannot settle the claim for the next one (`LateCommitsAreRefused`), and a claim leaves the file before its time only by its own holder (`SilenceIsKept`) |

The invariant adds to `TypeOK` and exclusiveness `ClaimIsOwn` (a reservation stored under a process's
token is the one it remembers) and `TokensDiffer`. `ClaimAbsenceAssumption` says that `None` is neither
a claim nor a lease.

`DeliveryResultProofs`, on the monitor, for every number of observers, of observation numbers and instants:

| Theorem | States |
|---|---|
| `MonitorSound` | `MonitorIsSound`: if the clock is never set back, the file stays readable, the latest transition is announced or pending, a cleared alert is final |
| `ResultsInOrder` | `ResultsAreOrdered`: the monitor implements `LatestObservation`, and alert mails follow the order of transitions |
| `AlertIsNeverLost`, `ClearedIsFinal`, `AlertsInOrder`, `ObservationsRefine` | the parts that hold even if the clock is set back |

They assume `HealthAssumption` (the constants have their types) and `NoneAssumption` (`None` is neither
an observer nor an alert); `MonitorSound` also `ClockSteps = FALSE`. The inductive invariant `IInv` adds
`AlertInv` (the pending alert is that of the latest transition, which is at most the newest applied
number; mailed and cleared transitions are not newer than it) and `HolderInv` (an observer past its
first write holds the lock, an alert is pending as long as it does, and one that waits to clear has
mailed it). Without `HolderInv` another observer's record could come between sendmail and the
clearing, and the wrong alert would be cleared; without `AlertInv` a cleared transition could be
newer than the pending one. `AlertCanBeRetried` adds `ClockInv`: the time of the last change is not in
the future.

`FixedRuntimeProofs`, for every number of files, every division into batches and any number of deaths:

| Theorem | States |
|---|---|
| `TypeCorrect` | `TypeOK` |
| `PublishedRemainsWhole` | `PublishedIsWhole`: the live tree is absent or one of the reviewed trees, a backup that is there is whole |
| `ReplacedFilesAreKept` | `ReplacedIsKept`: no old file is replaced before the backup of its batch holds it, and no backup is lost or changed |

They assume `RuntimeAssumption`, that batches follow the order of the files and that a helper that comes
last is a batch of its own, as in the three migrations of the code. The invariant adds `WorkInv`, what
the process has in hand (an upload into staging, into a collecting directory, or of the one next file
of the live tree, whose batch has its backup), and `BatchInv`: only the batch of the next file is
worked on.

`BootstrapMigrationProofs`, for every set of addresses, every order of the rules, both kinds of
provider, any window, any clock that is not set back and any number of deaths:

| Theorem | States |
|---|---|
| `TypeCorrect` | `TypeOK`: among others, the stored journal is always valid and the stored marker can be read again, but for a window opened after its end |
| `OneReleaseAtATime` | `RulesMatchRelease`: old rules only meet the old release and new rules the new one |
| `AtMostOneLateChange` | `LateChangesAreBounded` |
| `NothingUnannounced` | `ChangesAreAuthorised`: every rule that goes or comes is the one the stored journal names, in the phase the marker names |
| `CommittedIsComplete` | `CommitIsTrue`: the marker becomes committed only with the new release, one new rule for each address, no old one, and what belongs to others still there |

They assume `ScopeAssumption` and `MigrationAssumption` (finitely many addresses, at least one, and
identifiers for the rules there at first) and `AbsenceAssumption` (`None` is no number, marker or
pending change). None of the properties is inductive, because what a process may do next is spread
over its place in the code, the marker and the journal. `FilesInv` says what the files alone
guarantee: the journal knows every old rule by its identifier and every new one but the one being
added, and a marker in the phases `window` or `committed` means that no old rule is left. `InHand`
says the same of the process, of the journal and marker it is about to write (`Doc`, `Mrk`) and the
place it goes to afterwards (`Where`), so that writing a file changes nothing in it; `Reached` lists
what has been reached at each place. `LateInv` says that once a change came late, no process is
prepared for another. One lemma per action then shows that the invariant is kept; `SessionStep` and
`AuditSteps` hold what the many actions have in common that change only the process.

`DeliveryResultProofs`, on the client, for every number of parts a text may be cut into:

| Theorem | States |
|---|---|
| `SendsAreSound` | `SendIsSound`: a success covers the whole text, no payload goes out more than twice, the compatibility form of a plain one once |
| `SilenceIsFinal`, `PartsKeepTheirOrder` | no request follows one without an answer; parts go out one after the other, none again that was accepted |
| `ClientImplementsSend` | every step is one of `WebhookSend` or a stutter |
| `SendsKeepPromises` | `SendKeepsItsPromise`, the last three together |

They assume `WebhookAssumption` (at least one part, `Pending` no verdict). The invariant says what the
answers for the part being sent tell of the client: where it is (`TriesInv`: only a server error or
throttling leads to another request), what was accepted (`AckedInv`: all parts
before this one, and this one if its last answer says so) and how often each payload went out
(`SendsInv`). `DefiniteInv` (as long as every answer was a definite one, nothing arrived) makes a
rejection true.

`MailDeliveryProofs`, for any messages, deliveries and operators, every capacity, retention and time
to live:

| Theorem | States |
|---|---|
| `TypeCorrect` | `TypeOK` of the stores, the processes and the histories |
| `NothingTwice` | `NothingIsSentTwice`: as long as a message has one of its two protections, it reaches LINE WORKS at most once and one process at a time sends it; what can be sent again has reached nothing |
| `NotificationsAsPromised` | `ImplementsNotification`: every step is one of `RecoverableNotification` or a stutter |

They assume `MailDeliveryAssumption` and `StoreAssumption`, the stores' own assumptions. The stores'
invariants are not proved anew: `OutboxStep` and `DedupStep` show that every step of the notifier is a
step of each store or leaves it alone, and `DeliveryOutboxProofs` and `DeliveryDeduplicatorProofs` say
what such steps keep. The invariant adds what each protection guarantees alone. `OutboxAt` holds while
a message has not lost the outbox: it has one unexpired record, and whoever sends it does so under that
record. `ClaimAt` and `WorkAt` hold while it has not lost its claim: it is let through once, and one
process at a time works on it, whether a delivery or, after a rejection, an operator's retry. `RecordInv`
ties the two together: a record counts the one send made under it. `QuietStep` and `WorkingStep` say
what a step of one process leaves alone, so that the lemma about an operation only treats its own
message.

`ScopeJournalProofs`, on the files of the journal, for any bodies, any last generation and any
interruptions of any rewrite:

| Theorem | States |
|---|---|
| `JournalSound` | `JournalIsSound`: the types, the mark never ahead of the records, nothing left to repair after an answer, an interrupted first write can be finished |
| `JournalIsRegister` | `ImplementsRegister`: every step is one of `JournalRegister` or a stutter |

They assume `JournalAssumption` and `VoidAssumption` (`Void` is no record, operation or request),
and, as the run does, `~SurvivesErrors`. The invariant names the points at which the four files can be:
`Unstarted` (the first write is not beyond slot 1), `Writing` (slot 1 holds the record, the target is
rewritten), `Completing` (slot 0 is rewritten), `Marking` (the mark is), `Stuck` (the next record was
cut short in slot 1). `StepInv` says at which point an operation is at each of its steps and which
record it has in hand. What makes it a register is `KnownTexts`: the record in the files wants a body that is
possible for the callers or that the present swap, whose expected body is possible, may leave.
`RestInv` (nothing was interrupted since the last answer, so the files are as it left them, unless a
swap is writing) makes an answer final. `GoesOn` and `GivesUp` are the two ways in which a rewrite can
end; one lemma per step of the operation then only looks at the files.

`ScopeJournalProofs`, on the synchronisation, for any addresses, any worlds (providers, foreign rules,
edits, deaths) and, where nothing else is said, any number of sessions that overlap:

| Theorem | States |
|---|---|
| `TypeCorrect` | `TypeOK`: among others, the stored journal is always one that `ScopeJournal` accepts |
| `OneRule` | `OneRulePerAddress`: unless sessions overlap, no address has two managed or two old rules, wherever a creation was interrupted |
| `CoverageKept` | `CoverageIsKept`: no address the journal is to cover loses its last rule |
| `NothingTaken` | `NothingIsTaken`: a rule of this system is deleted only while the stored journal lists it for retirement (as its pending deletion, unless sessions overlap), and no writer of the configuration undoes what another wrote |
| `CompletionTrue` | `CompletionIsTrue`, unless sessions overlap: a journal becomes committed only when rules and configuration are what it says |

They assume `ScopeAssumption` (finitely many addresses), `SyncAssumption` (worlds have their types, and
enough identifiers for the rules that are there at first) and `AbsenceAssumption` (`None` is no
journal). The difficulty is that a session acts on a journal it read or wrote itself, which in a world
with overlaps may no longer be the one that is stored. `StaticInv` says what a session has in hand at
each place (`Shape`: which fields are set; `Sound`: what a plan puts into its journal; `BaseFits`: its
baseline holds what is to be retired and nothing of what is new; `Progress`: what is still to be done).
`DeepInv` compares its journal with the provider's rules and with the stored journal. Its core is
`Agrees`: identifiers mean the same rule for ever, and *as long as something is left to retire of a
journal in hand, the stored one is underway and of the same plan, and every new rule it has noted is
there*. So a late session can only delete what the stored journal has listed, and only when its
replacement exists; once nothing is left to retire, a journal that is out of date can do no harm to
the rules. `JournalInv` says the same of the stored journal, and `Ending` what holds of a journal that
is about to be committed. `SoleInv` is what besides is true while one session runs at a time: its
journal is the stored one, a body to be added is not there yet, and when it commits, rules and
configuration are complete (`Complete`). The actions that only read the list share the lemmas about
`Audit`; those that save share the ones about `Save`, since `Place` and `Holds` look ahead to the place
and journal that the saving leads to.

`AppInstallProofs`, for any bundles and configurations, any number of transactions, deaths and errors,
and whether or not the two ways to digest a bundle agree:

| Theorem | States |
|---|---|
| `TypeCorrect` | `TypeOK` |
| `NothingLost` | `NothingIsLost`: what was installed before is still there, or the new pair is in place and verified |
| `InstallationEndsWhole` | `EndsWhole`: an installation ends with the pair it was to bring or the one there was, or, if an error came between the exchange and `published`, with the new application and the old configuration |
| `RemovalEndsAsAsked` | `RemovalIsAsAsked`, even if several processes shared the work |
| `RecoveryIsUnderstood` | `RecoveryStaysUnderstood`: no recovery leaves a state that the next one refuses |

They assume `InstallAssumption` (`None` and `Torn` are no bundle or configuration) and `AbsenceAssumption`
(they are no marker or directory). Who works on a transaction changes with every death, so the invariant
first says what the disk alone guarantees. `RemovalInv` gives, for each phase in a removal's journal, what
is in the Applications folder and in the configuration's. `TracesInv` ties an installation's phase to its
marker, and `KeptInv`, as long as no removal came between, says where the old bundle and the old
configuration are: `Arranged` before the exchange, `Exchanged` after it. `InstallEnded` and `RemovalEnded`
are what a cleanup receipt certifies. The second part says what the process at each of its steps may rely
on: `RemovingInv`, `InstallingInv` and, for the recovery of the configuration, `RecoveringInv`, which
follows the table of `_PLANS` row by row. For the undoing, `Undoable` says where the bundles are for what
the process knows of them: where they were, exchanged with `published` set, or exchanged and `unnoted`.
`InstallEnded` keeps the last case apart up to the receipt. Without the last one `RecoveryStaysUnderstood` is not inductive:
each row of the table must lead to a state of another row of the same direction.

TLAPS is used for safety only. Liveness (`EveryMailIsTried`, `LockIsReleased`, `IntentIsSettled`, the
three `...Converges`), fairness and `ENABLED` are only model-checked. So is
`CompletionIsTrue` in worlds where sessions overlap. `RuntimeConverges` is checked for the oldest
predecessor's chain alone.

## 5. Not modelled, and why

* Parsing, quote trimming, formatting, authentication of system mail, validation of configuration
  files: pure functions without state; their correctness is a matter of wording and MIME, better
  served by the examples in `tests/`.
* Transports (FTPS, SSH, HTTP), the keychain, menus and prompts, bundle building: I/O around the
  logic. What the callers see of a transport (an answer, a refusal, a lost answer, a stray temporary
  file) is part of the models of the callers; the framing of requests over SSH is not.
* `fixed-runtime/legacy-manage-private-config.php`: a frozen copy of the helper.
* `NativePrivateStateFilesystem`: its contract, an exclusive lock and a replacement that is atomic but
  may throw after the rename, is built into the stores' actions. Below it are checks of owners, modes
  and inodes against other users of the host, which nobody in these models is.
* `SendmailClient`: to its only caller in the models a mail goes out or not, in bounded time. The
  TERM/KILL protocol within depends on the operating system's pipes and signals.
* `OperationalLogger`: nothing reads the log back; append and compaction share one lock.
* `ReleaseValidator` and the stable entry point read once what `FixedRuntime` and
  `BootstrapMigration` say is there.
* Preparing and staging a release: uploads into a directory of its own that nothing resumes. Staging
  the release that is active again rewrites its files in place; this is not explored.
* In the delivery: how a text is cut into parts. In the synchronisation: how the forwarding sources
  are found (any set of addresses may come out).

## 6. Disagreements met while modelling

One disagreement is a run of its own:

* **A prepared installation cannot be recovered when the two digests differ** (`install_crash`).
  `create_bundle_manifest()` digests the entries of a bundle in the order in which `os.walk()` meets
  them (`macos/install_transaction.py:98-101`), `tree_digest_fd()` sorted by path (line 183). For a
  bundle with files at two depths the digests differ, no comparison with the recorded tree holds, and
  a transaction whose installer died after PREPARED is refused by every later run. The docstring of
  `recover_transactions()` (`macos/install_app.py:1246-1248`) promises that it is cleaned or completed.
  The run `install` covers both cases, digests that agree and digests that do not.

The others are states that the models reach and that the properties name or exclude. Where the
operator is meant to repeat what was interrupted (README.md:100), these are the states in which
repeating does not help (`Stranded`, `Littered`, `Barred`).

Delivery and health:

* A clock set back can stop the health monitor. A recovery stores `failure_at` = the earlier
  `changed_at` and `changed_at` = now; if the clock went back in between, the file breaks the rule of
  `readState()` (`src/DeliveryHealthMonitor.php:261`), and if the alert mail fails as well, every later
  observation throws at reading, against README.md:106. `MonitorIsSound` claims readability for
  `ClockSteps = FALSE` only.
* A compatibility payload can be split: README.md:114 says that a 400 to it is neither resent nor split,
  `src/WebhookClient.php:138-146` splits on the text limit. The same line asks for a text over the soft
  cap before anything is split; lines 154-163 also split one the provider finds too long.

Scope journal (`bin/manage-private-config.php`):

* Once the first transaction is complete, a slot that is torn while it is rewritten has no consecutive
  partner: `selectScopeJournalGeneration()` (line 389) refuses the journal from then on, and both
  adoptions cover only generations 0 to 2. The helper's tests expect the refusal
  (`tests/php/test_manage_private_config.php:618-620`), README.md:100 a resumption.
* When the read before a swap throws, the swap compares what is expected with the target it opened
  before the read (lines 946-954), which recovery may have rewritten meanwhile. It takes a torn
  rewrite that left the target empty, a caller with an outdated view and an error in the middle of the
  repair. The comment at line 957 confines this path to the time before any durable generation; the
  code does not. The run `journal` has `SurvivesErrors = FALSE`.

Synchronisation (`manager/manage.py`; `Stranded` in `TargetSync`): an interrupted transaction is
refused by every repetition

* when somebody else changed the configuration meanwhile (`ConfigMoved`);
* when a rule was deleted whose address is now found neither in the configuration, nor among the
  wishes, nor in any remaining rule (`AddressForgotten`, lines 809-830: the rule's body cannot be
  recognised by its digest any more);
* when the provider moved up somebody else's rule after a deletion, since unrelated rules are compared
  with their priority (`RuleMoved`, lines 785-806, and the final verification).

Two sessions that overlap can create a duplicate rule, and one may delete a rule while the journal
already names another deletion; what holds then is in `NothingIsTaken` and `CoverageIsKept`. Over two synchronisations there is one
more case: a session that had come to the swap of the configuration, the last change of a transaction,
when another one committed it and began the next, still swaps if the configuration is by then again the
one it read (`private_config_ssh.py` compares contents, not versions). If it does so between the last
reading of the configuration and the commit of the next transaction, that one is committed with the
configuration of the one before. `CompletionIsTrue` therefore speaks, where sessions overlap, of one
synchronisation.

First migration (`manager/release_deployer.py`; `Stranded` in `BootstrapMigration`):

* Once the time agreed to is over, no repetition changes anything any more (`Expired`). If old rules
  were deleted before, the outage lasts until somebody mends it by hand, although the warning promises
  two minutes at most. A window marker that is written late cannot be read again.
* `deploy_release()` never tells `bootstrap_migrate()` that the locator has moved (`locator_pair` keeps
  its default `"old"`, lines 311 and 341-360, `manager/manage.py:1749`). A process that dies between
  the marker's `committed` and the configuration's new release therefore finds the complete new rules
  beside an assumed old locator and isolates the migration (`Isolated`);
  `tests/python/test_release_deployer.py:426` tests the convergence with the locator passed.
* A provider that renumbers bars the resumption after the first deletion (`RuleMoved`).
* Changed targets between two runs, or a synchronisation interrupted before, are not explored.

Fixed runtime (`manager/release_workflow.py`; `Littered`):

* A death between a temporary upload and its rename, or between the creation of a directory and its
  mode, leaves an entry that the strict inspection refuses for good. A complete staging tree that
  was not renamed is refused as well (lines 247-248), while a complete backup that was not is accepted.

Mac installation (`macos/install_app.py`; `Barred`): every further installation refuses

* after a temporary file, a receipt or a transaction's directory was left without content or journal;
  this goes for an error in the journal's own writing too, since the temporary that it leaves is in the
  way of ABORTED (`AppendRefused`);
* after a reinstallation of the same tree with the same configuration was interrupted, and after an
  ABORTED transaction was left unvouched (lines 1347-1348);
* after a removal came while an installation was pending. If that removal takes the configuration
  along, the old one remains in the backup file.

An error can end with a mixed pair. `publish()` renames the bundle (`macos/install_app.py:857-863`),
synchronises the directory (line 864) and only then sets `published`. If line 864 raises,
`install_with_config()` restores the configuration (lines 1070-1075), and `abort()`, which goes by
`published` (line 887), leaves the new application in place, appends ABORTED and deletes the staging
directory and the old application with it. The plan of the installer promises that such a fault leaves
the old pair or the new pair, never a mixed one
(`docs/superpowers/plans/2026-07-11-macos-launcher-app.md:830`). `Fail` takes this path, and `EndsWhole`
and `InstallationEndsWhole` name it (`unnoted`) as the only one on which a regular end is mixed.

`_recover_config_marker()` calls itself idempotent (line 1099). While it moves files it is
(`RecoveryStaysUnderstood`); but when a roll-back dies after the marker was removed and before the
transaction's directory was, the next run takes the missing marker for a commit, expects the new
configuration and refuses. An error in the installation whose own undoing dies (lines 1070-1075)
leaves the new application next to the old configuration or none, and may bar every later
installation in the same way.

## 7. What could follow

1. A proof of `CompletionIsTrue` where sessions overlap within one synchronisation.
2. `PrivateStateFilesystem`, `SendmailClient` and `OperationalLogger` with a model of files,
   descriptors and signals below them.
3. Staging a release and the stable entry point against it.
4. Cutting a text into parts, and the search for forwarding sources, as pure operators against a
   reference definition.
