-------------------------- MODULE ScopeJournalStore -------------------------
(***************************************************************************)
(* The scope journal of the private configuration helper: one small body,  *)
(* read and swapped by the operator's tools over SSH, kept in four files   *)
(* that are rewritten in place.  A change is written ahead to one of two   *)
(* slots (an even generation to slot 0, an odd one to slot 1), applied to  *)
(* the target file, completed in the other slot, and marked in the lock    *)
(* file.  The process may die, and a write may fail, in the middle of any  *)
(* rewrite: the file then holds nothing, or a prefix of what was meant.    *)
(*                                                                         *)
(* Every operation runs under an exclusive lock, so that at most one is    *)
(* under way.  A file is Blank, a Scrap that begins every content, or Torn *)
(* or Whole with a content of its own.  Checksums, inodes and owners,      *)
(* checked at every step, are left out: nobody else writes to the          *)
(* directory.  A missing target is a Blank one.                            *)
(***************************************************************************)
EXTENDS Integers

CONSTANTS
  Texts,          \* what may be journaled
  MaxGeneration,  \* PHP_INT_MAX
  SurvivesErrors, \* may a swap go on after an error from one of its repairs?
  Void

ASSUME JournalAssumption ==
  /\ MaxGeneration \in Nat /\ MaxGeneration >= 2
  /\ SurvivesErrors \in BOOLEAN
  /\ Void \notin Texts

VARIABLES
  target,   \* the journal file proper
  slots,    \* the two slots
  mark,     \* the generation completed last, in the lock file
  op,       \* the operation under way, or Void
  agreed,   \* history: what the last completed operation left or saw
  intents   \* history: what operations interrupted since wanted to write

fileVars == <<target, slots, mark>>
historyVars == <<agreed, intents>>
storeVars == <<fileVars, op, historyVars>>

Values == Texts \cup {Void}

File(Contents) == [of : Contents, left : {"part", "all"}]
                  \cup [of : {Void}, left : {"nothing", "scrap"}]

Blank == [of |-> Void, left |-> "nothing"]
Scrap == [of |-> Void, left |-> "scrap"]
Torn(content) == [of |-> content, left |-> "part"]
Whole(content) == [of |-> content, left |-> "all"]

IsWhole(file) == file.left = "all"

\* A strict prefix of the content.
IsPrefix(file, content) == file \in {Blank, Scrap, Torn(content)}

\* A slot may be overwritten by content when it holds nothing else, whole or not.
MayBecome(file, content) == IsPrefix(file, content) \/ file = Whole(content)

\* What a rewrite that does not end well may leave of a file.
Leftovers(file, content) == {file, Blank, Scrap, Torn(content), Whole(content)}

\* A slot's record: the body it wants, and the one it replaces or Void.
Record == [generation : 0..MaxGeneration, phase : {"bootstrap", "complete"},
           intended : Texts, prior : Values]

SlotOf(generation) == generation % 2

Bootstrap(generation, desired, prior) ==
  [generation |-> generation, phase |-> "bootstrap", intended |-> desired, prior |-> prior]

\* persistentJournalCompleteRecord()
Completion(record) == [record EXCEPT !.generation = @ + 1, !.phase = "complete"]

\* The body in a file, Void when it has none.
BodyOf(file) == IF IsWhole(file) THEN file.of ELSE Void

TargetBody == BodyOf(target)

(***************************************************************************)
(* Which record has authority.                                             *)
(***************************************************************************)
Untouched == slots[0] = Blank /\ slots[1] = Blank

\* selectScopeJournalGeneration(): two whole slots of consecutive generations.
Selectable ==
  /\ IsWhole(slots[0]) /\ IsWhole(slots[1])
  /\ slots[0].of.generation - slots[1].of.generation \in {1, -1}

Newest ==
  IF slots[0].of.generation > slots[1].of.generation THEN slots[0].of ELSE slots[1].of

\* adoptScopeJournalBootstrapRemnant(): the very first write died between its slots.
BootstrapRemnant ==
  /\ IsWhole(slots[0]) /\ ~IsWhole(slots[1])
  /\ slots[0].of.generation = 0 /\ slots[0].of.phase = "bootstrap"
  /\ slots[0].of.prior # Void => TargetBody = slots[0].of.prior
  /\ MayBecome(slots[1], [slots[0].of EXCEPT !.generation = 1])

\* adoptScopeJournalCompletionRemnant(): it died while it completed.
CompletionRemnant ==
  /\ IsWhole(slots[1]) /\ ~IsWhole(slots[0])
  /\ slots[1].of.generation = 1 /\ slots[1].of.phase = "bootstrap"
  /\ mark = Blank
  /\ MayBecome(slots[0], Completion(slots[1].of))

\* A torn mark that persistentJournalCompletionGeneration() repairs.
MarkIsTorn(record) ==
  record.phase = "complete" /\ mark # Blank /\ IsPrefix(mark, record.generation)

\* Otherwise there is none, or a whole one of no later generation.  No mark is
\* written before generation 2: it makes no difference that the code looks at
\* it after it has adopted a bootstrap remnant.
MarkFits(record) ==
  \/ mark = Blank
  \/ IsWhole(mark) /\ mark.of <= record.generation
  \/ MarkIsTorn(record)

\* persistentJournalRecover() finds something to go on with.
Recoverable ==
  \/ Selectable /\ MarkFits(Newest)
  \/ BootstrapRemnant /\ mark = Blank
  \/ CompletionRemnant

(***************************************************************************)
(* Operations.  An operation works on one record at a time, to recover it  *)
(* (stage "read") or to write (stage "write"); pc is the file it rewrites  *)
(* next, and final tells whether a write is done after this record.        *)
(***************************************************************************)
Op == [kind : {"read", "swap"}, expected : Values, desired : Values,
       retained : File(Texts), stage : {"read", "write"}, final : BOOLEAN,
       record : Record \cup {Void},
       pc : {"examine", "anchor", "slot", "repair", "target", "complete", "mark", "end", "next"}]

\* Void is no record, operation or request.
ASSUME VoidAssumption ==
  /\ Void \notin Record /\ Void \notin Op
  /\ Void \notin [kind : {"read", "swap"}, expected : Values, desired : Values]

Doing(step) == op # Void /\ op.pc = step

\* persistentJournalOpenContext() waits for the lock; a swap opens the target first.
Open(kind, expected, desired) ==
  /\ op = Void
  /\ op' = [kind |-> kind, expected |-> expected, desired |-> desired, retained |-> target,
            stage |-> "read", final |-> FALSE, record |-> Void, pc |-> "examine"]
  /\ UNCHANGED <<fileVars, historyVars>>

Possible == {agreed} \cup intents

\* The operation completes, and its answer tells the caller the value.
Return(v) ==
  /\ op' = Void
  /\ agreed' = v
  /\ intents' = {}

Proceed(step) == op' = [op EXCEPT !.pc = step] /\ UNCHANGED historyVars

Take(record, step, final) ==
  /\ op' = [op EXCEPT !.pc = step, !.record = record, !.final = final]
  /\ UNCHANGED historyVars

\* What an operation that ends without an answer may have left.
Abandon ==
  /\ op' = Void
  /\ intents' = IF op.kind = "swap" /\ op.expected \in Possible
                THEN intents \cup {op.desired} ELSE intents
  /\ UNCHANGED agreed

\* Mutant of ExpectsRetained: the bodies are not compared.
ExpectsPresence == (op.retained = Blank) <=> (op.expected = Void)

\* The caller expects the body that the target had when the swap began.
ExpectsRetained ==
  op.retained = IF op.expected = Void THEN Blank ELSE Whole(op.expected)

\* An error ends the operation, but for a swap that was only reading: if it
\* expects the retained target it goes on to write.
Error ==
  IF op.kind = "swap" /\ op.stage = "read" /\ ExpectsRetained
  THEN op' = [op EXCEPT !.stage = "write", !.pc = "examine"] /\ UNCHANGED historyVars
  ELSE Abandon

\* The process dies during the rewrite, or gets an error from it that ends it; or
\* one that a swap survives.
Fail == Abandon \/ (SurvivesErrors /\ Error)

(***************************************************************************)
(* Recovery, in both stages.                                               *)
(***************************************************************************)
\* In the stage "write" this is reached when slot 1 has something in it.
ExaminesToRecover ==
  Doing("examine") /\ ~Untouched /\ (op.stage = "write" => slots[1] # Blank)

RecoverSelected ==
  /\ ExaminesToRecover
  /\ Selectable /\ MarkFits(Newest)
  /\ Take(Newest, IF MarkIsTorn(Newest) THEN "repair" ELSE "target", FALSE)
  /\ UNCHANGED fileVars

RecoverBootstrap ==
  /\ ExaminesToRecover
  /\ BootstrapRemnant /\ mark = Blank
  /\ Take([slots[0].of EXCEPT !.generation = 1], "anchor", FALSE)
  /\ UNCHANGED fileVars

RecoverCompletion ==
  /\ ExaminesToRecover
  /\ CompletionRemnant
  /\ Take(Completion(slots[1].of), "slot", FALSE)
  /\ UNCHANGED fileVars

RecoverFails ==
  /\ ExaminesToRecover
  /\ ~Recoverable
  /\ Error
  /\ UNCHANGED fileVars

\* A journal nobody has written to is the target alone.
ReadUntouched ==
  /\ Doing("examine") /\ op.stage = "read"
  /\ Untouched
  /\ Take(Void, "end", FALSE)
  /\ UNCHANGED fileVars

(***************************************************************************)
(* The rewrites of one record, in their order.                             *)
(***************************************************************************)
\* repairScopeJournalSlot(): nothing is rewritten that holds the record already.
WriteSlot(record) ==
  /\ slots' = [slots EXCEPT ![SlotOf(record.generation)] = Whole(record)]
  /\ UNCHANGED <<target, mark>>

WriteSlotFails(record) ==
  /\ slots[SlotOf(record.generation)] # Whole(record)
  /\ \E f \in Leftovers(slots[SlotOf(record.generation)], record) :
       slots' = [slots EXCEPT ![SlotOf(record.generation)] = f]
  /\ Fail
  /\ UNCHANGED <<target, mark>>

\* initializeScopeJournalBootstrapRemnant(): generation 0 goes first.
Anchor ==
  /\ Doing("anchor")
  /\ LET record == [op.record EXCEPT !.generation = 0]
     IN  \/ WriteSlot(record) /\ Proceed("slot")
         \/ WriteSlotFails(record)

Slot ==
  /\ Doing("slot")
  /\ \/ WriteSlot(op.record) /\ Proceed("target")
     \/ WriteSlotFails(op.record)

WriteMark(generation) ==
  /\ mark' = Whole(generation)
  /\ UNCHANGED <<target, slots>>

WriteMarkFails(generation) ==
  /\ mark' \in Leftovers(mark, generation)
  /\ Fail
  /\ UNCHANGED <<target, slots>>

RepairMark ==
  /\ Doing("repair")
  /\ \/ WriteMark(op.record.generation) /\ Proceed("target")
     \/ WriteMarkFails(op.record.generation)

\* persistentJournalApply(): what the target may hold for the record to be applied.
Applicable ==
  \/ target = Whole(op.record.intended)
  \/ op.record.prior # Void /\ target = Whole(op.record.prior)
  \/ /\ op.record.phase = "bootstrap" \/ op.record.generation = 2
     /\ IsPrefix(target, op.record.intended)

\* Mutant of AfterTarget: the completion is forgotten.
AfterTargetMark == "mark"

AfterTarget == IF op.record.phase = "complete" THEN "mark" ELSE "complete"

Apply ==
  /\ Doing("target")
  /\ \/ Applicable /\ target' = Whole(op.record.intended) /\ Proceed(AfterTarget)
     \/ /\ Applicable /\ target # Whole(op.record.intended)
        /\ target' \in Leftovers(target, op.record.intended) /\ Fail
     \/ ~Applicable /\ Error /\ UNCHANGED target
  /\ UNCHANGED <<slots, mark>>

\* publishScopeJournalComplete()
Publish ==
  /\ Doing("complete")
  /\ LET record == Completion(op.record)
     IN  \/ WriteSlot(record) /\ Take(record, "mark", op.final)
         \/ WriteSlotFails(record)

MarkDue == op.record.generation

\* persistJournalCompletionGeneration()
Mark ==
  /\ Doing("mark")
  /\ \/ mark = Whole(MarkDue) /\ Proceed("end") /\ UNCHANGED fileVars
     \/ /\ mark = Blank \/ (IsWhole(mark) /\ mark.of < MarkDue)
        /\ \/ WriteMark(MarkDue) /\ Proceed("end")
           \/ WriteMarkFails(MarkDue)
     \/ /\ IF IsWhole(mark) THEN mark.of > MarkDue ELSE mark # Blank
        /\ Error /\ UNCHANGED fileVars

(***************************************************************************)
(* What the operation does with the record.                                *)
(***************************************************************************)
Current == IF op.record = Void THEN TargetBody ELSE op.record.intended

EndRead ==
  /\ Doing("end") /\ op.kind = "read"
  /\ Return(Current)
  /\ UNCHANGED fileVars

\* compareAndSwapScopeJournal(): already applied, or a conflict.
EndSwapUnchanged ==
  /\ Doing("end") /\ op.kind = "swap" /\ op.stage = "read"
  /\ Current = op.desired \/ Current # op.expected
  /\ Return(Current)
  /\ UNCHANGED fileVars

EndSwapReads ==
  /\ Doing("end") /\ op.kind = "swap" /\ op.stage = "read"
  /\ Current # op.desired /\ Current = op.expected
  /\ op' = [op EXCEPT !.stage = "write", !.pc = "examine"]
  /\ UNCHANGED <<fileVars, historyVars>>

\* writeScopeJournalInContext(): the first write ever, or one that repeats an
\* interrupted first write and is then written over.  The prior body is that of
\* the target opened when the swap began.
WriteFirst ==
  /\ Doing("examine") /\ op.stage = "write" /\ slots[1] = Blank
  /\ MayBecome(slots[0], Bootstrap(0, op.desired, BodyOf(op.retained)))
  /\ Take(Bootstrap(1, op.desired, BodyOf(op.retained)), "anchor", slots[0] = Blank)
  /\ UNCHANGED fileVars

WriteFirstFails ==
  /\ Doing("examine") /\ op.stage = "write" /\ slots[1] = Blank
  /\ ~MayBecome(slots[0], Bootstrap(0, op.desired, BodyOf(op.retained)))
  /\ Error
  /\ UNCHANGED fileVars

EndWritePass ==
  /\ Doing("end") /\ op.stage = "write" /\ ~op.final
  /\ Proceed("next")
  /\ UNCHANGED fileVars

Exhausted == op.record.generation > MaxGeneration - 2

WriteNext ==
  /\ Doing("next") /\ ~Exhausted
  /\ Take(Bootstrap(op.record.generation + 1, op.desired, TargetBody), "slot", TRUE)
  /\ UNCHANGED fileVars

WriteNextFails ==
  /\ Doing("next") /\ Exhausted
  /\ Error
  /\ UNCHANGED fileVars

EndWrite ==
  /\ Doing("end") /\ op.stage = "write" /\ op.final
  /\ Return(op.desired)
  /\ UNCHANGED fileVars

\* The process dies between two rewrites.
Killed == op # Void /\ Abandon /\ UNCHANGED fileVars

(***************************************************************************)
(* The specification.  A journal may have been written by a release that   *)
(* kept the target alone.                                                  *)
(***************************************************************************)
StoreInit ==
  /\ target \in {Blank} \cup {Whole(b) : b \in Texts}
  /\ slots = [s \in {0, 1} |-> Blank]
  /\ mark = Blank
  /\ op = Void
  /\ agreed = TargetBody
  /\ intents = {}

Recover == RecoverSelected \/ RecoverBootstrap \/ RecoverCompletion \/ RecoverFails

Rewrite == Anchor \/ Slot \/ RepairMark \/ Apply \/ Publish \/ Mark

Write == WriteFirst \/ WriteFirstFails \/ EndWritePass \/ WriteNext \/ WriteNextFails \/ EndWrite

StoreNext ==
  \/ Open("read", Void, Void)
  \/ \E expected \in Values, desired \in Texts : Open("swap", expected, desired)
  \/ ReadUntouched \/ Recover \/ Rewrite
  \/ EndRead \/ EndSwapUnchanged \/ EndSwapReads
  \/ Write \/ Killed

StoreSpec == StoreInit /\ [][StoreNext]_storeVars

(***************************************************************************)
(* Properties.                                                             *)
(***************************************************************************)
\* Every file holds what some operation writes to it, and generations stay in range.
StoreTypeOK ==
  /\ target \in File(Texts)
  /\ slots \in [{0, 1} -> File(Record)]
  /\ mark \in File(2..MaxGeneration)
  /\ op \in Op \cup {Void}
  /\ agreed \in Values
  /\ intents \subseteq Texts

\* However its rewrites are cut short, the journal is a register that is read and
\* swapped atomically: no answer shows a body that was never agreed or intended,
\* and compareAndSwapScopeJournal() replaces no body but the one it expects.  It
\* does if it survives errors: recovery may have rewritten the target since it
\* was opened, and that opened target is what is compared.
Request ==
  IF op = Void THEN Void ELSE [kind |-> op.kind, expected |-> op.expected, desired |-> op.desired]

Register == INSTANCE JournalRegister WITH request <- Request, value <- agreed

ImplementsRegister == Register!Spec

\* The mark never runs ahead of the records: persistentJournalRecover() would
\* refuse the journal from then on.
MarkIsBehind ==
  IsWhole(mark) => \E s \in {0, 1} : IsWhole(slots[s]) /\ slots[s].of.generation >= mark.of

\* An operation that answers leaves nothing for the next one to repair: the four
\* files agree on what it answered.
CompletedIsAtRest ==
  op = Void /\ intents = {} =>
    \/ Untouched /\ mark = Blank
    \/ /\ Selectable /\ Newest.phase = "complete"
       /\ mark = Whole(Newest.generation)
       /\ target = Whole(agreed) /\ Newest.intended = agreed

\* An interrupted first write that no read can adopt is accepted when somebody
\* repeats it.
FirstWriteIsRepeatable ==
  /\ slots[1] = Blank
  /\ \E b \in Texts : MayBecome(slots[0], Bootstrap(0, b, TargetBody))

\* Until the first write is marked complete, no interruption bars the journal for
\* good: it is readable, or the write that was interrupted can be repeated.
FirstWriteCanBeResumed ==
  op = Void /\ mark = Blank => Untouched \/ Recoverable \/ FirstWriteIsRepeatable

\* The four files stay in step, are settled by every answer, and a first write is
\* never lost to an interruption.
JournalIsSound == StoreTypeOK /\ MarkIsBehind /\ CompletedIsAtRest /\ FirstWriteCanBeResumed
=============================================================================
