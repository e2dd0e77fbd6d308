------------------------- MODULE ScopeJournalProofs -------------------------
(***************************************************************************)
(* Proofs about the scope journal and what is done under it.               *)
(*                                                                         *)
(* The first part is about ScopeJournalStore, for any bodies and any last  *)
(* generation, when an error from a repair ends the operation: the four    *)
(* files are one register.  The second is about TargetSync, which uses     *)
(* that register, for any addresses, sessions and worlds.  The two modules *)
(* share no variable, and the parts no lemma.                              *)
(***************************************************************************)
EXTENDS ScopeJournalStore, TargetSync, FiniteSetTheorems, TLAPS

-----------------------------------------------------------------------------
(***************************************************************************)
(* The inductive invariant.  The four files are always at one of a few     *)
(* points of the writing of one record.                                    *)
(***************************************************************************)
\* What the operation under way may leave if it is interrupted.
Attempted ==
  IF op # Void /\ op.stage = "write" /\ op.expected \in Possible THEN {op.desired} ELSE {}

KnownTexts == Possible \cup Attempted

\* A journal that has the body, or none, and nothing else.
Plain(body) == IF body = Void THEN Blank ELSE Whole(body)

Zeroth(record) == [record EXCEPT !.generation = 0]

\* The first record of all, before slot 1 holds it.
IsFirst(record) ==
  /\ record.generation = 1 /\ record.phase = "bootstrap"
  /\ record.prior = TargetBody

\* The first write has not got beyond slot 0, or is in slot 1.
Unstarted ==
  /\ mark = Blank /\ target = Plain(TargetBody) /\ TargetBody \in Possible
  /\ \/ Untouched
     \/ \E b \in Texts :
          slots[1] = Blank /\ slots[0] \in {Scrap, Torn(Bootstrap(0, b, TargetBody))}
     \/ \E b \in Texts \cap KnownTexts :
          slots[0] = Whole(Bootstrap(0, b, TargetBody))
            /\ IsPrefix(slots[1], Bootstrap(1, b, TargetBody))

\* Slot 1 holds the record that is written.
Under ==
  /\ IsWhole(slots[1])
  /\ slots[1].of.phase = "bootstrap" /\ SlotOf(slots[1].of.generation) = 1
  /\ slots[1].of.generation < MaxGeneration
  /\ slots[1].of.intended \in KnownTexts

MarkBefore == IF slots[1].of.generation = 1 THEN Blank ELSE Whole(slots[1].of.generation - 1)

\* Slot 0 still holds the record before, and the target is rewritten.
Writing ==
  /\ Under
  /\ IsWhole(slots[0]) /\ slots[0].of.generation = slots[1].of.generation - 1
  /\ mark = MarkBefore
  /\ \/ target \in {Plain(slots[1].of.prior), Whole(slots[1].of.intended)}
     \/ IsPrefix(target, slots[1].of.intended)

\* The target is written, and slot 0 is rewritten.
Completing ==
  /\ Under
  /\ target = Whole(slots[1].of.intended)
  /\ mark = MarkBefore
  /\ ~IsWhole(slots[0])
  /\ slots[1].of.generation = 1 => IsPrefix(slots[0], Completion(slots[1].of))

\* Slot 0 holds the completed record, and the mark is rewritten.
Marking ==
  /\ Under
  /\ target = Whole(slots[1].of.intended)
  /\ slots[0] = Whole(Completion(slots[1].of))
  /\ mark \in {MarkBefore, Whole(slots[0].of.generation)} \/ IsPrefix(mark, slots[0].of.generation)

Done == Marking /\ mark = Whole(slots[0].of.generation)

\* The next record was cut short in slot 1: nobody goes on from here.
Stuck ==
  /\ ~IsWhole(slots[1])
  /\ IsWhole(slots[0]) /\ slots[0].of.phase = "complete" /\ slots[0].of.generation >= 2
  /\ mark = Whole(slots[0].of.generation)

FilesInv == Unstarted \/ Writing \/ Completing \/ Marking \/ Stuck

\* What an answer leaves.
AtRest(body) ==
  \/ Unstarted /\ Untouched /\ TargetBody = body
  \/ Done /\ slots[0].of.intended = body

RestInv == intents = {} => AtRest(agreed) \/ Attempted # {}

(***************************************************************************)
(* What the operation knows at each of its steps.                          *)
(***************************************************************************)
NotTorn(file) == file = Blank \/ IsWhole(file)

IsNext(record) ==
  /\ record.phase = "bootstrap" /\ record.generation = slots[0].of.generation + 1
  /\ record.generation < MaxGeneration
  /\ record.prior = TargetBody

Bricked == Stuck \/ (Completing /\ slots[1].of.generation # 1)

ExamineInv ==
  /\ op.stage = "read" => op.retained = target
  /\ op.stage = "write" =>
       \/ Done /\ slots[0].of.intended = op.expected /\ op.expected \in Possible
       \/ Unstarted /\ slots[1] = Blank /\ op.retained = target /\ op.expected = TargetBody
       \/ Bricked

AnchorInv ==
  /\ Unstarted /\ IsFirst(op.record) /\ op.record.intended \in KnownTexts
  /\ MayBecome(slots[0], Zeroth(op.record)) /\ IsPrefix(slots[1], op.record)
  /\ IF op.stage = "read" THEN IsWhole(slots[0]) ELSE slots[1] = Blank

SlotInv ==
  \/ /\ Unstarted /\ IsFirst(op.record) /\ op.record.intended \in KnownTexts
     /\ slots[0] = Whole(Zeroth(op.record)) /\ IsPrefix(slots[1], op.record)
  \/ /\ Completing /\ slots[1].of.generation = 1 /\ op.record = Completion(slots[1].of)
  \/ /\ Done /\ IsNext(op.record) /\ op.stage = "write" /\ op.final

StepInv ==
  /\ op.pc = "examine" => ExamineInv
  /\ op.pc = "anchor" => AnchorInv
  /\ op.pc = "slot" => SlotInv
  /\ op.pc = "repair" =>
       Marking /\ op.record = slots[0].of /\ IsPrefix(mark, op.record.generation)
  /\ op.pc = "target" =>
       \/ Writing /\ op.record = slots[1].of
       \/ Marking /\ op.record = slots[0].of /\ NotTorn(mark)
  /\ op.pc = "complete" =>
       Writing /\ op.record = slots[1].of /\ target = Whole(op.record.intended)
  /\ op.pc = "mark" => Marking /\ op.record = slots[0].of /\ NotTorn(mark)
  /\ op.pc = "end" =>
       \/ Unstarted /\ Untouched /\ op.record = Void /\ op.stage = "read" /\ op.retained = target
       \/ Done /\ op.record = slots[0].of
  /\ op.pc = "next" => Done /\ op.record = slots[0].of /\ op.stage = "write"

OpInv ==
  op # Void =>
    /\ op.kind = "read" => op.expected = Void /\ op.desired = Void /\ op.stage = "read"
    /\ op.kind = "swap" => op.desired \in Texts
    /\ op.stage = "write" /\ op.pc # "examine" => op.expected \in Possible
    /\ op.pc # "examine" /\ op.final => op.stage = "write" /\ op.record.intended = op.desired
    /\ op.pc \in {"anchor", "slot", "repair", "target", "complete", "mark", "next"} => op.record # Void
    /\ StepInv

StoreInv == StoreTypeOK /\ FilesInv /\ RestInv /\ OpInv

(***************************************************************************)
(* Generations, files and records.                                         *)
(***************************************************************************)
LEMMA Sides == \A g \in Nat : SlotOf(g) \in {0, 1} /\ SlotOf(g + 1) = 1 - SlotOf(g)
  BY DEF SlotOf

LEMMA FirstSides == SlotOf(0) = 0 /\ SlotOf(1) = 1 /\ SlotOf(2) = 0
  BY DEF SlotOf

LEMMA Contents ==
  ASSUME NEW C, NEW f \in File(C), Void \notin C
  PROVE  /\ IsWhole(f) <=> f.of \in C /\ f = Whole(f.of)
         /\ ~IsWhole(f) => f = Blank \/ f = Scrap \/ (f.of \in C /\ f = Torn(f.of))
  BY DEF File, IsWhole, Whole, Torn, Blank, Scrap

LEMMA Written ==
  ASSUME NEW C, NEW c \in C
  PROVE  /\ Blank \in File(C) /\ Scrap \in File(C)
         /\ Whole(c) \in File(C) /\ Torn(c) \in File(C)
  BY DEF File, Whole, Torn, Blank, Scrap

LEMMA Firsts ==
  ASSUME NEW r \in Record, IsFirst(r)
  PROVE  /\ r = Bootstrap(1, r.intended, TargetBody)
         /\ Zeroth(r) = Bootstrap(0, r.intended, TargetBody)
         /\ r.intended \in Texts
  BY DEF Record, IsFirst, Bootstrap, Zeroth

LEMMA Completions ==
  ASSUME NEW r \in Record, r.generation < MaxGeneration
  PROVE  /\ Completion(r) \in Record
         /\ Completion(r).generation = r.generation + 1 /\ Completion(r).phase = "complete"
         /\ Completion(r).intended = r.intended /\ Completion(r).prior = r.prior
<1>1. r.generation + 1 \in 0..MaxGeneration
  BY JournalAssumption DEF Record
<1> QED  BY <1>1 DEF Record, Completion

\* The slots hold records, and Void is none.
LEMMA SlotTypes ==
  ASSUME StoreTypeOK, NEW s \in {0, 1}
  PROVE  /\ IsWhole(slots[s]) => slots[s].of \in Record /\ slots[s] = Whole(slots[s].of)
         /\ ~IsWhole(slots[s]) =>
              slots[s] = Blank \/ slots[s] = Scrap \/ slots[s].of \in Record
  BY VoidAssumption, Contents DEF StoreTypeOK

(***************************************************************************)
(* What a step leaves of the values that are known.                        *)
(***************************************************************************)
LEMMA SameFilesSameState ==
  ASSUME UNCHANGED fileVars, Possible \subseteq Possible', KnownTexts \subseteq KnownTexts'
  PROVE  /\ Unstarted => Unstarted'
         /\ Writing => Writing'
         /\ Completing => Completing'
         /\ Marking => Marking'
         /\ Done => Done'
         /\ Stuck => Stuck'
         /\ Untouched' = Untouched
         /\ agreed' = agreed /\ AtRest(agreed) => AtRest(agreed)'
<1>1. TargetBody' = TargetBody /\ Untouched' = Untouched
  BY DEF fileVars, TargetBody, Untouched
<1>2. Unstarted => Unstarted'
  BY <1>1 DEF fileVars, Unstarted
<1>3. Under => Under'
  BY DEF fileVars, Under
<1>4. MarkBefore' = MarkBefore
  BY DEF fileVars, MarkBefore
<1>5. (Writing => Writing') /\ (Completing => Completing') /\ (Marking => Marking')
  BY <1>3, <1>4 DEF fileVars, Writing, Completing, Marking
<1>6. (Done => Done') /\ (Stuck => Stuck')
  BY <1>5 DEF fileVars, Done, Stuck
<1> QED  BY <1>1, <1>2, <1>5, <1>6 DEF fileVars, AtRest

\* An operation that goes on knows what it knew; what it rewrites was not at rest, or it is
\* a swap that may leave what it writes.
LEMMA GoesOn ==
  ASSUME StoreInv, op # Void, op' # Void, UNCHANGED historyVars,
         op'.stage = op.stage, op'.expected = op.expected, op'.desired = op.desired,
         Attempted = {} => ~AtRest(agreed) \/ UNCHANGED fileVars
  PROVE  Possible' = Possible /\ Attempted' = Attempted /\ KnownTexts' = KnownTexts /\ RestInv'
<1>1. Possible' = Possible
  BY DEF historyVars, Possible
<1>2. Attempted' = Attempted
  BY <1>1 DEF Attempted
<1>3. KnownTexts' = KnownTexts
  BY <1>1, <1>2 DEF KnownTexts
<1>4. RestInv'
  <2>1. CASE UNCHANGED fileVars
    <3>1. AtRest(agreed) => AtRest(agreed)'
      BY <2>1, <1>1, <1>3, SameFilesSameState DEF historyVars
    <3> QED  BY <1>2, <3>1 DEF StoreInv, RestInv, historyVars
  <2>2. CASE Attempted # {} \/ ~AtRest(agreed)
    BY <1>2, <2>2 DEF StoreInv, RestInv, historyVars
  <2> QED  BY <2>1, <2>2
<1> QED  BY <1>1, <1>2, <1>3, <1>4

\* An operation that ends without an answer adds what it may leave to what is possible.
LEMMA GivesUp ==
  ASSUME StoreInv, op # Void, Abandon,
         Attempted = {} => ~AtRest(agreed) \/ UNCHANGED fileVars
  PROVE  Possible \subseteq Possible' /\ KnownTexts \subseteq KnownTexts' /\ RestInv' /\ OpInv'
<1>1. op' = Void /\ agreed' = agreed /\ Attempted' = {}
  BY DEF Abandon, Attempted
<1>2. Possible \subseteq Possible'
  BY DEF Abandon, Possible
<1>3. op.stage = "write" => op.kind = "swap"
  BY DEF StoreInv, OpInv, StoreTypeOK, Op
<1>4. Attempted \subseteq intents'
  BY <1>3 DEF Abandon, Attempted
<1>5. KnownTexts \subseteq KnownTexts'
  BY <1>2, <1>4 DEF KnownTexts, Possible
<1>6. RestInv'
  <2>1. ASSUME intents' = {}
        PROVE  AtRest(agreed)'
    <3>1. Attempted = {} /\ intents = {}
      BY <1>4, <2>1 DEF Abandon
    <3>2. AtRest(agreed)
      BY <3>1 DEF StoreInv, RestInv
    <3> QED  BY <1>1, <1>2, <1>5, <3>1, <3>2, SameFilesSameState
  <2> QED  BY <2>1 DEF RestInv
<1> QED  BY <1>1, <1>2, <1>5, <1>6 DEF OpInv

(***************************************************************************)
(* The points of a write exclude each other.                               *)
(***************************************************************************)
\* Parts, prefixes and wholes.
LEMMA Parts ==
  ASSUME NEW file, NEW content
  PROVE  /\ IsPrefix(file, content) => ~IsWhole(file)
         /\ IsWhole(Whole(content)) /\ Whole(content).of = content
         /\ ~IsWhole(Blank) /\ ~IsWhole(Scrap) /\ ~IsWhole(Torn(content))
         /\ Whole(content) # Blank
  BY DEF IsPrefix, IsWhole, Blank, Scrap, Torn, Whole

LEMMA PointsDiffer ==
  ASSUME StoreTypeOK
  PROVE  /\ Unstarted => ~IsWhole(slots[1])
         /\ Unstarted /\ IsWhole(slots[0]) => slots[0].of.generation = 0 /\ slots[0].of.phase = "bootstrap"
         /\ Writing => IsWhole(slots[0]) /\ slots[0].of.generation = slots[1].of.generation - 1
         /\ Marking => /\ IsWhole(slots[0]) /\ slots[0].of = Completion(slots[1].of)
                       /\ slots[0].of.generation = slots[1].of.generation + 1
                       /\ slots[0].of.phase = "complete"
                       /\ slots[0].of.intended = slots[1].of.intended
                       /\ slots[0].of.generation \in 2..MaxGeneration
         /\ Writing \/ Completing \/ Marking =>
              /\ IsWhole(slots[1]) /\ slots[1].of \in Record /\ slots[1].of.generation \in 1..MaxGeneration - 1
              /\ slots[1].of.phase = "bootstrap"
<1>1. Unstarted => ~IsWhole(slots[1])
  BY Parts DEF Unstarted, Untouched
<1>2. Unstarted /\ IsWhole(slots[0]) => slots[0].of.generation = 0 /\ slots[0].of.phase = "bootstrap"
  <2>1. ASSUME NEW b, slots[0] = Whole(Bootstrap(0, b, TargetBody))
        PROVE  slots[0].of.generation = 0 /\ slots[0].of.phase = "bootstrap"
    BY <2>1 DEF Whole, Bootstrap
  <2> QED  BY <2>1, Parts DEF Unstarted, Untouched
<1>3. Writing => IsWhole(slots[0]) /\ slots[0].of.generation = slots[1].of.generation - 1
  BY DEF Writing
<1>4. ASSUME Under
      PROVE  /\ IsWhole(slots[1]) /\ slots[1].of \in Record /\ slots[1].of.generation \in 1..MaxGeneration - 1
             /\ slots[1].of.phase = "bootstrap"
  <2>1. slots[1].of \in Record
    BY <1>4, SlotTypes DEF Under
  <2>2. slots[1].of.generation # 0
    BY <1>4, FirstSides DEF Under
  <2> QED  BY <1>4, <2>1, <2>2, JournalAssumption DEF Under, Record
<1>5. ASSUME Marking
      PROVE  /\ IsWhole(slots[0]) /\ slots[0].of = Completion(slots[1].of)
             /\ slots[0].of.generation = slots[1].of.generation + 1
             /\ slots[0].of.phase = "complete"
             /\ slots[0].of.intended = slots[1].of.intended
             /\ slots[0].of.generation \in 2..MaxGeneration
  <2>1. IsWhole(slots[0]) /\ slots[0].of = Completion(slots[1].of)
    BY <1>5 DEF Marking, Whole, IsWhole
  <2>2. slots[1].of \in Record /\ slots[1].of.generation \in 1..MaxGeneration - 1
    BY <1>4, <1>5 DEF Marking
  <2> QED  BY <2>1, <2>2, Completions, JournalAssumption
<1> QED  BY <1>1, <1>2, <1>3, <1>4, <1>5 DEF Writing, Completing, Marking

\* Nothing is at rest in the middle of a write.
LEMMA NotAtRest ==
  ASSUME StoreTypeOK, NEW body, AtRest(body)
  PROVE  /\ Untouched \/ Done
         /\ ~Writing /\ ~Completing
         /\ Unstarted => Untouched
         /\ Marking => mark = Whole(slots[0].of.generation)
<1>1. Done => ~Unstarted /\ ~Writing /\ ~Completing
  BY PointsDiffer DEF Done, Completing, Record
<1>2. Untouched => ~IsWhole(slots[1])
  BY DEF Untouched, IsWhole, Blank
<1> QED  BY <1>1, <1>2, PointsDiffer DEF AtRest, Done

InvAfter == FilesInv' /\ RestInv' /\ OpInv'

(***************************************************************************)
(* Steps that rewrite nothing.                                             *)
(***************************************************************************)
LEMMA FilesStay ==
  ASSUME FilesInv, UNCHANGED fileVars, Possible \subseteq Possible', KnownTexts \subseteq KnownTexts'
  PROVE  FilesInv'
  BY SameFilesSameState DEF FilesInv

\* Ending without an answer is always right.
LEMMA AbandonInv ==
  ASSUME StoreInv, op # Void, Abandon, UNCHANGED fileVars
  PROVE  InvAfter
  BY GivesUp, FilesStay DEF StoreInv, InvAfter

\* So is an answer that the files agree with.
LEMMA ReturnInv ==
  ASSUME StoreInv, NEW v, AtRest(v), Return(v), UNCHANGED fileVars
  PROVE  InvAfter
<1>1. op' = Void /\ agreed' = v /\ intents' = {} /\ Attempted' = {}
  BY DEF Return, Attempted
<1>2. Possible' = {v} /\ KnownTexts' = {v}
  BY <1>1 DEF Possible, KnownTexts
<1>3. TargetBody' = TargetBody /\ Untouched' = Untouched /\ MarkBefore' = MarkBefore
  BY DEF fileVars, TargetBody, Untouched, MarkBefore
<1>4. ASSUME Unstarted, Untouched, TargetBody = v
      PROVE  FilesInv' /\ AtRest(agreed)'
  BY <1>1, <1>2, <1>3, <1>4 DEF fileVars, Unstarted, Untouched, FilesInv, AtRest
<1>5. ASSUME Done, slots[0].of.intended = v
      PROVE  FilesInv' /\ AtRest(agreed)'
  <2>1. slots[1].of.intended = v
    BY <1>5, PointsDiffer DEF Done, StoreInv
  <2> QED
    BY <1>1, <1>2, <1>3, <1>5, <2>1 DEF fileVars, Done, Marking, Under, FilesInv, AtRest
<1> QED  BY <1>1, <1>4, <1>5 DEF AtRest, InvAfter, RestInv, OpInv

LEMMA OpenInv ==
  ASSUME StoreInv, NEW kind \in {"read", "swap"}, NEW expected, NEW desired, Open(kind, expected, desired),
         kind = "read" => expected = Void /\ desired = Void,
         kind = "swap" => desired \in Texts
  PROVE  InvAfter
<1>1. Possible' = Possible /\ Attempted' = {} /\ Attempted = {}
  BY DEF Open, historyVars, Possible, Attempted
<1>2. KnownTexts' = KnownTexts
  BY <1>1 DEF KnownTexts
<1>3. FilesInv'
  BY <1>1, <1>2, FilesStay DEF Open, StoreInv
<1>4. RestInv'
  BY <1>1, <1>2, SameFilesSameState DEF Open, StoreInv, RestInv, historyVars
<1>5. OpInv'
  BY DEF Open, OpInv, StepInv, ExamineInv, fileVars
<1> QED  BY <1>3, <1>4, <1>5 DEF InvAfter

(***************************************************************************)
(* Types.                                                                  *)
(***************************************************************************)
LEMMA OpTypes == ASSUME StoreTypeOK, op # Void PROVE op \in Op
  BY DEF StoreTypeOK

LEMMA TakenIs ==
  ASSUME StoreTypeOK, op # Void, NEW r, NEW step, NEW f, Take(r, step, f)
  PROVE  /\ op'.kind = op.kind /\ op'.expected = op.expected /\ op'.desired = op.desired
         /\ op'.retained = op.retained /\ op'.stage = op.stage
         /\ op'.record = r /\ op'.pc = step /\ op'.final = f /\ UNCHANGED historyVars
  BY OpTypes DEF Op, Take

LEMMA Gone ==
  ASSUME StoreTypeOK, op # Void, NEW step, Proceed(step)
  PROVE  /\ op'.kind = op.kind /\ op'.expected = op.expected /\ op'.desired = op.desired
         /\ op'.retained = op.retained /\ op'.stage = op.stage
         /\ op'.record = op.record /\ op'.pc = step /\ op'.final = op.final /\ UNCHANGED historyVars
  BY OpTypes DEF Op, Proceed

Points == {"examine", "anchor", "slot", "repair", "target", "complete", "mark", "end", "next"}

LEMMA TakenTyped ==
  ASSUME StoreTypeOK, op # Void, NEW r \in Record \cup {Void}, NEW step \in Points, NEW f \in BOOLEAN,
         Take(r, step, f)
  PROVE  op' \in Op /\ op' # Void /\ agreed' \in Values /\ intents' \subseteq Texts
<1>1. op' \in Op
  BY OpTypes DEF Op, Take, Points
<1> QED  BY <1>1, VoidAssumption DEF Take, StoreTypeOK, historyVars

LEMMA GoneTyped ==
  ASSUME StoreTypeOK, op # Void, NEW step \in Points, Proceed(step)
  PROVE  op' \in Op /\ op' # Void /\ agreed' \in Values /\ intents' \subseteq Texts
<1>1. op' \in Op
  BY OpTypes DEF Op, Proceed, Points
<1> QED  BY <1>1, VoidAssumption DEF Proceed, StoreTypeOK, historyVars

OpTyped == op' \in Op \cup {Void} /\ agreed' \in Values /\ intents' \subseteq Texts

LEMMA AbandonTyped == ASSUME StoreTypeOK, OpInv, op # Void, Abandon PROVE OpTyped
<1>1. op.kind = "swap" => op.desired \in Texts
  BY DEF OpInv
<1> QED  BY <1>1 DEF Abandon, StoreTypeOK, OpTyped

LEMMA ErrorTyped == ASSUME StoreTypeOK, OpInv, op # Void, Error PROVE OpTyped
<1>1. CASE Abandon
  BY <1>1, AbandonTyped
<1>2. CASE /\ op' = [op EXCEPT !.stage = "write", !.pc = "examine"]
           /\ UNCHANGED historyVars
  BY <1>2, OpTypes DEF Op, StoreTypeOK, historyVars, OpTyped
<1> QED  BY <1>1, <1>2 DEF Error

LEMMA FailTyped == ASSUME StoreTypeOK, OpInv, op # Void, Fail PROVE OpTyped
  BY AbandonTyped, ErrorTyped DEF Fail

LEMMA ReturnTyped == ASSUME NEW v \in Values, Return(v) PROVE OpTyped
  BY DEF Return, OpTyped

LEMMA BodyTyped == ASSUME NEW f \in File(Texts) PROVE BodyOf(f) \in Values
  BY Contents, JournalAssumption DEF BodyOf, Values

LEMMA LeftTyped ==
  ASSUME NEW C, NEW c \in C, NEW f \in File(C), NEW g \in Leftovers(f, c)
  PROVE  g \in File(C)
  BY Written DEF Leftovers

\* A slot that is rewritten holds that, and the other one is left alone.
LEMMA SlotSet ==
  ASSUME StoreTypeOK, NEW s \in {0, 1}, NEW f, slots' = [slots EXCEPT ![s] = f]
  PROVE  /\ slots'[s] = f /\ \A t \in {0, 1} : t # s => slots'[t] = slots[t]
         /\ f \in File(Record) => slots' \in [{0, 1} -> File(Record)]
  BY DEF StoreTypeOK

LEMMA SlotTyped ==
  ASSUME StoreTypeOK, OpInv, op # Void, NEW r \in Record,
         WriteSlot(r) \/ WriteSlotFails(r)
  PROVE  slots' \in [{0, 1} -> File(Record)] /\ target' = target /\ mark' = mark
<1>1. r.generation \in Nat /\ SlotOf(r.generation) \in {0, 1}
  BY Sides, JournalAssumption DEF Record
<1>2. \E f \in Leftovers(slots[SlotOf(r.generation)], r) : slots' = [slots EXCEPT ![SlotOf(r.generation)] = f]
  BY DEF WriteSlot, WriteSlotFails, Leftovers
<1>3. slots[SlotOf(r.generation)] \in File(Record)
  BY <1>1 DEF StoreTypeOK
<1> QED  BY <1>1, <1>2, <1>3, SlotSet, LeftTyped DEF WriteSlot, WriteSlotFails

\* The record in hand, and the one that completes it.
LEMMA RecordTyped ==
  ASSUME StoreInv, op # Void
  PROVE  /\ op.pc \in {"anchor", "slot", "repair", "target", "complete", "mark", "next"} =>
              op.record \in Record
         /\ op.pc = "complete" => op.record.generation < MaxGeneration
         /\ op.pc \in {"repair", "mark"} => op.record.generation \in 2..MaxGeneration
<1>1. op.record \in Record \cup {Void}
  BY OpTypes DEF StoreInv, Op
<1>2. op.pc = "complete" => op.record.generation < MaxGeneration
  BY PointsDiffer, JournalAssumption DEF StoreInv, OpInv, StepInv, Under, Writing
<1>3. op.pc \in {"repair", "mark"} => op.record.generation \in 2..MaxGeneration
  BY PointsDiffer DEF StoreInv, OpInv, StepInv
<1> QED  BY <1>1, <1>2, <1>3 DEF StoreInv, OpInv

LEMMA RecoverTyped == ASSUME StoreInv, Recover PROVE StoreTypeOK'
<1> USE DEF StoreInv
<1>1. CASE RecoverSelected
  <2>1. Newest \in Record
    BY <1>1, SlotTypes DEF RecoverSelected, Selectable, Newest
  <2>2. op' \in Op /\ agreed' \in Values /\ intents' \subseteq Texts
    BY <1>1, <2>1, TakenTyped DEF RecoverSelected, ExaminesToRecover, Doing, Points
  <2> QED  BY <1>1, <2>2 DEF RecoverSelected, fileVars, StoreTypeOK
<1>2. CASE RecoverBootstrap
  <2>1. slots[0].of \in Record
    BY <1>2, SlotTypes DEF RecoverBootstrap, BootstrapRemnant
  <2>2. [slots[0].of EXCEPT !.generation = 1] \in Record
    BY <2>1, JournalAssumption DEF Record
  <2>3. op' \in Op /\ agreed' \in Values /\ intents' \subseteq Texts
    BY <1>2, <2>2, TakenTyped DEF RecoverBootstrap, ExaminesToRecover, Doing, Points
  <2> QED  BY <1>2, <2>3 DEF RecoverBootstrap, fileVars, StoreTypeOK
<1>3. CASE RecoverCompletion
  <2>1. slots[1].of \in Record /\ slots[1].of.generation < MaxGeneration
    BY <1>3, SlotTypes, JournalAssumption DEF RecoverCompletion, CompletionRemnant
  <2>2. op' \in Op /\ agreed' \in Values /\ intents' \subseteq Texts
    BY <1>3, <2>1, Completions, TakenTyped DEF RecoverCompletion, ExaminesToRecover, Doing, Points
  <2> QED  BY <1>3, <2>2 DEF RecoverCompletion, fileVars, StoreTypeOK
<1>4. CASE RecoverFails
  BY <1>4, ErrorTyped DEF RecoverFails, ExaminesToRecover, Doing, fileVars, StoreTypeOK, OpTyped
<1> QED  BY <1>1, <1>2, <1>3, <1>4 DEF Recover

LEMMA RewriteTyped == ASSUME StoreInv, Rewrite PROVE StoreTypeOK'
<1> USE DEF StoreInv
<1>1. CASE Anchor
  <2>1. op # Void /\ op.record \in Record
    BY <1>1, RecordTyped DEF Anchor, Doing
  <2> DEFINE r == [op.record EXCEPT !.generation = 0]
  <2>2. r \in Record
    BY <2>1, JournalAssumption DEF Record
  <2>3. \/ WriteSlot(r) /\ Proceed("slot")
        \/ WriteSlotFails(r)
    BY <1>1 DEF Anchor
  <2>4. OpTyped
    BY <2>1, <2>3, GoneTyped, FailTyped DEF WriteSlotFails, OpTyped, Points
  <2> HIDE DEF r
  <2> QED  BY <2>1, <2>2, <2>3, <2>4, SlotTyped DEF StoreTypeOK, OpTyped
<1>2. CASE Slot
  <2>1. op # Void /\ op.record \in Record
    BY <1>2, RecordTyped DEF Slot, Doing
  <2>2. OpTyped
    BY <1>2, <2>1, GoneTyped, FailTyped DEF Slot, WriteSlotFails, OpTyped, Points
  <2> QED  BY <1>2, <2>1, <2>2, SlotTyped DEF Slot, StoreTypeOK, OpTyped
<1>3. CASE RepairMark
  <2>1. op # Void /\ op.record.generation \in 2..MaxGeneration
    BY <1>3, RecordTyped DEF RepairMark, Doing
  <2>2. OpTyped
    BY <1>3, <2>1, GoneTyped, FailTyped DEF RepairMark, WriteMarkFails, OpTyped, Points
  <2> QED
    BY <1>3, <2>1, <2>2, Written, LeftTyped
    DEF RepairMark, WriteMark, WriteMarkFails, StoreTypeOK, OpTyped
<1>4. CASE Apply
  <2>1. op # Void /\ op.record.intended \in Texts
    BY <1>4, RecordTyped DEF Apply, Doing, Record
  <2>2. OpTyped
    BY <1>4, <2>1, GoneTyped, FailTyped, ErrorTyped
    DEF Apply, AfterTarget, OpTyped, Points
  <2> QED
    BY <1>4, <2>1, <2>2, Written, LeftTyped DEF Apply, StoreTypeOK, OpTyped
<1>5. CASE Publish
  <2>1. op # Void /\ op.record \in Record /\ op.record.generation < MaxGeneration /\ op.final \in BOOLEAN
    BY <1>5, RecordTyped, OpTypes DEF Publish, Doing, Op
  <2>2. Completion(op.record) \in Record
    BY <2>1, Completions
  <2>3. OpTyped
    BY <1>5, <2>1, <2>2, TakenTyped, FailTyped DEF Publish, WriteSlotFails, OpTyped, Points
  <2> QED  BY <1>5, <2>1, <2>2, <2>3, SlotTyped DEF Publish, StoreTypeOK, OpTyped
<1>6. CASE Mark
  <2>1. op # Void /\ MarkDue \in 2..MaxGeneration
    BY <1>6, RecordTyped DEF Mark, Doing, MarkDue
  <2>2. OpTyped
    BY <1>6, <2>1, GoneTyped, FailTyped, ErrorTyped DEF Mark, WriteMarkFails, OpTyped, Points
  <2> QED
    BY <1>6, <2>1, <2>2, Written, LeftTyped
    DEF Mark, WriteMark, WriteMarkFails, fileVars, StoreTypeOK, OpTyped
<1> QED  BY <1>1, <1>2, <1>3, <1>4, <1>5, <1>6 DEF Rewrite

LEMMA CurrentTyped == ASSUME StoreTypeOK, op # Void PROVE Current \in Values
  BY OpTypes, BodyTyped DEF Current, TargetBody, StoreTypeOK, Op, Record, Values

LEMMA StartTyped ==
  ASSUME StoreTypeOK, NEW kind \in {"read", "swap"}, NEW expected \in Values, NEW desired \in Values,
         Open(kind, expected, desired)
  PROVE  StoreTypeOK'
<1>1. op' \in Op
  BY DEF Open, Op, StoreTypeOK
<1> QED  BY <1>1 DEF Open, StoreTypeOK, fileVars, historyVars

LEMMA EndTyped == ASSUME StoreInv, EndRead \/ EndSwapUnchanged \/ EndSwapReads PROVE StoreTypeOK'
<1> USE DEF StoreInv
<1>1. op # Void
  BY DEF EndRead, EndSwapUnchanged, EndSwapReads, Doing
<1>2. OpTyped
  <2>1. CASE EndRead \/ EndSwapUnchanged
    BY <1>1, <2>1, CurrentTyped, ReturnTyped DEF EndRead, EndSwapUnchanged
  <2>2. CASE EndSwapReads
    BY <1>1, <2>2, OpTypes DEF EndSwapReads, Op, StoreTypeOK, historyVars, OpTyped
  <2> QED  BY <2>1, <2>2
<1> QED  BY <1>2 DEF EndRead, EndSwapUnchanged, EndSwapReads, fileVars, StoreTypeOK, OpTyped

LEMMA WriteTyped == ASSUME StoreInv, Write PROVE StoreTypeOK'
<1> USE DEF StoreInv
<1>1. op # Void /\ op \in Op
  BY OpTypes
  DEF Write, WriteFirst, WriteFirstFails, EndWritePass, WriteNext, WriteNextFails, EndWrite, Doing
<1>2. op.stage = "write" => op.desired \in Texts
  BY <1>1 DEF OpInv, Op
<1>3. ASSUME WriteFirst
      PROVE  OpTyped
  <2>1. BodyOf(op.retained) \in Values /\ op.desired \in Texts
    BY <1>1, <1>2, <1>3, BodyTyped DEF WriteFirst, Op
  <2>2. Bootstrap(1, op.desired, BodyOf(op.retained)) \in Record
    BY <2>1, JournalAssumption DEF Bootstrap, Record
  <2> QED  BY <1>1, <1>3, <2>2, TakenTyped DEF WriteFirst, Points, OpTyped
<1>4. ASSUME WriteNext
      PROVE  OpTyped
  <2>1. op.record \in Record /\ op.record.generation + 1 \in 0..MaxGeneration /\ op.desired \in Texts
    BY <1>1, <1>2, <1>4, RecordTyped, JournalAssumption
    DEF WriteNext, Exhausted, Doing, Record, OpInv, StepInv
  <2>2. TargetBody \in Values
    BY BodyTyped DEF TargetBody, StoreTypeOK
  <2>3. Bootstrap(op.record.generation + 1, op.desired, TargetBody) \in Record
    BY <2>1, <2>2 DEF Bootstrap, Record
  <2> QED  BY <1>1, <1>4, <2>3, TakenTyped DEF WriteNext, Points, OpTyped
<1>5. ASSUME WriteFirstFails \/ WriteNextFails
      PROVE  OpTyped
  BY <1>1, <1>5, ErrorTyped DEF WriteFirstFails, WriteNextFails
<1>6. ASSUME EndWritePass
      PROVE  OpTyped
  BY <1>1, <1>6, GoneTyped DEF EndWritePass, Points, OpTyped
<1>7. ASSUME EndWrite
      PROVE  OpTyped
  BY <1>1, <1>2, <1>7, ReturnTyped DEF EndWrite, Values
<1>8. OpTyped
  BY <1>3, <1>4, <1>5, <1>6, <1>7 DEF Write
<1> QED
  BY <1>8
  DEF Write, WriteFirst, WriteFirstFails, EndWritePass, WriteNext, WriteNextFails, EndWrite,
      fileVars, StoreTypeOK, OpTyped

LEMMA StoreTyped == ASSUME StoreInv, StoreNext PROVE StoreTypeOK'
<1>1. ASSUME NEW expected \in Values, NEW desired \in Texts, Open("swap", expected, desired)
      PROVE  StoreTypeOK'
  BY <1>1, StartTyped DEF StoreInv, Values
<1>2. CASE Open("read", Void, Void)
  BY <1>2, StartTyped DEF StoreInv, Values
<1>3. CASE ReadUntouched
  BY <1>3, TakenTyped DEF StoreInv, ReadUntouched, Doing, Points, fileVars, StoreTypeOK
<1>4. CASE Killed
  BY <1>4, AbandonTyped DEF StoreInv, Killed, fileVars, StoreTypeOK, OpTyped
<1> QED
  BY <1>1, <1>2, <1>3, <1>4, RecoverTyped, RewriteTyped, EndTyped, WriteTyped DEF StoreNext

(***************************************************************************)
(* Recovery and the other steps that take up a record.                     *)
(***************************************************************************)
\* A swap that writes knows what it may leave; one that reads has left nothing.
LEMMA Modes ==
  ASSUME StoreInv, op # Void
  PROVE  /\ op.stage \in {"read", "write"} /\ op.kind \in {"read", "swap"}
         /\ op.stage = "read" => Attempted = {} /\ KnownTexts = Possible
         /\ op.stage = "write" /\ op.pc # "examine" =>
              op.expected \in Possible /\ Attempted = {op.desired} /\ op.desired \in KnownTexts
         /\ op.stage = "write" => op.kind = "swap" /\ op.desired \in Texts
<1>1. op \in Op
  BY OpTypes DEF StoreInv
<1> QED  BY <1>1 DEF Op, StoreInv, OpInv, Attempted, KnownTexts

\* A step of the operation that leaves the files alone.
LEMMA StillInv ==
  ASSUME StoreInv, StoreTypeOK', op # Void, op' # Void, UNCHANGED fileVars, UNCHANGED historyVars,
         op'.kind = op.kind, op'.expected = op.expected, op'.desired = op.desired,
         op'.stage = op.stage
  PROVE  /\ FilesInv' /\ RestInv' /\ Possible' = Possible /\ KnownTexts' = KnownTexts
         /\ (Unstarted => Unstarted') /\ (Writing => Writing') /\ (Completing => Completing')
         /\ (Marking => Marking') /\ (Done => Done') /\ (Stuck => Stuck')
         /\ Untouched' = Untouched /\ TargetBody' = TargetBody
<1>1. Possible' = Possible /\ KnownTexts' = KnownTexts /\ RestInv'
  BY GoesOn
<1> QED  BY <1>1, FilesStay, SameFilesSameState DEF StoreInv, fileVars, TargetBody

LEMMA RecoverSelectedInv == ASSUME StoreInv, StoreTypeOK', RecoverSelected PROVE InvAfter
<1>1. op # Void /\ op.pc = "examine" /\ UNCHANGED fileVars
  BY DEF RecoverSelected, ExaminesToRecover, Doing
<1>2. Writing \/ Marking
  BY PointsDiffer, Parts DEF RecoverSelected, Selectable, StoreInv, FilesInv, Completing, Stuck
<1>3. CASE Writing
  <2>1. Newest = slots[1].of /\ Newest \in Record /\ ~MarkIsTorn(Newest)
    BY <1>3, PointsDiffer DEF StoreInv, Newest, MarkIsTorn, Record
  <2>2. Take(slots[1].of, "target", FALSE)
    BY <2>1 DEF RecoverSelected
  <2>3. /\ op'.kind = op.kind /\ op'.expected = op.expected /\ op'.desired = op.desired
        /\ op'.stage = op.stage /\ op'.record = slots[1].of /\ op'.pc = "target" /\ op'.final = FALSE
        /\ UNCHANGED historyVars /\ op' # Void
    BY <1>1, <2>1, <2>2, TakenIs, TakenTyped DEF StoreInv, Points
  <2>4. op.stage = "read"
    BY <1>1, <1>3, Modes, PointsDiffer DEF StoreInv, OpInv, StepInv, ExamineInv, Done, Bricked, Completing, Stuck, Record
  <2>5. FilesInv' /\ RestInv' /\ Writing'
    BY <1>1, <1>3, <2>3, StillInv
  <2>6. OpInv'
    BY <1>1, <2>1, <2>3, <2>4, <2>5, VoidAssumption DEF StoreInv, OpInv, StepInv, fileVars
  <2> QED  BY <2>5, <2>6 DEF InvAfter
<1>4. CASE Marking
  <2>1. Newest = slots[0].of /\ Newest \in Record
    BY <1>4, PointsDiffer, SlotTypes DEF StoreInv, Newest, Record
  <2> DEFINE step == IF MarkIsTorn(slots[0].of) THEN "repair" ELSE "target"
  <2>2. Take(slots[0].of, step, FALSE)
    BY <2>1 DEF RecoverSelected
  <2>3. IF step = "repair" THEN IsPrefix(mark, slots[0].of.generation) ELSE step = "target" /\ NotTorn(mark)
    BY <1>4, <2>1, PointsDiffer DEF RecoverSelected, StoreInv, MarkIsTorn, MarkFits, NotTorn
  <2>4. step \in {"repair", "target"}
    OBVIOUS
  <2> HIDE DEF step
  <2>5. /\ op'.kind = op.kind /\ op'.expected = op.expected /\ op'.desired = op.desired
        /\ op'.stage = op.stage /\ op'.record = slots[0].of /\ op'.pc = step /\ op'.final = FALSE
        /\ UNCHANGED historyVars /\ op' # Void
    BY <1>1, <2>1, <2>2, <2>4, TakenIs, TakenTyped DEF StoreInv, Points
  <2>6. op.stage = "write" => op.expected \in Possible
    <3>1. ~Unstarted /\ ~Bricked
      BY <1>4, PointsDiffer DEF StoreInv, Bricked, Completing, Stuck
    <3> QED  BY <1>1, <3>1 DEF StoreInv, OpInv, StepInv, ExamineInv
  <2>7. FilesInv' /\ RestInv' /\ Marking' /\ Possible' = Possible
    BY <1>1, <1>4, <2>5, StillInv
  <2>8. OpInv'
    BY <1>1, <2>1, <2>3, <2>4, <2>5, <2>6, <2>7, VoidAssumption
    DEF StoreInv, OpInv, StepInv, fileVars, NotTorn
  <2> QED  BY <2>7, <2>8 DEF InvAfter
<1> QED  BY <1>2, <1>3, <1>4

LEMMA RecoverBootstrapInv == ASSUME StoreInv, StoreTypeOK', RecoverBootstrap PROVE InvAfter
<1>1. op # Void /\ op.pc = "examine" /\ UNCHANGED fileVars
  BY DEF RecoverBootstrap, ExaminesToRecover, Doing
<1>2. Unstarted
  BY PointsDiffer, JournalAssumption
  DEF RecoverBootstrap, BootstrapRemnant, StoreInv, FilesInv, Completing, Stuck
<1>3. PICK b \in Texts \cap KnownTexts :
        slots[0] = Whole(Bootstrap(0, b, TargetBody)) /\ IsPrefix(slots[1], Bootstrap(1, b, TargetBody))
  BY <1>2, Parts DEF RecoverBootstrap, BootstrapRemnant, Unstarted, Untouched
<1> DEFINE r == Bootstrap(1, b, TargetBody)
<1>4. [slots[0].of EXCEPT !.generation = 1] = r
  BY <1>3 DEF Whole, Bootstrap
<1>5. r \in Record
  BY <1>3, BodyTyped, JournalAssumption DEF Bootstrap, Record, TargetBody, StoreTypeOK, StoreInv
<1>6. Zeroth(r) = Bootstrap(0, b, TargetBody) /\ IsFirst(r) /\ r.intended = b
  BY DEF Zeroth, Bootstrap, IsFirst
<1>7. Take(r, "anchor", FALSE)
  BY <1>4 DEF RecoverBootstrap
<1> HIDE DEF r
<1>8. /\ op'.kind = op.kind /\ op'.expected = op.expected /\ op'.desired = op.desired
      /\ op'.stage = op.stage /\ op'.record = r /\ op'.pc = "anchor" /\ op'.final = FALSE
      /\ UNCHANGED historyVars /\ op' # Void
  BY <1>1, <1>5, <1>7, TakenIs, TakenTyped DEF StoreInv, Points
<1>9. op.stage = "read"
  BY <1>1, <1>2, Modes, PointsDiffer
  DEF RecoverBootstrap, ExaminesToRecover, BootstrapRemnant, StoreInv, OpInv, StepInv, ExamineInv, Done,
      Bricked, Completing, Stuck
<1>10. FilesInv' /\ RestInv' /\ Unstarted' /\ KnownTexts' = KnownTexts /\ TargetBody' = TargetBody
  BY <1>1, <1>2, <1>8, StillInv
<1>11. AnchorInv'
  <2>1. r.generation = 1 /\ r.phase = "bootstrap" /\ r.prior = TargetBody'
    BY <1>6, <1>10 DEF IsFirst
  <2>2. slots'[0] = Whole(Zeroth(r)) /\ IsPrefix(slots'[1], r)
    BY <1>1, <1>3, <1>6 DEF fileVars, r
  <2>3. MayBecome(slots'[0], Zeroth(r)) /\ IsWhole(slots'[0])
    BY <2>2, Parts DEF MayBecome
  <2> QED  BY <1>3, <1>6, <1>8, <1>9, <1>10, <2>1, <2>2, <2>3 DEF AnchorInv, IsFirst
<1>12. OpInv'
  BY <1>1, <1>5, <1>8, <1>9, <1>11, VoidAssumption DEF StoreInv, OpInv, StepInv
<1> QED  BY <1>10, <1>12 DEF InvAfter

LEMMA RecoverCompletionInv == ASSUME StoreInv, StoreTypeOK', RecoverCompletion PROVE InvAfter
<1>1. op # Void /\ op.pc = "examine" /\ UNCHANGED fileVars
  BY DEF RecoverCompletion, ExaminesToRecover, Doing
<1>2. Completing /\ slots[1].of.generation = 1
  BY PointsDiffer DEF RecoverCompletion, CompletionRemnant, StoreInv, FilesInv, Stuck
<1>3. Completion(slots[1].of) \in Record
  BY <1>2, PointsDiffer, Completions, JournalAssumption DEF StoreInv
<1>4. /\ op'.kind = op.kind /\ op'.expected = op.expected /\ op'.desired = op.desired
      /\ op'.stage = op.stage /\ op'.record = Completion(slots[1].of) /\ op'.pc = "slot"
      /\ op'.final = FALSE /\ UNCHANGED historyVars /\ op' # Void
  BY <1>1, <1>3, TakenIs, TakenTyped DEF StoreInv, RecoverCompletion, Points
<1>5. op.stage = "read"
  BY <1>1, <1>2, Modes, PointsDiffer
  DEF StoreInv, OpInv, StepInv, ExamineInv, Done, Bricked, Completing, Stuck
<1>6. FilesInv' /\ RestInv' /\ Completing'
  BY <1>1, <1>2, <1>4, StillInv
<1>7. OpInv'
  BY <1>1, <1>2, <1>3, <1>4, <1>5, <1>6, VoidAssumption DEF StoreInv, OpInv, StepInv, SlotInv, fileVars
<1> QED  BY <1>6, <1>7 DEF InvAfter

\* Nobody knows how to go on only before slot 1 is written, or where all is stuck.
LEMMA Unrecoverable ==
  ASSUME StoreInv, ~Recoverable
  PROVE  (Unstarted /\ slots[1] = Blank) \/ Bricked
<1>1. ASSUME Writing
      PROVE  Recoverable
  <2>1. Selectable /\ Newest = slots[1].of
    BY <1>1, PointsDiffer DEF StoreInv, Selectable, Newest, Record
  <2>2. MarkFits(slots[1].of)
    BY <1>1, PointsDiffer, Parts DEF StoreInv, Writing, MarkBefore, MarkFits, Whole
  <2> QED  BY <2>1, <2>2 DEF Recoverable
<1>2. ASSUME Marking
      PROVE  Recoverable
  <2>1. Selectable /\ Newest = slots[0].of
    BY <1>2, PointsDiffer DEF StoreInv, Selectable, Newest, Record
  <2>2. MarkFits(slots[0].of)
    BY <1>2, PointsDiffer, Parts DEF StoreInv, Marking, MarkBefore, MarkFits, MarkIsTorn, Whole
  <2> QED  BY <2>1, <2>2 DEF Recoverable
<1>3. ASSUME Completing, slots[1].of.generation = 1
      PROVE  Recoverable
  BY <1>3, PointsDiffer
  DEF StoreInv, Completing, MarkBefore, Recoverable, CompletionRemnant, MayBecome
<1>4. ASSUME Unstarted, slots[1] # Blank
      PROVE  Recoverable
  <2>1. PICK b \in Texts \cap KnownTexts :
          slots[0] = Whole(Bootstrap(0, b, TargetBody)) /\ IsPrefix(slots[1], Bootstrap(1, b, TargetBody))
    BY <1>4, Parts DEF Unstarted, Untouched
  <2>2. [slots[0].of EXCEPT !.generation = 1] = Bootstrap(1, b, TargetBody)
    BY <2>1 DEF Whole, Bootstrap
  <2>3. BootstrapRemnant /\ mark = Blank
    BY <1>4, <2>1, <2>2, Parts DEF BootstrapRemnant, MayBecome, Bootstrap, Unstarted
  <2> QED  BY <2>3 DEF Recoverable
<1> QED  BY <1>1, <1>2, <1>3, <1>4 DEF StoreInv, FilesInv, Bricked

\* A swap that goes on to write after an error.
LEMMA RecoverFailsInv == ASSUME StoreInv, StoreTypeOK', RecoverFails PROVE InvAfter
<1>1. op # Void /\ op.pc = "examine" /\ UNCHANGED fileVars /\ op \in Op
  BY OpTypes DEF StoreInv, RecoverFails, ExaminesToRecover, Doing
<1>2. CASE Abandon
  BY <1>1, <1>2, AbandonInv
<1>3. CASE /\ op.kind = "swap" /\ op.stage = "read" /\ ExpectsRetained
           /\ op' = [op EXCEPT !.stage = "write", !.pc = "examine"] /\ UNCHANGED historyVars
  <2>1. /\ op'.kind = op.kind /\ op'.expected = op.expected /\ op'.desired = op.desired
        /\ op'.retained = op.retained /\ op'.stage = "write" /\ op'.pc = "examine"
    BY <1>1, <1>3 DEF Op
  <2>2. Possible' = Possible /\ agreed' = agreed /\ KnownTexts \subseteq KnownTexts'
    BY <1>1, <1>3, Modes DEF historyVars, Possible, KnownTexts
  <2>3. FilesInv'
    BY <1>1, <2>2, FilesStay DEF StoreInv
  <2>4. RestInv'
    <3>1. Attempted = {}
      BY <1>1, <1>3, Modes
    <3>2. AtRest(agreed) => AtRest(agreed)'
      BY <1>1, <2>2, SameFilesSameState
    <3> QED  BY <1>3, <3>1, <3>2 DEF StoreInv, RestInv, historyVars
  <2>5. ExamineInv'
    <3>1. op.retained = target
      BY <1>1, <1>3 DEF StoreInv, OpInv, StepInv, ExamineInv
    <3>2. ASSUME Unstarted, slots[1] = Blank
          PROVE  op.expected = TargetBody
      BY <1>3, <3>1, <3>2, Parts DEF ExpectsRetained, Unstarted, TargetBody, BodyOf
    <3>3. Unstarted /\ slots[1] = Blank => Unstarted' /\ slots'[1] = Blank /\ TargetBody' = TargetBody
      BY <1>1, <2>2, SameFilesSameState DEF fileVars, TargetBody
    <3>4. Bricked => Bricked'
      BY <1>1, <2>2, SameFilesSameState DEF fileVars, Bricked
    <3> QED
      BY <1>1, <2>1, <3>1, <3>2, <3>3, <3>4, Unrecoverable DEF RecoverFails, ExamineInv, fileVars
  <2>6. OpInv'
    BY <1>1, <1>3, <2>1, <2>5 DEF StoreInv, OpInv, StepInv
  <2> QED  BY <2>3, <2>4, <2>6 DEF InvAfter
<1> QED  BY <1>2, <1>3 DEF RecoverFails, Error

LEMMA ReadUntouchedInv == ASSUME StoreInv, StoreTypeOK', ReadUntouched PROVE InvAfter
<1>1. op # Void /\ op.pc = "examine" /\ UNCHANGED fileVars /\ op.stage = "read" /\ Untouched
  BY DEF ReadUntouched, Doing
<1>2. /\ op'.kind = op.kind /\ op'.expected = op.expected /\ op'.desired = op.desired
      /\ op'.retained = op.retained /\ op'.stage = op.stage /\ op'.record = Void /\ op'.pc = "end"
      /\ op'.final = FALSE /\ UNCHANGED historyVars /\ op' # Void
  BY <1>1, TakenIs, TakenTyped DEF StoreInv, ReadUntouched, Points
<1>3. Unstarted
  BY <1>1, PointsDiffer, Parts DEF Untouched, StoreInv, FilesInv, Stuck
<1>4. FilesInv' /\ RestInv' /\ Unstarted' /\ Untouched'
  BY <1>1, <1>2, <1>3, StillInv
<1>5. OpInv'
  BY <1>1, <1>2, <1>4 DEF StoreInv, OpInv, StepInv, ExamineInv, fileVars
<1> QED  BY <1>4, <1>5 DEF InvAfter

(***************************************************************************)
(* The rewrites.                                                           *)
(***************************************************************************)
\* What is written under slot 1 stays so while slot 1 does.
LEMMA UnderStays ==
  ASSUME slots'[1] = slots[1], KnownTexts \subseteq KnownTexts'
  PROVE  (Under => Under') /\ MarkBefore' = MarkBefore
  BY DEF Under, MarkBefore

\* A failing rewrite ends the operation.
LEMMA FailEnds == ASSUME ~SurvivesErrors, Fail PROVE Abandon
  BY DEF Fail

LEMMA AnchorInvStep == ASSUME StoreInv, StoreTypeOK', ~SurvivesErrors, Anchor PROVE InvAfter
<1>1. op # Void /\ op.pc = "anchor" /\ op.record \in Record
  BY RecordTyped DEF Anchor, Doing
<1>2. AnchorInv
  BY <1>1 DEF StoreInv, OpInv, StepInv
<1> DEFINE r == op.record
           z == Zeroth(op.record)
<1>3. r = Bootstrap(1, r.intended, TargetBody) /\ z = Bootstrap(0, r.intended, TargetBody)
      /\ r.intended \in Texts /\ r.intended \in KnownTexts
  BY <1>1, <1>2, Firsts DEF AnchorInv
<1>4. z.generation = 0 /\ SlotOf(z.generation) = 0
  BY <1>3, FirstSides DEF Bootstrap
<1>5. (WriteSlot(z) /\ Proceed("slot")) \/ WriteSlotFails(z)
  BY DEF Anchor, Zeroth
<1>6. Attempted = {} => ~AtRest(agreed)
  <2>1. ASSUME op.stage = "read"
        PROVE  ~AtRest(agreed)
    BY <1>2, <2>1, NotAtRest, PointsDiffer, Parts DEF StoreInv, AnchorInv, Untouched, Done
  <2> QED  BY <1>1, <2>1, Modes
<1> HIDE DEF z
<1>7. CASE WriteSlot(z) /\ Proceed("slot")
  <2>1. slots' = [slots EXCEPT ![0] = Whole(z)] /\ target' = target /\ mark' = mark
    BY <1>4, <1>7 DEF WriteSlot
  <2>2. slots'[0] = Whole(z) /\ slots'[1] = slots[1]
    BY <2>1 DEF StoreInv, StoreTypeOK
  <2>3. /\ op'.kind = op.kind /\ op'.expected = op.expected /\ op'.desired = op.desired
        /\ op'.retained = op.retained /\ op'.stage = op.stage /\ op'.record = op.record
        /\ op'.pc = "slot" /\ op'.final = op.final /\ UNCHANGED historyVars /\ op' # Void
    BY <1>1, <1>7, Gone, GoneTyped DEF StoreInv, Points
  <2>4. Possible' = Possible /\ KnownTexts' = KnownTexts /\ RestInv'
    BY <1>1, <1>6, <2>3, GoesOn
  <2>5. TargetBody' = TargetBody
    BY <2>1 DEF TargetBody
  <2>6. IsPrefix(slots'[1], Bootstrap(1, r.intended, TargetBody)) /\ slots'[0] = Whole(Bootstrap(0, r.intended, TargetBody))
    BY <1>2, <1>3, <2>2 DEF AnchorInv
  <2>7. Unstarted'
    <3> HIDE DEF r
    <3> QED  BY <1>2, <1>3, <2>1, <2>4, <2>5, <2>6 DEF AnchorInv, Unstarted
  <2>8. SlotInv'
    <3>1. IsFirst(op.record)' /\ Zeroth(op.record)' = z
      BY <1>2, <2>3, <2>5 DEF AnchorInv, IsFirst, Zeroth, z
    <3> QED  BY <1>2, <1>3, <2>2, <2>3, <2>4, <2>7, <3>1 DEF AnchorInv, SlotInv
  <2>9. OpInv'
    BY <1>1, <2>3, <2>4, <2>8 DEF StoreInv, OpInv, StepInv
  <2> QED  BY <2>4, <2>7, <2>9 DEF InvAfter, FilesInv
<1>8. CASE WriteSlotFails(z)
  <2>1. PICK f \in Leftovers(slots[0], z) : slots' = [slots EXCEPT ![0] = f]
    BY <1>4, <1>8 DEF WriteSlotFails
  <2>2. slots'[0] = f /\ slots'[1] = slots[1]
    BY <2>1 DEF StoreInv, StoreTypeOK
  <2>3. Possible \subseteq Possible' /\ KnownTexts \subseteq KnownTexts' /\ RestInv' /\ OpInv'
    BY <1>1, <1>6, <1>8, FailEnds, GivesUp DEF WriteSlotFails
  <2>4. slots[1] = Blank
    BY <1>2, <1>4, <1>8, Parts DEF AnchorInv, MayBecome, WriteSlotFails, z
  <2>5. target' = target /\ mark' = mark /\ TargetBody' = TargetBody
    BY <1>8 DEF WriteSlotFails, TargetBody
  <2>6. f \in {slots[0], Blank, Scrap, Torn(z), Whole(z)}
    BY DEF Leftovers
  <2>7. Unstarted'
    <3>1. CASE f = slots[0]
      BY <1>2, <2>2, <2>3, <2>5, <3>1 DEF AnchorInv, Unstarted, Untouched
    <3>2. CASE f \in {Blank, Scrap, Torn(z)}
      <4> HIDE DEF r
      <4> QED  BY <1>2, <1>3, <2>2, <2>3, <2>4, <2>5, <3>2 DEF AnchorInv, Unstarted, Untouched
    <3>3. CASE f = Whole(z)
      <4>1. IsPrefix(slots'[1], Bootstrap(1, r.intended, TargetBody))
        BY <2>2, <2>4 DEF IsPrefix
      <4> HIDE DEF r
      <4> QED  BY <1>2, <1>3, <2>2, <2>3, <2>4, <2>5, <3>3, <4>1 DEF AnchorInv, Unstarted
    <3> QED  BY <2>6, <3>1, <3>2, <3>3
  <2> QED  BY <2>3, <2>7 DEF InvAfter, FilesInv
<1> QED  BY <1>5, <1>7, <1>8

\* What goes on, and what gives up, with a record whose rewrite disturbs no journal at rest.
LEMMA RewriteGoesOn ==
  ASSUME StoreInv, op # Void, NEW step \in Points, Proceed(step), Attempted = {} => ~AtRest(agreed)
  PROVE  /\ op'.kind = op.kind /\ op'.expected = op.expected /\ op'.desired = op.desired
         /\ op'.retained = op.retained /\ op'.stage = op.stage /\ op'.record = op.record
         /\ op'.pc = step /\ op'.final = op.final
         /\ Possible' = Possible /\ KnownTexts' = KnownTexts /\ RestInv'
  BY Gone, GoneTyped, GoesOn DEF StoreInv

LEMMA RewriteGivesUp ==
  ASSUME StoreInv, ~SurvivesErrors, op # Void, Fail, Attempted = {} => ~AtRest(agreed)
  PROVE  Possible \subseteq Possible' /\ KnownTexts \subseteq KnownTexts' /\ RestInv' /\ OpInv'
  BY FailEnds, GivesUp

\* The first record goes to slot 1.
LEMMA SlotFirst ==
  ASSUME StoreInv, StoreTypeOK', ~SurvivesErrors, Slot,
         Unstarted, IsFirst(op.record), op.record.intended \in KnownTexts,
         slots[0] = Whole(Zeroth(op.record)), IsPrefix(slots[1], op.record)
  PROVE  InvAfter
<1>1. op # Void /\ op.pc = "slot" /\ op.record \in Record
  BY RecordTyped DEF Slot, Doing
<1> DEFINE r == op.record
<1>2. r = Bootstrap(1, r.intended, TargetBody) /\ Zeroth(r) = Bootstrap(0, r.intended, TargetBody)
      /\ r.intended \in Texts \cap KnownTexts /\ r.generation = 1 /\ SlotOf(r.generation) = 1
  BY <1>1, Firsts, FirstSides DEF IsFirst
<1>3. Attempted = {} => ~AtRest(agreed)
  BY NotAtRest, PointsDiffer, Parts DEF StoreInv, Untouched, Done, Marking
<1>4. /\ \E f \in Leftovers(slots[1], r) : slots' = [slots EXCEPT ![1] = f]
      /\ target' = target /\ mark' = mark /\ TargetBody' = TargetBody
  BY <1>2 DEF Slot, WriteSlot, WriteSlotFails, Leftovers, TargetBody
<1>5. slots'[0] = slots[0] /\ slots'[1] \in Leftovers(slots[1], r)
  BY <1>4 DEF StoreInv, StoreTypeOK
<1>6. ASSUME slots'[1] = Whole(r), KnownTexts \subseteq KnownTexts'
      PROVE  Writing'
  <2>1. IsWhole(slots'[1]) /\ slots'[1].of = r
    BY <1>6, Parts
  <2>2. Under'
    BY <1>2, <1>6, <2>1, JournalAssumption DEF Under, IsFirst
  <2>3. IsWhole(slots'[0]) /\ slots'[0].of.generation = 0
    BY <1>2, <1>5, Parts DEF Bootstrap
  <2>4. MarkBefore' = Blank /\ mark' = Blank
    BY <1>2, <1>4, <2>1 DEF MarkBefore, Unstarted
  <2>5. target' = Plain(r.prior)
    BY <1>4 DEF Unstarted, IsFirst
  <2> QED  BY <1>2, <2>1, <2>2, <2>3, <2>4, <2>5 DEF Writing
<1>7. CASE WriteSlot(r) /\ Proceed("target")
  <2>1. slots'[1] = Whole(r)
    BY <1>2, <1>7 DEF WriteSlot, StoreInv, StoreTypeOK
  <2>2. /\ op'.kind = op.kind /\ op'.expected = op.expected /\ op'.desired = op.desired
        /\ op'.stage = op.stage /\ op'.record = op.record /\ op'.pc = "target" /\ op'.final = op.final
        /\ Possible' = Possible /\ KnownTexts' = KnownTexts /\ RestInv'
    BY <1>1, <1>3, <1>7, RewriteGoesOn DEF Points
  <2>3. Writing' /\ slots'[1].of = r
    BY <1>6, <2>1, <2>2, Parts
  <2>4. OpInv'
    BY <1>1, <2>2, <2>3 DEF StoreInv, OpInv, StepInv
  <2> QED  BY <2>2, <2>3, <2>4 DEF InvAfter, FilesInv
<1>8. CASE WriteSlotFails(r)
  <2>1. Possible \subseteq Possible' /\ KnownTexts \subseteq KnownTexts' /\ RestInv' /\ OpInv'
    BY <1>1, <1>3, <1>8, RewriteGivesUp DEF WriteSlotFails
  <2>2. ASSUME IsPrefix(slots'[1], r)
        PROVE  Unstarted'
    <3>1. slots'[0] = Whole(Bootstrap(0, r.intended, TargetBody))
      BY <1>2, <1>5
    <3>2. IsPrefix(slots'[1], Bootstrap(1, r.intended, TargetBody))
      BY <1>2, <2>2
    <3> HIDE DEF r
    <3> QED  BY <1>2, <1>4, <2>1, <3>1, <3>2 DEF Unstarted
  <2>3. IsPrefix(slots'[1], r) \/ slots'[1] = Whole(r)
    BY <1>5 DEF IsPrefix, Leftovers
  <2> QED  BY <1>6, <2>1, <2>2, <2>3 DEF InvAfter, FilesInv
<1> QED  BY <1>7, <1>8 DEF Slot

\* A completion that was cut short is repeated.
LEMMA SlotCompletion ==
  ASSUME StoreInv, StoreTypeOK', ~SurvivesErrors, Slot,
         Completing, slots[1].of.generation = 1, op.record = Completion(slots[1].of)
  PROVE  InvAfter
<1>1. op # Void /\ op.pc = "slot" /\ op.record \in Record
  BY RecordTyped DEF Slot, Doing
<1> DEFINE r == op.record
<1>2. r.generation = 2 /\ SlotOf(r.generation) = 0
  BY PointsDiffer, Completions, JournalAssumption, FirstSides DEF StoreInv
<1>3. Attempted = {} => ~AtRest(agreed)
  BY NotAtRest DEF StoreInv
<1>4. /\ \E f \in Leftovers(slots[0], r) : slots' = [slots EXCEPT ![0] = f]
      /\ target' = target /\ mark' = mark
  BY <1>2 DEF Slot, WriteSlot, WriteSlotFails, Leftovers
<1>5. slots'[1] = slots[1] /\ slots'[0] \in Leftovers(slots[0], r)
  BY <1>4 DEF StoreInv, StoreTypeOK
<1>6. ASSUME slots'[0] = Whole(r), KnownTexts \subseteq KnownTexts'
      PROVE  Marking'
  BY <1>4, <1>5, <1>6, UnderStays DEF Marking, Completing
<1>7. CASE WriteSlot(r) /\ Proceed("target")
  <2>1. slots'[0] = Whole(r)
    BY <1>2, <1>7 DEF WriteSlot, StoreInv, StoreTypeOK
  <2>2. /\ op'.kind = op.kind /\ op'.expected = op.expected /\ op'.desired = op.desired
        /\ op'.stage = op.stage /\ op'.record = op.record /\ op'.pc = "target" /\ op'.final = op.final
        /\ Possible' = Possible /\ KnownTexts' = KnownTexts /\ RestInv'
    BY <1>1, <1>3, <1>7, RewriteGoesOn DEF Points
  <2>3. Marking' /\ slots'[0].of = r /\ NotTorn(mark')
    BY <1>4, <1>6, <2>1, <2>2, Parts DEF NotTorn, Completing, MarkBefore
  <2>4. OpInv'
    BY <1>1, <2>2, <2>3 DEF StoreInv, OpInv, StepInv, NotTorn
  <2> QED  BY <2>2, <2>3, <2>4 DEF InvAfter, FilesInv
<1>8. CASE WriteSlotFails(r)
  <2>1. Possible \subseteq Possible' /\ KnownTexts \subseteq KnownTexts' /\ RestInv' /\ OpInv'
    BY <1>1, <1>3, <1>8, RewriteGivesUp DEF WriteSlotFails
  <2>2. ASSUME IsPrefix(slots'[0], r)
        PROVE  Completing'
    <3>1. ~IsWhole(slots'[0])
      BY <2>2, Parts
    <3> QED  BY <1>4, <1>5, <2>1, <2>2, <3>1, UnderStays DEF Completing
  <2>3. IsPrefix(slots'[0], r) \/ slots'[0] = Whole(r)
    BY <1>5 DEF IsPrefix, Leftovers, Completing
  <2> QED  BY <1>6, <2>1, <2>2, <2>3 DEF InvAfter, FilesInv
<1> QED  BY <1>7, <1>8 DEF Slot

\* The next record goes to slot 1, where the last but one was.
LEMMA SlotNext ==
  ASSUME StoreInv, StoreTypeOK', ~SurvivesErrors, Slot,
         Done, IsNext(op.record), op.stage = "write", op.final
  PROVE  InvAfter
<1>1. op # Void /\ op.pc = "slot" /\ op.record \in Record
  BY RecordTyped DEF Slot, Doing
<1> DEFINE r == op.record
<1>2. slots[0].of.generation \in 2..MaxGeneration /\ slots[0].of.generation = slots[1].of.generation + 1
      /\ slots[1].of.generation \in Nat /\ IsWhole(slots[0]) /\ slots[0].of.phase = "complete"
  BY PointsDiffer, JournalAssumption DEF StoreInv, Done
<1>3. SlotOf(r.generation) = 1 /\ r.generation # 1 /\ r.generation - 1 = slots[0].of.generation
  <2>1. SlotOf(slots[1].of.generation) = 1
    BY DEF Done, Marking, Under
  <2>2. SlotOf(slots[0].of.generation) = 0
    BY <1>2, <2>1, Sides
  <2>3. SlotOf(slots[0].of.generation + 1) = 1
    BY <1>2, <2>2, Sides, JournalAssumption
  <2> QED  BY <1>2, <2>3, JournalAssumption DEF IsNext
<1>4. Attempted # {} /\ r.intended \in KnownTexts
  BY <1>1, Modes DEF StoreInv, OpInv
<1>5. /\ \E f \in Leftovers(slots[1], r) : slots' = [slots EXCEPT ![1] = f]
      /\ target' = target /\ mark' = mark
  BY <1>3 DEF Slot, WriteSlot, WriteSlotFails, Leftovers
<1>6. slots'[0] = slots[0] /\ slots'[1] \in Leftovers(slots[1], r)
  BY <1>5 DEF StoreInv, StoreTypeOK
<1>7. ASSUME slots'[1] = Whole(r), KnownTexts \subseteq KnownTexts'
      PROVE  Writing'
  <2>1. IsWhole(slots'[1]) /\ slots'[1].of = r
    BY <1>7, Parts
  <2>2. Under'
    BY <1>3, <1>4, <1>7, <2>1 DEF Under, IsNext
  <2>3. mark' = Whole(slots[0].of.generation) /\ MarkBefore' = Whole(r.generation - 1)
    BY <1>3, <1>5, <2>1 DEF MarkBefore, Done
  <2>4. target' = Plain(r.prior)
    <3>1. target = Whole(slots[1].of.intended) /\ slots[1].of.intended \in Texts
      BY PointsDiffer DEF StoreInv, Done, Marking, Record
    <3> QED  BY <1>5, <3>1, Parts, JournalAssumption DEF IsNext, TargetBody, BodyOf, Plain
  <2> QED  BY <1>2, <1>3, <1>6, <2>1, <2>2, <2>3, <2>4 DEF Writing
<1>8. CASE WriteSlot(r) /\ Proceed("target")
  <2>1. slots'[1] = Whole(r)
    BY <1>3, <1>8 DEF WriteSlot, StoreInv, StoreTypeOK
  <2>2. /\ op'.kind = op.kind /\ op'.expected = op.expected /\ op'.desired = op.desired
        /\ op'.stage = op.stage /\ op'.record = op.record /\ op'.pc = "target" /\ op'.final = op.final
        /\ Possible' = Possible /\ KnownTexts' = KnownTexts /\ RestInv'
    BY <1>1, <1>4, <1>8, RewriteGoesOn DEF Points
  <2>3. Writing' /\ slots'[1].of = r
    BY <1>7, <2>1, <2>2, Parts
  <2>4. OpInv'
    BY <1>1, <2>2, <2>3 DEF StoreInv, OpInv, StepInv
  <2> QED  BY <2>2, <2>3, <2>4 DEF InvAfter, FilesInv
<1>9. CASE WriteSlotFails(r)
  <2>1. Possible \subseteq Possible' /\ KnownTexts \subseteq KnownTexts' /\ RestInv' /\ OpInv'
    BY <1>1, <1>4, <1>9, RewriteGivesUp DEF WriteSlotFails
  <2>2. ASSUME slots'[1] = slots[1]
        PROVE  Marking'
    BY <1>5, <1>6, <2>1, <2>2, UnderStays DEF Marking, Done
  <2>3. ASSUME IsPrefix(slots'[1], r)
        PROVE  Stuck'
    BY <1>2, <1>5, <1>6, <2>3, Parts DEF Stuck, Done
  <2>4. slots'[1] = slots[1] \/ IsPrefix(slots'[1], r) \/ slots'[1] = Whole(r)
    BY <1>6 DEF IsPrefix, Leftovers
  <2> QED  BY <1>7, <2>1, <2>2, <2>3, <2>4 DEF InvAfter, FilesInv
<1> QED  BY <1>8, <1>9 DEF Slot

LEMMA SlotInvStep == ASSUME StoreInv, StoreTypeOK', ~SurvivesErrors, Slot PROVE InvAfter
  BY SlotFirst, SlotCompletion, SlotNext DEF StoreInv, OpInv, StepInv, SlotInv, Slot, Doing

\* The target of a record that is written is one the record applies to.
LEMMA ApplyInv == ASSUME StoreInv, StoreTypeOK', ~SurvivesErrors, Apply PROVE InvAfter
<1>1. op # Void /\ op.pc = "target" /\ op.record \in Record
  BY RecordTyped DEF Apply, Doing
<1>2. slots' = slots /\ mark' = mark
  BY DEF Apply
<1>3. \/ Writing /\ op.record = slots[1].of
      \/ Marking /\ op.record = slots[0].of /\ NotTorn(mark)
  BY <1>1 DEF StoreInv, OpInv, StepInv
<1>4. CASE Writing /\ op.record = slots[1].of
  <2>1. op.record.phase = "bootstrap"
    BY <1>4, PointsDiffer DEF StoreInv
  <2>2. Attempted = {} => ~AtRest(agreed)
    BY <1>4, NotAtRest DEF StoreInv
  <2>3. Applicable
    BY <1>4, <2>1 DEF Applicable, Writing, Plain, IsPrefix
  <2>4. ASSUME target' = Whole(op.record.intended) \/ IsPrefix(target', op.record.intended) \/ target' = target,
               KnownTexts \subseteq KnownTexts'
        PROVE  Writing'
    BY <1>2, <1>4, <2>4, UnderStays DEF Writing
  <2>5. CASE target' = Whole(op.record.intended) /\ Proceed(AfterTarget)
    <3>1. Proceed("complete")
      BY <2>1, <2>5 DEF AfterTarget
    <3>2. /\ op'.kind = op.kind /\ op'.expected = op.expected /\ op'.desired = op.desired
          /\ op'.stage = op.stage /\ op'.record = op.record /\ op'.pc = "complete" /\ op'.final = op.final
          /\ Possible' = Possible /\ KnownTexts' = KnownTexts /\ RestInv'
      BY <1>1, <2>2, <3>1, RewriteGoesOn DEF Points
    <3>3. OpInv'
      BY <1>1, <1>2, <1>4, <2>4, <2>5, <3>2 DEF StoreInv, OpInv, StepInv
    <3> QED  BY <2>4, <2>5, <3>2, <3>3 DEF InvAfter, FilesInv
  <2>6. CASE target' \in Leftovers(target, op.record.intended) /\ Fail
    <3>1. Possible \subseteq Possible' /\ KnownTexts \subseteq KnownTexts' /\ RestInv' /\ OpInv'
      BY <1>1, <2>2, <2>6, RewriteGivesUp
    <3>2. target' = Whole(op.record.intended) \/ IsPrefix(target', op.record.intended) \/ target' = target
      BY <2>6 DEF Leftovers, IsPrefix
    <3> QED  BY <2>4, <3>1, <3>2 DEF InvAfter, FilesInv
  <2> QED  BY <2>3, <2>5, <2>6 DEF Apply
<1>5. CASE Marking /\ op.record = slots[0].of /\ NotTorn(mark)
  <2>1. op.record.phase = "complete" /\ target = Whole(op.record.intended)
    BY <1>5, PointsDiffer DEF StoreInv, Marking
  <2>2. target' = target /\ Proceed("mark")
    BY <2>1 DEF Apply, Applicable, AfterTarget
  <2>3. /\ op'.kind = op.kind /\ op'.expected = op.expected /\ op'.desired = op.desired
        /\ op'.stage = op.stage /\ op'.record = op.record /\ op'.pc = "mark" /\ op'.final = op.final
        /\ op' # Void /\ UNCHANGED historyVars
    BY <1>1, <2>2, Gone, GoneTyped DEF StoreInv, Points
  <2>4. FilesInv' /\ RestInv' /\ Marking' /\ Possible' = Possible
    BY <1>1, <1>2, <1>5, <2>2, <2>3, StillInv DEF fileVars
  <2>5. OpInv'
    BY <1>1, <1>2, <1>5, <2>3, <2>4 DEF StoreInv, OpInv, StepInv, NotTorn
  <2> QED  BY <2>4, <2>5 DEF InvAfter
<1> QED  BY <1>3, <1>4, <1>5

LEMMA CompleteInv == ASSUME StoreInv, StoreTypeOK', ~SurvivesErrors, Publish PROVE InvAfter
<1>1. op # Void /\ op.pc = "complete" /\ op.record \in Record /\ op.final \in BOOLEAN
  BY RecordTyped, OpTypes DEF Publish, Doing, StoreInv, Op
<1>2. Writing /\ op.record = slots[1].of /\ target = Whole(op.record.intended)
  BY <1>1 DEF StoreInv, OpInv, StepInv
<1> DEFINE r == Completion(op.record)
<1>3. r \in Record /\ r.generation = slots[1].of.generation + 1 /\ r.intended = op.record.intended
  BY <1>1, <1>2, RecordTyped, Completions
<1>4. SlotOf(r.generation) = 0
  BY <1>2, <1>3, PointsDiffer, Sides, JournalAssumption DEF StoreInv, Writing, Under
<1>5. Attempted = {} => ~AtRest(agreed)
  BY <1>2, NotAtRest DEF StoreInv
<1>6. (WriteSlot(r) /\ Take(r, "mark", op.final)) \/ WriteSlotFails(r)
  BY DEF Publish
<1> HIDE DEF r
<1>7. /\ \E f \in Leftovers(slots[0], r) : slots' = [slots EXCEPT ![0] = f]
      /\ target' = target /\ mark' = mark
  BY <1>4, <1>6 DEF WriteSlot, WriteSlotFails, Leftovers
<1>8. slots'[1] = slots[1] /\ slots'[0] \in Leftovers(slots[0], r)
  BY <1>7 DEF StoreInv, StoreTypeOK
<1>9. ASSUME slots'[0] = Whole(r), KnownTexts \subseteq KnownTexts'
      PROVE  Marking'
  BY <1>2, <1>7, <1>8, <1>9, UnderStays DEF Marking, Writing, r
<1>10. CASE WriteSlot(r) /\ Take(r, "mark", op.final)
  <2>1. slots'[0] = Whole(r)
    BY <1>4, <1>10 DEF WriteSlot, StoreInv, StoreTypeOK
  <2>2. /\ op'.kind = op.kind /\ op'.expected = op.expected /\ op'.desired = op.desired
        /\ op'.stage = op.stage /\ op'.record = r /\ op'.pc = "mark" /\ op'.final = op.final
        /\ op' # Void /\ UNCHANGED historyVars
    BY <1>1, <1>3, <1>10, TakenIs, TakenTyped DEF StoreInv, Points
  <2>3. Possible' = Possible /\ KnownTexts' = KnownTexts /\ RestInv'
    BY <1>1, <1>5, <2>2, GoesOn
  <2>4. Marking' /\ slots'[0].of = r
    BY <1>9, <2>1, <2>3, Parts
  <2>5. NotTorn(mark)'
    BY <1>2, <1>7, Parts DEF Writing, MarkBefore, NotTorn
  <2>6. OpInv'
    BY <1>1, <1>3, <2>2, <2>3, <2>4, <2>5, VoidAssumption DEF StoreInv, OpInv, StepInv
  <2> QED  BY <2>3, <2>4, <2>6 DEF InvAfter, FilesInv
<1>11. CASE WriteSlotFails(r)
  <2>1. Possible \subseteq Possible' /\ KnownTexts \subseteq KnownTexts' /\ RestInv' /\ OpInv'
    BY <1>1, <1>5, <1>11, RewriteGivesUp DEF WriteSlotFails
  <2>2. ASSUME slots'[0] = slots[0]
        PROVE  Writing'
    BY <1>2, <1>7, <1>8, <2>1, <2>2, UnderStays DEF Writing
  <2>3. ASSUME IsPrefix(slots'[0], r)
        PROVE  Completing'
    <3>1. ~IsWhole(slots'[0])
      BY <2>3, Parts
    <3> QED  BY <1>2, <1>7, <1>8, <2>1, <2>3, <3>1, UnderStays DEF Completing, Writing, r
  <2>4. slots'[0] = slots[0] \/ IsPrefix(slots'[0], r) \/ slots'[0] = Whole(r)
    BY <1>8 DEF IsPrefix, Leftovers
  <2> QED  BY <1>9, <2>1, <2>2, <2>3, <2>4 DEF InvAfter, FilesInv
<1> QED  BY <1>6, <1>10, <1>11

\* What the mark may become while the last record is marked.
LEMMA MarkRewritten ==
  ASSUME StoreInv, Marking, target' = target, slots' = slots, KnownTexts \subseteq KnownTexts',
         mark' \in Leftovers(mark, slots[0].of.generation)
  PROVE  Marking'
<1>1. mark' = mark \/ IsPrefix(mark', slots[0].of.generation) \/ mark' = Whole(slots[0].of.generation)
  BY DEF Leftovers, IsPrefix
<1> QED  BY <1>1, UnderStays DEF Marking

LEMMA MarkWritten ==
  ASSUME StoreInv, StoreTypeOK', ~SurvivesErrors, op # Void, NEW step \in {"target", "end"}, Marking,
         op.record = slots[0].of, mark # Whole(op.record.generation), op.pc \in {"repair", "mark"},
         \/ WriteMark(op.record.generation) /\ Proceed(step)
         \/ WriteMarkFails(op.record.generation)
  PROVE  InvAfter
<1>1. Attempted = {} => ~AtRest(agreed)
  BY NotAtRest DEF StoreInv
<1>2. target' = target /\ slots' = slots
  BY DEF WriteMark, WriteMarkFails
<1>3. CASE WriteMark(op.record.generation) /\ Proceed(step)
  <2>1. mark' = Whole(slots[0].of.generation)
    BY <1>3 DEF WriteMark
  <2>2. /\ op'.kind = op.kind /\ op'.expected = op.expected /\ op'.desired = op.desired
        /\ op'.stage = op.stage /\ op'.record = op.record /\ op'.pc = step /\ op'.final = op.final
        /\ Possible' = Possible /\ KnownTexts' = KnownTexts /\ RestInv'
    BY <1>1, <1>3, RewriteGoesOn DEF Points
  <2>3. Marking' /\ Done' /\ NotTorn(mark')
    BY <1>2, <2>1, <2>2, MarkRewritten, Parts DEF Leftovers, Done, NotTorn
  <2>4. OpInv'
    BY <1>2, <2>2, <2>3 DEF StoreInv, OpInv, StepInv, NotTorn
  <2> QED  BY <2>2, <2>3, <2>4 DEF InvAfter, FilesInv
<1>4. CASE WriteMarkFails(op.record.generation)
  <2>1. Possible \subseteq Possible' /\ KnownTexts \subseteq KnownTexts' /\ RestInv' /\ OpInv'
    BY <1>1, <1>4, RewriteGivesUp DEF WriteMarkFails
  <2>2. Marking'
    BY <1>2, <1>4, <2>1, MarkRewritten DEF WriteMarkFails
  <2> QED  BY <2>1, <2>2 DEF InvAfter, FilesInv
<1> QED  BY <1>3, <1>4

LEMMA RepairMarkInv == ASSUME StoreInv, StoreTypeOK', ~SurvivesErrors, RepairMark PROVE InvAfter
<1>1. op # Void /\ op.pc = "repair"
  BY DEF RepairMark, Doing
<1>2. Marking /\ op.record = slots[0].of /\ mark # Whole(op.record.generation)
  BY <1>1, Parts DEF StoreInv, OpInv, StepInv
<1> QED  BY <1>1, <1>2, MarkWritten DEF RepairMark

LEMMA MarkInv == ASSUME StoreInv, StoreTypeOK', ~SurvivesErrors, Mark PROVE InvAfter
<1>1. op # Void /\ op.pc = "mark"
  BY DEF Mark, Doing
<1>2. Marking /\ op.record = slots[0].of /\ NotTorn(mark)
  BY <1>1 DEF StoreInv, OpInv, StepInv
<1>3. CASE mark = Whole(MarkDue) /\ Proceed("end") /\ UNCHANGED fileVars
  <2>1. /\ op'.kind = op.kind /\ op'.expected = op.expected /\ op'.desired = op.desired
        /\ op'.stage = op.stage /\ op'.record = op.record /\ op'.pc = "end" /\ op'.final = op.final
        /\ op' # Void /\ UNCHANGED historyVars
    BY <1>1, <1>3, Gone, GoneTyped DEF StoreInv, Points
  <2>2. Done
    BY <1>2, <1>3 DEF Done, MarkDue
  <2>3. FilesInv' /\ RestInv' /\ Done' /\ Possible' = Possible
    BY <1>1, <1>3, <2>1, <2>2, StillInv
  <2>4. OpInv'
    BY <1>1, <1>2, <1>3, <2>1, <2>3 DEF StoreInv, OpInv, StepInv, fileVars
  <2> QED  BY <2>3, <2>4 DEF InvAfter
<1>4. CASE /\ mark = Blank \/ (IsWhole(mark) /\ mark.of < MarkDue)
           /\ (WriteMark(MarkDue) /\ Proceed("end")) \/ WriteMarkFails(MarkDue)
  <2>1. mark # Whole(op.record.generation)
    BY <1>1, <1>4, RecordTyped, Parts DEF MarkDue
  <2> QED  BY <1>1, <1>2, <1>4, <2>1, MarkWritten DEF MarkDue
<1>5. ~(IF IsWhole(mark) THEN mark.of > MarkDue ELSE mark # Blank)
  BY <1>2, PointsDiffer, Parts DEF StoreInv, Marking, MarkBefore, NotTorn, MarkDue
<1> QED  BY <1>3, <1>4, <1>5 DEF Mark

(***************************************************************************)
(* What the operation does with the record.                                *)
(***************************************************************************)
\* What an operation that has settled the files tells its caller.
LEMMA CurrentAtRest ==
  ASSUME StoreInv, op # Void, op.pc = "end"
  PROVE  AtRest(Current) /\ (op.stage = "read" => Current \in Possible)
<1>1. CASE Unstarted /\ Untouched /\ op.record = Void
  BY <1>1 DEF AtRest, Current, Unstarted
<1>2. CASE Done /\ op.record = slots[0].of
  <2>1. op.record \in Record /\ op.record # Void
    BY <1>2, PointsDiffer, SlotTypes, VoidAssumption DEF StoreInv, Done
  <2>2. Current = slots[0].of.intended
    BY <1>2, <2>1 DEF Current
  <2>3. Current \in KnownTexts
    BY <1>2, <2>2, PointsDiffer DEF StoreInv, Done, Marking, Under
  <2> QED  BY <1>2, <2>2, <2>3, Modes DEF AtRest
<1> QED  BY <1>1, <1>2 DEF StoreInv, OpInv, StepInv

LEMMA EndReadInv == ASSUME StoreInv, EndRead \/ EndSwapUnchanged PROVE InvAfter
  BY CurrentAtRest, ReturnInv DEF EndRead, EndSwapUnchanged, Doing

LEMMA EndWriteInv == ASSUME StoreInv, EndWrite PROVE InvAfter
<1>1. op # Void /\ op.pc = "end" /\ op.stage = "write" /\ op.final
  BY DEF EndWrite, Doing
<1>2. Done /\ op.record = slots[0].of /\ op.record.intended = op.desired
  BY <1>1 DEF StoreInv, OpInv, StepInv
<1> QED  BY <1>2, ReturnInv DEF EndWrite, AtRest

LEMMA EndSwapReadsInv == ASSUME StoreInv, StoreTypeOK', EndSwapReads PROVE InvAfter
<1>1. /\ op # Void /\ op \in Op /\ op.pc = "end" /\ op.kind = "swap" /\ op.stage = "read"
      /\ Current = op.expected /\ UNCHANGED fileVars /\ UNCHANGED historyVars
  BY OpTypes DEF EndSwapReads, Doing, StoreInv
<1>2. /\ op'.kind = op.kind /\ op'.expected = op.expected /\ op'.desired = op.desired
      /\ op'.retained = op.retained /\ op'.stage = "write" /\ op'.pc = "examine"
  BY <1>1 DEF EndSwapReads, Op
<1>3. Possible' = Possible /\ KnownTexts \subseteq KnownTexts' /\ Attempted = {} /\ agreed' = agreed
  BY <1>1, Modes DEF historyVars, Possible, KnownTexts
<1>4. FilesInv'
  BY <1>1, <1>3, FilesStay DEF StoreInv
<1>5. RestInv'
  <2>1. AtRest(agreed) => AtRest(agreed)'
    BY <1>1, <1>3, SameFilesSameState
  <2> QED  BY <1>1, <1>3, <2>1 DEF StoreInv, RestInv, historyVars
<1>6. ExamineInv'
  <2>1. CASE Unstarted /\ Untouched /\ op.record = Void /\ op.retained = target
    <3>1. op.expected = TargetBody
      BY <1>1, <2>1 DEF Current
    <3>2. Unstarted' /\ TargetBody' = TargetBody /\ slots'[1] = Blank /\ target' = target
      BY <1>1, <1>3, <2>1, SameFilesSameState DEF fileVars, TargetBody, Untouched
    <3> QED  BY <1>2, <2>1, <3>1, <3>2 DEF ExamineInv
  <2>2. CASE Done /\ op.record = slots[0].of
    <3>1. op.record \in Record /\ op.record # Void
      BY <2>2, PointsDiffer, SlotTypes, VoidAssumption DEF StoreInv, Done
    <3>2. op.expected = slots[0].of.intended /\ op.expected \in Possible
      BY <1>1, <2>2, <3>1, CurrentAtRest DEF Current
    <3>3. Done' /\ slots' = slots
      BY <1>1, <1>3, <2>2, SameFilesSameState DEF fileVars
    <3> QED  BY <1>2, <1>3, <3>2, <3>3 DEF ExamineInv
  <2> QED  BY <1>1, <2>1, <2>2 DEF StoreInv, OpInv, StepInv
<1>7. OpInv'
  BY <1>1, <1>2, <1>6 DEF StoreInv, OpInv, StepInv
<1> QED  BY <1>4, <1>5, <1>7 DEF InvAfter

LEMMA WriteFirstInv == ASSUME StoreInv, StoreTypeOK', WriteFirst PROVE InvAfter
<1>1. /\ op # Void /\ op \in Op /\ op.pc = "examine" /\ op.stage = "write" /\ slots[1] = Blank
      /\ UNCHANGED fileVars /\ MayBecome(slots[0], Bootstrap(0, op.desired, BodyOf(op.retained)))
  BY OpTypes DEF WriteFirst, Doing, StoreInv
<1>2. ~Done /\ ~Bricked
  <2>1. ~IsWhole(slots[1])
    BY <1>1, Parts
  <2>2. ASSUME Stuck
        PROVE  FALSE
    BY <1>1, <2>2, Parts DEF Stuck, MayBecome, Bootstrap
  <2> QED  BY <2>1, <2>2, PointsDiffer DEF StoreInv, Done, Bricked
<1>3. Unstarted /\ op.retained = target /\ op.expected = TargetBody
  BY <1>1, <1>2 DEF StoreInv, OpInv, StepInv, ExamineInv
<1>4. BodyOf(op.retained) = TargetBody /\ op.expected \in Possible
  BY <1>3 DEF TargetBody, Unstarted
<1>5. op.desired \in Texts /\ op.desired \in KnownTexts
  BY <1>1, <1>4, Modes DEF Attempted, KnownTexts
<1> DEFINE r == Bootstrap(1, op.desired, TargetBody)
<1>6. r \in Record /\ r.generation = 1 /\ r.phase = "bootstrap" /\ r.prior = TargetBody
      /\ r.intended = op.desired /\ Zeroth(r) = Bootstrap(0, op.desired, TargetBody)
  BY <1>5, BodyTyped, JournalAssumption DEF Bootstrap, Record, TargetBody, StoreTypeOK, StoreInv, Zeroth
<1>7. Take(r, "anchor", slots[0] = Blank)
  BY <1>4 DEF WriteFirst
<1> HIDE DEF r
<1>8. /\ op'.kind = op.kind /\ op'.expected = op.expected /\ op'.desired = op.desired
      /\ op'.stage = op.stage /\ op'.record = r /\ op'.pc = "anchor" /\ UNCHANGED historyVars
      /\ op' # Void
  BY <1>1, <1>6, <1>7, TakenIs, TakenTyped DEF StoreInv, Points
<1>9. FilesInv' /\ RestInv' /\ Unstarted' /\ Possible' = Possible /\ KnownTexts' = KnownTexts /\ TargetBody' = TargetBody
  BY <1>1, <1>3, <1>8, StillInv
<1>10. AnchorInv'
  <2>1. MayBecome(slots'[0], Zeroth(r)) /\ IsPrefix(slots'[1], r) /\ slots'[1] = Blank
    BY <1>1, <1>4, <1>6 DEF fileVars, IsPrefix
  <2> QED  BY <1>1, <1>5, <1>6, <1>8, <1>9, <2>1 DEF AnchorInv, IsFirst, Zeroth
<1>11. OpInv'
  BY <1>1, <1>4, <1>5, <1>6, <1>8, <1>9, <1>10, VoidAssumption DEF StoreInv, OpInv, StepInv
<1> QED  BY <1>9, <1>11 DEF InvAfter

\* A swap that writes and gets an error ends.
LEMMA WriteFailsInv == ASSUME StoreInv, WriteFirstFails \/ WriteNextFails PROVE InvAfter
<1>1. op # Void /\ op.stage = "write" /\ Error /\ UNCHANGED fileVars
  <2>1. op.pc = "next" => op.stage = "write"
    BY DEF StoreInv, OpInv, StepInv, WriteFirstFails, WriteNextFails, Doing
  <2> QED  BY <2>1 DEF WriteFirstFails, WriteNextFails, Doing
<1> QED  BY <1>1, AbandonInv DEF Error

LEMMA EndWritePassInv == ASSUME StoreInv, StoreTypeOK', EndWritePass PROVE InvAfter
<1>1. op # Void /\ op.pc = "end" /\ op.stage = "write" /\ UNCHANGED fileVars
  BY DEF EndWritePass, Doing
<1>2. Done /\ op.record = slots[0].of
  BY <1>1 DEF StoreInv, OpInv, StepInv
<1>3. op.record \in Record /\ op.record # Void
  BY <1>2, PointsDiffer, SlotTypes, VoidAssumption DEF StoreInv, Done
<1>4. /\ op'.kind = op.kind /\ op'.expected = op.expected /\ op'.desired = op.desired
      /\ op'.stage = op.stage /\ op'.record = op.record /\ op'.pc = "next" /\ op'.final = op.final
      /\ UNCHANGED historyVars /\ op' # Void
  BY <1>1, Gone, GoneTyped DEF StoreInv, EndWritePass, Points
<1>5. FilesInv' /\ RestInv' /\ Done' /\ Possible' = Possible
  BY <1>1, <1>2, <1>4, StillInv
<1>6. OpInv'
  BY <1>1, <1>2, <1>3, <1>4, <1>5 DEF StoreInv, OpInv, StepInv, fileVars
<1> QED  BY <1>5, <1>6 DEF InvAfter

LEMMA WriteNextInv == ASSUME StoreInv, StoreTypeOK', WriteNext PROVE InvAfter
<1>1. op # Void /\ op.pc = "next" /\ UNCHANGED fileVars /\ op.record \in Record /\ ~Exhausted
  BY RecordTyped DEF WriteNext, Doing
<1>2. Done /\ op.record = slots[0].of /\ op.stage = "write" /\ op.desired \in Texts
  BY <1>1, Modes DEF StoreInv, OpInv, StepInv
<1> DEFINE r == Bootstrap(op.record.generation + 1, op.desired, TargetBody)
<1>3. /\ r \in Record /\ r.generation = slots[0].of.generation + 1 /\ r.generation < MaxGeneration
      /\ r.phase = "bootstrap" /\ r.prior = TargetBody /\ r.intended = op.desired
  <2>1. op.record.generation + 1 \in 0..MaxGeneration /\ op.record.generation + 1 < MaxGeneration
    BY <1>1, JournalAssumption DEF Exhausted, Record
  <2> QED
    BY <1>2, <2>1, BodyTyped DEF Bootstrap, Record, TargetBody, StoreTypeOK, StoreInv
<1>4. Take(r, "slot", TRUE)
  BY DEF WriteNext
<1> HIDE DEF r
<1>5. /\ op'.kind = op.kind /\ op'.expected = op.expected /\ op'.desired = op.desired
      /\ op'.stage = op.stage /\ op'.record = r /\ op'.pc = "slot" /\ op'.final = TRUE
      /\ UNCHANGED historyVars /\ op' # Void
  BY <1>1, <1>3, <1>4, TakenIs, TakenTyped DEF StoreInv, Points
<1>6. FilesInv' /\ RestInv' /\ Done' /\ Possible' = Possible /\ TargetBody' = TargetBody
  BY <1>1, <1>2, <1>5, StillInv
<1>7. OpInv'
  BY <1>1, <1>2, <1>3, <1>5, <1>6, VoidAssumption
  DEF StoreInv, OpInv, StepInv, SlotInv, IsNext, fileVars
<1> QED  BY <1>6, <1>7 DEF InvAfter

(***************************************************************************)
(* The theorems.                                                           *)
(***************************************************************************)
LEMMA StoreInitInv == StoreInit => StoreInv
<1> SUFFICES ASSUME StoreInit
             PROVE  StoreInv
  OBVIOUS
<1> USE DEF StoreInit
<1>1. slots[0] = Blank /\ slots[1] = Blank /\ Untouched
  BY DEF Untouched
<1>2. StoreTypeOK
  <2>1. target \in File(Texts) /\ Blank \in File(Record) /\ mark \in File(2..MaxGeneration)
    BY DEF File, Blank, Whole
  <2>2. slots \in [{0, 1} -> File(Record)] /\ agreed \in Values
    BY <2>1, BodyTyped DEF TargetBody
  <2> QED  BY <2>1, <2>2 DEF StoreTypeOK
<1>3. target = Plain(TargetBody)
  BY Parts, JournalAssumption DEF Plain, TargetBody, BodyOf
<1>4. Unstarted
  BY <1>1, <1>3 DEF Unstarted, Possible
<1> QED  BY <1>1, <1>2, <1>4 DEF StoreInv, FilesInv, RestInv, AtRest, OpInv

LEMMA StepAfter == ASSUME StoreInv, ~SurvivesErrors, StoreNext PROVE StoreTypeOK' /\ InvAfter
<1>1. StoreTypeOK'
  BY StoreTyped
<1>2. ASSUME NEW expected \in Values, NEW desired \in Texts, Open("swap", expected, desired)
      PROVE  InvAfter
  BY <1>2, OpenInv
<1>3. CASE Open("read", Void, Void)
  BY <1>1, <1>3, OpenInv
<1>4. CASE Recover
  BY <1>1, <1>4, RecoverSelectedInv, RecoverBootstrapInv, RecoverCompletionInv, RecoverFailsInv DEF Recover
<1>5. CASE Rewrite
  BY <1>1, <1>5, AnchorInvStep, SlotInvStep, RepairMarkInv, ApplyInv, CompleteInv, MarkInv DEF Rewrite
<1>6. CASE Write
  BY <1>1, <1>6, WriteFirstInv, WriteFailsInv, EndWritePassInv, WriteNextInv, EndWriteInv DEF Write
<1>7. CASE ReadUntouched \/ EndRead \/ EndSwapUnchanged \/ EndSwapReads
  BY <1>1, <1>7, ReadUntouchedInv, EndReadInv, EndSwapReadsInv
<1>8. CASE Killed
  BY <1>1, <1>8, AbandonInv DEF Killed
<1> QED  BY <1>1, <1>2, <1>3, <1>4, <1>5, <1>6, <1>7, <1>8 DEF StoreNext

LEMMA StoreNextInv == ~SurvivesErrors /\ StoreInv /\ [StoreNext]_storeVars => StoreInv'
<1> SUFFICES ASSUME ~SurvivesErrors, StoreInv, [StoreNext]_storeVars
             PROVE  StoreInv'
  OBVIOUS
<1>1. CASE StoreNext
  BY <1>1, StepAfter DEF StoreInv, InvAfter
<1>2. CASE UNCHANGED storeVars
  <2>1. StoreTypeOK' /\ Attempted' = Attempted /\ Possible' = Possible
    BY <1>2 DEF storeVars, fileVars, historyVars, StoreInv, StoreTypeOK, Attempted, Possible
  <2>2. KnownTexts' = KnownTexts
    BY <2>1 DEF KnownTexts
  <2>3. FilesInv' /\ RestInv'
    BY <1>2, <2>1, <2>2, FilesStay, SameFilesSameState DEF storeVars, historyVars, StoreInv, RestInv
  <2>4. OpInv'
    <3>1. CASE op = Void
      BY <1>2, <3>1 DEF storeVars, OpInv
    <3>2. CASE op # Void
      <4>1. op' = op /\ slots' = slots /\ target' = target /\ mark' = mark /\ UNCHANGED fileVars
        BY <1>2 DEF storeVars, fileVars
      <4>2. /\ (Unstarted => Unstarted') /\ (Writing => Writing') /\ (Completing => Completing')
            /\ (Marking => Marking') /\ (Done => Done') /\ (Stuck => Stuck')
            /\ Untouched' = Untouched /\ TargetBody' = TargetBody
        BY <4>1, <2>1, <2>2, SameFilesSameState DEF TargetBody
      <4>3. (AnchorInv => AnchorInv') /\ (SlotInv => SlotInv')
        BY <2>2, <4>1, <4>2 DEF AnchorInv, SlotInv, IsFirst, IsNext
      <4>4. ExamineInv => ExamineInv'
        BY <2>1, <4>1, <4>2 DEF ExamineInv, Bricked
      <4> QED
        BY <2>1, <3>2, <4>1, <4>2, <4>3, <4>4 DEF StoreInv, OpInv, StepInv, NotTorn
    <3> QED  BY <3>1, <3>2
  <2> QED  BY <2>1, <2>3, <2>4 DEF StoreInv
<1> QED  BY <1>1, <1>2

LEMMA StoreSpecInv == ASSUME ~SurvivesErrors PROVE StoreSpec => []StoreInv
<1>1. StoreInv /\ [StoreNext]_storeVars => StoreInv'
  BY StoreNextInv
<1> QED  BY StoreInitInv, <1>1, PTL DEF StoreSpec

\* However the rewrites of the four files are cut short, the mark never runs ahead of the records,
\* what an answer leaves needs no repair, and a first write that was interrupted can be finished.
THEOREM JournalSound == ~SurvivesErrors => (StoreSpec => []JournalIsSound)
<1> SUFFICES ASSUME ~SurvivesErrors
             PROVE  StoreSpec => []JournalIsSound
  OBVIOUS
<1>1. ASSUME StoreInv
      PROVE  JournalIsSound
  <2> USE <1>1 DEF StoreInv
  <2>1. MarkIsBehind
    <3>1. (Writing \/ Completing) /\ IsWhole(mark) => mark.of = slots[1].of.generation - 1
      <4>1. Writing \/ Completing => mark = MarkBefore
        BY DEF Writing, Completing
      <4> QED  BY <4>1, Parts DEF MarkBefore
    <3>2. Marking /\ IsWhole(mark) => mark.of <= slots[0].of.generation
      <4>1. ASSUME Marking
            PROVE  /\ slots[0].of.generation = slots[1].of.generation + 1
                   /\ slots[1].of.generation \in 1..MaxGeneration - 1
        BY <4>1, PointsDiffer
      <4>2. ASSUME Marking, IsWhole(mark)
            PROVE  mark = Whole(slots[1].of.generation - 1) \/ mark = Whole(slots[0].of.generation)
        BY <4>2, Parts DEF Marking, MarkBefore
      <4> QED  BY <4>1, <4>2, Parts, JournalAssumption
    <3>3. Stuck => mark.of = slots[0].of.generation /\ IsWhole(slots[0]) /\ mark.of >= 2
      BY DEF Stuck, Whole
    <3>4. Stuck => slots[0].of.generation \in Nat
      BY SlotTypes, JournalAssumption DEF Stuck, Record
    <3> QED
      BY <3>1, <3>2, <3>3, <3>4, PointsDiffer, Parts DEF MarkIsBehind, FilesInv, Unstarted
  <2>2. CompletedIsAtRest
    <3> SUFFICES ASSUME op = Void, intents = {}
                 PROVE  \/ Untouched /\ mark = Blank
                        \/ /\ Selectable /\ Newest.phase = "complete"
                           /\ mark = Whole(Newest.generation)
                           /\ target = Whole(agreed) /\ Newest.intended = agreed
      BY DEF CompletedIsAtRest
    <3>1. AtRest(agreed)
      BY DEF RestInv, Attempted
    <3>2. Unstarted => mark = Blank
      BY DEF Unstarted
    <3>3. ASSUME Done
          PROVE  Selectable /\ Newest = slots[0].of /\ target = Whole(slots[0].of.intended)
      BY <3>3, PointsDiffer DEF Done, Marking, Selectable, Newest
    <3> QED  BY <3>1, <3>2, <3>3, PointsDiffer DEF AtRest, Done
  <2>3. FirstWriteCanBeResumed
    <3> SUFFICES ASSUME mark = Blank
                 PROVE  Untouched \/ Recoverable \/ FirstWriteIsRepeatable
      BY DEF FirstWriteCanBeResumed
    <3>1. ~Stuck /\ (Completing => slots[1].of.generation = 1)
      BY Parts DEF Stuck, Completing, MarkBefore
    <3>2. ASSUME Unstarted, slots[1] = Blank
          PROVE  Untouched \/ FirstWriteIsRepeatable
      <4>1. CASE slots[0] = Blank
        BY <3>2, <4>1 DEF Untouched
      <4>2. ASSUME NEW b \in Texts,
                   slots[0] \in {Scrap, Torn(Bootstrap(0, b, TargetBody)), Whole(Bootstrap(0, b, TargetBody))}
            PROVE  FirstWriteIsRepeatable
        BY <3>2, <4>2 DEF FirstWriteIsRepeatable, MayBecome, IsPrefix
      <4> QED  BY <3>2, <4>1, <4>2 DEF Unstarted, Untouched
    <3> QED  BY <3>1, <3>2, Unrecoverable DEF Bricked
  <2> QED  BY <2>1, <2>2, <2>3 DEF JournalIsSound
<1> QED  BY <1>1, StoreSpecInv, PTL

(***************************************************************************)
(* The register that callers see.                                          *)
(***************************************************************************)
LEMMA SameRequest ==
  ASSUME op # Void, op' # Void, op'.kind = op.kind, op'.expected = op.expected, op'.desired = op.desired,
         UNCHANGED historyVars
  PROVE  UNCHANGED Register!vars
  BY DEF Register!vars, Request, historyVars

LEMMA RequestGiven ==
  ASSUME StoreInv, op # Void
  PROVE  /\ Request # Void /\ Request.kind = op.kind /\ Request.expected = op.expected
         /\ Request.desired = op.desired /\ op.kind \in {"read", "swap"}
<1>1. op \in Op
  BY OpTypes DEF StoreInv
<1>2. Request = [kind |-> op.kind, expected |-> op.expected, desired |-> op.desired]
  BY DEF Request
<1>3. Request \in [kind : {"read", "swap"}, expected : Values, desired : Values]
  BY <1>1, <1>2 DEF Op
<1> QED  BY <1>1, <1>2, <1>3, VoidAssumption DEF Op

\* An operation that ends without an answer may have taken effect.
LEMMA AbandonInterrupts == ASSUME StoreInv, op # Void, Abandon PROVE Register!Next
<1>1. Request' = Void
  BY DEF Abandon, Request
<1>2. /\ intents' \in {intents} \cup
           (IF op.kind = "swap" /\ op.expected \in Possible THEN {intents \cup {op.desired}} ELSE {})
      /\ agreed' = agreed
  BY DEF Abandon
<1>3. Register!Possible = Possible
  BY DEF Register!Possible, Possible
<1> QED  BY <1>1, <1>2, <1>3, RequestGiven DEF Register!Next, Register!Interrupt

\* An error lets a swap go on that has only read, or ends the operation.
LEMMA ErrorInterrupts == ASSUME StoreInv, op # Void, Error PROVE [Register!Next]_(Register!vars)
<1>1. CASE Abandon
  BY <1>1, AbandonInterrupts
<1>2. CASE op' = [op EXCEPT !.stage = "write", !.pc = "examine"] /\ UNCHANGED historyVars
  <2>1. op \in Op
    BY OpTypes DEF StoreInv
  <2>2. op'.kind = op.kind /\ op'.expected = op.expected /\ op'.desired = op.desired /\ op' \in Op
    BY <1>2, <2>1 DEF Op
  <2> QED  BY <1>2, <2>2, SameRequest, VoidAssumption
<1> QED  BY <1>1, <1>2 DEF Error

\* What starts a request submits it.
LEMMA StartSubmits ==
  ASSUME NEW kind \in {"read", "swap"}, NEW expected \in Values, NEW desired \in Values,
         Open(kind, expected, desired),
         kind = "read" => expected = Void /\ desired = Void,
         kind = "swap" => desired \in Texts,
         StoreTypeOK
  PROVE  Register!Next
<1> DEFINE r == [kind |-> kind, expected |-> expected, desired |-> desired]
<1>1. Request = Void /\ op' \in Op
  BY DEF Open, Request, Op, StoreTypeOK
<1>2. Request' = r
  <2>1. op' # Void /\ op'.kind = kind /\ op'.expected = expected /\ op'.desired = desired
    BY <1>1, VoidAssumption DEF Open
  <2> QED  BY <2>1 DEF Request
<1>3. r \in Register!Request
  BY DEF Register!Request, Register!Values, Values
<1> QED  BY <1>1, <1>2, <1>3 DEF Register!Next, Register!Submit, Open, historyVars

\* What returns a value settles it.
LEMMA EndSettles ==
  ASSUME StoreInv, EndRead \/ EndSwapUnchanged \/ EndWrite
  PROVE  Register!Next
<1>1. op # Void /\ op.pc = "end"
  BY DEF EndRead, EndSwapUnchanged, EndWrite, Doing
<1>2. Register!Possible = Possible
  BY DEF Register!Possible, Possible
<1>3. \A v : Return(v) => Register!Settle(v)
  BY DEF Return, Register!Settle, Request
<1>4. CASE EndRead
  <2>1. Current \in Possible
    <3>1. op.stage = "read"
      BY <1>1, <1>4, Modes DEF EndRead
    <3> QED  BY <1>1, <3>1, CurrentAtRest
  <2> QED  BY <1>1, <1>2, <1>3, <1>4, <2>1, RequestGiven DEF EndRead, Register!Next, Register!Read
<1>5. CASE EndSwapUnchanged
  <2>1. Current \in Possible
    BY <1>1, <1>5, CurrentAtRest DEF EndSwapUnchanged
  <2> QED
    BY <1>1, <1>2, <1>3, <1>5, <2>1, RequestGiven DEF EndSwapUnchanged, Register!Next, Register!Refuse
<1>6. CASE EndWrite
  <2>1. op.expected \in Possible /\ op.kind = "swap"
    BY <1>1, <1>6, Modes DEF EndWrite
  <2> QED
    BY <1>1, <1>2, <1>3, <1>6, <2>1, RequestGiven DEF EndWrite, Register!Next, Register!Swap
<1> QED  BY <1>4, <1>5, <1>6

LEMMA TakeStutters ==
  ASSUME StoreInv, op # Void, NEW r \in Record \cup {Void}, NEW step \in Points, NEW f \in BOOLEAN,
         Take(r, step, f)
  PROVE  UNCHANGED Register!vars
  BY TakenIs, TakenTyped, SameRequest DEF StoreInv

LEMMA GotoStutters ==
  ASSUME StoreInv, op # Void, NEW step \in Points, Proceed(step)
  PROVE  UNCHANGED Register!vars
  BY Gone, GoneTyped, SameRequest DEF StoreInv

LEMMA RecoverRefines == ASSUME StoreInv, Recover PROVE [Register!Next]_(Register!vars)
<1>0. op # Void
  BY DEF Recover, RecoverSelected, RecoverBootstrap, RecoverCompletion, RecoverFails, ExaminesToRecover,
         Doing
<1>1. CASE RecoverSelected
  <2>1. Newest \in Record
    BY <1>1, SlotTypes DEF RecoverSelected, Selectable, Newest, StoreInv
  <2> QED  BY <1>0, <1>1, <2>1, TakeStutters DEF RecoverSelected, Points
<1>2. CASE RecoverBootstrap
  <2>1. slots[0].of \in Record
    BY <1>2, SlotTypes DEF RecoverBootstrap, BootstrapRemnant, StoreInv
  <2>2. [slots[0].of EXCEPT !.generation = 1] \in Record
    BY <2>1, JournalAssumption DEF Record
  <2> QED  BY <1>0, <1>2, <2>2, TakeStutters DEF RecoverBootstrap, Points
<1>3. CASE RecoverCompletion
  <2>1. slots[1].of \in Record /\ slots[1].of.generation < MaxGeneration
    BY <1>3, SlotTypes, JournalAssumption DEF RecoverCompletion, CompletionRemnant, StoreInv
  <2> QED  BY <1>0, <1>3, <2>1, Completions, TakeStutters DEF RecoverCompletion, Points
<1>4. CASE RecoverFails
  BY <1>0, <1>4, ErrorInterrupts DEF RecoverFails
<1> QED  BY <1>1, <1>2, <1>3, <1>4 DEF Recover

LEMMA RewriteRefines == ASSUME StoreInv, ~SurvivesErrors, Rewrite PROVE [Register!Next]_(Register!vars)
<1>1. op # Void
  BY DEF Rewrite, Anchor, Slot, RepairMark, Apply, Publish, Mark, Doing
<1>2. Fail \/ Error => [Register!Next]_(Register!vars)
  BY <1>1, FailEnds, AbandonInterrupts, ErrorInterrupts
<1>3. \A step \in Points : Proceed(step) => UNCHANGED Register!vars
  BY <1>1, GotoStutters
<1>4. CASE Anchor \/ Slot
  BY <1>2, <1>3, <1>4 DEF Anchor, Slot, WriteSlotFails, Points
<1>5. CASE RepairMark \/ Mark
  BY <1>2, <1>3, <1>5 DEF RepairMark, Mark, WriteMarkFails, Points
<1>6. CASE Apply
  <2>1. AfterTarget \in Points
    BY DEF AfterTarget, Points
  <2> QED  BY <1>2, <1>3, <1>6, <2>1 DEF Apply
<1>7. CASE Publish
  <2>1. op.pc = "complete" /\ op.final \in BOOLEAN
    BY <1>1, <1>7, OpTypes DEF Publish, Doing, StoreInv, Op
  <2>2. Completion(op.record) \in Record
    BY <1>1, <2>1, RecordTyped, Completions
  <2>3. Take(Completion(op.record), "mark", op.final) => UNCHANGED Register!vars
    BY <1>1, <2>1, <2>2, TakeStutters DEF Points
  <2> QED  BY <1>2, <1>7, <2>3 DEF Publish, WriteSlotFails
<1> QED  BY <1>4, <1>5, <1>6, <1>7 DEF Rewrite

LEMMA WriteRefines == ASSUME StoreInv, Write PROVE [Register!Next]_(Register!vars)
<1>1. op # Void /\ op \in Op
  BY OpTypes
  DEF StoreInv, Write, WriteFirst, WriteFirstFails, EndWritePass, WriteNext, WriteNextFails, EndWrite, Doing
<1>2. CASE WriteFirst
  <2>1. BodyOf(op.retained) \in Values /\ op.desired \in Texts
    BY <1>1, <1>2, Modes, BodyTyped DEF WriteFirst, Op
  <2>2. Bootstrap(1, op.desired, BodyOf(op.retained)) \in Record
    BY <2>1, JournalAssumption DEF Bootstrap, Record
  <2> QED  BY <1>1, <1>2, <2>2, TakeStutters DEF WriteFirst, Points
<1>3. CASE WriteNext
  <2>1. op.pc = "next" /\ op.record \in Record
    BY <1>1, <1>3, RecordTyped DEF WriteNext, Doing
  <2>2. op.record.generation + 1 \in 0..MaxGeneration
    BY <1>3, <2>1, JournalAssumption DEF WriteNext, Exhausted, Record
  <2>3. TargetBody \in Values /\ op.desired \in Texts
    BY <1>1, <2>1, BodyTyped, Modes DEF TargetBody, StoreTypeOK, StoreInv, OpInv, StepInv
  <2>4. Bootstrap(op.record.generation + 1, op.desired, TargetBody) \in Record
    BY <2>2, <2>3 DEF Bootstrap, Record
  <2> QED  BY <1>1, <1>3, <2>4, TakeStutters DEF WriteNext, Points
<1>4. CASE WriteFirstFails \/ WriteNextFails
  BY <1>1, <1>4, ErrorInterrupts DEF WriteFirstFails, WriteNextFails
<1>5. CASE EndWritePass
  BY <1>1, <1>5, GotoStutters DEF EndWritePass, Points
<1>6. CASE EndWrite
  BY <1>6, EndSettles
<1> QED  BY <1>2, <1>3, <1>4, <1>5, <1>6 DEF Write

LEMMA StepRefines == ASSUME StoreInv, ~SurvivesErrors, StoreNext PROVE [Register!Next]_(Register!vars)
<1>1. ASSUME NEW expected \in Values, NEW desired \in Texts, Open("swap", expected, desired)
      PROVE  Register!Next
  BY <1>1, StartSubmits DEF StoreInv, Values
<1>2. CASE Open("read", Void, Void)
  BY <1>2, StartSubmits DEF StoreInv, Values
<1>3. CASE ReadUntouched
  BY <1>3, TakeStutters DEF ReadUntouched, Doing, Points
<1>4. CASE EndSwapReads
  <2>1. op # Void /\ op \in Op /\ UNCHANGED historyVars
    BY <1>4, OpTypes DEF EndSwapReads, Doing, StoreInv
  <2>2. op'.kind = op.kind /\ op'.expected = op.expected /\ op'.desired = op.desired /\ op' \in Op
    BY <1>4, <2>1 DEF EndSwapReads, Op
  <2> QED  BY <2>1, <2>2, SameRequest, VoidAssumption
<1>5. CASE Killed
  BY <1>5, AbandonInterrupts DEF Killed
<1>6. CASE Recover
  BY <1>6, RecoverRefines
<1>7. CASE Rewrite
  BY <1>7, RewriteRefines
<1>8. CASE Write
  BY <1>8, WriteRefines
<1>9. CASE EndRead \/ EndSwapUnchanged
  BY <1>9, EndSettles
<1> QED  BY <1>1, <1>2, <1>3, <1>4, <1>5, <1>6, <1>7, <1>8, <1>9 DEF StoreNext

\* However its rewrites are cut short, the journal is a register that is read and swapped
\* atomically: what an interrupted swap left is settled, one way, by the next answer.
THEOREM JournalIsRegister == ~SurvivesErrors => (StoreSpec => ImplementsRegister)
<1> SUFFICES ASSUME ~SurvivesErrors
             PROVE  StoreSpec => ImplementsRegister
  OBVIOUS
<1>1. StoreInit => Register!Init
  BY BodyTyped DEF StoreInit, Register!Init, Register!Values, Values, Request, TargetBody, File, Blank, Whole
<1>2. StoreInv /\ [StoreNext]_storeVars => [Register!Next]_(Register!vars)
  <2>1. UNCHANGED storeVars => UNCHANGED Register!vars
    BY DEF storeVars, historyVars, Register!vars, Request
  <2> QED  BY <2>1, StepRefines
<1> QED  BY <1>1, <1>2, StoreSpecInv, PTL DEF StoreSpec, ImplementsRegister, Register!Spec

-----------------------------------------------------------------------------
(***************************************************************************)
(* Keeping filters and configuration in step: TargetSync.                  *)
(***************************************************************************)

(***************************************************************************)
(* Where a session can be, and what it can have in hand.  C stands for the *)
(* configurations of the world, edits for its bound on other changes.      *)
(***************************************************************************)
Adding == {"add", "post", "added"}
Retiring == {"retire", "delete", "retired"}
Finishing == Retiring \cup
  {"scanOld", "scanAll", "readConfig", "swapConfig", "readBack", "finalConfig", "verify"}
Working == {"scan"} \cup Adding \cup Finishing
Closing == {"closePlan", "close"}
Places == Working \cup Closing
  \cup {"idle", "journal", "discover", "plan", "confirm", "prepare", "save", "edit"}

Session(C) ==
  [pc : Places, cfg : C \cup {None}, pinned : SUBSET Address, targets : SUBSET Address,
   doc : JournalOf(C) \cup {None}, resumes : BOOLEAN, next : JournalOf(C) \cup {None},
   then : Places, base : Partial(Ids, Rule), todo : SUBSET (Body \cup Ids)]

\* Where a session is, or will be when it has saved, and with which journal.
Place(r) == IF r.pc = "save" THEN r.then ELSE r.pc
Holds(r) == IF r.pc = "save" THEN r.next ELSE r.doc

\* It has a journal, one of schema 2; it is about to write one.
HasDoc(r) == r.resumes \/ r.pc \in Working \cup Closing \cup {"save"}
HasTwo(r) == HasDoc(r) /\ r.doc.schema = 2
SavesTwo(r) == r.pc = "save" /\ r.next.schema = 2

\* What a plan puts into its journal, and what is noted down later.
Sound(d) ==
  /\ \A a \in d.targets : \/ Managed(a) \in d.new
                          \/ \E id \in DOMAIN d.unrelated : d.unrelated[id].body = Managed(a)
  /\ \A id \in DOMAIN d.old : d.old[id] \notin d.new
  /\ \A id \in DOMAIN d.unrelated : d.unrelated[id].body \notin d.new
  /\ \A id \in DOMAIN d.old : \A a \in d.targets : d.old[id] # Managed(a)
  /\ \A body \in d.new : body.form = "managed"
  /\ \A id \in DOMAIN d.newIds : d.newIds[id] \in d.new /\ id \notin DOMAIN d.old

SavingShape(r, C) ==
  /\ r.next \in JournalOf(C) /\ SameIntent(r.doc, r.next) /\ r.next.schema = r.doc.schema
  /\ r.then \in (Working \ {"verify"}) \cup {"idle"}
  /\ r.next.phase = "committed" <=> r.then = "idle"
  /\ r.next.schema = 1 => r.then = "idle"

Shape(r, C, edits) ==
  /\ r.pc # "idle" => r.cfg \in C
  /\ r.pc = "edit" => r.cfg.rest < edits
  /\ IF r.pc = "save" THEN SavingShape(r, C) ELSE r.next = None /\ r.then = "idle"
  /\ IF HasDoc(r)
     THEN r.doc \in JournalOf(C) /\ Valid(r.doc) /\ r.doc.phase # "committed"
     ELSE r.doc = None
  /\ r.pc \in Closing => r.doc.schema = 1
  /\ r.pc = "close" =>
       \A body \in r.doc.new :
         body.form = "managed" /\ \E id \in DOMAIN r.base : r.base[id].body = body
  /\ r.pc \in Working \/ r.resumes => r.doc.schema = 2
  /\ r.resumes => r.pc \in Working \cup {"plan", "confirm", "save"}
  /\ HasTwo(r) => r.pinned = r.doc.pinned /\ r.targets = r.doc.targets /\ Sound(r.doc)
  /\ SavesTwo(r) => Sound(r.next)

BaseFits(r) ==
  Place(r) \in Working =>
    /\ DOMAIN r.doc.old \subseteq DOMAIN r.base
    /\ \A id \in DOMAIN r.base : r.base[id].body \notin r.doc.new

Noted(d, body) == \E id \in DOMAIN d.newIds : d.newIds[id] = body

\* What is left to do, and what is done.
Progress(r) ==
  /\ Place(r) \in Finishing => \A body \in Holds(r).new : Noted(Holds(r), body)
  /\ Place(r) \in {"add", "added"} =>
       /\ r.todo \subseteq Holds(r).new
       /\ \A body \in Holds(r).new \ r.todo : Noted(Holds(r), body)
  /\ Place(r) = "post" =>
       /\ r.todo \subseteq Holds(r).new /\ Holds(r).pending.body \in Holds(r).new
       /\ \A body \in Holds(r).new \ (r.todo \cup {Holds(r).pending.body}) : Noted(Holds(r), body)
  /\ Place(r) \in Retiring => r.todo \subseteq DOMAIN Holds(r).old
  /\ Place(r) = "delete" =>
       \E id \in DOMAIN Holds(r).old : Holds(r).pending = PendingDelete(id, Holds(r).old[id])

Static(r, C, edits) ==
  r \in Session(C) /\ Shape(r, C, edits) /\ BaseFits(r) /\ Progress(r)

(***************************************************************************)
(* A session and the provider's rules, of which those up to last were ever *)
(* given out, and the stored journal j.                                    *)
(***************************************************************************)
KnownBodies(bodies, rules, last) ==
  \A id \in DOMAIN bodies : id <= last /\ (id \in DOMAIN rules => rules[id].body = bodies[id])

KnownRules(list, rules, last) ==
  \A id \in DOMAIN list : id <= last /\ (id \in DOMAIN rules => rules[id].body = list[id].body)

Live(d, rules) == \E id \in DOMAIN d.old : id \in DOMAIN rules

NewPresent(d, rules) == \A id \in DOMAIN d.newIds : id \in DOMAIN rules

\* As long as something is left to retire of it, the stored journal is of the same plan.
Agrees(d, rules, last, j) ==
  /\ KnownBodies(d.old, rules, last) /\ KnownBodies(d.newIds, rules, last)
  /\ KnownRules(d.unrelated, rules, last)
  /\ Live(d, rules) => Underway2(j) /\ SameIntent(j, d) /\ NewPresent(d, rules)

NoLegacy(rules) == \A id \in DOMAIN rules : rules[id].body.form # "legacy"

ManagedKept(list, rules) ==
  \A id \in DOMAIN list : list[id].body.form = "managed" => id \in DOMAIN rules

UnderwayOne(j) == Underway(j) /\ j.schema = 1

Ending(r, rules, j) ==
  /\ r.next.schema = 2 => ~Live(r.next, rules) /\ NoLegacy(rules)
  /\ UnderwayOne(j) =>
       \A body \in r.next.new :
         body.form = "managed" /\ \E id \in DOMAIN rules : rules[id].body = body

Deep(r, rules, last, j) ==
  /\ HasTwo(r) => Agrees(r.doc, rules, last, j)
  /\ SavesTwo(r) => Agrees(r.next, rules, last, j)
  /\ KnownRules(r.base, rules, last)
  /\ r.pc \in {"confirm", "prepare"} /\ ~r.resumes =>
       Underway(j) \/ NoLegacy(rules) \/ ManagedKept(r.base, rules)
  /\ r.pc = "save" /\ r.then = "idle" => Ending(r, rules, j)
  /\ UnderwayOne(j) => \/ r.pc \in {"idle", "journal", "edit"}
                       \/ r.pc \in Closing \cup {"save"} /\ r.doc.schema = 1

JournalFits(j, rules, last) ==
  Underway2(j) =>
    /\ Sound(j) /\ Agrees(j, rules, last, j)
    /\ NoLegacy(rules) \/ ManagedKept(j.unrelated, rules)

(***************************************************************************)
(* What besides is true while sessions do not overlap.                     *)
(***************************************************************************)
Complete(d, rules, cfg) ==
  /\ {rules[id].body : id \in ManagedIds(rules)} = {Managed(a) : a \in d.targets}
  /\ LegacyIds(rules) = {}
  /\ cfg.targets = d.targets /\ cfg.pinned = d.pinned

Missing(body, rules) == \A id \in DOMAIN rules : rules[id].body # body

Sole(r, rules, cfg, j) ==
  /\ HasDoc(r) => j = r.doc
  /\ Place(r) \in Adding => \A body \in r.todo : Missing(body, rules)
  /\ Place(r) = "post" =>
       Missing(Holds(r).pending.body, rules) /\ Holds(r).pending.body \notin r.todo
  /\ r.pc = "verify" => HasIntent(cfg, r)
  /\ r.pc = "save" /\ r.then = "idle" /\ r.next.schema = 2 => Complete(r.next, rules, cfg)

(***************************************************************************)
(* The invariant.                                                          *)
(***************************************************************************)
Typed ==
  /\ TypeOK
  /\ journal \in JournalOf(Config) \cup {None}
  /\ filters \in Partial(Ids, Rule)
  /\ DOMAIN session = Sessions

StaticInv == \A s \in Sessions : Static(session[s], Config, world.edits)
DeepInv == \A s \in Sessions : Deep(session[s], filters, used, journal)
JournalInv == JournalFits(journal, filters, used)

SoleInv ==
  world.kind # "shared" =>
    /\ Unambiguous(filters)
    /\ \A s \in Sessions : ~At(s, "idle") => Alone(s)
    /\ \A s \in Sessions : Sole(session[s], filters, config, journal)

IInv == Typed /\ StaticInv /\ DeepInv /\ JournalInv /\ SoleInv

-----------------------------------------------------------------------------
(***************************************************************************)
(* The operators of FilterScope.                                           *)
(***************************************************************************)

\* Partial and IsPartial say the same.
LEMMA PartialIs ==
  ASSUME NEW S, NEW T, NEW f
  PROVE  f \in Partial(S, T) <=> IsPartial(f, S, T)
  BY DEF Partial, IsPartial

LEMMA RulesWithIs ==
  ASSUME NEW f \in Partial(Ids, Rule), NEW x \in Ids, NEW v \in Rule
  PROVE  /\ With(f, x, v) \in Partial(Ids, Rule)
         /\ DOMAIN With(f, x, v) = DOMAIN f \cup {x}
         /\ With(f, x, v)[x] = v
         /\ \A y \in DOMAIN f : y # x => With(f, x, v)[y] = f[y]
  <1>1. DOMAIN f \subseteq Ids /\ \A y \in DOMAIN f : f[y] \in Rule
    BY DEF Partial
  <1>2. With(f, x, v) \in [DOMAIN f \cup {x} -> Rule]
    BY <1>1 DEF With
  <1>3. DOMAIN f \cup {x} \in SUBSET Ids
    BY <1>1
  <1>4. With(f, x, v) \in Partial(Ids, Rule)
    BY <1>2, <1>3 DEF Partial
  <1> QED
    BY <1>4 DEF With

LEMMA NewIdsWithIs ==
  ASSUME NEW f \in Partial(Ids, Body), NEW x \in Ids, NEW v \in Body
  PROVE  /\ With(f, x, v) \in Partial(Ids, Body)
         /\ DOMAIN With(f, x, v) = DOMAIN f \cup {x}
         /\ With(f, x, v)[x] = v
         /\ \A y \in DOMAIN f : y # x => With(f, x, v)[y] = f[y]
  <1>1. DOMAIN f \subseteq Ids /\ \A y \in DOMAIN f : f[y] \in Body
    BY DEF Partial
  <1>2. With(f, x, v) \in [DOMAIN f \cup {x} -> Body]
    BY <1>1 DEF With
  <1>3. DOMAIN f \cup {x} \in SUBSET Ids
    BY <1>1
  <1>4. With(f, x, v) \in Partial(Ids, Body)
    BY <1>2, <1>3 DEF Partial
  <1> QED
    BY <1>4 DEF With

\* A rule that is created takes the next identifier and leaves the other rules alone.
LEMMA CreatedIs ==
  ASSUME NEW rules \in Partial(Ids, Rule), NEW last \in 0..MaxId, DOMAIN rules \subseteq 1..last,
         last < MaxId, NEW body \in Body, NEW renumbers
  PROVE  /\ Created(rules, last + 1, body, renumbers) \in Partial(Ids, Rule)
         /\ DOMAIN Created(rules, last + 1, body, renumbers) = DOMAIN rules \cup {last + 1}
         /\ last + 1 \in Ids /\ last + 1 \notin DOMAIN rules
         /\ Created(rules, last + 1, body, renumbers)[last + 1].body = body
         /\ \A id \in DOMAIN rules :
              Created(rules, last + 1, body, renumbers)[id].body = rules[id].body
  <1> DEFINE place == IF renumbers THEN Cardinality(DOMAIN rules) + 1 ELSE 0
  <1>1. MaxId \in Nat /\ last + 1 \in Ids /\ last + 1 \notin DOMAIN rules
    BY ScopeAssumption DEF Ids
  <1>2. IsFiniteSet(1..last) /\ Cardinality(1..last) = last
    BY FS_Interval
  <1>3. Cardinality(DOMAIN rules) \in Nat /\ Cardinality(DOMAIN rules) <= last
    BY <1>2, FS_Subset, FS_CardinalityType
  <1>4. place \in 0..MaxId
    BY <1>1, <1>3
  <1> HIDE DEF place
  <1>5. [body |-> body, priority |-> place] \in Rule
    BY <1>4 DEF Rule
  <1>6. Created(rules, last + 1, body, renumbers)
        = With(rules, last + 1, [body |-> body, priority |-> place])
    BY DEF Created, place
  <1> QED
    BY <1>1, <1>5, <1>6, RulesWithIs

\* A rule that is removed is gone; others may move up, but stay what they are.
LEMMA RemovedIs ==
  ASSUME NEW rules \in Partial(Ids, Rule), NEW id \in DOMAIN rules, NEW renumbers
  PROVE  /\ Removed(rules, id, renumbers) \in Partial(Ids, Rule)
         /\ DOMAIN Removed(rules, id, renumbers) = DOMAIN rules \ {id}
         /\ \A i \in DOMAIN rules \ {id} :
              Removed(rules, id, renumbers)[i].body = rules[i].body
  <1> DEFINE moved(i) == IF renumbers /\ rules[i].priority > rules[id].priority
                         THEN [rules[i] EXCEPT !.priority = @ - 1] ELSE rules[i]
  <1>1. MaxId \in Nat
    BY ScopeAssumption
  <1>2. \A i \in DOMAIN rules : rules[i] \in Rule
    BY DEF Partial
  <1>3. ASSUME NEW i \in DOMAIN rules
        PROVE  moved(i) \in Rule /\ moved(i).body = rules[i].body
    BY <1>1, <1>2, <1>3 DEF Rule
  <1>4. Removed(rules, id, renumbers) = [i \in DOMAIN rules \ {id} |-> moved(i)]
    BY DEF Removed
  <1>5. DOMAIN rules \ {id} \in SUBSET Ids
    BY DEF Partial
  <1> HIDE DEF moved
  <1>6. Removed(rules, id, renumbers) \in [DOMAIN rules \ {id} -> Rule]
    BY <1>3, <1>4
  <1>7. Removed(rules, id, renumbers) \in Partial(Ids, Rule)
    BY <1>5, <1>6 DEF Partial
  <1> QED
    BY <1>3, <1>4, <1>7

LEMMA SameIntentIs ==
  ASSUME NEW d, NEW e
  PROVE  SameIntent(d, e) <=>
           /\ d.old = e.old /\ d.new = e.new /\ d.unrelated = e.unrelated
           /\ d.pinned = e.pinned /\ d.targets = e.targets
           /\ d.before = e.before /\ d.expected = e.expected
  BY DEF SameIntent

\* None is no journal, in whatever world.
LEMMA NoneIsNoJournal ==
  ASSUME NEW C, C \subseteq [pinned : SUBSET Address, targets : SUBSET Address, rest : Nat]
  PROVE  None \notin JournalOf(C)
  BY AbsenceAssumption DEF JournalOf

LEMMA EmptyIs ==
  ASSUME NEW S, NEW T
  PROVE  <<>> \in Partial(S, T) /\ DOMAIN <<>> = {}
  <1>1. DOMAIN <<>> = {} /\ <<>> \in [{} -> T]
    OBVIOUS
  <1> QED
    BY <1>1 DEF Partial

\* The journal of a session's plan, field by field.
LEMMA PlanIs ==
  ASSUME NEW C, NEW r \in Session(C), r.cfg \in C, Wanted(r) \in C
  PROVE  /\ PlanOf(r) \in JournalOf(C)
         /\ PlanOf(r).schema = 2 /\ PlanOf(r).phase = "prepared" /\ PlanOf(r).pending = None
         /\ DOMAIN PlanOf(r).newIds = {}
         /\ DOMAIN PlanOf(r).old = ToRetire(r.base, r.targets)
         /\ \A id \in DOMAIN PlanOf(r).old : PlanOf(r).old[id] = r.base[id].body
         /\ PlanOf(r).new = {Managed(a) : a \in ToAdd(r.base, r.targets)}
         /\ DOMAIN PlanOf(r).unrelated = DOMAIN r.base \ ToRetire(r.base, r.targets)
         /\ \A id \in DOMAIN PlanOf(r).unrelated : PlanOf(r).unrelated[id] = r.base[id]
         /\ PlanOf(r).pinned = r.pinned /\ PlanOf(r).targets = r.targets
         /\ ToRetire(r.base, r.targets) \subseteq DOMAIN r.base
  <1> DEFINE rules == r.base
             retire == ToRetire(rules, r.targets)
             old == [id \in retire |-> rules[id].body]
             new == {Managed(a) : a \in ToAdd(rules, r.targets)}
             unrelated == Restrict(rules, DOMAIN rules \ retire)
             d == PlanOf(r)
  <1>1. /\ DOMAIN rules \subseteq Ids
        /\ \A id \in DOMAIN rules : rules[id] \in Rule /\ rules[id].body \in Body
    BY DEF Session, Partial, Rule
  <1>2. retire \subseteq DOMAIN rules
    BY DEF ToRetire, LegacyIds, ManagedIds
  <1>3. old \in Partial(Ids, Body) /\ DOMAIN old = retire
    <2>1. old \in [retire -> Body] /\ retire \in SUBSET Ids
      BY <1>1, <1>2
    <2> QED
      BY <2>1 DEF Partial
  <1>4. unrelated \in Partial(Ids, Rule) /\ DOMAIN unrelated = DOMAIN rules \ retire
    <2>1. unrelated \in [DOMAIN rules \ retire -> Rule] /\ DOMAIN rules \ retire \in SUBSET Ids
      BY <1>1 DEF Restrict
    <2> QED
      BY <2>1 DEF Partial
  <1>5. new \in SUBSET Body
    <2>1. \A a \in ToAdd(rules, r.targets) : Managed(a) \in Body
      BY DEF Session, ToAdd, Managed, Body
    <2> QED
      BY <2>1
  <1>6. \A id \in DOMAIN rules \ retire : unrelated[id] = rules[id]
    BY DEF Restrict
  <1>7. \A id \in retire : old[id] = rules[id].body
    OBVIOUS
  <1>8. r.pinned \in SUBSET Address /\ r.targets \in SUBSET Address
    BY DEF Session
  <1>9. d = [EmptyJournal EXCEPT !.old = old, !.new = new, !.unrelated = unrelated,
                                 !.pinned = r.pinned, !.targets = r.targets,
                                 !.before = r.cfg, !.expected = Wanted(r)]
    BY DEF PlanOf, Prepared
  <1> HIDE DEF retire, old, new, unrelated, d
  <1>10. d = [schema |-> 2, phase |-> "prepared", old |-> old, new |-> new,
              unrelated |-> unrelated, newIds |-> <<>>, retired |-> {}, pending |-> None,
              pinned |-> r.pinned, targets |-> r.targets, before |-> r.cfg,
              expected |-> Wanted(r), applied |-> None]
    BY <1>9 DEF EmptyJournal
  <1>11. d \in JournalOf(C)
    BY <1>3, <1>4, <1>5, <1>8, <1>10, EmptyIs DEF JournalOf
  <1>12. /\ d.schema = 2 /\ d.phase = "prepared" /\ d.pending = None /\ DOMAIN d.newIds = {}
         /\ d.old = old /\ d.new = new /\ d.unrelated = unrelated
         /\ d.pinned = r.pinned /\ d.targets = r.targets
    BY <1>10, EmptyIs
  <1>13. /\ DOMAIN d.old = retire /\ \A id \in DOMAIN d.old : d.old[id] = rules[id].body
         /\ DOMAIN d.unrelated = DOMAIN rules \ retire
         /\ \A id \in DOMAIN d.unrelated : d.unrelated[id] = rules[id]
    BY <1>3, <1>4, <1>6, <1>7, <1>12
  <1> QED
    BY <1>2, <1>11, <1>12, <1>13 DEF retire, new, d

\* A plan covers what it wants, and creates nothing that is there already.
LEMMA PlanIsSound ==
  ASSUME NEW C, NEW r \in Session(C), r.cfg \in C, Wanted(r) \in C
  PROVE  Sound(PlanOf(r))
  <1> DEFINE d == PlanOf(r)
             retire == ToRetire(r.base, r.targets)
  <1>1. /\ DOMAIN d.newIds = {} /\ d.targets = r.targets
        /\ DOMAIN d.old = retire /\ \A id \in DOMAIN d.old : d.old[id] = r.base[id].body
        /\ d.new = {Managed(a) : a \in ToAdd(r.base, r.targets)}
        /\ DOMAIN d.unrelated = DOMAIN r.base \ retire
        /\ \A id \in DOMAIN d.unrelated : d.unrelated[id] = r.base[id]
        /\ retire \subseteq DOMAIN r.base
    BY PlanIs
  <1> HIDE DEF d
  <1>2. ASSUME NEW a \in r.targets
        PROVE  \/ Managed(a) \in d.new
               \/ \E id \in DOMAIN d.unrelated : d.unrelated[id].body = Managed(a)
    <2>1. CASE Managed(a) \notin Bodies(r.base)
      BY <1>1, <2>1 DEF ToAdd
    <2>2. CASE Managed(a) \in Bodies(r.base)
      <3>1. PICK id \in DOMAIN r.base : r.base[id].body = Managed(a)
        BY <2>2 DEF Bodies
      <3>2. id \notin retire
        BY <3>1 DEF ToRetire, LegacyIds, ManagedIds, Managed
      <3> QED
        BY <1>1, <3>1, <3>2
    <2> QED
      BY <2>1, <2>2
  <1>3. ASSUME NEW id \in DOMAIN r.base
        PROVE  r.base[id].body \notin d.new
    BY <1>1 DEF ToAdd, Bodies
  <1>4. ASSUME NEW id \in retire, NEW a \in r.targets
        PROVE  r.base[id].body # Managed(a)
    BY DEF ToRetire, LegacyIds, ManagedIds, Managed
  <1>5. \A body \in d.new : body.form = "managed"
    BY <1>1 DEF Managed
  <1>6. Sound(d)
    BY <1>1, <1>2, <1>3, <1>4, <1>5 DEF Sound
  <1> QED
    BY <1>6 DEF d

\* What an audited reading teaches belongs to the same plan.
LEMMA NewsIs ==
  ASSUME NEW C, NEW d \in JournalOf(C), NEW base, NEW rules \in Partial(Ids, Rule),
         HasNews(d, base, rules)
  PROVE  LET n == News(d, base, rules)
         IN  /\ n \in JournalOf(C) /\ SameIntent(d, n)
             /\ n.schema = d.schema /\ n.phase = "active"
             /\ \A id \in DOMAIN d.newIds : id \in DOMAIN n.newIds /\ n.newIds[id] = d.newIds[id]
             /\ \A id \in DOMAIN n.newIds \ DOMAIN d.newIds :
                  /\ id \in DOMAIN rules /\ id \notin DOMAIN base
                  /\ n.newIds[id] = rules[id].body /\ IsPendingAdd(d, rules[id].body)
  <1> DEFINE n == News(d, base, rules)
  <1>0. \A id \in DOMAIN rules : id \in Ids /\ rules[id].body \in Body
    BY DEF Partial, Rule
  <1>1. CASE Adoptable(d, base, rules) # {}
    <2> DEFINE id == CHOOSE i \in Adoptable(d, base, rules) : TRUE
               newIds == With(d.newIds, id, rules[id].body)
    <2>1. id \in Adoptable(d, base, rules)
      BY <1>1
    <2>2. /\ id \in DOMAIN rules /\ id \notin DOMAIN base /\ id \notin DOMAIN d.newIds
          /\ IsPendingAdd(d, rules[id].body)
      BY <2>1 DEF Adoptable
    <2>3. n = [d EXCEPT !.phase = "active", !.newIds = newIds, !.pending = None]
      BY <1>1 DEF News, Adopted
    <2>4. d.newIds \in Partial(Ids, Body)
      BY DEF JournalOf
    <2> HIDE DEF id, n
    <2>5. /\ newIds \in Partial(Ids, Body) /\ DOMAIN newIds = DOMAIN d.newIds \cup {id}
          /\ newIds[id] = rules[id].body
          /\ \A i \in DOMAIN d.newIds : i # id => newIds[i] = d.newIds[i]
      <3>1. id \in Ids /\ rules[id].body \in Body
        BY <1>0, <2>2
      <3> DEFINE old == d.newIds
                 body == rules[id].body
      <3>2. old \in Partial(Ids, Body) /\ id \in Ids /\ body \in Body
        BY <2>4, <3>1
      <3> HIDE DEF old, body
      <3>3. /\ With(old, id, body) \in Partial(Ids, Body)
            /\ DOMAIN With(old, id, body) = DOMAIN old \cup {id}
            /\ With(old, id, body)[id] = body
            /\ \A i \in DOMAIN old : i # id => With(old, id, body)[i] = old[i]
        BY <3>2, NewIdsWithIs
      <3> QED
        BY <3>3 DEF old, body
    <2> HIDE DEF newIds
    <2>6. n \in JournalOf(C) /\ n.schema = d.schema /\ n.phase = "active" /\ n.newIds = newIds
      BY <2>3, <2>5 DEF JournalOf
    <2>7. SameIntent(d, n)
      BY <2>3 DEF JournalOf, SameIntent
    <2> QED
      BY <2>2, <2>5, <2>6, <2>7 DEF n
  <1>2. CASE Adoptable(d, base, rules) = {}
    <2> DEFINE retired == d.retired \cup Vanished(d, rules)
    <2>1. n = [d EXCEPT !.phase = "active", !.retired = retired, !.pending = None]
      BY <1>2 DEF News, Retired
    <2>2. retired \in SUBSET Ids
      BY DEF JournalOf, Vanished, Partial
    <2> HIDE DEF retired, n
    <2>3. n \in JournalOf(C) /\ n.schema = d.schema /\ n.phase = "active" /\ n.newIds = d.newIds
      BY <2>1, <2>2 DEF JournalOf
    <2>4. SameIntent(d, n)
      BY <2>1 DEF JournalOf, SameIntent
    <2> QED
      BY <2>3, <2>4 DEF n
  <1> QED
    BY <1>1, <1>2

\* The baseline of a resumed synchronisation knows nothing that is still to be created.
LEMMA ResumedIs ==
  ASSUME NEW C, NEW d \in JournalOf(C), Sound(d), NEW rules \in Partial(Ids, Rule),
         Authorised(d, rules)
  PROVE  LET base == ResumedBaseline(d, rules)
         IN  /\ base \in Partial(Ids, Rule)
             /\ DOMAIN d.old \subseteq DOMAIN base
             /\ \A id \in DOMAIN base : base[id].body \notin d.new
             /\ \A id \in DOMAIN base : \/ id \in DOMAIN rules /\ base[id] = rules[id]
                                        \/ id \in DOMAIN d.old /\ base[id].body = d.old[id]
  <1> DEFINE kept == {id \in DOMAIN rules : /\ id \notin DOMAIN d.newIds
                                            /\ ~IsPendingAdd(d, rules[id].body)}
             rule(id) == IF id \in kept THEN rules[id] ELSE [body |-> d.old[id], priority |-> 0]
             base == ResumedBaseline(d, rules)
  <1>1. base = [id \in kept \cup DOMAIN d.old |-> rule(id)]
    BY DEF ResumedBaseline
  <1>2. /\ DOMAIN rules \subseteq Ids /\ \A id \in DOMAIN rules : rules[id] \in Rule
        /\ DOMAIN d.old \subseteq Ids /\ \A id \in DOMAIN d.old : d.old[id] \in Body
    BY DEF Partial, JournalOf
  <1>3. MaxId \in Nat
    BY ScopeAssumption
  <1>4. ASSUME NEW id \in kept \cup DOMAIN d.old
        PROVE  rule(id) \in Rule
    BY <1>2, <1>3 DEF Rule
  <1>5. ASSUME NEW id \in kept \cup DOMAIN d.old
        PROVE  rule(id).body \notin d.new
    <2>1. CASE id \in kept
      <3>1. id \notin Strangers(d, rules)
        BY <2>1 DEF Authorised
      <3>2. CASE id \in DOMAIN d.unrelated
        BY <2>1, <3>2 DEF Authorised, Sound
      <3>3. CASE id \in DOMAIN d.old
        BY <2>1, <3>3 DEF Authorised, Sound
      <3> QED
        BY <2>1, <3>1, <3>2, <3>3 DEF Strangers
    <2>2. CASE id \notin kept
      BY <2>2 DEF Sound
    <2> QED
      BY <2>1, <2>2
  <1>6. kept \cup DOMAIN d.old \in SUBSET Ids
    BY <1>2
  <1>7. \A id \in kept \cup DOMAIN d.old : \/ id \in DOMAIN rules /\ rule(id) = rules[id]
                                           \/ id \in DOMAIN d.old /\ rule(id).body = d.old[id]
    OBVIOUS
  <1> HIDE DEF rule, kept, base
  <1>8. base \in [kept \cup DOMAIN d.old -> Rule]
    BY <1>1, <1>4
  <1>9. base \in Partial(Ids, Rule)
    BY <1>6, <1>8 DEF Partial
  <1>10. /\ DOMAIN base = kept \cup DOMAIN d.old
         /\ \A id \in DOMAIN base : base[id] = rule(id)
    BY <1>1
  <1> QED
    BY <1>5, <1>7, <1>9, <1>10 DEF base

-----------------------------------------------------------------------------
(***************************************************************************)
(* What a session knows stays true whatever the others do.  First: a rule  *)
(* is created, by a session or by somebody else.                           *)
(***************************************************************************)
Grown(rules, last, rules2, body) ==
  /\ last \in Nat /\ DOMAIN rules \subseteq 1..last
  /\ DOMAIN rules2 = DOMAIN rules \cup {last + 1}
  /\ \A id \in DOMAIN rules : rules2[id].body = rules[id].body
  /\ rules2[last + 1].body = body
  /\ body.form # "legacy"

LEMMA JournalIds ==
  ASSUME NEW C, NEW d \in JournalOf(C)
  PROVE  /\ DOMAIN d.old \subseteq Int /\ DOMAIN d.newIds \subseteq Int
         /\ DOMAIN d.unrelated \subseteq Int
  <1>1. /\ d.old \in Partial(Ids, Body) /\ d.newIds \in Partial(Ids, Body)
        /\ d.unrelated \in Partial(Ids, Rule)
    BY DEF JournalOf
  <1>2. Ids \subseteq Int
    BY ScopeAssumption DEF Ids
  <1> QED
    BY <1>1, <1>2 DEF Partial

LEMMA AgreesGrown ==
  ASSUME NEW C, NEW d \in JournalOf(C), NEW rules, NEW last, NEW rules2, NEW body, NEW j,
         Grown(rules, last, rules2, body), Agrees(d, rules, last, j)
  PROVE  Agrees(d, rules2, last + 1, j)
  <1>1. /\ DOMAIN d.old \subseteq Int /\ DOMAIN d.newIds \subseteq Int
        /\ DOMAIN d.unrelated \subseteq Int
    BY JournalIds
  <1>2. /\ KnownBodies(d.old, rules2, last + 1) /\ KnownBodies(d.newIds, rules2, last + 1)
        /\ KnownRules(d.unrelated, rules2, last + 1)
    BY <1>1 DEF Agrees, Grown, KnownBodies, KnownRules
  <1>3. Live(d, rules2) => Live(d, rules)
    BY <1>1 DEF Agrees, Grown, KnownBodies, Live
  <1>4. NewPresent(d, rules) => NewPresent(d, rules2)
    BY DEF Grown, NewPresent
  <1> QED
    BY <1>2, <1>3, <1>4 DEF Agrees

LEMMA DeepGrown ==
  ASSUME NEW C, NEW e, NEW r, Static(r, C, e), NEW rules, NEW last, NEW rules2, NEW body, NEW j,
         Grown(rules, last, rules2, body), Deep(r, rules, last, j)
  PROVE  Deep(r, rules2, last + 1, j)
  <1>1. HasTwo(r) => r.doc \in JournalOf(C)
    BY DEF Static, Shape, HasTwo
  <1>2. SavesTwo(r) => r.next \in JournalOf(C)
    BY DEF Static, Shape, SavingShape, SavesTwo
  <1>3. HasTwo(r) => Agrees(r.doc, rules2, last + 1, j)
    BY <1>1, AgreesGrown DEF Deep
  <1>4. SavesTwo(r) => Agrees(r.next, rules2, last + 1, j)
    BY <1>2, AgreesGrown DEF Deep
  <1>5. DOMAIN r.base \subseteq Int
    BY ScopeAssumption DEF Static, Session, Partial, Ids
  <1>6. KnownRules(r.base, rules2, last + 1)
    BY <1>5 DEF Deep, Grown, KnownRules
  <1>7. NoLegacy(rules) => NoLegacy(rules2)
    BY DEF Grown, NoLegacy
  <1>8. ManagedKept(r.base, rules) => ManagedKept(r.base, rules2)
    BY DEF Grown, ManagedKept
  <1>9. ASSUME r.pc = "save", r.then = "idle"
        PROVE  Ending(r, rules2, j)
    <2>1. Ending(r, rules, j)
      BY <1>9 DEF Deep
    <2>2. ASSUME r.next.schema = 2
          PROVE  ~Live(r.next, rules2)
      <3>1. DOMAIN r.next.old \subseteq Int
        <4>1. r.next \in JournalOf(C)
          BY <1>2, <1>9, <2>2 DEF SavesTwo
        <4> QED
          BY <4>1, JournalIds
      <3>2. \A id \in DOMAIN r.next.old : id <= last
        BY <1>9, <2>2 DEF Deep, SavesTwo, Agrees, KnownBodies
      <3> QED
        BY <2>1, <2>2, <3>1, <3>2 DEF Ending, Grown, Live
    <2> QED
      BY <2>1, <2>2, <1>7 DEF Ending, Grown
  <1> QED
    BY <1>3, <1>4, <1>6, <1>7, <1>8, <1>9 DEF Deep

(***************************************************************************)
(* A rule is removed: one of somebody else's, or one the stored journal    *)
(* wants retired.                                                          *)
(***************************************************************************)
Removable(id, rules, j) ==
  /\ id \in DOMAIN rules
  /\ rules[id].body = Other \/ (Underway2(j) /\ id \in DOMAIN j.old)

Shrunk(id, rules, rules2) ==
  /\ DOMAIN rules2 = DOMAIN rules \ {id}
  /\ \A i \in DOMAIN rules2 : rules2[i].body = rules[i].body

LEMMA AgreesShrunk ==
  ASSUME NEW d, Sound(d), NEW rules, NEW last, NEW rules2, NEW id, NEW j,
         Removable(id, rules, j), Shrunk(id, rules, rules2), Agrees(d, rules, last, j)
  PROVE  Agrees(d, rules2, last, j)
  <1>1. /\ KnownBodies(d.old, rules2, last) /\ KnownBodies(d.newIds, rules2, last)
        /\ KnownRules(d.unrelated, rules2, last)
    BY DEF Agrees, Shrunk, KnownBodies, KnownRules
  <1>2. Live(d, rules2) => Live(d, rules)
    BY DEF Shrunk, Live
  <1>3. ASSUME SameIntent(j, d), NewPresent(d, rules)
        PROVE  NewPresent(d, rules2)
    <2>1. id \notin DOMAIN d.newIds
      <3>1. CASE rules[id].body = Other
        BY <3>1 DEF Removable, Agrees, KnownBodies, Sound, Other
      <3>2. CASE id \in DOMAIN j.old
        BY <1>3, <3>2, SameIntentIs DEF Sound
      <3> QED
        BY <3>1, <3>2 DEF Removable
    <2> QED
      BY <1>3, <2>1 DEF NewPresent, Shrunk
  <1> QED
    BY <1>1, <1>2, <1>3 DEF Agrees

LEMMA DeepShrunk ==
  ASSUME NEW C, NEW e, NEW r, Static(r, C, e), NEW rules, NEW last, NEW rules2, NEW id, NEW j,
         Removable(id, rules, j), Shrunk(id, rules, rules2), Deep(r, rules, last, j)
  PROVE  Deep(r, rules2, last, j)
  <1>1. HasTwo(r) => Agrees(r.doc, rules2, last, j)
    BY AgreesShrunk DEF Deep, Static, Shape
  <1>2. SavesTwo(r) => Agrees(r.next, rules2, last, j)
    BY AgreesShrunk DEF Deep, Static, Shape
  <1>3. KnownRules(r.base, rules2, last)
    BY DEF Deep, Shrunk, KnownRules
  <1>4. NoLegacy(rules) => NoLegacy(rules2)
    BY DEF Shrunk, NoLegacy
  <1>5. ASSUME ManagedKept(r.base, rules)
        PROVE  Underway(j) \/ ManagedKept(r.base, rules2)
    <2>1. CASE rules[id].body = Other
      BY <1>5, <2>1 DEF Deep, Removable, Shrunk, KnownRules, ManagedKept, Other
    <2> QED
      BY <2>1 DEF Removable, Underway2
  <1>6. ASSUME Ending(r, rules, j)
        PROVE  Ending(r, rules2, j)
    <2>1. Live(r.next, rules2) => Live(r.next, rules)
      BY DEF Shrunk, Live
    <2>2. ASSUME UnderwayOne(j), NEW body \in r.next.new
          PROVE  body.form = "managed" /\ \E i \in DOMAIN rules2 : rules2[i].body = body
      <3>1. rules[id].body = Other
        BY <2>2 DEF Removable, UnderwayOne, Underway2
      <3>2. PICK i \in DOMAIN rules : rules[i].body = body
        BY <1>6, <2>2 DEF Ending
      <3>3. body.form = "managed" /\ i # id
        BY <1>6, <2>2, <3>1, <3>2 DEF Ending, Other
      <3> QED
        BY <3>2, <3>3 DEF Shrunk
    <2> QED
      BY <1>4, <1>6, <2>1, <2>2 DEF Ending
  <1> QED
    BY <1>1, <1>2, <1>3, <1>4, <1>5, <1>6 DEF Deep

(***************************************************************************)
(* The journal is written: the next one of the same plan, or the first one *)
(* of another when none is under way.                                      *)
(***************************************************************************)
LEMMA SameIntentMoves ==
  ASSUME NEW d, NEW e, NEW f, SameIntent(d, e)
  PROVE  /\ SameIntent(e, d)
         /\ SameIntent(d, f) => SameIntent(e, f)
         /\ SameIntent(f, d) => SameIntent(f, e)
  BY SameIntentIs

\* j2 follows j in its plan; if that ends it, nothing is left to retire.
Follows(j, j2, rules) ==
  /\ Underway2(j) /\ j2 # None /\ SameIntent(j, j2) /\ j2.schema = 2
  /\ j2.phase = "committed" => ~Live(j2, rules) /\ NoLegacy(rules)

LEMMA AgreesFollows ==
  ASSUME NEW d, NEW rules, NEW last, NEW j, NEW j2,
         Follows(j, j2, rules), Agrees(d, rules, last, j)
  PROVE  Agrees(d, rules, last, j2)
  <1> SUFFICES ASSUME Live(d, rules)
               PROVE  Underway2(j2) /\ SameIntent(j2, d)
    BY DEF Agrees
  <1>1. SameIntent(j, d)
    BY DEF Agrees
  <1>2. SameIntent(j2, d)
    BY <1>1, SameIntentMoves DEF Follows
  <1>3. Live(j2, rules)
    BY <1>2, SameIntentIs DEF Live
  <1> QED
    BY <1>2, <1>3 DEF Follows, Underway2, Underway

LEMMA DeepFollows ==
  ASSUME NEW r, NEW rules, NEW last, NEW j, NEW j2,
         Follows(j, j2, rules), Deep(r, rules, last, j)
  PROVE  Deep(r, rules, last, j2)
  <1>1. ~UnderwayOne(j2) /\ ~UnderwayOne(j)
    BY DEF Follows, UnderwayOne, Underway2
  <1>2. Underway(j2) \/ NoLegacy(rules)
    BY DEF Follows, Underway
  <1>3. Ending(r, rules, j) => Ending(r, rules, j2)
    BY <1>1 DEF Ending
  <1> QED
    BY <1>1, <1>2, <1>3, AgreesFollows DEF Deep

\* A journal of schema 1 is closed.
LEMMA DeepCloses ==
  ASSUME NEW r, NEW rules, NEW last, NEW j, NEW j2,
         UnderwayOne(j), j2.phase = "committed", Deep(r, rules, last, j)
  PROVE  Deep(r, rules, last, j2)
  <1>1. ~Underway(j2) /\ ~Underway2(j)
    BY DEF Underway, UnderwayOne, Underway2
  <1>2. ASSUME HasTwo(r)
        PROVE  Agrees(r.doc, rules, last, j2)
    BY <1>1, <1>2 DEF Deep, Agrees
  <1>3. ASSUME SavesTwo(r)
        PROVE  Agrees(r.next, rules, last, j2)
    BY <1>1, <1>3 DEF Deep, Agrees
  <1>4. ~(r.pc \in {"confirm", "prepare"})
    BY DEF Deep, Closing
  <1>5. Ending(r, rules, j) => Ending(r, rules, j2)
    BY <1>1 DEF Ending, UnderwayOne
  <1> QED
    BY <1>1, <1>2, <1>3, <1>4, <1>5 DEF Deep, UnderwayOne

\* A journal is begun while none is under way.
LEMMA DeepBegins ==
  ASSUME NEW r, NEW rules, NEW last, NEW j, NEW j2,
         ~Underway(j), Underway2(j2), Deep(r, rules, last, j)
  PROVE  Deep(r, rules, last, j2)
  <1>1. ~Underway2(j) /\ ~UnderwayOne(j2) /\ Underway(j2)
    BY DEF UnderwayOne, Underway2
  <1>2. ASSUME HasTwo(r)
        PROVE  Agrees(r.doc, rules, last, j2)
    BY <1>1, <1>2 DEF Deep, Agrees
  <1>3. ASSUME SavesTwo(r)
        PROVE  Agrees(r.next, rules, last, j2)
    BY <1>1, <1>3 DEF Deep, Agrees
  <1>4. Ending(r, rules, j) => Ending(r, rules, j2)
    BY <1>1 DEF Ending
  <1> QED
    BY <1>1, <1>2, <1>3, <1>4 DEF Deep

(***************************************************************************)
(* The stored journal and the rules.                                       *)
(***************************************************************************)
LEMMA JournalGrown ==
  ASSUME NEW C, NEW j \in JournalOf(C), NEW rules, NEW last, NEW rules2, NEW body,
         Grown(rules, last, rules2, body), JournalFits(j, rules, last)
  PROVE  JournalFits(j, rules2, last + 1)
  <1>1. Agrees(j, rules, last, j) => Agrees(j, rules2, last + 1, j)
    BY AgreesGrown
  <1>2. NoLegacy(rules) => NoLegacy(rules2)
    BY DEF Grown, NoLegacy
  <1>3. ManagedKept(j.unrelated, rules) => ManagedKept(j.unrelated, rules2)
    BY DEF Grown, ManagedKept
  <1> QED
    BY <1>1, <1>2, <1>3 DEF JournalFits

LEMMA JournalShrunk ==
  ASSUME NEW j, Underway(j) => Valid(j), NEW rules, NEW last, NEW rules2, NEW id,
         Removable(id, rules, j), Shrunk(id, rules, rules2), JournalFits(j, rules, last)
  PROVE  JournalFits(j, rules2, last)
  <1> SUFFICES ASSUME Underway2(j)
               PROVE  /\ Agrees(j, rules2, last, j)
                      /\ NoLegacy(rules2) \/ ManagedKept(j.unrelated, rules2)
    BY DEF JournalFits
  <1>1. Agrees(j, rules2, last, j)
    BY AgreesShrunk DEF JournalFits
  <1>2. NoLegacy(rules) => NoLegacy(rules2)
    BY DEF Shrunk, NoLegacy
  <1>3. ASSUME ManagedKept(j.unrelated, rules)
        PROVE  ManagedKept(j.unrelated, rules2)
    <2>1. ASSUME id \in DOMAIN j.unrelated
          PROVE  j.unrelated[id].body.form # "managed"
      <3>1. id \notin DOMAIN j.old
        BY <2>1 DEF Valid, Underway2
      <3> QED
        BY <2>1, <3>1 DEF JournalFits, Agrees, KnownRules, Removable, Other
    <2> QED
      BY <1>3, <2>1 DEF ManagedKept, Shrunk
  <1> QED
    BY <1>1, <1>2, <1>3 DEF JournalFits

LEMMA JournalFollows ==
  ASSUME NEW j, NEW j2, NEW rules, NEW last, Follows(j, j2, rules), JournalFits(j, rules, last),
         Sound(j2), Agrees(j2, rules, last, j)
  PROVE  JournalFits(j2, rules, last)
  <1>1. Agrees(j2, rules, last, j2)
    BY AgreesFollows
  <1>2. j2.unrelated = j.unrelated
    BY SameIntentIs DEF Follows
  <1> QED
    BY <1>1, <1>2 DEF JournalFits, Follows

-----------------------------------------------------------------------------
(***************************************************************************)
(* The records of sessions.                                                *)
(***************************************************************************)
LEMMA IdleIs ==
  ASSUME NEW C, NEW e, NEW rules, NEW last, NEW cfg, NEW j
  PROVE  Static(Idle, C, e) /\ Deep(Idle, rules, last, j) /\ Sole(Idle, rules, cfg, j)
  <1>1. Idle \in Session(C)
    BY EmptyIs DEF Idle, Session, Places
  <1>2. /\ Idle.pc = "idle" /\ Idle.then = "idle" /\ Idle.next = None /\ Idle.doc = None
        /\ Idle.resumes = FALSE /\ DOMAIN Idle.base = {}
    BY EmptyIs DEF Idle
  <1>3. ~HasDoc(Idle) /\ Place(Idle) = "idle"
    BY <1>2 DEF HasDoc, Place, Working, Adding, Finishing, Retiring, Closing
  <1>4. Shape(Idle, C, e)
    BY <1>2, <1>3 DEF Shape, HasTwo, SavesTwo, Working, Adding, Finishing, Retiring, Closing
  <1>5. BaseFits(Idle) /\ Progress(Idle)
    BY <1>3 DEF BaseFits, Progress, Working, Adding, Finishing, Retiring
  <1>6. Deep(Idle, rules, last, j)
    BY <1>2, <1>3 DEF Deep, HasTwo, SavesTwo, KnownRules
  <1>7. Sole(Idle, rules, cfg, j)
    BY <1>2, <1>3 DEF Sole, Adding
  <1> QED
    BY <1>1, <1>4, <1>5, <1>6, <1>7 DEF Static

\* A session that is idle remembers nothing.
LEMMA IdleSole ==
  ASSUME NEW C, NEW e, NEW r, Static(r, C, e), r.pc = "idle", NEW rules, NEW cfg, NEW j
  PROVE  Sole(r, rules, cfg, j)
  <1>1. ~HasDoc(r) /\ Place(r) = "idle"
    BY DEF Static, Shape, HasDoc, Place, Working, Adding, Finishing, Retiring, Closing
  <1> QED
    BY <1>1 DEF Sole, Adding

\* x is r at another place; only todo may differ besides.
Moves(r, x, C) ==
  /\ x \in Session(C)
  /\ x.cfg = r.cfg /\ x.pinned = r.pinned /\ x.targets = r.targets /\ x.doc = r.doc
  /\ x.resumes = r.resumes /\ x.base = r.base

Moved(r, pc, todo) == [r EXCEPT !.pc = pc, !.todo = todo]
Placed(r, pc) == [r EXCEPT !.pc = pc]

LEMMA MovesIs ==
  ASSUME NEW C, NEW r \in Session(C), NEW pc \in Places, NEW todo \in SUBSET (Body \cup Ids)
  PROVE  /\ Moves(r, Moved(r, pc, todo), C)
         /\ Moved(r, pc, todo).pc = pc /\ Moved(r, pc, todo).todo = todo
         /\ Moved(r, pc, todo).next = r.next /\ Moved(r, pc, todo).then = r.then
  BY DEF Session, Moves, Moved

LEMMA PlainMovesIs ==
  ASSUME NEW C, NEW r \in Session(C), NEW pc \in Places
  PROVE  /\ Moves(r, Placed(r, pc), C)
         /\ Placed(r, pc).pc = pc /\ Placed(r, pc).todo = r.todo
         /\ Placed(r, pc).next = r.next /\ Placed(r, pc).then = r.then
  BY DEF Session, Moves, Placed

\* Working, from one reading to the next.
LEMMA WorkingMoves ==
  ASSUME NEW C, NEW e, NEW r, Static(r, C, e), NEW x, Moves(r, x, C),
         r.pc \in Working, x.pc \in Working, x.next = r.next, x.then = r.then, Progress(x)
  PROVE  /\ Static(x, C, e)
         /\ \A rules, last, j : Deep(r, rules, last, j) => Deep(x, rules, last, j)
  <1>1. r.pc # "save" /\ x.pc # "save" /\ Place(r) = r.pc /\ Place(x) = x.pc
    BY DEF Place, Working, Adding, Finishing, Retiring
  <1>2. HasDoc(r) /\ HasDoc(x) /\ r.doc.schema = 2
    BY DEF HasDoc, Static, Shape
  <1>3. Shape(x, C, e)
    BY <1>1, <1>2 DEF Static, Shape, Moves, HasTwo, SavesTwo, Working, Adding, Finishing, Retiring,
                      Closing
  <1>4. BaseFits(x)
    BY <1>1 DEF Static, BaseFits, Moves
  <1>5. ASSUME NEW rules, NEW last, NEW j, Deep(r, rules, last, j)
        PROVE  Deep(x, rules, last, j)
    <2>1. Agrees(x.doc, rules, last, j) /\ KnownRules(x.base, rules, last)
      BY <1>2, <1>5 DEF Deep, HasTwo, Moves
    <2>2. ~UnderwayOne(j)
      BY <1>2, <1>5 DEF Deep, Working, Adding, Finishing, Retiring, Closing
    <2> QED
      BY <1>1, <2>1, <2>2 DEF Deep, SavesTwo, Working, Adding, Finishing, Retiring
  <1> QED
    BY <1>3, <1>4, <1>5 DEF Static, Moves

\* Working, about to write a journal that does not end the plan.
LEMMA WorkingSaves ==
  ASSUME NEW C, NEW e, NEW r, Static(r, C, e), NEW x, Moves(r, x, C),
         r.pc \in Working, x.pc = "save", x.then \in Working \ {"verify"}, Progress(x),
         x.next \in JournalOf(C), SameIntent(r.doc, x.next), x.next.schema = 2,
         x.next.phase # "committed", Sound(x.next)
  PROVE  /\ Static(x, C, e)
         /\ \A rules, last, j : Deep(r, rules, last, j) /\ Agrees(x.next, rules, last, j)
                                => Deep(x, rules, last, j)
  <1>1. r.pc # "save" /\ x.then # "idle" /\ Place(r) = r.pc /\ Place(x) = x.then
    BY DEF Place, Working, Adding, Finishing, Retiring
  <1>2. HasDoc(r) /\ HasDoc(x) /\ r.doc.schema = 2
    BY DEF HasDoc, Static, Shape
  <1>3. SavingShape(x, C)
    BY <1>1, <1>2 DEF SavingShape, Moves
  <1>4. Shape(x, C, e)
    BY <1>1, <1>2, <1>3 DEF Static, Shape, Moves, HasTwo, SavesTwo, Working, Adding, Finishing,
                            Retiring, Closing
  <1>5. BaseFits(x)
    BY <1>1 DEF Static, BaseFits, Moves
  <1>6. ASSUME NEW rules, NEW last, NEW j, Deep(r, rules, last, j), Agrees(x.next, rules, last, j)
        PROVE  Deep(x, rules, last, j)
    <2>1. Agrees(x.doc, rules, last, j) /\ KnownRules(x.base, rules, last)
      BY <1>2, <1>6 DEF Deep, HasTwo, Moves
    <2>2. ~UnderwayOne(j)
      BY <1>2, <1>6 DEF Deep, Working, Adding, Finishing, Retiring, Closing
    <2> QED
      BY <1>1, <1>6, <2>1, <2>2 DEF Deep
  <1> QED
    BY <1>4, <1>5, <1>6 DEF Static, Moves

\* A journal of the same plan with the same rules noted down.
LEMMA SameNotes ==
  ASSUME NEW d, NEW n, SameIntent(d, n), n.newIds = d.newIds
  PROVE  /\ Sound(d) => Sound(n)
         /\ \A rules, last, j : Agrees(d, rules, last, j) => Agrees(n, rules, last, j)
         /\ \A body : Noted(n, body) <=> Noted(d, body)
  <1>1. n.old = d.old /\ n.new = d.new /\ n.unrelated = d.unrelated /\ n.targets = d.targets
    BY SameIntentIs
  <1>2. Sound(d) => Sound(n)
    BY <1>1 DEF Sound
  <1>3. ASSUME NEW rules, NEW last, NEW j, Agrees(d, rules, last, j)
        PROVE  Agrees(n, rules, last, j)
    BY <1>1, <1>3, SameIntentMoves DEF Agrees, Live, NewPresent
  <1> QED
    BY <1>2, <1>3 DEF Noted

LEMMA SavingIs ==
  ASSUME NEW C, NEW r \in Session(C), NEW d \in JournalOf(C), NEW pc \in Places
  PROVE  /\ Moves(r, Saving(r, d, pc), C)
         /\ Saving(r, d, pc).pc = "save" /\ Saving(r, d, pc).next = d
         /\ Saving(r, d, pc).then = pc /\ Saving(r, d, pc).todo = r.todo
  BY DEF Session, Moves, Saving, Places

LEMMA SavingLessIs ==
  ASSUME NEW C, NEW r \in Session(C), NEW d \in JournalOf(C), NEW pc \in Places, NEW item,
         NEW x, x = Saving([r EXCEPT !.todo = @ \ {item}], d, pc)
  PROVE  /\ Moves(r, x, C)
         /\ x.pc = "save" /\ x.next = d /\ x.then = pc /\ x.todo = r.todo \ {item}
  <1> DEFINE q == [r EXCEPT !.todo = @ \ {item}]
  <1>1. q \in Session(C) /\ q.todo = r.todo \ {item} /\ Moves(r, q, C)
    BY DEF Session, Moves
  <1> HIDE DEF q
  <1>2. /\ Moves(q, Saving(q, d, pc), C)
        /\ Saving(q, d, pc).pc = "save" /\ Saving(q, d, pc).next = d
        /\ Saving(q, d, pc).then = pc /\ Saving(q, d, pc).todo = q.todo
    BY <1>1, SavingIs
  <1>3. Moves(r, Saving(q, d, pc), C)
    BY <1>1, <1>2 DEF Moves
  <1> QED
    BY <1>1, <1>2, <1>3 DEF q

Marked(d, p) == [d EXCEPT !.phase = "active", !.pending = p]

LEMMA MarkIs ==
  ASSUME NEW C, NEW d \in JournalOf(C), NEW p \in Pending \cup {None}
  PROVE  /\ Marked(d, p) \in JournalOf(C) /\ SameIntent(d, Marked(d, p))
         /\ Marked(d, p).newIds = d.newIds /\ Marked(d, p).schema = d.schema
         /\ Marked(d, p).phase = "active" /\ Marked(d, p).pending = p
  <1>1. /\ Marked(d, p) \in JournalOf(C)
        /\ Marked(d, p).newIds = d.newIds /\ Marked(d, p).schema = d.schema
        /\ Marked(d, p).phase = "active" /\ Marked(d, p).pending = p
    BY DEF JournalOf, Marked
  <1>2. SameIntent(d, Marked(d, p))
    BY DEF JournalOf, SameIntent, Marked
  <1> QED
    BY <1>1, <1>2

Reading == {"scan", "add", "added", "scanOld", "retire", "retired", "scanAll"}

\* A reading teaches something.
LEMMA AuditSaves ==
  ASSUME NEW C, NEW e, NEW r, Static(r, C, e), r.pc \in Reading,
         NEW rules \in Partial(Ids, Rule), NEW last, DOMAIN rules \subseteq 1..last, last \in Nat,
         NEW j, Deep(r, rules, last, j), HasNews(r.doc, r.base, rules)
  PROVE  LET x == Saving(r, News(r.doc, r.base, rules), r.pc)
         IN  /\ Static(x, C, e) /\ Deep(x, rules, last, j)
             /\ \A cfg : Sole(r, rules, cfg, j) => Sole(x, rules, cfg, j)
  <1> DEFINE d == r.doc
             n == News(d, r.base, rules)
             x == Saving(r, n, r.pc)
  <1>1. /\ r.pc \in Working \ {"verify"} /\ r.pc \in Places /\ Place(r) = r.pc /\ Holds(r) = d
        /\ r.pc \notin {"post", "delete", "save"}
    BY DEF Reading, Working, Adding, Finishing, Retiring, Places, Place, Holds
  <1>2. HasDoc(r) /\ HasTwo(r)
    BY <1>1 DEF Static, Shape, HasDoc, HasTwo
  <1>3. d \in JournalOf(C) /\ Valid(d) /\ d.schema = 2 /\ Sound(d) /\ r \in Session(C)
    BY <1>2 DEF Static, Shape, HasTwo
  <1>4. /\ n \in JournalOf(C) /\ SameIntent(d, n)
        /\ n.schema = d.schema /\ n.phase = "active"
        /\ \A id \in DOMAIN d.newIds : id \in DOMAIN n.newIds /\ n.newIds[id] = d.newIds[id]
        /\ \A id \in DOMAIN n.newIds \ DOMAIN d.newIds :
             /\ id \in DOMAIN rules /\ id \notin DOMAIN r.base
             /\ n.newIds[id] = rules[id].body /\ IsPendingAdd(d, rules[id].body)
    BY <1>3, NewsIs
  <1> HIDE DEF n
  <1>5. /\ Moves(r, x, C) /\ x.pc = "save" /\ x.next = n /\ x.then = r.pc /\ x.todo = r.todo
    BY <1>1, <1>3, <1>4, SavingIs
  <1> HIDE DEF x
  <1>6. /\ n.old = d.old /\ n.new = d.new /\ n.unrelated = d.unrelated /\ n.targets = d.targets
    BY <1>4, SameIntentIs
  <1>7. Sound(n)
    <2>1. DOMAIN d.old \subseteq DOMAIN r.base
      BY <1>1 DEF Static, BaseFits
    <2>2. \A id \in DOMAIN n.newIds : n.newIds[id] \in n.new /\ id \notin DOMAIN n.old
      BY <1>3, <1>4, <1>6, <2>1 DEF Sound, Valid, IsPendingAdd
    <2> QED
      BY <1>3, <1>6, <2>2 DEF Sound
  <1>8. Agrees(n, rules, last, j)
    <2>1. Agrees(d, rules, last, j)
      BY <1>2 DEF Deep
    <2>2. \A id \in DOMAIN rules : id <= last
      OBVIOUS
    <2>3. KnownBodies(n.newIds, rules, last)
      BY <1>4, <2>1, <2>2 DEF Agrees, KnownBodies
    <2>4. NewPresent(d, rules) => NewPresent(n, rules)
      BY <1>4 DEF NewPresent
    <2> QED
      BY <1>4, <1>6, <2>1, <2>3, <2>4, SameIntentMoves DEF Agrees, Live
  <1>9. \A body : Noted(d, body) => Noted(n, body)
    BY <1>4 DEF Noted
  <1>10. Place(x) = r.pc /\ Holds(x) = n
    BY <1>5 DEF Place, Holds
  <1>11. Progress(x)
    BY <1>1, <1>5, <1>6, <1>9, <1>10 DEF Static, Progress
  <1>12. Static(x, C, e) /\ Deep(x, rules, last, j)
    BY <1>1, <1>3, <1>4, <1>5, <1>7, <1>8, <1>11, WorkingSaves
  <1>13. ASSUME NEW cfg, Sole(r, rules, cfg, j)
         PROVE  Sole(x, rules, cfg, j)
    <2>1. x.pc # "verify" /\ x.then # "idle"
      BY <1>1, <1>5 DEF Working, Adding, Finishing, Retiring
    <2> QED
      BY <1>1, <1>2, <1>5, <1>10, <1>13, <2>1 DEF Sole, Moves
  <1> QED
    BY <1>12, <1>13 DEF x, n

\* A session at work.
AtWork(r, C, e, rules, last, j) ==
  /\ Static(r, C, e) /\ Deep(r, rules, last, j) /\ r.pc \in Working
  /\ rules \in Partial(Ids, Rule) /\ DOMAIN rules \subseteq 1..last /\ last \in Nat

Result(r, x, C, e, rules, last, j) ==
  /\ Static(x, C, e) /\ Deep(x, rules, last, j)
  /\ \A cfg : Sole(r, rules, cfg, j) => Sole(x, rules, cfg, j)

LEMMA AtWorkIs ==
  ASSUME NEW C, NEW e, NEW r, NEW rules, NEW last, NEW j, AtWork(r, C, e, rules, last, j)
  PROVE  /\ HasDoc(r) /\ HasTwo(r) /\ r.pc # "save" /\ Place(r) = r.pc /\ Holds(r) = r.doc
         /\ r.doc \in JournalOf(C) /\ Valid(r.doc) /\ r.doc.schema = 2 /\ Sound(r.doc)
         /\ r \in Session(C) /\ Agrees(r.doc, rules, last, j)
         /\ DOMAIN r.doc.old \subseteq DOMAIN r.base
         /\ \A id \in DOMAIN r.base : r.base[id].body \notin r.doc.new
         /\ KnownRules(r.base, rules, last) /\ ~UnderwayOne(j)
         /\ r.pinned = r.doc.pinned /\ r.targets = r.doc.targets
         /\ r.todo \subseteq Body \cup Ids /\ r.cfg \in C /\ r.doc.phase # "committed"
         /\ r.next = None /\ r.then = "idle"
  <1>1. r.pc # "save" /\ r.pc # "idle" /\ Place(r) = r.pc /\ Holds(r) = r.doc
    BY DEF AtWork, Working, Adding, Finishing, Retiring, Place, Holds
  <1>2. HasDoc(r) /\ HasTwo(r)
    BY DEF AtWork, Static, Shape, HasDoc, HasTwo
  <1>3. r.todo \subseteq Body \cup Ids
    BY DEF AtWork, Static, Session
  <1>4. ~UnderwayOne(j)
    BY <1>2 DEF AtWork, Deep, HasTwo, Working, Adding, Finishing, Retiring
  <1> QED
    BY <1>1, <1>2, <1>3, <1>4 DEF AtWork, Static, Shape, BaseFits, Deep, HasTwo

\* On to another place without a journal to write.
LEMMA WorkMoves ==
  ASSUME NEW C, NEW e, NEW r, NEW rules, NEW last, NEW j, AtWork(r, C, e, rules, last, j),
         NEW x, Moves(r, x, C), x.pc \in Working \ ({"verify"} \cup Adding),
         x.next = r.next, x.then = r.then, Progress(x)
  PROVE  Result(r, x, C, e, rules, last, j)
  <1>1. /\ HasDoc(r) /\ HasDoc(x) /\ x.pc # "save" /\ Place(x) = x.pc /\ x.doc = r.doc
    BY AtWorkIs DEF Moves, HasDoc, Place, Working, Adding, Finishing, Retiring
  <1>2. Static(x, C, e) /\ Deep(x, rules, last, j)
    BY WorkingMoves DEF AtWork
  <1>3. \A cfg : Sole(r, rules, cfg, j) => Sole(x, rules, cfg, j)
    BY <1>1 DEF Sole, Adding
  <1> QED
    BY <1>2, <1>3 DEF Result

\* On by writing a journal of the same plan with the same rules noted down.
LEMMA WorkSaves ==
  ASSUME NEW C, NEW e, NEW r, NEW rules, NEW last, NEW j, AtWork(r, C, e, rules, last, j),
         NEW x, Moves(r, x, C), x.pc = "save", x.then \in Working \ {"verify"}, Progress(x),
         x.next \in JournalOf(C), SameIntent(r.doc, x.next), x.next.newIds = r.doc.newIds,
         x.next.schema = 2, x.next.phase # "committed"
  PROVE  Static(x, C, e) /\ Deep(x, rules, last, j)
  <1>1. Sound(r.doc) /\ Agrees(r.doc, rules, last, j)
    BY AtWorkIs
  <1>2. Sound(x.next) /\ Agrees(x.next, rules, last, j)
    BY <1>1, SameNotes
  <1> QED
    BY <1>2, WorkingSaves DEF AtWork

LEMMA ScanWorks ==
  ASSUME NEW C, NEW e, NEW r, NEW rules, NEW last, NEW j, AtWork(r, C, e, rules, last, j),
         r.pc = "scan", Undisturbed(r.doc, r.base, rules)
  PROVE  LET missing == r.doc.new \ OwnBodies(r, rules)
             x == [r EXCEPT !.pc = IF missing = {} THEN "scanOld" ELSE "add", !.todo = missing]
         IN  Result(r, x, C, e, rules, last, j)
  <1> DEFINE d == r.doc
             missing == d.new \ OwnBodies(r, rules)
             pc == IF missing = {} THEN "scanOld" ELSE "add"
             x == Moved(r, pc, missing)
  <1>1. /\ HasDoc(r) /\ d \in JournalOf(C) /\ Sound(d) /\ r \in Session(C)
        /\ Agrees(d, rules, last, j) /\ KnownRules(r.base, rules, last)
        /\ \A id \in DOMAIN r.base : r.base[id].body \notin d.new
        /\ r.next = None /\ r.then = "idle"
    BY AtWorkIs
  <1>2. missing \subseteq Body \cup Ids
    BY <1>1 DEF JournalOf
  <1>3. pc \in Places /\ pc \in Working \ {"verify"} /\ pc # "save"
    BY DEF Places, Working, Adding, Finishing, Retiring
  <1>4. \A body \in d.new \ missing : Noted(d, body)
    BY <1>1 DEF OwnBodies, Agrees, KnownBodies, Sound, Noted
  <1>5. \A body \in missing : Missing(body, rules)
    <2> SUFFICES ASSUME NEW body \in missing, NEW id \in DOMAIN rules, rules[id].body = body
                 PROVE  FALSE
      BY DEF Missing
    <2>1. id \notin DOMAIN d.old \cup DOMAIN d.newIds
      BY DEF OwnBodies
    <2>2. id \in DOMAIN r.base
      BY <2>1 DEF Undisturbed, Known
    <2> QED
      BY <1>1, <2>2 DEF KnownRules
  <1> HIDE DEF missing
  <1>6. /\ Moves(r, x, C) /\ x.pc = pc /\ x.todo = missing
        /\ x.next = r.next /\ x.then = r.then
    BY <1>1, <1>2, <1>3, MovesIs
  <1>7. pc = IF missing = {} THEN "scanOld" ELSE "add"
    OBVIOUS
  <1> HIDE DEF x, pc
  <1>8. x.doc = d /\ Place(x) = pc /\ Holds(x) = d
    BY <1>3, <1>6 DEF Moves, Place, Holds
  <1>9. missing \subseteq d.new
    BY DEF missing
  <1>10. Progress(x)
    <2>1. CASE missing = {}
      BY <1>4, <1>6, <1>7, <1>8, <2>1 DEF Progress, Finishing, Retiring
    <2>2. CASE missing # {}
      BY <1>4, <1>6, <1>7, <1>8, <1>9, <2>2 DEF Progress, Finishing, Retiring
    <2> QED
      BY <2>1, <2>2
  <1>11. Static(x, C, e) /\ Deep(x, rules, last, j)
    BY <1>3, <1>6, <1>10, WorkingMoves DEF AtWork
  <1>12. \A cfg : Sole(r, rules, cfg, j) => Sole(x, rules, cfg, j)
    <2>1. x.pc # "verify" /\ x.pc # "save" /\ Place(x) # "post"
      BY <1>3, <1>6, <1>7, <1>8
    <2> QED
      BY <1>1, <1>5, <1>6, <1>8, <2>1 DEF Sole
  <1> QED
    BY <1>11, <1>12 DEF Result, Moved, x, pc, missing

LEMMA AddWorks ==
  ASSUME NEW C, NEW e, NEW r, NEW rules, NEW last, NEW j, AtWork(r, C, e, rules, last, j),
         r.pc = "add", NEW body \in r.todo
  PROVE  Result(r, MarkAdd([r EXCEPT !.todo = @ \ {body}], body), C, e, rules, last, j)
  <1> DEFINE d == r.doc
             n == Marked(d, PendingAdd(body))
             x == MarkAdd([r EXCEPT !.todo = @ \ {body}], body)
  <1>1. /\ HasDoc(r) /\ d \in JournalOf(C) /\ d.schema = 2 /\ r \in Session(C)
        /\ Place(r) = "add" /\ Holds(r) = d
    BY AtWorkIs
  <1>2. /\ r.todo \subseteq d.new
        /\ \A b \in d.new \ r.todo : Noted(d, b)
    BY <1>1 DEF AtWork, Static, Progress
  <1>3. PendingAdd(body) \in Pending \cup {None}
    BY <1>1, <1>2 DEF JournalOf, PendingAdd, Pending
  <1>4. /\ n \in JournalOf(C) /\ SameIntent(d, n) /\ n.newIds = d.newIds
        /\ n.schema = d.schema /\ n.phase = "active" /\ n.pending = PendingAdd(body)
    BY <1>1, <1>3, MarkIs
  <1>5. x = Saving([r EXCEPT !.todo = @ \ {body}], n, "post")
    BY DEF MarkAdd, Marked, Session, AtWork, Static
  <1> HIDE DEF n, x
  <1>6. /\ Moves(r, x, C) /\ x.pc = "save" /\ x.next = n /\ x.then = "post"
        /\ x.todo = r.todo \ {body}
    <2>1. "post" \in Places
      BY DEF Places, Working, Adding
    <2> QED
      BY <1>1, <1>4, <1>5, <2>1, SavingLessIs
  <1>7. Place(x) = "post" /\ Holds(x) = n /\ n.pending.body = body /\ n.new = d.new
    BY <1>4, <1>6, SameIntentIs DEF Place, Holds, PendingAdd
  <1>8. \A b \in n.new \ (x.todo \cup {body}) : Noted(n, b)
    BY <1>2, <1>4, <1>6, <1>7, SameNotes
  <1>9. Progress(x)
    BY <1>2, <1>6, <1>7, <1>8 DEF Progress, Finishing, Retiring
  <1>10. Static(x, C, e) /\ Deep(x, rules, last, j)
    BY <1>1, <1>4, <1>6, <1>9, WorkSaves DEF Working, Adding
  <1>11. \A cfg : Sole(r, rules, cfg, j) => Sole(x, rules, cfg, j)
    <2>1. x.doc = r.doc
      BY <1>6 DEF Moves
    <2> QED
      BY <1>1, <1>6, <1>7, <2>1 DEF Sole, Adding
  <1> QED
    BY <1>10, <1>11 DEF Result, x

LEMMA AddedWorks ==
  ASSUME NEW C, NEW e, NEW r, NEW rules, NEW last, NEW j, AtWork(r, C, e, rules, last, j),
         r.pc = "added"
  PROVE  Result(r, Unmark(r, IF r.todo = {} THEN "scanOld" ELSE "add"), C, e, rules, last, j)
  <1> DEFINE d == r.doc
             n == Marked(d, None)
             pc == IF r.todo = {} THEN "scanOld" ELSE "add"
             x == Unmark(r, pc)
  <1>1. /\ HasDoc(r) /\ d \in JournalOf(C) /\ d.schema = 2 /\ r \in Session(C)
        /\ Place(r) = "added" /\ Holds(r) = d
    BY AtWorkIs
  <1>2. /\ r.todo \subseteq d.new
        /\ \A b \in d.new \ r.todo : Noted(d, b)
    BY <1>1 DEF AtWork, Static, Progress
  <1>3. None \in Pending \cup {None}
    OBVIOUS
  <1>4. /\ n \in JournalOf(C) /\ SameIntent(d, n) /\ n.newIds = d.newIds
        /\ n.schema = d.schema /\ n.phase = "active"
    BY <1>1, <1>3, MarkIs
  <1>5. x = Saving(r, n, pc)
    BY DEF Unmark, Marked
  <1>6. pc \in Places /\ pc \in Working \ {"verify"}
    BY DEF Places, Working, Adding, Finishing, Retiring
  <1>7. pc = IF r.todo = {} THEN "scanOld" ELSE "add"
    OBVIOUS
  <1> HIDE DEF n, x, pc
  <1>8. /\ Moves(r, x, C) /\ x.pc = "save" /\ x.next = n /\ x.then = pc /\ x.todo = r.todo
    BY <1>1, <1>4, <1>5, <1>6, SavingIs
  <1>9. Place(x) = pc /\ Holds(x) = n /\ n.new = d.new
    BY <1>4, <1>8, SameIntentIs DEF Place, Holds
  <1>10. \A b \in n.new \ x.todo : Noted(n, b)
    BY <1>2, <1>4, <1>8, <1>9, SameNotes
  <1>11. Progress(x)
    BY <1>2, <1>7, <1>8, <1>9, <1>10 DEF Progress, Finishing, Retiring
  <1>12. Static(x, C, e) /\ Deep(x, rules, last, j)
    BY <1>1, <1>4, <1>6, <1>8, <1>11, WorkSaves
  <1>13. \A cfg : Sole(r, rules, cfg, j) => Sole(x, rules, cfg, j)
    <2>1. x.doc = r.doc /\ pc \notin {"post", "idle"}
      BY <1>7, <1>8 DEF Moves
    <2> QED
      BY <1>1, <1>8, <1>9, <2>1 DEF Sole, Adding
  <1> QED
    BY <1>12, <1>13 DEF Result, x, pc

LEMMA ScanOldWorks ==
  ASSUME NEW C, NEW e, NEW r, NEW rules, NEW last, NEW j, AtWork(r, C, e, rules, last, j),
         r.pc = "scanOld"
  PROVE  LET present == DOMAIN r.doc.old \cap DOMAIN rules
             x == [r EXCEPT !.pc = IF present = {} THEN "scanAll" ELSE "retire",
                            !.todo = present]
         IN  Result(r, x, C, e, rules, last, j)
  <1> DEFINE d == r.doc
             present == DOMAIN d.old \cap DOMAIN rules
             pc == IF present = {} THEN "scanAll" ELSE "retire"
             x == Moved(r, pc, present)
  <1>1. HasDoc(r) /\ d \in JournalOf(C) /\ r \in Session(C) /\ Place(r) = "scanOld" /\ Holds(r) = d
    BY AtWorkIs
  <1>2. present \in SUBSET (Body \cup Ids)
    <2>1. d.old \in Partial(Ids, Body)
      BY <1>1 DEF JournalOf
    <2>2. DOMAIN d.old \subseteq Ids
      BY <2>1 DEF Partial
    <2> QED
      BY <2>2
  <1>3. /\ pc \in Places /\ pc \in Working \ ({"verify"} \cup Adding)
        /\ pc \notin Adding /\ pc # "delete" /\ pc # "save"
    BY DEF Places, Working, Finishing, Retiring, Adding
  <1>4. present \subseteq DOMAIN d.old
    OBVIOUS
  <1>5. \A body \in d.new : Noted(d, body)
    BY <1>1 DEF AtWork, Static, Progress, Finishing
  <1> HIDE DEF present, pc
  <1>6. Moves(r, x, C) /\ x.pc = pc /\ x.todo = present /\ x.next = r.next /\ x.then = r.then
    BY <1>1, <1>2, <1>3, MovesIs
  <1>7. Place(x) = pc /\ Holds(x) = d
    BY <1>3, <1>6 DEF Place, Holds, Moves
  <1>8. Progress(x)
    BY <1>3, <1>4, <1>5, <1>6, <1>7 DEF Progress, Adding
  <1>9. Result(r, x, C, e, rules, last, j)
    BY <1>3, <1>6, <1>8, WorkMoves
  <1> QED
    BY <1>9 DEF Moved, pc, present

LEMMA RetireWorks ==
  ASSUME NEW C, NEW e, NEW r, NEW rules, NEW last, NEW j, AtWork(r, C, e, rules, last, j),
         r.pc = "retire", NEW id \in r.todo
  PROVE  Result(r, MarkDelete([r EXCEPT !.todo = @ \ {id}], id), C, e, rules, last, j)
  <1> DEFINE d == r.doc
             p == PendingDelete(id, d.old[id])
             n == Marked(d, p)
             x == MarkDelete([r EXCEPT !.todo = @ \ {id}], id)
  <1>1. /\ HasDoc(r) /\ d \in JournalOf(C) /\ d.schema = 2 /\ r \in Session(C)
        /\ Place(r) = "retire" /\ Holds(r) = d
    BY AtWorkIs
  <1>2. /\ r.todo \subseteq DOMAIN d.old
        /\ \A body \in d.new : Noted(d, body)
    BY <1>1 DEF AtWork, Static, Progress, Retiring, Finishing
  <1>3. p \in Pending \cup {None}
    <2>1. d.old \in Partial(Ids, Body)
      BY <1>1 DEF JournalOf
    <2>2. id \in Ids /\ d.old[id] \in Body
      BY <1>2, <2>1 DEF Partial
    <2> QED
      BY <2>2 DEF Pending, PendingDelete
  <1> HIDE DEF p
  <1>4. /\ n \in JournalOf(C) /\ SameIntent(d, n) /\ n.newIds = d.newIds
        /\ n.schema = d.schema /\ n.phase = "active" /\ n.pending = p
    BY <1>1, <1>3, MarkIs
  <1>5. x = Saving([r EXCEPT !.todo = @ \ {id}], n, "delete")
    BY DEF MarkDelete, Marked, Session, AtWork, Static, p
  <1> HIDE DEF n, x
  <1>6. /\ Moves(r, x, C) /\ x.pc = "save" /\ x.next = n /\ x.then = "delete"
        /\ x.todo = r.todo \ {id}
    <2>1. "delete" \in Places
      BY DEF Places, Working, Finishing, Retiring
    <2> QED
      BY <1>1, <1>4, <1>5, <2>1, SavingLessIs
  <1>7. Place(x) = "delete" /\ Holds(x) = n /\ n.old = d.old /\ n.new = d.new
    BY <1>4, <1>6, SameIntentIs DEF Place, Holds
  <1>8. \A b \in n.new : Noted(n, b)
    BY <1>2, <1>4, <1>7, SameNotes
  <1>9. \E i \in DOMAIN n.old : n.pending = PendingDelete(i, n.old[i])
    BY <1>2, <1>4, <1>7 DEF p
  <1>10. Progress(x)
    BY <1>2, <1>6, <1>7, <1>8, <1>9 DEF Progress
  <1>11. Static(x, C, e) /\ Deep(x, rules, last, j)
    BY <1>1, <1>4, <1>6, <1>10, WorkSaves DEF Working, Finishing, Retiring
  <1>12. \A cfg : Sole(r, rules, cfg, j) => Sole(x, rules, cfg, j)
    <2>1. x.doc = r.doc
      BY <1>6 DEF Moves
    <2> QED
      BY <1>1, <1>6, <1>7, <2>1 DEF Sole, Adding
  <1> QED
    BY <1>11, <1>12 DEF Result, x

\* On with the same in hand.
LEMMA WorkGoesOn ==
  ASSUME NEW C, NEW e, NEW r, NEW rules, NEW last, NEW j, AtWork(r, C, e, rules, last, j),
         r.pc \in Finishing, NEW pc \in Finishing \ {"delete", "verify"},
         pc \in Retiring => r.pc \in Retiring
  PROVE  /\ Result(r, [r EXCEPT !.pc = pc], C, e, rules, last, j)
         /\ [r EXCEPT !.pc = pc].pc = pc
  <1> DEFINE d == r.doc
             x == Placed(r, pc)
  <1>1. r \in Session(C) /\ Place(r) = r.pc /\ Holds(r) = d
    BY AtWorkIs
  <1>2. pc \in Places /\ pc # "save" /\ pc \in Working \ ({"verify"} \cup Adding)
    BY DEF Places, Working, Finishing, Retiring, Adding
  <1>3. /\ \A body \in d.new : Noted(d, body)
        /\ r.pc \in Retiring => r.todo \subseteq DOMAIN d.old
    BY <1>1 DEF AtWork, Static, Progress
  <1> HIDE DEF x
  <1>4. Moves(r, x, C) /\ x.pc = pc /\ x.todo = r.todo /\ x.next = r.next /\ x.then = r.then
    BY <1>1, <1>2, PlainMovesIs DEF x
  <1>5. Place(x) = pc /\ Holds(x) = d
    BY <1>2, <1>4 DEF Place, Holds, Moves
  <1>6. Progress(x)
    BY <1>2, <1>3, <1>4, <1>5 DEF Progress, Adding
  <1>7. Result(r, x, C, e, rules, last, j)
    BY <1>2, <1>4, <1>6, WorkMoves
  <1> QED
    BY <1>4, <1>7 DEF Placed, x

\* What a session that is not creating rules and not at its end knows does not change with the
\* rules or the configuration.
LEMMA SoleElsewhere ==
  ASSUME NEW x, NEW rules, NEW cfg, NEW j, Sole(x, rules, cfg, j),
         Place(x) \notin Adding, x.pc # "verify", Place(x) # "idle"
  PROVE  \A rules2, cfg2 : Sole(x, rules2, cfg2, j)
  <1>1. Place(x) # "post" /\ ~(x.pc = "save" /\ x.then = "idle")
    BY DEF Adding, Place
  <1> QED
    BY <1>1 DEF Sole

Noting(d, id, body) == [d EXCEPT !.newIds = With(@, id, body)]
Proven(d, found) == [d EXCEPT !.phase = "active", !.applied = found]
Ended(d) == [d EXCEPT !.phase = "committed", !.pending = None]

LEMMA NotingIs ==
  ASSUME NEW C, NEW d \in JournalOf(C), NEW id \in Ids, NEW body \in Body
  PROVE  /\ Noting(d, id, body) \in JournalOf(C) /\ SameIntent(d, Noting(d, id, body))
         /\ Noting(d, id, body).schema = d.schema /\ Noting(d, id, body).phase = d.phase
         /\ Noting(d, id, body).newIds = With(d.newIds, id, body)
         /\ d.newIds \in Partial(Ids, Body)
  <1>1. d.newIds \in Partial(Ids, Body)
    BY DEF JournalOf
  <1> DEFINE new == With(d.newIds, id, body)
  <1>2. new \in Partial(Ids, Body)
    BY <1>1, NewIdsWithIs
  <1>3. Noting(d, id, body) = [d EXCEPT !.newIds = new]
    BY DEF Noting, JournalOf
  <1> HIDE DEF new
  <1>4. /\ Noting(d, id, body) \in JournalOf(C) /\ SameIntent(d, Noting(d, id, body))
        /\ Noting(d, id, body).schema = d.schema /\ Noting(d, id, body).phase = d.phase
        /\ Noting(d, id, body).newIds = new
    BY <1>2, <1>3 DEF JournalOf, SameIntent
  <1> QED
    BY <1>1, <1>4 DEF new

LEMMA ProvenIs ==
  ASSUME NEW C, NEW d \in JournalOf(C), NEW found \in C
  PROVE  /\ Proven(d, found) \in JournalOf(C) /\ SameIntent(d, Proven(d, found))
         /\ Proven(d, found).schema = d.schema /\ Proven(d, found).phase = "active"
         /\ Proven(d, found).newIds = d.newIds
  <1>1. /\ Proven(d, found) \in JournalOf(C) /\ Proven(d, found).schema = d.schema
        /\ Proven(d, found).phase = "active" /\ Proven(d, found).newIds = d.newIds
    BY DEF Proven, JournalOf
  <1>2. SameIntent(d, Proven(d, found))
    BY DEF Proven, JournalOf, SameIntent
  <1> QED
    BY <1>1, <1>2

LEMMA EndedIs ==
  ASSUME NEW C, NEW d \in JournalOf(C)
  PROVE  /\ Ended(d) \in JournalOf(C) /\ SameIntent(d, Ended(d))
         /\ Ended(d).schema = d.schema /\ Ended(d).phase = "committed"
         /\ Ended(d).newIds = d.newIds
  <1>1. /\ Ended(d) \in JournalOf(C) /\ Ended(d).schema = d.schema
        /\ Ended(d).phase = "committed" /\ Ended(d).newIds = d.newIds
    BY DEF Ended, JournalOf
  <1>2. SameIntent(d, Ended(d))
    BY DEF Ended, JournalOf, SameIntent
  <1> QED
    BY <1>1, <1>2

\* The configuration was found to be what was wanted.
LEMMA ProvedWorks ==
  ASSUME NEW C, NEW e, NEW r, NEW rules, NEW last, NEW j, AtWork(r, C, e, rules, last, j),
         r.pc \in {"readConfig", "readBack"}, NEW found \in C
  PROVE  Result(r, Proved(r, found), C, e, rules, last, j)
  <1> DEFINE d == r.doc
             n == Proven(d, found)
             x == Proved(r, found)
  <1>1. /\ HasDoc(r) /\ d \in JournalOf(C) /\ d.schema = 2 /\ r \in Session(C)
        /\ Place(r) = r.pc /\ Holds(r) = d
    BY AtWorkIs
  <1>2. \A body \in d.new : Noted(d, body)
    BY <1>1 DEF AtWork, Static, Progress, Finishing
  <1>3. /\ n \in JournalOf(C) /\ SameIntent(d, n) /\ n.newIds = d.newIds
        /\ n.schema = d.schema /\ n.phase = "active"
    BY <1>1, ProvenIs
  <1>4. x = Saving(r, n, "finalConfig")
    BY DEF Proved, Proven
  <1> HIDE DEF n, x
  <1>5. /\ Moves(r, x, C) /\ x.pc = "save" /\ x.next = n /\ x.then = "finalConfig"
        /\ x.todo = r.todo
    <2>1. "finalConfig" \in Places
      BY DEF Places, Working, Finishing
    <2> QED
      BY <1>1, <1>3, <1>4, <2>1, SavingIs
  <1>6. Place(x) = "finalConfig" /\ Holds(x) = n /\ n.new = d.new
    BY <1>3, <1>5, SameIntentIs DEF Place, Holds
  <1>7. \A b \in n.new : Noted(n, b)
    BY <1>2, <1>3, <1>6, SameNotes
  <1>8. Progress(x)
    BY <1>6, <1>7 DEF Progress, Retiring
  <1>9. Static(x, C, e) /\ Deep(x, rules, last, j)
    BY <1>1, <1>3, <1>5, <1>8, WorkSaves DEF Working, Finishing
  <1>10. \A cfg : Sole(r, rules, cfg, j) => Sole(x, rules, cfg, j)
    <2>1. x.doc = r.doc
      BY <1>5 DEF Moves
    <2> QED
      BY <1>1, <1>5, <1>6, <2>1 DEF Sole, Adding
  <1> QED
    BY <1>9, <1>10 DEF Result, x

\* A rule is created: the session is about to note its identifier.
LEMMA PostWorks ==
  ASSUME NEW C, NEW e, NEW r, NEW rules, NEW last \in 0..MaxId, NEW j,
         AtWork(r, C, e, rules, last, j), r.pc = "post", last < MaxId, NEW rules2,
         Grown(rules, last, rules2, r.doc.pending.body)
  PROVE  LET x == Saving(r, Noting(r.doc, last + 1, r.doc.pending.body), "added")
         IN  /\ Static(x, C, e) /\ Deep(x, rules2, last + 1, j)
             /\ \A cfg : Sole(r, rules, cfg, j) => Sole(x, rules2, cfg, j)
  <1> DEFINE d == r.doc
             body == d.pending.body
             n == Noting(d, last + 1, body)
             x == Saving(r, n, "added")
  <1>1. /\ HasDoc(r) /\ d \in JournalOf(C) /\ d.schema = 2 /\ r \in Session(C) /\ Sound(d)
        /\ Place(r) = "post" /\ Holds(r) = d /\ Agrees(d, rules, last, j)
        /\ d.phase # "committed"
    BY AtWorkIs
  <1>2. /\ r.todo \subseteq d.new /\ body \in d.new
        /\ \A b \in d.new \ (r.todo \cup {body}) : Noted(d, b)
    BY <1>1 DEF AtWork, Static, Progress
  <1>3. last + 1 \in Ids /\ body \in Body
    <2>1. d.new \subseteq Body
      BY <1>1 DEF JournalOf
    <2> QED
      BY <1>2, <2>1, ScopeAssumption DEF Ids
  <1>4. /\ n \in JournalOf(C) /\ SameIntent(d, n) /\ n.schema = 2 /\ n.phase = d.phase
        /\ n.newIds = With(d.newIds, last + 1, body) /\ d.newIds \in Partial(Ids, Body)
    BY <1>1, <1>3, NotingIs
  <1>5. /\ DOMAIN n.newIds = DOMAIN d.newIds \cup {last + 1} /\ n.newIds[last + 1] = body
        /\ \A id \in DOMAIN d.newIds : id # last + 1 => n.newIds[id] = d.newIds[id]
    <2> DEFINE old == d.newIds
               id == last + 1
               new == With(old, id, body)
    <2>1. old \in Partial(Ids, Body) /\ id \in Ids /\ body \in Body /\ n.newIds = new
      BY <1>3, <1>4
    <2> HIDE DEF old, body, id
    <2>2. /\ DOMAIN new = DOMAIN old \cup {id} /\ new[id] = body
          /\ \A i \in DOMAIN old : i # id => new[i] = old[i]
      BY <2>1, NewIdsWithIs
    <2> HIDE DEF new
    <2> QED
      BY <2>1, <2>2 DEF old, id
  <1>6. DOMAIN d.old \subseteq Int /\ DOMAIN d.newIds \subseteq Int /\ last \in Nat
    BY <1>1, JournalIds DEF Grown
  <1>7. last + 1 \notin DOMAIN d.old /\ last + 1 \notin DOMAIN d.newIds
    BY <1>1, <1>6 DEF Agrees, KnownBodies
  <1>8. n.old = d.old /\ n.new = d.new /\ n.unrelated = d.unrelated /\ n.targets = d.targets
    BY <1>4, SameIntentIs
  <1> HIDE DEF n
  <1>9. Sound(n)
    BY <1>1, <1>2, <1>5, <1>7, <1>8 DEF Sound
  <1>10. Agrees(n, rules2, last + 1, j)
    <2>1. Agrees(d, rules2, last + 1, j)
      BY <1>1, AgreesGrown
    <2>2. last + 1 \in DOMAIN rules2 /\ rules2[last + 1].body = body
      BY DEF Grown
    <2>3. KnownBodies(n.newIds, rules2, last + 1)
      BY <1>5, <1>6, <1>7, <2>1, <2>2 DEF Agrees, KnownBodies
    <2>4. NewPresent(d, rules2) => NewPresent(n, rules2)
      BY <1>5, <2>2 DEF NewPresent
    <2>5. Live(n, rules2) => Live(d, rules2)
      BY <1>8 DEF Live
    <2>6. SameIntent(j, d) => SameIntent(j, n)
      BY <1>8, <1>4, SameIntentIs
    <2> QED
      BY <1>8, <2>1, <2>3, <2>4, <2>5, <2>6 DEF Agrees
  <1> HIDE DEF x
  <1>11. /\ Moves(r, x, C) /\ x.pc = "save" /\ x.next = n /\ x.then = "added"
         /\ x.todo = r.todo
    <2>1. "added" \in Places
      BY DEF Places, Working, Adding
    <2> QED
      BY <1>1, <1>4, <2>1, SavingIs DEF x
  <1>12. Place(x) = "added" /\ Holds(x) = n
    BY <1>11 DEF Place, Holds
  <1>13. \A b \in n.new \ x.todo : Noted(n, b)
    BY <1>2, <1>5, <1>7, <1>8, <1>11 DEF Noted
  <1>14. Progress(x)
    BY <1>2, <1>8, <1>11, <1>12, <1>13 DEF Progress, Finishing, Retiring
  <1>15. Static(r, C, e) /\ Deep(r, rules2, last + 1, j) /\ r.pc \in Working
    BY DeepGrown DEF AtWork
  <1>16. Static(x, C, e) /\ Deep(x, rules2, last + 1, j)
    <2>1. x.then \in Working \ {"verify"} /\ n.phase # "committed"
      BY <1>1, <1>4, <1>11 DEF Working, Adding
    <2> QED
      BY <1>4, <1>9, <1>10, <1>11, <1>14, <1>15, <2>1, WorkingSaves
  <1>17. ASSUME NEW cfg, Sole(r, rules, cfg, j) PROVE Sole(x, rules2, cfg, j)
    <2>1. x.doc = r.doc
      BY <1>11 DEF Moves
    <2>2. \A b \in r.todo : Missing(b, rules) /\ b # body
      BY <1>1, <1>17 DEF Sole, Adding
    <2>3. \A b \in r.todo : Missing(b, rules2)
      BY <2>2 DEF Missing, Grown
    <2> QED
      BY <1>1, <1>11, <1>12, <1>17, <2>1, <2>3 DEF Sole
  <1> QED
    BY <1>16, <1>17 DEF x, n

LEMMA FinalWorks ==
  ASSUME NEW C, NEW e, NEW r, NEW rules, NEW last, NEW j, AtWork(r, C, e, rules, last, j),
         r.pc = "finalConfig", NEW cfg, HasIntent(cfg, r)
  PROVE  LET x == [r EXCEPT !.pc = "verify"]
         IN  /\ Static(x, C, e) /\ Deep(x, rules, last, j)
             /\ Sole(r, rules, cfg, j) => Sole(x, rules, cfg, j)
  <1> DEFINE d == r.doc
             x == Placed(r, "verify")
  <1>1. HasDoc(r) /\ r \in Session(C) /\ Place(r) = r.pc /\ Holds(r) = d
    BY AtWorkIs
  <1>2. "verify" \in Places /\ "verify" \in Working
    BY DEF Places, Working, Finishing
  <1>3. \A body \in d.new : Noted(d, body)
    BY <1>1 DEF AtWork, Static, Progress, Finishing
  <1> HIDE DEF x
  <1>4. Moves(r, x, C) /\ x.pc = "verify" /\ x.todo = r.todo /\ x.next = r.next /\ x.then = r.then
    BY <1>1, <1>2, PlainMovesIs DEF x
  <1>5. Place(x) = "verify" /\ Holds(x) = d
    BY <1>4 DEF Place, Holds, Moves
  <1>6. Progress(x)
    BY <1>3, <1>4, <1>5 DEF Progress, Retiring
  <1>7. Static(x, C, e) /\ Deep(x, rules, last, j)
    BY <1>2, <1>4, <1>6, WorkingMoves DEF AtWork
  <1>8. Sole(r, rules, cfg, j) => Sole(x, rules, cfg, j)
    BY <1>1, <1>4, <1>5 DEF Sole, Adding, HasIntent, Moves
  <1> QED
    BY <1>7, <1>8 DEF Placed, x

\* About to write the journal that ends a transaction.
LEMMA EndingSaves ==
  ASSUME NEW C, NEW e, NEW r, Static(r, C, e), NEW x, Moves(r, x, C),
         r.pc \in {"verify", "close"}, x.pc = "save", x.then = "idle",
         x.next \in JournalOf(C), SameIntent(r.doc, x.next), x.next.schema = r.doc.schema,
         x.next.phase = "committed", x.next.schema = 2 => Sound(x.next)
  PROVE  /\ Static(x, C, e)
         /\ \A rules, last, j :
              /\ Deep(r, rules, last, j) /\ Ending(x, rules, j)
              /\ x.next.schema = 2 => Agrees(x.next, rules, last, j)
              => Deep(x, rules, last, j)
  <1>1. r.pc # "save" /\ Place(r) = r.pc /\ Place(x) = "idle"
    BY DEF Place
  <1>2. HasDoc(r) /\ HasDoc(x)
    BY DEF HasDoc, Working, Finishing, Closing
  <1>3. SavingShape(x, C)
    BY DEF SavingShape, Moves
  <1>4. r.resumes => r.pc \in Working
    BY DEF Static, Shape, Working, Finishing
  <1>5. Shape(x, C, e)
    BY <1>1, <1>2, <1>3, <1>4 DEF Static, Shape, Moves, HasTwo, SavesTwo, Working, Adding, Finishing,
                                  Retiring, Closing
  <1>6. BaseFits(x) /\ Progress(x)
    BY <1>1 DEF BaseFits, Progress, Working, Adding, Finishing, Retiring
  <1>7. ASSUME NEW rules, NEW last, NEW j, Deep(r, rules, last, j), Ending(x, rules, j),
               x.next.schema = 2 => Agrees(x.next, rules, last, j)
        PROVE  Deep(x, rules, last, j)
    <2>1. HasTwo(x) => Agrees(x.doc, rules, last, j)
      BY <1>2, <1>7 DEF Deep, HasTwo, Moves
    <2>2. KnownRules(x.base, rules, last)
      BY <1>7 DEF Deep, Moves
    <2>3. UnderwayOne(j) => x.doc.schema = 1
      BY <1>2, <1>7 DEF Deep, Closing, Moves
    <2> QED
      BY <1>7, <2>1, <2>2, <2>3 DEF Deep, SavesTwo
  <1> QED
    BY <1>5, <1>6, <1>7 DEF Static, Moves

LEMMA VerifyWorks ==
  ASSUME NEW C, NEW e, NEW r, NEW rules, NEW last, NEW j, AtWork(r, C, e, rules, last, j),
         r.pc = "verify", Committable(r.doc, rules)
  PROVE  Result(r, Saving(r, Ended(r.doc), "idle"), C, e, rules, last, j)
  <1> DEFINE d == r.doc
             n == Ended(d)
             x == Saving(r, n, "idle")
  <1>1. /\ HasDoc(r) /\ d \in JournalOf(C) /\ d.schema = 2 /\ r \in Session(C) /\ Sound(d)
        /\ Valid(d) /\ Agrees(d, rules, last, j) /\ ~UnderwayOne(j)
        /\ r.pinned = d.pinned /\ r.targets = d.targets
    BY AtWorkIs
  <1>2. /\ n \in JournalOf(C) /\ SameIntent(d, n) /\ n.newIds = d.newIds
        /\ n.schema = d.schema /\ n.phase = "committed"
    BY <1>1, EndedIs
  <1>3. Sound(n) /\ Agrees(n, rules, last, j)
    BY <1>1, <1>2, SameNotes
  <1>4. n.old = d.old /\ n.pinned = d.pinned /\ n.targets = d.targets
    BY <1>2, SameIntentIs
  <1> HIDE DEF n, x
  <1>5. /\ Moves(r, x, C) /\ x.pc = "save" /\ x.next = n /\ x.then = "idle" /\ x.todo = r.todo
    <2>1. "idle" \in Places
      BY DEF Places
    <2> QED
      BY <1>1, <1>2, <2>1, SavingIs DEF x
  <1>6. \A id \in DOMAIN rules : rules[id].body \in Body
    BY DEF AtWork, Partial, Rule
  <1>7. NoLegacy(rules) /\ LegacyIds(rules) = {}
    BY DEF Committable, ToRetire, LegacyIds, NoLegacy
  <1>8. ~Live(n, rules)
    BY <1>1, <1>4 DEF Live, Committable, Valid
  <1>9. Ending(x, rules, j)
    BY <1>1, <1>5, <1>7, <1>8 DEF Ending
  <1>10. Static(x, C, e) /\ Deep(x, rules, last, j)
    BY <1>2, <1>3, <1>5, <1>9, EndingSaves DEF AtWork
  <1>11. {rules[id].body : id \in ManagedIds(rules)} = {Managed(a) : a \in d.targets}
    <2>1. ASSUME NEW id \in ManagedIds(rules)
          PROVE  rules[id].body.addr \in d.targets /\ rules[id].body = Managed(rules[id].body.addr)
      <3>1. id \in DOMAIN rules /\ rules[id].body.form = "managed"
        BY DEF ManagedIds
      <3>2. rules[id].body \in Body
        BY <1>6, <3>1
      <3>3. rules[id].body = Managed(rules[id].body.addr)
        BY <3>1, <3>2 DEF Body, Managed
      <3>4. rules[id].body.addr \in d.targets
        BY DEF Committable, ToRetire
      <3> QED
        BY <3>3, <3>4
    <2>2. ASSUME NEW a \in d.targets
          PROVE  \E id \in ManagedIds(rules) : rules[id].body = Managed(a)
      <3>1. Managed(a) \in Bodies(rules)
        BY DEF Committable, ToAdd
      <3>2. PICK id \in DOMAIN rules : rules[id].body = Managed(a)
        BY <3>1 DEF Bodies
      <3>3. id \in ManagedIds(rules)
        BY <3>2 DEF ManagedIds, Managed
      <3> QED
        BY <3>2, <3>3
    <2> QED
      BY <2>1, <2>2
  <1>12. ASSUME NEW cfg, Sole(r, rules, cfg, j) PROVE Sole(x, rules, cfg, j)
    <2>1. x.doc = d /\ j = d /\ HasIntent(cfg, r)
      BY <1>1, <1>5, <1>12 DEF Sole, Moves
    <2>2. Complete(n, rules, cfg)
      BY <1>1, <1>4, <1>7, <1>11, <2>1 DEF Complete, HasIntent
    <2> QED
      BY <1>5, <2>1, <2>2 DEF Sole, Place, Adding
  <1> QED
    BY <1>10, <1>12 DEF Result, x, n

\* What a session is about to delete is in the plan of the stored journal.
LEMMA DeleteIs ==
  ASSUME NEW C, NEW e, NEW r, NEW rules, NEW last, NEW j, AtWork(r, C, e, rules, last, j),
         r.pc = "delete", r.doc.pending.id \in DOMAIN rules
  PROVE  LET id == r.doc.pending.id
         IN  /\ id \in DOMAIN r.doc.old /\ r.doc.pending = PendingDelete(id, r.doc.old[id])
             /\ r.doc.old[id] = rules[id].body
             /\ Underway2(j) /\ SameIntent(j, r.doc) /\ NewPresent(r.doc, rules)
             /\ Removable(id, rules, j)
  <1> DEFINE d == r.doc
  <1>1. /\ Place(r) = "delete" /\ Holds(r) = d /\ Agrees(d, rules, last, j)
    BY AtWorkIs
  <1>2. PICK id \in DOMAIN d.old : d.pending = PendingDelete(id, d.old[id])
    BY <1>1 DEF AtWork, Static, Progress
  <1>3. d.pending.id = id
    BY <1>2 DEF PendingDelete
  <1>4. Live(d, rules) /\ d.old[id] = rules[id].body
    BY <1>1, <1>2, <1>3 DEF Live, Agrees, KnownBodies
  <1>5. Underway2(j) /\ SameIntent(j, d) /\ NewPresent(d, rules)
    BY <1>1, <1>4 DEF Agrees
  <1>6. j.old = d.old
    BY <1>5, SameIntentIs
  <1> QED
    BY <1>2, <1>3, <1>4, <1>5, <1>6 DEF Removable

-----------------------------------------------------------------------------
(***************************************************************************)
(* The steps of a session that writes the journal or has none yet.         *)
(***************************************************************************)

\* The places at which a session has no journal and nothing to keep.
Early == {"journal", "discover", "plan", "confirm", "prepare", "edit"}

LEMMA EarlyStatic ==
  ASSUME NEW C, NEW e, NEW x \in Session(C), x.pc \in Early, ~x.resumes, x.doc = None,
         x.next = None, x.then = "idle", x.cfg \in C, x.pc = "edit" => x.cfg.rest < e
  PROVE  Static(x, C, e) /\ ~HasDoc(x)
  <1>1. /\ ~HasDoc(x) /\ x.pc \notin Working /\ x.pc \notin Closing
        /\ x.pc \notin {"save", "close", "idle"} /\ Place(x) = x.pc
    BY DEF Early, HasDoc, Working, Adding, Finishing, Retiring, Closing, Place
  <1>2. Shape(x, C, e)
    BY <1>1 DEF Shape, HasTwo, SavesTwo
  <1>3. BaseFits(x) /\ Progress(x)
    BY <1>1 DEF BaseFits, Progress, Working, Adding, Finishing, Retiring
  <1> QED
    BY <1>1, <1>2, <1>3 DEF Static

LEMMA EarlyIs ==
  ASSUME NEW C, NEW e, NEW r, Static(r, C, e), r.pc \in Early, ~r.resumes
  PROVE  /\ r \in Session(C) /\ r.doc = None /\ r.next = None /\ r.then = "idle" /\ r.cfg \in C
         /\ r.pinned \in SUBSET Address /\ r.targets \in SUBSET Address
         /\ r.base \in Partial(Ids, Rule) /\ ~HasDoc(r)
  <1>1. ~HasDoc(r) /\ r.pc # "save" /\ r.pc # "idle"
    BY DEF Early, HasDoc, Working, Adding, Finishing, Retiring, Closing
  <1> QED
    BY <1>1 DEF Static, Shape, Session

LEMMA EarlySole ==
  ASSUME NEW x, ~HasDoc(x), x.pc \in Early, NEW rules, NEW cfg, NEW j
  PROVE  Sole(x, rules, cfg, j)
  BY DEF Early, Sole, Place, Adding

LEMMA EarlyDeep ==
  ASSUME NEW x, ~HasDoc(x), x.pc \in Early, NEW rules, NEW last, NEW j,
         KnownRules(x.base, rules, last),
         x.pc \in {"confirm", "prepare"} =>
           Underway(j) \/ NoLegacy(rules) \/ ManagedKept(x.base, rules),
         UnderwayOne(j) => x.pc \in {"journal", "edit"}
  PROVE  Deep(x, rules, last, j)
  BY DEF Early, Deep, HasTwo, SavesTwo

\* A session that is begun.
Begun(pc, cfg) == [Idle EXCEPT !.pc = pc, !.cfg = cfg]

LEMMA BegunIs ==
  ASSUME NEW C, NEW e, NEW cfg \in C, NEW pc \in {"journal", "edit"}, pc = "edit" => cfg.rest < e,
         NEW rules, NEW last, NEW j
  PROVE  /\ Static(Begun(pc, cfg), C, e) /\ Deep(Begun(pc, cfg), rules, last, j)
         /\ \A cfg2 : Sole(Begun(pc, cfg), rules, cfg2, j)
  <1> DEFINE x == Begun(pc, cfg)
  <1>1. <<>> \in Partial(Ids, Rule) /\ DOMAIN <<>> = {}
    BY EmptyIs
  <1>2. x \in Session(C) /\ x.pc = pc /\ x.cfg = cfg /\ x.doc = None /\ x.next = None
        /\ x.then = "idle" /\ ~x.resumes /\ x.base = <<>>
    BY <1>1 DEF Begun, Idle, Session, Places
  <1> HIDE DEF x
  <1>3. x.pc \in Early
    BY <1>2 DEF Early
  <1>4. Static(x, C, e) /\ ~HasDoc(x)
    BY <1>2, <1>3, EarlyStatic
  <1>5. KnownRules(x.base, rules, last)
    BY <1>1, <1>2 DEF KnownRules
  <1>6. Deep(x, rules, last, j)
    BY <1>2, <1>3, <1>4, <1>5, EarlyDeep
  <1> QED
    BY <1>3, <1>4, <1>6, EarlySole DEF x

LEMMA NoJournalWorks ==
  ASSUME NEW C, NEW e, NEW r, Static(r, C, e), NEW rules, NEW last, NEW j,
         Deep(r, rules, last, j), r.pc = "journal", ~Underway(j)
  PROVE  Result(r, [r EXCEPT !.pc = "discover"], C, e, rules, last, j)
  <1> DEFINE x == Placed(r, "discover")
  <1>1. r.pc \in Early /\ ~r.resumes /\ r.pc # "edit"
    BY DEF Static, Shape, Early, Working, Adding, Finishing, Retiring
  <1>2. r \in Session(C) /\ r.doc = None /\ r.next = None /\ r.then = "idle" /\ r.cfg \in C
    BY <1>1, EarlyIs
  <1>3. "discover" \in Places /\ "discover" \in Early
    BY DEF Places, Early
  <1>4. Moves(r, x, C) /\ x.pc = "discover" /\ x.next = r.next /\ x.then = r.then
    BY <1>2, <1>3, PlainMovesIs
  <1> HIDE DEF x
  <1>5. /\ x \in Session(C) /\ ~x.resumes /\ x.doc = None /\ x.cfg \in C /\ x.base = r.base
        /\ x.pc \in Early
    BY <1>1, <1>2, <1>3, <1>4 DEF Moves
  <1>6. Static(x, C, e) /\ ~HasDoc(x)
    BY <1>2, <1>4, <1>5, EarlyStatic
  <1>7. Deep(x, rules, last, j)
    BY <1>4, <1>5, <1>6, EarlyDeep DEF Deep, UnderwayOne
  <1> QED
    BY <1>5, <1>6, <1>7, EarlySole DEF Result, Placed, x

\* A transaction under way is resumed.
Taken(r, d) ==
  [r EXCEPT !.pc = "plan", !.doc = d, !.resumes = TRUE, !.pinned = d.pinned, !.targets = d.targets]

LEMMA ResumeWorks ==
  ASSUME NEW C, NEW e, NEW r, Static(r, C, e), NEW rules, NEW last, NEW j \in JournalOf(C),
         Deep(r, rules, last, j), r.pc = "journal", Underway2(j), Valid(j),
         JournalFits(j, rules, last)
  PROVE  Result(r, Taken(r, j), C, e, rules, last, j)
  <1> DEFINE x == Taken(r, j)
  <1>1. r.pc \in Early /\ ~r.resumes
    BY DEF Static, Shape, Early, Working, Adding, Finishing, Retiring
  <1>2. r \in Session(C) /\ r.next = None /\ r.then = "idle" /\ r.cfg \in C
    BY <1>1, EarlyIs
  <1>3. j.pinned \in SUBSET Address /\ j.targets \in SUBSET Address
    BY DEF JournalOf
  <1>4. /\ x \in Session(C) /\ x.pc = "plan" /\ x.doc = j /\ x.resumes /\ x.pinned = j.pinned
        /\ x.targets = j.targets /\ x.next = None /\ x.then = "idle" /\ x.cfg = r.cfg
        /\ x.base = r.base
    BY <1>2, <1>3 DEF Taken, Session, Places
  <1> HIDE DEF x
  <1>5. Sound(j) /\ Agrees(j, rules, last, j) /\ j.schema = 2 /\ j.phase # "committed"
    BY DEF JournalFits, Underway2, Underway
  <1>6. HasDoc(x) /\ HasTwo(x) /\ ~SavesTwo(x) /\ Place(x) = "plan"
    BY <1>4, <1>5 DEF HasDoc, HasTwo, SavesTwo, Place
  <1>7. Shape(x, C, e)
    BY <1>2, <1>4, <1>5, <1>6 DEF Shape, Closing
  <1>8. BaseFits(x) /\ Progress(x)
    BY <1>6 DEF BaseFits, Progress, Working, Adding, Finishing, Retiring
  <1>9. Static(x, C, e)
    BY <1>4, <1>7, <1>8 DEF Static
  <1>10. Deep(x, rules, last, j)
    BY <1>4, <1>5, <1>6 DEF Deep, UnderwayOne
  <1>11. \A cfg : Sole(x, rules, cfg, j)
    BY <1>4, <1>6 DEF Sole, Adding
  <1> QED
    BY <1>9, <1>10, <1>11 DEF Result, x

\* A transaction of schema 1 is to be closed.
Found(r, d) == [r EXCEPT !.pc = "closePlan", !.doc = d]

LEMMA FoundWorks ==
  ASSUME NEW C, NEW e, NEW r, Static(r, C, e), NEW rules, NEW last, NEW j \in JournalOf(C),
         Deep(r, rules, last, j), r.pc = "journal", UnderwayOne(j), Valid(j)
  PROVE  Result(r, Found(r, j), C, e, rules, last, j)
  <1> DEFINE x == Found(r, j)
  <1>1. r.pc \in Early /\ ~r.resumes
    BY DEF Static, Shape, Early, Working, Adding, Finishing, Retiring
  <1>2. r \in Session(C) /\ r.next = None /\ r.then = "idle" /\ r.cfg \in C
    BY <1>1, EarlyIs
  <1>3. /\ x \in Session(C) /\ x.pc = "closePlan" /\ x.doc = j /\ ~x.resumes
        /\ x.next = None /\ x.then = "idle" /\ x.cfg = r.cfg /\ x.base = r.base
    BY <1>1, <1>2 DEF Found, Session, Places, Closing
  <1> HIDE DEF x
  <1>4. j.schema = 1 /\ j.phase # "committed"
    BY DEF UnderwayOne, Underway
  <1>5. HasDoc(x) /\ ~HasTwo(x) /\ ~SavesTwo(x) /\ Place(x) = "closePlan"
    BY <1>3, <1>4 DEF HasDoc, HasTwo, SavesTwo, Place, Closing
  <1>6. x.pc \notin Working
    BY <1>3 DEF Working, Adding, Finishing, Retiring
  <1>7. Shape(x, C, e)
    BY <1>2, <1>3, <1>4, <1>5, <1>6 DEF Shape
  <1>8. BaseFits(x) /\ Progress(x)
    BY <1>5 DEF BaseFits, Progress, Working, Adding, Finishing, Retiring
  <1>9. Static(x, C, e)
    BY <1>3, <1>7, <1>8 DEF Static
  <1>10. Deep(x, rules, last, j)
    BY <1>3, <1>4, <1>5 DEF Deep, Closing
  <1>11. \A cfg : Sole(x, rules, cfg, j)
    BY <1>3, <1>5 DEF Sole, Adding
  <1> QED
    BY <1>9, <1>10, <1>11 DEF Result, x

\* What is to be kept and where the notifications go is decided.
Decided(r, pinned, targets) == [r EXCEPT !.pc = "plan", !.pinned = pinned, !.targets = targets]

LEMMA DecidedWorks ==
  ASSUME NEW C, NEW e, NEW r, Static(r, C, e), NEW rules, NEW last, NEW j,
         Deep(r, rules, last, j), r.pc = "discover",
         NEW pinned \in SUBSET Address, NEW targets \in SUBSET Address
  PROVE  Result(r, Decided(r, pinned, targets), C, e, rules, last, j)
  <1> DEFINE x == Decided(r, pinned, targets)
  <1>1. r.pc \in Early /\ ~r.resumes
    BY DEF Static, Shape, Early, Working, Adding, Finishing, Retiring
  <1>2. r \in Session(C) /\ r.doc = None /\ r.next = None /\ r.then = "idle" /\ r.cfg \in C
    BY <1>1, EarlyIs
  <1>3. /\ x \in Session(C) /\ x.pc = "plan" /\ x.doc = None /\ ~x.resumes
        /\ x.next = None /\ x.then = "idle" /\ x.cfg = r.cfg /\ x.base = r.base
    BY <1>1, <1>2 DEF Decided, Session, Places
  <1> HIDE DEF x
  <1>4. x.pc \in Early
    BY <1>3 DEF Early
  <1>5. Static(x, C, e) /\ ~HasDoc(x)
    BY <1>2, <1>3, <1>4, EarlyStatic
  <1>6. KnownRules(x.base, rules, last) /\ ~UnderwayOne(j)
    BY <1>3 DEF Deep, Closing
  <1>7. Deep(x, rules, last, j)
    BY <1>3, <1>4, <1>5, <1>6, EarlyDeep
  <1> QED
    BY <1>4, <1>5, <1>7, EarlySole DEF Result, x

\* The list the plan is made from.
Planned(r, pc, rules) == [r EXCEPT !.pc = pc, !.base = rules]

LEMMA PlannedIs ==
  ASSUME NEW C, NEW r \in Session(C), NEW pc \in Places, NEW rules \in Partial(Ids, Rule)
  PROVE  LET x == Planned(r, pc, rules)
         IN  /\ x \in Session(C) /\ x.pc = pc /\ x.base = rules
             /\ x.cfg = r.cfg /\ x.pinned = r.pinned /\ x.targets = r.targets /\ x.doc = r.doc
             /\ x.resumes = r.resumes /\ x.next = r.next /\ x.then = r.then
  BY DEF Planned, Session

LEMMA PlanWorks ==
  ASSUME NEW C, NEW e, NEW r, Static(r, C, e), NEW rules \in Partial(Ids, Rule), NEW last \in Nat,
         NEW j, Deep(r, rules, last, j), r.pc = "plan", DOMAIN rules \subseteq 1..last
  PROVE  Result(r, Planned(r, "confirm", rules), C, e, rules, last, j)
  <1> DEFINE x == Planned(r, "confirm", rules)
  <1>1. "confirm" \in Places /\ r \in Session(C)
    BY DEF Places, Static
  <1>2. /\ x \in Session(C) /\ x.pc = "confirm" /\ x.base = rules
        /\ x.cfg = r.cfg /\ x.pinned = r.pinned /\ x.targets = r.targets /\ x.doc = r.doc
        /\ x.resumes = r.resumes /\ x.next = r.next /\ x.then = r.then
    BY <1>1, PlannedIs
  <1> HIDE DEF x
  <1>3. Place(r) = "plan" /\ Place(x) = "confirm" /\ HasDoc(r) = r.resumes /\ HasDoc(x) = r.resumes
    BY <1>2 DEF Place, HasDoc, Working, Adding, Finishing, Retiring, Closing, Static, Session
  <1>4. Shape(x, C, e)
    BY <1>2, <1>3 DEF Static, Shape, HasTwo, SavesTwo, Working, Adding, Finishing, Retiring,
                      Closing
  <1>5. BaseFits(x) /\ Progress(x)
    BY <1>3 DEF BaseFits, Progress, Working, Adding, Finishing, Retiring
  <1>6. Static(x, C, e)
    BY <1>2, <1>4, <1>5 DEF Static
  <1>7. KnownRules(rules, rules, last) /\ ManagedKept(rules, rules)
    BY DEF KnownRules, ManagedKept
  <1>8. Deep(x, rules, last, j)
    BY <1>2, <1>3, <1>7 DEF Deep, HasTwo, SavesTwo, Closing
  <1>9. ASSUME NEW cfg, Sole(r, rules, cfg, j) PROVE Sole(x, rules, cfg, j)
    BY <1>2, <1>3, <1>9 DEF Sole, Adding
  <1> QED
    BY <1>6, <1>8, <1>9 DEF Result, x

\* A fresh transaction is agreed to.
LEMMA AgreedWorks ==
  ASSUME NEW C, NEW e, NEW r, Static(r, C, e), NEW rules, NEW last, NEW j,
         Deep(r, rules, last, j), r.pc = "confirm", ~r.resumes
  PROVE  Result(r, [r EXCEPT !.pc = "prepare"], C, e, rules, last, j)
  <1> DEFINE x == Placed(r, "prepare")
  <1>1. r.pc \in Early
    BY DEF Early
  <1>2. r \in Session(C) /\ r.doc = None /\ r.next = None /\ r.then = "idle" /\ r.cfg \in C
    BY <1>1, EarlyIs
  <1>3. "prepare" \in Places /\ "prepare" \in Early
    BY DEF Places, Early
  <1>4. Moves(r, x, C) /\ x.pc = "prepare" /\ x.next = r.next /\ x.then = r.then
    BY <1>2, <1>3, PlainMovesIs
  <1> HIDE DEF x
  <1>5. /\ x \in Session(C) /\ ~x.resumes /\ x.doc = None /\ x.cfg \in C /\ x.base = r.base
        /\ x.pc \in Early
    BY <1>1, <1>2, <1>3, <1>4 DEF Moves
  <1>6. Static(x, C, e) /\ ~HasDoc(x)
    BY <1>2, <1>4, <1>5, EarlyStatic
  <1>7. /\ KnownRules(x.base, rules, last) /\ ~UnderwayOne(j)
        /\ Underway(j) \/ NoLegacy(rules) \/ ManagedKept(x.base, rules)
    BY <1>5 DEF Deep, Closing
  <1>8. Deep(x, rules, last, j)
    BY <1>5, <1>6, <1>7, EarlyDeep
  <1> QED
    BY <1>5, <1>6, <1>8, EarlySole DEF Result, Placed, x

\* A transaction is resumed: its baseline is reconstructed from the list just read.
LEMMA UnderstoodWorks ==
  ASSUME NEW C, NEW e, NEW r, Static(r, C, e), NEW rules, NEW last, NEW j,
         Deep(r, rules, last, j), r.pc = "confirm", r.resumes, Authorised(r.doc, r.base)
  PROVE  Result(r, Planned(r, "scan", ResumedBaseline(r.doc, r.base)), C, e, rules, last, j)
  <1> DEFINE d == r.doc
             base == ResumedBaseline(d, r.base)
             x == Planned(r, "scan", base)
  <1>1. /\ HasDoc(r) /\ HasTwo(r) /\ d \in JournalOf(C) /\ Sound(d) /\ r \in Session(C)
        /\ r.base \in Partial(Ids, Rule) /\ d.schema = 2
    BY DEF Static, Shape, HasDoc, HasTwo, Session
  <1>2. /\ base \in Partial(Ids, Rule)
        /\ DOMAIN d.old \subseteq DOMAIN base
        /\ \A id \in DOMAIN base : base[id].body \notin d.new
        /\ \A id \in DOMAIN base : \/ id \in DOMAIN r.base /\ base[id] = r.base[id]
                                   \/ id \in DOMAIN d.old /\ base[id].body = d.old[id]
    BY <1>1, ResumedIs
  <1> HIDE DEF base
  <1>3. "scan" \in Places /\ "scan" \in Working
    BY DEF Places, Working
  <1>4. /\ x \in Session(C) /\ x.pc = "scan" /\ x.base = base
        /\ x.cfg = r.cfg /\ x.pinned = r.pinned /\ x.targets = r.targets /\ x.doc = d
        /\ x.resumes = r.resumes /\ x.next = r.next /\ x.then = r.then
    <2>1. r \in Session(C) /\ base \in Partial(Ids, Rule) /\ "scan" \in Places
      BY <1>1, <1>2, <1>3
    <2> QED
      BY <2>1 DEF Planned, Session
  <1> HIDE DEF x
  <1>5. HasDoc(x) /\ Place(x) = "scan" /\ Place(r) = "confirm"
    BY <1>3, <1>4 DEF HasDoc, Place
  <1>6. Shape(x, C, e)
    BY <1>1, <1>3, <1>4, <1>5 DEF Static, Shape, HasTwo, SavesTwo, Closing
  <1>7. BaseFits(x) /\ Progress(x)
    BY <1>2, <1>4, <1>5 DEF BaseFits, Progress, Finishing, Retiring
  <1>8. Static(x, C, e)
    BY <1>4, <1>6, <1>7 DEF Static
  <1>9. Agrees(d, rules, last, j) /\ KnownRules(r.base, rules, last) /\ ~UnderwayOne(j)
    BY <1>1 DEF Deep, Closing
  <1>10. KnownRules(base, rules, last)
    BY <1>2, <1>9 DEF KnownRules, KnownBodies, Agrees
  <1>11. Deep(x, rules, last, j)
    BY <1>4, <1>9, <1>10 DEF Deep, SavesTwo
  <1>12. ASSUME NEW cfg, Sole(r, rules, cfg, j) PROVE Sole(x, rules, cfg, j)
    BY <1>1, <1>4, <1>5, <1>12 DEF Sole, Adding
  <1> QED
    BY <1>8, <1>11, <1>12 DEF Result, x, base

\* A plan for which the journal d is on record is carried out.
Prepares(r, d) == [r EXCEPT !.pc = "scan", !.doc = d]

LEMMA PreparesStatic ==
  ASSUME NEW C, NEW e, NEW r, Static(r, C, e), r.pc = "prepare", ~r.resumes, Wanted(r) \in C,
         NEW d \in JournalOf(C), Valid(d), Sound(d), d.schema = 2, d.phase # "committed",
         SameIntent(d, PlanOf(r))
  PROVE  LET x == Prepares(r, d)
         IN  /\ Static(x, C, e) /\ x.doc = d /\ x.base = r.base /\ x.pc = "scan"
             /\ HasTwo(x) /\ ~SavesTwo(x) /\ Place(x) = "scan"
  <1> DEFINE x == Prepares(r, d)
             plan == PlanOf(r)
  <1>1. r.pc \in Early
    BY DEF Early
  <1>2. /\ r \in Session(C) /\ r.doc = None /\ r.next = None /\ r.then = "idle" /\ r.cfg \in C
        /\ r.base \in Partial(Ids, Rule)
    BY <1>1, EarlyIs
  <1>3. /\ DOMAIN plan.old = ToRetire(r.base, r.targets)
        /\ plan.new = {Managed(a) : a \in ToAdd(r.base, r.targets)}
        /\ plan.pinned = r.pinned /\ plan.targets = r.targets
        /\ ToRetire(r.base, r.targets) \subseteq DOMAIN r.base
    BY <1>2, PlanIs
  <1> HIDE DEF plan
  <1>4. d.old = plan.old /\ d.new = plan.new /\ d.pinned = plan.pinned /\ d.targets = plan.targets
    BY SameIntentIs DEF plan
  <1>5. "scan" \in Places /\ "scan" \in Working
    BY DEF Places, Working
  <1>6. /\ x \in Session(C) /\ x.pc = "scan" /\ x.base = r.base
        /\ x.cfg = r.cfg /\ x.pinned = r.pinned /\ x.targets = r.targets /\ x.doc = d
        /\ x.resumes = r.resumes /\ x.next = r.next /\ x.then = r.then
    BY <1>2, <1>5 DEF Prepares, Session
  <1> HIDE DEF x
  <1>7. HasDoc(x) /\ Place(x) = "scan" /\ ~SavesTwo(x) /\ HasTwo(x)
    BY <1>5, <1>6 DEF HasDoc, Place, SavesTwo, HasTwo
  <1>8. Shape(x, C, e)
    BY <1>2, <1>3, <1>4, <1>5, <1>6, <1>7 DEF Shape, Closing
  <1>9. \A id \in DOMAIN r.base : r.base[id].body \notin d.new
    BY <1>3, <1>4 DEF ToAdd, Bodies
  <1>10. BaseFits(x) /\ Progress(x)
    BY <1>3, <1>4, <1>6, <1>7, <1>9 DEF BaseFits, Progress, Finishing, Retiring
  <1> QED
    BY <1>6, <1>7, <1>8, <1>10 DEF Static, x

\* The journal found says the same.
LEMMA TakesOver ==
  ASSUME NEW C, NEW e, NEW r, Static(r, C, e), r.pc = "prepare", ~r.resumes, Wanted(r) \in C,
         NEW rules, NEW last, NEW j \in JournalOf(C), Deep(r, rules, last, j),
         Underway2(j), Valid(j), SameIntent(j, PlanOf(r)), JournalFits(j, rules, last)
  PROVE  LET x == Prepares(r, j)
         IN  /\ Static(x, C, e) /\ Deep(x, rules, last, j)
             /\ \A cfg : Sole(x, rules, cfg, j)
  <1> DEFINE x == Prepares(r, j)
  <1>1. Sound(j) /\ Agrees(j, rules, last, j) /\ j.schema = 2 /\ j.phase # "committed"
    BY DEF JournalFits, Underway2, Underway
  <1>2. /\ Static(x, C, e) /\ x.doc = j /\ x.base = r.base /\ x.pc = "scan"
        /\ HasTwo(x) /\ ~SavesTwo(x) /\ Place(x) = "scan"
    BY <1>1, PreparesStatic
  <1> HIDE DEF x
  <1>3. Deep(x, rules, last, j)
    BY <1>1, <1>2 DEF Deep, UnderwayOne
  <1>4. \A cfg : Sole(x, rules, cfg, j)
    BY <1>2 DEF Sole, Adding
  <1> QED
    BY <1>2, <1>3, <1>4 DEF x

\* The journal is begun.
LEMMA Begins ==
  ASSUME NEW C, NEW e, NEW r, Static(r, C, e), r.pc = "prepare", ~r.resumes, Wanted(r) \in C,
         NEW rules, NEW last, NEW j, Deep(r, rules, last, j), ~Underway(j), Valid(PlanOf(r)),
         C \subseteq [pinned : SUBSET Address, targets : SUBSET Address, rest : Nat]
  PROVE  LET d == PlanOf(r)
             x == Prepares(r, d)
         IN  /\ Static(x, C, e) /\ Deep(x, rules, last, d)
             /\ \A cfg : Sole(x, rules, cfg, d)
             /\ d \in JournalOf(C) /\ Underway2(d) /\ JournalFits(d, rules, last)
  <1> DEFINE d == PlanOf(r)
             x == Prepares(r, d)
  <1>1. r.pc \in Early
    BY DEF Early
  <1>2. r \in Session(C) /\ r.cfg \in C /\ r.base \in Partial(Ids, Rule)
    BY <1>1, EarlyIs
  <1>3. /\ d \in JournalOf(C) /\ d.schema = 2 /\ d.phase = "prepared" /\ DOMAIN d.newIds = {}
        /\ DOMAIN d.old = ToRetire(r.base, r.targets)
        /\ \A id \in DOMAIN d.old : d.old[id] = r.base[id].body
        /\ DOMAIN d.unrelated = DOMAIN r.base \ ToRetire(r.base, r.targets)
        /\ \A id \in DOMAIN d.unrelated : d.unrelated[id] = r.base[id]
        /\ ToRetire(r.base, r.targets) \subseteq DOMAIN r.base
    BY <1>2, PlanIs
  <1>4. Sound(d)
    BY <1>2, PlanIsSound
  <1>5. SameIntent(d, d)
    BY SameIntentIs
  <1>6. Underway2(d)
    BY <1>3, NoneIsNoJournal DEF Underway2, Underway
  <1>7. /\ Static(x, C, e) /\ x.doc = d /\ x.base = r.base /\ x.pc = "scan"
        /\ HasTwo(x) /\ ~SavesTwo(x) /\ Place(x) = "scan"
    BY <1>3, <1>4, <1>5, PreparesStatic
  <1>8. KnownRules(r.base, rules, last) /\ (NoLegacy(rules) \/ ManagedKept(r.base, rules))
    BY DEF Deep
  <1> HIDE DEF d, x
  <1>9. Agrees(d, rules, last, d)
    <2>1. KnownBodies(d.old, rules, last) /\ KnownBodies(d.newIds, rules, last)
      BY <1>3, <1>8 DEF KnownBodies, KnownRules
    <2>2. KnownRules(d.unrelated, rules, last)
      BY <1>3, <1>8 DEF KnownRules
    <2>3. NewPresent(d, rules)
      BY <1>3 DEF NewPresent
    <2> QED
      BY <1>5, <1>6, <2>1, <2>2, <2>3 DEF Agrees
  <1>10. NoLegacy(rules) \/ ManagedKept(d.unrelated, rules)
    BY <1>3, <1>8 DEF ManagedKept
  <1>11. JournalFits(d, rules, last)
    BY <1>4, <1>9, <1>10 DEF JournalFits
  <1>12. Deep(x, rules, last, d)
    BY <1>3, <1>7, <1>8, <1>9 DEF Deep, UnderwayOne
  <1>13. \A cfg : Sole(x, rules, cfg, d)
    BY <1>7 DEF Sole, Adding
  <1> QED
    BY <1>3, <1>6, <1>7, <1>11, <1>12, <1>13 DEF x, d

\* The journal of schema 1 can be closed, by what was read before the confirmation.
LEMMA ClosableWorks ==
  ASSUME NEW C, NEW e, NEW r, Static(r, C, e), NEW rules \in Partial(Ids, Rule), NEW last \in Nat,
         NEW j, Deep(r, rules, last, j), r.pc = "closePlan", DOMAIN rules \subseteq 1..last,
         NEW automatic, Closable(r.doc, rules, automatic)
  PROVE  Result(r, Planned(r, "close", rules), C, e, rules, last, j)
  <1> DEFINE d == r.doc
             x == Planned(r, "close", rules)
  <1>1. "close" \in Places /\ r \in Session(C)
    BY DEF Places, Closing, Static
  <1>2. /\ x \in Session(C) /\ x.pc = "close" /\ x.base = rules
        /\ x.cfg = r.cfg /\ x.pinned = r.pinned /\ x.targets = r.targets /\ x.doc = d
        /\ x.resumes = r.resumes /\ x.next = r.next /\ x.then = r.then
    BY <1>1, PlannedIs
  <1> HIDE DEF x
  <1>3. /\ Place(r) = "closePlan" /\ Place(x) = "close" /\ HasDoc(r) /\ HasDoc(x)
        /\ r.pc \notin Working /\ x.pc \notin Working
    BY <1>2 DEF Place, HasDoc, Working, Adding, Finishing, Retiring, Closing
  <1>4. \A body \in d.new : body.form = "managed" /\ \E id \in DOMAIN rules : rules[id].body = body
    BY DEF Closable, ToAdd, Bodies, Managed
  <1>5. r.doc.schema = 1
    BY DEF Static, Shape, Closing
  <1>6. Shape(x, C, e)
    BY <1>2, <1>3, <1>4, <1>5 DEF Static, Shape, HasTwo, SavesTwo
  <1>7. BaseFits(x) /\ Progress(x)
    BY <1>3 DEF BaseFits, Progress, Working, Adding, Finishing, Retiring
  <1>8. Static(x, C, e)
    BY <1>2, <1>6, <1>7 DEF Static
  <1>9. KnownRules(rules, rules, last)
    BY DEF KnownRules
  <1>10. Deep(x, rules, last, j)
    BY <1>2, <1>3, <1>5, <1>9 DEF Deep, HasTwo, SavesTwo, Closing
  <1>11. ASSUME NEW cfg, Sole(r, rules, cfg, j) PROVE Sole(x, rules, cfg, j)
    BY <1>2, <1>3, <1>11 DEF Sole, Adding
  <1> QED
    BY <1>8, <1>10, <1>11 DEF Result, x

LEMMA ClosedIs ==
  ASSUME NEW C, NEW d \in JournalOf(C)
  PROVE  /\ Closed(d) \in JournalOf(C) /\ SameIntent(d, Closed(d))
         /\ Closed(d).schema = d.schema /\ Closed(d).phase = "committed"
  <1>1. d.old \in Partial(Ids, Body)
    BY DEF JournalOf
  <1>2. DOMAIN d.old \in SUBSET Ids
    BY <1>1 DEF Partial
  <1>3. /\ Closed(d) \in JournalOf(C) /\ Closed(d).schema = d.schema
        /\ Closed(d).phase = "committed"
    BY <1>2 DEF Closed, JournalOf
  <1>4. SameIntent(d, Closed(d))
    BY DEF Closed, JournalOf, SameIntent
  <1> QED
    BY <1>3, <1>4

LEMMA CloseWorks ==
  ASSUME NEW C, NEW e, NEW r, Static(r, C, e), NEW rules, NEW last, NEW j,
         Deep(r, rules, last, j), r.pc = "close", rules = r.base
  PROVE  Result(r, Saving(r, Closed(r.doc), "idle"), C, e, rules, last, j)
  <1> DEFINE d == r.doc
             n == Closed(d)
             x == Saving(r, n, "idle")
  <1>1. /\ r \in Session(C) /\ d \in JournalOf(C) /\ d.schema = 1 /\ HasDoc(r)
        /\ \A body \in d.new :
             body.form = "managed" /\ \E id \in DOMAIN rules : rules[id].body = body
    BY DEF Static, Shape, HasDoc, Closing
  <1>2. /\ n \in JournalOf(C) /\ SameIntent(d, n) /\ n.schema = d.schema
        /\ n.phase = "committed"
    BY <1>1, ClosedIs
  <1>3. n.new = d.new
    BY <1>2, SameIntentIs
  <1> HIDE DEF n
  <1>4. /\ Moves(r, x, C) /\ x.pc = "save" /\ x.next = n /\ x.then = "idle" /\ x.todo = r.todo
    <2>1. "idle" \in Places
      BY DEF Places
    <2> QED
      BY <1>1, <1>2, <2>1, SavingIs
  <1> HIDE DEF x
  <1>5. Ending(x, rules, j)
    BY <1>1, <1>2, <1>3, <1>4 DEF Ending
  <1>6. Static(x, C, e) /\ Deep(x, rules, last, j)
    BY <1>1, <1>2, <1>4, <1>5, EndingSaves
  <1>7. ASSUME NEW cfg, Sole(r, rules, cfg, j) PROVE Sole(x, rules, cfg, j)
    BY <1>1, <1>2, <1>4, <1>7 DEF Sole, Place, Adding, Moves
  <1> QED
    BY <1>6, <1>7 DEF Result, x, n

\* The journal goes on as a session intended.
Saved(r) == [r EXCEPT !.pc = r.then, !.doc = r.next, !.next = None, !.then = "idle"]

Succeeds(j, j2, rules) ==
  j2 = j \/ Follows(j, j2, rules) \/ (UnderwayOne(j) /\ j2.phase = "committed")

LEMMA SaveIs ==
  ASSUME NEW C, NEW e, NEW r, Static(r, C, e), r.pc = "save", NEW rules, NEW last, NEW j,
         Deep(r, rules, last, j), j \in {r.doc, r.next}, JournalFits(j, rules, last),
         C \subseteq [pinned : SUBSET Address, targets : SUBSET Address, rest : Nat]
  PROVE  /\ r.next \in JournalOf(C) /\ Succeeds(j, r.next, rules)
         /\ JournalFits(r.next, rules, last)
  <1> DEFINE d == r.doc
             n == r.next
  <1>1. /\ HasDoc(r) /\ d \in JournalOf(C) /\ d.phase # "committed"
        /\ n \in JournalOf(C) /\ SameIntent(d, n) /\ n.schema = d.schema
        /\ n.phase = "committed" <=> r.then = "idle"
        /\ n.schema = 1 => r.then = "idle"
    BY DEF Static, Shape, SavingShape, HasDoc
  <1>2. None # d /\ None # n
    BY <1>1, NoneIsNoJournal
  <1>3. Underway(d)
    BY <1>1, <1>2 DEF Underway
  <1>4. n.schema \in {1, 2}
    BY <1>1 DEF JournalOf
  <1>5. CASE n.schema = 1
    <2>1. n.phase = "committed" /\ UnderwayOne(d)
      BY <1>1, <1>3, <1>5 DEF UnderwayOne
    <2>2. JournalFits(n, rules, last)
      BY <2>1 DEF JournalFits, Underway2, Underway
    <2> QED
      BY <1>1, <2>1, <2>2 DEF Succeeds
  <1>6. CASE n.schema = 2 /\ j = n
    BY <1>1, <1>6 DEF Succeeds
  <1>7. CASE n.schema = 2 /\ j = d
    <2>1. Underway2(d) /\ SavesTwo(r)
      BY <1>1, <1>3, <1>7 DEF Underway2, SavesTwo
    <2>2. n.phase = "committed" => ~Live(n, rules) /\ NoLegacy(rules)
      BY <1>1, <1>7 DEF Deep, Ending
    <2>3. Follows(j, n, rules)
      BY <1>1, <1>2, <1>7, <2>1, <2>2 DEF Follows
    <2>4. Sound(n) /\ Agrees(n, rules, last, j)
      BY <2>1 DEF Static, Shape, Deep
    <2>5. JournalFits(n, rules, last)
      BY <2>3, <2>4, JournalFollows
    <2> QED
      BY <1>1, <2>3, <2>5 DEF Succeeds
  <1> QED
    BY <1>4, <1>5, <1>6, <1>7

LEMMA DeepSucceeds ==
  ASSUME NEW r, NEW rules, NEW last, NEW j, NEW j2, Succeeds(j, j2, rules),
         Deep(r, rules, last, j)
  PROVE  Deep(r, rules, last, j2)
  <1>1. CASE j2 = j
    BY <1>1
  <1>2. CASE Follows(j, j2, rules)
    BY <1>2, DeepFollows
  <1>3. CASE UnderwayOne(j) /\ j2.phase = "committed"
    BY <1>3, DeepCloses
  <1> QED
    BY <1>1, <1>2, <1>3 DEF Succeeds

LEMMA SavedWorks ==
  ASSUME NEW C, NEW e, NEW r, Static(r, C, e), r.pc = "save", r.then # "idle", Valid(r.next),
         NEW rules, NEW last, NEW j, Deep(r, rules, last, j), Succeeds(j, r.next, rules)
  PROVE  LET x == Saved(r)
         IN  /\ Static(x, C, e) /\ Deep(x, rules, last, r.next)
             /\ \A cfg : Sole(r, rules, cfg, j) => Sole(x, rules, cfg, r.next)
  <1> DEFINE d == r.doc
             n == r.next
             x == Saved(r)
  <1>1. /\ HasDoc(r) /\ r \in Session(C) /\ d \in JournalOf(C)
        /\ n \in JournalOf(C) /\ SameIntent(d, n) /\ n.schema = d.schema
        /\ r.then \in Working \ {"verify"} /\ n.phase # "committed" /\ n.schema # 1
    BY DEF Static, Shape, SavingShape, HasDoc
  <1>2. n.schema = 2 /\ d.schema = 2
    BY <1>1 DEF JournalOf
  <1>3. HasTwo(r) /\ SavesTwo(r)
    BY <1>1, <1>2 DEF HasTwo, SavesTwo
  <1>4. /\ n.old = d.old /\ n.new = d.new /\ n.pinned = d.pinned /\ n.targets = d.targets
    BY <1>1, SameIntentIs
  <1>5. r.then \in Places /\ r.then # "save" /\ r.then # "idle" /\ r.then \notin Closing
        /\ r.then \notin {"edit", "close", "confirm", "prepare"}
    BY <1>1 DEF Places, Working, Adding, Finishing, Retiring, Closing
  <1>6. /\ x \in Session(C) /\ x.pc = r.then /\ x.doc = n /\ x.next = None /\ x.then = "idle"
        /\ x.cfg = r.cfg /\ x.pinned = r.pinned /\ x.targets = r.targets
        /\ x.resumes = r.resumes /\ x.base = r.base /\ x.todo = r.todo
    BY <1>1, <1>5 DEF Saved, Session, Places
  <1> HIDE DEF x
  <1>7. HasDoc(x) /\ HasTwo(x) /\ ~SavesTwo(x) /\ Place(x) = Place(r) /\ Holds(x) = Holds(r)
    BY <1>1, <1>2, <1>5, <1>6 DEF HasDoc, HasTwo, SavesTwo, Place, Holds
  <1>8. Sound(n)
    BY <1>3 DEF Static, Shape
  <1>9. Shape(x, C, e)
    BY <1>1, <1>2, <1>3, <1>4, <1>5, <1>6, <1>7, <1>8 DEF Static, Shape
  <1>10. BaseFits(x)
    BY <1>4, <1>6, <1>7 DEF Static, BaseFits
  <1>11. Progress(x)
    BY <1>6, <1>7 DEF Static, Progress
  <1>12. Static(x, C, e)
    BY <1>6, <1>9, <1>10, <1>11 DEF Static
  <1>13. Deep(r, rules, last, n)
    BY DeepSucceeds
  <1>14. Deep(x, rules, last, n)
    <2>1. Agrees(n, rules, last, n) /\ KnownRules(r.base, rules, last)
      BY <1>3, <1>13 DEF Deep
    <2>2. ~UnderwayOne(n)
      BY <1>2 DEF UnderwayOne
    <2> QED
      BY <1>5, <1>6, <1>7, <2>1, <2>2 DEF Deep
  <1>15. ASSUME NEW cfg, Sole(r, rules, cfg, j) PROVE Sole(x, rules, cfg, n)
    <2>1. x.pc # "verify" /\ x.pc # "save"
      BY <1>1, <1>5, <1>6
    <2> QED
      BY <1>6, <1>7, <1>15, <2>1 DEF Sole
  <1> QED
    BY <1>12, <1>14, <1>15 DEF x

-----------------------------------------------------------------------------
(***************************************************************************)
(* The actions: s does something, and what that means for the others.      *)
(***************************************************************************)
Server(rules, last, cfg, j, C) ==
  /\ rules \in Partial(Ids, Rule) /\ last \in 0..MaxId /\ DOMAIN rules \subseteq 1..last
  /\ cfg \in C /\ j \in JournalOf(C) \cup {None} /\ (j # None => Valid(j))

LEMMA JournalTyped ==
  ASSUME NEW C, NEW d \in JournalOf(C)
  PROVE  /\ d.schema \in {1, 2}
         /\ IsPartial(d.old, Ids, Body) /\ IsPartial(d.newIds, Ids, Body)
         /\ IsPartial(d.unrelated, Ids, Rule)
         /\ d.new \subseteq Body /\ d.retired \subseteq Ids /\ d.pending \in Pending \cup {None}
         /\ d.pinned \cup d.targets \subseteq Address
         /\ {d.before, d.expected, d.applied} \subseteq C \cup {None}
  <1>1. /\ d.schema \in {1, 2} /\ d.old \in Partial(Ids, Body) /\ d.newIds \in Partial(Ids, Body)
        /\ d.unrelated \in Partial(Ids, Rule)
        /\ d.new \subseteq Body /\ d.retired \subseteq Ids /\ d.pending \in Pending \cup {None}
        /\ d.pinned \cup d.targets \subseteq Address
        /\ {d.before, d.expected, d.applied} \subseteq C \cup {None}
    BY DEF JournalOf
  <1> QED
    BY <1>1, PartialIs

LEMMA ServerIs ==
  ASSUME IInv
  PROVE  /\ Server(filters, used, config, journal, Config) /\ DOMAIN session = Sessions
         /\ faults \in 0..world.faults /\ world.edits \in Nat /\ world.faults \in Nat
         /\ world \in Worlds
         /\ Config \subseteq [pinned : SUBSET Address, targets : SUBSET Address, rest : Nat]
         /\ JournalFits(journal, filters, used)
  <1>1. /\ Server(filters, used, config, journal, Config) /\ DOMAIN session = Sessions
        /\ faults \in 0..world.faults /\ world \in Worlds
    BY DEF IInv, Typed, TypeOK, Server
  <1>2. world.edits \in Nat /\ world.faults \in Nat
    BY <1>1, SyncAssumption DEF World
  <1>3. 0..world.edits \subseteq Nat
    BY <1>2
  <1>4. Config \subseteq [pinned : SUBSET Address, targets : SUBSET Address, rest : Nat]
    BY <1>3 DEF Config
  <1> QED
    BY <1>1, <1>2, <1>4 DEF IInv, JournalInv

LEMMA SessionIs ==
  ASSUME IInv, NEW t \in Sessions
  PROVE  /\ Static(session[t], Config, world.edits)
         /\ Deep(session[t], filters, used, journal)
         /\ world.kind # "shared" => Sole(session[t], filters, config, journal)
  BY DEF IInv, StaticInv, DeepInv, SoleInv

LEMMA AtWorkNow ==
  ASSUME IInv, NEW s \in Sessions, session[s].pc \in Working
  PROVE  AtWork(session[s], Config, world.edits, filters, used, journal)
  <1>1. used \in Nat
    BY ServerIs DEF Server
  <1> QED
    BY <1>1, ServerIs, SessionIs DEF AtWork, Server

\* s works alone, unless sessions overlap.
Turn(s) == world.kind # "shared" => Alone(s)

LEMMA TurnIs ==
  ASSUME IInv, NEW s \in Sessions, ~At(s, "idle")
  PROVE  Turn(s)
  BY DEF IInv, SoleInv, Turn

LEMMA TypedNext ==
  ASSUME IInv, world' = world, DOMAIN session' = Sessions, faults' \in 0..world.faults,
         Server(filters', used', config', journal', Config)
  PROVE  Typed'
  <1>1. world \in Worlds
    BY ServerIs
  <1>2. Config' = Config
    BY DEF Config
  <1>3. filters' \in Partial(Ids, Rule) /\ IsPartial(filters', Ids, Rule)
    BY PartialIs DEF Server
  <1>4. journal' \in JournalOf(Config) \cup {None} /\ (journal' # None => Valid(journal'))
    BY DEF Server
  <1>5. journal' # None => IsJournal(journal)'
    BY <1>2, <1>4, JournalTyped DEF IsJournal
  <1>6. TypeOK'
    BY <1>1, <1>2, <1>3, <1>4, <1>5 DEF TypeOK, Server
  <1> QED
    BY <1>2, <1>3, <1>4, <1>6 DEF Typed

LEMMA Composes ==
  ASSUME IInv, NEW s \in Sessions, Turn(s), NEW x, session' = [session EXCEPT ![s] = x],
         world' = world, faults' \in 0..world.faults,
         Server(filters', used', config', journal', Config),
         Static(x, Config, world.edits), Deep(x, filters', used', journal'),
         \A t \in Sessions \ {s} : Deep(session[t], filters', used', journal'),
         JournalFits(journal', filters', used'),
         world.kind # "shared" => Unambiguous(filters') /\ Sole(x, filters', config', journal')
  PROVE  IInv'
  <1>1. DOMAIN session = Sessions /\ world \in Worlds
    BY ServerIs
  <1>2. /\ DOMAIN session' = Sessions /\ session'[s] = x
        /\ \A t \in Sessions \ {s} : session'[t] = session[t]
    BY <1>1
  <1>3. Config' = Config
    BY DEF Config
  <1>4. Typed'
    BY <1>2, TypedNext
  <1>5. StaticInv'
    <2>1. ASSUME NEW t \in Sessions PROVE Static(session'[t], Config, world.edits)
      BY <1>2, SessionIs
    <2> QED
      BY <1>3, <2>1 DEF StaticInv
  <1>6. DeepInv'
    <2>1. ASSUME NEW t \in Sessions PROVE Deep(session'[t], filters', used', journal')
      BY <1>2
    <2> QED
      BY <2>1 DEF DeepInv
  <1>7. JournalInv'
    BY DEF JournalInv
  <1>8. SoleInv'
    <2> SUFFICES ASSUME world.kind # "shared" PROVE SoleInv'
      BY DEF SoleInv
    <2>1. \A t \in Sessions \ {s} : session[t].pc = "idle"
      BY DEF Turn, Alone, At
    <2>2. \A t \in Sessions : ~At(t, "idle")' => Alone(t)'
      BY <1>2, <2>1 DEF At, Alone
    <2>3. ASSUME NEW t \in Sessions PROVE Sole(session'[t], filters', config', journal')
      <3>1. CASE t = s
        BY <1>2, <3>1
      <3>2. CASE t # s
        BY <1>2, <2>1, <3>2, SessionIs, IdleSole
      <3> QED
        BY <3>1, <3>2
    <2> QED
      BY <2>2, <2>3 DEF SoleInv
  <1> QED
    BY <1>4, <1>5, <1>6, <1>7, <1>8 DEF IInv

\* Only the session changes.
LEMMA Quiet ==
  ASSUME IInv, NEW s \in Sessions, Turn(s), NEW x, session' = [session EXCEPT ![s] = x],
         UNCHANGED <<serverVars, world>>, faults' \in 0..world.faults,
         Static(x, Config, world.edits), Deep(x, filters, used, journal),
         world.kind # "shared" => Sole(x, filters, config, journal)
  PROVE  IInv'
  <1>1. filters' = filters /\ used' = used /\ config' = config /\ journal' = journal
    BY DEF serverVars
  <1>2. Server(filters, used, config, journal, Config) /\ JournalFits(journal, filters, used)
    BY ServerIs
  <1>3. \A t \in Sessions \ {s} : Deep(session[t], filters, used, journal)
    BY SessionIs
  <1>4. world.kind # "shared" => Unambiguous(filters)
    BY DEF IInv, SoleInv
  <1>5. world' = world
    OBVIOUS
  <1> QED
    BY <1>1, <1>2, <1>3, <1>4, <1>5, Composes

LEMMA QuietWork ==
  ASSUME IInv, NEW s \in Sessions, Turn(s), NEW x, session' = [session EXCEPT ![s] = x],
         UNCHANGED <<serverVars, faults, world>>,
         Result(session[s], x, Config, world.edits, filters, used, journal)
  PROVE  IInv'
  <1>1. faults' \in 0..world.faults
    BY ServerIs
  <1>2. /\ Static(x, Config, world.edits) /\ Deep(x, filters, used, journal)
        /\ world.kind # "shared" => Sole(x, filters, config, journal)
    BY SessionIs DEF Result
  <1>3. UNCHANGED <<serverVars, world>>
    OBVIOUS
  <1> QED
    BY <1>1, <1>2, <1>3, Quiet

LEMMA QuietStop ==
  ASSUME IInv, NEW s \in Sessions, ~At(s, "idle"), Stop(s),
         UNCHANGED <<serverVars, world>>, faults' \in 0..world.faults
  PROVE  IInv'
  <1>1. /\ Static(Idle, Config, world.edits) /\ Deep(Idle, filters, used, journal)
        /\ Sole(Idle, filters, config, journal)
    BY IdleIs
  <1>2. Turn(s)
    BY TurnIs
  <1> QED
    BY <1>1, <1>2, Quiet DEF Stop

LEMMA StopInv ==
  ASSUME IInv, NEW s \in Sessions, ~At(s, "idle"), Stop(s), UNCHANGED <<serverVars, faults, world>>
  PROVE  IInv'
  <1>1. faults' \in 0..world.faults
    BY ServerIs
  <1> QED
    BY <1>1, QuietStop

LEMMA StartInv ==
  ASSUME IInv, NEW s \in Sessions, Start(s) \/ StartEdit(s)
  PROVE  IInv'
  <1>1. Turn(s)
    BY DEF Start, StartEdit, Turn
  <1>2. config \in Config
    BY ServerIs DEF Server
  <1>3. PICK pc \in {"journal", "edit"} :
          /\ pc = "edit" => config.rest < world.edits
          /\ session' = [session EXCEPT ![s] = Begun(pc, config)]
    BY DEF Start, StartEdit, Become, Begun
  <1>4. /\ Static(Begun(pc, config), Config, world.edits)
        /\ Deep(Begun(pc, config), filters, used, journal)
        /\ Sole(Begun(pc, config), filters, config, journal)
    BY <1>2, <1>3, BegunIs
  <1>5. UNCHANGED <<serverVars, world>> /\ faults' \in 0..world.faults
    BY ServerIs DEF Start, StartEdit
  <1> QED
    BY <1>1, <1>3, <1>4, <1>5, Quiet

LEMMA ReadJournalInv ==
  ASSUME IInv, NEW s \in Sessions, ReadJournal(s)
  PROVE  IInv'
  <1> DEFINE r == session[s]
  <1>1. r.pc = "journal" /\ ~At(s, "idle") /\ Turn(s)
    BY TurnIs DEF ReadJournal, At
  <1>2. UNCHANGED <<serverVars, faults, world>>
    BY DEF ReadJournal
  <1>3. Static(r, Config, world.edits) /\ Deep(r, filters, used, journal)
    BY SessionIs
  <1>4. DOMAIN session = Sessions /\ JournalFits(journal, filters, used)
    BY ServerIs
  <1>5. Underway(journal) => journal \in JournalOf(Config) /\ Valid(journal)
    BY ServerIs DEF Server, Underway
  <1>6. CASE ~Underway(journal) /\ Goto(s, "discover")
    <2>1. Result(r, [r EXCEPT !.pc = "discover"], Config, world.edits, filters, used, journal)
      BY <1>1, <1>3, <1>6, NoJournalWorks
    <2>2. session' = [session EXCEPT ![s] = [r EXCEPT !.pc = "discover"]]
      BY <1>6 DEF Goto
    <2> QED
      BY <1>1, <1>2, <2>1, <2>2, QuietWork
  <1>7. CASE /\ Underway2(journal)
             /\ session' = [session EXCEPT ![s].pc = "plan", ![s].doc = journal,
                                           ![s].resumes = TRUE,
                                           ![s].pinned = journal.pinned,
                                           ![s].targets = journal.targets]
    <2>1. Result(r, Taken(r, journal), Config, world.edits, filters, used, journal)
      BY <1>1, <1>3, <1>4, <1>5, <1>7, ResumeWorks DEF Underway2
    <2>2. session' = [session EXCEPT ![s] = Taken(r, journal)]
      BY <1>4, <1>7 DEF Taken
    <2> QED
      BY <1>1, <1>2, <2>1, <2>2, QuietWork
  <1>8. CASE /\ UnderwayOne(journal)
             /\ session' = [session EXCEPT ![s].pc = "closePlan", ![s].doc = journal]
    <2>1. Result(r, Found(r, journal), Config, world.edits, filters, used, journal)
      BY <1>1, <1>3, <1>5, <1>8, FoundWorks DEF UnderwayOne
    <2>2. session' = [session EXCEPT ![s] = Found(r, journal)]
      BY <1>4, <1>8 DEF Found
    <2> QED
      BY <1>1, <1>2, <2>1, <2>2, QuietWork
  <1>9. CASE Stop(s)
    BY <1>1, <1>2, <1>9, StopInv
  <1> QED
    BY <1>6, <1>7, <1>8, <1>9 DEF ReadJournal, UnderwayOne

LEMMA DiscoverInv ==
  ASSUME IInv, NEW s \in Sessions, Discover(s)
  PROVE  IInv'
  <1> DEFINE r == session[s]
  <1>1. r.pc = "discover" /\ Turn(s)
    BY TurnIs DEF Discover, At
  <1>2. UNCHANGED <<serverVars, faults, world>>
    BY DEF Discover
  <1>3. Static(r, Config, world.edits) /\ Deep(r, filters, used, journal)
    BY SessionIs
  <1>4. DOMAIN session = Sessions /\ world \in Worlds
    BY ServerIs
  <1>5. world.addresses \subseteq Address
    BY <1>4, SyncAssumption DEF World
  <1>6. PICK pinned \in SUBSET Address, targets \in SUBSET Address :
          session' = [session EXCEPT ![s].pc = "plan", ![s].pinned = pinned, ![s].targets = targets]
    BY <1>5 DEF Discover
  <1>7. session' = [session EXCEPT ![s] = Decided(r, pinned, targets)]
    BY <1>4, <1>6 DEF Decided
  <1>8. Result(r, Decided(r, pinned, targets), Config, world.edits, filters, used, journal)
    BY <1>1, <1>3, DecidedWorks
  <1> QED
    BY <1>1, <1>2, <1>7, <1>8, QuietWork

LEMMA PlanInv ==
  ASSUME IInv, NEW s \in Sessions, Plan(s)
  PROVE  IInv'
  <1> DEFINE r == session[s]
  <1>1. r.pc = "plan" /\ ~At(s, "idle") /\ Turn(s)
    BY TurnIs DEF Plan, At
  <1>2. UNCHANGED <<serverVars, faults, world>>
    BY DEF Plan
  <1>3. CASE session' = [session EXCEPT ![s].pc = "confirm", ![s].base = filters]
    <2>1. DOMAIN session = Sessions /\ filters \in Partial(Ids, Rule) /\ DOMAIN filters \subseteq 1..used
          /\ used \in Nat
      BY ServerIs DEF Server
    <2>2. session' = [session EXCEPT ![s] = Planned(r, "confirm", filters)]
      BY <1>3, <2>1 DEF Planned
    <2>3. Result(r, Planned(r, "confirm", filters), Config, world.edits, filters, used, journal)
      BY <1>1, <2>1, SessionIs, PlanWorks
    <2> QED
      BY <1>1, <1>2, <2>2, <2>3, QuietWork
  <1>4. CASE Stop(s)
    BY <1>1, <1>2, <1>4, StopInv
  <1> QED
    BY <1>3, <1>4 DEF Plan

LEMMA ConfirmInv ==
  ASSUME IInv, NEW s \in Sessions, Confirm(s)
  PROVE  IInv'
  <1> DEFINE r == session[s]
  <1>1. r.pc = "confirm" /\ ~At(s, "idle") /\ Turn(s)
    BY TurnIs DEF Confirm, At
  <1>2. UNCHANGED <<serverVars, faults, world>>
    BY DEF Confirm
  <1>3. Static(r, Config, world.edits) /\ Deep(r, filters, used, journal)
    BY SessionIs
  <1>4. CASE ~r.resumes /\ Goto(s, "prepare")
    <2>1. session' = [session EXCEPT ![s] = [r EXCEPT !.pc = "prepare"]]
      BY <1>4 DEF Goto
    <2>2. Result(r, [r EXCEPT !.pc = "prepare"], Config, world.edits, filters, used, journal)
      BY <1>1, <1>3, <1>4, AgreedWorks
    <2> QED
      BY <1>1, <1>2, <2>1, <2>2, QuietWork
  <1>5. CASE /\ r.resumes /\ Authorised(r.doc, r.base)
             /\ Become(s, [r EXCEPT !.pc = "scan", !.base = ResumedBaseline(r.doc, @)])
    <2> DEFINE x == Planned(r, "scan", ResumedBaseline(r.doc, r.base))
    <2>1. session' = [session EXCEPT ![s] = x]
      <3>1. r \in Session(Config)
        BY <1>3 DEF Static
      <3> QED
        BY <1>5, <3>1 DEF Become, Planned, Session
    <2>2. Result(r, x, Config, world.edits, filters, used, journal)
      BY <1>1, <1>3, <1>5, UnderstoodWorks
    <2> QED
      BY <1>1, <1>2, <2>1, <2>2, QuietWork
  <1>6. CASE Stop(s)
    BY <1>1, <1>2, <1>6, StopInv
  <1> QED
    BY <1>4, <1>5, <1>6 DEF Confirm, Understood

LEMMA WantedIs ==
  ASSUME IInv, NEW s \in Sessions, session[s].cfg \in Config
  PROVE  Wanted(session[s]) \in Config
  <1>1. session[s].pinned \in SUBSET Address /\ session[s].targets \in SUBSET Address
    BY SessionIs DEF Static, Session
  <1> QED
    BY <1>1 DEF Wanted, Config

LEMMA PrepareInv ==
  ASSUME IInv, NEW s \in Sessions, Prepare(s)
  PROVE  IInv'
  <1> DEFINE r == session[s]
             doc == PlanOf(r)
  <1>1. r.pc = "prepare" /\ ~At(s, "idle") /\ Turn(s)
    BY TurnIs DEF Prepare, At
  <1>2. UNCHANGED <<filters, used, config, faults, world>>
    BY DEF Prepare
  <1>3. Static(r, Config, world.edits) /\ Deep(r, filters, used, journal)
    BY SessionIs
  <1>4. ~r.resumes /\ Wanted(r) \in Config
    <2>1. ~r.resumes /\ r.cfg \in Config
      BY <1>1, <1>3 DEF Static, Shape, Working, Adding, Finishing, Retiring
    <2> QED
      BY <2>1, WantedIs
  <1>5. /\ Server(filters, used, config, journal, Config) /\ faults \in 0..world.faults
        /\ Config \subseteq [pinned : SUBSET Address, targets : SUBSET Address, rest : Nat]
        /\ JournalFits(journal, filters, used)
    BY ServerIs
  <1>6. CASE /\ Underway(journal) /\ journal.schema = 2 /\ SameIntent(journal, doc)
             /\ journal' = journal /\ Become(s, [r EXCEPT !.pc = "scan", !.doc = journal])
    <2> DEFINE x == Prepares(r, journal)
    <2>1. Underway2(journal) /\ journal \in JournalOf(Config) /\ Valid(journal)
      BY <1>5, <1>6 DEF Underway2, Underway, Server
    <2>2. /\ Static(x, Config, world.edits) /\ Deep(x, filters, used, journal)
          /\ \A cfg : Sole(x, filters, cfg, journal)
      BY <1>1, <1>3, <1>4, <1>5, <1>6, <2>1, TakesOver
    <2>3. session' = [session EXCEPT ![s] = x]
      BY <1>6 DEF Become, Prepares
    <2>4. UNCHANGED <<serverVars, world>> /\ faults' \in 0..world.faults
      BY <1>2, <1>5, <1>6 DEF serverVars
    <2> QED
      BY <1>1, <2>2, <2>3, <2>4, Quiet
  <1>7. CASE /\ ~Underway(journal) /\ Valid(doc)
             /\ journal' = doc /\ Become(s, [r EXCEPT !.pc = "scan", !.doc = doc])
    <2> DEFINE x == Prepares(r, doc)
    <2>1. /\ Static(x, Config, world.edits) /\ Deep(x, filters, used, doc)
          /\ \A cfg : Sole(x, filters, cfg, doc)
          /\ doc \in JournalOf(Config) /\ Underway2(doc) /\ JournalFits(doc, filters, used)
      BY <1>1, <1>3, <1>4, <1>5, <1>7, Begins
    <2>2. session' = [session EXCEPT ![s] = x]
      BY <1>7 DEF Become, Prepares
    <2>3. \A t \in Sessions \ {s} : Deep(session[t], filters, used, doc)
      BY <1>7, <2>1, SessionIs, DeepBegins
    <2>4. world.kind # "shared" => Unambiguous(filters) /\ Sole(x, filters, config, doc)
      BY <2>1 DEF IInv, SoleInv
    <2>5. Server(filters, used, config, doc, Config)
      BY <1>5, <1>7, <2>1 DEF Server
    <2> HIDE DEF x, doc
    <2>6. filters' = filters /\ used' = used /\ config' = config /\ world' = world
          /\ faults' \in 0..world.faults /\ journal' = doc
      BY <1>2, <1>5, <1>7
    <2> QED
      BY <1>1, <2>1, <2>2, <2>3, <2>4, <2>5, <2>6, Composes
  <1>8. CASE Stop(s) /\ UNCHANGED journal
    <2>1. UNCHANGED <<serverVars, faults, world>>
      BY <1>2, <1>8 DEF serverVars
    <2> QED
      BY <1>1, <1>8, <2>1, StopInv
  <1> QED
    BY <1>6, <1>7, <1>8 DEF Prepare

LEMMA SaveInv ==
  ASSUME IInv, NEW s \in Sessions, Save(s)
  PROVE  IInv'
  <1> DEFINE r == session[s]
             n == r.next
  <1>1. r.pc = "save" /\ ~At(s, "idle") /\ Turn(s)
    BY TurnIs DEF Save, At
  <1>2. UNCHANGED <<filters, used, config, faults, world>>
    BY DEF Save
  <1>3. Static(r, Config, world.edits) /\ Deep(r, filters, used, journal)
    BY SessionIs
  <1>4. /\ Server(filters, used, config, journal, Config) /\ faults \in 0..world.faults
        /\ Config \subseteq [pinned : SUBSET Address, targets : SUBSET Address, rest : Nat]
        /\ JournalFits(journal, filters, used)
    BY ServerIs
  <1>5. CASE Valid(n) /\ Swappable(s) /\ journal' = n
    <2> DEFINE x == IF r.then = "idle" THEN Idle ELSE Saved(r)
    <2>1. journal \in {r.doc, r.next}
      BY <1>5 DEF Swappable
    <2>2. n \in JournalOf(Config) /\ Succeeds(journal, n, filters) /\ JournalFits(n, filters, used)
      BY <1>1, <1>3, <1>4, <2>1, SaveIs
    <2>3. session' = [session EXCEPT ![s] = x]
      BY <1>5 DEF Save, Become, Saved
    <2>4. /\ Static(x, Config, world.edits) /\ Deep(x, filters, used, n)
          /\ world.kind # "shared" => Sole(x, filters, config, n)
      <3>1. CASE r.then = "idle"
        BY <3>1, IdleIs
      <3>2. CASE r.then # "idle"
        <4>1. /\ Static(Saved(r), Config, world.edits) /\ Deep(Saved(r), filters, used, n)
              /\ Sole(r, filters, config, journal) => Sole(Saved(r), filters, config, n)
          BY <1>1, <1>3, <1>5, <2>2, <3>2, SavedWorks
        <4> QED
          BY <3>2, <4>1, SessionIs
      <3> QED
        BY <3>1, <3>2
    <2>5. \A t \in Sessions \ {s} : Deep(session[t], filters, used, n)
      BY <2>2, SessionIs, DeepSucceeds
    <2>6. world.kind # "shared" => Unambiguous(filters)
      BY DEF IInv, SoleInv
    <2>7. Server(filters, used, config, n, Config)
      BY <1>4, <1>5, <2>2 DEF Server
    <2> HIDE DEF x, n
    <2>8. filters' = filters /\ used' = used /\ config' = config /\ world' = world
          /\ faults' \in 0..world.faults /\ journal' = n
      BY <1>2, <1>4, <1>5
    <2> QED
      BY <1>1, <2>2, <2>3, <2>4, <2>5, <2>6, <2>7, <2>8, Composes
  <1>6. CASE Stop(s) /\ UNCHANGED journal
    <2>1. UNCHANGED <<serverVars, faults, world>>
      BY <1>2, <1>6 DEF serverVars
    <2> QED
      BY <1>1, <1>6, <2>1, StopInv
  <1> QED
    BY <1>5, <1>6 DEF Save

\* One audited reading.
LEMMA AuditInv ==
  ASSUME IInv, NEW s \in Sessions, NEW pc \in Reading, NEW Rs, Audit(s, pc, Rs),
         \A x \in Rs : Undisturbed(session[s].doc, session[s].base, filters) =>
           Result(session[s], x, Config, world.edits, filters, used, journal)
  PROVE  IInv'
  <1> DEFINE r == session[s]
  <1>1. r.pc = pc /\ ~At(s, "idle") /\ Turn(s)
    BY TurnIs DEF Audit, At, Reading
  <1>2. UNCHANGED <<serverVars, faults, world>>
    BY DEF Audit
  <1>3. Static(r, Config, world.edits) /\ Deep(r, filters, used, journal)
    BY SessionIs
  <1>4. filters \in Partial(Ids, Rule) /\ DOMAIN filters \subseteq 1..used /\ used \in Nat
    BY ServerIs DEF Server
  <1>5. CASE /\ HasNews(r.doc, r.base, filters)
             /\ Become(s, Saving(r, News(r.doc, r.base, filters), pc))
    <2> DEFINE x == Saving(r, News(r.doc, r.base, filters), r.pc)
    <2>1. Result(r, x, Config, world.edits, filters, used, journal)
      BY <1>1, <1>3, <1>4, <1>5, AuditSaves DEF Result
    <2>2. session' = [session EXCEPT ![s] = x]
      BY <1>1, <1>5 DEF Become
    <2> QED
      BY <1>1, <1>2, <2>1, <2>2, QuietWork
  <1>6. CASE Undisturbed(r.doc, r.base, filters) /\ \E next \in Rs : Become(s, next)
    <2>1. PICK x \in Rs : session' = [session EXCEPT ![s] = x]
      BY <1>6 DEF Become
    <2>2. Result(r, x, Config, world.edits, filters, used, journal)
      BY <1>6
    <2> QED
      BY <1>1, <1>2, <2>1, <2>2, QuietWork
  <1>7. CASE Stop(s)
    BY <1>1, <1>2, <1>7, StopInv
  <1> QED
    BY <1>5, <1>6, <1>7 DEF Audit

\* Working alone on one reading after the other.
LEMMA ReadingsInv ==
  ASSUME IInv, NEW s \in Sessions,
         Scan(s) \/ Add(s) \/ Added(s) \/ ScanOld(s) \/ Retire(s) \/ RetireEnds(s) \/ ScanAll(s)
  PROVE  IInv'
  <1> DEFINE r == session[s]
             W(x) == Result(r, x, Config, world.edits, filters, used, journal)
             Works(Rs) == \A x \in Rs : Undisturbed(r.doc, r.base, filters) => W(x)
  <1>1. r.pc \in Working => AtWork(r, Config, world.edits, filters, used, journal)
    BY AtWorkNow
  <1>2. ASSUME NEW pc \in Reading, NEW Rs, Audit(s, pc, Rs), Works(Rs)
        PROVE  IInv'
    BY <1>2, AuditInv
  <1>3. CASE Scan(s)
    <2> DEFINE missing == r.doc.new \ OwnBodies(r, filters)
               x == [r EXCEPT !.pc = IF missing = {} THEN "scanOld" ELSE "add", !.todo = missing]
    <2>1. Audit(s, "scan", {x}) /\ r.pc = "scan" /\ "scan" \in Working
      BY <1>3 DEF Scan, Audit, At, Working
    <2>2. Undisturbed(r.doc, r.base, filters) => W(x)
      BY <1>1, <2>1, ScanWorks
    <2>3. Works({x}) /\ "scan" \in Reading
      BY <2>2 DEF Reading
    <2> HIDE DEF x
    <2> QED
      BY <1>2, <2>1, <2>3
  <1>4. CASE Add(s)
    <2> DEFINE Rs == {MarkAdd([r EXCEPT !.todo = @ \ {body}], body) : body \in r.todo}
    <2>1. Audit(s, "add", Rs) /\ r.pc = "add" /\ "add" \in Working
      BY <1>4 DEF Add, Audit, At, Working, Adding
    <2>2. \A body \in r.todo : W(MarkAdd([r EXCEPT !.todo = @ \ {body}], body))
      BY <1>1, <2>1, AddWorks
    <2>3. Works(Rs) /\ "add" \in Reading
      BY <2>2 DEF Reading
    <2> QED
      BY <1>2, <2>1, <2>3
  <1>5. CASE Added(s)
    <2> DEFINE x == Unmark(r, IF r.todo = {} THEN "scanOld" ELSE "add")
    <2>1. Audit(s, "added", {x}) /\ r.pc = "added" /\ "added" \in Working
      BY <1>5 DEF Added, Audit, At, Working, Adding
    <2>2. W(x)
      BY <1>1, <2>1, AddedWorks
    <2>3. Works({x}) /\ "added" \in Reading
      BY <2>2 DEF Reading
    <2> QED
      BY <1>2, <2>1, <2>3
  <1>6. CASE ScanOld(s)
    <2> DEFINE present == DOMAIN r.doc.old \cap DOMAIN filters
               x == [r EXCEPT !.pc = IF present = {} THEN "scanAll" ELSE "retire",
                              !.todo = present]
    <2>1. Audit(s, "scanOld", {x}) /\ r.pc = "scanOld" /\ "scanOld" \in Working
      BY <1>6 DEF ScanOld, Audit, At, Working, Finishing
    <2>2. W(x)
      BY <1>1, <2>1, ScanOldWorks
    <2>3. Works({x}) /\ "scanOld" \in Reading
      BY <2>2 DEF Reading
    <2> HIDE DEF x
    <2> QED
      BY <1>2, <2>1, <2>3
  <1>7. CASE Retire(s)
    <2> DEFINE Rs == {MarkDelete([r EXCEPT !.todo = @ \ {id}], id) : id \in r.todo}
    <2>1. Audit(s, "retire", Rs) /\ r.pc = "retire" /\ "retire" \in Working
      BY <1>7 DEF Retire, Audit, At, Working, Finishing, Retiring
    <2>2. \A id \in r.todo : W(MarkDelete([r EXCEPT !.todo = @ \ {id}], id))
      BY <1>1, <2>1, RetireWorks
    <2>3. Works(Rs) /\ "retire" \in Reading
      BY <2>2 DEF Reading
    <2> QED
      BY <1>2, <2>1, <2>3
  <1>8. CASE RetireEnds(s)
    <2> DEFINE pc == IF r.todo = {} THEN "scanAll" ELSE "retire"
               x == [r EXCEPT !.pc = pc]
    <2>1. Audit(s, "retired", {x}) /\ r.pc = "retired" /\ "retired" \in Retiring
      BY <1>8 DEF RetireEnds, Audit, At, Retiring
    <2>2. pc \in Finishing \ {"delete", "verify"} /\ r.pc \in Finishing /\ r.pc \in Working
      BY <2>1 DEF Finishing, Retiring, Working
    <2> HIDE DEF pc
    <2>3. W(x)
      BY <1>1, <2>1, <2>2, WorkGoesOn
    <2>4. Works({x}) /\ "retired" \in Reading
      BY <2>3 DEF Reading
    <2> QED
      BY <1>2, <2>1, <2>4
  <1>9. CASE ScanAll(s)
    <2> DEFINE x == [r EXCEPT !.pc = "readConfig"]
    <2>1. Audit(s, "scanAll", {x}) /\ r.pc = "scanAll"
      BY <1>9 DEF ScanAll, Audit, At
    <2>2. /\ "readConfig" \in Finishing \ {"delete", "verify"} /\ "readConfig" \notin Retiring
          /\ r.pc \in Finishing /\ r.pc \in Working
      BY <2>1 DEF Finishing, Retiring, Working
    <2>3. W(x)
      BY <1>1, <2>1, <2>2, WorkGoesOn
    <2>4. Works({x}) /\ "scanAll" \in Reading
      BY <2>3 DEF Reading
    <2> QED
      BY <1>2, <2>1, <2>4
  <1> QED
    BY <1>3, <1>4, <1>5, <1>6, <1>7, <1>8, <1>9

LEMMA PostInv ==
  ASSUME IInv, NEW s \in Sessions, Post(s)
  PROVE  IInv'
  <1> DEFINE r == session[s]
             body == r.doc.pending.body
             n == Noting(r.doc, used + 1, body)
             x == Saving(r, n, "added")
  <1>1. r.pc = "post" /\ ~At(s, "idle") /\ Turn(s) /\ "post" \in Working
    BY TurnIs DEF Post, At, Working, Adding
  <1>2. UNCHANGED <<config, journal, faults, world>>
    BY DEF Post
  <1>3. AtWork(r, Config, world.edits, filters, used, journal)
    BY <1>1, AtWorkNow
  <1>4. /\ Server(filters, used, config, journal, Config) /\ faults \in 0..world.faults
        /\ JournalFits(journal, filters, used)
    BY ServerIs
  <1>5. CASE Create(body) /\ Become(s, x)
    <2>1. r.doc \in JournalOf(Config) /\ Sound(r.doc) /\ body \in r.doc.new
      BY <1>1, <1>3, AtWorkIs DEF AtWork, Static, Progress
    <2>2. body \in Body /\ body.form = "managed"
      BY <2>1 DEF JournalOf, Sound
    <2>3. used < MaxId /\ filters' = Created(filters, used + 1, body, Renumbers) /\ used' = used + 1
      BY <1>5 DEF Create
    <2> DEFINE rules2 == filters'
    <2> HIDE DEF body
    <2>4. /\ rules2 \in Partial(Ids, Rule) /\ DOMAIN rules2 = DOMAIN filters \cup {used + 1}
          /\ used + 1 \in Ids /\ used + 1 \notin DOMAIN filters
          /\ rules2[used + 1].body = body
          /\ \A id \in DOMAIN filters : rules2[id].body = filters[id].body
      <3>1. used \in 0..MaxId /\ filters \in Partial(Ids, Rule) /\ DOMAIN filters \subseteq 1..used
        BY <1>4 DEF Server
      <3>2. used < MaxId /\ body \in Body
        BY <2>2, <2>3
      <3> DEFINE renumbers == Renumbers
      <3> HIDE DEF rules2, renumbers
      <3>3. /\ Created(filters, used + 1, body, renumbers) \in Partial(Ids, Rule)
            /\ DOMAIN Created(filters, used + 1, body, renumbers) = DOMAIN filters \cup {used + 1}
            /\ used + 1 \in Ids /\ used + 1 \notin DOMAIN filters
            /\ Created(filters, used + 1, body, renumbers)[used + 1].body = body
            /\ \A id \in DOMAIN filters :
                 Created(filters, used + 1, body, renumbers)[id].body = filters[id].body
        BY <3>1, <3>2, CreatedIs
      <3> QED
        BY <2>3, <3>3 DEF rules2, renumbers
    <2>5. Grown(filters, used, rules2, body)
      BY <1>4, <2>2, <2>4 DEF Grown, Server
    <2>6. used \in 0..MaxId /\ used < MaxId
      BY <1>4, <2>3 DEF Server
    <2> HIDE DEF rules2
    <2>7. /\ Static(x, Config, world.edits) /\ Deep(x, rules2, used + 1, journal)
          /\ Sole(r, filters, config, journal) => Sole(x, rules2, config, journal)
      BY <1>1, <1>3, <2>5, <2>6, PostWorks DEF body
    <2>8. \A t \in Sessions \ {s} : Deep(session[t], rules2, used + 1, journal)
      BY <2>5, SessionIs, DeepGrown
    <2>9. JournalFits(journal, rules2, used + 1)
      <3>1. CASE journal = None
        BY <3>1 DEF JournalFits, Underway2, Underway
      <3>2. CASE journal \in JournalOf(Config)
        BY <1>4, <2>5, <3>2, JournalGrown
      <3> QED
        BY <1>4, <3>1, <3>2 DEF Server
    <2>10. Server(rules2, used + 1, config, journal, Config)
      <3>1. used + 1 \in 0..MaxId /\ DOMAIN rules2 \subseteq 1..(used + 1)
        BY <1>4, <2>4, <2>6, ScopeAssumption DEF Server, Ids
      <3> QED
        BY <1>4, <2>4, <3>1 DEF Server
    <2>11. world.kind # "shared" => Unambiguous(rules2) /\ Sole(x, rules2, config, journal)
      <3> SUFFICES ASSUME world.kind # "shared" PROVE Unambiguous(rules2) /\ Sole(x, rules2, config, journal)
        OBVIOUS
      <3>1. Sole(r, filters, config, journal) /\ Unambiguous(filters)
        BY SessionIs DEF IInv, SoleInv
      <3>2. Missing(body, filters)
        BY <1>1, <1>3, <3>1, AtWorkIs DEF Sole, body
      <3>3. Unambiguous(rules2)
        BY <2>4, <3>1, <3>2 DEF Unambiguous, ManagedIds, Missing
      <3> QED
        BY <2>7, <3>1, <3>3
    <2> HIDE DEF x
    <2>12. session' = [session EXCEPT ![s] = x]
      BY <1>5 DEF Become
    <2>13. filters' = rules2 /\ used' = used + 1 /\ config' = config /\ journal' = journal
           /\ world' = world /\ faults' \in 0..world.faults
      BY <1>2, <1>4, <2>3 DEF rules2
    <2> QED
      BY <1>1, <2>7, <2>8, <2>9, <2>10, <2>11, <2>12, <2>13, Composes
  <1>6. CASE Stop(s) /\ UNCHANGED <<filters, used>>
    <2>1. UNCHANGED <<serverVars, faults, world>>
      BY <1>2, <1>6 DEF serverVars
    <2> QED
      BY <1>1, <1>6, <2>1, StopInv
  <1> QED
    BY <1>5, <1>6 DEF Post, Noting

LEMMA DeleteInv ==
  ASSUME IInv, NEW s \in Sessions, Delete(s)
  PROVE  IInv'
  <1> DEFINE r == session[s]
             id == r.doc.pending.id
             x == [r EXCEPT !.pc = "retired"]
  <1>1. r.pc = "delete" /\ ~At(s, "idle") /\ Turn(s) /\ "delete" \in Working /\ "delete" \in Retiring
    BY TurnIs DEF Delete, At, Working, Finishing, Retiring
  <1>2. UNCHANGED <<used, config, journal, faults, world>>
    BY DEF Delete
  <1>3. AtWork(r, Config, world.edits, filters, used, journal)
    BY <1>1, AtWorkNow
  <1>4. /\ Server(filters, used, config, journal, Config) /\ faults \in 0..world.faults
        /\ JournalFits(journal, filters, used)
    BY ServerIs
  <1>5. CASE id \in DOMAIN filters /\ filters' = Removed(filters, id, Renumbers) /\ Goto(s, "retired")
    <2> DEFINE rules2 == filters'
    <2>1. Removable(id, filters, journal)
      BY <1>1, <1>3, <1>5, DeleteIs
    <2>2. /\ rules2 \in Partial(Ids, Rule) /\ DOMAIN rules2 = DOMAIN filters \ {id}
          /\ \A i \in DOMAIN filters \ {id} : rules2[i].body = filters[i].body
      <3> HIDE DEF id
      <3>1. filters \in Partial(Ids, Rule)
        BY <1>4 DEF Server
      <3>2. id \in DOMAIN filters /\ rules2 = Removed(filters, id, Renumbers)
        BY <1>5
      <3> DEFINE less == Removed(filters, id, Renumbers)
      <3>3. /\ less \in Partial(Ids, Rule) /\ DOMAIN less = DOMAIN filters \ {id}
            /\ \A i \in DOMAIN filters \ {id} : less[i].body = filters[i].body
        BY <3>1, <3>2, RemovedIs
      <3> HIDE DEF rules2, less
      <3> QED
        BY <3>2, <3>3 DEF less
    <2> HIDE DEF id
    <2>3. Shrunk(id, filters, rules2)
      BY <2>2 DEF Shrunk
    <2> HIDE DEF rules2
    <2>4. Result(r, x, Config, world.edits, filters, used, journal) /\ x.pc = "retired"
      <3>1. "retired" \in Finishing \ {"delete", "verify"} /\ "delete" \in Finishing
        BY DEF Finishing, Retiring
      <3> QED
        BY <1>1, <1>3, <3>1, WorkGoesOn
    <2>5. session' = [session EXCEPT ![s] = x]
      BY <1>5 DEF Goto
    <2> HIDE DEF x
    <2>6. Static(x, Config, world.edits) /\ Deep(x, filters, used, journal)
      BY <2>4 DEF Result
    <2>7. Deep(x, rules2, used, journal)
      BY <2>1, <2>3, <2>6, DeepShrunk
    <2>8. \A t \in Sessions \ {s} : Deep(session[t], rules2, used, journal)
      BY <2>1, <2>3, SessionIs, DeepShrunk
    <2>9. JournalFits(journal, rules2, used)
      BY <1>4, <2>1, <2>3, JournalShrunk DEF Server, Underway
    <2>10. Server(rules2, used, config, journal, Config)
      BY <1>4, <2>2 DEF Server
    <2>11. world.kind # "shared" => Unambiguous(rules2) /\ Sole(x, rules2, config, journal)
      <3> SUFFICES ASSUME world.kind # "shared" PROVE Unambiguous(rules2) /\ Sole(x, rules2, config, journal)
        OBVIOUS
      <3>1. Sole(r, filters, config, journal) /\ Unambiguous(filters)
        BY SessionIs DEF IInv, SoleInv
      <3>2. Unambiguous(rules2)
        BY <2>2, <3>1 DEF Unambiguous, ManagedIds
      <3>3. Sole(x, filters, config, journal)
        BY <2>4, <3>1 DEF Result
      <3>4. Place(x) \notin Adding /\ x.pc # "verify" /\ Place(x) # "idle"
        BY <2>4 DEF Place, Adding
      <3> QED
        BY <3>2, <3>3, <3>4, SoleElsewhere
    <2>12. filters' = rules2 /\ used' = used /\ config' = config /\ journal' = journal
           /\ world' = world /\ faults' \in 0..world.faults
      BY <1>2, <1>4 DEF rules2
    <2> QED
      BY <1>1, <2>5, <2>6, <2>7, <2>8, <2>9, <2>10, <2>11, <2>12, Composes
  <1>6. CASE Stop(s) /\ UNCHANGED filters
    <2>1. UNCHANGED <<serverVars, faults, world>>
      BY <1>2, <1>6 DEF serverVars
    <2> QED
      BY <1>1, <1>6, <2>1, StopInv
  <1> QED
    BY <1>5, <1>6 DEF Delete

LEMMA ReadConfigInv ==
  ASSUME IInv, NEW s \in Sessions, ReadConfig(s) \/ ReadBack(s)
  PROVE  IInv'
  <1> DEFINE r == session[s]
  <1>1. /\ r.pc \in {"readConfig", "readBack"} /\ ~At(s, "idle") /\ Turn(s)
        /\ r.pc \in Working /\ r.pc \in Finishing /\ r.pc \notin Retiring
    BY TurnIs DEF ReadConfig, ReadBack, At, Working, Finishing, Retiring
  <1>2. UNCHANGED <<serverVars, faults, world>>
    BY DEF ReadConfig, ReadBack
  <1>3. AtWork(r, Config, world.edits, filters, used, journal)
    BY <1>1, AtWorkNow
  <1>4. CASE Become(s, Proved(r, config))
    <2>1. config \in Config
      BY ServerIs DEF Server
    <2>2. Result(r, Proved(r, config), Config, world.edits, filters, used, journal)
      BY <1>1, <1>3, <2>1, ProvedWorks
    <2>3. session' = [session EXCEPT ![s] = Proved(r, config)]
      BY <1>4 DEF Become
    <2> QED
      BY <1>1, <1>2, <2>2, <2>3, QuietWork
  <1>5. ASSUME NEW pc \in {"finalConfig", "swapConfig"}, Goto(s, pc)
        PROVE  IInv'
    <2>1. pc \in Finishing \ {"delete", "verify"} /\ pc \notin Retiring
      BY DEF Finishing, Retiring
    <2>2. Result(r, [r EXCEPT !.pc = pc], Config, world.edits, filters, used, journal)
      BY <1>1, <1>3, <2>1, WorkGoesOn
    <2>3. session' = [session EXCEPT ![s] = [r EXCEPT !.pc = pc]]
      BY <1>5 DEF Goto
    <2> QED
      BY <1>1, <1>2, <2>2, <2>3, QuietWork
  <1>6. CASE Stop(s)
    BY <1>1, <1>2, <1>6, StopInv
  <1> QED
    BY <1>4, <1>5, <1>6 DEF ReadConfig, ReadBack

LEMMA SwapConfigInv ==
  ASSUME IInv, NEW s \in Sessions, SwapConfig(s)
  PROVE  IInv'
  <1> DEFINE r == session[s]
             x == [r EXCEPT !.pc = "readBack"]
  <1>1. r.pc = "swapConfig" /\ ~At(s, "idle") /\ Turn(s) /\ "swapConfig" \in Working
    BY TurnIs DEF SwapConfig, At, Working, Finishing
  <1>2. UNCHANGED <<filters, used, journal, faults, world>>
    BY DEF SwapConfig
  <1>3. AtWork(r, Config, world.edits, filters, used, journal)
    BY <1>1, AtWorkNow
  <1>4. /\ Server(filters, used, config, journal, Config) /\ faults \in 0..world.faults
        /\ JournalFits(journal, filters, used)
    BY ServerIs
  <1>5. CASE config' = Wanted(r) /\ Goto(s, "readBack")
    <2>1. /\ "readBack" \in Finishing \ {"delete", "verify"} /\ "readBack" \notin Retiring
          /\ r.pc \in Finishing
      BY <1>1 DEF Finishing, Retiring
    <2>2. Result(r, x, Config, world.edits, filters, used, journal) /\ x.pc = "readBack"
      BY <1>3, <2>1, WorkGoesOn
    <2>3. session' = [session EXCEPT ![s] = x]
      BY <1>5 DEF Goto
    <2> HIDE DEF x
    <2>4. Wanted(r) \in Config
      BY <1>3, AtWorkIs, WantedIs
    <2>5. Server(filters, used, config', journal, Config)
      BY <1>4, <1>5, <2>4 DEF Server
    <2>6. world.kind # "shared" => Unambiguous(filters) /\ Sole(x, filters, config', journal)
      <3>1. Place(x) \notin Adding /\ x.pc # "verify" /\ Place(x) # "idle"
        BY <2>2 DEF Place, Adding
      <3>2. world.kind # "shared" => Sole(x, filters, config, journal)
        BY <2>2, SessionIs DEF Result
      <3>3. world.kind # "shared" => Sole(x, filters, config', journal)
        BY <3>1, <3>2, SoleElsewhere
      <3> QED
        BY <3>3 DEF IInv, SoleInv
    <2>7. \A t \in Sessions \ {s} : Deep(session[t], filters, used, journal)
      BY SessionIs
    <2>8. filters' = filters /\ used' = used /\ journal' = journal
          /\ world' = world /\ faults' \in 0..world.faults
      BY <1>2, <1>4
    <2>9. Static(x, Config, world.edits) /\ Deep(x, filters, used, journal)
      BY <2>2 DEF Result
    <2> QED
      BY <1>1, <1>4, <2>3, <2>5, <2>6, <2>7, <2>8, <2>9, Composes
  <1>6. CASE Stop(s) /\ UNCHANGED config
    <2>1. UNCHANGED <<serverVars, faults, world>>
      BY <1>2, <1>6 DEF serverVars
    <2> QED
      BY <1>1, <1>6, <2>1, StopInv
  <1> QED
    BY <1>5, <1>6 DEF SwapConfig

LEMMA FinalConfigInv ==
  ASSUME IInv, NEW s \in Sessions, FinalConfig(s)
  PROVE  IInv'
  <1> DEFINE r == session[s]
             x == [r EXCEPT !.pc = "verify"]
  <1>1. r.pc = "finalConfig" /\ ~At(s, "idle") /\ Turn(s) /\ "finalConfig" \in Working
    BY TurnIs DEF FinalConfig, At, Working, Finishing
  <1>2. UNCHANGED <<serverVars, faults, world>>
    BY DEF FinalConfig
  <1>3. AtWork(r, Config, world.edits, filters, used, journal)
    BY <1>1, AtWorkNow
  <1>4. CASE HasIntent(config, r) /\ Goto(s, "verify")
    <2>1. /\ Static(x, Config, world.edits) /\ Deep(x, filters, used, journal)
          /\ Sole(r, filters, config, journal) => Sole(x, filters, config, journal)
      BY <1>1, <1>3, <1>4, FinalWorks
    <2>2. session' = [session EXCEPT ![s] = x]
      BY <1>4 DEF Goto
    <2> HIDE DEF x
    <2>3. world.kind # "shared" => Sole(x, filters, config, journal)
      BY <2>1, SessionIs
    <2>4. UNCHANGED <<serverVars, world>> /\ faults' \in 0..world.faults
      BY <1>2, ServerIs
    <2> QED
      BY <1>1, <2>1, <2>2, <2>3, <2>4, Quiet
  <1>5. CASE Stop(s)
    BY <1>1, <1>2, <1>5, StopInv
  <1> QED
    BY <1>4, <1>5 DEF FinalConfig

LEMMA VerifyInv ==
  ASSUME IInv, NEW s \in Sessions, Verify(s)
  PROVE  IInv'
  <1> DEFINE r == session[s]
             x == Saving(r, Ended(r.doc), "idle")
  <1>1. r.pc = "verify" /\ ~At(s, "idle") /\ Turn(s) /\ "verify" \in Working
    BY TurnIs DEF Verify, At, Working, Finishing
  <1>2. UNCHANGED <<serverVars, faults, world>>
    BY DEF Verify
  <1>3. AtWork(r, Config, world.edits, filters, used, journal)
    BY <1>1, AtWorkNow
  <1>4. CASE Committable(r.doc, filters) /\ Become(s, x)
    <2>1. Result(r, x, Config, world.edits, filters, used, journal)
      BY <1>1, <1>3, <1>4, VerifyWorks
    <2>2. session' = [session EXCEPT ![s] = x]
      BY <1>4 DEF Become
    <2> QED
      BY <1>1, <1>2, <2>1, <2>2, QuietWork
  <1>5. CASE Stop(s)
    BY <1>1, <1>2, <1>5, StopInv
  <1> QED
    BY <1>4, <1>5 DEF Verify, Ended

LEMMA ClosePlanInv ==
  ASSUME IInv, NEW s \in Sessions, ClosePlan(s)
  PROVE  IInv'
  <1> DEFINE r == session[s]
  <1>1. r.pc = "closePlan" /\ ~At(s, "idle") /\ Turn(s)
    BY TurnIs DEF ClosePlan, At
  <1>2. UNCHANGED <<serverVars, faults, world>>
    BY DEF ClosePlan
  <1>3. CASE /\ Closable(r.doc, filters, r.cfg.targets)
             /\ Become(s, [r EXCEPT !.pc = "close", !.base = filters])
    <2>1. filters \in Partial(Ids, Rule) /\ DOMAIN filters \subseteq 1..used /\ used \in Nat
      BY ServerIs DEF Server
    <2>2. session' = [session EXCEPT ![s] = Planned(r, "close", filters)]
      BY <1>3 DEF Become, Planned
    <2>3. Result(r, Planned(r, "close", filters), Config, world.edits, filters, used, journal)
      BY <1>1, <1>3, <2>1, SessionIs, ClosableWorks
    <2> QED
      BY <1>1, <1>2, <2>2, <2>3, QuietWork
  <1>4. CASE Stop(s)
    BY <1>1, <1>2, <1>4, StopInv
  <1> QED
    BY <1>3, <1>4 DEF ClosePlan

LEMMA CloseInv ==
  ASSUME IInv, NEW s \in Sessions, Close(s)
  PROVE  IInv'
  <1> DEFINE r == session[s]
             x == Saving(r, Closed(r.doc), "idle")
  <1>1. r.pc = "close" /\ ~At(s, "idle") /\ Turn(s)
    BY TurnIs DEF Close, At
  <1>2. UNCHANGED <<serverVars, faults, world>>
    BY DEF Close
  <1>3. CASE filters = r.base /\ Become(s, x)
    <2>1. session' = [session EXCEPT ![s] = x]
      BY <1>3 DEF Become
    <2>2. Result(r, x, Config, world.edits, filters, used, journal)
      BY <1>1, <1>3, SessionIs, CloseWorks
    <2> QED
      BY <1>1, <1>2, <2>1, <2>2, QuietWork
  <1>4. CASE Stop(s)
    BY <1>1, <1>2, <1>4, StopInv
  <1> QED
    BY <1>3, <1>4 DEF Close

LEMMA EditInv ==
  ASSUME IInv, NEW s \in Sessions, Edit(s)
  PROVE  IInv'
  <1> DEFINE cfg == session[s].cfg
  <1>1. session[s].pc = "edit" /\ ~At(s, "idle") /\ Turn(s)
    BY TurnIs DEF Edit, At
  <1>2. UNCHANGED <<filters, used, journal, faults, world>> /\ Stop(s)
    BY DEF Edit
  <1>3. cfg \in Config /\ cfg.rest < world.edits
    BY <1>1, SessionIs DEF Static, Shape
  <1>4. /\ Server(filters, used, config, journal, Config) /\ faults \in 0..world.faults
        /\ JournalFits(journal, filters, used) /\ world.edits \in Nat
    BY ServerIs
  <1>5. config' \in Config
    <2>1. [cfg EXCEPT !.rest = @ + 1] \in Config
      BY <1>3, <1>4 DEF Config
    <2> QED
      BY <1>4, <2>1 DEF Edit, Server
  <1>6. Server(filters, used, config', journal, Config)
    BY <1>4, <1>5 DEF Server
  <1>7. /\ Static(Idle, Config, world.edits) /\ Deep(Idle, filters, used, journal)
        /\ Sole(Idle, filters, config', journal)
    BY IdleIs
  <1>8. \A t \in Sessions \ {s} : Deep(session[t], filters, used, journal)
    BY SessionIs
  <1>9. world.kind # "shared" => Unambiguous(filters)
    BY DEF IInv, SoleInv
  <1>10. filters' = filters /\ used' = used /\ journal' = journal
         /\ world' = world /\ faults' \in 0..world.faults
         /\ session' = [session EXCEPT ![s] = Idle]
    BY <1>2, <1>4 DEF Stop
  <1> QED
    BY <1>1, <1>4, <1>6, <1>7, <1>8, <1>9, <1>10, Composes

LEMMA EndsInv ==
  ASSUME IInv, NEW s \in Sessions, GiveUp(s) \/ Die(s)
  PROVE  IInv'
  <1>1. ~At(s, "idle") /\ Stop(s) /\ UNCHANGED <<serverVars, world>>
    BY DEF GiveUp, Die, At
  <1>2. faults' \in 0..world.faults
    BY ServerIs DEF GiveUp, Die
  <1> QED
    BY <1>1, <1>2, QuietStop

\* Others add and remove rules of their own.
LEMMA StrangeInv ==
  ASSUME IInv, Strange
  PROVE  IInv'
  <1>1. /\ Server(filters, used, config, journal, Config) /\ DOMAIN session = Sessions
        /\ faults \in 0..world.faults /\ world.faults \in Nat
        /\ JournalFits(journal, filters, used)
    BY ServerIs
  <1>2. /\ UNCHANGED <<config, journal, session, world>> /\ world.kind = "shared"
        /\ faults' \in 0..world.faults
    BY <1>1 DEF Strange
  <1>3. /\ Server(filters', used', config, journal, Config)
        /\ JournalFits(journal, filters', used')
        /\ \A t \in Sessions : Deep(session[t], filters', used', journal)
    <2>1. CASE Create(Other)
      <3> DEFINE rules2 == filters'
      <3>1. Other \in Body /\ Other.form # "legacy"
        BY DEF Other, Body
      <3>2. used < MaxId /\ rules2 = Created(filters, used + 1, Other, Renumbers) /\ used' = used + 1
        BY <2>1 DEF Create
      <3>3. used \in 0..MaxId /\ filters \in Partial(Ids, Rule) /\ DOMAIN filters \subseteq 1..used
        BY <1>1 DEF Server
      <3> HIDE DEF rules2
      <3>4. /\ rules2 \in Partial(Ids, Rule) /\ DOMAIN rules2 = DOMAIN filters \cup {used + 1}
            /\ used + 1 \in Ids /\ used + 1 \notin DOMAIN filters
            /\ rules2[used + 1].body = Other
            /\ \A id \in DOMAIN filters : rules2[id].body = filters[id].body
        BY <3>1, <3>2, <3>3, CreatedIs
      <3>5. Grown(filters, used, rules2, Other)
        BY <3>1, <3>3, <3>4 DEF Grown
      <3>6. \A t \in Sessions : Deep(session[t], rules2, used + 1, journal)
        BY <3>5, SessionIs, DeepGrown
      <3>7. JournalFits(journal, rules2, used + 1)
        <4>1. CASE journal = None
          BY <4>1 DEF JournalFits, Underway2, Underway
        <4>2. CASE journal \in JournalOf(Config)
          BY <1>1, <3>5, <4>2, JournalGrown
        <4> QED
          BY <1>1, <4>1, <4>2 DEF Server
      <3>8. used + 1 \in 0..MaxId /\ DOMAIN rules2 \subseteq 1..(used + 1)
        BY <3>2, <3>3, <3>4, ScopeAssumption DEF Ids
      <3> QED
        BY <1>1, <3>2, <3>4, <3>6, <3>7, <3>8 DEF Server, rules2
    <2>2. CASE /\ \E id \in DOMAIN filters :
                    filters[id].body = Other /\ filters' = Removed(filters, id, Renumbers)
               /\ UNCHANGED used
      <3> DEFINE rules2 == filters'
      <3>1. PICK id \in DOMAIN filters :
              filters[id].body = Other /\ rules2 = Removed(filters, id, Renumbers)
        BY <2>2
      <3>2. filters \in Partial(Ids, Rule)
        BY <1>1 DEF Server
      <3> HIDE DEF rules2
      <3> DEFINE less == Removed(filters, id, Renumbers)
      <3>3. /\ less \in Partial(Ids, Rule) /\ DOMAIN less = DOMAIN filters \ {id}
            /\ \A i \in DOMAIN filters \ {id} : less[i].body = filters[i].body
        BY <3>2, RemovedIs
      <3> HIDE DEF less
      <3>4. Shrunk(id, filters, rules2) /\ rules2 \in Partial(Ids, Rule)
        BY <3>1, <3>3 DEF Shrunk, less
      <3>5. Removable(id, filters, journal)
        BY <3>1 DEF Removable
      <3>6. \A t \in Sessions : Deep(session[t], rules2, used, journal)
        BY <3>4, <3>5, SessionIs, DeepShrunk
      <3>7. JournalFits(journal, rules2, used)
        BY <1>1, <3>4, <3>5, JournalShrunk DEF Server, Underway
      <3>8. Server(rules2, used, config, journal, Config)
        BY <1>1, <3>4 DEF Server, Shrunk
      <3> QED
        BY <2>2, <3>6, <3>7, <3>8 DEF rules2
    <2> QED
      BY <2>1, <2>2 DEF Strange
  <1>4. Config' = Config /\ session' = session /\ world' = world /\ journal' = journal
        /\ config' = config
    BY <1>2 DEF Config
  <1>5. Typed'
    BY <1>1, <1>2, <1>3, <1>4, TypedNext
  <1>6. StaticInv'
    BY <1>4 DEF IInv, StaticInv
  <1>7. DeepInv'
    BY <1>3, <1>4 DEF DeepInv
  <1>8. JournalInv'
    BY <1>3, <1>4 DEF JournalInv
  <1>9. SoleInv'
    BY <1>2, <1>4 DEF SoleInv
  <1> QED
    BY <1>5, <1>6, <1>7, <1>8, <1>9 DEF IInv

LEMMA NextIInv == IInv /\ [Next]_vars => IInv'
  <1> SUFFICES ASSUME IInv, [Next]_vars PROVE IInv'
    OBVIOUS
  <1>1. ASSUME NEW s \in Sessions, Start(s) \/ StartEdit(s) \/ Step(s) \/ GiveUp(s) \/ Die(s)
        PROVE  IInv'
    BY <1>1, StartInv, ReadJournalInv, DiscoverInv, PlanInv, ConfirmInv, PrepareInv, SaveInv,
       ReadingsInv, PostInv, DeleteInv, ReadConfigInv, SwapConfigInv, FinalConfigInv, VerifyInv,
       ClosePlanInv, CloseInv, EditInv, EndsInv
       DEF Step
  <1>2. CASE Strange
    BY <1>2, StrangeInv
  <1>3. CASE UNCHANGED vars
    BY <1>3 DEF vars, serverVars, IInv, Typed, TypeOK, IsJournal, Config, StaticInv, DeepInv,
                JournalInv, SoleInv, At, Alone
  <1> QED
    BY <1>1, <1>2, <1>3 DEF Next

-----------------------------------------------------------------------------
(***************************************************************************)
(* The initial states.                                                     *)
(***************************************************************************)

\* There is one rule for each address and one of somebody else's, and no room for more.
LEMMA ListsAre ==
  ASSUME world \in Worlds, NEW rules \in Lists
  PROVE  LET n == Cardinality(world.addresses) + 1
         IN  /\ n \in Nat /\ n + 1 <= MaxId
             /\ rules \in Partial(Ids, Rule) /\ DOMAIN rules = 1..n
             /\ \A i, j \in DOMAIN rules : rules[i].body = rules[j].body => i = j
             /\ \A id \in DOMAIN rules : rules[id].body.form = "managed" =>
                  \E a \in world.addresses : rules[id].body = Managed(a)
  <1> DEFINE A == world.addresses
             n == Cardinality(A) + 1
  <1>1. /\ A \in SUBSET Address /\ IsFiniteSet(A) /\ Cardinality(A) + 2 <= MaxId
        /\ None \notin Address /\ MaxId \in Nat
    <2>1. A \in SUBSET Address
      BY SyncAssumption DEF World
    <2>2. IsFiniteSet(A)
      BY <2>1, ScopeAssumption, FS_Subset
    <2> QED
      BY <2>1, <2>2, ScopeAssumption, SyncAssumption
  <1>2. Cardinality(A) \in Nat
    BY <1>1, FS_CardinalityType
  <1>3. PICK bodies \in [1..n -> Body] :
          /\ Other \in Range(bodies)
          /\ \A a \in A : {Managed(a), Legacy(a)} \cap Range(bodies) # {}
          /\ rules = [id \in 1..n |->
               [body |-> bodies[id],
                priority |-> IF world.kind = "renumbering" THEN id ELSE 0]]
    BY DEF Lists
  <1> HIDE DEF A
  <1>4. DOMAIN rules = 1..n /\ \A id \in 1..n : rules[id].body = bodies[id] /\ rules[id] \in Rule
    BY <1>1, <1>2, <1>3 DEF Rule
  <1>5. rules \in Partial(Ids, Rule)
    <2>1. rules \in [1..n -> Rule]
      BY <1>3, <1>4
    <2>2. 1..n \in SUBSET Ids
      BY <1>1, <1>2 DEF Ids
    <2> QED
      BY <2>1, <2>2 DEF Partial
  <1> DEFINE T == A \cup {None}
             whose == [id \in 1..n |-> IF bodies[id].addr \in A THEN bodies[id].addr ELSE None]
  <1>6. IsFiniteSet(T) /\ Cardinality(T) = n
    BY <1>1, <1>2, FS_AddElement
  <1>7. IsFiniteSet(1..n) /\ Cardinality(1..n) = n
    BY <1>2, FS_Interval
  <1>8. whose \in Surjection(1..n, T)
    <2>1. whose \in [1..n -> T]
      OBVIOUS
    <2>2. ASSUME NEW a \in A
          PROVE  \E id \in 1..n : whose[id] = a
      <3>1. PICK id \in 1..n : bodies[id] \in {Managed(a), Legacy(a)}
        BY <1>3 DEF Range
      <3> QED
        BY <3>1 DEF Managed, Legacy
    <2>3. \E id \in 1..n : whose[id] = None
      <3>1. PICK id \in 1..n : bodies[id] = Other
        BY <1>3 DEF Range
      <3> QED
        BY <1>1, <3>1 DEF Other
    <2> QED
      BY <2>1, <2>2, <2>3 DEF Surjection
  <1> HIDE DEF T
  <1>9. whose \in Injection(1..n, T)
    BY <1>6, <1>7, <1>8, FS_SurjSameCardinalityImpliesInj
  <1>10. ASSUME NEW i \in 1..n, NEW j \in 1..n, whose[i] = whose[j]
         PROVE  i = j
    BY <1>9, <1>10 DEF Injection, IsInjective
  <1>11. ASSUME NEW id \in 1..n, bodies[id].form = "managed"
         PROVE  \E a \in A : bodies[id] = Managed(a)
    <2>1. PICK other \in 1..n : bodies[other] = Other
      BY <1>3 DEF Range
    <2>2. id # other /\ whose[other] = None
      BY <1>1, <1>11, <2>1 DEF Other
    <2>3. bodies[id].addr \in A
      BY <1>10, <2>2
    <2>4. bodies[id] = Managed(bodies[id].addr)
      BY <1>3, <1>11 DEF Body, Managed
    <2> QED
      BY <2>3, <2>4
  <1>12. \A i, j \in 1..n : rules[i].body = rules[j].body => i = j
    BY <1>4, <1>10
  <1>13. \A id \in 1..n : rules[id].body.form = "managed" => \E a \in A : rules[id].body = Managed(a)
    BY <1>4, <1>11
  <1>14. n \in Nat /\ n + 1 <= MaxId
    BY <1>1, <1>2
  <1> QED
    BY <1>4, <1>5, <1>12, <1>13, <1>14 DEF A

\* The journal of schema 1 that the version before may have left, field by field.
Left(old, a, rules) ==
  [EmptyJournal EXCEPT
     !.schema = 1, !.phase = "active", !.old = [id \in {old} |-> Legacy(a)],
     !.new = {Managed(b) : b \in world.addresses},
     !.unrelated = Restrict(rules, {id \in DOMAIN rules : rules[id].body = Other}),
     !.newIds = [id \in ManagedIds(rules) |-> rules[id].body],
     !.pending = PendingDelete(old, Legacy(a))]

LEMMA LeftIs ==
  ASSUME world \in Worlds, NEW rules \in Lists, NEW a \in world.addresses, NEW old,
         old = Cardinality(world.addresses) + 2
  PROVE  /\ Left(old, a, rules) \in JournalOf(Config) /\ Valid(Left(old, a, rules))
         /\ Left(old, a, rules).schema = 1
  <1> DEFINE n == Cardinality(world.addresses) + 1
             d == Left(old, a, rules)
             kept == {id \in DOMAIN rules : rules[id].body = Other}
             olds == [id \in {old} |-> Legacy(a)]
             new == {Managed(b) : b \in world.addresses}
             unrelated == Restrict(rules, kept)
             newIds == [id \in ManagedIds(rules) |-> rules[id].body]
             pending == PendingDelete(old, Legacy(a))
  <1>1. /\ n \in Nat /\ n + 1 <= MaxId
        /\ rules \in Partial(Ids, Rule) /\ DOMAIN rules = 1..n
        /\ \A id \in DOMAIN rules : rules[id].body.form = "managed" =>
             \E b \in world.addresses : rules[id].body = Managed(b)
    BY ListsAre
  <1>2. old = n + 1 /\ MaxId \in Nat
    <2>1. IsFiniteSet(world.addresses)
      BY ScopeAssumption, SyncAssumption, FS_Subset DEF World
    <2>2. Cardinality(world.addresses) \in Nat
      BY <2>1, FS_CardinalityType
    <2> QED
      BY <2>2, ScopeAssumption
  <1>3. world.addresses \in SUBSET Address
    BY SyncAssumption DEF World
  <1> HIDE DEF n
  <1>4. old \in Ids /\ old \notin DOMAIN rules
    BY <1>1, <1>2 DEF Ids
  <1>5. Legacy(a) \in Body /\ new \in SUBSET Body
    BY <1>3 DEF Body, Legacy, Managed
  <1>6. \A id \in DOMAIN rules : id \in Ids /\ rules[id] \in Rule /\ rules[id].body \in Body
    BY <1>1 DEF Partial, Rule
  <1>7. olds \in Partial(Ids, Body) /\ DOMAIN olds = {old}
    <2>1. olds \in [{old} -> Body] /\ {old} \in SUBSET Ids
      BY <1>4, <1>5
    <2> QED
      BY <2>1 DEF Partial
  <1>8. unrelated \in Partial(Ids, Rule) /\ DOMAIN unrelated = kept
    <2>1. unrelated \in [kept -> Rule] /\ kept \in SUBSET Ids
      BY <1>6 DEF Restrict
    <2> QED
      BY <2>1 DEF Partial
  <1>9. newIds \in Partial(Ids, Body) /\ DOMAIN newIds = ManagedIds(rules)
    <2>1. newIds \in [ManagedIds(rules) -> Body] /\ ManagedIds(rules) \in SUBSET Ids
      BY <1>6 DEF ManagedIds
    <2> QED
      BY <2>1 DEF Partial
  <1>10. pending \in Pending
    BY <1>4, <1>5 DEF Pending, PendingDelete
  <1>11. d = [EmptyJournal EXCEPT !.schema = 1, !.phase = "active", !.old = olds, !.new = new,
                                  !.unrelated = unrelated, !.newIds = newIds,
                                  !.pending = pending]
    BY DEF Left
  <1>12. olds[old] = Legacy(a) /\ pending.op = "delete" /\ pending.id = old
         /\ pending.body = Legacy(a)
    BY DEF PendingDelete
  <1>13. ManagedIds(rules) \cap kept = {} /\ ManagedIds(rules) \subseteq DOMAIN rules
    BY DEF ManagedIds, Other
  <1>14. Range(newIds) \subseteq new
    <2>1. \A id \in ManagedIds(rules) : rules[id].body \in new
      BY <1>1 DEF ManagedIds
    <2>2. \A id \in DOMAIN newIds : newIds[id] \in new
      BY <1>9, <2>1
    <2> HIDE DEF newIds, new
    <2> QED
      BY <2>2 DEF Range
  <1>15. IsInjective(olds)
    BY <1>7 DEF IsInjective
  <1>16. kept \subseteq DOMAIN rules
    OBVIOUS
  <1> HIDE DEF olds, new, unrelated, newIds, pending, d, kept
  <1>17. d = [schema |-> 1, phase |-> "active", old |-> olds, new |-> new,
              unrelated |-> unrelated, newIds |-> newIds, retired |-> {}, pending |-> pending,
              pinned |-> {}, targets |-> {}, before |-> None, expected |-> None,
              applied |-> None]
    BY <1>11 DEF EmptyJournal
  <1>18. d \in JournalOf(Config)
    BY <1>5, <1>7, <1>8, <1>9, <1>10, <1>17 DEF JournalOf
  <1>19. Valid(d)
    BY <1>4, <1>7, <1>8, <1>9, <1>12, <1>13, <1>14, <1>15, <1>16, <1>17 DEF Valid
  <1> QED
    BY <1>17, <1>18, <1>19 DEF d

LEMMA ServerInit ==
  ASSUME Init
  PROVE  /\ Server(filters, used, config, journal, Config) /\ ~Underway2(journal)
         /\ Unambiguous(filters)
  <1>1. world \in Worlds /\ config = [pinned |-> {}, targets |-> world.addresses, rest |-> 0]
    BY DEF Init
  <1>2. world.addresses \in SUBSET Address /\ world.edits \in Nat
    BY <1>1, SyncAssumption DEF World
  <1>3. config \in Config
    BY <1>1, <1>2 DEF Config
  <1>4. PICK rules \in Lists : Fresh(rules) \/ Inherited(rules)
    BY DEF Init
  <1> DEFINE n == Cardinality(world.addresses) + 1
  <1>5. /\ n \in Nat /\ n + 1 <= MaxId /\ rules \in Partial(Ids, Rule) /\ DOMAIN rules = 1..n
        /\ \A i, j \in DOMAIN rules : rules[i].body = rules[j].body => i = j
    BY <1>1, ListsAre
  <1>6. MaxId \in Nat
    BY ScopeAssumption
  <1>7. CASE Fresh(rules)
    <2>1. filters = rules /\ used = n /\ journal = None
      BY <1>7 DEF Fresh
    <2>2. Server(filters, used, config, journal, Config)
      BY <1>3, <1>5, <1>6, <2>1 DEF Server
    <2>3. Unambiguous(filters)
      BY <1>5, <2>1 DEF Unambiguous, ManagedIds
    <2> QED
      BY <2>1, <2>2, <2>3 DEF Underway2, Underway
  <1>8. CASE Inherited(rules)
    <2> DEFINE old == Cardinality(world.addresses) + 2
    <2>1. PICK a \in world.addresses :
            /\ journal = Left(old, a, rules)
            /\ filters \in {rules, With(rules, old, [body |-> Legacy(a), priority |-> 0])}
      BY <1>8 DEF Inherited, Left
    <2>2. used = old
      BY <1>8 DEF Inherited
    <2>3. old = n + 1 /\ old \in Ids /\ old \notin DOMAIN rules
      <3>1. IsFiniteSet(world.addresses)
        BY <1>2, ScopeAssumption, FS_Subset
      <3>2. Cardinality(world.addresses) \in Nat
        BY <3>1, FS_CardinalityType
      <3>3. old = n + 1
        BY <3>2
      <3> QED
        BY <1>5, <1>6, <3>2, <3>3 DEF Ids
    <2>4. Left(old, a, rules) \in JournalOf(Config) /\ Valid(Left(old, a, rules))
          /\ Left(old, a, rules).schema = 1
      <3> DEFINE last == old
      <3>1. last = Cardinality(world.addresses) + 2
        OBVIOUS
      <3> HIDE DEF last
      <3>2. /\ Left(last, a, rules) \in JournalOf(Config) /\ Valid(Left(last, a, rules))
            /\ Left(last, a, rules).schema = 1
        BY <1>1, <3>1, LeftIs
      <3> QED
        BY <3>1, <3>2
    <2> HIDE DEF n, old
    <2>5. CASE filters = rules
      <3>1. filters \in Partial(Ids, Rule) /\ DOMAIN filters \subseteq 1..used /\ used \in 0..MaxId
        BY <1>5, <1>6, <2>2, <2>3, <2>5
      <3>2. Unambiguous(filters)
        BY <1>5, <2>5 DEF Unambiguous, ManagedIds
      <3> QED
        BY <1>3, <2>1, <2>4, <3>1, <3>2 DEF Server, Underway2
    <2>6. CASE filters = With(rules, old, [body |-> Legacy(a), priority |-> 0])
      <3> DEFINE rule == [body |-> Legacy(a), priority |-> 0]
      <3>1. rule \in Rule /\ rule.body.form = "legacy"
        BY <1>2, <1>6 DEF Rule, Body, Legacy
      <3> HIDE DEF rule
      <3>2. filters = With(rules, old, rule)
        BY <2>6 DEF rule
      <3>3. /\ filters \in Partial(Ids, Rule) /\ DOMAIN filters = DOMAIN rules \cup {old}
            /\ filters[old] = rule
            /\ \A id \in DOMAIN rules : id # old => filters[id] = rules[id]
        <4> DEFINE more == With(rules, old, rule)
        <4>0. \A x \in Ids, v \in Rule :
                /\ With(rules, x, v) \in Partial(Ids, Rule)
                /\ DOMAIN With(rules, x, v) = DOMAIN rules \cup {x}
                /\ With(rules, x, v)[x] = v
                /\ \A y \in DOMAIN rules : y # x => With(rules, x, v)[y] = rules[y]
          BY <1>5, RulesWithIs
        <4>1. /\ more \in Partial(Ids, Rule) /\ DOMAIN more = DOMAIN rules \cup {old}
              /\ more[old] = rule
              /\ \A id \in DOMAIN rules : id # old => more[id] = rules[id]
          BY <2>3, <3>1, <4>0
        <4> HIDE DEF more
        <4>2. filters = more
          BY <3>2 DEF more
        <4> QED
          BY <4>1, <4>2
      <3>4. DOMAIN filters \subseteq 1..used /\ used \in 0..MaxId
        BY <1>5, <1>6, <2>2, <2>3, <3>3
      <3>5. Unambiguous(filters)
        BY <1>5, <2>3, <3>1, <3>3 DEF Unambiguous, ManagedIds
      <3> QED
        BY <1>3, <2>1, <2>4, <3>3, <3>4, <3>5 DEF Server, Underway2
    <2> QED
      BY <2>1, <2>5, <2>6
  <1> QED
    BY <1>4, <1>7, <1>8

LEMMA InitIInv == Init => IInv
  <1> SUFFICES ASSUME Init PROVE IInv
    OBVIOUS
  <1>1. /\ Server(filters, used, config, journal, Config) /\ ~Underway2(journal)
        /\ Unambiguous(filters)
    BY ServerInit
  <1>2. /\ world \in Worlds /\ faults = 0 /\ session = [s \in Sessions |-> Idle]
    BY DEF Init
  <1>3. world.faults \in Nat
    BY <1>2, SyncAssumption DEF World
  <1>4. Typed
    <2>1. filters \in Partial(Ids, Rule) /\ IsPartial(filters, Ids, Rule)
      BY <1>1, PartialIs DEF Server
    <2>2. journal \in JournalOf(Config) \cup {None} /\ (journal # None => Valid(journal))
      BY <1>1 DEF Server
    <2>3. journal # None => IsJournal(journal)
      BY <2>2, JournalTyped DEF IsJournal
    <2>4. faults \in 0..world.faults
      BY <1>2, <1>3
    <2>5. TypeOK
      BY <1>1, <1>2, <2>1, <2>2, <2>3, <2>4 DEF TypeOK, Server
    <2> QED
      BY <1>2, <2>1, <2>2, <2>5 DEF Typed
  <1>5. \A s \in Sessions : session[s] = Idle
    BY <1>2
  <1>6. StaticInv /\ DeepInv /\ \A s \in Sessions : Sole(session[s], filters, config, journal)
    BY <1>5, IdleIs DEF StaticInv, DeepInv
  <1>7. JournalInv
    BY <1>1 DEF JournalInv, JournalFits
  <1>8. \A s \in Sessions : At(s, "idle")
    BY <1>5 DEF At, Idle
  <1>9. SoleInv
    BY <1>1, <1>6, <1>8 DEF SoleInv
  <1> QED
    BY <1>4, <1>6, <1>7, <1>9 DEF IInv

\* The invariant holds throughout.
LEMMA SpecIInv == Spec => []IInv
  <1> QED
    BY InitIInv, NextIInv, PTL DEF Spec

\* Types; and the stored journal is one that can be read again, whatever was lost.
THEOREM TypeCorrect == Spec => []TypeOK
  <1>1. IInv => TypeOK
    BY DEF IInv, Typed
  <1> QED
    BY <1>1, SpecIInv, PTL

\* As long as sessions do not overlap, no address ever has two managed rules.
THEOREM OneRule == Spec => []OneRulePerAddress
  <1>1. IInv => OneRulePerAddress
    BY DEF IInv, SoleInv, OneRulePerAddress
  <1> QED
    BY <1>1, SpecIInv, PTL

-----------------------------------------------------------------------------
(***************************************************************************)
(* What a step does to the filters, to the configuration, to the journal.  *)
(***************************************************************************)

\* A rule that stays remains what it is, and one of this system goes only by Delete.
LEMMA FiltersChange ==
  ASSUME IInv, [Next]_vars
  PROVE  /\ \A id \in DOMAIN filters \cap DOMAIN filters' :
              filters'[id].body = filters[id].body
         /\ \A id \in DOMAIN filters \ DOMAIN filters' :
              \/ filters[id].body = Other
              \/ \E s \in Sessions :
                   /\ Delete(s) /\ id = session[s].doc.pending.id
                   /\ DOMAIN filters' = DOMAIN filters \ {id}
  <1> DEFINE OnlyDeleteTakes ==
               /\ \A id \in DOMAIN filters \cap DOMAIN filters' :
                    filters'[id].body = filters[id].body
               /\ \A id \in DOMAIN filters \ DOMAIN filters' :
                    \/ filters[id].body = Other
                    \/ \E s \in Sessions :
                         /\ Delete(s) /\ id = session[s].doc.pending.id
                         /\ DOMAIN filters' = DOMAIN filters \ {id}
  <1>1. /\ filters \in Partial(Ids, Rule) /\ used \in 0..MaxId
        /\ DOMAIN filters \subseteq 1..used /\ MaxId \in Nat
    BY ServerIs, ScopeAssumption DEF Server
  <1>2. CASE UNCHANGED filters
    BY <1>2
  <1>3. ASSUME NEW body, Create(body)
        PROVE  OnlyDeleteTakes
    <2>1. filters' = Created(filters, used + 1, body, Renumbers) /\ used + 1 \notin DOMAIN filters
      BY <1>1, <1>3 DEF Create
    <2>2. /\ DOMAIN filters' = DOMAIN filters \cup {used + 1}
          /\ \A id \in DOMAIN filters : filters'[id] = filters[id]
      BY <2>1 DEF Created, With
    <2> QED
      BY <2>2
  <1>4. ASSUME NEW id \in DOMAIN filters, filters' = Removed(filters, id, Renumbers)
        PROVE  /\ DOMAIN filters' = DOMAIN filters \ {id}
               /\ \A i \in DOMAIN filters \ {id} : filters'[i].body = filters[i].body
    <2> DEFINE less == Removed(filters, id, Renumbers)
    <2>1. /\ DOMAIN less = DOMAIN filters \ {id}
          /\ \A i \in DOMAIN filters \ {id} : less[i].body = filters[i].body
      BY <1>1, RemovedIs
    <2> HIDE DEF less
    <2>2. filters' = less
      BY <1>4 DEF less
    <2> QED
      BY <2>1, <2>2
  <1>5. CASE Strange
    <2>1. CASE Create(Other)
      BY <1>3, <2>1
    <2>2. ASSUME NEW id \in DOMAIN filters, filters[id].body = Other,
                 filters' = Removed(filters, id, Renumbers)
          PROVE  OnlyDeleteTakes
      BY <1>4, <2>2
    <2> QED
      BY <1>5, <2>1, <2>2 DEF Strange
  <1>6. ASSUME NEW s \in Sessions, Delete(s)
        PROVE  OnlyDeleteTakes
    <2> DEFINE id == session[s].doc.pending.id
    <2>1. CASE id \in DOMAIN filters /\ filters' = Removed(filters, id, Renumbers)
      <3>1. /\ DOMAIN filters' = DOMAIN filters \ {id}
            /\ \A i \in DOMAIN filters \ {id} : filters'[i].body = filters[i].body
        BY <1>4, <2>1
      <3> HIDE DEF id
      <3>2. ASSUME NEW i \in DOMAIN filters \ DOMAIN filters'
            PROVE  i = id
        BY <3>1
      <3>3. \A i \in DOMAIN filters \cap DOMAIN filters' : filters'[i].body = filters[i].body
        BY <3>1
      <3> QED
        BY <1>6, <3>1, <3>2, <3>3 DEF id
    <2>2. CASE UNCHANGED filters
      BY <1>2, <2>2
    <2> QED
      BY <1>6, <2>1, <2>2 DEF Delete
  <1>7. ASSUME NEW s \in Sessions, Post(s)
        PROVE  OnlyDeleteTakes
    BY <1>2, <1>3, <1>7 DEF Post
  <1>8. ASSUME NEW s \in Sessions, Start(s) \/ StartEdit(s) \/ GiveUp(s) \/ Die(s)
        PROVE  OnlyDeleteTakes
    BY <1>2, <1>8 DEF Start, StartEdit, GiveUp, Die, serverVars
  <1>9. ASSUME NEW s \in Sessions, Step(s)
        PROVE  OnlyDeleteTakes
    <2>1. Delete(s) \/ Post(s) \/ UNCHANGED filters
      BY <1>9 DEF Step, ReadJournal, Discover, Plan, Confirm, Prepare, Save, Scan, Add, Added,
        ScanOld, Retire, RetireEnds, ScanAll, Audit, ReadConfig, SwapConfig, ReadBack,
        FinalConfig, Verify, ClosePlan, Close, Edit, serverVars
    <2> QED
      BY <1>2, <1>6, <1>7, <2>1
  <1>10. CASE UNCHANGED vars
    BY <1>2, <1>10 DEF vars, serverVars
  <1> QED
    BY <1>5, <1>8, <1>9, <1>10 DEF Next

\* The last rule of an address that the plan wants is not deleted: it is a legacy one, and
\* the managed one was there before the plan or has been created since.
LEMMA StaysCovered ==
  ASSUME NEW C, NEW e, NEW r, NEW rules, NEW last, NEW j, AtWork(r, C, e, rules, last, j),
         r.pc = "delete", r.doc.pending.id \in DOMAIN rules, JournalFits(j, rules, last),
         NEW a \in j.targets, rules[r.doc.pending.id].body \in {Managed(a), Legacy(a)}
  PROVE  \E i \in DOMAIN rules : i # r.doc.pending.id /\ rules[i].body = Managed(a)
  <1> DEFINE d == r.doc
             id == d.pending.id
  <1>1. /\ id \in DOMAIN d.old /\ d.old[id] = rules[id].body
        /\ Underway2(j) /\ SameIntent(j, d) /\ NewPresent(d, rules)
    BY DeleteIs
  <1>2. /\ Place(r) = "delete" /\ Holds(r) = d /\ Agrees(d, rules, last, j)
    BY AtWorkIs
  <1>3. \A body \in d.new : Noted(d, body)
    BY <1>2 DEF AtWork, Static, Progress, Finishing, Retiring
  <1>4. Sound(j) /\ KnownRules(j.unrelated, rules, last)
        /\ (NoLegacy(rules) \/ ManagedKept(j.unrelated, rules))
    BY <1>1 DEF JournalFits, Agrees
  <1>5. j.old = d.old /\ j.new = d.new
    BY <1>1, SameIntentIs
  <1> HIDE DEF d
  <1>6. rules[id].body = Legacy(a)
    BY <1>1, <1>4, <1>5 DEF Sound, d
  <1>7. Managed(a) # Legacy(a)
    BY DEF Managed, Legacy
  <1>8. CASE Managed(a) \in d.new
    <2>1. PICK i \in DOMAIN d.newIds : d.newIds[i] = Managed(a)
      BY <1>3, <1>8 DEF Noted
    <2>2. i \in DOMAIN rules /\ rules[i].body = Managed(a)
      BY <1>1, <1>2, <2>1 DEF NewPresent, Agrees, KnownBodies
    <2> QED
      BY <1>6, <1>7, <2>2 DEF d
  <1>9. CASE Managed(a) \notin d.new
    <2>1. PICK i \in DOMAIN j.unrelated : j.unrelated[i].body = Managed(a)
      BY <1>4, <1>5, <1>9 DEF Sound
    <2>2. ~NoLegacy(rules)
      BY <1>6 DEF NoLegacy, Legacy, d
    <2>3. i \in DOMAIN rules
      BY <1>4, <2>1, <2>2 DEF ManagedKept, Managed
    <2>4. rules[i].body = Managed(a)
      BY <1>4, <2>1, <2>3 DEF KnownRules
    <2> QED
      BY <1>6, <1>7, <2>3, <2>4 DEF d
  <1> QED
    BY <1>8, <1>9

\* Nobody loses notifications by being kept as a target, however sessions overlap.
THEOREM CoverageKept == Spec => CoverageIsKept
  <1>1. ASSUME IInv, [Next]_vars
        PROVE  \A a \in Address : Covered(a) /\ ~Covered(a)' => a \notin journal.targets
    <2> SUFFICES ASSUME NEW a \in Address, Covered(a), ~Covered(a)', a \in journal.targets
                 PROVE  FALSE
      OBVIOUS
    <2>1. PICK id \in DOMAIN filters : filters[id].body \in {Managed(a), Legacy(a)}
      BY DEF Covered, Bodies
    <2>2. \A i \in DOMAIN filters' : filters'[i].body \notin {Managed(a), Legacy(a)}
      BY DEF Covered, Bodies
    <2>3. \A i \in DOMAIN filters \cap DOMAIN filters' : filters'[i].body = filters[i].body
      BY <1>1, FiltersChange
    <2>4. id \notin DOMAIN filters'
      BY <2>1, <2>2, <2>3
    <2>5. filters[id].body # Other
      BY <2>1 DEF Managed, Legacy, Other
    <2>6. PICK s \in Sessions :
            /\ Delete(s) /\ id = session[s].doc.pending.id
            /\ DOMAIN filters' = DOMAIN filters \ {id}
      BY <1>1, <2>1, <2>4, <2>5, FiltersChange
    <2> DEFINE r == session[s]
    <2>7. r.pc = "delete" /\ r.pc \in Working
      BY <2>6 DEF Delete, At, Working, Finishing, Retiring
    <2>8. AtWork(r, Config, world.edits, filters, used, journal)
      BY <1>1, <2>7, AtWorkNow
    <2>9. JournalFits(journal, filters, used)
      BY <1>1, ServerIs
    <2> HIDE DEF r
    <2>10. r.doc.pending.id = id
      BY <2>6 DEF r
    <2>11. PICK i \in DOMAIN filters : i # r.doc.pending.id /\ filters[i].body = Managed(a)
      BY <2>1, <2>7, <2>8, <2>9, <2>10, StaysCovered
    <2> QED
      BY <2>2, <2>3, <2>6, <2>10, <2>11
  <1> QED
    BY <1>1, SpecIInv, PTL DEF Spec, CoverageIsKept

\* Nothing is taken away that nobody agreed to: a rule of this system disappears only while
\* the stored journal wants it retired (as its pending deletion, unless sessions overlap),
\* and no writer of the configuration undoes what another one wrote.
THEOREM NothingTaken == Spec => NothingIsTaken
  <1>1. ASSUME IInv, [Next]_vars
        PROVE  \A id \in DOMAIN filters \ DOMAIN filters' :
                 \/ filters[id].body = Other
                 \/ /\ Underway(journal) /\ id \in DOMAIN journal.old
                    /\ journal.old[id] = filters[id].body
                    /\ world.kind # "shared" =>
                         journal.pending = PendingDelete(id, filters[id].body)
    <2> SUFFICES ASSUME NEW id \in DOMAIN filters \ DOMAIN filters', filters[id].body # Other
                 PROVE  /\ Underway(journal) /\ id \in DOMAIN journal.old
                        /\ journal.old[id] = filters[id].body
                        /\ world.kind # "shared" =>
                             journal.pending = PendingDelete(id, filters[id].body)
      OBVIOUS
    <2>1. PICK s \in Sessions : Delete(s) /\ id = session[s].doc.pending.id
      BY <1>1, FiltersChange
    <2> DEFINE r == session[s]
               d == r.doc
    <2>2. r.pc = "delete" /\ r.pc \in Working
      BY <2>1 DEF Delete, At, Working, Finishing, Retiring
    <2>3. AtWork(r, Config, world.edits, filters, used, journal)
      BY <1>1, <2>2, AtWorkNow
    <2> HIDE DEF r
    <2>4. r.doc.pending.id = id
      BY <2>1 DEF r
    <2>5. /\ id \in DOMAIN d.old /\ d.pending = PendingDelete(id, d.old[id])
          /\ d.old[id] = filters[id].body
          /\ Underway2(journal) /\ SameIntent(journal, d)
      BY <2>2, <2>3, <2>4, DeleteIs
    <2>6. journal.old = d.old
      BY <2>5, SameIntentIs
    <2>7. HasDoc(r)
      BY <2>2 DEF HasDoc
    <2>8. world.kind # "shared" => journal = d
      BY <1>1, <2>7, SessionIs DEF Sole, r
    <2> QED
      BY <2>5, <2>6, <2>8 DEF Underway2
  <1>2. ASSUME IInv, [Next]_vars
        PROVE  config'.rest >= config.rest
    <2>1. config.rest \in Int
      <3>1. config \in Config
        BY <1>2, ServerIs DEF Server
      <3> QED
        BY <3>1 DEF Config
    <2>2. CASE UNCHANGED config
      BY <2>1, <2>2
    <2>3. ASSUME NEW s \in Sessions, SwapConfig(s)
          PROVE  config'.rest >= config.rest
      <3>1. CASE config = session[s].cfg /\ config' = Wanted(session[s])
        BY <2>1, <3>1 DEF Wanted
      <3> QED
        BY <2>2, <2>3, <3>1 DEF SwapConfig
    <2>4. ASSUME NEW s \in Sessions, Edit(s)
          PROVE  config'.rest >= config.rest
      <3>1. CASE config = session[s].cfg /\ config' = [session[s].cfg EXCEPT !.rest = @ + 1]
        <4>1. config \in Config
          BY <1>2, ServerIs DEF Server
        <4>2. config'.rest = config.rest + 1
          BY <3>1, <4>1 DEF Config
        <4> QED
          BY <2>1, <4>2
      <3> QED
        BY <2>2, <2>4, <3>1 DEF Edit
    <2>5. ASSUME NEW s \in Sessions, Step(s)
          PROVE  config'.rest >= config.rest
      <3>1. SwapConfig(s) \/ Edit(s) \/ UNCHANGED config
        BY <2>5 DEF Step, ReadJournal, Discover, Plan, Confirm, Prepare, Save, Scan, Add, Post,
          Added, ScanOld, Retire, Delete, RetireEnds, ScanAll, Audit, ReadConfig, ReadBack,
          FinalConfig, Verify, ClosePlan, Close, serverVars
      <3> QED
        BY <2>2, <2>3, <2>4, <3>1
    <2>6. ASSUME NEW s \in Sessions, Start(s) \/ StartEdit(s) \/ GiveUp(s) \/ Die(s)
          PROVE  UNCHANGED config
      BY <2>6 DEF Start, StartEdit, GiveUp, Die, serverVars
    <2>7. CASE Strange \/ UNCHANGED vars
      BY <2>2, <2>7 DEF Strange, vars, serverVars
    <2> QED
      BY <1>2, <2>2, <2>5, <2>6, <2>7 DEF Next
  <1> QED
    BY <1>1, <1>2, SpecIInv, PTL DEF Spec, NothingIsTaken, DeletionsAreAuthorised, EditsAreKept

\* Where sessions do not overlap, a transaction that is declared complete is complete.
THEOREM CompletionTrue == Spec /\ world.kind # "shared" => CompletionIsTrue
  <1> DEFINE AllDone == IF journal.schema = 1
                      THEN \A body \in journal.new : body \in Bodies(filters)
                      ELSE /\ {filters[id].body : id \in ManagedIds(filters)}
                              = {Managed(a) : a \in journal.targets}
                           /\ LegacyIds(filters) = {}
                           /\ config.targets = journal.targets
                           /\ config.pinned = journal.pinned
  <1>1. ASSUME IInv, [Next]_vars, Underway(journal), ~Underway(journal'), world.kind # "shared"
        PROVE  AllDone
    <2>1. PICK s \in Sessions : Save(s) /\ ~UNCHANGED journal
      <3>0. ~UNCHANGED journal
        BY <1>1
      <3>1. ASSUME NEW s \in Sessions, Step(s)
            PROVE  Save(s)
        <4>1. ~Prepare(s)
          BY <1>1, <3>0 DEF Prepare
        <4> QED
          BY <3>0, <3>1, <4>1 DEF Step, ReadJournal, Discover, Plan, Confirm, Scan, Add, Post,
            Added, ScanOld, Retire, Delete, RetireEnds, ScanAll, Audit, ReadConfig, SwapConfig,
            ReadBack, FinalConfig, Verify, ClosePlan, Close, Edit, serverVars
      <3>2. ASSUME NEW s \in Sessions, Start(s) \/ StartEdit(s) \/ GiveUp(s) \/ Die(s)
            PROVE  UNCHANGED journal
        BY <3>2 DEF Start, StartEdit, GiveUp, Die, serverVars
      <3>3. ~Strange /\ ~UNCHANGED vars
        BY <3>0 DEF Strange, vars, serverVars
      <3> QED
        BY <1>1, <3>0, <3>1, <3>2, <3>3 DEF Next
    <2> DEFINE r == session[s]
               n == r.next
    <2>2. r.pc = "save" /\ journal \in {r.doc, n} /\ journal' = n /\ journal = r.doc
      <3>1. r.pc = "save" /\ journal \in {r.doc, n} /\ journal' = n
        BY <2>1 DEF Save, At, Swappable
      <3> QED
        BY <1>1, <3>1
    <2>3. Static(r, Config, world.edits) /\ Deep(r, filters, used, journal)
      BY <1>1, SessionIs
    <2>4. Sole(r, filters, config, journal)
      BY <1>1, SessionIs
    <2>5. /\ n \in JournalOf(Config) /\ SameIntent(r.doc, n) /\ n.schema = r.doc.schema
          /\ n.phase = "committed" <=> r.then = "idle"
      BY <2>2, <2>3 DEF Static, Shape, SavingShape
    <2>6. n # None
      <3>1. Config \subseteq [pinned : SUBSET Address, targets : SUBSET Address, rest : Nat]
        BY <1>1, ServerIs
      <3> HIDE DEF n
      <3> QED
        BY <2>5, <3>1, NoneIsNoJournal
    <2>7. r.then = "idle"
      BY <1>1, <2>2, <2>5, <2>6 DEF Underway
    <2>8. /\ journal.new = n.new /\ journal.targets = n.targets /\ journal.pinned = n.pinned
          /\ journal.schema = n.schema
      BY <2>2, <2>5, SameIntentIs
    <2> HIDE DEF r, n
    <2>9. CASE journal.schema = 1
      <3>1. UnderwayOne(journal)
        BY <1>1, <2>9 DEF UnderwayOne
      <3>2. \A body \in n.new : \E id \in DOMAIN filters : filters[id].body = body
        BY <2>2, <2>3, <2>7, <3>1 DEF Deep, Ending, n
      <3> QED
        BY <2>8, <2>9, <3>2 DEF Bodies
    <2>10. CASE journal.schema # 1
      <3>1. n.schema = 2
        BY <2>5, <2>8, <2>10 DEF JournalOf
      <3>2. Complete(n, filters, config)
        BY <2>2, <2>4, <2>7, <3>1 DEF Sole, n
      <3> QED
        BY <2>8, <2>10, <3>2 DEF Complete
    <2> QED
      BY <2>9, <2>10
  <1>2. ASSUME IInv, world.kind # "shared", [Next]_vars
        PROVE  Underway(journal) /\ ~Underway(journal') /\ (world.kind = "shared" => syncs <= 1) =>
                 IF journal.schema = 1
                 THEN \A body \in journal.new : body \in Bodies(filters)
                 ELSE /\ {filters[id].body : id \in ManagedIds(filters)}
                         = {Managed(a) : a \in journal.targets}
                      /\ LegacyIds(filters) = {}
                      /\ config.targets = journal.targets /\ config.pinned = journal.pinned
    BY <1>1, <1>2
  <1>3. ASSUME world.kind # "shared", [Next]_vars
        PROVE  (world.kind # "shared")'
    <2>1. ASSUME NEW s \in Sessions, Step(s)
          PROVE  UNCHANGED world
      BY <2>1 DEF Step, Prepare, Save, ReadJournal, Discover, Plan, Confirm, Scan, Add, Post,
        Added, ScanOld, Retire, Delete, RetireEnds, ScanAll, Audit, ReadConfig, SwapConfig,
        ReadBack, FinalConfig, Verify, ClosePlan, Close, Edit
    <2>2. ASSUME NEW s \in Sessions, Start(s) \/ StartEdit(s) \/ GiveUp(s) \/ Die(s)
          PROVE  UNCHANGED world
      BY <2>2 DEF Start, StartEdit, GiveUp, Die
    <2>3. ASSUME Strange \/ UNCHANGED vars
          PROVE  UNCHANGED world
      BY <2>3 DEF Strange, vars
    <2> QED
      BY <1>3, <2>1, <2>2, <2>3 DEF Next
  <1> QED
    BY <1>2, <1>3, SpecIInv, PTL DEF Spec, CompletionIsTrue
=============================================================================
