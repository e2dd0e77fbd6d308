------------------------- MODULE DeliveryOutboxProofs -----------------------
(***************************************************************************)
(* Proofs about DeliveryOutbox, for any messages, processes, capacity and  *)
(* times.  The argument: a token is given out once (TokensDiffer), so that *)
(* a record in flight can be settled only by the process that has it, and  *)
(* a revision is given out once, so that a record with the revision of a   *)
(* listed row is that row.                                                 *)
(***************************************************************************)
EXTENDS DeliveryOutbox, FiniteSetTheorems, TLAPS

(***************************************************************************)
(* The inductive invariant.                                                *)
(***************************************************************************)
HolderInv ==
  \A c \in Callers :
    held[c] # None /\ ~Expired(held[c].born) =>
      /\ items[held[c].id] # None
      /\ items[held[c].id].state = "in_flight"
      /\ items[held[c].id].token = held[c].token
      /\ items[held[c].id].created = held[c].born

TokensDiffer ==
  \A c, d \in Callers :
    c # d /\ held[c] # None /\ held[d] # None => held[c].token # held[d].token

RowInv ==
  \A c \in Callers :
    selection[c] # None /\ items[selection[c].id] # None
      /\ items[selection[c].id].rev = selection[c].item.rev
      => items[selection[c].id] = selection[c].item

IInv == TypeOK /\ NeverOverfull /\ HolderInv /\ TokensDiffer /\ RowInv

(***************************************************************************)
(* What an operation does to the file: a record is kept, or it is dropped  *)
(* and was expired or delivered, except for one that gets a new revision.  *)
(***************************************************************************)
Kept(store, j) ==
  \/ store[j] = items[j]
  \/ /\ store[j] = None
     /\ items[j] # None
     /\ Expired(items[j].created) \/ items[j].state = "delivered"

WellFormed(store) ==
  /\ store \in [Ids -> Item \cup {None}]
  /\ \A i \in Ids : store[i] # None => ((store[i].state = "in_flight") <=> (store[i].token # None))

Rewritten(store, i, n) ==
  /\ WellFormed(store)
  /\ Cardinality(Stored(store)) <= MaxItems
  /\ store[i] # None
  /\ store[i].rev = n
  /\ \A j \in Ids \ {i} : Kept(store, j)

\* A fresh name is a name that no record, token or listed row has.
LEMMA FreshIsUnused ==
  ASSUME NEW n \in FreshNonces
  PROVE  n \in Nonces /\ n \notin UsedNonces
<1>1. CASE Nonces \subseteq UsedNonces
  BY <1>1 DEF FreshNonces
<1>2. CASE ~(Nonces \subseteq UsedNonces)
  <2>1. \E x \in Nonces : x \notin UsedNonces
    BY <1>2
  <2>2. n = CHOOSE x \in Nonces : x \notin UsedNonces
    BY <1>2 DEF FreshNonces
  <2> QED
    BY <2>1, <2>2
<1> QED
  BY <1>1, <1>2

\* In the words of the invariant.
LEMMA FreshDiffers ==
  ASSUME TypeOK, NEW n \in FreshNonces
  PROVE  /\ n \in Nonces /\ n # None
         /\ \A c \in Callers : held[c] # None => held[c].token # n
         /\ \A c \in Callers : selection[c] # None => selection[c].item.rev # n
<1>1. n \in Nonces /\ n \notin UsedNonces
  BY FreshIsUnused
<1> QED
  BY <1>1, OutboxAssumption DEF UsedNonces

\* Dropping the expired records keeps the file well formed and within its limit.
LEMMA LiveFits ==
  ASSUME TypeOK, NeverOverfull
  PROVE  /\ WellFormed(Live)
         /\ IsFiniteSet(Stored(Live)) /\ Cardinality(Stored(Live)) <= MaxItems
         /\ \A j \in Ids : Kept(Live, j)
<1>1. WellFormed(Live) /\ \A j \in Ids : Kept(Live, j)
  BY DEF WellFormed, Live, TypeOK, Kept, Stored
<1>2. Stored(Live) \subseteq Stored(items) /\ Stored(items) \subseteq Ids
  BY DEF Stored, Live
<1>3. IsFiniteSet(Stored(items))
  BY <1>2, FS_Subset, OutboxAssumption
<1>4. /\ IsFiniteSet(Stored(Live))
      /\ Cardinality(Stored(Live)) <= Cardinality(Stored(items))
      /\ Cardinality(Stored(Live)) \in Nat /\ Cardinality(Stored(items)) \in Nat
  BY <1>2, <1>3, FS_Subset, FS_CardinalityType
<1> QED
  BY <1>1, <1>4, OutboxAssumption DEF NeverOverfull

\* A record in flight under a fresh name.
LEMMA InFlightItem ==
  ASSUME TypeOK, NEW n \in FreshNonces
  PROVE  InFlight(n, now) \in Item /\ InFlight(n, now) # None
<1>1. InFlight(n, now) \in Item
  BY FreshDiffers DEF InFlight, Item, States, TypeOK
<1> QED
  BY <1>1, AbsenceAssumption

\* begin() replaces at most one delivered record, and stays within the limit.
LEMMA InsertionRewrites ==
  ASSUME TypeOK, NeverOverfull, NEW id \in Ids, Live[id] = None,
         NEW n \in FreshNonces, NEW new \in Insertions(Live, id, InFlight(n, now))
  PROVE  Rewritten(new, id, n) /\ new[id] = InFlight(n, now)
<1> DEFINE item == InFlight(n, now)
<1>1. item \in Item /\ item # None /\ item.rev = n /\ item.token = n /\ item.state = "in_flight"
  BY InFlightItem DEF InFlight
<1>2. n # None
  BY FreshDiffers
<1>3. WellFormed(Live) /\ \A j \in Ids : Kept(Live, j)
  BY LiveFits
<1>4. /\ IsFiniteSet(Stored(Live)) /\ Cardinality(Stored(Live)) \in Nat
      /\ Cardinality(Stored(Live)) <= MaxItems
  BY LiveFits, FS_CardinalityType
<1>5. id \notin Stored(Live)
  BY DEF Stored
<1> HIDE DEF item
<1>6. CASE Cardinality(Stored(Live)) < MaxItems
  <2>1. new = [Live EXCEPT ![id] = item]
    BY <1>6 DEF Insertions, item
  <2>2. WellFormed(new) /\ new[id] = item /\ \A j \in Ids \ {id} : Kept(new, j)
    BY <1>1, <1>2, <1>3, <2>1 DEF WellFormed, Kept
  <2>3. Stored(new) = Stored(Live) \cup {id}
    BY <1>1, <1>3, <2>1 DEF Stored, WellFormed
  <2>4. Cardinality(Stored(new)) = Cardinality(Stored(Live)) + 1
    BY <1>4, <1>5, <2>3, FS_AddElement
  <2> QED
    BY <1>1, <1>4, <1>6, <2>2, <2>4, OutboxAssumption DEF Rewritten, item
<1>7. CASE ~(Cardinality(Stored(Live)) < MaxItems)
  <2>1. PICK v \in OldestDelivered(Live) : new = [Live EXCEPT ![v] = None, ![id] = item]
    BY <1>7 DEF Insertions, item
  <2>2. v \in Stored(Live) /\ v \in Ids /\ v # id /\ Live[v].state = "delivered"
    BY <1>5, <2>1 DEF OldestDelivered, Stored
  <2>3. new[id] = item /\ new[v] = None /\ \A j \in Ids \ {id, v} : new[j] = Live[j]
    BY <1>3, <2>1, <2>2 DEF WellFormed
  <2>4. Live[v] = items[v] /\ items[v] # None
    BY <1>3, <2>2 DEF Kept, Stored
  <2>5. \A j \in Ids \ {id} : Kept(new, j)
    BY <1>3, <2>2, <2>3, <2>4 DEF Kept
  <2>6. WellFormed(new)
    BY <1>1, <1>2, <1>3, <2>1, <2>2 DEF WellFormed
  <2>7. Stored(new) = (Stored(Live) \ {v}) \cup {id}
    BY <1>1, <1>5, <2>2, <2>3 DEF Stored
  <2>8. /\ IsFiniteSet(Stored(Live) \ {v})
        /\ Cardinality(Stored(Live) \ {v}) = Cardinality(Stored(Live)) - 1
    BY <1>4, <2>2, FS_RemoveElement
  <2>9. Cardinality(Stored(new)) = Cardinality(Stored(Live) \ {v}) + 1
    BY <1>5, <2>7, <2>8, FS_AddElement
  <2> QED
    BY <1>1, <1>4, <2>3, <2>5, <2>6, <2>8, <2>9, OutboxAssumption DEF Rewritten, item
<1> QED
  BY <1>6, <1>7

\* A record of the file that is changed in place leaves the rest as it is.
LEMMA ChangeRewrites ==
  ASSUME TypeOK, NeverOverfull, NEW i \in Ids, Live[i] # None,
         NEW item \in Item, (item.state = "in_flight") <=> (item.token # None)
  PROVE  Rewritten([Live EXCEPT ![i] = item], i, item.rev)
<1> DEFINE new == [Live EXCEPT ![i] = item]
<1>1. WellFormed(Live) /\ \A j \in Ids : Kept(Live, j)
  BY LiveFits
<1>2. item # None
  BY AbsenceAssumption
<1>3. new[i] = item /\ \A j \in Ids \ {i} : new[j] = Live[j]
  BY <1>1 DEF WellFormed
<1>4. WellFormed(new) /\ \A j \in Ids \ {i} : Kept(new, j)
  BY <1>1, <1>2, <1>3 DEF WellFormed, Kept
<1>5. Stored(new) = Stored(Live)
  BY <1>2, <1>3 DEF Stored
<1> QED
  BY <1>2, <1>3, <1>4, <1>5, LiveFits DEF Rewritten

\* finish() gives the record its outcome and a new revision.
LEMMA OutcomeRewrites ==
  ASSUME TypeOK, NeverOverfull, NEW c \in Callers, held[c] # None, Owns(c),
         NEW s \in States \ {"in_flight"}, NEW n \in FreshNonces
  PROVE  /\ Rewritten(Outcome(c, s, n), held[c].id, n)
         /\ Outcome(c, s, n)[held[c].id].created = items[held[c].id].created
<1> DEFINE i == held[c].id
           item == [Live[i] EXCEPT !.state = s, !.token = None, !.rev = n]
<1>1. i \in Ids /\ Live[i] # None /\ Live[i] = items[i] /\ Live[i] \in Item
  BY LiveFits DEF TypeOK, Claim, Owns, Kept, WellFormed
<1>2. item \in Item /\ item.state # "in_flight" /\ item.token = None /\ item.rev = n
      /\ item.created = Live[i].created
  BY <1>1, FreshDiffers DEF Item
<1>3. Outcome(c, s, n) = [Live EXCEPT ![i] = item]
  BY DEF Outcome
<1>4. Rewritten(Outcome(c, s, n), i, n)
  BY <1>1, <1>2, <1>3, ChangeRewrites
<1>5. Outcome(c, s, n)[i] = item
  BY <1>1, <1>3, LiveFits DEF WellFormed
<1> QED
  BY <1>1, <1>2, <1>4, <1>5

\* claimSelected() puts a pending record in flight under a new name.
LEMMA ClaimRewrites ==
  ASSUME TypeOK, NeverOverfull, NEW row \in Row, Claimable(row), NEW n \in FreshNonces
  PROVE  /\ Rewritten(Claimed(row, n), row.id, n)
         /\ Claimed(row, n)[row.id].state = "in_flight"
         /\ Claimed(row, n)[row.id].token = n
         /\ Claimed(row, n)[row.id].created = items[row.id].created
         /\ Live[row.id] = items[row.id]
<1> DEFINE i == row.id
           item == [Live[i] EXCEPT !.state = "in_flight", !.token = n, !.rev = n]
<1>1. i \in Ids /\ Live[i] # None /\ Live[i] = items[i] /\ Live[i] \in Item
  BY LiveFits DEF Row, Claimable, Kept, WellFormed
<1>2. item \in Item /\ item.state = "in_flight" /\ item.token = n /\ item.token # None /\ item.rev = n
      /\ item.created = Live[i].created
  BY <1>1, FreshDiffers DEF Item, States
<1>3. Claimed(row, n) = [Live EXCEPT ![i] = item]
  BY DEF Claimed
<1>4. Rewritten(Claimed(row, n), i, n)
  BY <1>1, <1>2, <1>3, ChangeRewrites
<1>5. Claimed(row, n)[i] = item
  BY <1>1, <1>3, LiveFits DEF WellFormed
<1> QED
  BY <1>1, <1>2, <1>4, <1>5

(***************************************************************************)
(* Every step preserves the invariant.                                     *)
(***************************************************************************)
HoldsRecord(c) ==
  held[c] # None /\ ~Expired(held[c].born) =>
    /\ items[held[c].id] # None
    /\ items[held[c].id].state = "in_flight"
    /\ items[held[c].id].token = held[c].token
    /\ items[held[c].id].created = held[c].born

\* A caller keeps the record it holds when another record is rewritten.
LEMMA OthersKeepTheirRecord ==
  ASSUME IInv, NEW c \in Callers, held'[c] = held[c], UNCHANGED now,
         held[c] # None => Kept(items', held[c].id)
  PROVE  HoldsRecord(c)'
  BY DEF IInv, HolderInv, HoldsRecord, Kept, Expired

\* A listed row stays what it is, or becomes stale, when a record is rewritten.
LEMMA RowsSurvive ==
  ASSUME IInv, NEW i \in Ids, NEW n \in FreshNonces, Rewritten(items', i, n),
         \A c \in Callers : selection'[c] \in {selection[c], None}
  PROVE  RowInv'
<1> SUFFICES ASSUME NEW c \in Callers, selection[c] # None, selection'[c] = selection[c],
                    items'[selection[c].id] # None,
                    items'[selection[c].id].rev = selection[c].item.rev
             PROVE  items'[selection[c].id] = selection[c].item
  BY DEF RowInv
<1>1. selection[c].id \in Ids /\ selection[c].item.rev # n
  BY FreshDiffers DEF IInv, TypeOK, Row
<1>2. Kept(items', selection[c].id)
  BY <1>1 DEF Rewritten
<1> QED
  BY <1>2 DEF IInv, RowInv, Kept

\* The same when records are only dropped.
LEMMA RowsSurviveDropping ==
  ASSUME IInv, \A j \in Ids : Kept(items', j),
         \A c \in Callers : selection'[c] \in {selection[c], None}
  PROVE  RowInv'
<1> SUFFICES ASSUME NEW c \in Callers, selection[c] # None, selection'[c] = selection[c],
                    items'[selection[c].id] # None,
                    items'[selection[c].id].rev = selection[c].item.rev
             PROVE  items'[selection[c].id] = selection[c].item
  BY DEF RowInv
<1>1. selection[c].id \in Ids
  BY DEF IInv, TypeOK, Row
<1> QED
  BY <1>1 DEF IInv, RowInv, Kept

\* The file of a well-formed step satisfies the first two conjuncts.
LEMMA FileFits ==
  ASSUME TypeOK, WellFormed(items'), Cardinality(Stored(items')) <= MaxItems, UNCHANGED now,
         held' \in [Callers -> Claim \cup {None}], selection' \in [Callers -> Row \cup {None}]
  PROVE  TypeOK' /\ NeverOverfull'
<1>1. NeverOverfull'
  BY DEF NeverOverfull, Stored
<1> QED
  BY <1>1 DEF TypeOK, WellFormed, Stored

\* An empty file satisfies the invariant.
LEMMA InitIInv == Init => IInv
<1> SUFFICES ASSUME Init PROVE IInv
  OBVIOUS
<1>1. Stored(items) = {}
  BY DEF Init, Stored
<1>2. Cardinality(Stored(items)) = 0
  BY <1>1, FS_EmptySet
<1> QED
  BY <1>1, <1>2, OutboxAssumption
     DEF Init, IInv, TypeOK, NeverOverfull, HolderInv, TokensDiffer, RowInv, Stored

\* A step that drops records at most, and takes from callers at most.
LEMMA DroppingIInv ==
  ASSUME IInv, UNCHANGED now, items' \in {items, Live},
         held' \in [Callers -> Claim \cup {None}], selection' \in [Callers -> Row \cup {None}],
         \A c \in Callers : held'[c] \in {held[c], None},
         \A c \in Callers : selection'[c] \in {selection[c], None}
  PROVE  IInv'
<1>1. WellFormed(items') /\ Cardinality(Stored(items')) <= MaxItems
  BY LiveFits DEF IInv, TypeOK, NeverOverfull, WellFormed, Stored
<1>2. TypeOK' /\ NeverOverfull'
  BY <1>1, FileFits DEF IInv
<1>3. \A j \in Ids : Kept(items', j)
  BY LiveFits DEF IInv, Kept
<1>4. HolderInv'
  <2> SUFFICES ASSUME NEW c \in Callers, held'[c] # None PROVE HoldsRecord(c)'
    BY DEF HolderInv, HoldsRecord
  <2>1. held'[c] = held[c] /\ held[c].id \in Ids
    BY DEF IInv, TypeOK, Claim
  <2> QED
    BY <1>3, <2>1, OthersKeepTheirRecord
<1>5. TokensDiffer'
  BY DEF IInv, TokensDiffer
<1> QED
  BY <1>2, <1>3, <1>4, <1>5, RowsSurviveDropping DEF IInv

\* A step that rewrites a record nobody holds unexpired, and whose new token, if
\* a caller gets it, is for that record as it now is.
LEMMA RewritingIInv ==
  ASSUME IInv, UNCHANGED now, NEW i \in Ids, NEW n \in FreshNonces, Rewritten(items', i, n),
         held' \in [Callers -> Claim \cup {None}], selection' \in [Callers -> Row \cup {None}],
         \A c \in Callers : selection'[c] \in {selection[c], None},
         NEW a \in Callers,
         \A c \in Callers \ {a} :
           held'[c] = held[c] /\ (held[c] # None /\ held[c].id = i => Expired(held[c].born)),
         \/ held'[a] = None
         \/ held'[a] = held[a] /\ (held[a] # None /\ held[a].id = i => Expired(held[a].born))
         \/ /\ held'[a] = [id |-> i, token |-> n, born |-> items'[i].created]
            /\ items'[i].state = "in_flight" /\ items'[i].token = n
  PROVE  IInv'
<1>1. TypeOK' /\ NeverOverfull'
  BY FileFits DEF IInv, Rewritten
<1>2. ASSUME NEW c \in Callers, held'[c] = held[c],
             held[c] # None /\ held[c].id = i => Expired(held[c].born)
      PROVE  HoldsRecord(c)'
  <2>1. held'[c] = held[c] /\ (held[c] # None => held[c].id \in Ids)
    BY <1>2 DEF IInv, TypeOK, Claim
  <2>2. CASE held[c] # None /\ held[c].id = i
    BY <1>2, <2>1, <2>2 DEF HoldsRecord, Expired
  <2>3. CASE ~(held[c] # None /\ held[c].id = i)
    BY <2>1, <2>3, OthersKeepTheirRecord DEF Rewritten
  <2> QED
    BY <2>2, <2>3
<1>3. HoldsRecord(a)'
  BY <1>2 DEF HoldsRecord, Rewritten
<1>4. HolderInv'
  BY <1>2, <1>3 DEF HolderInv, HoldsRecord
<1>5. TokensDiffer'
  <2>1. \A c \in Callers \ {a} : held'[c] = held[c] /\ (held[c] # None => held[c].token # n)
    BY FreshDiffers DEF IInv
  <2>2. held'[a] \in {None, held[a]} \/ held'[a].token = n
    OBVIOUS
  <2> QED
    BY <2>1, <2>2 DEF IInv, TokensDiffer
<1> QED
  BY <1>1, <1>4, <1>5, RowsSurvive DEF IInv

\* Nobody holds an unexpired record that begin() finds absent.
LEMMA AbsentIsUnheld ==
  ASSUME IInv, NEW i \in Ids, Live[i] = None, NEW c \in Callers, held[c] # None, held[c].id = i
  PROVE  Expired(held[c].born)
  BY DEF IInv, HolderInv, Live

\* Nobody holds an unexpired record that is not in flight.
LEMMA SettledIsUnheld ==
  ASSUME IInv, NEW i \in Ids, items[i].state # "in_flight",
         NEW c \in Callers, held[c] # None, held[c].id = i
  PROVE  Expired(held[c].born)
  BY DEF IInv, HolderInv

\* begin() takes an absent record for its caller.
LEMMA BeginIInv ==
  ASSUME IInv, NEW c \in Callers, NEW id \in Ids, Begin(c, id)
  PROVE  IInv'
<1>1. PICK n \in FreshNonces :
        /\ items' \in Insertions(Live, id, InFlight(n, now))
        /\ held' = [held EXCEPT ![c] = [id |-> id, token |-> n, born |-> now]]
  BY DEF Begin
<1>2. Rewritten(items', id, n) /\ items'[id] = InFlight(n, now)
  BY <1>1, InsertionRewrites DEF IInv, Begin
<1>3. held' \in [Callers -> Claim \cup {None}]
  BY <1>1, FreshDiffers DEF IInv, TypeOK, Claim
<1>4. \A d \in Callers \ {c} :
        held'[d] = held[d] /\ (held[d] # None /\ held[d].id = id => Expired(held[d].born))
  BY <1>1, AbsentIsUnheld DEF IInv, TypeOK, Begin
<1>5. /\ held'[c] = [id |-> id, token |-> n, born |-> items'[id].created]
      /\ items'[id].state = "in_flight" /\ items'[id].token = n
  BY <1>1, <1>2 DEF IInv, TypeOK, InFlight
<1>6. selection' \in [Callers -> Row \cup {None}] /\ UNCHANGED <<now, selection>>
  BY DEF IInv, TypeOK, Begin
<1> QED
  BY <1>2, <1>3, <1>4, <1>5, <1>6, RewritingIInv

\* begin() that fails, at worst leaving a record whose token nobody has.
LEMMA BeginFailsIInv ==
  ASSUME IInv, NEW c \in Callers, NEW id \in Ids, BeginFails(c, id)
  PROVE  IInv'
<1> USE DEF BeginFails
<1>1. /\ held[c] = None /\ UNCHANGED <<now, held, selection>>
      /\ held' \in [Callers -> Claim \cup {None}] /\ selection' \in [Callers -> Row \cup {None}]
  BY DEF IInv, TypeOK
<1>2. CASE UNCHANGED items
  BY <1>1, <1>2, DroppingIInv
<1>3. CASE ~UNCHANGED items
  <2>1. PICK n \in FreshNonces : items' \in Insertions(Live, id, InFlight(n, now))
    BY <1>3
  <2>2. Rewritten(items', id, n)
    BY <1>3, <2>1, InsertionRewrites DEF IInv
  <2>3. \A d \in Callers \ {c} : held[d] # None /\ held[d].id = id => Expired(held[d].born)
    BY <1>3, AbsentIsUnheld
  <2> QED
    BY <1>1, <2>2, <2>3, RewritingIInv
<1> QED
  BY <1>2, <1>3

\* The file after an outcome was saved, with the caller's token dropped.
LEMMA OutcomeIInv ==
  ASSUME IInv, NEW c \in Callers, NEW s \in States \ {"in_flight"}, NEW n \in FreshNonces,
         held[c] # None, Owns(c), items' = Outcome(c, s, n),
         held' = [held EXCEPT ![c] = None], UNCHANGED <<now, selection>>
  PROVE  IInv'
<1>1. Rewritten(items', held[c].id, n)
  BY OutcomeRewrites DEF IInv
<1>2. held[c].id \in Ids /\ held' \in [Callers -> Claim \cup {None}] /\ held'[c] = None
  BY DEF IInv, TypeOK, Claim
<1>3. selection' \in [Callers -> Row \cup {None}]
  BY DEF IInv, TypeOK
<1>4. ASSUME NEW d \in Callers, d # c, held[d] # None, held[d].id = held[c].id
      PROVE  Expired(held[d].born)
  <2>1. held[d].token # held[c].token
    BY <1>4 DEF IInv, TokensDiffer
  <2>2. Live[held[c].id] = items[held[c].id] /\ items[held[c].id].token = held[c].token
    BY <1>2, LiveFits DEF IInv, Owns, Kept
  <2> QED
    BY <1>4, <2>1, <2>2 DEF IInv, HolderInv
<1>5. \A d \in Callers \ {c} :
        held'[d] = held[d] /\ (held[d] # None /\ held[d].id = held[c].id => Expired(held[d].born))
  BY <1>4 DEF IInv, TypeOK
<1>6. UNCHANGED now /\ \A d \in Callers : selection'[d] \in {selection[d], None}
  OBVIOUS
<1>7. held[c].id \in Ids /\ held'[c] = None
  BY <1>2
<1> QED
  BY ONLY <1>1, <1>2, <1>3, <1>5, <1>6, <1>7, RewritingIInv, IInv, c \in Callers, n \in FreshNonces

\* finish(), whether it works, fails, or fails after its rename.
LEMMA FinishIInv ==
  ASSUME IInv, NEW c \in Callers, NEW s \in States \ {"in_flight"}, Finish(c, s) \/ FinishFails(c, s)
  PROVE  IInv'
<1> USE DEF Finish, FinishFails
<1>1. held[c] # None /\ held' = [held EXCEPT ![c] = None] /\ UNCHANGED <<now, selection>>
  OBVIOUS
<1>2. CASE UNCHANGED items
  <2>1. /\ held' \in [Callers -> Claim \cup {None}] /\ selection' \in [Callers -> Row \cup {None}]
        /\ \A d \in Callers : held'[d] \in {held[d], None}
    BY <1>1 DEF IInv, TypeOK
  <2> QED
    BY <1>1, <1>2, <2>1, DroppingIInv
<1>3. CASE Owns(c) /\ \E n \in FreshNonces : items' = Outcome(c, s, n)
  BY <1>1, <1>3, OutcomeIInv
<1> QED
  BY <1>2, <1>3

\* listMetadata(): the operator reads a row of the file as it is.
LEMMA ListIInv ==
  ASSUME IInv, NEW c \in Callers, List(c)
  PROVE  IInv'
<1>1. PICK i \in Stored(Live) : selection' = [selection EXCEPT ![c] = [id |-> i, item |-> Live[i]]]
  BY DEF List
<1>2. i \in Ids /\ Live[i] = items[i] /\ Live[i] \in Item
  BY <1>1, LiveFits DEF IInv, Stored, Kept, WellFormed
<1>3. UNCHANGED <<items, now, held>>
  BY DEF List
<1>4. TypeOK'
  BY <1>1, <1>2, <1>3 DEF IInv, TypeOK, Row, Stored
<1>5. RowInv'
  BY <1>1, <1>2, <1>3 DEF IInv, TypeOK, RowInv
<1> QED
  BY <1>3, <1>4, <1>5 DEF IInv, NeverOverfull, Stored, HolderInv, TokensDiffer, Expired

\* The file after a listed row was claimed; its token goes to the caller or is lost.
LEMMA ClaimingIInv ==
  ASSUME IInv, NEW c \in Callers, NEW n \in FreshNonces,
         selection[c] # None, Claimable(selection[c]), items' = Claimed(selection[c], n),
         held' \in [Callers -> Claim \cup {None}],
         \A d \in Callers \ {c} : held'[d] = held[d],
         \/ held'[c] = held[c]
         \/ held'[c] = [id |-> selection[c].id, token |-> n, born |-> Live[selection[c].id].created],
         selection' = [selection EXCEPT ![c] = None], UNCHANGED now
  PROVE  IInv'
<1> DEFINE row == selection[c]
<1>1. row \in Row /\ row.id \in Ids
  BY DEF IInv, TypeOK, Row
<1>2. /\ Rewritten(items', row.id, n)
      /\ items'[row.id].state = "in_flight" /\ items'[row.id].token = n
      /\ items'[row.id].created = items[row.id].created
      /\ Live[row.id] = items[row.id]
  BY <1>1, ClaimRewrites DEF IInv
<1>3. items[row.id].state # "in_flight"
  BY <1>2 DEF Claimable
<1>4. \A d \in Callers \ {c} :
        held'[d] = held[d] /\ (held[d] # None /\ held[d].id = row.id => Expired(held[d].born))
  BY <1>1, <1>3, SettledIsUnheld
<1>5. /\ selection' \in [Callers -> Row \cup {None}]
      /\ \A d \in Callers : selection'[d] \in {selection[d], None}
  BY DEF IInv, TypeOK
<1>6. held[c] # None /\ held[c].id = row.id => Expired(held[c].born)
  BY <1>1, <1>3, SettledIsUnheld
<1> QED
  BY <1>1, <1>2, <1>4, <1>5, <1>6, RewritingIInv

\* claimSelected(), whether it works, is refused or fails.
LEMMA ClaimIInv ==
  ASSUME IInv, NEW c \in Callers, ClaimSelected(c) \/ ClaimFails(c)
  PROVE  IInv'
<1>1. /\ selection[c] # None /\ selection' = [selection EXCEPT ![c] = None] /\ UNCHANGED now
      /\ selection[c] \in Row
  BY DEF ClaimSelected, ClaimFails, IInv, TypeOK
<1>2. CASE ClaimSelected(c)
  <2>1. Claimable(selection[c])
    BY <1>2 DEF ClaimSelected
  <2>2. PICK n \in FreshNonces :
          /\ items' = Claimed(selection[c], n)
          /\ held' = [held EXCEPT ![c] = [id |-> selection[c].id, token |-> n,
                                          born |-> Live[selection[c].id].created]]
    BY <1>2 DEF ClaimSelected
  <2>3. selection[c].id \in Ids /\ Live[selection[c].id] # None
    BY <1>1, <2>1 DEF Row, Claimable
  <2>4. Live[selection[c].id].created \in Nat
    BY <2>3, LiveFits DEF IInv, WellFormed, Item
  <2>5. held' \in [Callers -> Claim \cup {None}]
    BY <2>2, <2>3, <2>4, FreshDiffers DEF IInv, TypeOK, Claim
  <2>6. \A d \in Callers \ {c} : held'[d] = held[d]
    BY <2>2 DEF IInv, TypeOK
  <2>7. held'[c] = [id |-> selection[c].id, token |-> n, born |-> Live[selection[c].id].created]
    BY <2>2 DEF IInv, TypeOK
  <2> QED
    BY <1>1, <2>1, <2>2, <2>5, <2>6, <2>7, ClaimingIInv
<1>3. CASE ClaimFails(c)
  <2>1. UNCHANGED held /\ held' \in [Callers -> Claim \cup {None}]
    BY <1>3 DEF ClaimFails, IInv, TypeOK
  <2>2. CASE UNCHANGED items
    <3>1. /\ selection' \in [Callers -> Row \cup {None}]
          /\ \A d \in Callers : selection'[d] \in {selection[d], None}
      BY <1>1 DEF IInv, TypeOK
    <3> QED
      BY <1>1, <2>1, <2>2, <3>1, DroppingIInv
  <2>3. CASE Claimable(selection[c]) /\ \E n \in FreshNonces : items' = Claimed(selection[c], n)
    <3>1. PICK n \in FreshNonces : items' = Claimed(selection[c], n)
      BY <2>3
    <3> QED
      BY <1>1, <2>1, <2>3, <3>1, ClaimingIInv
  <2> QED
    BY <1>3, <2>2, <2>3 DEF ClaimFails
<1> QED
  BY <1>2, <1>3

\* Every step of the outbox preserves the invariant.
LEMMA NextIInv == IInv /\ [Next]_vars => IInv'
<1> SUFFICES ASSUME IInv, [Next]_vars PROVE IInv'
  OBVIOUS
<1>1. CASE \E c \in Callers, id \in Ids : Begin(c, id)
  BY <1>1, BeginIInv
<1>2. CASE \E c \in Callers, id \in Ids : BeginRefused(c, id)
  BY <1>2, DroppingIInv DEF BeginRefused, IInv, TypeOK
<1>3. CASE \E c \in Callers, id \in Ids : BeginFails(c, id)
  BY <1>3, BeginFailsIInv
<1>4. CASE \E c \in Callers, s \in States \ {"in_flight"} : Finish(c, s) \/ FinishFails(c, s)
  BY <1>4, FinishIInv
<1>5. CASE \E c \in Callers : List(c)
  BY <1>5, ListIInv
<1>6. CASE \E c \in Callers : ClaimSelected(c) \/ ClaimFails(c)
  BY <1>6, ClaimIInv
<1>7. CASE \E c \in Callers : Crash(c)
  BY <1>7, DroppingIInv DEF Crash, IInv, TypeOK
<1>8. CASE Tick
  <2>1. now' = now + 1 /\ UNCHANGED <<items, held, selection>>
    BY <1>8 DEF Tick
  <2>2. \A c \in Callers : held[c] # None /\ ~Expired(held[c].born)' => ~Expired(held[c].born)
    BY <2>1, OutboxAssumption DEF IInv, TypeOK, Claim, Expired
  <2>3. TypeOK' /\ NeverOverfull' /\ TokensDiffer' /\ RowInv'
    BY <2>1 DEF IInv, TypeOK, NeverOverfull, Stored, TokensDiffer, RowInv
  <2>4. HolderInv'
    BY <2>1, <2>2 DEF IInv, HolderInv, Expired
  <2> QED
    BY <2>3, <2>4 DEF IInv
<1>9. CASE UNCHANGED vars
  BY <1>9 DEF vars, IInv, TypeOK, NeverOverfull, Stored, HolderInv, TokensDiffer, RowInv, Expired
<1> QED
  BY <1>1, <1>2, <1>3, <1>4, <1>5, <1>6, <1>7, <1>8, <1>9 DEF Next

\* Hence the invariant holds in every behaviour.
LEMMA SpecIInv == Spec => []IInv
  BY InitIInv, NextIInv, PTL DEF Spec

(***************************************************************************)
(* The results.                                                            *)
(***************************************************************************)
\* The file and what the callers remember keep their types, and a token is in
\* the file exactly while its record is in flight.
THEOREM TypeCorrect == Spec => []TypeOK
  BY SpecIInv, PTL DEF IInv

\* No sequence of operations writes a file that read() refuses for its size.
THEOREM CapacityIsKept == Spec => []NeverOverfull
  BY SpecIInv, PTL DEF IInv

\* Until its record expires, the process that took it owns it.
THEOREM OwnersKeepTheirRecord == Spec => []HolderOwnsRecord
<1>1. IInv => HolderOwnsRecord
  BY DEF IInv, HolderInv, HolderOwnsRecord
<1> QED
  BY <1>1, SpecIInv, PTL

\* Two processes never work on one unexpired record.
THEOREM OwnersAreAlone == Spec => []HoldersAreExclusive
<1>1. IInv => HoldersAreExclusive
  BY DEF IInv, HolderInv, TokensDiffer, HoldersAreExclusive
<1> QED
  BY <1>1, SpecIInv, PTL

\* What may become of a record in one step: it is kept or dropped, or it was
\* absent, or it is changed in place, if pending, or by the holder of its token.
Fate(j) ==
  \/ Kept(items', j)
  \/ Live[j] = None /\ items'[j] # None
  \/ /\ items[j] # None /\ items'[j] # None
     /\ items'[j].created = items[j].created
     /\ \/ items[j].state = "pending"
        \/ /\ items[j].state = "in_flight"
           /\ \E c \in Callers : held[c] # None /\ held[c].token = items[j].token

\* No step does anything else to a record.
LEMMA StepFate ==
  ASSUME IInv, [Next]_vars, NEW j \in Ids
  PROVE  Fate(j)
<1> USE DEF Fate
<1>1. ASSUME items' \in {items, Live} PROVE Fate(j)
  BY <1>1, LiveFits DEF IInv, Kept
<1>2. ASSUME NEW c \in Callers, NEW id \in Ids, NEW n \in FreshNonces, Live[id] = None,
             items' \in Insertions(Live, id, InFlight(n, now))
      PROVE  Fate(j)
  <2>1. Rewritten(items', id, n)
    BY <1>2, InsertionRewrites DEF IInv
  <2> QED
    BY <1>2, <2>1 DEF Rewritten
<1>3. ASSUME NEW c \in Callers, held[c] # None, Owns(c), NEW n \in FreshNonces,
             NEW s \in States \ {"in_flight"}, items' = Outcome(c, s, n)
      PROVE  Fate(j)
  <2>1. Rewritten(items', held[c].id, n) /\ items'[held[c].id].created = items[held[c].id].created
    BY <1>3, OutcomeRewrites DEF IInv
  <2>2. held[c].id \in Ids
    BY <1>3 DEF IInv, TypeOK, Claim
  <2>3. /\ Live[held[c].id] # None /\ Live[held[c].id] = items[held[c].id]
        /\ items[held[c].id].state = "in_flight" /\ items[held[c].id].token = held[c].token
    BY <1>3, <2>2, LiveFits DEF IInv, Owns, Kept
  <2> QED
    BY <1>3, <2>1, <2>3 DEF Rewritten
<1>4. ASSUME NEW c \in Callers, selection[c] # None, Claimable(selection[c]), NEW n \in FreshNonces,
             items' = Claimed(selection[c], n)
      PROVE  Fate(j)
  <2>1. selection[c] \in Row
    BY <1>4 DEF IInv, TypeOK
  <2>2. /\ Rewritten(items', selection[c].id, n)
        /\ items'[selection[c].id].created = items[selection[c].id].created
        /\ Live[selection[c].id] = items[selection[c].id]
    BY <1>4, <2>1, ClaimRewrites DEF IInv
  <2> QED
    BY <2>2, <1>4 DEF Rewritten, Claimable
<1>5. CASE \E c \in Callers, id \in Ids : Begin(c, id) \/ BeginFails(c, id)
  BY <1>1, <1>2, <1>5 DEF Begin, BeginFails
<1>6. CASE \E c \in Callers, id \in Ids : BeginRefused(c, id)
  BY <1>1, <1>6 DEF BeginRefused
<1>7. CASE \E c \in Callers, s \in States \ {"in_flight"} : Finish(c, s) \/ FinishFails(c, s)
  BY <1>1, <1>3, <1>7 DEF Finish, FinishFails
<1>8. CASE \E c \in Callers : ClaimSelected(c) \/ ClaimFails(c)
  BY <1>1, <1>4, <1>8 DEF ClaimSelected, ClaimFails
<1>9. CASE (\E c \in Callers : List(c) \/ Crash(c)) \/ Tick \/ UNCHANGED vars
  BY <1>1, <1>9 DEF List, Crash, Tick, vars
<1> QED
  BY <1>5, <1>6, <1>7, <1>8, <1>9 DEF Next

\* Capacity never costs the operator an unfinished record.
THEOREM UnfinishedIsKept == Spec => UnfinishedWorkIsKept
<1>1. ASSUME IInv, [Next]_vars, NEW i \in Stored(items),
             items[i].state # "delivered", ~Expired(items[i].created)
      PROVE  items'[i] # None /\ items'[i].created = items[i].created
  <2>1. i \in Ids /\ items[i] # None /\ Fate(i)
    BY <1>1, StepFate DEF Stored
  <2>2. Live[i] # None
    BY <1>1, <2>1 DEF Live
  <2> QED
    BY <1>1, <2>1, <2>2 DEF Fate, Kept
<1>2. IInv /\ [Next]_vars =>
        [\A i \in Stored(items) :
           items[i].state # "delivered" /\ ~Expired(items[i].created)
             => items'[i] # None /\ items'[i].created = items[i].created]_vars
  BY <1>1
<1> QED
  BY <1>2, SpecIInv, PTL DEF Spec, UnfinishedWorkIsKept

\* A record whose process died is sent or settled by nobody until it expires.
THEOREM OrphansAreFrozen == Spec => OrphanIsFrozen
<1>1. ASSUME IInv, [Next]_vars, NEW i \in Stored(items),
             items[i].state = "in_flight", ~Expired(items[i].created),
             \A c \in Callers : held[c] # None => held[c].token # items[i].token
      PROVE  items'[i] = items[i]
  <2>1. i \in Ids /\ items[i] # None /\ Fate(i)
    BY <1>1, StepFate DEF Stored
  <2>2. Live[i] # None
    BY <1>1, <2>1 DEF Live
  <2> QED
    BY <1>1, <2>1, <2>2 DEF Fate, Kept
<1>2. IInv /\ [Next]_vars =>
        [\A i \in Stored(items) :
           /\ items[i].state = "in_flight"
           /\ ~Expired(items[i].created)
           /\ \A c \in Callers : held[c] # None => held[c].token # items[i].token
           => items'[i] = items[i]]_vars
  BY <1>1
<1> QED
  BY <1>2, SpecIInv, PTL DEF Spec, OrphanIsFrozen

\* What the operator confirmed is what a retry takes.
THEOREM ConfirmedIsClaimed == Spec => ConfirmedRowIsClaimed
<1>1. ASSUME IInv, [Next]_vars, NEW c \in Callers,
             selection[c] # None, held[c] = None, held'[c] # None
      PROVE  items[selection[c].id] = selection[c].item
  <2>1. ClaimSelected(c)
    <3>1. held \in [Callers -> Claim \cup {None}] /\ held' # held
      BY <1>1 DEF IInv, TypeOK
    <3>2. ASSUME NEW d \in Callers, NEW id \in Ids PROVE ~Begin(d, id)
      BY <1>1, <3>1 DEF Begin
    <3>3. ASSUME NEW d \in Callers, NEW s \in States, Finish(d, s) \/ FinishFails(d, s) PROVE FALSE
      BY <1>1, <3>1, <3>3 DEF Finish, FinishFails
    <3>4. ASSUME NEW d \in Callers, Crash(d) PROVE FALSE
      BY <1>1, <3>1, <3>4 DEF Crash
    <3>5. ASSUME NEW d \in Callers, ClaimSelected(d) PROVE d = c
      BY <1>1, <3>1, <3>5 DEF ClaimSelected
    <3> QED
      BY <1>1, <3>1, <3>2, <3>3, <3>4, <3>5
         DEF Next, vars, BeginRefused, BeginFails, List, ClaimFails, Tick
  <2>2. selection[c] \in Row /\ Claimable(selection[c])
    BY <1>1, <2>1 DEF ClaimSelected, IInv, TypeOK
  <2>3. selection[c].id \in Ids /\ Live[selection[c].id] = items[selection[c].id]
    BY <1>1, <2>2, LiveFits DEF Row, Claimable, IInv, Kept
  <2> QED
    BY <1>1, <2>2, <2>3 DEF Claimable, IInv, RowInv
<1>2. IInv /\ [Next]_vars =>
        [\A c \in Callers :
           selection[c] # None /\ held[c] = None /\ held'[c] # None
             => items[selection[c].id] = selection[c].item]_vars
  BY <1>1
<1> QED
  BY <1>2, SpecIInv, PTL DEF Spec, ConfirmedRowIsClaimed

(***************************************************************************)
(* Together, as the runs check them.                                       *)
(***************************************************************************)

\* begin(), finish(), claimSelected(): a process that took a record works on it alone, and
\* finds it again.
THEOREM OwnersSafe == Spec => []OwnersAreSafe
<1>1. HolderOwnsRecord /\ HoldersAreExclusive => OwnersAreSafe
  BY DEF OwnersAreSafe
<1> QED
  BY <1>1, OwnersKeepTheirRecord, OwnersAreAlone, PTL

\* What capacity, failures, dying processes and the operator may make of a record.
THEOREM RecordsEndPromised == Spec => RecordsEndAsPromised
  BY UnfinishedIsKept, OrphansAreFrozen, ConfirmedIsClaimed DEF RecordsEndAsPromised
=============================================================================
