--------------------------- MODULE DeliveryOutbox ---------------------------
(***************************************************************************)
(* The recovery outbox of the notifier: one private JSON file holding, per *)
(* message identifier, what is known about the attempt to notify it.  Any  *)
(* number of PHP processes open it.  Every operation is one read, change   *)
(* and atomic replacement of the file under the exclusive lock, so each is *)
(* one action here.  What is not atomic is the life of a process: it keeps *)
(* a token between taking a record and finishing it, it keeps a row it     *)
(* listed until the operator confirms it, and it may die in between.       *)
(*                                                                         *)
(* Abstracted: the payload of a record (its digest only decides whether a  *)
(* refused Begin rewrites the file), and the 256-bit random tokens and     *)
(* revisions, which are names drawn from Nonces that nobody still holds.   *)
(***************************************************************************)
EXTENDS Integers, FiniteSets

CONSTANTS
  Ids,        \* message identifiers (hashes)
  Callers,    \* processes that use the outbox
  Nonces,     \* names for tokens and revisions
  MaxItems,   \* MAX_ITEMS
  Retention,  \* RETENTION
  MaxTime,    \* the last instant of the clock (a bound of the model)
  None

ASSUME OutboxAssumption ==
  /\ IsFiniteSet(Ids)
  /\ MaxItems \in Nat \ {0}
  /\ Retention \in Nat \ {0}
  /\ MaxTime \in Nat
  /\ None \notin Nonces

VARIABLES
  items,      \* the file: the record of each identifier, or None
  now,        \* time() of the host, in units of the model
  held,       \* per caller: the record it took and the token it got, or None
  selection   \* per caller: the row it listed and will ask to retry, or None

vars == <<items, now, held, selection>>

States == {"in_flight", "pending", "review_only", "delivered"}

Item == [state : States, token : Nonces \cup {None}, rev : Nonces, created : Nat]

Claim == [id : Ids, token : Nonces, born : Nat]

Row == [id : Ids, item : Item]

\* None stands for an absent record, claim or row.
ASSUME AbsenceAssumption == None \notin Item /\ None \notin Claim /\ None \notin Row

(***************************************************************************)
(* What the operations are made of.                                        *)
(***************************************************************************)
Stored(store) == {i \in Ids : store[i] # None}

Expired(created) == created + Retention <= now

\* mutate() drops the expired records before it runs its operation.
Live ==
  [i \in Ids |-> IF items[i] # None /\ Expired(items[i].created) THEN None ELSE items[i]]

\* Mutant of OldestDelivered: the eviction forgets to look at the state.
OldestOfAnyState(store) ==
  {v \in Stored(store) : \A o \in Stored(store) : store[v].created <= store[o].created}

\* The record given up for a new one when the file is full.
OldestDelivered(store) ==
  LET delivered == {i \in Stored(store) : store[i].state = "delivered"}
  IN  {v \in delivered : \A o \in delivered : store[v].created <= store[o].created}

\* Mutant of Insertions: the capacity is not tested.
InsertionsWithoutLimit(store, id, item) == {[store EXCEPT ![id] = item]}

\* The files begin() may produce: none when it is full of unfinished work.
Insertions(store, id, item) ==
  IF Cardinality(Stored(store)) < MaxItems
  THEN {[store EXCEPT ![id] = item]}
  ELSE {[store EXCEPT ![v] = None, ![id] = item] : v \in OldestDelivered(store)}

\* random_bytes(32) never repeats a value that a file or a process still has.
UsedNonces ==
  {n \in Nonces :
     \/ \E i \in Stored(items) : n = items[i].token \/ n = items[i].rev
     \/ \E c \in Callers : held[c] # None /\ n = held[c].token
     \/ \E c \in Callers : selection[c] # None /\ n = selection[c].item.rev}
FreshNonces ==
  IF Nonces \subseteq UsedNonces THEN {} ELSE {CHOOSE n \in Nonces : n \notin UsedNonces}

InFlight(nonce, created) ==
  [state |-> "in_flight", token |-> nonce, rev |-> nonce, created |-> created]

\* Mutant of Owns: the token is not compared.
OwnsByState(c) ==
  LET item == Live[held[c].id] IN item # None /\ item.state = "in_flight"

\* finish() insists on the token the caller was given.
Owns(c) ==
  LET item == Live[held[c].id]
  IN  item # None /\ item.state = "in_flight" /\ item.token = held[c].token

\* claimSelected() insists on the very revision the operator confirmed.
Claimable(row) ==
  /\ Live[row.id] # None
  /\ Live[row.id].state = "pending"
  /\ Live[row.id].rev = row.item.rev

(***************************************************************************)
(* begin(): take a record for a message about to be sent.                  *)
(***************************************************************************)
Begin(c, id) ==
  /\ held[c] = None
  /\ selection[c] = None
  /\ Live[id] = None
  /\ \E n \in FreshNonces :
       /\ items' \in Insertions(Live, id, InFlight(n, now))
       /\ held' = [held EXCEPT ![c] = [id |-> id, token |-> n, born |-> now]]
  /\ UNCHANGED <<now, selection>>

\* The identifier has a record: null is returned for the same digest, and the
\* conflict of another digest leaves the file as it is.
BeginRefused(c, id) ==
  /\ held[c] = None
  /\ selection[c] = None
  /\ Live[id] # None
  /\ items' \in {Live, items}
  /\ UNCHANGED <<now, held, selection>>

\* No lock, no room, no valid file, or an error of the write.  replaceAtomic()
\* can still throw after its rename: the record is there, its token is lost.
BeginFails(c, id) ==
  /\ held[c] = None
  /\ selection[c] = None
  /\ \/ UNCHANGED items
     \/ /\ Live[id] = None
        /\ \E n \in FreshNonces : items' \in Insertions(Live, id, InFlight(n, now))
  /\ UNCHANGED <<now, held, selection>>

(***************************************************************************)
(* finish(): save the outcome of the send.                                 *)
(***************************************************************************)
\* Mutant of Outcome: the token is not cleared.
OutcomeKeepingToken(c, state, nonce) ==
  [Live EXCEPT ![held[c].id] = [@ EXCEPT !.state = state, !.rev = nonce]]

Outcome(c, state, nonce) ==
  [Live EXCEPT ![held[c].id] = [@ EXCEPT !.state = state, !.token = None, !.rev = nonce]]

Finish(c, state) ==
  /\ held[c] # None
  /\ Owns(c)
  /\ \E n \in FreshNonces : items' = Outcome(c, state, n)
  /\ held' = [held EXCEPT ![c] = None]
  /\ UNCHANGED <<now, selection>>

FinishFails(c, state) ==
  /\ held[c] # None
  /\ \/ UNCHANGED items
     \/ Owns(c) /\ \E n \in FreshNonces : items' = Outcome(c, state, n)
  /\ held' = [held EXCEPT ![c] = None]
  /\ UNCHANGED <<now, selection>>

(***************************************************************************)
(* listMetadata() and claimSelected(): the operator's selective retry.     *)
(***************************************************************************)
List(c) ==
  /\ held[c] = None
  /\ selection[c] = None
  /\ \E i \in Stored(Live) :
       /\ Live[i].state = "pending"
       /\ selection' = [selection EXCEPT ![c] = [id |-> i, item |-> Live[i]]]
  /\ UNCHANGED <<items, now, held>>

Claimed(row, nonce) ==
  [Live EXCEPT ![row.id] = [@ EXCEPT !.state = "in_flight", !.token = nonce, !.rev = nonce]]

ClaimSelected(c) ==
  LET row == selection[c] IN
  /\ row # None
  /\ Claimable(row)
  /\ \E n \in FreshNonces :
       /\ items' = Claimed(row, n)
       /\ held' = [held EXCEPT ![c] = [id |-> row.id, token |-> n, born |-> Live[row.id].created]]
  /\ selection' = [selection EXCEPT ![c] = None]
  /\ UNCHANGED now

\* The row is gone, taken, stale or no longer for a notification target; or the
\* store failed, before or after the rename.
ClaimFails(c) ==
  LET row == selection[c] IN
  /\ row # None
  /\ \/ UNCHANGED items
     \/ Claimable(row) /\ \E n \in FreshNonces : items' = Claimed(row, n)
  /\ selection' = [selection EXCEPT ![c] = None]
  /\ UNCHANGED <<now, held>>

(***************************************************************************)
(* The environment: a process dies, the clock advances.                    *)
(***************************************************************************)
Crash(c) ==
  /\ held' = [held EXCEPT ![c] = None]
  /\ selection' = [selection EXCEPT ![c] = None]
  /\ UNCHANGED <<items, now>>

Tick ==
  /\ now < MaxTime
  /\ now' = now + 1
  /\ UNCHANGED <<items, held, selection>>

Init ==
  /\ items = [i \in Ids |-> None]
  /\ now = 0
  /\ held = [c \in Callers |-> None]
  /\ selection = [c \in Callers |-> None]

Next ==
  \/ \E c \in Callers, id \in Ids : Begin(c, id) \/ BeginRefused(c, id) \/ BeginFails(c, id)
  \/ \E c \in Callers, s \in States \ {"in_flight"} : Finish(c, s) \/ FinishFails(c, s)
  \/ \E c \in Callers : List(c) \/ ClaimSelected(c) \/ ClaimFails(c) \/ Crash(c)
  \/ Tick

Spec == Init /\ [][Next]_vars

(***************************************************************************)
(* Properties.                                                             *)
(***************************************************************************)

\* Types, and the shape read() insists on: a token is there exactly while the
\* record is in flight.
TypeOK ==
  /\ items \in [Ids -> Item \cup {None}]
  /\ now \in Nat
  /\ held \in [Callers -> Claim \cup {None}]
  /\ selection \in [Callers -> Row \cup {None}]
  /\ \A i \in Stored(items) : (items[i].state = "in_flight") <=> (items[i].token # None)

\* read() refuses a file of more than MAX_ITEMS records for ever, so no
\* sequence of operations may write one.
NeverOverfull == Cardinality(Stored(items)) <= MaxItems

\* Until its record expires, a process that took it is its only owner, whatever
\* other deliveries, retries, failures and evictions happen meanwhile: finish()
\* then finds the record it left.
HolderOwnsRecord ==
  \A c \in Callers :
    held[c] # None /\ ~Expired(held[c].born) =>
      /\ items[held[c].id] # None
      /\ items[held[c].id].state = "in_flight"
      /\ items[held[c].id].token = held[c].token

\* Two processes never work on one unexpired record.
HoldersAreExclusive ==
  \A c, d \in Callers :
    /\ held[c] # None /\ held[d] # None
    /\ held[c].id = held[d].id
    /\ ~Expired(held[c].born) /\ ~Expired(held[d].born)
    => c = d

\* A process that took a record works on it alone and finds it again.
OwnersAreSafe == HolderOwnsRecord /\ HoldersAreExclusive

\* Only a successful record may leave the file before it expires: capacity never
\* costs the operator a failed, uncertain or running notification.
UnfinishedWorkIsKept ==
  [][\A i \in Stored(items) :
       items[i].state # "delivered" /\ ~Expired(items[i].created)
         => items'[i] # None /\ items'[i].created = items[i].created]_vars

\* A record whose process died is never sent or settled again by anyone: it
\* stays as it is until it expires.
OrphanIsFrozen ==
  [][\A i \in Stored(items) :
       /\ items[i].state = "in_flight"
       /\ ~Expired(items[i].created)
       /\ \A c \in Callers : held[c] # None => held[c].token # items[i].token
       => items'[i] = items[i]]_vars

\* What an operator confirmed is what is taken: between the listing and the
\* claim nobody retried the record and put it back.
ConfirmedRowIsClaimed ==
  [][\A c \in Callers :
       selection[c] # None /\ held[c] = None /\ held'[c] # None
         => items[selection[c].id] = selection[c].item]_vars

\* What may become of a record in the file.
RecordsEndAsPromised == UnfinishedWorkIsKept /\ OrphanIsFrozen /\ ConfirmedRowIsClaimed
=============================================================================
