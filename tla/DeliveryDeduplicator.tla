------------------------ MODULE DeliveryDeduplicator ------------------------
(***************************************************************************)
(* The duplicate suppression store: one private JSON file of claims on     *)
(* message identifiers.  A delivery reserves the identifier before it does *)
(* anything else and commits the reservation at the end; either entry is   *)
(* forgotten Ttl seconds after its timestamp, even while the process that  *)
(* reserved it is still running.  Each operation is one read, change and   *)
(* rename of the file under its blocking lock: one action here.            *)
(***************************************************************************)
EXTENDS Integers, FiniteSets

CONSTANTS
  Ids,       \* message identifiers (hashes)
  Callers,   \* processes that use the store
  Nonces,    \* names for lease tokens
  Ttl,       \* ttlSeconds
  MaxTime,   \* the last instant of the clock (a bound of the model)
  None

ASSUME DeduplicatorAssumption ==
  /\ Ttl \in Nat \ {0}
  /\ MaxTime \in Nat
  /\ None \notin Nonces

VARIABLES
  claims,    \* the file: the claim on each identifier, or None
  now,       \* time() of the host, in units of the model
  lease      \* per caller: the reservation it holds, or None

vars == <<claims, now, lease>>

DedupClaim == [status : {"reserved", "committed"}, timestamp : Nat, token : Nonces \cup {None}]

Lease == [id : Ids, token : Nonces, since : Nat]

ASSUME ClaimAbsenceAssumption == None \notin DedupClaim /\ None \notin Lease

\* The test of prune().
Lapsed(timestamp) == timestamp + Ttl <= now

\* Mutant of Pruned: an off-by-one in the expiry test.
PrunedEarly ==
  [i \in Ids |-> IF claims[i] # None /\ claims[i].timestamp + Ttl <= now + 1 THEN None ELSE claims[i]]

\* prune(): only reserve() runs it.
Pruned == [i \in Ids |-> IF claims[i] # None /\ Lapsed(claims[i].timestamp) THEN None ELSE claims[i]]

UsedTokens ==
  {claims[i].token : i \in {j \in Ids : claims[j] # None}}
    \cup {lease[c].token : c \in {d \in Callers : lease[d] # None}}
FreshTokens ==
  IF Nonces \subseteq UsedTokens THEN {} ELSE {CHOOSE n \in Nonces : n \notin UsedTokens}

Reserved(id, nonce) ==
  [Pruned EXCEPT ![id] = [status |-> "reserved", timestamp |-> now, token |-> nonce]]

Committed(id) ==
  [claims EXCEPT ![id] = [status |-> "committed", timestamp |-> now, token |-> None]]

\* Mutant of LeaseHolds: the token is not compared.
LeaseByStatus(c) ==
  LET entry == claims[lease[c].id] IN entry # None

\* assertLease(): the claim is still the caller's own reservation.
LeaseHolds(c) ==
  LET entry == claims[lease[c].id]
  IN  entry # None /\ entry.status = "reserved" /\ entry.token = lease[c].token

(***************************************************************************)
(* reserve()                                                               *)
(***************************************************************************)
Reserve(c, id) ==
  /\ lease[c] = None
  /\ Pruned[id] = None
  /\ \E n \in FreshTokens :
       /\ claims' = Reserved(id, n)
       /\ lease' = [lease EXCEPT ![c] = [id |-> id, token |-> n, since |-> now]]
  /\ UNCHANGED now

ReserveRefused(c, id) ==
  /\ lease[c] = None
  /\ Pruned[id] # None
  /\ claims' = Pruned
  /\ UNCHANGED <<now, lease>>

\* The store is unavailable, malformed or over its capacity; or writeClaims()
\* throws after its rename, when the claim is there but its token is lost.
ReserveFails(c, id) ==
  /\ lease[c] = None
  /\ \/ UNCHANGED claims
     \/ Pruned[id] = None /\ \E n \in FreshTokens : claims' = Reserved(id, n)
  /\ UNCHANGED <<now, lease>>

(***************************************************************************)
(* commit() and release(): the caller forgets its token in every case.     *)
(***************************************************************************)
Commit(c) ==
  /\ lease[c] # None
  /\ LeaseHolds(c)
  /\ claims' = Committed(lease[c].id)
  /\ lease' = [lease EXCEPT ![c] = None]
  /\ UNCHANGED now

CommitFails(c) ==
  /\ lease[c] # None
  /\ \/ UNCHANGED claims
     \/ LeaseHolds(c) /\ claims' = Committed(lease[c].id)
  /\ lease' = [lease EXCEPT ![c] = None]
  /\ UNCHANGED now

Release(c) ==
  /\ lease[c] # None
  /\ LeaseHolds(c)
  /\ claims' = [claims EXCEPT ![lease[c].id] = None]
  /\ lease' = [lease EXCEPT ![c] = None]
  /\ UNCHANGED now

Crash(c) ==
  /\ lease' = [lease EXCEPT ![c] = None]
  /\ UNCHANGED <<claims, now>>

Tick ==
  /\ now < MaxTime
  /\ now' = now + 1
  /\ UNCHANGED <<claims, lease>>

Init ==
  /\ claims = [i \in Ids |-> None]
  /\ now = 0
  /\ lease = [c \in Callers |-> None]

Next ==
  \/ \E c \in Callers, id \in Ids : Reserve(c, id) \/ ReserveRefused(c, id) \/ ReserveFails(c, id)
  \/ \E c \in Callers : Commit(c) \/ CommitFails(c) \/ Release(c) \/ Crash(c)
  \/ Tick

Spec == Init /\ [][Next]_vars

(***************************************************************************)
(* Properties.                                                             *)
(***************************************************************************)

\* Types; a token is stored exactly while the claim is a reservation.
TypeOK ==
  /\ claims \in [Ids -> DedupClaim \cup {None}]
  /\ now \in Nat
  /\ lease \in [Callers -> Lease \cup {None}]
  /\ \A i \in Ids : claims[i] # None =>
       /\ claims[i].timestamp <= now
       /\ (claims[i].status = "reserved") <=> (claims[i].token # None)

\* A reservation is its holder's own until it lapses: no other delivery's
\* reserve, commit, release or failure can take it away before.
LeaseIsExclusive ==
  \A c \in Callers : lease[c] # None /\ ~Lapsed(lease[c].since) => LeaseHolds(c)

\* A process whose reservation lapsed and was given to another one cannot
\* settle it for the new holder: a reservation somebody else holds changes only
\* by lapsing.
LateCommitIsRefused ==
  [][\A c, d \in Callers :
       /\ c # d
       /\ lease[c] # None /\ LeaseHolds(c) /\ ~Lapsed(lease[c].since)
       /\ lease[d] # None /\ lease'[d] = None
       => claims'[lease[c].id] = claims[lease[c].id]]_vars

\* A claim, committed or not, silences its identifier for Ttl after its
\* timestamp: it leaves the file earlier only by the hand of its own holder.
SilenceLasts ==
  [][\A i \in Ids :
       claims[i] # None /\ ~Lapsed(claims[i].timestamp) /\ claims'[i] = None
         => \E c \in Callers : /\ lease[c] # None /\ lease'[c] = None
                               /\ lease[c].id = i
                               /\ claims[i].token = lease[c].token]_vars

\* A claim ends by its holder or by lapsing, never by a late holder.
ClaimsEndAsPromised == LateCommitIsRefused /\ SilenceLasts
=============================================================================
