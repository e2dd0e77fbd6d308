--------------------- MODULE DeliveryDeduplicatorProofs ---------------------
(***************************************************************************)
(* Proofs about DeliveryDeduplicator, for any messages, processes, Ttl and *)
(* clock.  The argument: a token is given out once (TokensDiffer), and the *)
(* claim that bears the token of a lease is the one that was made with it, *)
(* at the same time (ClaimIsOwn); so claim and lease lapse together, and   *)
(* nobody else can take, commit or release the claim before.               *)
(***************************************************************************)
EXTENDS DeliveryDeduplicator, TLAPS

USE DeduplicatorAssumption, ClaimAbsenceAssumption

(***************************************************************************)
(* The inductive invariant.                                                *)
(***************************************************************************)
ClaimIsOwn ==
  \A c \in Callers, i \in Ids :
    lease[c] # None /\ claims[i] # None /\ claims[i].token = lease[c].token
      => i = lease[c].id /\ claims[i].timestamp = lease[c].since

TokensDiffer ==
  \A c, d \in Callers :
    c # d /\ lease[c] # None /\ lease[d] # None => lease[c].token # lease[d].token

IInv == TypeOK /\ LeaseIsExclusive /\ ClaimIsOwn /\ TokensDiffer

(***************************************************************************)
(* What a step is: a reservation, whose token the caller may not get; the  *)
(* end of a lease, with or without a change of its claim; a pruning; or    *)
(* the passing of time.                                                    *)
(***************************************************************************)
Claim(id, n) == [status |-> "reserved", timestamp |-> now, token |-> n]
Granted(id, n) == [id |-> id, token |-> n, since |-> now]

Takes(c, id, n) ==
  /\ lease[c] = None /\ Pruned[id] = None
  /\ claims' = Reserved(id, n)
  /\ lease' \in {lease, [lease EXCEPT ![c] = Granted(id, n)]}

Settles(c) ==
  /\ lease[c] # None /\ LeaseHolds(c)
  /\ claims' \in {Committed(lease[c].id), [claims EXCEPT ![lease[c].id] = None]}

Ends(c) ==
  /\ lease' = [lease EXCEPT ![c] = None]
  /\ claims' = claims \/ Settles(c)

\* Every step of the store is one of these.
LEMMA StepKinds ==
  ASSUME [Next]_vars
  PROVE  \/ /\ UNCHANGED now
            /\ \/ \E c \in Callers, id \in Ids, n \in FreshTokens : Takes(c, id, n)
               \/ \E c \in Callers : Ends(c)
               \/ claims' = Pruned /\ UNCHANGED lease
         \/ now' = now + 1 /\ UNCHANGED <<claims, lease>>
         \/ UNCHANGED vars
<1>1. ASSUME NEW c \in Callers, NEW id \in Ids,
             Reserve(c, id) \/ ReserveRefused(c, id) \/ ReserveFails(c, id)
      PROVE  \/ /\ UNCHANGED now
                /\ \/ \E n \in FreshTokens : Takes(c, id, n)
                   \/ claims' = Pruned /\ UNCHANGED lease
             \/ UNCHANGED vars
  BY <1>1 DEF Reserve, ReserveRefused, ReserveFails, Takes, Granted, vars
<1>2. ASSUME NEW c \in Callers, Commit(c) \/ CommitFails(c) \/ Release(c) \/ Crash(c)
      PROVE  UNCHANGED now /\ Ends(c)
  BY <1>2 DEF Commit, CommitFails, Release, Crash, Ends, Settles
<1> QED
  BY <1>1, <1>2 DEF Next, Tick

\* A fresh token is one that no claim and no lease has.
LEMMA FreshIsUnused ==
  ASSUME NEW n \in FreshTokens
  PROVE  /\ n \in Nonces
         /\ \A i \in Ids : claims[i] # None => claims[i].token # n
         /\ \A c \in Callers : lease[c] # None => lease[c].token # n
<1>1. n \in Nonces /\ n \notin UsedTokens
  <2>1. CASE Nonces \subseteq UsedTokens
    BY <2>1 DEF FreshTokens
  <2>2. CASE ~(Nonces \subseteq UsedTokens)
    BY <2>2 DEF FreshTokens
  <2> QED
    BY <2>1, <2>2
<1> QED
  BY <1>1 DEF UsedTokens

\* prune() drops lapsed claims and leaves the others as they are.
LEMMA PrunedFits ==
  ASSUME TypeOK
  PROVE  /\ Pruned \in [Ids -> DedupClaim \cup {None}]
         /\ \A i \in Ids : \/ Pruned[i] = claims[i]
                           \/ Pruned[i] = None /\ Lapsed(claims[i].timestamp)
  BY DEF TypeOK, Pruned

-----------------------------------------------------------------------------
(* Each kind of step keeps the invariant.                                  *)

\* An empty file and no lease.
LEMMA InitIInv == Init => IInv
  BY DEF Init, IInv, TypeOK, LeaseIsExclusive, ClaimIsOwn, TokensDiffer

\* reserve() takes an identifier that is free, with a token nobody has.
LEMMA TakesIInv ==
  ASSUME IInv, UNCHANGED now,
         NEW c \in Callers, NEW id \in Ids, NEW n \in FreshTokens, Takes(c, id, n)
  PROVE  IInv'
<1>1. TypeOK
  BY DEF IInv
<1>2. /\ n \in Nonces
      /\ \A i \in Ids : claims[i] # None => claims[i].token # n
      /\ \A d \in Callers : lease[d] # None => lease[d].token # n
  BY FreshIsUnused
<1>3. Claim(id, n) \in DedupClaim /\ Granted(id, n) \in Lease
  BY <1>1, <1>2 DEF Claim, Granted, DedupClaim, Lease, TypeOK
<1>4. /\ claims' \in [Ids -> DedupClaim \cup {None}]
      /\ claims'[id] = Claim(id, n)
      /\ \A i \in Ids \ {id} : claims'[i] = Pruned[i]
  BY <1>1, <1>3, PrunedFits DEF Takes, Reserved, Claim
<1>5. /\ lease' \in [Callers -> Lease \cup {None}]
      /\ \A d \in Callers : lease'[d] = lease[d] \/ (d = c /\ lease'[d] = Granted(id, n))
  BY <1>1, <1>3 DEF Takes, TypeOK
<1>6. TypeOK'
  BY <1>1, <1>2, <1>3, <1>4, <1>5, PrunedFits DEF TypeOK, Claim
<1>7. ClaimIsOwn'
  <2> SUFFICES ASSUME NEW d \in Callers, NEW i \in Ids,
                      lease'[d] # None, claims'[i] # None, claims'[i].token = lease'[d].token
               PROVE  i = lease'[d].id /\ claims'[i].timestamp = lease'[d].since
    BY DEF ClaimIsOwn
  <2>1. CASE i = id
    <3>1. claims'[i].token = n
      BY <1>4, <2>1 DEF Claim
    <3>2. lease'[d] = Granted(id, n)
      BY <1>2, <1>5, <3>1
    <3> QED
      BY <1>4, <2>1, <3>2 DEF Claim, Granted
  <2>2. CASE i # id
    <3>1. claims'[i] = claims[i] /\ claims[i] # None
      BY <1>1, <1>4, <2>2, PrunedFits
    <3>2. lease'[d] = lease[d]
      BY <1>2, <1>5, <3>1 DEF Granted
    <3> QED
      BY <3>1, <3>2 DEF IInv, ClaimIsOwn
  <2> QED
    BY <2>1, <2>2
<1>8. TokensDiffer'
  BY <1>2, <1>5 DEF IInv, TokensDiffer, Granted
<1>9. LeaseIsExclusive'
  <2> SUFFICES ASSUME NEW d \in Callers, lease'[d] # None, ~Lapsed(lease'[d].since)
               PROVE  LeaseHolds(d)'
    BY DEF LeaseIsExclusive, Lapsed
  <2>1. CASE lease'[d] = Granted(id, n)
    BY <1>3, <1>4, <2>1 DEF LeaseHolds, Granted, Claim
  <2>2. CASE lease'[d] = lease[d]
    <3>1. lease[d] \in Lease
      BY <1>1, <2>2 DEF TypeOK
    <3>2. LeaseHolds(d) /\ lease[d].id \in Ids
      BY <2>2, <3>1 DEF IInv, LeaseIsExclusive, Lease
    <3>3. claims[lease[d].id].timestamp = lease[d].since
      BY <2>2, <3>2 DEF IInv, ClaimIsOwn, LeaseHolds
    <3>4. Pruned[lease[d].id] = claims[lease[d].id] /\ claims[lease[d].id] # None
      BY <1>1, <2>2, <3>2, <3>3, PrunedFits DEF LeaseHolds
    <3>5. claims'[lease[d].id] = claims[lease[d].id]
      BY <1>4, <3>2, <3>4 DEF Takes
    <3> QED
      BY <2>2, <3>2, <3>5 DEF LeaseHolds
  <2> QED
    BY <1>5, <2>1, <2>2
<1> QED
  BY <1>6, <1>7, <1>8, <1>9 DEF IInv

\* commit(), release(), a failure or a death: the caller's own claim may change, no other.
LEMMA EndsIInv ==
  ASSUME IInv, UNCHANGED now, NEW c \in Callers, Ends(c)
  PROVE  IInv'
<1>1. TypeOK
  BY DEF IInv
<1>2. /\ lease' \in [Callers -> Lease \cup {None}]
      /\ lease'[c] = None
      /\ \A d \in Callers \ {c} : lease'[d] = lease[d]
  BY <1>1 DEF TypeOK, Ends
<1>3. CASE claims' = claims
  BY <1>1, <1>2, <1>3 DEF IInv, TypeOK, LeaseIsExclusive, ClaimIsOwn, TokensDiffer, LeaseHolds, Lapsed
<1>4. CASE Settles(c)
  <2> DEFINE id == lease[c].id
             done == [status |-> "committed", timestamp |-> now, token |-> None]
  <2>1. id \in Ids /\ lease[c].token \in Nonces
    BY <1>1, <1>4 DEF Settles, TypeOK, Lease
  <2>2. done \in DedupClaim
    BY <1>1 DEF DedupClaim, TypeOK
  <2>3. /\ claims' \in [Ids -> DedupClaim \cup {None}]
        /\ claims'[id] \in {None, done}
        /\ \A i \in Ids \ {id} : claims'[i] = claims[i]
    BY <1>1, <1>4, <2>1, <2>2 DEF Settles, Committed, TypeOK
  <2>4. ASSUME NEW d \in Callers, lease'[d] # None
        PROVE  d # c /\ lease'[d] = lease[d] /\ lease[d] # None /\ lease[d].token \in Nonces
    BY <1>1, <1>2, <2>4 DEF TypeOK, Lease
  <2>5. TypeOK'
    BY <1>1, <1>2, <2>3 DEF TypeOK
  <2>6. ClaimIsOwn'
    BY <2>3, <2>4 DEF IInv, ClaimIsOwn
  <2>7. TokensDiffer'
    BY <2>4 DEF IInv, TokensDiffer
  <2>8. LeaseIsExclusive'
    <3> SUFFICES ASSUME NEW d \in Callers, lease'[d] # None, ~Lapsed(lease'[d].since)
                 PROVE  LeaseHolds(d)'
      BY DEF LeaseIsExclusive, Lapsed
    <3>1. LeaseHolds(d) /\ lease[d].id \in Ids
      BY <1>1, <2>4 DEF IInv, LeaseIsExclusive, TypeOK, Lease
    <3>2. lease[d].id # id
      BY <1>4, <2>4, <3>1 DEF Settles, LeaseHolds, IInv, TokensDiffer
    <3> QED
      BY <2>3, <2>4, <3>1, <3>2 DEF LeaseHolds
  <2> QED
    BY <2>5, <2>6, <2>7, <2>8 DEF IInv
<1> QED
  BY <1>3, <1>4 DEF Ends

\* A refused reserve() only prunes, and what is held does not lapse before its lease.
LEMMA PrunesIInv ==
  ASSUME IInv, UNCHANGED <<now, lease>>, claims' = Pruned
  PROVE  IInv'
<1>1. TypeOK
  BY DEF IInv
<1>2. TypeOK'
  BY <1>1, PrunedFits DEF TypeOK
<1>3. ClaimIsOwn' /\ TokensDiffer'
  BY <1>1, PrunedFits DEF IInv, ClaimIsOwn, TokensDiffer
<1>4. LeaseIsExclusive'
  <2> SUFFICES ASSUME NEW d \in Callers, lease[d] # None, ~Lapsed(lease[d].since)
               PROVE  LeaseHolds(d)'
    BY DEF LeaseIsExclusive, Lapsed
  <2>1. LeaseHolds(d) /\ lease[d].id \in Ids
    BY <1>1 DEF IInv, LeaseIsExclusive, TypeOK, Lease
  <2>2. claims[lease[d].id].timestamp = lease[d].since
    BY <2>1 DEF IInv, ClaimIsOwn, LeaseHolds
  <2>3. claims'[lease[d].id] = claims[lease[d].id]
    BY <1>1, <2>1, <2>2, PrunedFits
  <2> QED
    BY <2>1, <2>3 DEF LeaseHolds
<1> QED
  BY <1>2, <1>3, <1>4 DEF IInv

\* Nothing that holds later was not held before.
LEMMA TickIInv ==
  ASSUME IInv, now' = now + 1, UNCHANGED <<claims, lease>>
  PROVE  IInv'
<1>1. TypeOK
  BY DEF IInv
<1>2. TypeOK'
  BY <1>1 DEF TypeOK, DedupClaim
<1>3. ClaimIsOwn' /\ TokensDiffer'
  BY DEF IInv, ClaimIsOwn, TokensDiffer
<1>4. LeaseIsExclusive'
  <2> SUFFICES ASSUME NEW d \in Callers, lease[d] # None, ~(lease[d].since + Ttl <= now + 1)
               PROVE  LeaseHolds(d)'
    BY DEF LeaseIsExclusive, Lapsed
  <2>1. lease[d].since \in Nat /\ now \in Nat
    BY <1>1 DEF TypeOK, Lease
  <2>2. ~Lapsed(lease[d].since)
    BY <2>1 DEF Lapsed
  <2>3. LeaseHolds(d)
    BY <2>2 DEF IInv, LeaseIsExclusive
  <2> QED
    BY <2>3 DEF LeaseHolds
<1> QED
  BY <1>2, <1>3, <1>4 DEF IInv

LEMMA NextIInv == IInv /\ [Next]_vars => IInv'
<1> SUFFICES ASSUME IInv, [Next]_vars PROVE IInv'
  OBVIOUS
<1>1. CASE UNCHANGED vars
  BY <1>1 DEF vars, IInv, TypeOK, LeaseIsExclusive, ClaimIsOwn, TokensDiffer, LeaseHolds, Lapsed
<1> QED
  BY <1>1, StepKinds, TakesIInv, EndsIInv, PrunesIInv, TickIInv

LEMMA SpecIInv == Spec => []IInv
  BY InitIInv, NextIInv, PTL DEF Spec

(***************************************************************************)
(* The theorems.                                                           *)
(***************************************************************************)

\* The claims file and what callers remember keep their types: a token is stored exactly
\* while the claim is a reservation, as readClaims() insists.
THEOREM TypeCorrect == Spec => []TypeOK
  BY SpecIInv, PTL DEF IInv

\* Until its lease lapses, the process that reserved an identifier finds its reservation:
\* nobody else takes, commits or releases it.
THEOREM LeasesAreExclusive == Spec => []LeaseIsExclusive
  BY SpecIInv, PTL DEF IInv

\* commit() and release() of a process whose lease lapsed leave the reservation of the next
\* holder alone.
THEOREM LateCommitsAreRefused == Spec => LateCommitIsRefused
<1>1. ASSUME IInv, [Next]_vars, NEW c \in Callers, NEW d \in Callers,
             c # d, lease[c] # None, LeaseHolds(c), lease[d] # None, lease'[d] = None
      PROVE  claims'[lease[c].id] = claims[lease[c].id]
  <2>1. TypeOK /\ lease[c].id \in Ids
    BY <1>1 DEF IInv, TypeOK, Lease
  <2>2. CASE claims' = claims
    BY <2>2
  <2>3. ASSUME NEW e \in Callers, Ends(e) PROVE e = d
    BY <1>1, <2>1, <2>3 DEF Ends, TypeOK
  <2>4. ASSUME NEW e \in Callers, NEW id \in Ids, NEW n \in FreshTokens, Takes(e, id, n)
        PROVE  FALSE
    <3>1. Granted(id, n) # None
      BY <2>1, FreshIsUnused DEF Granted, Lease, TypeOK
    <3> QED
      BY <1>1, <2>1, <2>4, <3>1 DEF Takes, TypeOK
  <2>5. CASE Ends(d) /\ Settles(d)
    <3>1. lease[d].id # lease[c].id
      BY <1>1, <2>5 DEF Settles, LeaseHolds, IInv, TokensDiffer
    <3> QED
      BY <2>1, <2>5, <3>1 DEF Settles, Committed, TypeOK
  <2>6. lease' # lease
    BY <1>1
  <2> QED
    BY <1>1, <2>2, <2>3, <2>4, <2>5, <2>6, StepKinds DEF Ends, vars
<1>2. IInv /\ [Next]_vars =>
        [\A c, d \in Callers :
           /\ c # d
           /\ lease[c] # None /\ LeaseHolds(c) /\ ~Lapsed(lease[c].since)
           /\ lease[d] # None /\ lease'[d] = None
           => claims'[lease[c].id] = claims[lease[c].id]]_vars
  BY <1>1
<1> QED
  BY <1>2, SpecIInv, PTL DEF Spec, LateCommitIsRefused

\* A claim leaves the file before its time only by commit() or release() of its own holder.
THEOREM SilenceIsKept == Spec => SilenceLasts
<1>1. ASSUME IInv, [Next]_vars, NEW i \in Ids,
             claims[i] # None, ~Lapsed(claims[i].timestamp), claims'[i] = None
      PROVE  \E c \in Callers : /\ lease[c] # None /\ lease'[c] = None
                                /\ lease[c].id = i
                                /\ claims[i].token = lease[c].token
  <2>1. TypeOK
    BY <1>1 DEF IInv
  <2>2. Pruned[i] = claims[i]
    BY <1>1, <2>1, PrunedFits
  <2>3. claims' # claims /\ claims' # Pruned
    BY <1>1, <2>2
  <2>4. ASSUME NEW c \in Callers, NEW id \in Ids, NEW n \in FreshTokens, Takes(c, id, n)
        PROVE  FALSE
    <3>1. Claim(id, n) # None
      BY <2>1, FreshIsUnused DEF Claim, DedupClaim, TypeOK
    <3>2. claims' = [Pruned EXCEPT ![id] = Claim(id, n)]
      BY <2>4 DEF Takes, Reserved, Claim
    <3> QED
      BY <1>1, <2>1, <2>2, <3>1, <3>2, PrunedFits
  <2>5. PICK c \in Callers : Ends(c) /\ Settles(c)
    BY <1>1, <2>3, <2>4, StepKinds DEF Ends, vars
  <2>6. lease[c].id \in Ids /\ lease'[c] = None
    BY <2>1, <2>5 DEF Ends, Settles, TypeOK, Lease
  <2>7. lease[c].id = i
    BY <1>1, <2>1, <2>5, <2>6 DEF Settles, Committed, TypeOK
  <2> QED
    BY <2>5, <2>6, <2>7 DEF Settles, LeaseHolds
<1>2. IInv /\ [Next]_vars =>
        [\A i \in Ids :
           claims[i] # None /\ ~Lapsed(claims[i].timestamp) /\ claims'[i] = None
             => \E c \in Callers : /\ lease[c] # None /\ lease'[c] = None
                                   /\ lease[c].id = i
                                   /\ claims[i].token = lease[c].token]_vars
  BY <1>1
<1> QED
  BY <1>2, SpecIInv, PTL DEF Spec, SilenceLasts

\* Both, as the run checks them: a claim ends by its holder or by lapsing.
THEOREM ClaimsEndPromised == Spec => ClaimsEndAsPromised
  BY LateCommitsAreRefused, SilenceIsKept DEF ClaimsEndAsPromised
=============================================================================
