------------------------- MODULE FixedRuntimeProofs -------------------------
(***************************************************************************)
(* Whatever the number of files, the batches they are replaced in and the  *)
(* deaths on the way: the live runtime is always a reviewed one, backups   *)
(* are whole, and no old file is replaced without its backup.              *)
(***************************************************************************)
EXTENDS FixedRuntime, TLAPS

(***************************************************************************)
(* The inductive invariant.                                                *)
(***************************************************************************)

\* What session r puts together in a tree t of its own, from nothing until it is published.
Collecting(r, t, all, version) ==
  /\ r.then = "publish"
  /\ r.pc \in {"clear", "make"} => r.todo = all
  /\ r.pc \in {"clear", "own", "put", "rename"} => t.there
  /\ r.pc \in {"own", "put", "rename"} =>
       /\ r.todo \subseteq all
       /\ t.files = [f \in File |-> IF f \in all \ r.todo THEN version ELSE "none"]
  /\ r.pc = "publish" => Exact(t, [f \in File |-> IF f \in all THEN version ELSE "none"])

Installing == session.place = Staging /\ Collecting(session, tree[Staging], File, "new")

Saving ==
  /\ session.place = Keeping(session.batch) /\ session.batch \in Batches
  /\ Collecting(session, tree[Keeping(session.batch)], Members, "old")

\* One file is put into the live tree: it leads to a reviewed one, and is kept if it is old.
Advances(f) ==
  /\ [tree[Live].files EXCEPT ![f] = "new"] \in Reviewed
  /\ tree[Live].files[f] = "old" => Exact(tree[Backup(Batch[f])], Olds(Batch[f]))

Advancing ==
  /\ session.place = Live /\ session.pc \in {"put", "rename"}
  /\ session.then \in {"idle", "replaced"}
  /\ tree[Live].there
  /\ \E f \in 1..N : session.todo = {f} /\ Advances(f)

Uploads == {"make", "own", "put", "rename", "clear", "publish"}

WorkInv == session.pc \in Uploads => Installing \/ Saving \/ Advancing

\* Only the batch of the next file is worked on.
BatchInv ==
  session.pc \in {"backup", "keep", "replace"} \/ (session.pc \in Uploads /\ Saving) =>
    /\ session.batch \in Batches
    /\ \A n \in 1..N : IsNext(n) => Batch[n] = session.batch

IInv == TypeOK /\ PublishedIsWhole /\ WorkInv /\ BatchInv

(***************************************************************************)
(* Places and trees.                                                       *)
(***************************************************************************)

\* No two places are one.
LEMMA Places ==
  /\ Live \in Place /\ Staging \in Place /\ Live # Staging
  /\ \A b \in Batches :
       /\ Backup(b) \in Place /\ Keeping(b) \in Place
       /\ Backup(b) \notin {Live, Staging} /\ Keeping(b) \notin {Live, Staging}
       /\ \A c \in Batches : Backup(b) # Keeping(c) /\ (Backup(b) = Backup(c) => b = c)
  BY DEF Place, Live, Staging, Backup, Keeping

\* Which files of a step from the predecessor to the target are new.
LEMMA PrefixAt ==
  ASSUME NEW k \in 0..N, NEW files, files = Prefix(k)
  PROVE  \A f \in 1..N : files[f] = IF f <= k THEN "new" ELSE "old"
  BY RuntimeAssumption DEF Prefix, File

LEMMA HelperFirstIs ==
  ASSUME NEW k \in 0..N
  PROVE  HelperFirst(k) = [f \in File |-> IF f <= k \/ f = Helper THEN "new" ELSE "old"]
  BY RuntimeAssumption DEF HelperFirst, Prefix, File

LEMMA HelperFirstAt ==
  ASSUME NEW k \in 0..N, NEW files, files = HelperFirst(k)
  PROVE  \A f \in 1..N : files[f] = IF f <= k \/ f = Helper THEN "new" ELSE "old"
<1>1. 1..N \subseteq File
  BY RuntimeAssumption DEF File
<1> QED
  BY <1>1, HelperFirstIs

LEMMA PrefixAdvances ==
  ASSUME NEW k \in 0..N, k + 1 \in 1..N
  PROVE  [Prefix(k) EXCEPT ![k + 1] = "new"] = Prefix(k + 1)
<1>1. [Prefix(k) EXCEPT ![k + 1] = "new"]
        = [f \in File |-> IF f = k + 1 \/ f <= k THEN "new" ELSE "old"]
  BY DEF Prefix
<1>2. \A f \in File : (f = k + 1 \/ f <= k) <=> f <= k + 1
  BY RuntimeAssumption DEF File
<1>3. Prefix(k + 1) = [f \in File |-> IF f <= k + 1 THEN "new" ELSE "old"]
  BY DEF Prefix
<1> QED
  BY <1>1, <1>2, <1>3, Zenon

LEMMA HelperFirstAdvances ==
  ASSUME NEW k \in 0..N, NEW n \in 1..N, n > k, n # Helper,
         \A m \in 1..N : m < n => m <= k \/ m = Helper
  PROVE  [HelperFirst(k) EXCEPT ![n] = "new"] = HelperFirst(n)
<1>1. [HelperFirst(k) EXCEPT ![n] = "new"]
        = [f \in File |-> IF f = n \/ f <= k \/ f = Helper THEN "new" ELSE "old"]
  BY HelperFirstIs
<1>2. \A f \in File : (f = n \/ f <= k \/ f = Helper) <=> (f <= n \/ f = Helper)
  BY RuntimeAssumption DEF File
<1>3. HelperFirst(n) = [f \in File |-> IF f <= n \/ f = Helper THEN "new" ELSE "old"]
  BY HelperFirstIs
<1> QED
  BY <1>1, <1>2, <1>3, Zenon

\* Replacing the next file of a reviewed tree gives a reviewed tree.
LEMMA NextIsReviewed ==
  ASSUME NEW files \in Reviewed, NEW n \in 1..N, files[n] = "old",
         \A m \in 1..N : files[m] = "old" => n <= m
  PROVE  [files EXCEPT ![n] = "new"] \in Reviewed
<1>1. N \in Nat /\ Helper \in 1..N
  BY RuntimeAssumption
<1>2. ASSUME NEW k \in 0..N, files = Prefix(k)
      PROVE  [files EXCEPT ![n] = "new"] \in Reviewed
  <2>1. \A f \in 1..N : files[f] = IF f <= k THEN "new" ELSE "old"
    BY <1>2, PrefixAt
  <2>2. n > k
    BY <1>1, <2>1
  <2>3. k + 1 \in 1..N /\ files[k + 1] = "old"
    BY <1>1, <2>1, <2>2
  <2>4. n = k + 1
    BY <1>1, <2>2, <2>3
  <2>5. [files EXCEPT ![n] = "new"] = Prefix(k + 1)
    BY <1>2, <2>3, <2>4, PrefixAdvances
  <2>6. k + 1 \in 0..N
    BY <1>1, <2>3
  <2> QED
    BY <2>5, <2>6 DEF Reviewed
<1>3. ASSUME NEW k \in 0..N, files = HelperFirst(k)
      PROVE  [files EXCEPT ![n] = "new"] \in Reviewed
  <2>1. \A f \in 1..N : files[f] = IF f <= k \/ f = Helper THEN "new" ELSE "old"
    BY <1>3, HelperFirstAt
  <2>2. n > k /\ n # Helper
    BY <1>1, <2>1
  <2>3. \A m \in 1..N : m < n => m <= k \/ m = Helper
    BY <1>1, <2>1
  <2> QED
    BY <1>1, <1>3, <2>2, <2>3, HelperFirstAdvances DEF Reviewed
<1> QED
  BY <1>2, <1>3 DEF Reviewed

\* The two trees that lack the helper only are completed by it.
LEMMA HelperCompletes ==
  /\ [WithoutHelper(0) EXCEPT ![Helper] = "new"] \in Reviewed
  /\ [WithoutHelper(N) EXCEPT ![Helper] = "new"] \in Reviewed
  /\ WithoutHelper(0)[Helper] = "none" /\ WithoutHelper(N)[Helper] = "none"
<1> USE RuntimeAssumption
<1>1. Helper \in File /\ 0 \in 0..N /\ N \in 0..N
  BY DEF File
<1>2. \A k \in 0..N : [WithoutHelper(k) EXCEPT ![Helper] = "new"] = HelperFirst(k)
  BY <1>1 DEF WithoutHelper, HelperFirst, Prefix
<1>3. \A k \in 0..N : WithoutHelper(k)[Helper] = "none"
  BY <1>1 DEF WithoutHelper, Prefix
<1> QED
  BY <1>1, <1>2, <1>3 DEF Reviewed

\* A step that touches neither the live tree nor a backup cannot disturb them.
LEMMA Elsewhere ==
  ASSUME TypeOK, PublishedIsWhole, NEW p \in Place,
         p # Live, \A b \in Batches : p # Backup(b),
         \A q \in Place : q # p => tree'[q] = tree[q]
  PROVE  PublishedIsWhole' /\ \A n \in 1..N : IsNext(n)' <=> IsNext(n)
<1>1. tree'[Live] = tree[Live] /\ \A b \in Batches : tree'[Backup(b)] = tree[Backup(b)]
  BY Places
<1> QED
  BY <1>1 DEF PublishedIsWhole, IsNext, Exact

(***************************************************************************)
(* Steps that leave the trees alone.                                       *)
(***************************************************************************)

\* Ending, or losing, a run leaves nothing in hand.
LEMMA StopIInv ==
  ASSUME IInv, UNCHANGED tree, faults' \in 0..MaxFaults, session' = Idle
  PROVE  IInv'
<1>1. TypeOK'
  BY Places DEF IInv, TypeOK, Session, Idle, Batches, File
<1>2. PublishedIsWhole'
  BY DEF IInv, PublishedIsWhole, Exact
<1>3. WorkInv' /\ BatchInv'
  BY DEF Idle, WorkInv, BatchInv, Uploads, Saving, Keeping, Live
<1> QED
  BY <1>1, <1>2, <1>3 DEF IInv

\* A step that looks around and decides keeps the types and what is published.
LEMMA LookingIInv ==
  ASSUME IInv, UNCHANGED <<tree, faults>>, session' \in Session, WorkInv', BatchInv'
  PROVE  IInv'
<1>1. TypeOK'
  BY DEF IInv, TypeOK
<1>2. PublishedIsWhole'
  BY DEF IInv, PublishedIsWhole, Exact
<1> QED
  BY <1>1, <1>2 DEF IInv

\* There is one next file.
LEMMA OneNext ==
  ASSUME NEW m \in 1..N, NEW n \in 1..N, IsNext(m), IsNext(n)
  PROVE  m = n
<1>1. m <= n /\ n <= m
  BY DEF IsNext
<1> QED
  BY <1>1

\* An upload into a place of its own is none into the live tree, and the other way round.
LEMMA SavingIsElsewhere == Saving => session.place # Live /\ session.place # Staging
  BY Places DEF Saving

LEMMA HelperIInv ==
  ASSUME IInv, AddHelper \/ Complete
  PROVE  IInv'
<1>1. session \in Session
  BY DEF IInv, TypeOK
<1>2. /\ session' = [session EXCEPT !.pc = "put", !.place = Live, !.todo = {Helper},
                                   !.then = "idle"]
      /\ UNCHANGED <<tree, faults>>
  BY DEF AddHelper, Complete, Become, Uploading
<1>3. Helper \in 1..N /\ Helper \in File
  BY RuntimeAssumption DEF File
<1>4. session' \in Session /\ session'.place = Live /\ session'.pc = "put"
  BY <1>1, <1>2, <1>3, Places DEF Session
<1>5. /\ tree[Live].there
      /\ tree[Live].files \in {WithoutHelper(0), WithoutHelper(N)}
  BY DEF AddHelper, Complete, Exact
<1>6. Advances(Helper)'
  BY <1>2, <1>5, HelperCompletes DEF Advances
<1>7. Advancing'
  BY <1>1, <1>2, <1>3, <1>5, <1>6 DEF Advancing, Session
<1>8. ~Saving'
  BY <1>4, Places DEF Saving
<1> QED
  BY <1>2, <1>4, <1>7, <1>8, LookingIInv DEF WorkInv, BatchInv

LEMMA MigrateIInv ==
  ASSUME IInv, Migrate
  PROVE  IInv'
<1>1. session \in Session
  BY DEF IInv, TypeOK
<1>2. PICK n \in 1..N :
        /\ IsNext(n)
        /\ session' = [session EXCEPT !.pc = "backup", !.batch = Batch[n]]
  BY DEF Migrate, Become
<1>3. UNCHANGED <<tree, faults>>
  BY DEF Migrate
<1>4. Batch[n] \in Batches
  BY DEF Batches
<1>5. session' \in Session /\ session'.pc = "backup" /\ session'.batch = Batch[n]
  BY <1>1, <1>2, <1>4 DEF Session
<1>6. \A m \in 1..N : IsNext(m)' => m = n
  BY <1>2, <1>3, OneNext DEF IsNext
<1>7. WorkInv' /\ BatchInv'
  BY <1>4, <1>5, <1>6 DEF WorkInv, BatchInv, Uploads
<1> QED
  BY <1>3, <1>5, <1>7, LookingIInv

LEMMA InstallIInv ==
  ASSUME IInv, Install
  PROVE  IInv'
<1>1. session' = [session EXCEPT !.pc = "fresh"] /\ UNCHANGED <<tree, faults>>
  BY DEF Install, Goto
<1>2. session' \in Session /\ session'.pc = "fresh"
  BY <1>1 DEF IInv, TypeOK, Session
<1> QED
  BY <1>1, <1>2, LookingIInv DEF WorkInv, BatchInv, Uploads

LEMMA FreshIInv ==
  ASSUME IInv, Fresh
  PROVE  IInv'
<1>1. session \in Session
  BY DEF IInv, TypeOK
<1>2. UNCHANGED <<tree, faults>>
  BY DEF Fresh
<1>3. CASE session' = Idle
  BY <1>2, <1>3, StopIInv DEF IInv, TypeOK
<1>4. ASSUME NEW pc \in {"clear", "make"}, pc = "clear" => tree[Staging].there,
             session' = [session EXCEPT !.pc = pc, !.place = Staging, !.todo = File,
                                        !.then = "publish"]
      PROVE  IInv'
  <2>1. /\ session' \in Session
        /\ session'.pc = pc /\ session'.place = Staging
        /\ session'.todo = File /\ session'.then = "publish"
    BY <1>1, <1>4, Places DEF Session
  <2>2. Installing'
    BY <1>2, <1>4, <2>1 DEF Installing, Collecting
  <2>3. ~Saving'
    BY <2>1, Places DEF Saving
  <2> QED
    BY <1>2, <2>1, <2>2, <2>3, LookingIInv DEF WorkInv, BatchInv
<1> QED
  BY <1>3, <1>4 DEF Fresh, Become, Uploading, Stop, Partial

LEMMA CheckBackupIInv ==
  ASSUME IInv, CheckBackup
  PROVE  IInv'
<1>1. session \in Session /\ session.pc = "backup"
  BY DEF IInv, TypeOK, CheckBackup, At
<1>2. UNCHANGED <<tree, faults>>
  BY DEF CheckBackup
<1>3. CASE session' = Idle
  BY <1>2, <1>3, StopIInv DEF IInv, TypeOK
<1>4. ASSUME NEW pc \in {"replace", "keep"}, session' = [session EXCEPT !.pc = pc]
      PROVE  IInv'
  <2>1. session' \in Session /\ session'.pc = pc /\ session'.batch = session.batch
    BY <1>1, <1>4 DEF Session
  <2>2. BatchInv' /\ WorkInv'
    BY <1>1, <1>2, <1>4, <2>1 DEF IInv, BatchInv, WorkInv, IsNext, Uploads
  <2> QED
    BY <1>2, <2>1, <2>2, LookingIInv
<1> QED
  BY <1>3, <1>4 DEF CheckBackup, Goto, Stop

LEMMA OldsAreMembers ==
  Olds(session.batch) = [f \in File |-> IF f \in Members THEN "old" ELSE "none"]
<1>1. \A f \in File : f \in Members <=> (f # 0 /\ Batch[f] = session.batch)
  BY RuntimeAssumption DEF Members, File
<1> QED
  BY <1>1, Zenon DEF Olds

LEMMA KeepIInv ==
  ASSUME IInv, Keep
  PROVE  IInv'
<1>1. session \in Session /\ session.pc = "keep"
  BY DEF IInv, TypeOK, Keep, At
<1>2. UNCHANGED <<tree, faults>>
  BY DEF Keep
<1>3. /\ session.batch \in Batches
      /\ \A n \in 1..N : IsNext(n) => Batch[n] = session.batch
  BY <1>1 DEF IInv, BatchInv
<1>4. CASE session' = Idle
  BY <1>2, <1>4, StopIInv DEF IInv, TypeOK
<1>5. ASSUME NEW pc \in {"publish", "clear", "make"},
             pc = "clear" => tree[Keeping(session.batch)].there,
             pc = "publish" => Exact(tree[Keeping(session.batch)], Olds(session.batch)),
             session' = [session EXCEPT !.pc = pc, !.place = Keeping(session.batch),
                                        !.todo = Members, !.then = "publish"]
      PROVE  IInv'
  <2>1. Members \subseteq File
    BY RuntimeAssumption DEF Members, File
  <2>2. /\ session' \in Session
        /\ session'.pc = pc /\ session'.place = Keeping(session.batch)
        /\ session'.todo = Members /\ session'.then = "publish"
        /\ session'.batch = session.batch /\ Members' = Members
    BY <1>1, <1>3, <1>5, <2>1, Places DEF Session, Members
  <2>3. Saving'
    BY <1>2, <1>3, <1>5, <2>2, OldsAreMembers DEF Saving, Collecting, Exact
  <2>4. BatchInv'
    BY <1>2, <1>3, <2>2 DEF BatchInv, IsNext
  <2> QED
    BY <1>2, <2>2, <2>3, <2>4, LookingIInv DEF WorkInv
<1> QED
  BY <1>4, <1>5 DEF Keep, Become, Uploading, Stop, Partial

LEMMA ReplaceIInv ==
  ASSUME IInv, Replace
  PROVE  IInv'
<1>1. session \in Session /\ session.pc = "replace"
  BY DEF IInv, TypeOK, Replace, At
<1>2. UNCHANGED <<tree, faults>>
  BY DEF Replace
<1>3. CASE session' = Idle
  BY <1>2, <1>3, StopIInv DEF IInv, TypeOK
<1>4. ASSUME Exact(tree[Backup(session.batch)], Olds(session.batch)),
             tree[Live].there, tree[Live].files \in Reviewed, NEW n \in 1..N, IsNext(n),
             session' = [session EXCEPT !.pc = "put", !.place = Live, !.todo = {n},
                                        !.then = "replaced"]
      PROVE  IInv'
  <2>1. /\ session' \in Session /\ session'.pc = "put" /\ session'.place = Live
        /\ session'.todo = {n} /\ session'.then = "replaced"
    <3>1. n \in File
      BY RuntimeAssumption DEF File
    <3> QED
      BY <1>1, <1>4, <3>1, Places DEF Session
  <2>2. Batch[n] = session.batch
    BY <1>1, <1>4 DEF IInv, BatchInv
  <2>3. [tree[Live].files EXCEPT ![n] = "new"] \in Reviewed
    BY <1>4, NextIsReviewed DEF IsNext
  <2>4. Advances(n)'
    BY <1>2, <1>4, <2>2, <2>3 DEF Advances, Exact
  <2>5. Advancing'
    BY <1>2, <1>4, <2>1, <2>4 DEF Advancing
  <2>6. ~Saving'
    BY <2>1, Places DEF Saving
  <2> QED
    BY <1>2, <2>1, <2>5, <2>6, LookingIInv DEF WorkInv, BatchInv
<1> QED
  BY <1>3, <1>4 DEF Replace, Become, Uploading, Stop, Exact

LEMMA ReplacedIInv ==
  ASSUME IInv, Replaced
  PROVE  IInv'
<1>1. session \in Session
  BY DEF IInv, TypeOK
<1>2. UNCHANGED <<tree, faults>>
  BY DEF Replaced
<1>3. CASE session' = Idle
  BY <1>2, <1>3, StopIInv DEF IInv, TypeOK
<1>4. ASSUME NEW n \in 1..N, IsNext(n), NEW pc \in {"replace", "backup"},
             session' = [session EXCEPT !.batch = Batch[n], !.pc = pc]
      PROVE  IInv'
  <2>1. Batch[n] \in Batches
    BY DEF Batches
  <2>2. session' \in Session /\ session'.pc = pc /\ session'.batch = Batch[n]
    BY <1>1, <1>4, <2>1 DEF Session
  <2>3. \A m \in 1..N : IsNext(m)' => m = n
    BY <1>2, <1>4, OneNext DEF IsNext
  <2>4. WorkInv' /\ BatchInv'
    BY <2>1, <2>2, <2>3 DEF WorkInv, BatchInv, Uploads
  <2> QED
    BY <1>2, <2>2, <2>4, LookingIInv
<1> QED
  BY <1>3, <1>4 DEF Replaced, Become, Stop

(***************************************************************************)
(* Steps in a tree that is put together.                                   *)
(***************************************************************************)

\* Such a tree is neither the live one nor a backup.
LEMMA Aside ==
  ASSUME IInv, session.pc \in Uploads, session.place # Live
  PROVE  /\ Installing \/ Saving
         /\ session.place \in Place
         /\ \A b \in Batches : session.place # Backup(b)
  BY Places DEF IInv, WorkInv, Installing, Saving, Advancing

\* The contents, all and of one version, are those of one or the other.
LEMMA AsideHolds ==
  ASSUME IInv, session.pc \in Uploads, session.place # Live
  PROVE  \E all \in SUBSET File : Collecting(session, tree[session.place], all, Uploaded)
<1>1. CASE Installing
  <2>1. Uploaded = "new"
    BY <1>1 DEF Installing, Uploaded, Staging, Keeping
  <2> QED
    BY <1>1, <2>1 DEF Installing
<1>2. CASE Saving
  <2>1. Uploaded = "old" /\ Members \in SUBSET File
    BY <1>2, RuntimeAssumption DEF Saving, Uploaded, Members, File
  <2> QED
    BY <1>2, <2>1 DEF Saving
<1> QED
  BY <1>1, <1>2, Aside

LEMMA AsideIInv ==
  ASSUME IInv, session.pc \in Uploads, session.place # Live,
         NEW t \in Tree, ~t.there => t = Nothing,
         tree' = [tree EXCEPT ![session.place] = t], UNCHANGED faults,
         NEW pc \in Uploads, NEW todo \in SUBSET File,
         session' = [session EXCEPT !.pc = pc, !.todo = todo],
         \A all \in SUBSET File :
           Collecting(session, tree[session.place], all, Uploaded)
             => Collecting(session', t, all, Uploaded)
  PROVE  IInv'
<1>1. session \in Session /\ tree \in [Place -> Tree]
  BY DEF IInv, TypeOK
<1>2. session' \in Session /\ session'.batch = session.batch /\ session'.pc = pc
      /\ session'.place = session.place
  BY <1>1 DEF Session, Uploads
<1>3. /\ tree' \in [Place -> Tree]
      /\ tree'[session.place] = t
      /\ \A q \in Place : q # session.place => tree'[q] = tree[q]
  BY <1>1, Aside
<1>4. TypeOK'
  BY <1>2, <1>3 DEF IInv, TypeOK, Nothing, NoFiles
<1>5. PublishedIsWhole' /\ \A n \in 1..N : IsNext(n)' <=> IsNext(n)
  BY <1>3, Aside, Elsewhere DEF IInv
<1>6. CASE Installing
  <2>1. Uploaded = "new" /\ File \in SUBSET File
    BY <1>6 DEF Installing, Uploaded, Staging, Keeping
  <2>2. Collecting(session', t, File, "new")
    BY <1>6, <2>1 DEF Installing
  <2>3. Installing'
    BY <1>2, <1>3, <1>6, <2>2 DEF Installing
  <2>4. ~Saving'
    BY <1>2, <1>6, Places DEF Installing, Saving
  <2>5. WorkInv' /\ BatchInv'
    BY <1>2, <2>3, <2>4 DEF WorkInv, BatchInv, Uploads
  <2> QED
    BY <1>4, <1>5, <2>5 DEF IInv
<1>7. CASE Saving
  <2>1. Uploaded = "old" /\ Members \in SUBSET File /\ Members' = Members
    BY <1>2, <1>7, RuntimeAssumption DEF Saving, Uploaded, Members, File
  <2>2. Collecting(session', t, Members', "old")
    BY <1>7, <2>1 DEF Saving
  <2>3. session'.place = Keeping(session'.batch) /\ session'.batch \in Batches
    BY <1>2, <1>7 DEF Saving
  <2>4. Saving'
    BY <1>2, <1>3, <2>2, <2>3 DEF Saving
  <2>5. WorkInv' /\ BatchInv'
    BY <1>2, <1>5, <1>7, <2>3, <2>4 DEF IInv, WorkInv, BatchInv, Uploads
  <2> QED
    BY <1>4, <1>5, <2>5 DEF IInv
<1> QED
  BY <1>6, <1>7, Aside

LEMMA MakeTreeIInv ==
  ASSUME IInv, MakeTree
  PROVE  IInv'
<1> DEFINE t == [Nothing EXCEPT !.there = TRUE, !.stray = TRUE]
<1>1. session \in Session /\ session.pc = "make"
  BY DEF IInv, TypeOK, MakeTree, At
<1>2. session.pc \in Uploads /\ session.place # Live
  BY <1>1, Places DEF IInv, WorkInv, Installing, Saving, Advancing, Uploads
<1>3. t \in Tree /\ t.there /\ t.files = NoFiles
  BY DEF Nothing, NoFiles, Tree, Version
<1>4. tree' = [tree EXCEPT ![session.place] = t] /\ UNCHANGED faults
  BY DEF MakeTree
<1>5. /\ session' = [session EXCEPT !.pc = "own", !.todo = session.todo]
      /\ session.todo \in SUBSET File /\ "own" \in Uploads
  BY <1>1 DEF MakeTree, Goto, Session, Uploads
<1>6. /\ session'.pc = "own" /\ session'.todo = session.todo
      /\ session'.then = session.then
  BY <1>1, <1>5 DEF Session
<1>7. \A all \in SUBSET File :
        Collecting(session, tree[session.place], all, Uploaded)
          => Collecting(session', t, all, Uploaded)
  BY <1>1, <1>3, <1>6 DEF Collecting, NoFiles
<1> QED
  BY <1>2, <1>3, <1>4, <1>5, <1>7, AsideIInv

LEMMA OwnTreeIInv ==
  ASSUME IInv, OwnTree
  PROVE  IInv'
<1> DEFINE t == [tree[session.place] EXCEPT !.stray = FALSE]
<1>1. session \in Session /\ tree \in [Place -> Tree] /\ session.pc = "own"
  BY DEF IInv, TypeOK, OwnTree, At
<1>2. session.pc \in Uploads /\ session.place # Live
  BY <1>1, Places DEF IInv, WorkInv, Installing, Saving, Advancing, Uploads
<1>3. tree[session.place] \in Tree /\ tree[session.place].there
  BY <1>1, <1>2, Aside, AsideHolds DEF Collecting
<1>4. t \in Tree /\ t.there /\ t.files = tree[session.place].files
  BY <1>3 DEF Tree
<1>5. tree' = [tree EXCEPT ![session.place] = t] /\ UNCHANGED faults
  BY <1>1 DEF OwnTree
<1>6. /\ session' = [session EXCEPT !.pc = "put", !.todo = session.todo]
      /\ session.todo \in SUBSET File /\ "put" \in Uploads
  BY <1>1 DEF OwnTree, Goto, Session, Uploads
<1>7. /\ session'.pc = "put" /\ session'.todo = session.todo
      /\ session'.then = session.then
  BY <1>1, <1>6 DEF Session
<1>8. \A all \in SUBSET File :
        Collecting(session, tree[session.place], all, Uploaded)
          => Collecting(session', t, all, Uploaded)
  BY <1>1, <1>4, <1>7 DEF Collecting
<1> QED
  BY <1>2, <1>4, <1>5, <1>6, <1>8, AsideIInv

LEMMA ClearIInv ==
  ASSUME IInv, Clear
  PROVE  IInv'
<1>1. session \in Session /\ tree \in [Place -> Tree] /\ session.pc = "clear"
  BY DEF IInv, TypeOK, Clear, At
<1>2. session.pc \in Uploads /\ session.place # Live
  BY <1>1, Places DEF IInv, WorkInv, Installing, Saving, Advancing, Uploads
<1>3. tree[session.place] \in Tree /\ tree[session.place].there
  BY <1>1, <1>2, Aside, AsideHolds DEF Collecting
<1>4. UNCHANGED faults
  BY DEF Clear
<1>5. ASSUME NEW f \in File, tree' = [tree EXCEPT ![session.place].files[f] = "none"],
             UNCHANGED session
      PROVE  IInv'
  <2> DEFINE t == [tree[session.place] EXCEPT !.files[f] = "none"]
  <2>1. t \in Tree /\ t.there
    BY <1>3 DEF Tree, Version
  <2>2. tree' = [tree EXCEPT ![session.place] = t]
    BY <1>1, <1>5
  <2>3. /\ session' = [session EXCEPT !.pc = "clear", !.todo = session.todo]
        /\ session.todo \in SUBSET File /\ "clear" \in Uploads
    BY <1>1, <1>5 DEF Session, Uploads
  <2>4. \A all \in SUBSET File :
          Collecting(session, tree[session.place], all, Uploaded)
            => Collecting(session', t, all, Uploaded)
    BY <1>1, <1>5, <2>1 DEF Collecting
  <2> QED
    BY <1>2, <1>4, <2>1, <2>2, <2>3, <2>4, AsideIInv
<1>6. ASSUME tree' = [tree EXCEPT ![session.place] = Nothing],
             session' = [session EXCEPT !.pc = "make"]
      PROVE  IInv'
  <2>1. Nothing \in Tree
    BY DEF Nothing, NoFiles, Tree, Version
  <2>2. /\ session' = [session EXCEPT !.pc = "make", !.todo = session.todo]
        /\ session.todo \in SUBSET File /\ "make" \in Uploads
    BY <1>1, <1>6 DEF Session, Uploads
  <2>3. session'.pc = "make" /\ session'.todo = session.todo /\ session'.then = session.then
    BY <1>1, <1>6 DEF Session
  <2>4. \A all \in SUBSET File :
          Collecting(session, tree[session.place], all, Uploaded)
            => Collecting(session', Nothing, all, Uploaded)
    BY <1>1, <2>3 DEF Collecting
  <2> QED
    BY <1>2, <1>4, <1>6, <2>1, <2>2, <2>4, AsideIInv
<1> QED
  BY <1>5, <1>6 DEF Clear, Goto

LEMMA PutIInv ==
  ASSUME IInv, Put
  PROVE  IInv'
<1> DEFINE t == [tree[session.place] EXCEPT !.stray = TRUE]
<1>1. /\ session \in Session /\ tree \in [Place -> Tree] /\ session.pc = "put"
      /\ session.pc \in Uploads /\ session.place \in Place
  BY DEF IInv, TypeOK, Put, At, Uploads, Session
<1>2. tree' = [tree EXCEPT ![session.place] = t] /\ UNCHANGED faults
  BY <1>1 DEF Put
<1>3. /\ session' = [session EXCEPT !.pc = "rename", !.todo = session.todo]
      /\ session' \in Session
      /\ session.todo \in SUBSET File /\ "rename" \in Uploads
  BY <1>1 DEF Put, Goto, Session, Uploads
<1>4. /\ session'.pc = "rename" /\ session'.todo = session.todo
      /\ session'.then = session.then /\ session'.place = session.place
  BY <1>1, <1>3 DEF Session
<1>5. CASE session.place # Live
  <2>1. tree[session.place] \in Tree /\ tree[session.place].there
    BY <1>1, <1>5, Aside, AsideHolds DEF Collecting
  <2>2. t \in Tree /\ t.there /\ t.files = tree[session.place].files
    BY <2>1 DEF Tree
  <2>3. \A all \in SUBSET File :
          Collecting(session, tree[session.place], all, Uploaded)
            => Collecting(session', t, all, Uploaded)
    BY <1>1, <1>4, <2>2 DEF Collecting
  <2> QED
    BY <1>1, <1>2, <1>3, <1>5, <2>2, <2>3, AsideIInv
<1>6. CASE session.place = Live
  <2>1. Advancing
    BY <1>1, <1>6, Places DEF IInv, WorkInv, Installing, Saving
  <2>2. tree[Live] \in Tree /\ tree[Live].there
    BY <1>1, <2>1, Places DEF Advancing
  <2>3. /\ tree' \in [Place -> Tree]
        /\ tree'[Live] = t /\ t.there /\ t.files = tree[Live].files
        /\ \A q \in Place : q # Live => tree'[q] = tree[q]
    BY <1>1, <1>2, <1>6, <2>2, Places DEF Tree
  <2>4. \A b \in Batches : tree'[Backup(b)] = tree[Backup(b)]
    BY <2>3, Places
  <2>5. TypeOK'
    BY <1>2, <1>3, <2>3 DEF IInv, TypeOK
  <2>6. PublishedIsWhole'
    BY <2>2, <2>3, <2>4 DEF IInv, PublishedIsWhole, Exact
  <2>7. Advancing'
    <3>1. PICK f \in 1..N : session.todo = {f} /\ Advances(f)
      BY <2>1 DEF Advancing
    <3>2. Batch[f] \in Batches
      BY DEF Batches
    <3>3. Advances(f)'
      BY <2>3, <2>4, <3>1, <3>2 DEF Advances, Exact
    <3> QED
      BY <1>4, <1>6, <2>1, <2>3, <3>1, <3>3 DEF Advancing
  <2>8. ~Saving'
    BY <1>4, <1>6, Places DEF Saving
  <2> QED
    BY <1>4, <2>5, <2>6, <2>7, <2>8 DEF IInv, WorkInv, BatchInv
<1> QED
  BY <1>5, <1>6

LEMMA RenameIInv ==
  ASSUME IInv, Rename
  PROVE  IInv'
<1>1. /\ session \in Session /\ tree \in [Place -> Tree] /\ session.pc = "rename"
      /\ session.pc \in Uploads /\ session.place \in Place
  BY DEF IInv, TypeOK, Rename, At, Uploads, Session
<1>2. PICK f \in session.todo :
        /\ tree' = [tree EXCEPT ![session.place].files[f] = Uploaded,
                                ![session.place].stray = FALSE]
        /\ session' = [session EXCEPT !.todo = @ \ {f},
                                      !.pc = IF session.todo = {f} THEN session.then ELSE "put"]
  BY DEF Rename, Become
<1>3. f \in File /\ session.todo \ {f} \in SUBSET File /\ UNCHANGED faults
  BY <1>1 DEF Rename, Session
<1> DEFINE t == [tree[session.place] EXCEPT !.files[f] = Uploaded, !.stray = FALSE]
<1>4. tree[session.place] \in Tree /\ t \in Tree /\ t.there = tree[session.place].there
      /\ ~t.stray /\ t.files = [tree[session.place].files EXCEPT ![f] = Uploaded]
  BY <1>1, <1>3 DEF Tree, Version, Uploaded
<1>5. tree' = [tree EXCEPT ![session.place] = t]
  BY <1>1, <1>2, <1>4 DEF Tree
<1>6. CASE session.place # Live
  <2>1. tree[session.place].there /\ session.then = "publish"
    BY <1>1, <1>6, AsideHolds DEF Collecting
  <2> DEFINE pc == IF session.todo = {f} THEN "publish" ELSE "put"
  <2>2. /\ session' = [session EXCEPT !.pc = pc, !.todo = session.todo \ {f}]
        /\ pc \in Uploads
    BY <1>1, <1>2, <2>1 DEF Uploads, Session
  <2>3. session'.pc = pc /\ session'.todo = session.todo \ {f} /\ session'.then = "publish"
    BY <1>1, <2>1, <2>2 DEF Session
  <2>4. ASSUME NEW all \in SUBSET File,
               Collecting(session, tree[session.place], all, Uploaded)
        PROVE  Collecting(session', t, all, Uploaded)
    <3>1. /\ session.todo \subseteq all
          /\ tree[session.place].files
               = [g \in File |-> IF g \in all \ session.todo THEN Uploaded ELSE "none"]
      BY <1>1, <2>4 DEF Collecting
    <3>2. t.files = [g \in File |-> IF g \in all \ (session.todo \ {f}) THEN Uploaded ELSE "none"]
      BY <1>2, <1>3, <1>4, <3>1
    <3>3. CASE session.todo = {f}
      <4>1. all \ (session.todo \ {f}) = all
        BY <3>3
      <4> QED
        BY <1>4, <2>1, <2>3, <3>2, <3>3, <4>1 DEF Collecting, Exact
    <3>4. CASE session.todo # {f}
      BY <1>4, <2>1, <2>3, <3>1, <3>2, <3>4 DEF Collecting
    <3> QED
      BY <3>3, <3>4
  <2> QED
    BY <1>1, <1>3, <1>4, <1>5, <1>6, <2>1, <2>2, <2>4, AsideIInv
<1>7. CASE session.place = Live
  <2>1. Advancing
    BY <1>1, <1>7, Places DEF IInv, WorkInv, Installing, Saving
  <2>2. f \in 1..N /\ session.todo = {f} /\ Advances(f)
    BY <2>1 DEF Advancing
  <2>3. Uploaded = "new"
    BY <1>7 DEF Uploaded, Live, Keeping
  <2>4. /\ tree' \in [Place -> Tree]
        /\ tree'[Live] = t /\ t.there
        /\ \A q \in Place : q # Live => tree'[q] = tree[q]
    BY <1>1, <1>4, <1>5, <1>7, <2>1, Places DEF Advancing
  <2>5. \A b \in Batches : tree'[Backup(b)] = tree[Backup(b)]
    BY <2>4, Places
  <2>6. /\ session' \in Session /\ session'.pc \in {"idle", "replaced"}
    BY <1>1, <1>2, <1>3, <2>1, <2>2 DEF Session, Advancing
  <2>7. TypeOK'
    BY <1>3, <2>4, <2>6 DEF IInv, TypeOK
  <2>8. tree'[Live].files \in Reviewed
    BY <1>4, <1>7, <2>2, <2>3, <2>4 DEF Advances
  <2>9. PublishedIsWhole'
    BY <2>5, <2>8 DEF IInv, PublishedIsWhole, Exact
  <2> QED
    BY <2>6, <2>7, <2>9 DEF IInv, WorkInv, BatchInv, Uploads
<1> QED
  BY <1>6, <1>7

LEMMA PublishIInv ==
  ASSUME IInv, Publish
  PROVE  IInv'
<1>1. session \in Session /\ tree \in [Place -> Tree] /\ session.pc = "publish"
  BY DEF IInv, TypeOK, Publish, At
<1>2. session.pc \in Uploads /\ session.place # Live
  BY <1>1, Places DEF IInv, WorkInv, Installing, Saving, Advancing, Uploads
<1>3. UNCHANGED faults
  BY DEF Publish
<1>4. CASE tree[Published].there
  BY <1>3, <1>4, StopIInv DEF Publish, Stop, IInv, TypeOK
<1>5. CASE ~tree[Published].there /\ Installing
  <2>1. /\ tree' = [tree EXCEPT ![Live] = tree[Staging], ![Staging] = Nothing]
        /\ session' = Idle
    BY <1>5 DEF Publish, Published, Installing, Stop
  <2>2. tree[Staging] \in Tree /\ Nothing \in Tree
    BY <1>1, Places DEF Nothing, NoFiles, Tree, Version
  <2>3. /\ tree' \in [Place -> Tree]
        /\ tree'[Live] = tree[Staging] /\ tree'[Staging] = Nothing
        /\ \A q \in Place : q \notin {Live, Staging} => tree'[q] = tree[q]
    BY <1>1, <2>1, <2>2, Places
  <2>4. tree[Staging].files = Prefix(N) /\ tree[Staging].there
    <3>1. \A f \in File : f \in File <=> f <= N
      BY RuntimeAssumption DEF File
    <3>2. Prefix(N) = [f \in File |-> IF f \in File THEN "new" ELSE "none"]
      BY <3>1 DEF Prefix
    <3> QED
      BY <1>1, <1>5, <3>2 DEF Installing, Collecting, Exact
  <2>5. tree'[Live].files \in Reviewed
    BY <2>3, <2>4, RuntimeAssumption DEF Reviewed
  <2>6. \A b \in Batches : tree'[Backup(b)] = tree[Backup(b)]
    BY <2>3, Places
  <2>7. PublishedIsWhole'
    BY <2>5, <2>6 DEF IInv, PublishedIsWhole, Exact
  <2>8. TypeOK'
    BY <1>3, <2>1, <2>3, <2>4, Places DEF IInv, TypeOK, Session, Idle, Batches, File
  <2> QED
    BY <2>1, <2>7, <2>8 DEF IInv, Idle, WorkInv, BatchInv, Uploads
<1>6. CASE ~tree[Published].there /\ Saving
  <2> DEFINE b == session.batch
  <2>1. b \in Batches /\ session.place = Keeping(b) /\ session.place # Staging
    BY <1>6, Places DEF Saving
  <2>2. /\ tree' = [tree EXCEPT ![Backup(b)] = tree[Keeping(b)], ![Keeping(b)] = Nothing]
        /\ session' = [session EXCEPT !.pc = "replace"]
    BY <1>6, <2>1 DEF Publish, Published, Goto
  <2>3. tree[Keeping(b)] \in Tree /\ Nothing \in Tree
    BY <1>1, <2>1, Places DEF Nothing, NoFiles, Tree, Version
  <2>4. Backup(b) \in Place /\ Keeping(b) \in Place /\ Backup(b) # Keeping(b)
    BY <2>1, Places
  <2>5. /\ tree' \in [Place -> Tree]
        /\ tree'[Backup(b)] = tree[Keeping(b)] /\ tree'[Keeping(b)] = Nothing
        /\ \A q \in Place : q \notin {Backup(b), Keeping(b)} => tree'[q] = tree[q]
    BY <1>1, <2>2, <2>3, <2>4
  <2>6. Exact(tree[Keeping(b)], Olds(b))
    BY <1>1, <1>6, OldsAreMembers DEF Saving, Collecting
  <2>7. tree'[Live] = tree[Live]
    BY <2>1, <2>5, Places
  <2>8. \A c \in Batches : c # b => tree'[Backup(c)] = tree[Backup(c)]
    BY <2>1, <2>5, Places
  <2>9. PublishedIsWhole'
    BY <2>5, <2>6, <2>7, <2>8 DEF IInv, PublishedIsWhole, Exact
  <2>10. session' \in Session /\ session'.pc = "replace" /\ session'.batch = b
    BY <1>1, <2>2 DEF Session
  <2>11. TypeOK'
    BY <1>3, <2>5, <2>6, <2>10 DEF IInv, TypeOK, Exact
  <2>12. \A n \in 1..N : IsNext(n)' => Batch[n] = b
    BY <1>2, <1>6, <2>7 DEF IInv, BatchInv, IsNext
  <2>13. WorkInv' /\ BatchInv'
    BY <2>1, <2>10, <2>12 DEF WorkInv, BatchInv, Uploads
  <2> QED
    BY <2>9, <2>11, <2>13 DEF IInv
<1> QED
  BY <1>2, <1>4, <1>5, <1>6, Aside

(***************************************************************************)
(* The theorems.                                                           *)
(***************************************************************************)

LEMMA InitIInv == Init => IInv
<1> SUFFICES ASSUME Init PROVE IInv
  OBVIOUS
<1>1. PICK t \in {Nothing} \cup {Holding(files) : files \in Predecessors} :
        tree = [p \in Place |-> IF p = Live THEN t ELSE Nothing]
  BY DEF Init
<1>2. session = Idle /\ faults = 0
  BY DEF Init
<1>3. Nothing \in Tree /\ ~Nothing.there
  BY DEF Nothing, NoFiles, Tree, Version
<1>4. t = Nothing \/ \E files \in Predecessors : t = Holding(files)
  BY <1>1
<1>5. Predecessors \subseteq [File -> Version]
  <2>1. \A k \in Int : Prefix(k) \in [File -> Version]
    BY DEF Prefix, Version
  <2>2. \A k \in Int : WithoutHelper(k) \in [File -> Version]
                      /\ HelperFirst(k) \in [File -> Version]
    BY <2>1 DEF WithoutHelper, HelperFirst, Version
  <2>3. 0 \in Int /\ N \in Int
    BY RuntimeAssumption
  <2> QED
    BY <2>1, <2>2, <2>3 DEF Predecessors
<1>6. /\ t \in Tree /\ (~t.there => t = Nothing)
      /\ t.there => t.files \in Predecessors
  <2>1. CASE t = Nothing
    BY <1>3, <2>1
  <2>2. ASSUME NEW files \in Predecessors, t = Holding(files)
        PROVE  t \in Tree /\ t.there /\ t.files \in Predecessors
    <3>1. files \in [File -> Version]
      BY <1>5
    <3>2. Holding(files) \in Tree /\ Holding(files).there /\ Holding(files).files = files
      BY <3>1 DEF Holding, Tree
    <3> QED
      BY <2>2, <3>2
  <2> QED
    BY <1>4, <2>1, <2>2
<1>7. /\ tree \in [Place -> Tree]
      /\ tree[Live] = t
      /\ \A p \in Place : p # Live => tree[p] = Nothing
  BY <1>1, <1>3, <1>6, Places
<1>8. TypeOK
  BY <1>2, <1>6, <1>7, RuntimeAssumption, Places DEF TypeOK, Session, Idle, File
<1>9. PublishedIsWhole
  BY <1>3, <1>6, <1>7, Places DEF PublishedIsWhole
<1> QED
  BY <1>2, <1>8, <1>9 DEF IInv, WorkInv, BatchInv, Idle, Uploads

LEMMA NextIInv == IInv /\ [Next]_vars => IInv'
<1> SUFFICES ASSUME IInv, [Next]_vars PROVE IInv'
  OBVIOUS
<1>1. CASE UNCHANGED vars
  BY <1>1 DEF vars, IInv, TypeOK, PublishedIsWhole, WorkInv, BatchInv, Installing, Saving,
              Advancing, Advances, Collecting, Members, IsNext, Exact
<1>2. CASE Start
  BY <1>2, HelperIInv, InstallIInv, MigrateIInv DEF Start
<1>3. CASE Step
  BY <1>3, MakeTreeIInv, OwnTreeIInv, PutIInv, RenameIInv, ClearIInv, PublishIInv, FreshIInv,
     CheckBackupIInv, KeepIInv, ReplaceIInv, ReplacedIInv DEF Step
<1>4. CASE Die
  <2>1. UNCHANGED tree /\ session' = Idle /\ faults' \in 0..MaxFaults
    BY <1>4, RuntimeAssumption DEF Die, Stop, IInv, TypeOK
  <2> QED
    BY <2>1, StopIInv
<1> QED
  BY <1>1, <1>2, <1>3, <1>4 DEF Next

LEMMA SpecIInv == Spec => []IInv
  BY InitIInv, NextIInv, PTL DEF Spec

\* Trees, session and counters have their types, and what is not there holds nothing.
THEOREM TypeCorrect == Spec => []TypeOK
  BY SpecIInv, PTL DEF IInv

\* The mail server only ever finds a reviewed runtime or none, and no half-made backup is
\* ever taken for one.
THEOREM PublishedRemainsWhole == Spec => []PublishedIsWhole
  BY SpecIInv, PTL DEF IInv

\* What a step may do to the live tree and to a backup.
Kept ==
  /\ \A f \in 1..N :
       tree[Live].files[f] = "old" /\ tree'[Live].files[f] # "old" =>
         Exact(tree[Backup(Batch[f])], Olds(Batch[f]))
  /\ \A b \in Batches :
       tree[Backup(b)].there => tree'[Backup(b)] = tree[Backup(b)]

LEMMA AsideKeeps ==
  ASSUME IInv, session.pc \in Uploads, session.place # Live,
         \A q \in Place : q # session.place => tree'[q] = tree[q]
  PROVE  Kept
<1>1. tree'[Live] = tree[Live] /\ \A b \in Batches : tree'[Backup(b)] = tree[Backup(b)]
  BY Aside, Places
<1> QED
  BY <1>1 DEF Kept

LEMMA UploadKeeps ==
  ASSUME IInv, Put \/ Rename
  PROVE  Kept
<1>1. /\ session \in Session /\ tree \in [Place -> Tree]
      /\ session.pc \in {"put", "rename"} /\ session.pc \in Uploads
  BY DEF IInv, TypeOK, Put, Rename, At, Uploads
<1>2. \A q \in Place : q # session.place => tree'[q] = tree[q]
  BY <1>1 DEF Put, Rename
<1>3. CASE session.place = Live
  <2>1. Advancing
    BY <1>1, <1>3, Places DEF IInv, WorkInv, Installing, Saving
  <2>2. PICK f \in 1..N : session.todo = {f} /\ Advances(f)
    BY <2>1 DEF Advancing
  <2>3. \A g \in 1..N : g # f => tree'[Live].files[g] = tree[Live].files[g]
    <3>1. tree[Live] \in Tree /\ Live \in Place
      BY <1>1, Places
    <3>2. \/ tree'[Live].files = tree[Live].files
          \/ tree'[Live].files = [tree[Live].files EXCEPT ![f] = Uploaded]
      BY <1>1, <1>3, <2>2, <3>1 DEF Put, Rename, Tree
    <3>3. \A g \in 1..N : g \in File
      BY RuntimeAssumption DEF File
    <3> QED
      BY <3>1, <3>2, <3>3 DEF Tree
  <2>4. \A b \in Batches : tree'[Backup(b)] = tree[Backup(b)]
    BY <1>2, <1>3, Places
  <2> QED
    BY <2>2, <2>3, <2>4 DEF Kept, Advances
<1> QED
  BY <1>1, <1>2, <1>3, AsideKeeps

LEMMA PublishKeeps ==
  ASSUME IInv, Publish
  PROVE  Kept
<1>1. session \in Session /\ tree \in [Place -> Tree] /\ session.pc = "publish"
  BY DEF IInv, TypeOK, Publish, At
<1>2. session.pc \in Uploads /\ session.place # Live
  BY <1>1, Places DEF IInv, WorkInv, Installing, Saving, Advancing, Uploads
<1>3. CASE tree[Published].there
  BY <1>3 DEF Publish, Kept
<1>4. CASE ~tree[Published].there /\ Installing
  <2>1. ~tree[Live].there
    BY <1>4 DEF Installing, Published
  <2>2. \A f \in 1..N : tree[Live].files[f] = "none"
    <3>1. tree[Live] = Nothing
      BY <2>1, Places DEF IInv, TypeOK
    <3> QED
      BY <3>1, RuntimeAssumption DEF Nothing, NoFiles, File
  <2>3. tree' = [tree EXCEPT ![Live] = tree[Staging], ![Staging] = Nothing]
    BY <1>4 DEF Publish, Published, Installing
  <2>4. \A b \in Batches : tree'[Backup(b)] = tree[Backup(b)]
    BY <1>1, <2>3, Places
  <2> QED
    BY <2>2, <2>4 DEF Kept
<1>5. CASE ~tree[Published].there /\ Saving
  <2> DEFINE b == session.batch
  <2>1. b \in Batches /\ session.place = Keeping(b) /\ session.place # Staging
    BY <1>5, Places DEF Saving
  <2>2. /\ tree' = [tree EXCEPT ![Backup(b)] = tree[Keeping(b)], ![Keeping(b)] = Nothing]
        /\ ~tree[Backup(b)].there
    BY <1>5, <2>1 DEF Publish, Published
  <2>3. tree'[Live] = tree[Live]
    BY <1>1, <2>1, <2>2, Places
  <2>4. \A c \in Batches : c # b => tree'[Backup(c)] = tree[Backup(c)]
    BY <1>1, <2>1, <2>2, Places
  <2> QED
    BY <2>2, <2>3, <2>4 DEF Kept
<1> QED
  BY <1>2, <1>3, <1>4, <1>5, Aside

LEMMA StepKeeps == IInv /\ [Next]_vars => Kept
<1> SUFFICES ASSUME IInv, [Next]_vars PROVE Kept
  OBVIOUS
<1>1. CASE UNCHANGED tree
  BY <1>1 DEF Kept
<1>2. CASE MakeTree \/ OwnTree \/ Clear
  <2>1. tree \in [Place -> Tree] /\ session.pc \in {"make", "own", "clear"}
    BY <1>2 DEF IInv, TypeOK, MakeTree, OwnTree, Clear, At
  <2>2. session.pc \in Uploads /\ session.place # Live
    BY <2>1, Places DEF IInv, WorkInv, Installing, Saving, Advancing, Uploads
  <2>3. \A q \in Place : q # session.place => tree'[q] = tree[q]
    BY <1>2, <2>1 DEF MakeTree, OwnTree, Clear
  <2> QED
    BY <2>2, <2>3, AsideKeeps
<1>3. CASE Put \/ Rename
  BY <1>3, UploadKeeps
<1>4. CASE Publish
  BY <1>4, PublishKeeps
<1> QED
  BY <1>1, <1>2, <1>3, <1>4
  DEF Next, Start, Step, Die, vars, AddHelper, Complete, Install, Migrate, Fresh, CheckBackup,
      Keep, Replace, Replaced

\* An old file goes only when its batch has been put aside, and backups are never touched.
THEOREM ReplacedFilesAreKept == Spec => ReplacedIsKept
<1>1. IInv /\ [Next]_vars => [Kept]_vars
  BY StepKeeps
<1> QED
  BY <1>1, SpecIInv, PTL DEF Spec, ReplacedIsKept, Kept

=============================================================================
