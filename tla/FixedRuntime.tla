---------------------------- MODULE FixedRuntime ----------------------------
(***************************************************************************)
(* The fixed runtime: the entry point and the helpers that every release   *)
(* is started and validated by.  ReleaseWorkflow.provision_fixed_runtime() *)
(* installs it or advances a known predecessor file by file, over a        *)
(* connection that can only upload, rename and delete single things; while *)
(* it does, the mail server may start whatever is there.  Before the first *)
(* file of a batch is replaced, the old files of the batch are put aside.  *)
(*                                                                         *)
(* The process may die at any call.  What it leaves is only what is in the *)
(* trees: there is no journal, the next run infers where it is.  A strict  *)
(* comparison over SSH, which knows of no temporary files, is repeated     *)
(* over FTPS and before every step; as nobody else writes these trees, one *)
(* comparison stands for all that see the same.                            *)
(***************************************************************************)
EXTENDS Integers

CONSTANTS
  N,         \* the files to be replaced, in this order, are 1..N; 0 is all that never changes
  Batch,     \* which transaction replaces each of them
  Helper,    \* the configuration helper, which the oldest predecessor does not have
  MaxFaults  \* deaths of the process (a bound of the model)

ASSUME RuntimeAssumption ==
  /\ N \in Nat \ {0} /\ MaxFaults \in Nat
  /\ Batch \in [1..N -> Nat]
  /\ \A f, g \in 1..N : f <= g => Batch[f] <= Batch[g]
  /\ Helper \in {1, N}
  /\ Helper = N => \A f \in 1..N : Batch[f] = Batch[N] => f = N

VARIABLES
  tree,     \* what is at each place of the server
  session,  \* what the process has in hand
  faults

vars == <<tree, session, faults>>

File == 0..N
Batches == {Batch[f] : f \in 1..N}

Live == <<"live", 0>>
Staging == <<"staging", 0>>
Backup(b) == <<"backup", b>>
Keeping(b) == <<"keeping", b>>
Place == {Live, Staging} \cup {Backup(b) : b \in Batches} \cup {Keeping(b) : b \in Batches}

Version == {"none", "old", "new"}

\* stray: something unfinished lies there, a temporary file or a directory without its mode.
Tree == [there : BOOLEAN, files : [File -> Version], stray : BOOLEAN]

NoFiles == [f \in File |-> "none"]
Nothing == [there |-> FALSE, files |-> NoFiles, stray |-> FALSE]
Holding(files) == [there |-> TRUE, files |-> files, stray |-> FALSE]

\* The trees that are looked for.
Prefix(k) == [f \in File |-> IF f <= k THEN "new" ELSE "old"]
Target == Prefix(N)
HelperFirst(k) == [Prefix(k) EXCEPT ![Helper] = "new"]
WithoutHelper(k) == [Prefix(k) EXCEPT ![Helper] = "none"]
Olds(b) == [f \in File |-> IF f # 0 /\ Batch[f] = b THEN "old" ELSE "none"]

\* Every step from the predecessor to the target, with either helper.
Reviewed == {Prefix(k) : k \in 0..N} \cup {HelperFirst(k) : k \in 0..N}

\* inspect_fixed_runtime(): what is there against what should be.
Exact(t, files) == t.there /\ ~t.stray /\ t.files = files
Partial(t, files) ==
  /\ t.there /\ ~t.stray /\ t.files # files
  /\ \A f \in File : t.files[f] \in {"none", files[f]}

\* The next file to be replaced.
IsNext(n) ==
  /\ tree[Live].files[n] = "old"
  /\ \A m \in 1..N : tree[Live].files[m] = "old" => n <= m

-----------------------------------------------------------------------------
\* batch: the transaction; place and then: where the process uploads, publishes from or
\* clears, and where it goes after that; todo: the files still to be uploaded.
Session ==
  [pc : {"idle", "fresh", "make", "own", "put", "rename", "clear", "publish", "backup", "keep",
         "replace", "replaced"},
   batch : Batches \cup {0}, place : Place, todo : SUBSET File,
   then : {"idle", "publish", "replaced"}]
Idle == [pc |-> "idle", batch |-> 0, place |-> Live, todo |-> {}, then |-> "idle"]

At(pc) == session.pc = pc
Goto(pc) == session' = [session EXCEPT !.pc = pc]
Become(r) == session' = r
Stop == session' = Idle

Uploading(r, pc, place, todo, then) ==
  [r EXCEPT !.pc = pc, !.place = place, !.todo = todo, !.then = then]

-----------------------------------------------------------------------------
(* Which way to go.                                                        *)

\* The manager, which does not start without the helper, puts it into the oldest
\* predecessor (provision_legacy_helper_assets()).
AddHelper ==
  /\ At("idle") /\ Exact(tree[Live], WithoutHelper(0))
  /\ Become(Uploading(session, "put", Live, {Helper}, "idle"))
  /\ UNCHANGED <<tree, faults>>

\* Put into a tree that lacks nothing else, the helper completes the target.
Complete ==
  /\ At("idle") /\ Exact(tree[Live], WithoutHelper(N))
  /\ Become(Uploading(session, "put", Live, {Helper}, "idle"))
  /\ UNCHANGED <<tree, faults>>

Install ==
  /\ At("idle") /\ ~tree[Live].there
  /\ Goto("fresh")
  /\ UNCHANGED <<tree, faults>>

\* A live tree that is neither of these nor a reviewed step is not touched.
Migrate ==
  /\ At("idle")
  /\ \E files \in Reviewed : Exact(tree[Live], files)
  /\ \E n \in 1..N : IsNext(n) /\ Become([session EXCEPT !.pc = "backup", !.batch = Batch[n]])
  /\ UNCHANGED <<tree, faults>>

-----------------------------------------------------------------------------
(* FtpsDeployer: uploading, clearing and publishing, call by call.         *)

\* The directories are made, and then get their mode.
MakeTree ==
  /\ At("make")
  /\ tree' = [tree EXCEPT ![session.place] = [Nothing EXCEPT !.there = TRUE, !.stray = TRUE]]
  /\ Goto("own")
  /\ UNCHANGED faults

OwnTree ==
  /\ At("own")
  /\ tree' = [tree EXCEPT ![session.place].stray = FALSE]
  /\ Goto("put")
  /\ UNCHANGED faults

\* _upload_atomic(): a temporary file, and a rename.
Put ==
  /\ At("put")
  /\ tree' = [tree EXCEPT ![session.place].stray = TRUE]
  /\ Goto("rename")
  /\ UNCHANGED faults

Uploaded == IF session.place = Keeping(session.batch) THEN "old" ELSE "new"

Rename ==
  /\ At("rename")
  /\ \E f \in session.todo :
       /\ tree' = [tree EXCEPT ![session.place].files[f] = Uploaded,
                               ![session.place].stray = FALSE]
       /\ Become([session EXCEPT !.todo = @ \ {f},
                                 !.pc = IF session.todo = {f} THEN session.then ELSE "put"])
  /\ UNCHANGED faults

\* Mutant of Clear: the tree goes at once, whatever is in it.
ClearAtOnce ==
  /\ At("clear")
  /\ tree' = [tree EXCEPT ![session.place].there = FALSE] /\ Goto("make")
  /\ UNCHANGED faults

\* delete_exact_tree(): the files, one by one, and then the directories.
Clear ==
  LET p == session.place
  IN  /\ At("clear")
      /\ \/ /\ \E f \in File : /\ tree[p].files[f] # "none"
                               /\ tree' = [tree EXCEPT ![p].files[f] = "none"]
            /\ UNCHANGED session
         \/ /\ tree[p].files = NoFiles
            /\ tree' = [tree EXCEPT ![p] = Nothing] /\ Goto("make")
      /\ UNCHANGED faults

\* publish_directory(): one rename of a directory, to where there is none.
Published == IF session.place = Staging THEN Live ELSE Backup(session.batch)

Publish ==
  /\ At("publish")
  /\ IF tree[Published].there THEN Stop /\ UNCHANGED tree
     ELSE /\ tree' = [tree EXCEPT ![Published] = tree[session.place],
                                  ![session.place] = Nothing]
          /\ IF session.place = Staging THEN Stop ELSE Goto("replace")
  /\ UNCHANGED faults

-----------------------------------------------------------------------------
(* The first installation: a staging tree is uploaded and renamed.         *)

\* A staging tree that is complete already is refused.
Fresh ==
  LET t == tree[Staging]
      Go(pc) == Become(Uploading(session, pc, Staging, File, "publish"))
  IN  /\ At("fresh")
      /\ IF Partial(t, Target) THEN Go("clear") ELSE IF ~t.there THEN Go("make") ELSE Stop
      /\ UNCHANGED <<tree, faults>>

-----------------------------------------------------------------------------
(* _run_fixed_migration_transaction()                                      *)

Members == {f \in 1..N : Batch[f] = session.batch}
BatchBegun == \E f \in Members : tree[Live].files[f] = "new"

\* A batch that was begun must have its backup; else there is one, or none.
CheckBackup ==
  LET t == tree[Backup(session.batch)]
  IN  /\ At("backup")
      /\ IF Exact(t, Olds(session.batch)) THEN Goto("replace")
         ELSE IF ~t.there /\ ~BatchBegun THEN Goto("keep") ELSE Stop
      /\ UNCHANGED <<tree, faults>>

\* Mutant of Keep: old files that have all been collected are refused, too.
KeepOnlyNew ==
  LET t == tree[Keeping(session.batch)]
      Go(pc) == Become(Uploading(session, pc, Keeping(session.batch), Members, "publish"))
  IN  /\ At("keep")
      /\ IF Partial(t, Olds(session.batch)) THEN Go("clear") ELSE IF ~t.there THEN Go("make") ELSE Stop
      /\ UNCHANGED <<tree, faults>>

\* Mutant of Keep: what has been collected is not compared.
KeepAnything ==
  LET t == tree[Keeping(session.batch)]
      Go(pc) == Become(Uploading(session, pc, Keeping(session.batch), Members, "publish"))
  IN  /\ At("keep")
      /\ IF t.there /\ ~t.stray THEN Go("publish") ELSE IF ~t.there THEN Go("make") ELSE Stop
      /\ UNCHANGED <<tree, faults>>

\* Where the old files are collected before they are the backup.
Keep ==
  LET t == tree[Keeping(session.batch)]
      Go(pc) == Become(Uploading(session, pc, Keeping(session.batch), Members, "publish"))
  IN  /\ At("keep")
      /\ IF Exact(t, Olds(session.batch)) THEN Go("publish")
         ELSE IF Partial(t, Olds(session.batch)) THEN Go("clear")
         ELSE IF ~t.there THEN Go("make") ELSE Stop
      /\ UNCHANGED <<tree, faults>>

\* Backup and live tree are as they should be, and the next file is replaced.
Replace ==
  /\ At("replace")
  /\ IF /\ Exact(tree[Backup(session.batch)], Olds(session.batch))
        /\ \E files \in Reviewed : Exact(tree[Live], files)
     THEN \E n \in 1..N :
            IsNext(n) /\ Become(Uploading(session, "put", Live, {n}, "replaced"))
     ELSE Stop
  /\ UNCHANGED <<tree, faults>>

\* Mutant of Replaced: the next batch goes on as a part of this one.
ReplacedOn ==
  /\ At("replaced")
  /\ \/ (\E n \in 1..N : IsNext(n)) /\ Goto("replace")
     \/ (\A n \in 1..N : ~IsNext(n)) /\ Stop
  /\ UNCHANGED <<tree, faults>>

\* The next one of the batch, the next batch, or the end.
Replaced ==
  /\ At("replaced")
  /\ \/ \E n \in 1..N :
          /\ IsNext(n)
          /\ Become([session EXCEPT !.batch = Batch[n],
                                    !.pc = IF Batch[n] = session.batch THEN "replace" ELSE "backup"])
     \/ (\A n \in 1..N : ~IsNext(n)) /\ Stop
  /\ UNCHANGED <<tree, faults>>

-----------------------------------------------------------------------------
\* The process dies, or a call of it fails.
Die ==
  /\ ~At("idle") /\ faults < MaxFaults
  /\ Stop /\ faults' = faults + 1
  /\ UNCHANGED tree

\* What there may be at the beginning: nothing, one of the predecessors, or a target without
\* the helper.
Predecessors ==
  {Prefix(0), WithoutHelper(N)}
  \cup (IF Helper = N THEN {HelperFirst(0), WithoutHelper(0)} ELSE {})

Init ==
  /\ \E t \in {Nothing} \cup {Holding(files) : files \in Predecessors} :
       tree = [p \in Place |-> IF p = Live THEN t ELSE Nothing]
  /\ session = Idle
  /\ faults = 0

Start == AddHelper \/ Complete \/ Install \/ Migrate

Step ==
  \/ MakeTree \/ OwnTree \/ Put \/ Rename \/ Clear \/ Publish \/ Fresh
  \/ CheckBackup \/ Keep \/ Replace \/ Replaced

Next == Start \/ Step \/ Die

Spec == Init /\ [][Next]_vars

\* The Mac runs a process that has begun, and the operator repeats what is not complete.
FairSpec == Spec /\ WF_vars(Step) /\ WF_vars(Start)

-----------------------------------------------------------------------------
(* Properties.                                                             *)

\* Types; what is not there holds nothing.
TypeOK ==
  /\ tree \in [Place -> Tree]
  /\ \A p \in Place : ~tree[p].there => tree[p] = Nothing
  /\ session \in Session
  /\ faults \in 0..MaxFaults

\* Whenever mail comes in, and wherever the process died, the live runtime is absent or one
\* somebody has reviewed: a complete predecessor, one of the steps from it, or the target;
\* and a backup is there only when it is whole.
PublishedIsWhole ==
  /\ tree[Live].there => tree[Live].files \in Reviewed \cup Predecessors
  /\ \A b \in Batches : tree[Backup(b)].there => Exact(tree[Backup(b)], Olds(b))

\* No old file is replaced unless the backup of its batch holds it, and no backup is ever
\* lost or changed again.
ReplacedIsKept ==
  [][/\ \A f \in 1..N :
          tree[Live].files[f] = "old" /\ tree'[Live].files[f] # "old" =>
            Exact(tree[Backup(Batch[f])], Olds(Batch[f]))
     /\ \A b \in Batches :
          tree[Backup(b)].there => tree'[Backup(b)] = tree[Backup(b)]]_vars

\* Something lies in the way that every later run will find and refuse.
Littered ==
  \/ tree[Live].stray
  \/ ~tree[Live].there /\ (tree[Staging].stray \/ Exact(tree[Staging], Target))
  \/ \E n \in 1..N : IsNext(n) /\ tree[Keeping(Batch[n])].stray

\* Repeating the deployment completes it, unless a death has left something in the way
\* (section 6 of the README).
RuntimeConverges == <>[](Exact(tree[Live], Target) \/ Littered)
=============================================================================
