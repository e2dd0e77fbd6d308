----------------------------- MODULE AppInstall -----------------------------
(***************************************************************************)
(* Installing, updating and removing the Mac application together with its *)
(* local configuration: install_with_config(), uninstall() and the         *)
(* recovery that runs before either.  One process at a time holds the      *)
(* installer's lock; it may die between two changes of the file system,    *)
(* or while it writes a file, and the next one finds what it left:         *)
(*                                                                         *)
(*   ~/Applications          the application, and the installer's own      *)
(*                           directory of transactions and receipts        *)
(*   ~/Library/.../          config.json with its temporary, backup and    *)
(*                           trash names, and the transaction's marker     *)
(*                                                                         *)
(* Each action is one change of the file system.  Bundles and              *)
(* configurations are opaque contents.                                     *)
(***************************************************************************)
EXTENDS Naturals, FiniteSets

CONSTANTS
  Tree,             \* contents of an application bundle
  Content,          \* contents of a configuration
  Agreements,       \* subset of BOOLEAN: see agree
  MaxTransactions,  \* installations and removals (a bound of the model)
  MaxFaults,        \* deaths and errors (a bound of the model)
  None,
  Torn              \* in place of a file whose writing was interrupted

ASSUME InstallAssumption ==
  /\ {None, Torn} \cap (Tree \cup Content) = {} /\ None # Torn
  /\ Agreements \subseteq BOOLEAN
  /\ MaxTransactions \in Nat /\ MaxFaults \in Nat

VARIABLES
  app,      \* the installed application, or None
  files,    \* what config.json and its three side names hold
  marker,   \* .transaction-<id>.json beside them: old and new content, Torn, or None
  stray,    \* a temporary of an earlier transaction was left behind
  dir,      \* the transaction directories of an installation and of a removal, or None
  receipt,  \* their cleanup receipts: "none", "torn" or "whole"
  proc,     \* the running process
  begun,    \* transactions begun so far
  faults,   \* deaths and errors so far
  agree     \* do the two ways to digest a bundle give the same?

disk == <<app, files, marker, stray, dir, receipt>>
vars == <<disk, proc, begun, faults, agree>>

\* create_bundle_manifest() digests the files in the order it walks them, tree_digest_fd()
\* in the order of their paths: for a bundle with files at two depths these differ.
Matches(tree, recorded) == agree /\ tree = recorded

Kinds == {"install", "uninstall"}
Names == {"config", "backup", "temp", "trash"}

InstallPhases ==
  {"TXN_PREPARED", "CONFIG_PREPARED", "PREPARED", "VERIFIED", "COMMITTING", "CLEANED", "ABORTED"}
UninstallPhases ==
  {"UNINSTALL_PREPARED", "UNINSTALL_MOVED", "UNINSTALL_CLEANED", "UNINSTALL_ABORTED"}

\* A transaction directory.  phase: the last state of its journal; torn: a temporary file of
\* the journal is left in it; bundle: what staged.app or trash.app holds; tree, old: the
\* bundle to install or remove, and the one it replaces; marker: the configuration's marker
\* as recorded; remove: the configuration goes too.  before: the configuration when it
\* began; removed: a removal came between; vouched: its completion receipt is written;
\* unnoted: the bundles are exchanged and published was not set (these four only for the
\* properties).
EmptyDir ==
  [phase |-> "none", torn |-> FALSE, bundle |-> None, tree |-> None, old |-> None,
   marker |-> None, remove |-> FALSE, before |-> None, removed |-> FALSE,
   vouched |-> FALSE, unnoted |-> FALSE]

\* The marker, and a directory, when they are there and whole.
Marker == [old : Content \cup {None}, new : Content]

Directory ==
  [phase : {"none"} \cup InstallPhases \cup UninstallPhases, torn : BOOLEAN,
   bundle : Tree \cup {None}, tree : Tree, old : Tree \cup {None}, marker : Marker \cup {None},
   remove : BOOLEAN, before : Content \cup {None}, removed : BOOLEAN, vouched : BOOLEAN,
   unnoted : BOOLEAN]

ASSUME AbsenceAssumption == {None, Torn} \cap Marker = {} /\ None \notin Directory

\* A process: where it is, what it was asked, whether it is recovering; on: the directory it
\* cleans up, and then: where it goes on afterwards, or, while it undoes, that published is
\* set.
Idle ==
  [pc |-> "idle", kind |-> "install", tree |-> None, conf |-> None, remove |-> FALSE,
   recovers |-> FALSE, on |-> "install", then |-> "idle"]

At(pc) == proc.pc = pc
Goto(pc) == proc' = [proc EXCEPT !.pc = pc]
Stop == proc' = Idle
Cleanup(k, then) == proc' = [proc EXCEPT !.pc = "receipt", !.on = k, !.then = then]

Begin(kind, tree, conf, remove) ==
  proc' = [Idle EXCEPT !.pc = "receipts", !.kind = kind, !.tree = tree, !.conf = conf,
                       !.remove = remove, !.recovers = TRUE]

Move(from, to) == files' = [files EXCEPT ![from] = None, ![to] = files[from]]
Drop(name) == files' = [files EXCEPT ![name] = None]

-----------------------------------------------------------------------------
(* A step of the journal: append the phase the process has come to.        *)

After ==
  [TXN_PREPARED |-> "temp", CONFIG_PREPARED |-> "backup", PREPARED |-> "swap",
   VERIFIED |-> "COMMITTING", COMMITTING |-> "dropBackup", CLEANED |-> "complete",
   UNINSTALL_PREPARED |-> "move", UNINSTALL_MOVED |-> "removeConfig"]

Log(phase) == IF phase \in InstallPhases THEN "install" ELSE "uninstall"

\* A removal that was aborted by the recovery ends the process: it has to be repeated.
Append ==
  LET k == Log(proc.pc)
  IN  /\ proc.pc \in InstallPhases \cup UninstallPhases
      /\ ~dir[k].torn
      /\ dir' = [dir EXCEPT ![k].phase = proc.pc,
                            ![k].marker = IF At("CONFIG_PREPARED") THEN marker ELSE @]
      /\ \/ proc.pc \in {"ABORTED", "UNINSTALL_ABORTED"} /\ Cleanup(k, "idle")
         \/ At("UNINSTALL_CLEANED")
            /\ Cleanup(k, IF proc.recovers THEN "uninstalls" ELSE "idle")
         \/ At("VERIFIED") /\ proc.recovers /\ Goto("configForward")
         \/ proc.pc \in DOMAIN After /\ ~(At("VERIFIED") /\ proc.recovers)
            /\ Goto(After[proc.pc])
      /\ UNCHANGED <<app, files, marker, stray, receipt, begun, faults, agree>>

\* The temporary that a failed append has left is in the way of the next one (O_EXCL), whose
\* error ends the process.
AppendRefused ==
  /\ At("ABORTED") /\ dir.install.torn
  /\ Stop
  /\ UNCHANGED <<disk, begun, faults, agree>>

-----------------------------------------------------------------------------
(* Cleaning up: a receipt that lists what is to be deleted comes first and *)
(* goes last, so that the deletion can be resumed.                         *)

WriteReceipt ==
  /\ At("receipt")
  /\ receipt' = [receipt EXCEPT ![proc.on] = "whole"]
  /\ Goto("delete")
  /\ UNCHANGED <<app, files, marker, stray, dir, begun, faults, agree>>

DeleteDir ==
  /\ At("delete")
  /\ dir' = [dir EXCEPT ![proc.on] = None]
  /\ Goto("unlink")
  /\ UNCHANGED <<app, files, marker, stray, receipt, begun, faults, agree>>

\* Mutant of UnlinkReceipt: the receipt stays.
UnlinkReceiptNever ==
  /\ At("unlink")
  /\ IF proc.then = "idle" THEN Stop ELSE Goto(proc.then)
  /\ UNCHANGED <<disk, begun, faults, agree>>

UnlinkReceipt ==
  /\ At("unlink")
  /\ receipt' = [receipt EXCEPT ![proc.on] = "none"]
  /\ IF proc.then = "idle" THEN Stop ELSE Goto(proc.then)
  /\ UNCHANGED <<app, files, marker, stray, dir, begun, faults, agree>>

-----------------------------------------------------------------------------
(* Recovery.  It begins with the receipts, then finishes removals, then    *)
(* installations; what it does not understand it leaves alone and ends.    *)

ResumeReceipts ==
  /\ At("receipts")
  /\ \/ \E k \in Kinds : receipt[k] = "torn" /\ Stop
     \/ /\ \A k \in Kinds : receipt[k] # "torn"
        /\ \E k \in Kinds :
             /\ receipt[k] = "whole"
             /\ proc' = [proc EXCEPT !.pc = "delete", !.on = k, !.then = "receipts"]
     \/ (\A k \in Kinds : receipt[k] = "none") /\ Goto("uninstalls")
  /\ UNCHANGED <<disk, begun, faults, agree>>

\* Journal.recover_head() accepts a journal with no temporary left in it and a first state.
Readable(k) == dir[k] # None => ~dir[k].torn /\ dir[k].phase # "none"

\* Mutant of RemovalGoesOn: a bundle that was moved only needs to be cleaned up.
RemovalGoesOnToCleanup(u) ==
  CASE u.phase = "UNINSTALL_PREPARED" /\ app = u.tree /\ u.bundle = None -> "UNINSTALL_ABORTED"
    [] u.phase # "UNINSTALL_PREPARED" \/ app = None -> "receipt"
    [] OTHER -> "refused"

\* Where a removal goes on; "refused" if it is not understood.
RemovalGoesOn(u) ==
  CASE u.phase = "UNINSTALL_PREPARED" /\ app = u.tree /\ u.bundle = None -> "UNINSTALL_ABORTED"
    [] u.phase = "UNINSTALL_PREPARED" /\ app = None /\ u.bundle # None -> "UNINSTALL_MOVED"
    [] u.phase = "UNINSTALL_ABORTED" /\ app = u.tree /\ u.bundle = None -> "receipt"
    [] u.phase \in {"UNINSTALL_MOVED", "UNINSTALL_CLEANED"} /\ app = None -> "removeConfig"
    [] OTHER -> "refused"

\* The journals of all transactions are read before it is known which are removals.
RecoverUninstall ==
  LET u == dir.uninstall
  IN  /\ At("uninstalls")
      /\ \/ ~(Readable("install") /\ Readable("uninstall")) /\ Stop
         \/ /\ Readable("install") /\ Readable("uninstall")
            /\ \/ u = None /\ Goto(IF proc.kind = "install" THEN "installs" ELSE "begin")
               \/ u # None /\ RemovalGoesOn(u) = "refused" /\ Stop
               \/ u # None /\ RemovalGoesOn(u) = "receipt" /\ Cleanup("uninstall", "idle")
               \/ /\ u # None /\ RemovalGoesOn(u) \notin {"refused", "receipt"}
                  /\ Goto(RemovalGoesOn(u))
      /\ UNCHANGED <<disk, begun, faults, agree>>

\* Forward, if the new application is known to be in place; back, if it is known not to be;
\* "VERIFIED" to note it first; "refused" if neither can be told.
InstallGoesOn(i) ==
  CASE i.phase \in {"VERIFIED", "COMMITTING", "CLEANED"} -> "configForward"
    [] i.phase \in {"TXN_PREPARED", "CONFIG_PREPARED"} /\ Matches(i.bundle, i.tree)
       /\ (IF i.old = None THEN app = None ELSE Matches(app, i.old)) -> "configBack"
    [] i.phase = "PREPARED" /\ i.old = None /\ i.bundle = None
       /\ app # None /\ Matches(app, i.tree) -> "VERIFIED"
    [] i.phase = "PREPARED" /\ i.old = None /\ app = None /\ Matches(i.bundle, i.tree)
       -> "configBack"
    [] i.phase = "PREPARED" /\ i.old # None /\ app # None /\ i.bundle # None
       /\ Matches(app, i.tree) /\ ~Matches(i.bundle, i.tree) -> "VERIFIED"
    [] i.phase = "PREPARED" /\ i.old # None /\ app # None /\ i.bundle # None
       /\ Matches(i.bundle, i.tree) /\ ~Matches(app, i.tree) -> "configBack"
    [] OTHER -> "refused"

RecoverInstall ==
  LET i == dir.install
  IN  /\ At("installs")
      /\ \/ i = None /\ proc' = [proc EXCEPT !.pc = "mkdir", !.recovers = FALSE]
         \/ i # None /\ InstallGoesOn(i) = "refused" /\ Stop
         \/ i # None /\ InstallGoesOn(i) # "refused" /\ Goto(InstallGoesOn(i))
      /\ UNCHANGED <<disk, begun, faults, agree>>

-----------------------------------------------------------------------------
(* The configuration half, _recover_config_marker().                       *)

\* A file that equals both contents counts as new.
Role(x) ==
  IF x = None THEN "absent"
  ELSE IF x = marker.new THEN "new"
  ELSE IF x = marker.old THEN "old" ELSE "foreign"

Roles(config, backup, temp, trash) ==
  [config |-> config, backup |-> backup, temp |-> temp, trash |-> trash]

\* The table of _PLANS, first actions only, with the states an interrupted recovery leaves.
\* has: was there a configuration before; way: "configForward" or "configBack", or either.
Table ==
  LET Row(has, roles, way, do) == [has |-> has, roles |-> roles, way |-> way, do |-> do]
      forward == {"configForward"}
      back == {"configBack"}
      a == Roles("old", "absent", "new", "absent")
      b == Roles("absent", "old", "new", "absent")
      c == Roles("new", "old", "absent", "absent")
      d == Roles("absent", "absent", "new", "absent")
      e == Roles("new", "absent", "absent", "absent")
      gone == Roles("absent", "absent", "absent", "absent")
      kept == Roles("old", "absent", "absent", "absent")
  IN  { Row(BOOLEAN, Roles("absent", "old", "absent", "new"), forward \cup back, "RESTORE_BACKUP"),
        Row(BOOLEAN, Roles("old", "absent", "absent", "new"), forward \cup back, "DROP_TRASH"),
        Row(BOOLEAN, Roles("absent", "absent", "absent", "new"), forward \cup back, "DROP_TRASH"),
        Row({TRUE}, a, back, "DROP_TEMP"),        Row({TRUE}, a, forward, "OLD_TO_BACKUP"),
        Row({TRUE}, b, back, "RESTORE_BACKUP"),   Row({TRUE}, b, forward, "PUBLISH_TEMP"),
        Row({TRUE}, c, back, "NEW_TO_TRASH"),     Row({TRUE}, c, forward, "DROP_BACKUP"),
        Row({FALSE}, d, back, "DROP_TEMP"),       Row({FALSE}, d, forward, "PUBLISH_TEMP"),
        Row({FALSE}, e, back, "NEW_TO_TRASH"),    Row({FALSE}, e, forward, "converged"),
        Row({TRUE}, kept, forward \cup back, "converged"),
        Row({TRUE}, e, forward \cup back, "converged"),
        Row({FALSE}, gone, forward \cup back, "converged") }

\* Mutant of Advice: only the states that an installation leaves are known, not those
\* that an interrupted recovery does.
AdviceOfCells(way) ==
  {row.do : row \in {r \in Table : /\ (marker.old # None) \in r.has
                                   /\ r.roles = [name \in Names |-> Role(files[name])]
                                   /\ r.roles.trash = "absent"
                                   /\ way \in r.way}}

\* What the table says of the files as they are: one action, or none.
Advice(way) ==
  {row.do : row \in {r \in Table : /\ (marker.old # None) \in r.has
                                   /\ r.roles = [name \in Names |-> Role(files[name])]
                                   /\ way \in r.way}}

Moves ==
  [OLD_TO_BACKUP |-> <<"config", "backup">>, PUBLISH_TEMP |-> <<"temp", "config">>,
   NEW_TO_TRASH |-> <<"config", "trash">>, RESTORE_BACKUP |-> <<"backup", "config">>]
Drops == [DROP_TEMP |-> "temp", DROP_BACKUP |-> "backup", DROP_TRASH |-> "trash"]

\* Without a marker, a transaction that recorded one must have been committed, and one that
\* did not has left the configuration alone.
MarkerlessIsFine(i) ==
  i.marker # None =>
    /\ files.config = i.marker.new
    /\ \A name \in Names \ {"config"} : files[name] = None

MarkerIsFine(i) ==
  /\ marker # Torn /\ ~stray
  /\ i.marker # None => marker = i.marker

NotUnderstood(i, way) ==
  IF marker = None THEN ~MarkerlessIsFine(i) ELSE MarkerIsFine(i) => Advice(way) = {}

Converged == IF At("configForward") THEN Goto("complete") ELSE Cleanup("install", "installs")

RecoverConfig ==
  LET i == dir.install
  IN  /\ At("configForward") \/ At("configBack")
      /\ \/ /\ marker = None /\ MarkerlessIsFine(i)
            /\ Converged
            /\ UNCHANGED <<files, marker>>
         \/ /\ marker # None /\ MarkerIsFine(i)
            /\ \E do \in Advice(proc.pc) :
                 \/ /\ do \in DOMAIN Moves
                    /\ Move(Moves[do][1], Moves[do][2])
                    /\ UNCHANGED <<marker, proc>>
                 \/ /\ do \in DOMAIN Drops
                    /\ Drop(Drops[do])
                    /\ UNCHANGED <<marker, proc>>
                 \/ /\ do = "converged"
                    /\ marker' = None
                    /\ Converged
                    /\ UNCHANGED files
         \/ /\ NotUnderstood(i, proc.pc) = TRUE
            /\ Stop
            /\ UNCHANGED <<files, marker>>
      /\ UNCHANGED <<app, stray, dir, receipt, begun, faults, agree>>

-----------------------------------------------------------------------------
(* Installing.                                                             *)

StartInstall ==
  /\ At("idle")
  /\ \E tree \in Tree, conf \in Content : Begin("install", tree, conf, FALSE)
  /\ UNCHANGED <<disk, begun, faults, agree>>

MakeDir ==
  /\ At("mkdir") /\ begun < MaxTransactions
  /\ dir' = [dir EXCEPT !.install = [EmptyDir EXCEPT !.tree = proc.tree,
                                                     !.before = files.config]]
  /\ begun' = begun + 1
  /\ Goto("stage")
  /\ UNCHANGED <<app, files, marker, stray, receipt, faults, agree>>

\* (Bound: no more transactions.)
GiveUp == At("mkdir") /\ begun = MaxTransactions /\ Stop /\ UNCHANGED <<disk, begun, faults, agree>>

Stage ==
  /\ At("stage")
  /\ dir' = [dir EXCEPT !.install.bundle = proc.tree, !.install.old = app]
  /\ Goto("TXN_PREPARED")
  /\ UNCHANGED <<app, files, marker, stray, receipt, begun, faults, agree>>

WriteTemp ==
  /\ At("temp")
  /\ files' = [files EXCEPT !.temp = proc.conf]
  /\ stray' = (stray \/ files.temp # None)
  /\ Goto("marker")
  /\ UNCHANGED <<app, marker, dir, receipt, begun, faults, agree>>

\* Mutant of WriteMarker: the new content is taken from the file in place.
WriteMarkerStale ==
  /\ At("marker")
  /\ marker' = [old |-> files.config, new |-> files.config]
  /\ Goto("CONFIG_PREPARED")
  /\ UNCHANGED <<app, files, stray, dir, receipt, begun, faults, agree>>

WriteMarker ==
  /\ At("marker")
  /\ marker' = [old |-> files.config, new |-> proc.conf]
  /\ Goto("CONFIG_PREPARED")
  /\ UNCHANGED <<app, files, stray, dir, receipt, begun, faults, agree>>

\* Mutant of BackUp: the old configuration is overwritten.
BackUpNothing == At("backup") /\ Goto("publish") /\ UNCHANGED <<disk, begun, faults, agree>>

BackUp ==
  /\ At("backup")
  /\ IF marker.old # None THEN Move("config", "backup") ELSE UNCHANGED files
  /\ Goto("publish")
  /\ UNCHANGED <<app, marker, stray, dir, receipt, begun, faults, agree>>

PublishConfig ==
  /\ At("publish")
  /\ Move("temp", "config")
  /\ Goto("PREPARED")
  /\ UNCHANGED <<app, marker, stray, dir, receipt, begun, faults, agree>>

\* One rename exchanges the staged and the installed bundle, or moves it into place;
\* published is set once the directory is synchronised, which may fail (Fail).
Swap ==
  /\ At("swap")
  /\ app' = dir.install.bundle
  /\ dir' = [dir EXCEPT !.install.bundle = app]
  /\ Goto("VERIFIED")
  /\ UNCHANGED <<files, marker, stray, receipt, begun, faults, agree>>

DropBackup ==
  /\ At("dropBackup")
  /\ Drop("backup")
  /\ Goto("dropMarker")
  /\ UNCHANGED <<app, marker, stray, dir, receipt, begun, faults, agree>>

DropMarker ==
  /\ At("dropMarker")
  /\ marker' = None
  /\ Goto("CLEANED")
  /\ UNCHANGED <<app, files, stray, dir, receipt, begun, faults, agree>>

\* The completion receipt, written when application and configuration are what was wanted.
Complete ==
  LET i == dir.install
  IN  /\ At("complete")
      /\ IF app = i.tree /\ files.config = i.marker.new
         THEN /\ dir' = [dir EXCEPT !.install.vouched = TRUE]
              /\ Cleanup("install", IF proc.recovers THEN "installs" ELSE "idle")
         ELSE Stop /\ UNCHANGED dir
      /\ UNCHANGED <<app, files, marker, stray, receipt, begun, faults, agree>>

-----------------------------------------------------------------------------
(* Undoing an installation that failed before it was published, or while   *)
(* it was: the configuration first, then the application.                  *)

UndoConfig ==
  /\ At("undoConfig")
  /\ IF files.temp # None THEN Drop("temp") ELSE Drop("config")
  /\ Goto("undoBackup")
  /\ UNCHANGED <<app, marker, stray, dir, receipt, begun, faults, agree>>

UndoBackup ==
  /\ At("undoBackup")
  /\ IF files.backup # None THEN Move("backup", "config") ELSE UNCHANGED files
  /\ Goto("undoMarker")
  /\ UNCHANGED <<app, marker, stray, dir, receipt, begun, faults, agree>>

UndoMarker ==
  /\ At("undoMarker")
  /\ marker' = None
  /\ Goto("undoSwap")
  /\ UNCHANGED <<app, files, stray, dir, receipt, begun, faults, agree>>

\* Mutant of UndoSwap: the new application stays in place.
UndoSwapForgets == At("undoSwap") /\ Goto("ABORTED") /\ UNCHANGED <<disk, begun, faults, agree>>

\* The bundles are exchanged back if published is set.  If the error came after the exchange
\* and before that, the new application stays, and the cleanup deletes the old one.
UndoSwap ==
  LET i == dir.install
  IN  /\ At("undoSwap")
      /\ IF proc.then = "published"
         THEN app' = i.bundle /\ dir' = [dir EXCEPT !.install.bundle = app]
         ELSE UNCHANGED <<app, dir>>
      /\ Goto("ABORTED")
      /\ UNCHANGED <<files, marker, stray, receipt, begun, faults, agree>>

-----------------------------------------------------------------------------
(* Removing the application.                                               *)

StartUninstall ==
  /\ At("idle")
  /\ \E remove \in BOOLEAN : Begin("uninstall", None, None, remove)
  /\ UNCHANGED <<disk, begun, faults, agree>>

BeginRemoval ==
  /\ At("begin")
  /\ \/ /\ app # None /\ begun < MaxTransactions
        /\ dir' = [dir EXCEPT !.uninstall = [EmptyDir EXCEPT !.tree = app, !.remove = proc.remove,
                                                             !.before = files.config]]
        /\ begun' = begun + 1
        /\ proc' = [proc EXCEPT !.pc = "UNINSTALL_PREPARED", !.recovers = FALSE]
     \/ /\ app # None /\ begun = MaxTransactions
        /\ Stop /\ UNCHANGED <<dir, begun>>
     \/ /\ app = None
        /\ IF proc.remove THEN proc' = [proc EXCEPT !.pc = "removeOnly", !.recovers = FALSE]
           ELSE Stop
        /\ UNCHANGED <<dir, begun>>
  /\ UNCHANGED <<app, files, marker, stray, receipt, faults, agree>>

MoveToTrash ==
  /\ At("move")
  /\ app' = None
  /\ dir' = [k \in Kinds |-> IF k = "uninstall" THEN [dir[k] EXCEPT !.bundle = app]
                            ELSE IF dir[k] # None THEN [dir[k] EXCEPT !.removed = TRUE] ELSE None]
  /\ Goto("UNINSTALL_MOVED")
  /\ UNCHANGED <<files, marker, stray, receipt, begun, faults, agree>>

\* With the application gone already there is no transaction.
RemoveConfig ==
  LET asked == At("removeOnly") \/ (At("removeConfig") /\ dir.uninstall.remove)
  IN  /\ At("removeConfig") \/ At("removeOnly")
      /\ files' = IF asked THEN [files EXCEPT !.config = None] ELSE files
      /\ dir' = IF asked /\ dir.install # None THEN [dir EXCEPT !.install.removed = TRUE] ELSE dir
      /\ IF At("removeOnly") THEN Stop ELSE Goto("UNINSTALL_CLEANED")
      /\ UNCHANGED <<app, marker, stray, receipt, begun, faults, agree>>

-----------------------------------------------------------------------------
(* Faults.                                                                 *)

Crash ==
  /\ ~At("idle") /\ faults < MaxFaults
  /\ Stop
  /\ faults' = faults + 1
  /\ UNCHANGED <<disk, begun, agree>>

\* What a write that breaks off leaves: under its temporary name, for the journal, and else
\* under its own.
BreakOff ==
  \/ /\ proc.pc \in InstallPhases \cup UninstallPhases
     /\ dir' = [dir EXCEPT ![Log(proc.pc)].torn = TRUE]
     /\ UNCHANGED <<marker, receipt>>
  \/ /\ At("receipt")
     /\ receipt' = [receipt EXCEPT ![proc.on] = "torn"]
     /\ UNCHANGED <<marker, dir>>
  \/ /\ At("marker")
     /\ marker' = Torn
     /\ UNCHANGED <<dir, receipt>>

\* Death while a file is written.
Tear ==
  /\ faults < MaxFaults
  /\ BreakOff
  /\ Stop
  /\ faults' = faults + 1
  /\ UNCHANGED <<app, files, stray, begun, agree>>

UndoPublished == proc' = [proc EXCEPT !.pc = "undoConfig", !.then = "published"]

\* An error that the process survives, before a step or at its end, or while it writes:
\* before the first state of the journal, while the configuration is written, and while the
\* application is published; there, before published is set, or after that and up to the end
\* of the append of VERIFIED.
Fail ==
  /\ ~proc.recovers /\ faults < MaxFaults
  /\ \/ /\ \/ At("TXN_PREPARED") /\ Cleanup("install", "idle")
           \/ At("temp") /\ Goto("undoSwap")
           \/ proc.pc \in {"marker", "CONFIG_PREPARED", "backup", "publish", "PREPARED", "swap"}
              /\ Goto("undoConfig")
           \/ proc.pc \in {"VERIFIED", "COMMITTING"} /\ UndoPublished
        /\ UNCHANGED <<marker, dir, receipt>>
     \/ /\ \/ proc.pc \in {"marker", "CONFIG_PREPARED", "PREPARED"} /\ Goto("undoConfig")
           \/ At("VERIFIED") /\ UndoPublished
        /\ BreakOff
     \/ /\ At("VERIFIED") /\ Goto("undoConfig")
        /\ dir' = [dir EXCEPT !.install.unnoted = TRUE]
        /\ UNCHANGED <<marker, receipt>>
  /\ faults' = faults + 1
  /\ UNCHANGED <<app, files, stray, begun, agree>>

-----------------------------------------------------------------------------
Init ==
  /\ app \in Tree \cup {None}
  /\ \E conf \in Content \cup {None} :
       files = [name \in Names |-> IF name = "config" THEN conf ELSE None]
  /\ marker = None /\ stray = FALSE
  /\ dir = [k \in Kinds |-> None] /\ receipt = [k \in Kinds |-> "none"]
  /\ proc = Idle
  /\ begun = 0 /\ faults = 0
  /\ agree \in Agreements

\* What a process that has begun does, as long as nothing goes wrong.
Step ==
  \/ Append \/ AppendRefused \/ WriteReceipt \/ DeleteDir \/ UnlinkReceipt
  \/ ResumeReceipts \/ RecoverUninstall \/ RecoverInstall \/ RecoverConfig
  \/ MakeDir \/ GiveUp \/ Stage \/ WriteTemp \/ WriteMarker \/ BackUp \/ PublishConfig
  \/ Swap \/ DropBackup \/ DropMarker \/ Complete
  \/ UndoConfig \/ UndoBackup \/ UndoMarker \/ UndoSwap
  \/ BeginRemoval \/ MoveToTrash \/ RemoveConfig

Next == StartInstall \/ StartUninstall \/ Step \/ Crash \/ Tear \/ Fail

Spec == Init /\ [][Next]_vars

Pending == \E k \in Kinds : dir[k] # None \/ receipt[k] # "none"

\* A process that has begun runs on, and the operator runs the installer again as long as
\* something is pending.
FairSpec == Spec /\ WF_vars(Step) /\ SF_vars(StartInstall /\ Pending)

-----------------------------------------------------------------------------
(* Properties.                                                             *)

TypeOK ==
  /\ app \in Tree \cup {None}
  /\ files \in [Names -> Content \cup {None}]
  /\ marker \in Marker \cup {Torn, None}
  /\ \A k \in Kinds : dir[k] # None =>
       /\ dir[k].phase \in {"none"} \cup (IF k = "install" THEN InstallPhases ELSE UninstallPhases)
       /\ {dir[k].bundle, dir[k].tree, dir[k].old} \subseteq Tree \cup {None}
  /\ receipt \in [Kinds -> {"none", "torn", "whole"}]
  /\ begun \in 0..MaxTransactions /\ faults \in 0..MaxFaults

Decided(i) == i.phase \in {"VERIFIED", "COMMITTING", "CLEANED"}

\* Whenever the process dies, nothing is lost: as long as the transaction is pending, the
\* configuration there was before is still there under one name or another, or the new one
\* is in place; and until the new application is verified, the old one is still there.
NothingIsLost ==
  LET i == dir.install
  IN  i # None /\ ~i.removed =>
        /\ \/ i.before \in {None, files.config, files.backup}
           \/ Decided(i) /\ files.config = i.marker.new
        /\ i.old \in {None, app, i.bundle} \/ Decided(i)

\* The application and the configuration that an installation was to bring, those there were
\* before, and one of each.
NewPair(i) == i.marker # None /\ app = i.tree /\ files.config = i.marker.new
OldPair(i) == app = i.old /\ files.config = i.before
MixedPair(i) == app = i.tree /\ files.config = i.before

\* An installation ends with the application and the configuration it was to bring, or with
\* those there were before, and leaves no copy behind; it is vouched for only in the first
\* case.  The new application is left with the old configuration in one case alone, when an
\* error came between the exchange of the bundles and the setting of published, and even
\* then nothing vouches for it.
EndsWhole ==
  [][LET i == dir.install
     IN  i # None /\ dir'.install = None /\ ~i.removed =>
           /\ \/ NewPair(i)
              \/ OldPair(i) /\ ~i.vouched
              \/ MixedPair(i) /\ i.unnoted /\ ~i.vouched
           /\ files.backup = None /\ files.trash = None]_vars

\* A removal ends with the application gone, and the configuration gone exactly if that
\* was asked for, or with both untouched, even if two processes shared the work.
RemovalIsAsAsked ==
  [][LET u == dir.uninstall
     IN  u # None /\ dir'.uninstall = None =>
           IF u.phase = "UNINSTALL_CLEANED"
           THEN app = None /\ files.config = (IF u.remove THEN None ELSE u.before)
           ELSE app = u.tree /\ files.config = u.before]_vars

\* Reasons for which every further recovery refuses (section 6 of the README).

\* A file was torn, or the directory has no journal yet.
Unreadable(k) == receipt[k] = "torn" \/ (receipt[k] = "none" /\ ~Readable(k))

Awaits(k) == dir[k] # None /\ receipt[k] = "none" /\ Readable(k)

InstallRefused == Awaits("install") /\ InstallGoesOn(dir.install) = "refused"
RemovalRefused == Awaits("uninstall") /\ RemovalGoesOn(dir.uninstall) = "refused"

Way(i) == IF InstallGoesOn(i) = "configBack" THEN "configBack" ELSE "configForward"

ConfigRefused ==
  /\ Awaits("install") /\ ~InstallRefused
  /\ NotUnderstood(dir.install, Way(dir.install))

\* The application that was to be vouched for is not there: it was removed, or exchanged back
\* by an undoing that died.
AppRemoved == Awaits("install") /\ Decided(dir.install) /\ app # dir.install.tree

Barred ==
  /\ At("idle")
  /\ (\E k \in Kinds : Unreadable(k)) \/ InstallRefused \/ RemovalRefused \/ ConfigRefused
     \/ AppRemoved

\* A recovery that has begun to move the configuration's files is always understood by the
\* one that follows, wherever the first one died, unless a removal came between.
RecoveryStaysUnderstood ==
  [][proc.pc \in {"configForward", "configBack"} /\ files' # files =>
       dir.install.removed \/ ~ConfigRefused']_vars

\* What is pending comes to an end once the installer is run again, or is barred for good.
Converges == Pending ~> ~Pending \/ Barred

\* recover_transactions(): "A PREPARED transaction is either cleaned as unpublished or
\* completed forward when the destination is already the recorded new tree."
PreparedIsRecovered ==
  LET i == dir.install
  IN  At("idle") /\ Awaits("install") /\ i.phase = "PREPARED" /\ i.tree # i.old
      /\ (app = i.tree \/ (app = i.old /\ i.bundle = i.tree)) => ~InstallRefused
=============================================================================
