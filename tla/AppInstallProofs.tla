-------------------------- MODULE AppInstallProofs --------------------------
(***************************************************************************)
(* Proofs about AppInstall, for any bundles, any configurations, any       *)
(* number of transactions and faults, and whether or not the two ways to   *)
(* digest a bundle agree.                                                  *)
(***************************************************************************)
EXTENDS AppInstall, TLAPS

(***************************************************************************)
(* Where a process can be.                                                 *)
(***************************************************************************)
Undoing == {"undoConfig", "undoBackup", "undoMarker", "undoSwap", "ABORTED"}

\* The steps of an installation that no recovery takes; it may take "VERIFIED" too.
Installing ==
  {"stage", "TXN_PREPARED", "temp", "marker", "CONFIG_PREPARED", "backup", "publish", "PREPARED",
   "swap", "COMMITTING", "dropBackup", "dropMarker", "CLEANED"} \cup Undoing

Recovering == {"configForward", "configBack"}

\* The steps at which there is an installation.
Having == Installing \cup Recovering \cup {"VERIFIED", "complete"}

Removing == UninstallPhases \cup {"move", "removeConfig"}

Cleaning == {"receipt", "delete", "unlink"}

Resuming == {"idle", "receipts", "delete", "unlink"}

Places ==
  Having \cup Removing \cup Cleaning \cup Resuming
    \cup {"uninstalls", "installs", "mkdir", "begin", "removeOnly"}

Process ==
  [pc : Places, kind : Kinds, tree : Tree \cup {None}, conf : Content \cup {None},
   remove : BOOLEAN, recovers : BOOLEAN, on : Kinds,
   then : {"idle", "receipts", "uninstalls", "installs", "published"}]

ProcTyped ==
  /\ proc \in Process
  /\ proc.kind = "install" /\ proc.pc # "idle" => proc.tree \in Tree /\ proc.conf \in Content

Typed ==
  /\ TypeOK
  /\ stray \in BOOLEAN
  /\ dir \in [Kinds -> Directory \cup {None}]
  /\ agree \in BOOLEAN
  /\ ProcTyped

(***************************************************************************)
(* What is on the disk, whoever is at work.                                *)
(***************************************************************************)
UntouchedRemoval(u) == app = u.tree /\ files.config = u.before /\ u.bundle = None
AsAsked(u) == app = None /\ files.config = IF u.remove THEN None ELSE u.before

RemovalInv(u) ==
  /\ u.phase \in {"none", "UNINSTALL_ABORTED"} => UntouchedRemoval(u)
  /\ u.phase = "UNINSTALL_PREPARED" =>
       UntouchedRemoval(u) \/ (app = None /\ files.config = u.before /\ u.bundle # None)
  /\ u.phase = "UNINSTALL_MOVED" => app = None /\ (files.config = u.before \/ AsAsked(u))
  /\ u.phase = "UNINSTALL_CLEANED" => AsAsked(u)

RemovalEnded(u) == u # None => u.phase \in {"UNINSTALL_CLEANED", "UNINSTALL_ABORTED"}

Clean == marker = None /\ files.backup = None /\ files.trash = None

\* An installation's traces, even if a removal came between.
TracesInv(i) ==
  /\ i.phase \in {"none", "TXN_PREPARED"} => i.marker = None
  /\ i.phase \in {"CONFIG_PREPARED", "PREPARED", "VERIFIED", "COMMITTING", "CLEANED"} =>
       i.marker # None
  /\ i.marker # None => marker \in {None, i.marker}
  /\ i.marker = None /\ marker = None => Clean
  /\ i.phase = "none" => marker = None
  /\ i.vouched => Decided(i)

\* The two bundles, before the exchange and after it.
Arranged(i) == app = i.old /\ i.bundle = i.tree
Exchanged(i) == app = i.tree /\ i.bundle = i.old

\* What an installation has kept, if no removal came between.
KeptInv(i) ==
  /\ \/ i.before \in {None, files.config, files.backup}
     \/ Decided(i) /\ files.config = i.marker.new
  /\ i.old \in {None, app, i.bundle} \/ Decided(i)
  /\ marker \in Marker => marker.old = i.before
  /\ i.marker # None => i.marker.old = i.before
  /\ i.phase \in {"TXN_PREPARED", "CONFIG_PREPARED"} => Arranged(i)
  /\ i.phase = "PREPARED" => Arranged(i) \/ Exchanged(i)
  /\ ~Decided(i) /\ marker = None => files.config = i.before /\ Clean

InstallEnded(i) ==
  /\ Clean
  /\ i # None /\ ~i.removed =>
       \/ i.marker # None /\ app = i.tree /\ files.config = i.marker.new
       \/ app = i.old /\ files.config = i.before /\ ~i.vouched
       \/ app = i.tree /\ files.config = i.before /\ i.unnoted /\ ~i.vouched

DiskInv ==
  LET i == dir.install
      u == dir.uninstall
  IN  /\ receipt.install = "none" \/ receipt.uninstall = "none"
      /\ u # None => RemovalInv(u)
      /\ receipt.uninstall # "none" => RemovalEnded(u)
      /\ i = None => Clean
      /\ i # None => TracesInv(i)
      /\ i # None /\ ~i.removed => KeptInv(i)
      /\ receipt.install # "none" => InstallEnded(i)

(***************************************************************************)
(* What a process knows at each of its steps.                              *)
(***************************************************************************)
NoReceipts == receipt.install = "none" /\ receipt.uninstall = "none"

CleaningInv ==
  /\ proc.pc \notin Resuming => NoReceipts
  /\ proc.pc = "receipt" =>
       IF proc.on = "install" THEN InstallEnded(dir.install) ELSE RemovalEnded(dir.uninstall)
  /\ proc.pc \in {"delete", "unlink"} => receipt[proc.on] = "whole"
  /\ proc.pc = "unlink" => dir[proc.on] = None
  /\ proc.pc \in Cleaning /\ proc.then # "idle" => proc.recovers
  /\ proc.pc \in Cleaning /\ proc.then = "installs" =>
       proc.on = "install" /\ proc.kind = "install" /\ dir.uninstall = None
  /\ proc.then = "published" => proc.pc \in Undoing

LookingInv ==
  /\ proc.pc \in {"receipts", "uninstalls", "installs", "begin"} \cup Recovering => proc.recovers
  /\ proc.pc \in {"begin", "removeOnly"} => dir.uninstall = None
  /\ proc.pc \in Having \cup {"installs", "mkdir"} => dir.uninstall = None /\ proc.kind = "install"
  /\ proc.pc \in Having => dir.install # None
  /\ proc.pc = "mkdir" => dir.install = None /\ ~proc.recovers

RemovingInv(pc, u) ==
  /\ pc \in Removing => u # None
  /\ pc = "UNINSTALL_PREPARED" => u.phase = "none"
  /\ pc \in {"move", "UNINSTALL_ABORTED"} => u.phase = "UNINSTALL_PREPARED" /\ u.bundle = None
  /\ pc = "UNINSTALL_MOVED" => u.phase = "UNINSTALL_PREPARED" /\ u.bundle # None
  /\ pc = "removeConfig" => u.phase \in {"UNINSTALL_MOVED", "UNINSTALL_CLEANED"}
  /\ pc = "UNINSTALL_CLEANED" =>
       u.phase \in {"UNINSTALL_MOVED", "UNINSTALL_CLEANED"} /\ AsAsked(u)

Files(config, backup, temp) ==
  files.config = config /\ files.backup = backup /\ files.temp = temp /\ files.trash = None

Marked(i) == marker = [old |-> i.before, new |-> proc.conf]
Recorded(i) == Marked(i) /\ i.marker = marker

InstallingInv(pc, i) ==
  /\ pc = "stage" => i.phase = "none" /\ i.old = None /\ i.tree = proc.tree
  /\ pc = "TXN_PREPARED" => i.phase = "none" /\ Arranged(i)
  /\ pc = "temp" => i.phase = "TXN_PREPARED" /\ marker = None
  /\ pc = "marker" => i.phase = "TXN_PREPARED" /\ marker = None /\ files.temp = proc.conf
  /\ pc = "CONFIG_PREPARED" =>
       i.phase = "TXN_PREPARED" /\ Marked(i) /\ Files(i.before, None, proc.conf)
  /\ pc = "backup" => i.phase = "CONFIG_PREPARED" /\ Recorded(i) /\ Files(i.before, None, proc.conf)
  /\ pc = "publish" =>
       i.phase = "CONFIG_PREPARED" /\ Recorded(i) /\ Files(None, i.before, proc.conf)
  /\ pc = "PREPARED" =>
       i.phase = "CONFIG_PREPARED" /\ Recorded(i) /\ Files(proc.conf, i.before, None)
  /\ pc = "swap" =>
       i.phase = "PREPARED" /\ Recorded(i) /\ Files(proc.conf, i.before, None) /\ Arranged(i)
  /\ pc = "VERIFIED" =>
       i.phase = "PREPARED" /\ Recorded(i) /\ Files(proc.conf, i.before, None) /\ Exchanged(i)
  /\ pc = "COMMITTING" =>
       i.phase = "VERIFIED" /\ Recorded(i) /\ Files(proc.conf, i.before, None) /\ Exchanged(i)
  /\ pc = "dropBackup" => i.phase = "COMMITTING" /\ Recorded(i) /\ Files(proc.conf, i.before, None)
  /\ pc = "dropMarker" => i.phase = "COMMITTING" /\ Recorded(i) /\ Files(proc.conf, None, None)
  /\ pc = "CLEANED" => i.phase = "COMMITTING" /\ marker = None /\ Files(i.marker.new, None, None)

\* The bundles are where they were, are known to be exchanged, or are so unnoted.
Undoable(i) ==
  IF proc.then = "published" THEN i.phase \in {"PREPARED", "VERIFIED"} /\ Exchanged(i)
  ELSE \/ i.phase \in {"TXN_PREPARED", "CONFIG_PREPARED", "PREPARED"} /\ Arranged(i)
       \/ i.phase = "PREPARED" /\ Exchanged(i) /\ i.unnoted

\* The old configuration is in place again, or its backup is still there.
Undone(i) ==
  \/ files.config = i.before /\ files.backup = None
  \/ marker # None /\ files.config = None /\ files.backup = i.before

UndoingInv(pc, i) ==
  /\ pc \in Undoing \ {"ABORTED"} => Undoable(i) /\ files.trash = None
  /\ pc = "undoConfig" =>
       \/ files.temp # None /\ Undone(i)
       \/ files.temp = None /\ marker # None /\ files.backup = i.before
  /\ pc = "undoBackup" => Undone(i)
  /\ pc = "undoMarker" => files.config = i.before /\ files.backup = None
  /\ pc = "undoSwap" => files.config = i.before /\ Clean
  /\ pc = "ABORTED" =>
       /\ app = i.old \/ (Exchanged(i) /\ i.unnoted)
       /\ files.config = i.before /\ Clean

RecoveringInv(pc, i) ==
  /\ pc = "configForward" => Decided(i)
  /\ pc = "configBack" => ~Decided(i) /\ InstallGoesOn(i) = "configBack"
  /\ pc = "VERIFIED" => i.phase = "PREPARED"
  /\ pc = "complete" => Decided(i) /\ Clean

WorkInv ==
  LET i == dir.install
      pc == proc.pc
  IN  /\ RemovingInv(pc, dir.uninstall)
      /\ pc \in Installing => ~proc.recovers
      /\ pc \in Installing \cup {"VERIFIED"} /\ ~proc.recovers =>
           ~i.removed /\ ~i.vouched /\ InstallingInv(pc, i) /\ UndoingInv(pc, i)
      /\ RecoveringInv(pc, i)

IInv == Typed /\ DiskInv /\ CleaningInv /\ LookingInv /\ WorkInv

(***************************************************************************)
(* How a step leaves the process.                                          *)
(***************************************************************************)
SameErrand ==
  proc'.kind = proc.kind /\ proc'.tree = proc.tree /\ proc'.conf = proc.conf /\ proc'.remove = proc.remove

LEMMA Going ==
  ASSUME ProcTyped, NEW pc \in Places, Goto(pc), proc.pc # "idle"
  PROVE  /\ ProcTyped' /\ SameErrand
         /\ proc'.pc = pc /\ proc'.recovers = proc.recovers
         /\ proc'.on = proc.on /\ proc'.then = proc.then
BY DEF ProcTyped, Process, Goto, SameErrand

LEMMA Stopping ==
  ASSUME Stop
  PROVE  ProcTyped' /\ proc'.pc = "idle" /\ proc'.then = "idle"
BY DEF Stop, Idle, ProcTyped, Process, Places, Resuming, Kinds

LEMMA CleaningUp ==
  ASSUME ProcTyped, proc.pc # "idle",
         NEW k \in Kinds, NEW then \in {"idle", "receipts", "uninstalls", "installs"},
         Cleanup(k, then)
  PROVE  /\ ProcTyped' /\ SameErrand
         /\ proc'.pc = "receipt" /\ proc'.on = k /\ proc'.then = then
         /\ proc'.recovers = proc.recovers
BY DEF ProcTyped, Process, Places, Cleaning, Cleanup, SameErrand

(***************************************************************************)
(* Types.                                                                  *)
(***************************************************************************)
DiskTyped ==
  /\ app \in Tree \cup {None}
  /\ files \in [Names -> Content \cup {None}]
  /\ marker \in Marker \cup {Torn, None}
  /\ stray \in BOOLEAN
  /\ dir \in [Kinds -> Directory \cup {None}]
  /\ dir.install # None => dir.install.phase \in {"none"} \cup InstallPhases
  /\ dir.uninstall # None => dir.uninstall.phase \in {"none"} \cup UninstallPhases
  /\ receipt \in [Kinds -> {"none", "torn", "whole"}]

LEMMA TypedIs ==
  Typed <=> /\ DiskTyped /\ ProcTyped /\ agree \in BOOLEAN
            /\ begun \in 0..MaxTransactions /\ faults \in 0..MaxFaults
BY AbsenceAssumption DEF Typed, TypeOK, DiskTyped, Kinds, Directory

LEMMA DiskStaysTyped == DiskTyped /\ UNCHANGED disk => DiskTyped'
BY DEF DiskTyped, disk

\* The directories after a step that changes one of them.
LEMMA DirIs ==
  ASSUME DiskTyped, NEW k \in Kinds, NEW d \in Directory \cup {None}, dir' = [dir EXCEPT ![k] = d],
         d # None => d.phase \in {"none"} \cup IF k = "install" THEN InstallPhases ELSE UninstallPhases
  PROVE  /\ dir' \in [Kinds -> Directory \cup {None}]
         /\ dir'[k] = d
         /\ \A j \in Kinds : j # k => dir'[j] = dir[j]
         /\ dir'.install # None => dir'.install.phase \in {"none"} \cup InstallPhases
         /\ dir'.uninstall # None => dir'.uninstall.phase \in {"none"} \cup UninstallPhases
BY DEF DiskTyped, Kinds

LEMMA DirectoryChanges ==
  ASSUME NEW d \in Directory
  PROVE  /\ \A p \in {"none"} \cup InstallPhases \cup UninstallPhases, m \in Marker \cup {None} :
              [d EXCEPT !.phase = p, !.marker = m] \in Directory
         /\ \A b \in Tree \cup {None}, o \in Tree \cup {None} :
              [d EXCEPT !.bundle = b, !.old = o] \in Directory
         /\ \A b \in Tree \cup {None} : [d EXCEPT !.bundle = b] \in Directory
         /\ [d EXCEPT !.torn = TRUE] \in Directory
         /\ [d EXCEPT !.removed = TRUE] \in Directory
         /\ [d EXCEPT !.vouched = TRUE] \in Directory
BY DEF Directory

\* What an installation and a removal have of their directory.
LEMMA Has ==
  ASSUME IInv
  PROVE  /\ proc.pc \in Having => dir.install \in Directory
         /\ proc.pc \in Removing => dir.uninstall \in Directory
         /\ None \notin Directory /\ None \notin Marker /\ Torn \notin Marker
BY TypedIs, AbsenceAssumption DEF IInv, LookingInv, WorkInv, RemovingInv, DiskTyped, Kinds

LEMMA AppendTyped == ASSUME IInv, Append PROVE DiskTyped' /\ ProcTyped'
<1> DEFINE k == Log(proc.pc)
           m == IF At("CONFIG_PREPARED") THEN marker ELSE dir[k].marker
           d == [dir[k] EXCEPT !.phase = proc.pc, !.marker = m]
<1>1. DiskTyped /\ ProcTyped /\ proc.pc # "idle"
  BY TypedIs DEF IInv, Append, InstallPhases, UninstallPhases
<1>2. /\ proc.pc \in InstallPhases => k = "install"
      /\ proc.pc \in UninstallPhases => k = "uninstall"
      /\ k \in Kinds
  BY DEF Log, InstallPhases, UninstallPhases, Kinds
<1>3. dir[k] \in Directory
  BY Has, <1>2 DEF Append, InstallPhases, UninstallPhases, Having, Removing, Installing, Undoing
<1>4. m \in Marker \cup {None}
  <2>1. CASE At("CONFIG_PREPARED")
    <3>1. marker = [old |-> dir.install.before, new |-> proc.conf]
      BY <2>1 DEF IInv, WorkInv, InstallingInv, Marked, At, Installing
    <3>2. proc.conf \in Content /\ dir.install.before \in Content \cup {None}
      BY <2>1, <1>1, Has
      DEF ProcTyped, At, IInv, LookingInv, Having, Installing, Directory
    <3> QED  BY <2>1, <3>1, <3>2 DEF Marker
  <2> QED  BY <1>3, <2>1 DEF Directory
<1>5. d \in Directory /\ d.phase = proc.pc
  <2> HIDE DEF k, m
  <2>1. proc.pc \in {"none"} \cup InstallPhases \cup UninstallPhases
    BY DEF Append
  <2> QED  BY <1>3, <1>4, <2>1 DEF Directory
<1>6. dir' = [dir EXCEPT ![k] = d]
  BY <1>1, <1>2, <1>3 DEF Append, DiskTyped, Directory
<1>7. DiskTyped'
  <2> HIDE DEF k, m, d
  <2>1. proc.pc \in IF k = "install" THEN InstallPhases ELSE UninstallPhases
    BY <1>2 DEF Append, Kinds
  <2> QED  BY <1>1, <1>2, <1>5, <1>6, <2>1, DirIs DEF Append, DiskTyped
<1>8. ProcTyped'
  <2>1. proc.pc \in DOMAIN After => After[proc.pc] \in Places
    BY DEF After, Places, Having, Installing, Recovering, Removing, UninstallPhases
  <2> QED
    BY <1>1, <1>2, <2>1, Going, CleaningUp DEF Append, Places, Having, Recovering
<1> QED  BY <1>7, <1>8

\* The directory of an installation or of a removal changes.
LEMMA InstallTyped ==
  ASSUME DiskTyped, NEW d \in Directory, d.phase \in {"none"} \cup InstallPhases,
         dir' = [dir EXCEPT !.install = d]
  PROVE  /\ dir' \in [Kinds -> Directory \cup {None}]
         /\ dir'.install = d /\ dir'.uninstall = dir.uninstall
         /\ dir'.install # None => dir'.install.phase \in {"none"} \cup InstallPhases
         /\ dir'.uninstall # None => dir'.uninstall.phase \in {"none"} \cup UninstallPhases
BY DEF DiskTyped, Kinds

LEMMA CleanupStepTyped ==
  ASSUME IInv, WriteReceipt \/ DeleteDir \/ UnlinkReceipt
  PROVE  DiskTyped' /\ ProcTyped'
<1>1. DiskTyped /\ ProcTyped /\ proc.on \in Kinds
  BY TypedIs DEF IInv, ProcTyped, Process
<1>2. CASE WriteReceipt
  BY <1>1, <1>2, Going DEF WriteReceipt, DiskTyped, At, Places, Cleaning
<1>3. CASE DeleteDir
  <2>1. dir' = [dir EXCEPT ![proc.on] = None]
    BY <1>3 DEF DeleteDir
  <2>2. DiskTyped'
    BY <1>1, <1>3, <2>1, DirIs DEF DeleteDir, DiskTyped
  <2> QED  BY <1>1, <1>3, <2>2, Going DEF DeleteDir, At, Places, Cleaning
<1>4. CASE UnlinkReceipt
  <2>1. proc.then # "idle" => proc.then \in Places
    BY <1>1, <1>4
    DEF UnlinkReceipt, IInv, CleaningInv, At, Undoing, ProcTyped, Process, Places, Resuming
  <2>2. DiskTyped'
    BY <1>1, <1>4 DEF UnlinkReceipt, DiskTyped
  <2> QED  BY <1>1, <1>4, <2>1, <2>2, Going, Stopping DEF UnlinkReceipt, At
<1> QED  BY <1>2, <1>3, <1>4

\* A process that looks, or ends, leaves the disk alone.
LEMMA LookTyped ==
  ASSUME IInv,
         StartInstall \/ StartUninstall \/ ResumeReceipts \/ RecoverUninstall \/ RecoverInstall
           \/ GiveUp \/ Crash \/ AppendRefused
  PROVE  UNCHANGED disk /\ DiskTyped' /\ ProcTyped'
<1>1. DiskTyped /\ ProcTyped
  BY TypedIs DEF IInv
<1>2. UNCHANGED disk
  BY DEF StartInstall, StartUninstall, ResumeReceipts, RecoverUninstall, RecoverInstall, GiveUp, Crash,
         AppendRefused
<1>3. DiskTyped'
  BY <1>1, <1>2, DiskStaysTyped
<1>4. ASSUME StartInstall PROVE ProcTyped'
  BY <1>4 DEF StartInstall, Begin, Idle, ProcTyped, Process, Places, Resuming, Kinds
<1>5. ASSUME StartUninstall PROVE ProcTyped'
  BY <1>5 DEF StartUninstall, Begin, Idle, ProcTyped, Process, Places, Resuming, Kinds
<1>6. ASSUME ResumeReceipts PROVE ProcTyped'
  <2>1. ASSUME NEW k \in Kinds, proc' = [proc EXCEPT !.pc = "delete", !.on = k, !.then = "receipts"]
        PROVE  ProcTyped'
    BY <1>1, <1>6, <2>1 DEF ResumeReceipts, At, ProcTyped, Process, Places, Cleaning
  <2> QED
    BY <1>1, <1>6, <2>1, Going, Stopping DEF ResumeReceipts, At, Places
<1>7. ASSUME RecoverUninstall PROVE ProcTyped'
  <2>1. RemovalGoesOn(dir.uninstall)
          \in {"refused", "receipt", "UNINSTALL_ABORTED", "UNINSTALL_MOVED", "removeConfig"}
    BY DEF RemovalGoesOn
  <2>2. RemovalGoesOn(dir.uninstall) \notin {"refused", "receipt"} =>
          RemovalGoesOn(dir.uninstall) \in Places
    BY <2>1 DEF Places, Removing, UninstallPhases
  <2> QED
    BY <1>1, <1>7, <2>2, Going, Stopping, CleaningUp DEF RecoverUninstall, At, Places, Kinds
<1>8. ASSUME RecoverInstall PROVE ProcTyped'
  <2>1. InstallGoesOn(dir.install) \in {"refused", "configForward", "configBack", "VERIFIED"}
    BY DEF InstallGoesOn
  <2>2. InstallGoesOn(dir.install) # "refused" => InstallGoesOn(dir.install) \in Places
    BY <2>1 DEF Places, Having, Recovering
  <2>3. proc' = [proc EXCEPT !.pc = "mkdir", !.recovers = FALSE] => ProcTyped'
    BY <1>1, <1>8 DEF RecoverInstall, At, ProcTyped, Process, Places
  <2> QED
    BY <1>1, <1>8, <2>2, <2>3, Going, Stopping DEF RecoverInstall, At
<1>9. ASSUME GiveUp \/ Crash \/ AppendRefused PROVE ProcTyped'
  BY <1>9, Stopping DEF GiveUp, Crash, AppendRefused
<1> QED  BY <1>2, <1>3, <1>4, <1>5, <1>6, <1>7, <1>8, <1>9

LEMMA FilesTyped ==
  ASSUME DiskTyped
  PROVE  /\ \A from, to \in Names : Move(from, to) => files' \in [Names -> Content \cup {None}]
         /\ \A name \in Names : Drop(name) => files' \in [Names -> Content \cup {None}]
BY DEF DiskTyped, Move, Drop

LEMMA MovesAreOfNames ==
  /\ \A do \in DOMAIN Moves : Moves[do][1] \in Names /\ Moves[do][2] \in Names
  /\ \A do \in DOMAIN Drops : Drops[do] \in Names
BY DEF Moves, Drops, Names

LEMMA RecoverConfigTyped == ASSUME IInv, RecoverConfig PROVE DiskTyped' /\ ProcTyped'
<1>1. DiskTyped /\ ProcTyped
  BY TypedIs DEF IInv
<1>2. files' \in [Names -> Content \cup {None}]
  BY <1>1, FilesTyped, MovesAreOfNames DEF RecoverConfig, DiskTyped
<1>3. marker' \in {marker, None}
  BY DEF RecoverConfig
<1>4. DiskTyped'
  BY <1>1, <1>2, <1>3 DEF RecoverConfig, DiskTyped
<1>5. Converged => ProcTyped'
  BY <1>1, Going, CleaningUp DEF RecoverConfig, Converged, At, Places, Having, Kinds
<1>6. UNCHANGED proc => ProcTyped'
  BY <1>1 DEF ProcTyped
<1> QED  BY <1>1, <1>4, <1>5, <1>6, Stopping DEF RecoverConfig

\* The steps of an installation that leave its directory alone.
LEMMA InstallingTyped ==
  ASSUME IInv,
         WriteTemp \/ WriteMarker \/ BackUp \/ PublishConfig \/ DropBackup \/ DropMarker
           \/ UndoConfig \/ UndoBackup \/ UndoMarker
  PROVE  DiskTyped' /\ ProcTyped'
<1>1. DiskTyped /\ ProcTyped
  BY TypedIs DEF IInv
<1>2. proc.pc # "idle" /\ proc.kind = "install"
  BY DEF WriteTemp, WriteMarker, BackUp, PublishConfig, DropBackup, DropMarker, UndoConfig, UndoBackup,
         UndoMarker, At, IInv, LookingInv, Having, Installing, Undoing
<1>3. proc.conf \in Content
  BY <1>1, <1>2 DEF ProcTyped
<1>4. \E pc \in Installing : Goto(pc)
  BY DEF WriteTemp, WriteMarker, BackUp, PublishConfig, DropBackup, DropMarker, UndoConfig, UndoBackup,
         UndoMarker, Installing, Undoing
<1>5. ProcTyped'
  BY <1>1, <1>2, <1>4, Going DEF Places, Having
<1>6. UNCHANGED <<app, dir, receipt>> /\ stray' \in BOOLEAN
  BY <1>1
  DEF DiskTyped, WriteTemp, WriteMarker, BackUp, PublishConfig, DropBackup, DropMarker, UndoConfig,
      UndoBackup, UndoMarker
<1>7. marker' \in {marker, None, [old |-> files.config, new |-> proc.conf]}
  BY DEF WriteTemp, WriteMarker, BackUp, PublishConfig, DropBackup, DropMarker, UndoConfig, UndoBackup,
         UndoMarker
<1>8. files' \in [Names -> Content \cup {None}]
  <2>1. {"config", "backup", "temp", "trash"} = Names
    BY DEF Names
  <2>2. [files EXCEPT !.temp = proc.conf] \in [Names -> Content \cup {None}]
    BY <1>1, <1>3, <2>1 DEF DiskTyped
  <2> QED
    BY <1>1, <2>1, <2>2, FilesTyped
    DEF DiskTyped, WriteTemp, WriteMarker, BackUp, PublishConfig, DropBackup, DropMarker, UndoConfig,
        UndoBackup, UndoMarker
<1>9. marker' \in Marker \cup {Torn, None}
  BY <1>1, <1>3, <1>7 DEF DiskTyped, Marker, Names
<1> QED  BY <1>1, <1>5, <1>6, <1>8, <1>9 DEF DiskTyped

\* Those that change it.
LEMMA MakeDirTyped == ASSUME IInv, MakeDir PROVE DiskTyped' /\ ProcTyped'
<1>1. DiskTyped /\ ProcTyped
  BY TypedIs DEF IInv
<1>2. At("mkdir") /\ proc.kind = "install"
  BY DEF MakeDir, At, IInv, LookingInv
<1> DEFINE d == [EmptyDir EXCEPT !.tree = proc.tree, !.before = files.config]
<1>3. d \in Directory /\ d.phase = "none"
  BY <1>1, <1>2 DEF At, ProcTyped, DiskTyped, EmptyDir, Directory, Names
<1>4. dir' = [dir EXCEPT !.install = d]
  BY DEF MakeDir
<1> HIDE DEF d
<1>5. DiskTyped'
  BY <1>1, <1>3, <1>4, InstallTyped DEF MakeDir, DiskTyped
<1> QED  BY <1>1, <1>2, <1>5, Going DEF MakeDir, At, Places, Having, Installing

LEMMA BundleTyped ==
  ASSUME IInv, Stage \/ Swap \/ UndoSwap \/ Complete
  PROVE  DiskTyped' /\ ProcTyped'
<1>1. DiskTyped /\ ProcTyped
  BY TypedIs DEF IInv
<1>2. proc.pc # "idle" /\ proc.kind = "install" /\ dir.install \in Directory
  BY Has
  DEF Stage, Swap, UndoSwap, Complete, At, IInv, LookingInv, Having, Installing, Undoing
<1>3. dir.install.phase \in {"none"} \cup InstallPhases
  BY <1>1, <1>2, Has DEF DiskTyped
<1>4. app' \in Tree \cup {None}
  BY <1>1, <1>2 DEF Stage, Swap, UndoSwap, Complete, DiskTyped, Directory
<1>5. \E d \in Directory : d.phase = dir.install.phase /\ dir' = [dir EXCEPT !.install = d]
  <2>1. ASSUME NEW b \in Tree \cup {None}, NEW o \in Tree \cup {None},
               dir' = [dir EXCEPT !.install.bundle = b, !.install.old = o]
        PROVE  \E d \in Directory : d.phase = dir.install.phase /\ dir' = [dir EXCEPT !.install = d]
    <3>1. [dir.install EXCEPT !.bundle = b, !.old = o] \in Directory
      BY <1>2 DEF Directory
    <3>2. [dir.install EXCEPT !.bundle = b, !.old = o].phase = dir.install.phase
      BY <1>2 DEF Directory
    <3>3. dir' = [dir EXCEPT !.install = [dir.install EXCEPT !.bundle = b, !.old = o]]
      BY <1>1, <2>1 DEF DiskTyped, Kinds
    <3> QED  BY <3>1, <3>2, <3>3
  <2>2. CASE Stage
    BY <1>1, <1>2, <2>1, <2>2 DEF Stage, At, DiskTyped, ProcTyped
  <2>3. ASSUME NEW b \in Tree \cup {None}, dir' = [dir EXCEPT !.install.bundle = b]
        PROVE  \E d \in Directory : d.phase = dir.install.phase /\ dir' = [dir EXCEPT !.install = d]
    <3>1. [dir.install EXCEPT !.bundle = b] \in Directory
      BY <1>2 DEF Directory
    <3>2. [dir.install EXCEPT !.bundle = b].phase = dir.install.phase
      BY <1>2 DEF Directory
    <3>3. dir' = [dir EXCEPT !.install = [dir.install EXCEPT !.bundle = b]]
      BY <1>1, <2>3 DEF DiskTyped, Kinds
    <3> QED  BY <3>1, <3>2, <3>3
  <2>4. UNCHANGED dir => dir' = [dir EXCEPT !.install = dir.install]
    BY <1>1 DEF DiskTyped, Kinds
  <2>5. CASE Swap \/ UndoSwap
    BY <1>1, <1>2, <2>3, <2>4, <2>5 DEF Swap, UndoSwap, DiskTyped
  <2>6. CASE Complete
    <3>1. [dir.install EXCEPT !.vouched = TRUE] \in Directory
      BY <1>2 DEF Directory
    <3>2. [dir.install EXCEPT !.vouched = TRUE].phase = dir.install.phase
      BY <1>2 DEF Directory
    <3>3. dir' = [dir EXCEPT !.install.vouched = TRUE] =>
            dir' = [dir EXCEPT !.install = [dir.install EXCEPT !.vouched = TRUE]]
      BY <1>1 DEF DiskTyped, Kinds
    <3> QED  BY <1>2, <2>4, <2>6, <3>1, <3>2, <3>3 DEF Complete
  <2> QED  BY <2>2, <2>5, <2>6
<1>6. DiskTyped'
  BY <1>1, <1>3, <1>4, <1>5, InstallTyped DEF Stage, Swap, UndoSwap, Complete, DiskTyped
<1>7. ProcTyped'
  BY <1>1, <1>2, Going, CleaningUp, Stopping
  DEF Stage, Swap, UndoSwap, Complete, Places, Having, Installing, Undoing, Kinds
<1> QED  BY <1>6, <1>7

LEMMA BeginRemovalTyped == ASSUME IInv, BeginRemoval PROVE DiskTyped' /\ ProcTyped'
<1>1. DiskTyped /\ ProcTyped /\ proc.pc = "begin"
  BY TypedIs DEF IInv, BeginRemoval, At
<1> DEFINE d == [EmptyDir EXCEPT !.tree = app, !.remove = proc.remove, !.before = files.config]
<1>2. app # None => d \in Directory /\ d.phase = "none"
  BY <1>1 DEF ProcTyped, Process, DiskTyped, EmptyDir, Directory, Names
<1>3. ~UNCHANGED dir => app # None /\ dir' = [dir EXCEPT !.uninstall = d]
  BY DEF BeginRemoval
<1> HIDE DEF d
<1>4. DiskTyped'
  <2>1. CASE UNCHANGED dir
    BY <1>1, <2>1 DEF BeginRemoval, DiskTyped
  <2>2. CASE ~UNCHANGED dir
    BY <1>1, <1>2, <1>3, <2>2 DEF BeginRemoval, DiskTyped, Kinds
  <2> QED  BY <2>1, <2>2
<1>5. ASSUME NEW pc \in {"UNINSTALL_PREPARED", "removeOnly"},
             proc' = [proc EXCEPT !.pc = pc, !.recovers = FALSE]
      PROVE  ProcTyped'
  BY <1>1, <1>5 DEF ProcTyped, Process, Places, Removing, UninstallPhases
<1> QED  BY <1>4, <1>5, Stopping DEF BeginRemoval

LEMMA RemovalTyped == ASSUME IInv, MoveToTrash \/ RemoveConfig PROVE DiskTyped' /\ ProcTyped'
<1>1. DiskTyped /\ ProcTyped /\ proc.pc # "idle"
  BY TypedIs DEF IInv, MoveToTrash, RemoveConfig, At
<1>2. \A d \in Directory :
        /\ [d EXCEPT !.removed = TRUE] \in Directory /\ [d EXCEPT !.removed = TRUE].phase = d.phase
        /\ [d EXCEPT !.bundle = app] \in Directory /\ [d EXCEPT !.bundle = app].phase = d.phase
  BY <1>1 DEF Directory, DiskTyped
<1>3. None \notin Directory
  BY AbsenceAssumption
<1>4. CASE MoveToTrash
  <2>1. dir.uninstall \in Directory
    BY <1>4, Has DEF MoveToTrash, At, Removing
  <2>2. DiskTyped'
    BY <1>1, <1>2, <1>3, <1>4, <2>1 DEF MoveToTrash, DiskTyped, Kinds
  <2> QED
    BY <1>1, <1>4, <2>2, Going DEF MoveToTrash, Places, Removing, UninstallPhases
<1>5. CASE RemoveConfig
  <2>1. dir.install # None => dir.install \in Directory
    BY <1>1 DEF DiskTyped, Kinds
  <2>2. dir' = dir \/ (dir.install # None /\ dir' = [dir EXCEPT !.install = [dir.install EXCEPT !.removed = TRUE]])
    BY <1>1, <1>5 DEF RemoveConfig, DiskTyped, Kinds
  <2>3. files' \in [Names -> Content \cup {None}]
    BY <1>1, <1>5 DEF RemoveConfig, DiskTyped, Names
  <2>4. /\ dir' \in [Kinds -> Directory \cup {None}]
        /\ dir'.install # None => dir'.install.phase \in {"none"} \cup InstallPhases
        /\ dir'.uninstall # None => dir'.uninstall.phase \in {"none"} \cup UninstallPhases
    BY <1>1, <1>2, <1>3, <2>1, <2>2, InstallTyped DEF DiskTyped
  <2>5. DiskTyped'
    BY <1>1, <1>5, <2>3, <2>4 DEF RemoveConfig, DiskTyped
  <2> QED
    BY <1>1, <1>5, <2>5, Going, Stopping DEF RemoveConfig, Places, Removing, UninstallPhases
<1> QED  BY <1>4, <1>5

LEMMA BreakOffTyped ==
  ASSUME IInv, BreakOff
  PROVE  /\ dir' \in [Kinds -> Directory \cup {None}]
         /\ dir'.install # None => dir'.install.phase \in {"none"} \cup InstallPhases
         /\ dir'.uninstall # None => dir'.uninstall.phase \in {"none"} \cup UninstallPhases
         /\ receipt' \in [Kinds -> {"none", "torn", "whole"}] /\ marker' \in {marker, Torn}
<1>1. DiskTyped /\ ProcTyped
  BY TypedIs DEF IInv
<1>2. /\ dir' \in [Kinds -> Directory \cup {None}]
      /\ dir'.install # None => dir'.install.phase \in {"none"} \cup InstallPhases
      /\ dir'.uninstall # None => dir'.uninstall.phase \in {"none"} \cup UninstallPhases
  <2>1. CASE UNCHANGED dir
    BY <1>1, <2>1 DEF DiskTyped
  <2>2. CASE ~UNCHANGED dir
    <3> DEFINE k == Log(proc.pc)
               d == [dir[k] EXCEPT !.torn = TRUE]
    <3>1. proc.pc \in InstallPhases \cup UninstallPhases /\ dir' = [dir EXCEPT ![k].torn = TRUE]
      BY <2>2 DEF BreakOff
    <3>2. /\ proc.pc \in InstallPhases => k = "install"
          /\ proc.pc \in UninstallPhases => k = "uninstall"
          /\ k \in Kinds
      BY DEF Log, InstallPhases, UninstallPhases, Kinds
    <3>3. dir[k] \in Directory
      BY Has, <3>1, <3>2 DEF InstallPhases, UninstallPhases, Having, Removing, Installing, Undoing
    <3>4. dir' = [dir EXCEPT ![k] = d]
      BY <1>1, <3>1, <3>2 DEF DiskTyped
    <3> HIDE DEF k
    <3>5. d \in Directory /\ d.phase = dir[k].phase
      BY <3>3 DEF Directory
    <3> HIDE DEF d
    <3>6. d.phase \in {"none"} \cup IF k = "install" THEN InstallPhases ELSE UninstallPhases
      BY <1>1, <3>2, <3>3, <3>5, AbsenceAssumption DEF DiskTyped, Kinds
    <3> QED  BY <1>1, <3>2, <3>4, <3>5, <3>6, DirIs
  <2> QED  BY <2>1, <2>2
<1>3. receipt' \in [Kinds -> {"none", "torn", "whole"}] /\ marker' \in {marker, Torn}
  BY <1>1 DEF BreakOff, DiskTyped
<1> QED  BY <1>2, <1>3

LEMMA TearTyped == ASSUME IInv, Tear PROVE DiskTyped' /\ ProcTyped'
<1>1. DiskTyped
  BY TypedIs DEF IInv
<1> QED  BY <1>1, BreakOffTyped, Stopping DEF Tear, DiskTyped

LEMMA FailTyped == ASSUME IInv, Fail PROVE DiskTyped' /\ ProcTyped'
<1>1. DiskTyped /\ ProcTyped
  BY TypedIs DEF IInv
<1>2. UndoPublished /\ proc.pc # "idle" => ProcTyped'
  BY <1>1 DEF UndoPublished, ProcTyped, Process, Places, Having, Installing, Undoing
<1>3. ProcTyped'
  BY <1>1, <1>2, Going, CleaningUp DEF Fail, At, Places, Having, Installing, Undoing, Kinds
<1>4. CASE UNCHANGED <<marker, dir, receipt>>
  BY <1>1, <1>3, <1>4 DEF Fail, DiskTyped
<1>5. CASE BreakOff
  BY <1>1, <1>3, <1>5, BreakOffTyped DEF Fail, DiskTyped
<1>6. CASE At("VERIFIED") /\ dir' = [dir EXCEPT !.install.unnoted = TRUE] /\ UNCHANGED <<marker, receipt>>
  <2>1. dir.install \in Directory /\ dir.install # None
    BY <1>6, Has DEF At, Having
  <2>2. dir' = [dir EXCEPT !.install = [dir.install EXCEPT !.unnoted = TRUE]]
    BY <1>1, <1>6 DEF DiskTyped, Kinds
  <2>3. /\ [dir.install EXCEPT !.unnoted = TRUE] \in Directory
        /\ [dir.install EXCEPT !.unnoted = TRUE].phase = dir.install.phase
    BY <2>1 DEF Directory
  <2>4. [dir.install EXCEPT !.unnoted = TRUE].phase \in {"none"} \cup InstallPhases
    BY <1>1, <2>1, <2>3 DEF DiskTyped
  <2>5. /\ dir' \in [Kinds -> Directory \cup {None}]
        /\ dir'.install # None => dir'.install.phase \in {"none"} \cup InstallPhases
        /\ dir'.uninstall # None => dir'.uninstall.phase \in {"none"} \cup UninstallPhases
    BY <1>1, <2>2, <2>3, <2>4, InstallTyped
  <2> QED  BY <1>1, <1>3, <1>6, <2>5 DEF Fail, DiskTyped
<1> QED  BY <1>4, <1>5, <1>6 DEF Fail

LEMMA NextTyped == ASSUME IInv, [Next]_vars PROVE Typed'
<1>1. DiskTyped /\ ProcTyped /\ agree \in BOOLEAN /\ begun \in 0..MaxTransactions /\ faults \in 0..MaxFaults
  BY TypedIs DEF IInv
<1>2. DiskTyped' /\ ProcTyped'
  <2>1. CASE UNCHANGED vars
    BY <1>1, <2>1, DiskStaysTyped DEF vars, ProcTyped
  <2>2. CASE Next
    BY <2>2, AppendTyped, CleanupStepTyped, LookTyped, RecoverConfigTyped, InstallingTyped, MakeDirTyped,
       BundleTyped, BeginRemovalTyped, RemovalTyped, TearTyped, FailTyped
    DEF Next, Step
  <2> QED  BY <2>1, <2>2
<1>3. UNCHANGED agree
  BY DEF vars, Next, Step, StartInstall, StartUninstall, Append, WriteReceipt, DeleteDir, UnlinkReceipt,
         ResumeReceipts, RecoverUninstall, RecoverInstall, RecoverConfig, MakeDir, GiveUp, Stage, WriteTemp,
         WriteMarker, BackUp, PublishConfig, Swap, DropBackup, DropMarker, Complete, UndoConfig, UndoBackup,
         UndoMarker, UndoSwap, BeginRemoval, MoveToTrash, RemoveConfig, Crash, Tear, Fail, AppendRefused
<1>4. begun' = begun \/ (begun < MaxTransactions /\ begun' = begun + 1)
  BY DEF vars, disk, Next, Step, StartInstall, StartUninstall, Append, WriteReceipt, DeleteDir, UnlinkReceipt,
         ResumeReceipts, RecoverUninstall, RecoverInstall, RecoverConfig, MakeDir, GiveUp, Stage, WriteTemp,
         WriteMarker, BackUp, PublishConfig, Swap, DropBackup, DropMarker, Complete, UndoConfig, UndoBackup,
         UndoMarker, UndoSwap, BeginRemoval, MoveToTrash, RemoveConfig, Crash, Tear, Fail, AppendRefused
<1>5. faults' = faults \/ (faults < MaxFaults /\ faults' = faults + 1)
  BY DEF vars, disk, Next, Step, StartInstall, StartUninstall, Append, WriteReceipt, DeleteDir, UnlinkReceipt,
         ResumeReceipts, RecoverUninstall, RecoverInstall, RecoverConfig, MakeDir, GiveUp, Stage, WriteTemp,
         WriteMarker, BackUp, PublishConfig, Swap, DropBackup, DropMarker, Complete, UndoConfig, UndoBackup,
         UndoMarker, UndoSwap, BeginRemoval, MoveToTrash, RemoveConfig, Crash, Tear, Fail, AppendRefused
<1>6. begun' \in 0..MaxTransactions /\ faults' \in 0..MaxFaults
  BY <1>1, <1>4, <1>5, InstallAssumption
<1>7. DiskTyped' /\ ProcTyped' /\ (agree \in BOOLEAN)' /\ (begun \in 0..MaxTransactions)'
        /\ (faults \in 0..MaxFaults)'
  BY <1>1, <1>2, <1>3, <1>6
<1> QED  BY <1>7, TypedIs, PTL

(***************************************************************************)
(* Each step keeps the invariant.                                          *)
(***************************************************************************)
InvAfter == DiskInv' /\ CleaningInv' /\ LookingInv' /\ WorkInv'

LEMMA DiskStays == DiskInv /\ UNCHANGED disk => DiskInv'
BY DEF DiskInv, disk, RemovalInv, UntouchedRemoval, AsAsked, RemovalEnded, Clean, TracesInv, Decided,
       KeptInv, Arranged, Exchanged, InstallEnded

LEMMA IdleKnowsNothing ==
  ASSUME proc'.pc = "idle", proc'.then = "idle"
  PROVE  CleaningInv' /\ LookingInv' /\ WorkInv'
BY DEF CleaningInv, LookingInv, WorkInv, RemovingInv, RecoveringInv, Resuming, Cleaning, Recovering, Having,
       Installing, Undoing, Removing, UninstallPhases

\* What a process that still looks has to know.
LEMMA LookingKnows ==
  ASSUME proc'.pc \in {"receipts", "uninstalls", "installs", "mkdir", "begin", "removeOnly"},
         proc'.then # "published", proc'.pc # "receipts" => NoReceipts',
         proc'.pc \in {"receipts", "uninstalls", "installs", "begin"} => proc'.recovers,
         proc'.pc \in {"begin", "removeOnly", "installs", "mkdir"} => dir'.uninstall = None,
         proc'.pc \in {"installs", "mkdir"} => proc'.kind = "install",
         proc'.pc = "mkdir" => dir'.install = None /\ ~proc'.recovers
  PROVE  CleaningInv' /\ LookingInv' /\ WorkInv'
BY DEF CleaningInv, LookingInv, WorkInv, RemovingInv, RecoveringInv, Resuming, Cleaning, Recovering, Having,
       Installing, Undoing, Removing, UninstallPhases

\* What it has to know when it goes over to cleaning up.
LEMMA CleaningKnows ==
  ASSUME proc'.pc = "receipt", proc'.on \in Kinds, NoReceipts',
         proc'.on = "install" => InstallEnded(dir.install)',
         proc'.on = "uninstall" => RemovalEnded(dir.uninstall)',
         proc'.then # "published", proc'.then # "idle" => proc'.recovers,
         proc'.then = "installs" =>
           proc'.on = "install" /\ proc'.kind = "install" /\ dir'.uninstall = None
  PROVE  CleaningInv' /\ LookingInv' /\ WorkInv'
BY DEF CleaningInv, LookingInv, WorkInv, RemovingInv, RecoveringInv, Resuming, Cleaning, Recovering, Having,
       Installing, Undoing, Removing, UninstallPhases, Kinds

LEMMA StartInv == ASSUME IInv, StartInstall \/ StartUninstall PROVE InvAfter
<1>1. DiskInv'
  BY DiskStays DEF IInv, StartInstall, StartUninstall
<1>2. proc'.pc = "receipts" /\ proc'.then # "published" /\ proc'.recovers
  BY DEF StartInstall, StartUninstall, Begin, Idle
<1> QED  BY <1>1, <1>2, LookingKnows DEF InvAfter

LEMMA StopsInv == ASSUME IInv, GiveUp \/ Crash \/ AppendRefused PROVE InvAfter
BY DiskStays, Stopping, IdleKnowsNothing DEF IInv, InvAfter, GiveUp, Crash, AppendRefused

LEMMA ResumeReceiptsInv == ASSUME IInv, ResumeReceipts PROVE InvAfter
<1>1. DiskInv'
  BY DiskStays DEF IInv, ResumeReceipts
<1>2. ProcTyped /\ proc.pc = "receipts" /\ proc.recovers /\ proc.then # "published"
  BY TypedIs DEF IInv, ResumeReceipts, At, LookingInv, CleaningInv, Undoing
<1>3. ASSUME Stop PROVE InvAfter
  BY <1>1, <1>3, Stopping, IdleKnowsNothing DEF InvAfter
<1>4. ASSUME NEW k \in Kinds, receipt[k] = "whole",
             proc' = [proc EXCEPT !.pc = "delete", !.on = k, !.then = "receipts"]
      PROVE  InvAfter
  <2>1. proc'.pc = "delete" /\ proc'.on = k /\ proc'.then = "receipts" /\ proc'.recovers /\ receipt' = receipt
    BY <1>2, <1>4 DEF ProcTyped, Process, ResumeReceipts, disk
  <2>2. CleaningInv' /\ LookingInv' /\ WorkInv'
    BY <1>4, <2>1
    DEF CleaningInv, LookingInv, WorkInv, RemovingInv, RecoveringInv, Resuming, Cleaning, Recovering, Having,
        Installing, Undoing, Removing, UninstallPhases
  <2> QED  BY <1>1, <2>2 DEF InvAfter
<1>5. ASSUME \A k \in Kinds : receipt[k] = "none", Goto("uninstalls") PROVE InvAfter
  <2>1. NoReceipts'
    BY <1>5 DEF ResumeReceipts, disk, NoReceipts, Kinds
  <2>2. proc'.pc = "uninstalls" /\ proc'.recovers /\ proc'.then # "published"
    BY <1>2, <1>5, Going DEF Places
  <2> QED  BY <1>1, <2>1, <2>2, LookingKnows DEF InvAfter
<1> QED  BY <1>3, <1>4, <1>5 DEF ResumeReceipts

LEMMA RecoverUninstallInv == ASSUME IInv, RecoverUninstall PROVE InvAfter
<1>1. DiskInv' /\ NoReceipts' /\ UNCHANGED <<app, files, dir>>
  BY DiskStays DEF IInv, RecoverUninstall, CleaningInv, At, Resuming, disk, NoReceipts
<1>2. /\ ProcTyped /\ proc.pc = "uninstalls" /\ proc.recovers /\ proc.then # "published"
      /\ proc.kind \in Kinds
  BY TypedIs DEF IInv, RecoverUninstall, At, LookingInv, CleaningInv, Undoing, ProcTyped, Process
<1> DEFINE u == dir.uninstall
<1>3. ASSUME Stop PROVE InvAfter
  BY <1>1, <1>3, Stopping, IdleKnowsNothing DEF InvAfter
<1>4. ASSUME u = None, Goto(IF proc.kind = "install" THEN "installs" ELSE "begin") PROVE InvAfter
  <2>1. /\ proc'.pc \in {"installs", "begin"} /\ proc'.recovers /\ proc'.then # "published"
        /\ proc'.pc = "installs" => proc'.kind = "install"
    <3>1. CASE proc.kind = "install"
      BY <1>2, <1>4, <3>1, Going DEF Places, SameErrand
    <3>2. CASE proc.kind # "install"
      <4>1. Goto("begin")
        BY <1>4, <3>2
      <4> QED  BY <1>2, <4>1 DEF Goto, ProcTyped, Process
    <3> QED  BY <3>1, <3>2
  <2> QED  BY <1>1, <1>4, <2>1, LookingKnows DEF InvAfter
<1>5. ASSUME u # None, RemovalGoesOn(u) = "receipt", Cleanup("uninstall", "idle") PROVE InvAfter
  <2>1. RemovalEnded(dir.uninstall)'
    BY <1>1, <1>5 DEF RemovalGoesOn, RemovalEnded
  <2>2. /\ proc'.pc = "receipt" /\ proc'.on = "uninstall" /\ proc'.then = "idle"
    BY <1>2, <1>5, CleaningUp DEF Kinds
  <2> QED  BY <1>1, <2>1, <2>2, CleaningKnows DEF InvAfter, Kinds
<1>6. ASSUME u # None, RemovalGoesOn(u) \notin {"refused", "receipt"}, Goto(RemovalGoesOn(u))
      PROVE  InvAfter
  <2>1. \/ /\ RemovalGoesOn(u) = "UNINSTALL_ABORTED"
           /\ u.phase = "UNINSTALL_PREPARED" /\ u.bundle = None
        \/ /\ RemovalGoesOn(u) = "UNINSTALL_MOVED"
           /\ u.phase = "UNINSTALL_PREPARED" /\ u.bundle # None
        \/ /\ RemovalGoesOn(u) = "removeConfig"
           /\ u.phase \in {"UNINSTALL_MOVED", "UNINSTALL_CLEANED"}
    BY <1>6 DEF RemovalGoesOn
  <2>2. proc'.pc = RemovalGoesOn(u) /\ proc'.then # "published"
    BY <1>2, <1>6, <2>1, Going DEF Places, Removing, UninstallPhases
  <2> HIDE DEF u
  <2>3. CleaningInv'
    BY <1>1, <2>1, <2>2 DEF CleaningInv, NoReceipts, Cleaning
  <2>4. LookingInv'
    BY <2>1, <2>2 DEF LookingInv, Recovering, Having, Installing, Undoing
  <2>5. RemovingInv(proc'.pc, dir'.uninstall)
    BY <1>1, <1>6, <2>1, <2>2 DEF RemovingInv, u
  <2>6. WorkInv'
    BY <1>1, <1>6, <2>1, <2>2 DEF WorkInv, RemovingInv, RecoveringInv, Installing, Undoing, u
  <2> QED  BY <1>1, <2>3, <2>4, <2>6 DEF InvAfter
<1> QED  BY <1>3, <1>4, <1>5, <1>6 DEF RecoverUninstall

LEMMA RecoverInstallInv == ASSUME IInv, RecoverInstall PROVE InvAfter
<1>1. DiskInv' /\ NoReceipts' /\ UNCHANGED <<app, files, marker, dir, agree>>
  BY DiskStays DEF IInv, RecoverInstall, CleaningInv, At, Resuming, disk, NoReceipts
<1>2. /\ ProcTyped /\ proc.pc = "installs" /\ proc.recovers /\ proc.then # "published"
      /\ proc.kind = "install" /\ dir.uninstall = None
  BY TypedIs DEF IInv, RecoverInstall, At, LookingInv, CleaningInv, Undoing
<1> DEFINE i == dir.install
<1>3. ASSUME Stop PROVE InvAfter
  BY <1>1, <1>3, Stopping, IdleKnowsNothing DEF InvAfter
<1>4. ASSUME i = None, proc' = [proc EXCEPT !.pc = "mkdir", !.recovers = FALSE] PROVE InvAfter
  <2>1. /\ proc'.pc = "mkdir" /\ proc'.kind = "install" /\ proc'.then # "published"
        /\ ~proc'.recovers
    BY <1>2, <1>4 DEF ProcTyped, Process
  <2> QED  BY <1>1, <1>2, <1>4, <2>1, LookingKnows DEF InvAfter
<1>5. ASSUME i # None, InstallGoesOn(i) # "refused", Goto(InstallGoesOn(i)) PROVE InvAfter
  <2>1. \/ InstallGoesOn(i) = "configForward" /\ Decided(i)
        \/ InstallGoesOn(i) = "configBack" /\ ~Decided(i)
        \/ InstallGoesOn(i) = "VERIFIED" /\ i.phase = "PREPARED"
    BY <1>5 DEF InstallGoesOn, Decided
  <2>2. /\ proc'.pc = InstallGoesOn(i) /\ proc'.recovers /\ proc'.kind = "install"
        /\ proc'.then # "published"
    BY <1>2, <1>5, <2>1, Going DEF Places, Having, Recovering, SameErrand
  <2>3. InstallGoesOn(i)' = InstallGoesOn(i) /\ Decided(i)' = Decided(i) /\ dir'.install = i
    BY <1>1 DEF InstallGoesOn, Decided, Matches
  <2> HIDE DEF i
  <2>4. CleaningInv'
    BY <1>1, <2>1, <2>2 DEF CleaningInv, NoReceipts, Cleaning
  <2>5. LookingInv'
    BY <1>1, <1>2, <1>5, <2>1, <2>2 DEF LookingInv, Recovering, Having, Installing, Undoing, i
  <2>6. WorkInv'
    BY <1>1, <1>5, <2>1, <2>2, <2>3
    DEF WorkInv, RemovingInv, RecoveringInv, Removing, UninstallPhases, Installing, Undoing, i
  <2> QED  BY <1>1, <2>4, <2>5, <2>6 DEF InvAfter
<1> QED  BY <1>3, <1>4, <1>5 DEF RecoverInstall

LEMMA WriteReceiptInv == ASSUME IInv, WriteReceipt PROVE InvAfter
<1>1. /\ DiskTyped /\ ProcTyped /\ proc.pc = "receipt" /\ NoReceipts /\ proc.on \in Kinds
      /\ UNCHANGED <<app, files, marker, dir>>
  BY TypedIs DEF IInv, WriteReceipt, At, CleaningInv, Resuming, ProcTyped, Process
<1>2. receipt' = [receipt EXCEPT ![proc.on] = "whole"]
  BY DEF WriteReceipt
<1>3. IF proc.on = "install" THEN InstallEnded(dir.install) ELSE RemovalEnded(dir.uninstall)
  BY <1>1 DEF IInv, CleaningInv
<1>4. /\ proc'.pc = "delete" /\ proc'.on = proc.on /\ proc'.then = proc.then /\ proc'.recovers = proc.recovers
      /\ SameErrand
  BY <1>1, Going DEF WriteReceipt, Places, Cleaning
<1>5. DiskInv'
  <2>1. receipt'.install # "none" => proc.on = "install"
    BY <1>1, <1>2 DEF DiskTyped, Kinds, NoReceipts
  <2>2. receipt'.uninstall # "none" => proc.on = "uninstall"
    BY <1>1, <1>2 DEF DiskTyped, Kinds, NoReceipts
  <2>3. receipt'.install = "none" \/ receipt'.uninstall = "none"
    BY <2>1, <2>2
  <2> QED
    BY <1>1, <1>3, <2>1, <2>2, <2>3
    DEF IInv, DiskInv, RemovalInv, UntouchedRemoval, AsAsked, RemovalEnded, Clean, TracesInv, Decided,
        KeptInv, Arranged, Exchanged, InstallEnded
<1>6. CleaningInv'
  <2>1. receipt'[proc'.on] = "whole"
    BY <1>1, <1>2, <1>4 DEF DiskTyped
  <2> QED
    BY <1>1, <1>4, <2>1 DEF IInv, CleaningInv, Resuming, Cleaning, SameErrand, Undoing
<1>7. LookingInv' /\ WorkInv'
  BY <1>4
  DEF LookingInv, WorkInv, RemovingInv, RecoveringInv, Recovering, Having, Installing, Undoing, Removing,
      UninstallPhases
<1> QED  BY <1>5, <1>6, <1>7 DEF InvAfter

LEMMA DeleteDirInv == ASSUME IInv, DeleteDir PROVE InvAfter
<1>1. /\ DiskTyped /\ ProcTyped /\ proc.pc = "delete" /\ proc.on \in Kinds
      /\ receipt[proc.on] = "whole"
      /\ UNCHANGED <<app, files, marker, receipt>>
  BY TypedIs DEF IInv, DeleteDir, At, CleaningInv, ProcTyped, Process
<1>2. /\ dir'[proc.on] = None
      /\ \A k \in Kinds : k # proc.on => dir'[k] = dir[k]
  BY <1>1 DEF DeleteDir, DiskTyped
<1>3. /\ proc'.pc = "unlink" /\ proc'.on = proc.on /\ proc'.then = proc.then /\ proc'.recovers = proc.recovers
      /\ SameErrand
  BY <1>1, Going DEF DeleteDir, Places, Cleaning
<1>4. DiskInv'
  <2>1. CASE proc.on = "install"
    <3>1. dir'.install = None /\ dir'.uninstall = dir.uninstall /\ InstallEnded(dir.install)
      BY <1>1, <1>2, <2>1 DEF Kinds, IInv, DiskInv
    <3> QED
      BY <1>1, <3>1
      DEF IInv, DiskInv, RemovalInv, UntouchedRemoval, AsAsked, RemovalEnded, Clean, InstallEnded
  <2>2. CASE proc.on = "uninstall"
    <3>1. dir'.uninstall = None /\ dir'.install = dir.install
      BY <1>2, <2>2 DEF Kinds
    <3> QED
      BY <1>1, <3>1
      DEF IInv, DiskInv, RemovalEnded, Clean, TracesInv, Decided, KeptInv, Arranged, Exchanged, InstallEnded
  <2> QED  BY <1>1, <2>1, <2>2 DEF Kinds
<1>5. CleaningInv'
  <2>1. proc.then = "installs" => dir'.uninstall = None
    BY <1>1, <1>2 DEF IInv, CleaningInv, Cleaning, Kinds
  <2> QED
    BY <1>1, <1>2, <1>3, <2>1 DEF IInv, CleaningInv, Resuming, Cleaning, SameErrand, Undoing
<1>6. LookingInv' /\ WorkInv'
  BY <1>3
  DEF LookingInv, WorkInv, RemovingInv, RecoveringInv, Recovering, Having, Installing, Undoing, Removing,
      UninstallPhases
<1> QED  BY <1>4, <1>5, <1>6 DEF InvAfter

LEMMA UnlinkReceiptInv == ASSUME IInv, UnlinkReceipt PROVE InvAfter
<1>1. /\ DiskTyped /\ ProcTyped /\ proc.pc = "unlink" /\ proc.on \in Kinds
      /\ receipt[proc.on] = "whole" /\ dir[proc.on] = None
      /\ UNCHANGED <<app, files, marker, dir>>
  BY TypedIs DEF IInv, UnlinkReceipt, At, CleaningInv, ProcTyped, Process
<1>2. NoReceipts'
  BY <1>1 DEF UnlinkReceipt, DiskTyped, IInv, DiskInv, Kinds, NoReceipts
<1>3. DiskInv'
  BY <1>1, <1>2
  DEF IInv, DiskInv, RemovalInv, UntouchedRemoval, AsAsked, RemovalEnded, Clean, TracesInv, Decided,
      KeptInv, Arranged, Exchanged, NoReceipts
<1>4. CASE proc.then = "idle"
  BY <1>3, <1>4, Stopping, IdleKnowsNothing DEF UnlinkReceipt, InvAfter
<1>5. CASE proc.then # "idle"
  <2>1. /\ proc.then \in {"receipts", "uninstalls", "installs"} /\ proc.recovers
        /\ proc.then = "installs" => proc.kind = "install" /\ dir.uninstall = None
    BY <1>1, <1>5 DEF IInv, CleaningInv, Cleaning, Undoing, ProcTyped, Process
  <2>2. /\ proc'.pc = proc.then /\ proc'.then = proc.then /\ proc'.recovers
        /\ proc'.kind = proc.kind
    BY <1>1, <1>5, <2>1, Going DEF UnlinkReceipt, Places, Resuming, SameErrand
  <2> QED  BY <1>1, <1>2, <1>3, <2>1, <2>2, LookingKnows DEF InvAfter
<1> QED  BY <1>4, <1>5

\* What an installation knows that is not a recovery.
Owns(i) ==
  /\ DiskTyped /\ ProcTyped /\ NoReceipts
  /\ ~proc.recovers /\ proc.kind = "install" /\ proc.conf \in Content
  /\ dir.uninstall = None /\ i \in Directory /\ i # None /\ ~i.removed /\ ~i.vouched
  /\ TracesInv(i) /\ KeptInv(i)
  /\ proc.then = "published" => proc.pc \in Undoing

LEMMA InstallOwns ==
  ASSUME IInv, proc.pc \in Installing \cup {"VERIFIED"}, ~proc.recovers
  PROVE  Owns(dir.install) /\ InstallingInv(proc.pc, dir.install) /\ UndoingInv(proc.pc, dir.install)
<1>1. DiskTyped /\ ProcTyped
  BY TypedIs DEF IInv
<1>2. NoReceipts /\ proc.pc # "idle"
  BY DEF IInv, CleaningInv, Resuming, Installing, Undoing
<1>3. /\ proc.kind = "install" /\ dir.uninstall = None /\ dir.install # None
      /\ dir.install \in Directory
  BY Has DEF IInv, LookingInv, Having
<1>4. proc.conf \in Content
  BY <1>1, <1>2, <1>3 DEF ProcTyped
<1>5. /\ ~dir.install.removed /\ ~dir.install.vouched
      /\ InstallingInv(proc.pc, dir.install) /\ UndoingInv(proc.pc, dir.install)
  BY DEF IInv, WorkInv
<1>6. TracesInv(dir.install) /\ KeptInv(dir.install)
  BY <1>3, <1>5 DEF IInv, DiskInv
<1>7. proc.then = "published" => proc.pc \in Undoing
  BY DEF IInv, CleaningInv
<1> QED  BY <1>1, <1>2, <1>3, <1>4, <1>5, <1>6, <1>7 DEF Owns

LEMMA InstallGoesAhead ==
  ASSUME proc'.pc \in Installing \cup {"VERIFIED"}, ~proc'.recovers, proc'.kind = "install", NoReceipts',
         dir'.uninstall = None, dir'.install # None, ~dir'.install.removed, ~dir'.install.vouched,
         proc'.then = "published" => proc'.pc \in Undoing,
         TracesInv(dir.install)', KeptInv(dir.install)',
         InstallingInv(proc.pc, dir.install)', UndoingInv(proc.pc, dir.install)'
  PROVE  InvAfter
<1>1. DiskInv'
  BY DEF DiskInv, NoReceipts
<1>2. CleaningInv'
  BY DEF CleaningInv, Cleaning, Resuming, Installing, Undoing, NoReceipts
<1>3. LookingInv'
  BY DEF LookingInv, Having, Recovering, Installing, Undoing
<1>4. WorkInv'
  BY DEF WorkInv, RemovingInv, Removing, UninstallPhases, RecoveringInv, InstallingInv, Installing, Undoing
<1> QED  BY <1>1, <1>2, <1>3, <1>4 DEF InvAfter

\* Where a step ahead leads.
LEMMA GoesAhead ==
  ASSUME ProcTyped, proc.pc # "idle", ~proc.recovers, proc.kind = "install",
         proc.then = "published" => proc.pc \in Undoing,
         NEW pc \in Installing \cup {"VERIFIED"}, Goto(pc),
         proc.pc \in Undoing => pc \in Undoing
  PROVE  /\ proc'.pc = pc /\ ~proc'.recovers /\ proc'.kind = "install" /\ proc'.then = proc.then
         /\ proc'.conf = proc.conf /\ proc'.tree = proc.tree
         /\ proc'.then = "published" => pc \in Undoing
BY Going DEF Places, Having, SameErrand

LEMMA MakeDirInv == ASSUME IInv, MakeDir PROVE InvAfter
<1>1. /\ DiskTyped /\ ProcTyped /\ proc.pc = "mkdir" /\ NoReceipts /\ proc.kind = "install"
      /\ dir.uninstall = None /\ dir.install = None /\ Clean /\ proc.then # "published"
      /\ proc.tree \in Tree /\ ~proc.recovers
  BY TypedIs
  DEF IInv, MakeDir, At, CleaningInv, LookingInv, DiskInv, Resuming, Undoing, ProcTyped
<1>2. proc'.pc = "stage" /\ proc'.kind = "install" /\ proc'.then # "published" /\ proc'.tree = proc.tree
  BY <1>1, Going DEF MakeDir, Places, Having, Installing, SameErrand
<1> DEFINE d == [EmptyDir EXCEPT !.tree = proc.tree, !.before = files.config]
<1>3. /\ d.phase = "none" /\ d.old = None /\ d.tree = proc.tree /\ d.before = files.config
      /\ d.marker = None /\ ~d.removed /\ ~d.vouched /\ d.bundle = None /\ d \in Directory
  BY <1>1 DEF EmptyDir, DiskTyped, Directory, Names
<1>4. dir' = [dir EXCEPT !.install = d]
  BY DEF MakeDir
<1> HIDE DEF d
<1>5. dir'.install = d /\ dir'.uninstall = None /\ d # None
  BY <1>1, <1>3, <1>4, AbsenceAssumption DEF DiskTyped, Kinds
<1>6. ~proc'.recovers
  BY <1>1, Going DEF MakeDir, Places, Having, Installing
<1>7. UNCHANGED <<app, files, marker, receipt>>
  BY DEF MakeDir
<1>8. /\ TracesInv(dir.install)' /\ KeptInv(dir.install)'
      /\ InstallingInv(proc.pc, dir.install)' /\ UndoingInv(proc.pc, dir.install)'
  BY <1>1, <1>2, <1>3, <1>5, <1>7, AbsenceAssumption
  DEF TracesInv, KeptInv, InstallingInv, UndoingInv, Undoing, Clean, Decided
<1> QED
  BY <1>1, <1>2, <1>3, <1>5, <1>6, <1>7, <1>8, InstallGoesAhead DEF Installing, NoReceipts

\* A step of an installation that changes its files, or its marker, and goes ahead.
LEMMA StageInv == ASSUME IInv, Stage PROVE InvAfter
<1> DEFINE i == dir.install
<1>1. Owns(i) /\ proc.pc = "stage" /\ i.phase = "none" /\ i.tree = proc.tree
  BY InstallOwns DEF Stage, At, Installing, InstallingInv, IInv, WorkInv
<1>2. /\ proc'.pc = "TXN_PREPARED" /\ ~proc'.recovers /\ proc'.kind = "install"
      /\ proc'.then # "published"
  BY <1>1, GoesAhead DEF Owns, Stage, Installing, Undoing
<1>3. /\ dir'.install = [i EXCEPT !.bundle = proc.tree, !.old = app]
      /\ dir'.uninstall = None
  BY <1>1 DEF Owns, Stage, DiskTyped, Kinds
<1>4. UNCHANGED <<app, files, marker, receipt>>
  BY DEF Stage
<1>5. /\ dir'.install.phase = "none" /\ dir'.install.marker = i.marker /\ dir'.install.before = i.before
      /\ dir'.install.removed = i.removed /\ dir'.install.vouched = i.vouched
      /\ dir'.install.bundle = i.tree /\ dir'.install.tree = i.tree /\ dir'.install.old = app
      /\ dir'.install # None
  <2>1. i \in Directory /\ app \in Tree \cup {None} /\ proc.tree = i.tree
    BY <1>1 DEF Owns, DiskTyped
  <2> HIDE DEF i
  <2>2. [i EXCEPT !.bundle = proc.tree, !.old = app] \in Directory
    BY <2>1 DEF Directory
  <2>3. dir'.install # None
    BY <1>3, <2>2, AbsenceAssumption
  <2> QED  BY <1>1, <1>3, <2>1, <2>3 DEF Directory
<1>6. /\ TracesInv(dir.install)' /\ KeptInv(dir.install)'
      /\ InstallingInv(proc.pc, dir.install)' /\ UndoingInv(proc.pc, dir.install)'
  BY <1>1, <1>2, <1>4, <1>5
  DEF Owns, TracesInv, KeptInv, InstallingInv, UndoingInv, Undoing, Clean, Decided, Arranged
<1> QED
  BY <1>1, <1>2, <1>3, <1>4, <1>5, <1>6, InstallGoesAhead DEF Installing, NoReceipts, Owns

LEMMA WriteTempInv == ASSUME IInv, WriteTemp PROVE InvAfter
<1> DEFINE i == dir.install
<1>1. Owns(i) /\ proc.pc = "temp" /\ i.phase = "TXN_PREPARED" /\ marker = None
  BY InstallOwns DEF WriteTemp, At, Installing, InstallingInv, IInv, WorkInv
<1>2. /\ proc'.pc = "marker" /\ ~proc'.recovers /\ proc'.kind = "install" /\ proc'.then # "published"
      /\ proc'.conf = proc.conf
  BY <1>1, GoesAhead DEF Owns, WriteTemp, Installing, Undoing
<1>3. UNCHANGED <<app, marker, dir, receipt>>
  BY DEF WriteTemp
<1>4. /\ files'.temp = proc.conf /\ files'.config = files.config /\ files'.backup = files.backup
      /\ files'.trash = files.trash
  BY <1>1 DEF WriteTemp, Owns, DiskTyped, Names
<1>5. /\ TracesInv(dir.install)' /\ KeptInv(dir.install)'
      /\ InstallingInv(proc.pc, dir.install)' /\ UndoingInv(proc.pc, dir.install)'
  BY <1>1, <1>2, <1>3, <1>4
  DEF Owns, TracesInv, KeptInv, InstallingInv, UndoingInv, Undoing, Clean, Decided, Arranged, Exchanged
<1> QED
  BY <1>1, <1>2, <1>3, <1>5, InstallGoesAhead DEF Installing, NoReceipts, Owns

LEMMA WriteMarkerInv == ASSUME IInv, WriteMarker PROVE InvAfter
<1> DEFINE i == dir.install
<1>1. /\ Owns(i) /\ proc.pc = "marker" /\ i.phase = "TXN_PREPARED" /\ marker = None
      /\ files.temp = proc.conf /\ proc.conf \in Content
  BY InstallOwns DEF WriteMarker, At, Installing, InstallingInv, IInv, WorkInv, Owns
<1>2. /\ proc'.pc = "CONFIG_PREPARED" /\ ~proc'.recovers /\ proc'.kind = "install"
      /\ proc'.then # "published" /\ proc'.conf = proc.conf
  BY <1>1, GoesAhead DEF Owns, WriteMarker, Installing, Undoing
<1>3. UNCHANGED <<app, files, dir, receipt>>
  BY DEF WriteMarker
<1>4. i.marker = None /\ files.config = i.before /\ Clean /\ Arranged(i)
  BY <1>1 DEF Owns, TracesInv, KeptInv, Decided
<1>5. marker' = [old |-> i.before, new |-> proc'.conf] /\ marker' # None /\ marker' # Torn
  BY <1>1, <1>2, <1>4, AbsenceAssumption DEF WriteMarker, Owns, Directory, Marker
<1>6. /\ TracesInv(dir.install)' /\ KeptInv(dir.install)'
      /\ InstallingInv(proc.pc, dir.install)' /\ UndoingInv(proc.pc, dir.install)'
  BY <1>1, <1>2, <1>3, <1>4, <1>5
  DEF Owns, TracesInv, KeptInv, InstallingInv, UndoingInv, Undoing, Clean, Decided, Arranged, Exchanged,
      Marked, Files
<1> QED
  BY <1>1, <1>2, <1>3, <1>6, InstallGoesAhead DEF Installing, NoReceipts, Owns

LEMMA BackUpInv == ASSUME IInv, BackUp PROVE InvAfter
<1> DEFINE i == dir.install
<1>1. /\ Owns(i) /\ proc.pc = "backup" /\ i.phase = "CONFIG_PREPARED" /\ Recorded(i)
      /\ Files(i.before, None, proc.conf)
  BY InstallOwns DEF BackUp, At, Installing, InstallingInv, IInv, WorkInv
<1>2. /\ proc'.pc = "publish" /\ ~proc'.recovers /\ proc'.kind = "install"
      /\ proc'.then # "published" /\ proc'.conf = proc.conf
  BY <1>1, GoesAhead DEF Owns, BackUp, Installing, Undoing
<1>3. UNCHANGED <<app, marker, dir, receipt>>
  BY DEF BackUp
<1>4. marker.old = i.before /\ marker # None
  BY <1>1, AbsenceAssumption DEF Recorded, Marked, Owns, Directory, Marker
<1>5. /\ files'.config = None /\ files'.backup = i.before /\ files'.temp = proc.conf
      /\ files'.trash = None
  BY <1>1, <1>4 DEF BackUp, Move, Owns, DiskTyped, Names, Files
<1>6. /\ TracesInv(dir.install)' /\ KeptInv(dir.install)'
      /\ InstallingInv(proc.pc, dir.install)' /\ UndoingInv(proc.pc, dir.install)'
  BY <1>1, <1>2, <1>3, <1>4, <1>5
  DEF Owns, TracesInv, KeptInv, InstallingInv, UndoingInv, Undoing, Clean, Decided, Arranged, Exchanged,
      Marked, Recorded, Files
<1> QED
  BY <1>1, <1>2, <1>3, <1>6, InstallGoesAhead DEF Installing, NoReceipts, Owns

LEMMA PublishConfigInv == ASSUME IInv, PublishConfig PROVE InvAfter
<1> DEFINE i == dir.install
<1>1. /\ Owns(i) /\ proc.pc = "publish" /\ i.phase = "CONFIG_PREPARED" /\ Recorded(i)
      /\ Files(None, i.before, proc.conf)
  BY InstallOwns DEF PublishConfig, At, Installing, InstallingInv, IInv, WorkInv
<1>2. /\ proc'.pc = "PREPARED" /\ ~proc'.recovers /\ proc'.kind = "install"
      /\ proc'.then # "published" /\ proc'.conf = proc.conf
  BY <1>1, GoesAhead DEF Owns, PublishConfig, Installing, Undoing
<1>3. UNCHANGED <<app, marker, dir, receipt>>
  BY DEF PublishConfig
<1>4. marker.old = i.before /\ marker # None
  BY <1>1, AbsenceAssumption DEF Recorded, Marked, Owns, Directory, Marker
<1>5. /\ files'.config = proc.conf /\ files'.backup = i.before /\ files'.temp = None
      /\ files'.trash = None
  BY <1>1 DEF PublishConfig, Move, Owns, DiskTyped, Names, Files
<1>6. /\ TracesInv(dir.install)' /\ KeptInv(dir.install)'
      /\ InstallingInv(proc.pc, dir.install)' /\ UndoingInv(proc.pc, dir.install)'
  BY <1>1, <1>2, <1>3, <1>4, <1>5
  DEF Owns, TracesInv, KeptInv, InstallingInv, UndoingInv, Undoing, Clean, Decided, Arranged, Exchanged,
      Marked, Recorded, Files
<1> QED
  BY <1>1, <1>2, <1>3, <1>6, InstallGoesAhead DEF Installing, NoReceipts, Owns

LEMMA SwapInv == ASSUME IInv, Swap PROVE InvAfter
<1> DEFINE i == dir.install
<1>1. /\ Owns(i) /\ proc.pc = "swap" /\ i.phase = "PREPARED" /\ Recorded(i)
      /\ Files(proc.conf, i.before, None) /\ Arranged(i)
  BY InstallOwns DEF Swap, At, Installing, InstallingInv, IInv, WorkInv
<1>2. /\ proc'.pc = "VERIFIED" /\ ~proc'.recovers /\ proc'.kind = "install"
      /\ proc'.then # "published" /\ proc'.conf = proc.conf
  BY <1>1, GoesAhead DEF Owns, Swap, Installing, Undoing
<1>3. UNCHANGED <<files, marker, receipt>> /\ app' = i.bundle
  BY DEF Swap
<1>4. marker.old = i.before /\ marker # None
  BY <1>1, AbsenceAssumption DEF Recorded, Marked, Owns, Directory, Marker
<1>5. dir'.install = [i EXCEPT !.bundle = app] /\ dir'.uninstall = None
  BY <1>1 DEF Owns, Swap, DiskTyped, Kinds
<1>6. /\ dir'.install.phase = "PREPARED" /\ dir'.install.marker = i.marker
      /\ dir'.install.before = i.before /\ dir'.install.removed = i.removed
      /\ dir'.install.vouched = i.vouched /\ dir'.install.bundle = app
      /\ dir'.install.tree = i.tree /\ dir'.install.old = i.old /\ dir'.install # None
  BY <1>1, <1>5, AbsenceAssumption DEF Owns, Directory, DiskTyped
<1>7. /\ TracesInv(dir.install)' /\ KeptInv(dir.install)'
      /\ InstallingInv(proc.pc, dir.install)' /\ UndoingInv(proc.pc, dir.install)'
  BY <1>1, <1>2, <1>3, <1>4, <1>6
  DEF Owns, TracesInv, KeptInv, InstallingInv, UndoingInv, Undoing, Clean, Decided, Arranged, Exchanged,
      Marked, Recorded, Files
<1> QED
  BY <1>1, <1>2, <1>3, <1>5, <1>6, <1>7, InstallGoesAhead DEF Installing, NoReceipts, Owns

LEMMA DropBackupInv == ASSUME IInv, DropBackup PROVE InvAfter
<1> DEFINE i == dir.install
<1>1. /\ Owns(i) /\ proc.pc = "dropBackup" /\ i.phase = "COMMITTING" /\ Recorded(i)
      /\ Files(proc.conf, i.before, None)
  BY InstallOwns DEF DropBackup, At, Installing, InstallingInv, IInv, WorkInv
<1>2. /\ proc'.pc = "dropMarker" /\ ~proc'.recovers /\ proc'.kind = "install"
      /\ proc'.then # "published" /\ proc'.conf = proc.conf
  BY <1>1, GoesAhead DEF Owns, DropBackup, Installing, Undoing
<1>3. UNCHANGED <<app, marker, dir, receipt>>
  BY DEF DropBackup
<1>4. marker.old = i.before /\ marker.new = proc.conf /\ marker # None
  BY <1>1, AbsenceAssumption DEF Recorded, Marked, Owns, Directory, Marker
<1>5. files'.config = proc.conf /\ files'.backup = None /\ files'.temp = None /\ files'.trash = None
  BY <1>1 DEF DropBackup, Drop, Owns, DiskTyped, Names, Files
<1>6. /\ TracesInv(dir.install)' /\ KeptInv(dir.install)'
      /\ InstallingInv(proc.pc, dir.install)' /\ UndoingInv(proc.pc, dir.install)'
  BY <1>1, <1>2, <1>3, <1>4, <1>5
  DEF Owns, TracesInv, KeptInv, InstallingInv, UndoingInv, Undoing, Clean, Decided, Arranged, Exchanged,
      Marked, Recorded, Files
<1> QED
  BY <1>1, <1>2, <1>3, <1>6, InstallGoesAhead DEF Installing, NoReceipts, Owns

LEMMA DropMarkerInv == ASSUME IInv, DropMarker PROVE InvAfter
<1> DEFINE i == dir.install
<1>1. /\ Owns(i) /\ proc.pc = "dropMarker" /\ i.phase = "COMMITTING" /\ Recorded(i)
      /\ Files(proc.conf, None, None)
  BY InstallOwns DEF DropMarker, At, Installing, InstallingInv, IInv, WorkInv
<1>2. /\ proc'.pc = "CLEANED" /\ ~proc'.recovers /\ proc'.kind = "install"
      /\ proc'.then # "published" /\ proc'.conf = proc.conf
  BY <1>1, GoesAhead DEF Owns, DropMarker, Installing, Undoing
<1>3. UNCHANGED <<app, files, dir, receipt>> /\ marker' = None
  BY DEF DropMarker
<1>4. i.marker.old = i.before /\ i.marker.new = proc.conf /\ i.marker # None
  BY <1>1, AbsenceAssumption DEF Recorded, Marked, Owns, Directory, Marker
<1>5. /\ TracesInv(dir.install)' /\ KeptInv(dir.install)'
      /\ InstallingInv(proc.pc, dir.install)' /\ UndoingInv(proc.pc, dir.install)'
  BY <1>1, <1>2, <1>3, <1>4, AbsenceAssumption
  DEF Owns, TracesInv, KeptInv, InstallingInv, UndoingInv, Undoing, Clean, Decided, Arranged, Exchanged,
      Files
<1> QED
  BY <1>1, <1>2, <1>3, <1>5, InstallGoesAhead DEF Installing, NoReceipts, Owns

LEMMA UndoConfigInv == ASSUME IInv, UndoConfig PROVE InvAfter
<1> DEFINE i == dir.install
<1>1. /\ Owns(i) /\ proc.pc = "undoConfig" /\ Undoable(i) /\ files.trash = None
      /\ \/ files.temp # None /\ Undone(i)
         \/ files.temp = None /\ marker # None /\ files.backup = i.before
  BY InstallOwns DEF UndoConfig, At, Installing, Undoing, UndoingInv, IInv, WorkInv
<1>2. /\ proc'.pc = "undoBackup" /\ ~proc'.recovers /\ proc'.kind = "install" /\ proc'.then = proc.then
  BY <1>1, GoesAhead DEF Owns, UndoConfig, Installing, Undoing
<1>3. UNCHANGED <<app, marker, dir, receipt>>
  BY DEF UndoConfig
<1>4. /\ files'.config = IF files.temp # None THEN files.config ELSE None
      /\ files'.backup = files.backup /\ files'.trash = None
  BY <1>1 DEF UndoConfig, Drop, Owns, DiskTyped, Names
<1>5. /\ TracesInv(dir.install)' /\ KeptInv(dir.install)'
      /\ InstallingInv(proc.pc, dir.install)' /\ UndoingInv(proc.pc, dir.install)'
  BY <1>1, <1>2, <1>3, <1>4
  DEF Owns, TracesInv, KeptInv, InstallingInv, UndoingInv, Undoing, Undoable, Undone, Clean, Decided,
      Arranged, Exchanged
<1> QED
  BY <1>1, <1>2, <1>3, <1>5, InstallGoesAhead DEF Installing, Undoing, NoReceipts, Owns

LEMMA UndoBackupInv == ASSUME IInv, UndoBackup PROVE InvAfter
<1> DEFINE i == dir.install
<1>1. /\ Owns(i) /\ proc.pc = "undoBackup" /\ Undoable(i) /\ files.trash = None
      /\ Undone(i)
  BY InstallOwns DEF UndoBackup, At, Installing, Undoing, UndoingInv, IInv, WorkInv
<1>2. /\ proc'.pc = "undoMarker" /\ ~proc'.recovers /\ proc'.kind = "install" /\ proc'.then = proc.then
  BY <1>1, GoesAhead DEF Owns, UndoBackup, Installing, Undoing
<1>3. UNCHANGED <<app, marker, dir, receipt>>
  BY DEF UndoBackup
<1>4. files'.config = i.before /\ files'.backup = None /\ files'.trash = None
  BY <1>1 DEF UndoBackup, Undone, Move, Owns, DiskTyped, Names
<1>5. /\ TracesInv(dir.install)' /\ KeptInv(dir.install)'
      /\ InstallingInv(proc.pc, dir.install)' /\ UndoingInv(proc.pc, dir.install)'
  BY <1>1, <1>2, <1>3, <1>4
  DEF Owns, TracesInv, KeptInv, InstallingInv, UndoingInv, Undoing, Undoable, Clean, Decided, Arranged,
      Exchanged
<1> QED
  BY <1>1, <1>2, <1>3, <1>5, InstallGoesAhead DEF Installing, Undoing, NoReceipts, Owns

LEMMA UndoMarkerInv == ASSUME IInv, UndoMarker PROVE InvAfter
<1> DEFINE i == dir.install
<1>1. /\ Owns(i) /\ proc.pc = "undoMarker" /\ Undoable(i) /\ files.trash = None
      /\ files.config = i.before /\ files.backup = None
  BY InstallOwns DEF UndoMarker, At, Installing, Undoing, UndoingInv, IInv, WorkInv
<1>2. /\ proc'.pc = "undoSwap" /\ ~proc'.recovers /\ proc'.kind = "install" /\ proc'.then = proc.then
  BY <1>1, GoesAhead DEF Owns, UndoMarker, Installing, Undoing
<1>3. UNCHANGED <<app, files, dir, receipt>> /\ marker' = None
  BY DEF UndoMarker
<1>4. TracesInv(dir.install)'
  BY <1>1, <1>3 DEF Owns, TracesInv, Clean, Decided
<1>5. KeptInv(dir.install)'
  BY <1>1, <1>3, AbsenceAssumption DEF Owns, KeptInv, Clean, Decided, Arranged, Exchanged
<1>6. InstallingInv(proc.pc, dir.install)' /\ UndoingInv(proc.pc, dir.install)'
  BY <1>1, <1>2, <1>3, InstallAssumption
  DEF InstallingInv, UndoingInv, Undoing, Undoable, Clean, Arranged, Exchanged
<1> QED
  BY <1>1, <1>2, <1>3, <1>4, <1>5, <1>6, InstallGoesAhead DEF Installing, Undoing, NoReceipts, Owns

LEMMA UndoSwapInv == ASSUME IInv, UndoSwap PROVE InvAfter
<1> DEFINE i == dir.install
<1>1. /\ Owns(i) /\ proc.pc = "undoSwap" /\ Undoable(i) /\ files.config = i.before /\ Clean
  BY InstallOwns DEF UndoSwap, At, Installing, Undoing, UndoingInv, IInv, WorkInv
<1>2. /\ proc'.pc = "ABORTED" /\ ~proc'.recovers /\ proc'.kind = "install" /\ proc'.then = proc.then
  BY <1>1, GoesAhead DEF Owns, UndoSwap, Installing, Undoing
<1>3. UNCHANGED <<files, marker, receipt>>
  BY DEF UndoSwap
<1>4. /\ dir'.uninstall = None /\ dir'.install # None
      /\ \A f \in {"phase", "tree", "old", "marker", "before", "removed", "vouched", "unnoted"} :
           dir'.install[f] = i[f]
      /\ \/ app' = i.old /\ dir'.install.bundle = i.tree
         \/ app' = i.tree /\ dir'.install.bundle = i.old /\ i.unnoted /\ i.phase = "PREPARED"
  <2>1. CASE proc.then = "published"
    <3>1. dir'.install = [i EXCEPT !.bundle = app] /\ dir'.uninstall = None /\ app' = i.bundle
      BY <1>1, <2>1 DEF UndoSwap, Owns, DiskTyped, Kinds
    <3>2. i \in Directory /\ app \in Tree \cup {None} /\ app = i.tree /\ i.bundle = i.old
      BY <1>1, <2>1 DEF Owns, DiskTyped, Undoable, Exchanged
    <3>3. [i EXCEPT !.bundle = app] \in Directory
      BY <3>2 DEF Directory
    <3> HIDE DEF i
    <3>4. dir'.install # None
      BY <3>1, <3>3, AbsenceAssumption
    <3>5. /\ \A f \in {"phase", "tree", "old", "marker", "before", "removed", "vouched", "unnoted"} :
               dir'.install[f] = i[f]
          /\ dir'.install.bundle = i.tree
      BY <3>1, <3>2 DEF Directory
    <3> QED  BY <3>1, <3>2, <3>4, <3>5
  <2>2. CASE proc.then # "published"
    BY <1>1, <2>2 DEF UndoSwap, Owns, Undoable, Arranged, Exchanged
  <2> QED  BY <2>1, <2>2
<1>5. /\ TracesInv(dir.install)' /\ KeptInv(dir.install)'
      /\ InstallingInv(proc.pc, dir.install)' /\ UndoingInv(proc.pc, dir.install)'
  BY <1>1, <1>2, <1>3, <1>4
  DEF Owns, TracesInv, KeptInv, InstallingInv, UndoingInv, Undoing, Undoable, Clean, Decided, Arranged,
      Exchanged
<1> QED
  BY <1>1, <1>2, <1>3, <1>4, <1>5, InstallGoesAhead DEF Installing, Undoing, NoReceipts, Owns

\* A state is appended to one journal, and nothing else changes.
LEMMA AppendChanges ==
  ASSUME IInv, Append
  PROVE  /\ UNCHANGED <<app, files, marker, receipt>> /\ NoReceipts
         /\ \A k \in Kinds : k = Log(proc.pc) =>
              /\ dir[k] \in Directory
              /\ dir'[k] # None /\ dir'[k].phase = proc.pc
              /\ dir'[k].marker = IF At("CONFIG_PREPARED") THEN marker ELSE dir[k].marker
              /\ \A f \in {"bundle", "tree", "old", "remove", "before", "removed", "vouched", "unnoted"} :
                   dir'[k][f] = dir[k][f]
         /\ \A k \in Kinds : k # Log(proc.pc) => dir'[k] = dir[k]
<1>1. DiskTyped /\ DiskTyped'
  BY TypedIs, AppendTyped DEF IInv
<1>2. proc.pc \in InstallPhases \cup UninstallPhases
  BY DEF Append
<1>3. UNCHANGED <<app, files, marker, receipt>> /\ NoReceipts
  BY <1>2 DEF Append, IInv, CleaningInv, Resuming, InstallPhases, UninstallPhases
<1>4. ASSUME NEW k \in Kinds, k = Log(proc.pc)
      PROVE  /\ dir[k] \in Directory
             /\ dir'[k] # None /\ dir'[k].phase = proc.pc
             /\ dir'[k].marker = IF At("CONFIG_PREPARED") THEN marker ELSE dir[k].marker
             /\ \A f \in {"bundle", "tree", "old", "remove", "before", "removed", "vouched", "unnoted"} :
                  dir'[k][f] = dir[k][f]
  <2>1. dir[k] \in Directory
    BY <1>2, <1>4, Has
    DEF Log, InstallPhases, UninstallPhases, Having, Removing, Installing, Undoing
  <2>2. \E m : /\ m = IF At("CONFIG_PREPARED") THEN marker ELSE dir[k].marker
               /\ dir'[k] = [dir[k] EXCEPT !.phase = proc.pc, !.marker = m]
    BY <1>1, <1>4, <2>1 DEF Append, DiskTyped
  <2>3. PICK m : /\ m = IF At("CONFIG_PREPARED") THEN marker ELSE dir[k].marker
                 /\ dir'[k] = [dir[k] EXCEPT !.phase = proc.pc, !.marker = m]
    BY <2>2
  <2>4. /\ [dir[k] EXCEPT !.phase = proc.pc, !.marker = m].phase = proc.pc
        /\ [dir[k] EXCEPT !.phase = proc.pc, !.marker = m].marker = m
        /\ \A f \in {"bundle", "tree", "old", "remove", "before", "removed", "vouched", "unnoted"} :
             [dir[k] EXCEPT !.phase = proc.pc, !.marker = m][f] = dir[k][f]
    BY <2>1 DEF Directory
  <2>5. DOMAIN dir'[k] = DOMAIN dir[k]
    BY <2>3
  <2>6. dir'[k] # None
    <3>1. CASE m \in Marker \cup {None}
      <4>1. [dir[k] EXCEPT !.phase = proc.pc, !.marker = m] \in Directory
        BY <1>2, <2>1, <3>1 DEF Directory
      <4> QED  BY <2>3, <4>1, AbsenceAssumption
    <3>2. CASE m \notin Marker \cup {None}
      <4>1. At("CONFIG_PREPARED") /\ marker \notin Marker \cup {None}
        BY <2>1, <2>3, <3>2 DEF Directory
      <4>2. Marked(dir.install) /\ Owns(dir.install)
        BY <4>1, InstallOwns DEF At, Installing, InstallingInv, IInv, WorkInv
      <4>3. marker \in Marker
        BY <4>2 DEF Marked, Owns, Directory, Marker
      <4> QED  BY <4>1, <4>3
    <3> QED  BY <3>1, <3>2
  <2> QED  BY <2>1, <2>3, <2>4, <2>6
<1>5. \A k \in Kinds : k # Log(proc.pc) => dir'[k] = dir[k]
  BY <1>1 DEF Append, DiskTyped
<1> QED  BY <1>3, <1>4, <1>5

\* The states that an installation notes on its way.
LEMMA AppendInstallingInv ==
  ASSUME IInv, Append, proc.pc \in InstallPhases, ~proc.recovers,
         proc.pc \notin {"CLEANED", "ABORTED"}
  PROVE  InvAfter
<1> DEFINE i == dir.install
           m == IF At("CONFIG_PREPARED") THEN marker ELSE i.marker
<1>1. Owns(i) /\ InstallingInv(proc.pc, i) /\ proc.pc \in Installing \cup {"VERIFIED"}
  BY InstallOwns DEF InstallPhases, Installing, Undoing
<1>2. /\ UNCHANGED <<app, files, marker, receipt>>
      /\ dir'.install # None /\ dir'.install.phase = proc.pc /\ dir'.install.marker = m
      /\ \A f \in {"bundle", "tree", "old", "remove", "before", "removed", "vouched", "unnoted"} :
           dir'.install[f] = i[f]
      /\ dir'.uninstall = None
  BY <1>1, AppendChanges DEF Kinds, Log, Owns
<1>3. \/ proc.pc = "TXN_PREPARED" /\ Goto("temp")
      \/ proc.pc = "CONFIG_PREPARED" /\ Goto("backup")
      \/ proc.pc = "PREPARED" /\ Goto("swap")
      \/ proc.pc = "VERIFIED" /\ Goto("COMMITTING")
      \/ proc.pc = "COMMITTING" /\ Goto("dropBackup")
  BY DEF Append, After, InstallPhases, At
<1>4. /\ ~proc'.recovers /\ proc'.kind = "install" /\ proc'.then # "published" /\ proc'.conf = proc.conf
      /\ \/ proc.pc = "TXN_PREPARED" /\ proc'.pc = "temp"
         \/ proc.pc = "CONFIG_PREPARED" /\ proc'.pc = "backup"
         \/ proc.pc = "PREPARED" /\ proc'.pc = "swap"
         \/ proc.pc = "VERIFIED" /\ proc'.pc = "COMMITTING"
         \/ proc.pc = "COMMITTING" /\ proc'.pc = "dropBackup"
  BY <1>1, <1>3, GoesAhead DEF Owns, Installing, Undoing
<1>5. TracesInv(dir.install)'
  BY <1>1, <1>2, <1>3, AbsenceAssumption
  DEF Owns, TracesInv, InstallingInv, Clean, Decided, Marked, Recorded, At, Directory, Marker
<1>6. KeptInv(dir.install)'
  BY <1>1, <1>2, <1>3, AbsenceAssumption
  DEF Owns, KeptInv, InstallingInv, Clean, Decided, Marked, Recorded, Arranged, Exchanged, At, Files,
      Directory, Marker
<1>7. InstallingInv(proc.pc, dir.install)' /\ UndoingInv(proc.pc, dir.install)'
  BY <1>1, <1>2, <1>4
  DEF Owns, InstallingInv, UndoingInv, Undoing, Marked, Recorded, Files, Arranged, Exchanged, At, KeptInv,
      Clean, Decided, TracesInv
<1> QED
  BY <1>1, <1>2, <1>4, <1>5, <1>6, <1>7, InstallGoesAhead DEF Installing, NoReceipts, Owns

\* Where a recovery, a removal, or an installation that is as good as complete goes on.
LEMMA RecoveryGoesOn ==
  ASSUME DiskInv', NoReceipts', proc'.pc \in Recovering \cup {"complete"},
         proc'.pc \in Recovering => proc'.recovers, proc'.kind = "install", proc'.then # "published",
         dir'.uninstall = None, dir'.install # None, RecoveringInv(proc.pc, dir.install)'
  PROVE  InvAfter
BY DEF InvAfter, CleaningInv, LookingInv, WorkInv, RemovingInv, NoReceipts, Resuming, Cleaning, Recovering,
       Having, Installing, Undoing, Removing, UninstallPhases

LEMMA RemovalProceeds ==
  ASSUME DiskInv', NoReceipts', proc'.pc \in Removing, proc'.then # "published",
         RemovingInv(proc.pc, dir.uninstall)'
  PROVE  InvAfter
BY DEF InvAfter, CleaningInv, LookingInv, WorkInv, RecoveringInv, NoReceipts, Resuming, Cleaning, Recovering,
       Having, Installing, Undoing, Removing, UninstallPhases

LEMMA AppendCleanedInv == ASSUME IInv, Append, proc.pc = "CLEANED" PROVE InvAfter
<1> DEFINE i == dir.install
<1>1. Owns(i) /\ i.phase = "COMMITTING" /\ marker = None /\ Files(i.marker.new, None, None)
  BY InstallOwns DEF Installing, InstallingInv, IInv, WorkInv
<1>2. /\ UNCHANGED <<app, files, marker, receipt>>
      /\ dir'.install # None /\ dir'.install.phase = "CLEANED" /\ dir'.install.marker = i.marker
      /\ \A f \in {"bundle", "tree", "old", "remove", "before", "removed", "vouched", "unnoted"} :
           dir'.install[f] = i[f]
      /\ dir'.uninstall = None
  BY <1>1, AppendChanges DEF Kinds, Log, Owns, InstallPhases, At
<1>3. /\ proc'.pc = "complete" /\ ~proc'.recovers /\ proc'.kind = "install" /\ proc'.then # "published"
  <2>1. Goto("complete")
    BY DEF Append, After, At
  <2> QED  BY <1>1, <2>1, Going DEF Owns, Places, Having, SameErrand, Undoing
<1>4. TracesInv(dir.install)' /\ KeptInv(dir.install)' /\ Clean' /\ Decided(dir.install)'
  BY <1>1, <1>2, InstallAssumption, AbsenceAssumption DEF Owns, TracesInv, KeptInv, Clean, Decided, Files
<1>5. DiskInv' /\ NoReceipts'
  BY <1>1, <1>2, <1>4 DEF DiskInv, NoReceipts, Owns
<1> QED  BY <1>2, <1>3, <1>4, <1>5, RecoveryGoesOn DEF RecoveringInv, Recovering

LEMMA AppendAbortedInv == ASSUME IInv, Append, proc.pc = "ABORTED" PROVE InvAfter
<1> DEFINE i == dir.install
<1>1. /\ Owns(i) /\ files.config = i.before /\ Clean
      /\ app = i.old \/ (Exchanged(i) /\ i.unnoted)
  BY InstallOwns DEF Installing, Undoing, UndoingInv, IInv, WorkInv
<1>2. /\ UNCHANGED <<app, files, marker, receipt>>
      /\ dir'.install # None /\ dir'.install.phase = "ABORTED" /\ dir'.install.marker = i.marker
      /\ \A f \in {"bundle", "tree", "old", "remove", "before", "removed", "vouched", "unnoted"} :
           dir'.install[f] = i[f]
      /\ dir'.uninstall = None
  BY <1>1, AppendChanges DEF Kinds, Log, Owns, InstallPhases, At
<1>3. /\ proc'.pc = "receipt" /\ proc'.on = "install" /\ proc'.then = "idle"
  <2>1. Cleanup("install", "idle")
    BY DEF Append, After, At, Log, InstallPhases
  <2> QED  BY <1>1, <2>1, CleaningUp DEF Owns, Kinds
<1>4. TracesInv(dir.install)' /\ KeptInv(dir.install)' /\ InstallEnded(dir.install)'
  BY <1>1, <1>2, InstallAssumption, AbsenceAssumption
  DEF Owns, TracesInv, KeptInv, Clean, Decided, InstallEnded, Exchanged
<1>5. DiskInv' /\ NoReceipts'
  BY <1>1, <1>2, <1>4 DEF DiskInv, NoReceipts, Owns
<1> QED  BY <1>3, <1>4, <1>5, CleaningKnows DEF InvAfter, Kinds

\* The recovery notes that the new application is in place.
LEMMA AppendVerifiedInv == ASSUME IInv, Append, proc.pc = "VERIFIED", proc.recovers PROVE InvAfter
<1> DEFINE i == dir.install
<1>1. /\ ProcTyped /\ proc.kind = "install" /\ dir.uninstall = None /\ i # None
      /\ i.phase = "PREPARED" /\ TracesInv(i) /\ (~i.removed => KeptInv(i))
      /\ proc.then # "published"
  BY TypedIs DEF IInv, LookingInv, Having, WorkInv, RecoveringInv, DiskInv, CleaningInv, Undoing
<1>2. /\ UNCHANGED <<app, files, marker, receipt>> /\ NoReceipts
      /\ dir'.install # None /\ dir'.install.phase = "VERIFIED" /\ dir'.install.marker = i.marker
      /\ \A f \in {"bundle", "tree", "old", "remove", "before", "removed", "vouched", "unnoted"} :
           dir'.install[f] = i[f]
      /\ dir'.uninstall = None
  BY <1>1, AppendChanges DEF Kinds, Log, InstallPhases, At
<1>3. /\ proc'.pc = "configForward" /\ proc'.recovers /\ proc'.kind = "install" /\ proc'.then # "published"
  <2>1. Goto("configForward")
    BY DEF Append, At
  <2> QED  BY <1>1, <2>1, Going DEF Places, Having, Recovering, SameErrand
<1>4. TracesInv(dir.install)' /\ (~dir.install.removed => KeptInv(dir.install))' /\ Decided(dir.install)'
  BY <1>1, <1>2 DEF TracesInv, KeptInv, Clean, Decided
<1>5. DiskInv' /\ NoReceipts'
  BY <1>1, <1>2, <1>4 DEF DiskInv, NoReceipts
<1> QED  BY <1>2, <1>3, <1>4, <1>5, RecoveryGoesOn DEF RecoveringInv, Recovering

\* The states that a removal notes.
LEMMA AppendRemovingInv == ASSUME IInv, Append, proc.pc \in UninstallPhases PROVE InvAfter
<1> DEFINE u == dir.uninstall
<1>1. /\ ProcTyped /\ u # None /\ RemovalInv(u) /\ RemovingInv(proc.pc, u) /\ proc.then # "published"
      /\ proc.recovers \in BOOLEAN
  BY TypedIs
  DEF IInv, WorkInv, RemovingInv, Removing, DiskInv, CleaningInv, Undoing, UninstallPhases, ProcTyped, Process
<1>2. /\ UNCHANGED <<app, files, marker, receipt>> /\ NoReceipts
      /\ dir'.uninstall # None /\ dir'.uninstall.phase = proc.pc
      /\ \A f \in {"bundle", "tree", "old", "remove", "before", "removed", "vouched", "unnoted"} :
           dir'.uninstall[f] = u[f]
      /\ dir'.install = dir.install
  BY <1>1, AppendChanges DEF Kinds, Log, InstallPhases, UninstallPhases
<1>3. RemovalInv(dir.uninstall)'
  BY <1>1, <1>2 DEF RemovalInv, RemovingInv, UntouchedRemoval, AsAsked, UninstallPhases, Removing
<1>4. DiskInv' /\ NoReceipts'
  BY <1>2, <1>3
  DEF IInv, DiskInv, NoReceipts, TracesInv, KeptInv, Clean, Decided, Arranged, Exchanged
<1>5. ASSUME proc.pc \in {"UNINSTALL_CLEANED", "UNINSTALL_ABORTED"} PROVE InvAfter
  <2>1. \E then \in {"idle", "uninstalls"} :
          Cleanup("uninstall", then) /\ (then = "uninstalls" => proc.recovers)
    BY <1>5 DEF Append, After, At, Log, InstallPhases
  <2>2. /\ proc'.pc = "receipt" /\ proc'.on = "uninstall" /\ proc'.then \in {"idle", "uninstalls"}
        /\ proc'.then # "idle" => proc'.recovers
    BY <1>1, <1>5, <2>1, CleaningUp DEF Kinds
  <2> QED  BY <1>2, <1>4, <1>5, <2>2, CleaningKnows DEF InvAfter, Kinds, RemovalEnded
<1>6. ASSUME proc.pc \in {"UNINSTALL_PREPARED", "UNINSTALL_MOVED"} PROVE InvAfter
  <2>1. \/ proc.pc = "UNINSTALL_PREPARED" /\ Goto("move")
        \/ proc.pc = "UNINSTALL_MOVED" /\ Goto("removeConfig")
    BY <1>6 DEF Append, After, At
  <2>2. /\ \/ proc.pc = "UNINSTALL_PREPARED" /\ proc'.pc = "move"
           \/ proc.pc = "UNINSTALL_MOVED" /\ proc'.pc = "removeConfig"
        /\ proc'.then # "published"
    BY <1>1, <2>1, Going DEF Places, Removing
  <2>3. RemovingInv(proc.pc, dir.uninstall)'
    BY <1>1, <1>2, <2>2 DEF RemovingInv, RemovalInv, UntouchedRemoval, Removing, UninstallPhases
  <2> QED  BY <1>4, <2>2, <2>3, RemovalProceeds DEF Removing
<1> QED  BY <1>5, <1>6 DEF UninstallPhases

LEMMA AppendInv == ASSUME IInv, Append PROVE InvAfter
<1>1. proc.pc \in Installing => ~proc.recovers
  BY DEF IInv, WorkInv
<1> QED
  BY <1>1, AppendInstallingInv, AppendCleanedInv, AppendAbortedInv, AppendVerifiedInv, AppendRemovingInv
  DEF Append, InstallPhases, Installing, Undoing

LEMMA CompleteInv == ASSUME IInv, Complete PROVE InvAfter
<1> DEFINE i == dir.install
<1>1. /\ DiskTyped /\ ProcTyped /\ proc.pc = "complete" /\ proc.kind = "install" /\ dir.uninstall = None
      /\ i # None /\ i \in Directory /\ Decided(i) /\ Clean /\ TracesInv(i) /\ (~i.removed => KeptInv(i))
      /\ NoReceipts
  BY TypedIs, Has
  DEF IInv, Complete, At, LookingInv, Having, WorkInv, RecoveringInv, DiskInv, CleaningInv, Resuming
<1>2. UNCHANGED <<app, files, marker, receipt>>
  BY DEF Complete
<1>3. ASSUME Stop, UNCHANGED dir PROVE InvAfter
  <2>1. DiskInv'
    BY <1>1, <1>2, <1>3
    DEF DiskInv, NoReceipts, TracesInv, KeptInv, Clean, Decided, Arranged, Exchanged
  <2> QED  BY <1>3, <2>1, Stopping, IdleKnowsNothing DEF InvAfter
<1>4. ASSUME app = i.tree, files.config = i.marker.new,
             dir' = [dir EXCEPT !.install.vouched = TRUE],
             Cleanup("install", IF proc.recovers THEN "installs" ELSE "idle")
      PROVE  InvAfter
  <2>1. dir'.install = [i EXCEPT !.vouched = TRUE] /\ dir'.uninstall = None
    BY <1>1, <1>4 DEF DiskTyped, Kinds
  <2>2. [i EXCEPT !.vouched = TRUE] \in Directory
    <3> HIDE DEF i
    <3> QED  BY <1>1 DEF Directory
  <2>3. /\ dir'.install # None
        /\ \A f \in {"phase", "bundle", "tree", "old", "marker", "before", "removed"} :
             dir'.install[f] = i[f]
    <3> HIDE DEF i
    <3> QED  BY <1>1, <2>1, <2>2, AbsenceAssumption DEF Directory
  <2>4. TracesInv(dir.install)' /\ (~dir.install.removed => KeptInv(dir.install))'
        /\ InstallEnded(dir.install)'
    BY <1>1, <1>2, <1>4, <2>3 DEF TracesInv, KeptInv, Clean, Decided, Arranged, Exchanged, InstallEnded
  <2>5. DiskInv' /\ NoReceipts'
    BY <1>1, <1>2, <2>1, <2>3, <2>4 DEF DiskInv, NoReceipts
  <2>6. /\ proc'.pc = "receipt" /\ proc'.on = "install" /\ proc'.kind = "install"
        /\ proc'.then \in {"installs", "idle"} /\ (proc'.then # "idle" => proc'.recovers)
    BY <1>1, <1>4, CleaningUp DEF Kinds, SameErrand
  <2> QED  BY <2>1, <2>4, <2>5, <2>6, CleaningKnows DEF InvAfter, Kinds
<1> QED  BY <1>3, <1>4 DEF Complete

LEMMA BeginRemovalInv == ASSUME IInv, BeginRemoval PROVE InvAfter
<1>1. /\ DiskTyped /\ ProcTyped /\ proc.pc = "begin" /\ proc.then # "published" /\ NoReceipts
      /\ dir.uninstall = None
  BY TypedIs DEF IInv, BeginRemoval, At, LookingInv, CleaningInv, Resuming, Undoing
<1>2. UNCHANGED <<app, files, marker, receipt>>
  BY DEF BeginRemoval
<1> DEFINE d == [EmptyDir EXCEPT !.tree = app, !.remove = proc.remove, !.before = files.config]
<1>3. ASSUME app # None, dir' = [dir EXCEPT !.uninstall = d],
             proc' = [proc EXCEPT !.pc = "UNINSTALL_PREPARED", !.recovers = FALSE]
      PROVE  InvAfter
  <2>1. /\ d \in Directory /\ d.phase = "none" /\ d.tree = app /\ d.before = files.config
        /\ d.bundle = None
    <3>1. app \in Tree /\ proc.remove \in BOOLEAN /\ files.config \in Content \cup {None}
      BY <1>1, <1>3 DEF ProcTyped, Process, DiskTyped, Names
    <3> QED  BY <3>1 DEF EmptyDir, Directory
  <2> HIDE DEF d
  <2>2. dir'.uninstall = d /\ dir'.install = dir.install /\ d # None
    BY <1>1, <1>3, <2>1, AbsenceAssumption DEF DiskTyped, Kinds
  <2>3. DiskInv' /\ NoReceipts'
    BY <1>1, <1>2, <2>1, <2>2
    DEF IInv, DiskInv, NoReceipts, TracesInv, KeptInv, Clean, Decided, Arranged, Exchanged, RemovalInv,
        UntouchedRemoval
  <2>4. proc'.pc = "UNINSTALL_PREPARED" /\ proc'.then = proc.then
    BY <1>1, <1>3 DEF ProcTyped, Process
  <2> QED
    BY <1>1, <2>1, <2>2, <2>3, <2>4, RemovalProceeds DEF Removing, UninstallPhases, RemovingInv
<1>4. ASSUME UNCHANGED dir, Stop \/ proc' = [proc EXCEPT !.pc = "removeOnly", !.recovers = FALSE]
      PROVE  InvAfter
  <2>1. DiskInv' /\ NoReceipts'
    BY <1>1, <1>2, <1>4
    DEF IInv, DiskInv, NoReceipts, TracesInv, KeptInv, Clean, Decided, Arranged, Exchanged
  <2>2. CASE Stop
    BY <2>1, <2>2, Stopping, IdleKnowsNothing DEF InvAfter
  <2>3. CASE proc' = [proc EXCEPT !.pc = "removeOnly", !.recovers = FALSE]
    <3>1. proc'.pc = "removeOnly" /\ proc'.then = proc.then
      BY <1>1, <2>3 DEF ProcTyped, Process
    <3> QED  BY <1>1, <1>4, <2>1, <3>1, LookingKnows DEF InvAfter
  <2> QED  BY <1>4, <2>2, <2>3
<1> QED  BY <1>3, <1>4 DEF BeginRemoval

\* An installation that waits is only told that a removal came between.
LEMMA RemovedOf ==
  ASSUME NEW i \in Directory, NEW j, j = [i EXCEPT !.removed = TRUE]
  PROVE  /\ j # None /\ j.removed
         /\ \A f \in {"phase", "bundle", "tree", "old", "marker", "before", "vouched", "unnoted"} : j[f] = i[f]
<1>1. j \in Directory
  BY DEF Directory
<1> QED  BY <1>1, AbsenceAssumption DEF Directory

LEMMA MoveToTrashInv == ASSUME IInv, MoveToTrash PROVE InvAfter
<1> DEFINE u == dir.uninstall
           i == dir.install
<1>1. /\ DiskTyped /\ ProcTyped /\ proc.pc = "move" /\ proc.then # "published" /\ NoReceipts
      /\ u \in Directory /\ u # None /\ RemovalInv(u) /\ u.phase = "UNINSTALL_PREPARED" /\ u.bundle = None
      /\ i # None => i \in Directory
  BY TypedIs, Has
  DEF IInv, MoveToTrash, At, CleaningInv, Resuming, Undoing, WorkInv, RemovingInv, Removing, DiskInv,
      DiskTyped, Kinds
<1>2. UNCHANGED <<files, marker, receipt>> /\ app' = None
  BY DEF MoveToTrash
<1>3. app \in Tree /\ app # None
  BY <1>1, InstallAssumption DEF RemovalInv, UntouchedRemoval, Directory
<1>4. /\ dir'.uninstall = [u EXCEPT !.bundle = app]
      /\ dir'.install = IF i # None THEN [i EXCEPT !.removed = TRUE] ELSE None
  BY DEF MoveToTrash, Kinds
<1>5. /\ dir'.uninstall # None /\ dir'.uninstall.bundle = app
      /\ \A f \in {"phase", "tree", "remove", "before"} : dir'.uninstall[f] = u[f]
  <2> HIDE DEF u
  <2>1. [u EXCEPT !.bundle = app] \in Directory
    BY <1>1, <1>3 DEF Directory
  <2> QED  BY <1>1, <1>4, <2>1, AbsenceAssumption DEF Directory
<1>6. i # None => dir'.install # None /\ TracesInv(dir.install)' /\ dir'.install.removed
  BY <1>1, <1>2, <1>4, RemovedOf DEF IInv, DiskInv, TracesInv, Clean, Decided
<1>7. RemovalInv(dir.uninstall)'
  BY <1>1, <1>2, <1>3, <1>5 DEF RemovalInv, UntouchedRemoval
<1>8. DiskInv' /\ NoReceipts'
  BY <1>1, <1>2, <1>4, <1>6, <1>7 DEF IInv, DiskInv, NoReceipts, Clean
<1>9. proc'.pc = "UNINSTALL_MOVED" /\ proc'.then = proc.then
  BY <1>1, Going DEF MoveToTrash, Places, Removing, UninstallPhases
<1> QED
  BY <1>1, <1>3, <1>5, <1>8, <1>9, RemovalProceeds DEF Removing, UninstallPhases, RemovingInv

LEMMA RemoveConfigInv == ASSUME IInv, RemoveConfig PROVE InvAfter
<1> DEFINE u == dir.uninstall
           i == dir.install
           asked == At("removeOnly") \/ (At("removeConfig") /\ u.remove)
<1>1. /\ DiskTyped /\ ProcTyped /\ proc.pc \in {"removeConfig", "removeOnly"} /\ proc.then # "published"
      /\ NoReceipts /\ (u # None => RemovalInv(u)) /\ RemovingInv(proc.pc, u)
      /\ proc.pc = "removeOnly" => u = None
      /\ i # None => i \in Directory
      /\ i = None => Clean
  BY TypedIs
  DEF IInv, RemoveConfig, At, CleaningInv, Resuming, Undoing, WorkInv, LookingInv, DiskInv, DiskTyped, Kinds
<1>2. UNCHANGED <<app, marker, receipt>>
  BY DEF RemoveConfig
<1>3. /\ files'.config = IF asked THEN None ELSE files.config
      /\ files'.backup = files.backup /\ files'.trash = files.trash
  BY <1>1 DEF RemoveConfig, DiskTyped, Names
<1>4. /\ dir'.uninstall = u
      /\ dir'.install = IF asked /\ i # None THEN [i EXCEPT !.removed = TRUE] ELSE i
  BY <1>1 DEF RemoveConfig, DiskTyped, Kinds
<1>5. dir'.install # None => TracesInv(dir.install)' /\ (~dir.install.removed => KeptInv(dir.install))'
  <2>1. CASE asked /\ i # None
    BY <1>1, <1>2, <1>3, <1>4, <2>1, RemovedOf DEF IInv, DiskInv, TracesInv, Clean, Decided
  <2>2. CASE ~asked
    BY <1>1, <1>2, <1>3, <1>4, <2>2
    DEF IInv, DiskInv, TracesInv, KeptInv, Clean, Decided, Arranged, Exchanged
  <2> QED  BY <1>4, <2>1, <2>2
<1>6. proc.pc = "removeConfig" => RemovalInv(dir.uninstall)' /\ AsAsked(dir.uninstall)'
  BY <1>1, <1>2, <1>3, <1>4 DEF RemovalInv, RemovingInv, Removing, AsAsked, At
<1>7. dir'.install = None => Clean'
  BY <1>1, <1>2, <1>3, <1>4, RemovedOf DEF Clean
<1>8. DiskInv' /\ NoReceipts'
  BY <1>1, <1>2, <1>4, <1>5, <1>6, <1>7 DEF DiskInv, NoReceipts
<1>9. CASE At("removeOnly")
  BY <1>8, <1>9, Stopping, IdleKnowsNothing DEF RemoveConfig, InvAfter
<1>10. CASE ~At("removeOnly")
  <2>1. proc'.pc = "UNINSTALL_CLEANED" /\ proc'.then = proc.then
    BY <1>1, <1>10, Going DEF RemoveConfig, At, Places, Removing, UninstallPhases
  <2>2. RemovingInv(proc.pc, dir.uninstall)'
    BY <1>1, <1>4, <1>6, <1>10, <2>1 DEF RemovingInv, Removing, UninstallPhases, At
  <2> QED  BY <1>1, <1>8, <2>1, <2>2, RemovalProceeds DEF Removing, UninstallPhases
<1> QED  BY <1>9, <1>10

LEMMA TornOf ==
  ASSUME NEW i \in Directory, NEW j, j = [i EXCEPT !.torn = TRUE]
  PROVE  /\ j # None
         /\ \A f \in {"phase", "bundle", "tree", "old",
                      "marker", "remove", "before", "removed", "vouched", "unnoted"} :
              j[f] = i[f]
<1>1. j \in Directory
  BY DEF Directory
<1> QED  BY <1>1, AbsenceAssumption DEF Directory

LEMMA UnnotedOf ==
  ASSUME NEW i \in Directory, NEW j, j = [i EXCEPT !.unnoted = TRUE]
  PROVE  /\ j # None /\ j.unnoted
         /\ \A f \in {"phase", "bundle", "tree", "old", "marker", "remove", "before", "removed", "vouched"} :
              j[f] = i[f]
<1>1. j \in Directory
  BY DEF Directory
<1> QED  BY <1>1, AbsenceAssumption DEF Directory

\* A write that breaks off leaves the directories as they are, but for a temporary.
LEMMA BreakOffKeeps ==
  ASSUME IInv, BreakOff, NEW k \in Kinds
  PROVE  /\ dir'[k] = None <=> dir[k] = None
         /\ dir[k] # None =>
              \A f \in {"phase", "bundle", "tree", "old",
                        "marker", "remove", "before", "removed", "vouched", "unnoted"} :
                dir'[k][f] = dir[k][f]
<1>1. DiskTyped
  BY TypedIs DEF IInv
<1>2. CASE UNCHANGED dir
  BY <1>2
<1>3. CASE /\ proc.pc \in InstallPhases \cup UninstallPhases
           /\ dir' = [dir EXCEPT ![Log(proc.pc)].torn = TRUE]
  <2>1. CASE k = Log(proc.pc)
    <3>1. dir[k] \in Directory /\ dir'[k] = [dir[k] EXCEPT !.torn = TRUE]
      BY <1>1, <1>3, <2>1, Has
      DEF DiskTyped, Log, InstallPhases, UninstallPhases, Having, Removing, Installing, Undoing
    <3>2. /\ dir'[k] # None
          /\ \A f \in {"phase", "bundle", "tree", "old",
                       "marker", "remove", "before", "removed", "vouched", "unnoted"} :
               dir'[k][f] = dir[k][f]
      BY <3>1, TornOf
    <3> QED  BY <3>1, <3>2, AbsenceAssumption
  <2>2. CASE k # Log(proc.pc)
    BY <1>1, <1>3, <2>2 DEF DiskTyped
  <2> QED  BY <2>1, <2>2
<1> QED  BY <1>2, <1>3 DEF BreakOff

\* A file that is torn: a temporary of a journal, a receipt, or the marker.
LEMMA BreakOffInv == ASSUME IInv, BreakOff, UNCHANGED <<app, files>> PROVE DiskInv'
<1> DEFINE i == dir.install
           u == dir.uninstall
<1>1. DiskTyped /\ UNCHANGED <<app, files>>
  BY TypedIs DEF IInv
<1>2. /\ i = None <=> dir'.install = None
      /\ u = None <=> dir'.uninstall = None
      /\ i # None =>
           \A f \in {"phase", "bundle", "tree", "old",
                     "marker", "remove", "before", "removed", "vouched", "unnoted"} :
             dir'.install[f] = i[f]
      /\ u # None =>
           \A f \in {"phase", "bundle", "tree", "old",
                     "marker", "remove", "before", "removed", "vouched", "unnoted"} :
             dir'.uninstall[f] = u[f]
  BY BreakOffKeeps DEF Kinds
<1>3. ASSUME proc.pc \in InstallPhases \cup UninstallPhases, UNCHANGED <<marker, receipt>>
      PROVE  DiskInv'
  <2>1. NoReceipts
    BY <1>3 DEF IInv, CleaningInv, Resuming, InstallPhases, UninstallPhases
  <2>2. dir'.uninstall # None => RemovalInv(dir.uninstall)'
    BY <1>1, <1>2, <1>3 DEF IInv, DiskInv, RemovalInv, UntouchedRemoval, AsAsked
  <2>3. dir'.install # None =>
          TracesInv(dir.install)' /\ (~dir.install.removed => KeptInv(dir.install))'
    BY <1>1, <1>2, <1>3 DEF IInv, DiskInv, TracesInv, KeptInv, Clean, Decided, Arranged, Exchanged
  <2> QED
    BY <1>1, <1>2, <1>3, <2>1, <2>2, <2>3 DEF IInv, DiskInv, NoReceipts, Clean
<1>4. ASSUME At("receipt"), receipt' = [receipt EXCEPT ![proc.on] = "torn"], UNCHANGED <<marker, dir>>
      PROVE  DiskInv'
  <2>1. /\ NoReceipts /\ proc.on \in Kinds
        /\ IF proc.on = "install" THEN InstallEnded(i) ELSE RemovalEnded(u)
    BY <1>4, TypedIs DEF IInv, CleaningInv, At, Resuming, ProcTyped, Process
  <2>2. /\ receipt'.install # "none" => proc.on = "install"
        /\ receipt'.uninstall # "none" => proc.on = "uninstall"
    BY <1>1, <1>4, <2>1 DEF DiskTyped, Kinds, NoReceipts
  <2>3. receipt'.install = "none" \/ receipt'.uninstall = "none"
    BY <2>2
  <2> QED
    BY <1>1, <1>4, <2>1, <2>2, <2>3
    DEF IInv, DiskInv, RemovalInv, UntouchedRemoval, AsAsked, RemovalEnded, Clean, TracesInv, Decided,
        KeptInv, Arranged, Exchanged, InstallEnded
<1>5. ASSUME At("marker"), marker' = Torn, UNCHANGED <<dir, receipt>>
      PROVE  DiskInv'
  <2>1. ~proc.recovers
    BY <1>5 DEF IInv, WorkInv, At, Installing
  <2>2. Owns(i) /\ i.phase = "TXN_PREPARED" /\ marker = None
    BY <1>5, <2>1, InstallOwns DEF At, Installing, InstallingInv
  <2>3. TracesInv(dir.install)' /\ KeptInv(dir.install)'
    BY <1>1, <1>5, <2>2, InstallAssumption, AbsenceAssumption
    DEF Owns, TracesInv, KeptInv, Clean, Decided, Arranged, Exchanged
  <2> QED  BY <1>5, <2>2, <2>3 DEF Owns, DiskInv, NoReceipts
<1> QED  BY <1>3, <1>4, <1>5 DEF BreakOff

LEMMA TearInv == ASSUME IInv, Tear PROVE InvAfter
BY BreakOffInv, Stopping, IdleKnowsNothing DEF Tear, InvAfter

\* An error: an installation that has noted nothing cleans up, any other is undone.
LEMMA FailInv == ASSUME IInv, Fail PROVE InvAfter
<1> DEFINE i == dir.install
<1>1. /\ Owns(i) /\ InstallingInv(proc.pc, i) /\ UndoingInv(proc.pc, i) /\ UNCHANGED <<app, files>>
      /\ proc.pc \in {"TXN_PREPARED", "temp", "marker", "CONFIG_PREPARED", "backup", "publish", "PREPARED",
                      "swap", "VERIFIED", "COMMITTING"}
  BY InstallOwns DEF Fail, At, Installing
<1>2. \/ UNCHANGED <<marker, dir, receipt>> \/ BreakOff
      \/ /\ At("VERIFIED") /\ dir' = [dir EXCEPT !.install.unnoted = TRUE]
         /\ UNCHANGED <<marker, receipt>>
  BY DEF Fail
<1>3. \/ At("TXN_PREPARED") /\ Cleanup("install", "idle")
      \/ At("temp") /\ Goto("undoSwap")
      \/ /\ proc.pc \in {"marker", "CONFIG_PREPARED", "backup", "publish", "PREPARED", "swap"}
         /\ Goto("undoConfig")
      \/ proc.pc \in {"VERIFIED", "COMMITTING"} /\ UndoPublished
      \/ /\ At("VERIFIED") /\ Goto("undoConfig") /\ dir' = [dir EXCEPT !.install.unnoted = TRUE]
         /\ UNCHANGED <<marker, receipt>>
  BY DEF Fail, At
<1>4. ASSUME At("VERIFIED"), dir' = [dir EXCEPT !.install.unnoted = TRUE], UNCHANGED <<marker, receipt>>
      PROVE  /\ dir'.uninstall = None /\ dir'.install # None /\ dir'.install.unnoted
             /\ \A f \in {"phase", "bundle", "tree", "old", "marker", "before", "removed", "vouched"} :
                  dir'.install[f] = i[f]
  <2>1. dir'.install = [i EXCEPT !.unnoted = TRUE] /\ dir'.uninstall = None /\ i \in Directory
    BY <1>1, <1>4 DEF Owns, DiskTyped, Kinds
  <2> QED  BY <2>1, UnnotedOf
<1>5. /\ dir'.uninstall = None /\ dir'.install # None /\ NoReceipts'
      /\ \A f \in {"phase", "bundle", "tree", "old", "marker", "before", "removed", "vouched"} :
           dir'.install[f] = i[f]
      /\ marker' = marker \/ (At("marker") /\ marker' = Torn)
  <2>1. CASE UNCHANGED <<marker, dir, receipt>>
    BY <1>1, <2>1 DEF Owns, NoReceipts
  <2>2. CASE BreakOff
    <3>1. UNCHANGED receipt /\ (marker' = marker \/ (At("marker") /\ marker' = Torn))
      BY <1>1, <2>2 DEF BreakOff, At
    <3> QED  BY <1>1, <2>2, <3>1, BreakOffKeeps DEF Owns, NoReceipts, Kinds
  <2>3. CASE At("VERIFIED") /\ dir' = [dir EXCEPT !.install.unnoted = TRUE] /\ UNCHANGED <<marker, receipt>>
    BY <1>1, <1>4, <2>3 DEF Owns, NoReceipts
  <2> QED  BY <1>2, <2>1, <2>2, <2>3
<1>6. TracesInv(dir.install)' /\ KeptInv(dir.install)'
  <2>1. At("marker") => i.phase = "TXN_PREPARED" /\ marker = None
    BY <1>1 DEF InstallingInv, At
  <2> QED
    BY <1>1, <1>5, <2>1, InstallAssumption, AbsenceAssumption
    DEF Owns, TracesInv, KeptInv, Clean, Decided, Arranged, Exchanged
<1>7. ASSUME At("TXN_PREPARED"), Cleanup("install", "idle") PROVE InvAfter
  <2>1. DiskInv'
    BY <1>5, <1>6 DEF DiskInv, NoReceipts
  <2>2. InstallEnded(dir.install)'
    BY <1>1, <1>5, <1>7
    DEF Owns, InstallingInv, At, TracesInv, KeptInv, Decided, Clean, Arranged, InstallEnded
  <2>3. proc'.pc = "receipt" /\ proc'.on = "install" /\ proc'.then = "idle"
    BY <1>1, <1>7, CleaningUp DEF Owns, Kinds
  <2> QED  BY <1>5, <2>1, <2>2, <2>3, CleaningKnows DEF InvAfter, Kinds
<1>8. ASSUME proc'.pc \in {"undoSwap", "undoConfig"}, ~proc'.recovers, proc'.kind = "install",
             UndoingInv(proc.pc, dir.install)'
      PROVE  InvAfter
  <2>1. InstallingInv(proc.pc, dir.install)'
    BY <1>8 DEF InstallingInv
  <2>2. ~dir'.install.removed /\ ~dir'.install.vouched
    BY <1>1, <1>5 DEF Owns
  <2> QED
    BY <1>5, <1>6, <1>8, <2>1, <2>2, InstallGoesAhead DEF Installing, Undoing
<1>9. ASSUME At("temp"), Goto("undoSwap") PROVE InvAfter
  <2>1. /\ proc'.pc = "undoSwap" /\ ~proc'.recovers /\ proc'.kind = "install"
        /\ proc'.then = proc.then /\ proc.then # "published"
    BY <1>1, <1>9, GoesAhead DEF Owns, Installing, Undoing, At
  <2>2. UndoingInv(proc.pc, dir.install)'
    BY <1>1, <1>5, <1>9, <2>1, InstallAssumption
    DEF Owns, InstallingInv, UndoingInv, Undoing, Undoable, At, KeptInv, Clean, Decided, Arranged
  <2> QED  BY <1>8, <2>1, <2>2
<1>10. ASSUME proc.pc \in {"marker", "CONFIG_PREPARED", "backup", "publish", "PREPARED", "swap"},
              Goto("undoConfig")
       PROVE  InvAfter
  <2>1. /\ proc'.pc = "undoConfig" /\ ~proc'.recovers /\ proc'.kind = "install"
        /\ proc'.then = proc.then /\ proc.then # "published"
    BY <1>1, <1>10, GoesAhead DEF Owns, Installing, Undoing
  <2>2. Undoable(dir.install)'
    BY <1>1, <1>5, <1>10, <2>1
    DEF Owns, InstallingInv, Undoable, KeptInv, Arranged, Exchanged
  <2>3. /\ files.trash = None
        /\ \/ files.temp # None /\ Undone(i)
           \/ files.temp = None /\ marker # None /\ files.backup = i.before
    BY <1>1, <1>10, InstallAssumption, AbsenceAssumption
    DEF Owns, InstallingInv, KeptInv, Clean, Decided, Marked, Recorded, Files, Marker, Directory, Undone
  <2>4. marker # None => marker' # None
    BY <1>5, InstallAssumption
  <2>5. UndoingInv(proc.pc, dir.install)'
    BY <1>1, <1>5, <2>1, <2>2, <2>3, <2>4 DEF UndoingInv, Undoing, Undone
  <2> QED  BY <1>8, <2>1, <2>5
<1>11. ASSUME proc.pc \in {"VERIFIED", "COMMITTING"},
              UndoPublished \/ (Goto("undoConfig") /\ At("VERIFIED") /\ dir'.install.unnoted)
       PROVE  InvAfter
  <2>1. /\ proc'.pc = "undoConfig" /\ ~proc'.recovers /\ proc'.kind = "install"
        /\ proc'.then # "published" => i.phase = "PREPARED" /\ dir'.install.unnoted
    BY <1>1, <1>11 DEF Owns, ProcTyped, Process, UndoPublished, Goto, InstallingInv, At
  <2>2. /\ Exchanged(i) /\ i.phase \in {"PREPARED", "VERIFIED"} /\ Files(proc.conf, i.before, None)
        /\ marker # None /\ marker' = marker
    BY <1>1, <1>5, <1>11, AbsenceAssumption
    DEF Owns, InstallingInv, Marked, Recorded, Marker, Directory, At
  <2>3. Undoable(dir.install)'
    BY <1>1, <1>5, <2>1, <2>2 DEF Undoable, Exchanged
  <2>4. UndoingInv(proc.pc, dir.install)'
    BY <1>1, <1>5, <2>1, <2>2, <2>3 DEF UndoingInv, Undoing, Files
  <2> QED  BY <1>8, <2>1, <2>4
<1> QED  BY <1>3, <1>4, <1>7, <1>9, <1>10, <1>11 DEF At

(***************************************************************************)
(* The table by which the configuration is recovered.                      *)
(***************************************************************************)
Seen(config, backup, temp, trash) ==
  /\ Role(files.config) = config /\ Role(files.backup) = backup
  /\ Role(files.temp) = temp /\ Role(files.trash) = trash

\* Its rows, in its order, as a condition on the files.
Advised(way, do) ==
  LET forward == way = "configForward"
      had == marker.old # None
  IN  \/ do = "RESTORE_BACKUP" /\ Seen("absent", "old", "absent", "new")
      \/ do = "DROP_TRASH" /\ Seen("old", "absent", "absent", "new")
      \/ do = "DROP_TRASH" /\ Seen("absent", "absent", "absent", "new")
      \/ do = "DROP_TEMP" /\ had /\ ~forward /\ Seen("old", "absent", "new", "absent")
      \/ do = "OLD_TO_BACKUP" /\ had /\ forward /\ Seen("old", "absent", "new", "absent")
      \/ do = "RESTORE_BACKUP" /\ had /\ ~forward /\ Seen("absent", "old", "new", "absent")
      \/ do = "PUBLISH_TEMP" /\ had /\ forward /\ Seen("absent", "old", "new", "absent")
      \/ do = "NEW_TO_TRASH" /\ had /\ ~forward /\ Seen("new", "old", "absent", "absent")
      \/ do = "DROP_BACKUP" /\ had /\ forward /\ Seen("new", "old", "absent", "absent")
      \/ do = "DROP_TEMP" /\ ~had /\ ~forward /\ Seen("absent", "absent", "new", "absent")
      \/ do = "PUBLISH_TEMP" /\ ~had /\ forward /\ Seen("absent", "absent", "new", "absent")
      \/ do = "NEW_TO_TRASH" /\ ~had /\ ~forward /\ Seen("new", "absent", "absent", "absent")
      \/ do = "converged" /\ ~had /\ forward /\ Seen("new", "absent", "absent", "absent")
      \/ do = "converged" /\ had /\ Seen("old", "absent", "absent", "absent")
      \/ do = "converged" /\ had /\ Seen("new", "absent", "absent", "absent")
      \/ do = "converged" /\ ~had /\ Seen("absent", "absent", "absent", "absent")

LEMMA RolesAre ==
  ASSUME NEW c, NEW b, NEW t, NEW x
  PROVE  Roles(c, b, t, x) = [name \in Names |-> Role(files[name])] <=> Seen(c, b, t, x)
<1>1. ASSUME Roles(c, b, t, x) = [name \in Names |-> Role(files[name])] PROVE Seen(c, b, t, x)
  <2>1. \A name \in Names : Roles(c, b, t, x)[name] = Role(files[name])
    BY <1>1
  <2> QED  BY <2>1 DEF Names, Roles, Seen
<1>2. ASSUME Seen(c, b, t, x) PROVE Roles(c, b, t, x) = [name \in Names |-> Role(files[name])]
  <2>1. Roles(c, b, t, x) = [name \in Names |-> Roles(c, b, t, x)[name]]
    BY DEF Roles, Names
  <2>2. \A name \in Names : Roles(c, b, t, x)[name] = Role(files[name])
    BY <1>2 DEF Names, Roles, Seen
  <2> QED  BY <2>1, <2>2
<1> QED  BY <1>1, <1>2

AdviceIsAdvised == \A way \in Recovering : \A do : do \in Advice(way) <=> Advised(way, do)

LEMMA AdviceIs == AdviceIsAdvised
<1> SUFFICES ASSUME NEW way \in Recovering, NEW do
             PROVE  do \in Advice(way) <=> Advised(way, do)
  BY DEF AdviceIsAdvised
<1> DEFINE Fits(has, roles, ways, what) ==
             /\ (marker.old # None) \in has
             /\ roles = [name \in Names |-> Role(files[name])]
             /\ way \in ways /\ do = what
<1>1. do \in Advice(way) <=> \E r \in Table : Fits(r.has, r.roles, r.way, r.do)
  BY DEF Advice
<1>2. (\E r \in Table : Fits(r.has, r.roles, r.way, r.do)) <=>
        LET forward == {"configForward"}
            back == {"configBack"}
        IN  \/ Fits(BOOLEAN, Roles("absent", "old", "absent", "new"), forward \cup back, "RESTORE_BACKUP")
            \/ Fits(BOOLEAN, Roles("old", "absent", "absent", "new"), forward \cup back, "DROP_TRASH")
            \/ Fits(BOOLEAN, Roles("absent", "absent", "absent", "new"), forward \cup back, "DROP_TRASH")
            \/ Fits({TRUE}, Roles("old", "absent", "new", "absent"), back, "DROP_TEMP")
            \/ Fits({TRUE}, Roles("old", "absent", "new", "absent"), forward, "OLD_TO_BACKUP")
            \/ Fits({TRUE}, Roles("absent", "old", "new", "absent"), back, "RESTORE_BACKUP")
            \/ Fits({TRUE}, Roles("absent", "old", "new", "absent"), forward, "PUBLISH_TEMP")
            \/ Fits({TRUE}, Roles("new", "old", "absent", "absent"), back, "NEW_TO_TRASH")
            \/ Fits({TRUE}, Roles("new", "old", "absent", "absent"), forward, "DROP_BACKUP")
            \/ Fits({FALSE}, Roles("absent", "absent", "new", "absent"), back, "DROP_TEMP")
            \/ Fits({FALSE}, Roles("absent", "absent", "new", "absent"), forward, "PUBLISH_TEMP")
            \/ Fits({FALSE}, Roles("new", "absent", "absent", "absent"), back, "NEW_TO_TRASH")
            \/ Fits({FALSE}, Roles("new", "absent", "absent", "absent"), forward, "converged")
            \/ Fits({TRUE}, Roles("old", "absent", "absent", "absent"), forward \cup back, "converged")
            \/ Fits({TRUE}, Roles("new", "absent", "absent", "absent"), forward \cup back, "converged")
            \/ Fits({FALSE}, Roles("absent", "absent", "absent", "absent"), forward \cup back, "converged")
  <2> HIDE DEF Fits
  <2> QED  BY DEF Table
<1>3. \A c, b, t, x : Roles(c, b, t, x) = [name \in Names |-> Role(files[name])] <=> Seen(c, b, t, x)
  BY RolesAre
<1> QED  BY <1>1, <1>2, <1>3 DEF Advised, Recovering

LEMMA RoleIs ==
  ASSUME marker \in Marker, NEW x
  PROVE  /\ Role(x) \in {"absent", "new", "old", "foreign"}
         /\ Role(x) = "absent" <=> x = None
         /\ Role(x) = "new" => x = marker.new
         /\ Role(x) = "old" => x = marker.old /\ x # None
BY DEF Role

\* What an action of the table does to the files, seen by their roles.
Advance(c, b, t, x) ==
  /\ Role(files'.config) = c /\ Role(files'.backup) = b
  /\ Role(files'.temp) = t /\ Role(files'.trash) = x

Done(do) ==
  \/ do \in DOMAIN Moves /\ Move(Moves[do][1], Moves[do][2])
  \/ do \in DOMAIN Drops /\ Drop(Drops[do])

LEMMA DoneIs ==
  ASSUME DiskTyped, marker \in Marker, NEW do, Done(do)
  PROVE  /\ do \in {"OLD_TO_BACKUP", "PUBLISH_TEMP", "NEW_TO_TRASH", "RESTORE_BACKUP", "DROP_TEMP",
                    "DROP_BACKUP", "DROP_TRASH"}
         /\ \A c, b, t, x : Seen(c, b, t, x) =>
              /\ do = "OLD_TO_BACKUP" => Advance("absent", c, t, x)
              /\ do = "PUBLISH_TEMP" => Advance(t, b, "absent", x)
              /\ do = "NEW_TO_TRASH" => Advance("absent", b, t, c)
              /\ do = "RESTORE_BACKUP" => Advance(b, "absent", t, x)
              /\ do = "DROP_TEMP" => Advance(c, b, "absent", x)
              /\ do = "DROP_BACKUP" => Advance(c, "absent", t, x)
              /\ do = "DROP_TRASH" => Advance(c, b, t, "absent")
<1>1. files = [name \in Names |-> files[name]]
  BY DEF DiskTyped
<1>2. \/ do = "OLD_TO_BACKUP" /\ Move("config", "backup")
      \/ do = "PUBLISH_TEMP" /\ Move("temp", "config")
      \/ do = "NEW_TO_TRASH" /\ Move("config", "trash")
      \/ do = "RESTORE_BACKUP" /\ Move("backup", "config")
      \/ do = "DROP_TEMP" /\ Drop("temp")
      \/ do = "DROP_BACKUP" /\ Drop("backup")
      \/ do = "DROP_TRASH" /\ Drop("trash")
  BY DEF Done, Moves, Drops
<1>3. Role(None) = "absent"
  BY DEF Role
<1> HIDE DEF Done
<1>4. \/ /\ do = "OLD_TO_BACKUP" /\ files'.config = None /\ files'.backup = files.config
         /\ files'.temp = files.temp /\ files'.trash = files.trash
      \/ /\ do = "PUBLISH_TEMP" /\ files'.config = files.temp /\ files'.backup = files.backup
         /\ files'.temp = None /\ files'.trash = files.trash
      \/ /\ do = "NEW_TO_TRASH" /\ files'.config = None /\ files'.backup = files.backup
         /\ files'.temp = files.temp /\ files'.trash = files.config
      \/ /\ do = "RESTORE_BACKUP" /\ files'.config = files.backup /\ files'.backup = None
         /\ files'.temp = files.temp /\ files'.trash = files.trash
      \/ /\ do = "DROP_TEMP" /\ files'.config = files.config /\ files'.backup = files.backup
         /\ files'.temp = None /\ files'.trash = files.trash
      \/ /\ do = "DROP_BACKUP" /\ files'.config = files.config /\ files'.backup = None
         /\ files'.temp = files.temp /\ files'.trash = files.trash
      \/ /\ do = "DROP_TRASH" /\ files'.config = files.config /\ files'.backup = files.backup
         /\ files'.temp = files.temp /\ files'.trash = None
  BY <1>1, <1>2 DEF Move, Drop, Names
<1> QED  BY <1>3, <1>4 DEF Seen, Advance

\* An action never loses the old configuration, and leads to files the table knows again.
LEMMA AdviceLeadsOn ==
  ASSUME DiskTyped, marker \in Marker, UNCHANGED marker,
         NEW way \in Recovering, NEW do \in Advice(way), Done(do)
  PROVE  /\ \/ files'.config = files.config /\ files'.backup = files.backup
            \/ files'.config = marker.old
            \/ files'.backup = marker.old
            \/ way = "configForward" /\ files'.config = marker.new
         /\ \/ marker.old # None /\ files.config = None /\ files.backup = None
            \/ Advice(way)' # {}
<1>1. Advised(way, do)
  BY AdviceIs DEF AdviceIsAdvised
<1>2. /\ Role(files.config) = "old" => files.config = marker.old
      /\ Role(files.backup) = "old" => files.backup = marker.old
      /\ Role(files.backup) = "absent" <=> files.backup = None
      /\ Role(files.config) = "absent" <=> files.config = None
      /\ Role(files.config) = "new" => files.config = marker.new
      /\ Role(files'.config) = "old" => files'.config = marker.old /\ marker.old # None
      /\ Role(files'.backup) = "old" => files'.backup = marker.old
      /\ Role(files'.backup) = "absent" <=> files'.backup = None
      /\ Role(files'.config) = "absent" <=> files'.config = None
      /\ Role(files'.config) = "new" => files'.config = marker.new
  BY RoleIs
<1>3. /\ files'.config = files.config /\ files'.backup = files.backup
      \/ do \in {"OLD_TO_BACKUP", "PUBLISH_TEMP", "NEW_TO_TRASH", "RESTORE_BACKUP", "DROP_BACKUP"}
  BY DEF Done, Moves, Drops, Move, Drop, DiskTyped, Names
<1>4. \A c, b, t, x : Advance(c, b, t, x) <=> Seen(c, b, t, x)'
  BY DEF Advance, Seen, Role
<1>5. \E next : \/ Advised(way, next)'
                \/ marker.old # None /\ files.config = None /\ files.backup = None
  <2>1. \/ \E next \in {"RESTORE_BACKUP", "DROP_TRASH", "DROP_TEMP", "OLD_TO_BACKUP", "PUBLISH_TEMP",
                      "NEW_TO_TRASH", "DROP_BACKUP", "converged"} : Advised(way, next)'
        \/ marker.old # None /\ files.config = None /\ files.backup = None
    BY <1>1, <1>2, <1>4, DoneIs DEF Advised, Advance, Seen, Recovering
  <2> QED  BY <2>1
<1>6. \A next : Advised(way, next)' => next \in Advice(way)'
  <2>1. AdviceIsAdvised'
    BY AdviceIs, PTL
  <2> QED  BY <2>1 DEF AdviceIsAdvised
<1>7. \/ files'.config = files.config /\ files'.backup = files.backup
      \/ files'.config = marker.old
      \/ files'.backup = marker.old
      \/ way = "configForward" /\ files'.config = marker.new
  BY <1>1, <1>2, <1>3, DoneIs DEF Advised, Advance, Seen, Recovering
<1> QED  BY <1>5, <1>6, <1>7

\* What a recovery of the configuration knows.
Recovers(i) ==
  /\ DiskTyped /\ ProcTyped /\ NoReceipts
  /\ proc.pc \in Recovering /\ proc.recovers /\ proc.kind = "install" /\ proc.then # "published"
  /\ dir.uninstall = None /\ i \in Directory /\ i # None
  /\ TracesInv(i) /\ (~i.removed => KeptInv(i))
  /\ Decided(i) <=> proc.pc = "configForward"
  /\ proc.pc = "configBack" => InstallGoesOn(i) = "configBack"

LEMMA RecoveryKnows ==
  ASSUME IInv, proc.pc \in Recovering
  PROVE  Recovers(dir.install)
<1>1. DiskTyped /\ ProcTyped
  BY TypedIs DEF IInv
<1>2. NoReceipts /\ proc.then # "published"
  BY DEF IInv, CleaningInv, Resuming, Recovering, Undoing
<1>3. proc.recovers /\ proc.kind = "install" /\ dir.uninstall = None /\ dir.install # None
  BY DEF IInv, LookingInv, Having
<1>4. dir.install \in Directory
  BY Has DEF Having
<1>5. TracesInv(dir.install) /\ (~dir.install.removed => KeptInv(dir.install))
  BY <1>3 DEF IInv, DiskInv
<1>6. /\ Decided(dir.install) <=> proc.pc = "configForward"
      /\ proc.pc = "configBack" => InstallGoesOn(dir.install) = "configBack"
  BY DEF IInv, WorkInv, RecoveringInv, Recovering
<1> QED  BY <1>1, <1>2, <1>3, <1>4, <1>5, <1>6 DEF Recovers

\* The old application is in place when an installation is taken back.
LEMMA BackIsArranged ==
  ASSUME NEW i \in Directory, InstallGoesOn(i) = "configBack", KeptInv(i)
  PROVE  Arranged(i)
<1>1. \/ i.phase \in {"TXN_PREPARED", "CONFIG_PREPARED"}
      \/ i.phase = "PREPARED" /\ i.old = None /\ app = None
      \/ i.phase = "PREPARED" /\ i.old # None /\ Matches(i.bundle, i.tree) /\ ~Matches(app, i.tree)
  BY DEF InstallGoesOn
<1> QED  BY <1>1, InstallAssumption DEF KeptInv, Arranged, Exchanged, Matches, Directory

\* A configuration that has converged is the new one, or the one there was before.
LEMMA ConvergedInv ==
  ASSUME IInv, proc.pc \in Recovering, Converged, marker' = None, UNCHANGED <<app, files, dir, receipt>>,
         files.backup = None, files.trash = None,
         ~dir.install.removed /\ proc.pc = "configBack" => files.config = dir.install.before
  PROVE  InvAfter
<1> DEFINE i == dir.install
<1>1. Recovers(i)
  BY RecoveryKnows
<1>2. TracesInv(dir.install)' /\ Clean'
  BY <1>1 DEF Recovers, TracesInv, Clean, Decided
<1>3. (~dir.install.removed => KeptInv(dir.install))'
  BY <1>1, <1>2, AbsenceAssumption
  DEF Recovers, Recovering, KeptInv, Clean, Decided, Arranged, Exchanged
<1>4. DiskInv' /\ NoReceipts'
  BY <1>1, <1>2, <1>3 DEF Recovers, DiskInv, NoReceipts
<1>5. ASSUME proc.pc = "configForward", Goto("complete") PROVE InvAfter
  <2>1. proc'.pc = "complete" /\ proc'.kind = "install" /\ proc'.then # "published"
    BY <1>1, <1>5, Going DEF Recovers, Places, Having, SameErrand
  <2>2. RecoveringInv(proc.pc, dir.install)'
    BY <1>1, <1>2, <1>5, <2>1 DEF RecoveringInv, Recovers, Decided
  <2> QED  BY <1>1, <1>4, <2>1, <2>2, RecoveryGoesOn DEF Recovers, Recovering
<1>6. ASSUME proc.pc = "configBack", Cleanup("install", "installs") PROVE InvAfter
  <2>1. /\ proc'.pc = "receipt" /\ proc'.on = "install" /\ proc'.then = "installs"
        /\ proc'.recovers /\ proc'.kind = "install"
    BY <1>1, <1>6, CleaningUp DEF Recovers, Kinds, SameErrand
  <2>2. ~i.removed => Arranged(i)
    BY <1>1, <1>6, BackIsArranged DEF Recovers
  <2>3. InstallEnded(dir.install)'
    BY <1>1, <1>2, <1>6, <2>2 DEF InstallEnded, Recovers, TracesInv, Arranged
  <2> QED  BY <1>1, <1>4, <2>1, <2>3, CleaningKnows DEF InvAfter, Kinds, Recovers
<1> QED  BY <1>5, <1>6 DEF Converged, At, Recovering

LEMMA RecoverConfigInv == ASSUME IInv, RecoverConfig PROVE InvAfter
<1> DEFINE i == dir.install
           way == proc.pc
<1>1. Recovers(i) /\ way \in Recovering /\ UNCHANGED <<app, dir, receipt, agree>>
  BY RecoveryKnows DEF RecoverConfig, At, Recovering
<1>2. ASSUME marker = None, MarkerlessIsFine(i), Converged, UNCHANGED <<files, marker>>
      PROVE  InvAfter
  <2>1. files.backup = None /\ files.trash = None
    BY <1>1, <1>2 DEF Recovers, TracesInv, Clean, MarkerlessIsFine, Names
  <2>2. ~i.removed /\ way = "configBack" => files.config = i.before
    BY <1>1, <1>2 DEF Recovers, KeptInv
  <2> QED  BY <1>1, <1>2, <2>1, <2>2, ConvergedInv
<1>3. ASSUME marker # None, MarkerIsFine(i), "converged" \in Advice(way), marker' = None, Converged,
             UNCHANGED files
      PROVE  InvAfter
  <2>1. marker \in Marker
    BY <1>1, <1>3 DEF Recovers, DiskTyped, MarkerIsFine
  <2>2. Advised(way, "converged")
    BY <1>1, <1>3, AdviceIs DEF AdviceIsAdvised
  <2>3. files.backup = None /\ files.trash = None
    BY <2>1, <2>2, RoleIs DEF Advised, Seen
  <2>4. way = "configBack" => files.config = marker.old \/ (marker.old # None /\ files.backup = None)
    BY <2>1, <2>2, <2>3, RoleIs DEF Advised, Seen
  <2>5. ~i.removed /\ way = "configBack" => files.config = i.before
    BY <1>1, <2>1, <2>3, <2>4 DEF Recovers, KeptInv
  <2> QED  BY <1>1, <1>3, <2>3, <2>5, ConvergedInv
<1>4. ASSUME marker # None, MarkerIsFine(i), NEW do \in Advice(way), Done(do), UNCHANGED <<marker, proc>>
      PROVE  InvAfter
  <2>1. marker \in Marker
    BY <1>1, <1>4 DEF Recovers, DiskTyped, MarkerIsFine
  <2>2. \/ files'.config = files.config /\ files'.backup = files.backup
        \/ files'.config = marker.old
        \/ files'.backup = marker.old
        \/ way = "configForward" /\ files'.config = marker.new
    BY <1>1, <1>4, <2>1, AdviceLeadsOn DEF Recovers
  <2>3. TracesInv(dir.install)'
    BY <1>1, <1>4 DEF Recovers, TracesInv, Decided, Clean
  <2>4. (~dir.install.removed => KeptInv(dir.install))'
    BY <1>1, <1>4, <2>1, <2>2
    DEF Recovers, Recovering, KeptInv, TracesInv, MarkerIsFine, Decided, Arranged, Exchanged, Clean
  <2>5. DiskInv' /\ NoReceipts'
    BY <1>1, <2>3, <2>4 DEF Recovers, DiskInv, NoReceipts
  <2>6. RecoveringInv(proc.pc, dir.install)'
    BY <1>1, <1>4
    DEF RecoveringInv, Recovers, Recovering, Decided, InstallGoesOn, Matches
  <2> QED  BY <1>1, <1>4, <2>5, <2>6, RecoveryGoesOn DEF Recovers
<1>5. ASSUME Stop, UNCHANGED <<files, marker>> PROVE InvAfter
  <2>1. DiskInv'
    BY <1>1, <1>5
    DEF IInv, DiskInv, Recovers, NoReceipts, TracesInv, KeptInv, Clean, Decided, Arranged, Exchanged
  <2> QED  BY <1>5, <2>1, Stopping, IdleKnowsNothing DEF InvAfter
<1> QED  BY <1>2, <1>3, <1>4, <1>5 DEF RecoverConfig, Done

(***************************************************************************)
(* The invariant.                                                          *)
(***************************************************************************)
LEMMA InitIInv == Init => IInv
<1> SUFFICES ASSUME Init PROVE IInv
  OBVIOUS
<1>1. /\ proc.pc = "idle" /\ proc.then = "idle" /\ proc.kind = "install" /\ proc \in Process
      /\ receipt.install = "none" /\ receipt.uninstall = "none"
      /\ dir.install = None /\ dir.uninstall = None
      /\ files.backup = None /\ files.trash = None
  BY DEF Init, Idle, Process, Places, Resuming, Kinds, Names
<1>2. Typed
  <2>1. files \in [Names -> Content \cup {None}]
    BY DEF Init, Names
  <2>2. Typed
    <3>1. DiskTyped
      BY <1>1, <2>1 DEF Init, DiskTyped, Kinds
    <3>2. ProcTyped /\ agree \in BOOLEAN /\ begun \in 0..MaxTransactions /\ faults \in 0..MaxFaults
      BY <1>1, InstallAssumption DEF Init, ProcTyped
    <3> QED  BY <3>1, <3>2, TypedIs
  <2> QED  BY <2>2
<1>3. DiskInv
  BY <1>1 DEF Init, DiskInv, Clean
<1>4. CleaningInv /\ LookingInv /\ WorkInv
  BY <1>1
  DEF CleaningInv, LookingInv, WorkInv, RemovingInv, RecoveringInv, Resuming, Cleaning, Recovering, Having,
      Installing, Undoing, Removing, UninstallPhases
<1> QED  BY <1>2, <1>3, <1>4 DEF IInv

LEMMA StaysInv == ASSUME IInv, UNCHANGED vars PROVE InvAfter
<1>1. DiskInv'
  BY DiskStays DEF IInv, vars
<1>2. CleaningInv' /\ LookingInv'
  BY DEF IInv, vars, disk, CleaningInv, LookingInv, NoReceipts, InstallEnded, RemovalEnded, Clean
<1>3. WorkInv'
  BY DEF IInv, vars, disk, WorkInv, RemovingInv, InstallingInv, UndoingInv, RecoveringInv, AsAsked, Marked,
         Recorded, Files, Undoable, Undone, Arranged, Exchanged, Clean, Decided, InstallGoesOn, Matches
<1> QED  BY <1>1, <1>2, <1>3 DEF InvAfter

LEMMA NextIInv == IInv /\ [Next]_vars => IInv'
<1> SUFFICES ASSUME IInv, [Next]_vars PROVE IInv'
  OBVIOUS
<1>1. InvAfter
  BY StaysInv, StartInv, AppendInv, WriteReceiptInv, DeleteDirInv, UnlinkReceiptInv, ResumeReceiptsInv,
     RecoverUninstallInv, RecoverInstallInv, RecoverConfigInv, MakeDirInv, StopsInv, StageInv, WriteTempInv,
     WriteMarkerInv, BackUpInv, PublishConfigInv, SwapInv, DropBackupInv, DropMarkerInv, CompleteInv,
     UndoConfigInv, UndoBackupInv, UndoMarkerInv, UndoSwapInv, BeginRemovalInv, MoveToTrashInv,
     RemoveConfigInv, TearInv, FailInv
  DEF Next, Step
<1> QED  BY <1>1, NextTyped DEF IInv, InvAfter

LEMMA SpecIInv == Spec => []IInv
BY InitIInv, NextIInv, PTL DEF Spec

\* The values of the disk, of the directories and of the counters have their types.
THEOREM TypeCorrect == Spec => []TypeOK
<1>1. IInv => TypeOK
  BY DEF IInv, Typed
<1> QED  BY <1>1, SpecIInv, PTL

\* Whenever the process dies: while the transaction is pending, the configuration there was
\* before is still there, or the new one is in place for an application that is verified; and
\* so is the application.
THEOREM NothingLost == Spec => []NothingIsLost
<1>1. IInv => NothingIsLost
  BY DEF IInv, DiskInv, KeptInv, NothingIsLost
<1> QED  BY <1>1, SpecIInv, PTL

(***************************************************************************)
(* How a transaction ends.                                                 *)
(***************************************************************************)
\* Only DeleteDir takes a directory away.
LEMMA DirectoryStays ==
  ASSUME IInv, [Next]_vars, ~DeleteDir, NEW k \in Kinds, dir[k] # None
  PROVE  dir'[k] # None
<1>1. IInv' /\ DiskTyped /\ DiskTyped'
  BY NextIInv, TypedIs, NextTyped, PTL DEF IInv
<1>2. dir[k] \in Directory
  BY <1>1 DEF DiskTyped
<1>3. CASE UNCHANGED dir
  BY <1>3
<1>4. CASE Append
  <2>1. CASE k = Log(proc.pc)
    BY <1>4, <2>1, AppendChanges
  <2>2. CASE k # Log(proc.pc)
    BY <1>4, <2>2, AppendChanges
  <2> QED  BY <2>1, <2>2
<1>5. CASE Stage \/ Swap \/ UndoSwap
  <2>1. proc'.pc \in Having
    BY <1>1, <1>5, Going DEF Stage, Swap, UndoSwap, At, Places, Having, Installing, Undoing, IInv, Typed
  <2>2. dir'.install # None
    BY <1>1, <2>1 DEF IInv, LookingInv
  <2>3. dir'.uninstall = dir.uninstall
    BY <1>1, <1>5 DEF Stage, Swap, UndoSwap, DiskTyped, Kinds
  <2> QED  BY <2>2, <2>3 DEF Kinds
<1>6. CASE Complete
  <2>1. CASE k = "install" /\ dir' = [dir EXCEPT !.install.vouched = TRUE]
    <3>1. dir'[k] = [dir[k] EXCEPT !.vouched = TRUE]
      BY <1>1, <2>1 DEF DiskTyped, Kinds
    <3>2. [dir[k] EXCEPT !.vouched = TRUE] \in Directory
      BY <1>2 DEF Directory
    <3> QED  BY <3>1, <3>2, AbsenceAssumption
  <2>2. CASE k = "uninstall" \/ UNCHANGED dir
    BY <1>1, <1>6, <2>2 DEF Complete, DiskTyped, Kinds
  <2> QED  BY <1>6, <2>1, <2>2 DEF Complete, Kinds
<1>7. CASE MakeDir \/ BeginRemoval
  BY <1>1, <1>7 DEF MakeDir, BeginRemoval, At, IInv, LookingInv, DiskTyped, Kinds
<1>8. CASE MoveToTrash \/ RemoveConfig
  <2>1. \/ dir'[k] = [dir[k] EXCEPT !.removed = TRUE]
        \/ dir'[k] = dir[k]
        \/ k = "uninstall" /\ MoveToTrash
    <3>1. MoveToTrash /\ k # "uninstall" =>
            dir'[k] = IF dir[k] # None THEN [dir[k] EXCEPT !.removed = TRUE] ELSE None
      BY DEF MoveToTrash
    <3>2. RemoveConfig =>
            UNCHANGED dir \/ dir' = [dir EXCEPT !.install = [dir.install EXCEPT !.removed = TRUE]]
      BY DEF RemoveConfig
    <3> QED  BY <1>1, <1>8, <3>1, <3>2 DEF DiskTyped, Kinds
  <2>2. MoveToTrash => dir'.uninstall # None
    <3>1. MoveToTrash => proc'.pc = "UNINSTALL_MOVED"
      BY <1>1, Going DEF MoveToTrash, At, Places, Removing, UninstallPhases, IInv, Typed
    <3> QED  BY <1>1, <3>1 DEF IInv, WorkInv, RemovingInv, Removing, UninstallPhases
  <2> QED  BY <1>2, <2>1, <2>2, RemovedOf
<1>9. CASE BreakOff
  BY <1>9, BreakOffKeeps
<1>10. CASE dir' = [dir EXCEPT !.install.unnoted = TRUE]
  <2>1. dir'[k] = [dir[k] EXCEPT !.unnoted = TRUE] \/ dir'[k] = dir[k]
    BY <1>1, <1>10 DEF DiskTyped, Kinds
  <2> QED  BY <1>2, <2>1, UnnotedOf
<1> QED
  BY <1>3, <1>4, <1>5, <1>6, <1>7, <1>8, <1>9, <1>10
  DEF vars, disk, Next, Step, StartInstall, StartUninstall, WriteReceipt, UnlinkReceipt, ResumeReceipts,
      RecoverUninstall, RecoverInstall, RecoverConfig, GiveUp, WriteTemp, WriteMarker, BackUp,
      PublishConfig, DropBackup, DropMarker, UndoConfig, UndoBackup, UndoMarker, Crash, Tear,
      Fail, AppendRefused

\* What is deleted has ended.
LEMMA DeletedHasEnded ==
  ASSUME IInv, [Next]_vars, NEW k \in Kinds, dir[k] # None, dir'[k] = None
  PROVE  receipt[k] = "whole"
<1>1. DeleteDir
  BY DirectoryStays
<1>2. DiskTyped /\ receipt[proc.on] = "whole"
  BY <1>1, TypedIs DEF IInv, DeleteDir, At, CleaningInv
<1>3. k = proc.on
  BY <1>1, <1>2 DEF DeleteDir, DiskTyped
<1> QED  BY <1>2, <1>3

\* An installation ends with the application and the configuration it was to bring or with
\* those there were before, and leaves no copy of the configuration behind; its completion is
\* vouched for only in the first case.  It ends with the new application and the old
\* configuration only if an error came between the exchange of the bundles and the setting of
\* published.
THEOREM InstallationEndsWhole == Spec => EndsWhole
<1> DEFINE A == LET i == dir.install
                IN  i # None /\ dir'.install = None /\ ~i.removed =>
                      /\ \/ NewPair(i)
                         \/ OldPair(i) /\ ~i.vouched
                         \/ MixedPair(i) /\ i.unnoted /\ ~i.vouched
                      /\ files.backup = None /\ files.trash = None
<1>1. IInv /\ [Next]_vars => A
  <2> SUFFICES ASSUME IInv, [Next]_vars, dir.install # None, dir'.install = None, ~dir.install.removed
               PROVE  A
    OBVIOUS
  <2>1. receipt.install = "whole"
    BY DeletedHasEnded DEF Kinds
  <2> QED  BY <2>1 DEF IInv, DiskInv, InstallEnded, Clean, NewPair, OldPair, MixedPair
<1>2. IInv /\ [Next]_vars => [A]_vars
  BY <1>1
<1> QED  BY <1>2, SpecIInv, PTL DEF Spec, EndsWhole

\* A removal ends with the application gone and the configuration gone exactly if that was
\* asked for, or with both untouched, even if several processes shared the work.
THEOREM RemovalEndsAsAsked == Spec => RemovalIsAsAsked
<1> DEFINE A == LET u == dir.uninstall
                IN  u # None /\ dir'.uninstall = None =>
                      IF u.phase = "UNINSTALL_CLEANED"
                      THEN app = None /\ files.config = (IF u.remove THEN None ELSE u.before)
                      ELSE app = u.tree /\ files.config = u.before
<1>1. IInv /\ [Next]_vars => A
  <2> SUFFICES ASSUME IInv, [Next]_vars, dir.uninstall # None, dir'.uninstall = None
               PROVE  A
    OBVIOUS
  <2>1. receipt.uninstall = "whole"
    BY DeletedHasEnded DEF Kinds
  <2>2. RemovalEnded(dir.uninstall) /\ RemovalInv(dir.uninstall)
    BY <2>1 DEF IInv, DiskInv
  <2> QED  BY <2>2 DEF RemovalEnded, RemovalInv, AsAsked, UntouchedRemoval
<1>2. IInv /\ [Next]_vars => [A]_vars
  BY <1>1
<1> QED  BY <1>2, SpecIInv, PTL DEF Spec, RemovalIsAsAsked

\* While the configuration is recovered, only RecoverConfig moves its files.
LEMMA OnlyRecoverConfigMoves ==
  ASSUME [Next]_vars, proc.pc \in Recovering, files' # files
  PROVE  RecoverConfig
BY DEF vars, disk, Next, Step, At, Recovering, StartInstall, StartUninstall, Append, WriteReceipt, DeleteDir,
       UnlinkReceipt, ResumeReceipts, RecoverUninstall, RecoverInstall, MakeDir, GiveUp, Stage, WriteTemp,
       WriteMarker, BackUp, PublishConfig, Swap, DropBackup, DropMarker, Complete, UndoConfig, UndoBackup,
       UndoMarker, UndoSwap, BeginRemoval, MoveToTrash, RemoveConfig, Crash, Tear, Fail, AppendRefused

\* A recovery that has begun to move the configuration's files is always understood by the one
\* that follows, wherever the first one died, unless a removal came between.
THEOREM RecoveryIsUnderstood == Spec => RecoveryStaysUnderstood
<1> DEFINE A == proc.pc \in {"configForward", "configBack"} /\ files' # files =>
                  dir.install.removed \/ ~ConfigRefused'
           i == dir.install
<1>1. IInv /\ [Next]_vars => A
  <2> SUFFICES ASSUME IInv, [Next]_vars, proc.pc \in Recovering, files' # files, ~i.removed
               PROVE  ~ConfigRefused'
    BY DEF Recovering
  <2>1. RecoverConfig /\ Recovers(i)
    BY OnlyRecoverConfigMoves, RecoveryKnows
  <2>2. PICK way \in Recovering : way = proc.pc
    OBVIOUS
  <2>3. /\ marker # None /\ MarkerIsFine(i)
        /\ \E do \in Advice(way) : Done(do)
        /\ UNCHANGED <<app, marker, stray, dir, agree>>
    BY <2>1, <2>2 DEF RecoverConfig, Done
  <2>4. marker \in Marker /\ KeptInv(i)
    BY <2>1, <2>3 DEF Recovers, DiskTyped, MarkerIsFine
  <2>5. ~(marker.old # None /\ files.config = None /\ files.backup = None)
    BY <2>1, <2>3, <2>4, InstallAssumption
    DEF Recovers, KeptInv, TracesInv, Decided, MarkerIsFine, Marker, Directory
  <2>6. Advice(way)' # {}
    BY <2>1, <2>3, <2>4, <2>5, AdviceLeadsOn DEF Recovers
  <2>7. InstallGoesOn(i) = way
    BY <2>1, <2>2 DEF Recovers, Recovering, Decided, InstallGoesOn
  <2>8. Way(dir.install)' = way
    BY <2>2, <2>3, <2>7 DEF Way, InstallGoesOn, Matches, Recovering
  <2>9. ~NotUnderstood(dir.install, Way(dir.install))'
    BY <2>3, <2>6, <2>8 DEF NotUnderstood, MarkerIsFine
  <2> QED  BY <2>9 DEF ConfigRefused
<1>2. IInv /\ [Next]_vars => [A]_vars
  BY <1>1
<1> QED  BY <1>2, SpecIInv, PTL DEF Spec, RecoveryStaysUnderstood
=============================================================================
