------------------------------ MODULE Installer ------------------------------
(***************************************************************************)
(* The staging installer, installer.py: `setup` moves what is in the way   *)
(* of the package's files to a backup directory, writes the files and      *)
(* records both in a manifest; `remove` undoes what the manifest records.  *)
(*                                                                         *)
(* One operation runs at a time, one step per change of the disk.  A step  *)
(* may fail, and then install rolls back, and the process may be stopped   *)
(* between any two steps: `except Exception` is not reached by Ctrl-C.     *)
(* _atomic_write replaces a file in one step; a temporary file that a kill *)
(* leaves beside it, directories and file modes are not modelled.          *)
(***************************************************************************)
EXTENDS Naturals

CONSTANTS
    NFiles,     \* package_files: the files, in the order they are installed
    Ours,       \* the content the package has for each of them
    Users,      \* contents that only the user can have put there
    Absent,     \* no file
    MayFail     \* whether steps may fail and the process be stopped

Files == 1 .. NFiles
Content == Users \cup {Ours, Absent}

ASSUME FilesAssumption == NFiles \in Nat \ {0}
ASSUME ContentAssumption == Ours \notin Users /\ Absent \notin Users \cup {Ours}
ASSUME MayFailAssumption == MayFail \in BOOLEAN

VARIABLES
    disk,       \* what is at each path of the package
    backup,     \* what is at that path under var/lib/wayland-vnc/backup
    manifest,   \* whether it is there, and the files it lists as backed up
    proc,       \* the running operation: position, file at hand, its backups list
    torn,       \* history: an operation was stopped, or failed with no way back
    again,      \* history: an installation began over leftover backups
    owed        \* history: the user's contents at each path, not thrown away by them

vars == <<disk, backup, manifest, proc, torn, again, owed>>

InstallPath == {"move", "write", "record"}
UndoPath == {"undo_write", "undo_move"}
RemovePath == {"remove", "restore", "forget"}
Process == [pc : InstallPath \cup UndoPath \cup RemovePath \cup {"idle", "clear"},
            at : 0 .. NFiles + 1, backups : SUBSET Files]
Idle == [pc |-> "idle", at |-> 0, backups |-> {}]
NoManifest == [there |-> FALSE, backups |-> {}]

TypeOK ==
    /\ disk \in [Files -> Content]
    /\ backup \in [Files -> Content]
    /\ manifest \in [there : BOOLEAN, backups : SUBSET Files]
    /\ proc \in Process
    /\ torn \in BOOLEAN /\ again \in BOOLEAN
    /\ owed \in [Files -> SUBSET Users]

(* A root without our state directory, with or without files in the way.   *)
Init ==
    /\ disk \in [Files -> Content]
    /\ backup = [f \in Files |-> Absent]
    /\ manifest = NoManifest
    /\ proc = Idle
    /\ torn = FALSE /\ again = FALSE
    /\ owed = [f \in Files |-> {disk[f]} \cap Users]

(* The user puts a file there, changes it or removes it. *)
Edit ==
    /\ proc = Idle
    /\ \E f \in Files, c \in Content :
        /\ disk' = [disk EXCEPT ![f] = c]
        /\ owed' = [owed EXCEPT ![f] = (@ \ {disk[f]}) \cup ({c} \cap Users)]
    /\ UNCHANGED <<backup, manifest, proc, torn, again>>

-----------------------------------------------------------------------------
(* install *)

BeginInstall ==
    /\ proc = Idle /\ ~manifest.there
    /\ proc' = [pc |-> "move", at |-> 1, backups |-> {}]
    /\ again' = (again \/ \E f \in Files : backup[f] # Absent)
    /\ UNCHANGED <<disk, backup, manifest, torn, owed>>

(* What is in the way is moved aside, over whatever the backup held.       *)
MoveAside ==
    /\ proc.pc = "move"
    /\ IF disk[proc.at] # Absent
       THEN /\ backup' = [backup EXCEPT ![proc.at] = disk[proc.at]]
            /\ disk' = [disk EXCEPT ![proc.at] = Absent]
            /\ proc' = [proc EXCEPT !.pc = "write", !.backups = @ \cup {proc.at}]
       ELSE /\ proc' = [proc EXCEPT !.pc = "write"]
            /\ UNCHANGED <<disk, backup>>
    /\ UNCHANGED <<manifest, torn, again, owed>>

WriteFile ==
    /\ proc.pc = "write"
    /\ disk' = [disk EXCEPT ![proc.at] = Ours]
    /\ proc' = [proc EXCEPT !.pc = IF proc.at = NFiles THEN "record" ELSE "move",
                            !.at = @ + 1]
    /\ UNCHANGED <<backup, manifest, torn, again, owed>>

WriteManifest ==
    /\ proc.pc = "record"
    /\ manifest' = [there |-> TRUE, backups |-> proc.backups]
    /\ proc' = Idle
    /\ UNCHANGED <<disk, backup, torn, again, owed>>

(* An exception anywhere in between: the files before proc.at are written. *)
ForgetRollback ==       \* mutant: the exception is raised and that is all
    /\ MayFail /\ proc.pc \in InstallPath
    /\ proc' = Idle
    /\ UNCHANGED <<disk, backup, manifest, torn, again, owed>>
UncountedRollback ==    \* mutant: the file that failed before is not rolled back
    /\ MayFail /\ proc.pc \in InstallPath
    /\ proc' = [proc EXCEPT !.pc = "undo_write", !.at = @ - 2]
    /\ UNCHANGED <<disk, backup, manifest, torn, again, owed>>
InstallFails ==
    /\ MayFail /\ proc.pc \in InstallPath
    /\ proc' = [proc EXCEPT !.pc = "undo_write", !.at = @ - 1]
    /\ UNCHANGED <<disk, backup, manifest, torn, again, owed>>

(* _rollback_partial: both lists, each from its end. *)
UndoWrite ==
    /\ proc.pc = "undo_write"
    /\ IF proc.at = 0
       THEN proc' = [proc EXCEPT !.pc = "undo_move"] /\ UNCHANGED disk
       ELSE /\ disk' = [disk EXCEPT ![proc.at] = Absent]
            /\ proc' = [proc EXCEPT !.at = @ - 1]
    /\ UNCHANGED <<backup, manifest, torn, again, owed>>

(* f is moved back from the backup, unless there is nothing to move.       *)
MoveBack(f) ==
    IF backup[f] = Absent
    THEN UNCHANGED <<disk, backup>>
    ELSE /\ disk' = [disk EXCEPT ![f] = backup[f]]
         /\ backup' = [backup EXCEPT ![f] = Absent]

UndoMove ==
    /\ proc.pc = "undo_move"
    /\ \/ \E f \in proc.backups :
            /\ \A g \in proc.backups : g <= f
            /\ MoveBack(f)
            /\ proc' = [proc EXCEPT !.backups = @ \ {f}]
       \/ /\ proc.backups = {}
          /\ proc' = Idle
          /\ UNCHANGED <<disk, backup>>
    /\ UNCHANGED <<manifest, torn, again, owed>>

-----------------------------------------------------------------------------
(* uninstall *)

(* It refuses a file that is not the one installed, then a backup that is  *)
(* not there, before it touches anything.                                  *)
Unchecked == manifest.there      \* mutant: no digest, no look for the backups
Removable ==
    /\ manifest.there
    /\ \A f \in Files : disk[f] = Ours
    /\ \A f \in manifest.backups : backup[f] # Absent

BeginUninstall ==
    /\ proc = Idle /\ Removable
    /\ proc' = [pc |-> "remove", at |-> 1, backups |-> manifest.backups]
    /\ UNCHANGED <<disk, backup, manifest, torn, again, owed>>

Remove ==
    /\ proc.pc = "remove"
    /\ disk' = [disk EXCEPT ![proc.at] = Absent]
    /\ proc' = [proc EXCEPT !.pc = IF proc.at = NFiles THEN "restore" ELSE "remove",
                            !.at = @ + 1]
    /\ UNCHANGED <<backup, manifest, torn, again, owed>>

Restore ==
    /\ proc.pc = "restore"
    /\ \/ \E f \in proc.backups :
            /\ \A g \in proc.backups : f <= g
            /\ MoveBack(f)
            /\ proc' = [proc EXCEPT !.backups = @ \ {f}]
       \/ /\ proc.backups = {}
          /\ proc' = [proc EXCEPT !.pc = "forget"]
          /\ UNCHANGED <<disk, backup>>
    /\ UNCHANGED <<manifest, torn, again, owed>>

Forget ==
    /\ proc.pc = "forget"
    /\ manifest' = NoManifest
    /\ proc' = [proc EXCEPT !.pc = "clear"]
    /\ UNCHANGED <<disk, backup, torn, again, owed>>

(* The backup directory goes; errors are ignored, so some of it may stay.  *)
Clear ==
    /\ proc.pc = "clear"
    /\ \E S \in SUBSET Files :
        backup' = [f \in Files |-> IF f \in S THEN Absent ELSE backup[f]]
    /\ proc' = Idle
    /\ UNCHANGED <<disk, manifest, torn, again, owed>>

(* A step of a removal or of a rollback fails and nothing follows it; or   *)
(* the process is stopped, wherever it is.                                 *)
Stopped ==
    /\ MayFail /\ proc # Idle
    /\ proc' = Idle
    /\ torn' = TRUE
    /\ UNCHANGED <<disk, backup, manifest, again, owed>>

-----------------------------------------------------------------------------
Next ==
    \/ Edit
    \/ BeginInstall \/ MoveAside \/ WriteFile \/ WriteManifest
    \/ InstallFails \/ UndoWrite \/ UndoMove
    \/ BeginUninstall \/ Remove \/ Restore \/ Forget \/ Clear
    \/ Stopped

Spec == Init /\ [][Next]_vars

-----------------------------------------------------------------------------
(* Properties. *)

(* Nothing the user put at one of these paths, and did not throw away, is  *)
(* ever gone: it is at its path or in the backup, also after a failure or  *)
(* a kill at any step -- until an installation begins over the backups     *)
(* that a stopped one left behind.                                         *)
Kept == \A f \in Files : owed[f] \subseteq {disk[f], backup[f]}
NothingLost == ~again => Kept

(* The installer implements the atomic one.  An installation takes effect  *)
(* when its manifest is there, a removal when its checks have passed; what *)
(* an operation has done half is seen as its rollback or its end leaves it.*)
Moved(f) == f \in proc.backups
Written(f) ==
    \/ proc.pc \in InstallPath /\ f < proc.at
    \/ proc.pc = "undo_write" /\ f <= proc.at
AbsAt(f) ==
    IF proc.pc \in InstallPath \cup UndoPath \cup RemovePath /\ Moved(f)
    THEN backup[f]
    ELSE IF Written(f) \/ (proc.pc = "remove" /\ f >= proc.at)
    THEN Absent
    ELSE disk[f]
AbsTree == [f \in Files |-> AbsAt(f)]
AbsInstalled == manifest.there /\ proc.pc \notin RemovePath
AbsSaved ==
    [f \in Files |->
        IF AbsInstalled /\ f \in manifest.backups THEN backup[f] ELSE Absent]

Atomic == INSTANCE AtomicInstaller WITH
    tree <- AbsTree, installed <- AbsInstalled, saved <- AbsSaved
Transactional == Atomic!Spec

(* "Transactional staging installer with explicit backup and rollback      *)
(* records": nothing of the user's is lost.  Checked, and refuted.         *)
UserFileKept == Kept
=============================================================================
