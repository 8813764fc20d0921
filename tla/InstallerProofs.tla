--------------------------- MODULE InstallerProofs ---------------------------
(***************************************************************************)
(* Installer, for any number of files and any contents: type correctness,  *)
(* that nothing of the user's is lost, and that it implements              *)
(* AtomicInstaller.                                                        *)
(***************************************************************************)
EXTENDS Installer, TLAPS

(* Where an operation stands, position by position: which files it has     *)
(* written or removed, and that its list names backups that are there.     *)
Counted ==
    /\ proc.pc = "idle" => proc = Idle
    /\ proc.pc \in {"move", "write", "remove"} => proc.at \in 1 .. NFiles
    /\ proc.pc = "record" => proc.at = NFiles + 1
    /\ proc.pc = "undo_write" => proc.at \in 0 .. NFiles
Listed ==
    /\ \A f \in proc.backups : backup[f] # Absent
    /\ proc.pc = "move" => \A f \in proc.backups : f < proc.at
    /\ proc.pc = "write" => \A f \in proc.backups : f <= proc.at
    /\ proc.pc \in {"forget", "clear"} => proc.backups = {}
    /\ proc.pc \in InstallPath \cup UndoPath \cup {"clear"} => ~manifest.there
OnDisk ==
    /\ proc.pc \in InstallPath => \A f \in Files : f < proc.at => disk[f] = Ours
    /\ proc.pc = "write" => disk[proc.at] = Absent
    /\ proc.pc = "undo_write" => \A f \in Files :
            /\ f <= proc.at => disk[f] = Ours
            /\ f > proc.at /\ f \in proc.backups => disk[f] = Absent
    /\ proc.pc = "remove" => \A f \in Files :
            disk[f] = IF f < proc.at THEN Absent ELSE Ours
    /\ proc.pc \in {"undo_move", "restore"} =>
            \A f \in proc.backups : disk[f] = Absent
Shape == Counted /\ Listed /\ OnDisk
ShapeInv == TypeOK /\ Shape

(* Every backup there is, is on the list of whoever will put it back.      *)
Fresh ==
    /\ manifest.there => \A f \in Files : backup[f] # Absent => f \in manifest.backups
    /\ proc.pc # "idle" => \A f \in Files : backup[f] # Absent => f \in proc.backups
Held == ~again => Kept /\ Fresh
KeepInv == ShapeInv /\ Held

-----------------------------------------------------------------------------
LEMMA FilesAreCounted == NFiles \in Nat /\ 1 \in Files /\ Files \subseteq Nat
  BY FilesAssumption, SMT DEF Files

LEMMA Distinct == Ours # Absent /\ Ours \notin Users /\ Absent \notin Users
  BY ContentAssumption

(* The updates of proc, field by field. *)
LEMMA UpdatedAt ==
    ASSUME NEW p \in Process, NEW l, NEW n
    PROVE  [p EXCEPT !.pc = l, !.at = n] = [pc |-> l, at |-> n, backups |-> p.backups]
  <1>1. [p EXCEPT !.pc = l] = [pc |-> l, at |-> p.at, backups |-> p.backups]
    BY DEF Process
  <1>2. [p EXCEPT !.pc = l, !.at = n] = [[p EXCEPT !.pc = l] EXCEPT !.at = n]
    OBVIOUS
  <1>3. [[pc |-> l, at |-> p.at, backups |-> p.backups] EXCEPT !.at = n]
              = [pc |-> l, at |-> n, backups |-> p.backups]
    OBVIOUS
  <1> QED
    BY <1>1, <1>2, <1>3

LEMMA UpdatedBackups ==
    ASSUME NEW p \in Process, NEW l, NEW B
    PROVE  /\ [p EXCEPT !.pc = l, !.backups = B] = [pc |-> l, at |-> p.at, backups |-> B]
           /\ [p EXCEPT !.backups = B] = [pc |-> p.pc, at |-> p.at, backups |-> B]
  <1>1. [p EXCEPT !.pc = l] = [pc |-> l, at |-> p.at, backups |-> p.backups]
    BY DEF Process
  <1>2. [p EXCEPT !.backups = B] = [pc |-> p.pc, at |-> p.at, backups |-> B]
    BY DEF Process
  <1>3. [p EXCEPT !.pc = l, !.backups = B] = [[p EXCEPT !.pc = l] EXCEPT !.backups = B]
    OBVIOUS
  <1>4. [[pc |-> l, at |-> p.at, backups |-> p.backups] EXCEPT !.backups = B]
              = [pc |-> l, at |-> p.at, backups |-> B]
    OBVIOUS
  <1> QED
    BY <1>1, <1>2, <1>3, <1>4

LEMMA ShapeHoldsInitially == Init => ShapeInv
  <1> SUFFICES ASSUME Init PROVE ShapeInv
    OBVIOUS
  <1>1. TypeOK
    <2>1. disk \in [Files -> Content] /\ backup \in [Files -> Content]
      BY DEF Init, Content
    <2>2. proc \in Process /\ manifest \in [there : BOOLEAN, backups : SUBSET Files]
      BY FilesAreCounted, SMT DEF Init, Process, Idle, NoManifest
    <2>3. owed \in [Files -> SUBSET Users]
      BY DEF Init
    <2> QED
      BY <2>1, <2>2, <2>3 DEF Init, TypeOK
  <1>2. Shape
    BY DEF Init, Idle, NoManifest, Shape, Counted, Listed, OnDisk, InstallPath, UndoPath
  <1> QED
    BY <1>1, <1>2 DEF ShapeInv

(* Every step keeps the types and the positions right. *)
LEMMA ShapeIsKept == ASSUME ShapeInv, [Next]_vars PROVE ShapeInv'
  <1> USE FilesAreCounted, Distinct DEF ShapeInv, Shape
  <1>1. CASE Edit
    <2>1. TypeOK'
      BY <1>1, SMT DEF Edit, TypeOK, Process, Idle, NoManifest, Content, Files,
         InstallPath, UndoPath, RemovePath, Counted
    <2>2. Counted'
      BY <1>1, SMT DEF Edit, TypeOK, Process, Idle, Files, Counted,
         InstallPath, UndoPath, RemovePath
    <2>3. Listed'
      BY <1>1, SMT DEF Edit, TypeOK, Process, Idle, NoManifest, Files, Content,
         Counted, Listed, InstallPath, UndoPath, RemovePath
    <2>4. OnDisk'
      BY <1>1, SMT DEF Edit, TypeOK, Process, Idle, Files, Content, Counted, Listed,
         OnDisk, InstallPath, UndoPath, RemovePath
    <2> QED
      BY <2>1, <2>2, <2>3, <2>4
  <1>2. CASE BeginInstall
    <2>1. TypeOK'
      BY <1>2, SMT DEF BeginInstall, TypeOK, Process, Idle, NoManifest, Content, Files,
         InstallPath, UndoPath, RemovePath, Counted
    <2>2. Counted'
      BY <1>2, SMT DEF BeginInstall, TypeOK, Process, Idle, Files, Counted,
         InstallPath, UndoPath, RemovePath
    <2>3. Listed'
      BY <1>2, SMT DEF BeginInstall, TypeOK, Process, Idle, NoManifest, Files, Content,
         Counted, Listed, InstallPath, UndoPath, RemovePath
    <2>4. OnDisk'
      BY <1>2, SMT DEF BeginInstall, TypeOK, Process, Idle, Files, Content, Counted, Listed,
         OnDisk, InstallPath, UndoPath, RemovePath
    <2> QED
      BY <2>1, <2>2, <2>3, <2>4
  <1>3. CASE MoveAside
    <2> DEFINE i == proc.at
    <2>1. /\ proc.pc = "move" /\ i \in Files /\ i <= NFiles + 1 /\ i \in Nat
          /\ proc.backups \subseteq Files
      BY <1>3, SMT DEF MoveAside, TypeOK, Process, Counted, Files
    <2>2. CASE disk[i] # Absent
      <3>1. /\ proc' = [pc |-> "write", at |-> i, backups |-> proc.backups \cup {i}]
            /\ backup' = [backup EXCEPT ![i] = disk[i]]
            /\ disk' = [disk EXCEPT ![i] = Absent]
            /\ UNCHANGED <<manifest, torn, again, owed>>
        <4>1. /\ proc' = [proc EXCEPT !.pc = "write", !.backups = @ \cup {i}]
              /\ backup' = [backup EXCEPT ![i] = disk[i]]
              /\ disk' = [disk EXCEPT ![i] = Absent]
              /\ UNCHANGED <<manifest, torn, again, owed>>
          BY <1>3, <2>2 DEF MoveAside
        <4> QED
          BY <2>1, <4>1, UpdatedBackups DEF TypeOK
      <3>2. TypeOK'
        <4>1. proc' \in Process
          BY <2>1, <3>1, SMT DEF Process, InstallPath
        <4>2. disk' \in [Files -> Content] /\ backup' \in [Files -> Content]
          BY <2>1, <3>1 DEF TypeOK, Content
        <4> QED
          BY <3>1, <4>1, <4>2 DEF TypeOK
      <3>3. Counted'
        BY <2>1, <3>1, SMT DEF Counted, Files
      <3>4. Listed'
        <4>1. \A f \in proc.backups : f \in Nat /\ f < i /\ backup[f] # Absent
          BY <2>1 DEF Listed
        <4>2. \A f \in proc'.backups : f <= i /\ backup'[f] # Absent
          BY <2>1, <2>2, <3>1, <4>1, SMT DEF TypeOK
        <4>3. ~manifest'.there
          BY <2>1, <3>1 DEF Listed, InstallPath
        <4> QED
          BY <3>1, <4>2, <4>3 DEF Listed
      <3>5. OnDisk'
        BY <2>1, <3>1, SMT DEF OnDisk, TypeOK, InstallPath, Files
      <3> QED
        BY <3>2, <3>3, <3>4, <3>5
    <2>3. CASE disk[i] = Absent
      <3>1. /\ proc' = [pc |-> "write", at |-> i, backups |-> proc.backups]
            /\ UNCHANGED <<disk, backup, manifest, torn, again, owed>>
        BY <1>3, <2>1, <2>3, SMT DEF MoveAside, TypeOK, Process
      <3>2. TypeOK'
        BY <2>1, <3>1, SMT DEF TypeOK, Process, InstallPath
      <3>3. Counted'
        BY <2>1, <3>1, SMT DEF Counted, Files
      <3>4. Listed'
        <4>1. \A f \in proc.backups : f \in Nat /\ f < i /\ backup[f] # Absent
          BY <2>1 DEF Listed
        <4>2. \A f \in proc'.backups : f <= i /\ backup'[f] # Absent
          BY <2>1, <3>1, <4>1, SMT
        <4>3. ~manifest'.there
          BY <2>1, <3>1 DEF Listed, InstallPath
        <4> QED
          BY <3>1, <4>2, <4>3 DEF Listed
      <3>5. OnDisk'
        BY <2>1, <2>3, <3>1, SMT DEF OnDisk, TypeOK, InstallPath, Files
      <3> QED
        BY <3>2, <3>3, <3>4, <3>5
    <2> QED
      BY <2>2, <2>3
  <1>4. CASE WriteFile
    <2>1. TypeOK'
      <3>1. proc.at \in Nat /\ proc.at <= NFiles + 1 /\ proc.backups \subseteq Files
        BY SMT DEF TypeOK, Process
      <3>2. proc' \in Process
        <4> DEFINE l == IF proc.at = NFiles THEN "record" ELSE "move"
        <4>0. proc' = [proc EXCEPT !.pc = l, !.at = proc.at + 1]
          BY <1>4 DEF WriteFile
        <4>1. proc' = [pc |-> l, at |-> proc.at + 1, backups |-> proc.backups]
          <5> HIDE DEF l
          <5> QED
            BY <4>0, UpdatedAt DEF TypeOK
        <4>2. proc.at <= NFiles
          BY <1>4, SMT DEF WriteFile, Counted
        <4> QED
          BY <3>1, <4>1, <4>2, SMT DEF Process, InstallPath
      <3>3. disk' \in [Files -> Content]
        BY <1>4 DEF WriteFile, TypeOK, Content
      <3> QED
        BY <1>4, <3>2, <3>3 DEF WriteFile, TypeOK
    <2>2. Counted'
      BY <1>4, SMT DEF WriteFile, TypeOK, Process, Idle, Files, Counted,
         InstallPath, UndoPath, RemovePath
    <2>3. Listed'
      BY <1>4, SMT DEF WriteFile, TypeOK, Process, Idle, NoManifest, Files, Content,
         Counted, Listed, InstallPath, UndoPath, RemovePath
    <2>4. OnDisk'
      BY <1>4, SMT DEF WriteFile, TypeOK, Process, Idle, Files, Content, Counted, Listed,
         OnDisk, InstallPath, UndoPath, RemovePath
    <2> QED
      BY <2>1, <2>2, <2>3, <2>4
  <1>5. CASE WriteManifest
    <2>1. TypeOK'
      BY <1>5, SMT DEF WriteManifest, TypeOK, Process, Idle, NoManifest, Content, Files,
         InstallPath, UndoPath, RemovePath, Counted
    <2>2. Counted'
      BY <1>5, SMT DEF WriteManifest, TypeOK, Process, Idle, Files, Counted,
         InstallPath, UndoPath, RemovePath
    <2>3. Listed'
      BY <1>5, SMT DEF WriteManifest, TypeOK, Process, Idle, NoManifest, Files, Content,
         Counted, Listed, InstallPath, UndoPath, RemovePath
    <2>4. OnDisk'
      BY <1>5, SMT DEF WriteManifest, TypeOK, Process, Idle, Files, Content, Counted, Listed,
         OnDisk, InstallPath, UndoPath, RemovePath
    <2> QED
      BY <2>1, <2>2, <2>3, <2>4
  <1>6. CASE InstallFails
    <2>1. TypeOK'
      <3>1. proc.at \in Nat /\ proc.at <= NFiles + 1 /\ proc.backups \subseteq Files
        BY SMT DEF TypeOK, Process
      <3>2. proc' \in Process
        <4>1. proc' = [pc |-> "undo_write", at |-> proc.at - 1, backups |-> proc.backups]
          <5>1. proc' = [proc EXCEPT !.pc = "undo_write", !.at = proc.at - 1]
            BY <1>6 DEF InstallFails
          <5> QED
            BY <5>1, UpdatedAt DEF TypeOK
        <4>2. proc.at >= 1
          <5>1. CASE proc.pc = "move"
            BY <5>1, SMT DEF Counted
          <5>2. CASE proc.pc = "write"
            BY <5>2, SMT DEF Counted
          <5>3. CASE proc.pc = "record"
            BY <5>3, SMT DEF Counted
          <5> QED
            BY <1>6, <5>1, <5>2, <5>3 DEF InstallFails, InstallPath
        <4> QED
          BY <3>1, <4>1, <4>2, SMT DEF Process, UndoPath
      <3>3. disk' \in [Files -> Content]
        BY <1>6 DEF InstallFails, TypeOK, Content
      <3> QED
        BY <1>6, <3>2, <3>3 DEF InstallFails, TypeOK
    <2>2. Counted'
      BY <1>6, SMT DEF InstallFails, TypeOK, Process, Idle, Files, Counted,
         InstallPath, UndoPath, RemovePath
    <2>3. Listed'
      BY <1>6, SMT DEF InstallFails, TypeOK, Process, Idle, NoManifest, Files, Content,
         Counted, Listed, InstallPath, UndoPath, RemovePath
    <2>4. OnDisk'
      BY <1>6, SMT DEF InstallFails, TypeOK, Process, Idle, Files, Content, Counted, Listed,
         OnDisk, InstallPath, UndoPath, RemovePath
    <2> QED
      BY <2>1, <2>2, <2>3, <2>4
  <1>7. CASE UndoWrite
    <2>1. /\ proc.pc = "undo_write" /\ proc.at \in Nat /\ proc.at <= NFiles
          /\ proc.backups \subseteq Files
      BY <1>7, SMT DEF UndoWrite, TypeOK, Process, Counted
    <2>2. CASE proc.at = 0
      <3>1. /\ proc' = [pc |-> "undo_move", at |-> 0, backups |-> proc.backups]
            /\ UNCHANGED <<disk, backup, manifest, torn, again, owed>>
        BY <1>7, <2>2, SMT DEF UndoWrite, TypeOK, Process
      <3>2. TypeOK'
        BY <2>1, <3>1, SMT DEF TypeOK, Process, UndoPath
      <3>3. Counted' /\ Listed'
        BY <2>1, <3>1, SMT DEF Counted, Listed, UndoPath, InstallPath
      <3>4. OnDisk'
        BY <2>1, <2>2, <3>1, SMT DEF OnDisk, InstallPath, Files
      <3> QED
        BY <3>2, <3>3, <3>4
    <2>3. CASE proc.at # 0
      <3>1. /\ proc' = [pc |-> "undo_write", at |-> proc.at - 1, backups |-> proc.backups]
            /\ disk' = [disk EXCEPT ![proc.at] = Absent]
            /\ UNCHANGED <<backup, manifest, torn, again, owed>>
        BY <1>7, <2>1, <2>3, SMT DEF UndoWrite, TypeOK, Process
      <3>2. TypeOK'
        <4>1. proc' \in Process
          BY <2>1, <2>3, <3>1, SMT DEF Process, UndoPath
        <4>2. disk' \in [Files -> Content]
          BY <3>1 DEF TypeOK, Content
        <4> QED
          BY <3>1, <4>1, <4>2 DEF TypeOK
      <3>3. Counted' /\ Listed'
        BY <2>1, <2>3, <3>1, SMT DEF Counted, Listed, UndoPath, InstallPath
      <3>4. OnDisk'
        BY <2>1, <2>3, <3>1, SMT DEF OnDisk, TypeOK, InstallPath, Files
      <3> QED
        BY <3>2, <3>3, <3>4
    <2> QED
      BY <2>2, <2>3
  <1>8. CASE UndoMove
    <2>1. /\ proc.pc = "undo_move" /\ proc.at \in Nat /\ proc.at <= NFiles + 1
          /\ proc.backups \subseteq Files
      BY <1>8, SMT DEF UndoMove, TypeOK, Process
    <2>2. ASSUME NEW f \in proc.backups, MoveBack(f),
                 proc' = [proc EXCEPT !.backups = @ \ {f}]
          PROVE  ShapeInv'
      <3>1. /\ proc' = [pc |-> "undo_move", at |-> proc.at, backups |-> proc.backups \ {f}]
            /\ disk' = [disk EXCEPT ![f] = backup[f]]
            /\ backup' = [backup EXCEPT ![f] = Absent]
            /\ UNCHANGED <<manifest, torn, again, owed>>
        <4>1. backup[f] # Absent
          BY <2>2 DEF Listed
        <4>2. /\ disk' = [disk EXCEPT ![f] = backup[f]]
              /\ backup' = [backup EXCEPT ![f] = Absent]
              /\ UNCHANGED <<manifest, torn, again, owed>>
          BY <1>8, <2>2, <4>1 DEF UndoMove, MoveBack
        <4> QED
          BY <2>1, <2>2, <4>2, UpdatedBackups DEF TypeOK
      <3>2. TypeOK'
        <4>1. proc' \in Process
          BY <2>1, <3>1, SMT DEF Process, UndoPath, RemovePath
        <4>2. disk' \in [Files -> Content] /\ backup' \in [Files -> Content]
          BY <2>1, <3>1 DEF TypeOK, Content
        <4> QED
          BY <3>1, <4>1, <4>2 DEF TypeOK
      <3>3. Counted' /\ Listed'
        BY <2>1, <3>1, SMT DEF TypeOK, Counted, Listed, UndoPath, InstallPath
      <3>4. OnDisk'
        BY <2>1, <3>1, SMT DEF OnDisk, TypeOK, InstallPath
      <3> QED
        BY <3>2, <3>3, <3>4
    <2>3. ASSUME proc.backups = {}, proc' = Idle, UNCHANGED <<disk, backup>>
          PROVE  ShapeInv'
      <3>1. TypeOK'
        BY <1>8, <2>1, <2>3, SMT DEF UndoMove, TypeOK, Process, Idle, RemovePath
      <3>2. Counted' /\ Listed' /\ OnDisk'
        BY <1>8, <2>1, <2>3, SMT DEF UndoMove, TypeOK, Process, Idle, Counted, Listed, OnDisk,
           InstallPath, UndoPath
      <3> QED
        BY <3>1, <3>2
    <2> QED
      BY <1>8, <2>2, <2>3 DEF UndoMove
  <1>9. CASE BeginUninstall
    <2>1. TypeOK'
      BY <1>9, SMT DEF BeginUninstall, Removable, TypeOK, Process, Idle, NoManifest, Content, Files,
         InstallPath, UndoPath, RemovePath, Counted
    <2>2. Counted'
      BY <1>9, SMT DEF BeginUninstall, Removable, TypeOK, Process, Idle, Files, Counted,
         InstallPath, UndoPath, RemovePath
    <2>3. Listed'
      BY <1>9, SMT DEF BeginUninstall, Removable, TypeOK, Process, Idle, NoManifest, Files, Content,
         Counted, Listed, InstallPath, UndoPath, RemovePath
    <2>4. OnDisk'
      BY <1>9, SMT DEF BeginUninstall, Removable, TypeOK, Process, Idle, Files, Content, Counted, Listed,
         OnDisk, InstallPath, UndoPath, RemovePath
    <2> QED
      BY <2>1, <2>2, <2>3, <2>4
  <1>10. CASE Remove
    <2>1. TypeOK'
      <3>1. proc.at \in Nat /\ proc.at <= NFiles + 1 /\ proc.backups \subseteq Files
        BY SMT DEF TypeOK, Process
      <3>2. proc' \in Process
        <4> DEFINE l == IF proc.at = NFiles THEN "restore" ELSE "remove"
        <4>0. proc' = [proc EXCEPT !.pc = l, !.at = proc.at + 1]
          BY <1>10 DEF Remove
        <4>1. proc' = [pc |-> l, at |-> proc.at + 1, backups |-> proc.backups]
          <5> HIDE DEF l
          <5> QED
            BY <4>0, UpdatedAt DEF TypeOK
        <4>2. proc.at <= NFiles
          BY <1>10, SMT DEF Remove, Counted
        <4> QED
          BY <3>1, <4>1, <4>2, SMT DEF Process, RemovePath
      <3>3. disk' \in [Files -> Content]
        BY <1>10 DEF Remove, TypeOK, Content
      <3> QED
        BY <1>10, <3>2, <3>3 DEF Remove, TypeOK
    <2>2. Counted'
      BY <1>10, SMT DEF Remove, TypeOK, Process, Idle, Files, Counted,
         InstallPath, UndoPath, RemovePath
    <2>3. Listed'
      BY <1>10, SMT DEF Remove, TypeOK, Process, Idle, NoManifest, Files, Content,
         Counted, Listed, InstallPath, UndoPath, RemovePath
    <2>4. OnDisk'
      BY <1>10, SMT DEF Remove, TypeOK, Process, Idle, Files, Content, Counted, Listed,
         OnDisk, InstallPath, UndoPath, RemovePath
    <2> QED
      BY <2>1, <2>2, <2>3, <2>4
  <1>11. CASE Restore
    <2>1. /\ proc.pc = "restore" /\ proc.at \in Nat /\ proc.at <= NFiles + 1
          /\ proc.backups \subseteq Files
      BY <1>11, SMT DEF Restore, TypeOK, Process
    <2>2. ASSUME NEW f \in proc.backups, MoveBack(f),
                 proc' = [proc EXCEPT !.backups = @ \ {f}]
          PROVE  ShapeInv'
      <3>1. /\ proc' = [pc |-> "restore", at |-> proc.at, backups |-> proc.backups \ {f}]
            /\ disk' = [disk EXCEPT ![f] = backup[f]]
            /\ backup' = [backup EXCEPT ![f] = Absent]
            /\ UNCHANGED <<manifest, torn, again, owed>>
        <4>1. backup[f] # Absent
          BY <2>2 DEF Listed
        <4>2. /\ disk' = [disk EXCEPT ![f] = backup[f]]
              /\ backup' = [backup EXCEPT ![f] = Absent]
              /\ UNCHANGED <<manifest, torn, again, owed>>
          BY <1>11, <2>2, <4>1 DEF Restore, MoveBack
        <4> QED
          BY <2>1, <2>2, <4>2, UpdatedBackups DEF TypeOK
      <3>2. TypeOK'
        <4>1. proc' \in Process
          BY <2>1, <3>1, SMT DEF Process, UndoPath, RemovePath
        <4>2. disk' \in [Files -> Content] /\ backup' \in [Files -> Content]
          BY <2>1, <3>1 DEF TypeOK, Content
        <4> QED
          BY <3>1, <4>1, <4>2 DEF TypeOK
      <3>3. Counted' /\ Listed'
        BY <2>1, <3>1, SMT DEF TypeOK, Counted, Listed, UndoPath, InstallPath
      <3>4. OnDisk'
        BY <2>1, <3>1, SMT DEF OnDisk, TypeOK, InstallPath
      <3> QED
        BY <3>2, <3>3, <3>4
    <2>3. ASSUME proc.backups = {}, proc' = [proc EXCEPT !.pc = "forget"], UNCHANGED <<disk, backup>>
          PROVE  ShapeInv'
      <3>1. TypeOK'
        BY <1>11, <2>1, <2>3, SMT DEF Restore, TypeOK, Process, Idle, RemovePath
      <3>2. Counted' /\ Listed' /\ OnDisk'
        BY <1>11, <2>1, <2>3, SMT DEF Restore, TypeOK, Process, Idle, Counted, Listed, OnDisk,
           InstallPath, UndoPath
      <3> QED
        BY <3>1, <3>2
    <2> QED
      BY <1>11, <2>2, <2>3 DEF Restore
  <1>12. CASE Forget
    <2>1. TypeOK'
      BY <1>12, SMT DEF Forget, TypeOK, Process, Idle, NoManifest, Content, Files,
         InstallPath, UndoPath, RemovePath, Counted
    <2>2. Counted'
      BY <1>12, SMT DEF Forget, TypeOK, Process, Idle, Files, Counted,
         InstallPath, UndoPath, RemovePath
    <2>3. Listed'
      BY <1>12, SMT DEF Forget, TypeOK, Process, Idle, NoManifest, Files, Content,
         Counted, Listed, InstallPath, UndoPath, RemovePath
    <2>4. OnDisk'
      BY <1>12, SMT DEF Forget, TypeOK, Process, Idle, Files, Content, Counted, Listed,
         OnDisk, InstallPath, UndoPath, RemovePath
    <2> QED
      BY <2>1, <2>2, <2>3, <2>4
  <1>13. CASE Clear
    <2>1. TypeOK'
      BY <1>13, SMT DEF Clear, TypeOK, Process, Idle, NoManifest, Content, Files,
         InstallPath, UndoPath, RemovePath, Counted
    <2>2. Counted'
      BY <1>13, SMT DEF Clear, TypeOK, Process, Idle, Files, Counted,
         InstallPath, UndoPath, RemovePath
    <2>3. Listed'
      BY <1>13, SMT DEF Clear, TypeOK, Process, Idle, NoManifest, Files, Content,
         Counted, Listed, InstallPath, UndoPath, RemovePath
    <2>4. OnDisk'
      BY <1>13, SMT DEF Clear, TypeOK, Process, Idle, Files, Content, Counted, Listed,
         OnDisk, InstallPath, UndoPath, RemovePath
    <2> QED
      BY <2>1, <2>2, <2>3, <2>4
  <1>14. CASE Stopped
    <2>1. TypeOK'
      BY <1>14, SMT DEF Stopped, TypeOK, Process, Idle, NoManifest, Content, Files,
         InstallPath, UndoPath, RemovePath, Counted
    <2>2. Counted'
      BY <1>14, SMT DEF Stopped, TypeOK, Process, Idle, Files, Counted,
         InstallPath, UndoPath, RemovePath
    <2>3. Listed'
      BY <1>14, SMT DEF Stopped, TypeOK, Process, Idle, NoManifest, Files, Content,
         Counted, Listed, InstallPath, UndoPath, RemovePath
    <2>4. OnDisk'
      BY <1>14, SMT DEF Stopped, TypeOK, Process, Idle, Files, Content, Counted, Listed,
         OnDisk, InstallPath, UndoPath, RemovePath
    <2> QED
      BY <2>1, <2>2, <2>3, <2>4
  <1>15. CASE UNCHANGED vars
    BY <1>15 DEF vars, TypeOK, Counted, Listed, OnDisk
  <1> QED
    BY <1>1, <1>2, <1>3, <1>4, <1>5, <1>6, <1>7, <1>8, <1>9, <1>10, <1>11, <1>12, <1>13, <1>14, <1>15 DEF Next

(* Every reachable state is well typed: for any number of files and any    *)
(* contents, no operation loses its place in the list of files.            *)
THEOREM TypeCorrect == Spec => []TypeOK
  <1>1. Init => ShapeInv
    BY ShapeHoldsInitially
  <1>2. ShapeInv /\ [Next]_vars => ShapeInv'
    BY ShapeIsKept
  <1>3. ShapeInv => TypeOK
    BY DEF ShapeInv
  <1> QED
    BY <1>1, <1>2, <1>3, PTL DEF Spec

-----------------------------------------------------------------------------
LEMMA KeepHoldsInitially == Init => KeepInv
  <1> SUFFICES ASSUME Init PROVE Held
    BY ShapeHoldsInitially DEF KeepInv
  <1>1. Kept
    BY DEF Init, Kept
  <1>2. Fresh
    BY DEF Init, Fresh, NoManifest, Idle
  <1> QED
    BY <1>1, <1>2 DEF Held

(* Every step keeps the user's contents at their path or in the backup, as *)
(* long as no installation began over leftover backups.                    *)
LEMMA KeepIsKept == ASSUME KeepInv, [Next]_vars PROVE KeepInv'
  <1>a. ShapeInv'
    BY ShapeIsKept DEF KeepInv
  <1> SUFFICES ASSUME ~again' PROVE Kept' /\ Fresh'
    BY <1>a DEF KeepInv, Held
  <1> USE FilesAreCounted, Distinct DEF KeepInv, ShapeInv, Shape
  <1>b. ~again => Kept /\ Fresh
    BY DEF Held
  <1>c. \A f \in Files : owed[f] \subseteq Users /\ f \in Nat
    BY DEF TypeOK
  <1>1. CASE Edit
    <2>0. ~again /\ Kept /\ Fresh
      BY <1>1, <1>b DEF Edit
    <2>1. Kept'
      <3>1. PICK f \in Files, c \in Content :
                /\ disk' = [disk EXCEPT ![f] = c]
                /\ owed' = [owed EXCEPT ![f] = (@ \ {disk[f]}) \cup ({c} \cap Users)]
        BY <1>1 DEF Edit
      <3>2. UNCHANGED backup
        BY <1>1 DEF Edit
      <3> SUFFICES ASSUME NEW g \in Files PROVE owed'[g] \subseteq {disk'[g], backup'[g]}
        BY DEF Kept
      <3>3. CASE g = f
        <4>1. owed'[f] = (owed[f] \ {disk[f]}) \cup ({c} \cap Users) /\ disk'[f] = c
          BY <3>1 DEF TypeOK
        <4> QED
          BY <2>0, <3>2, <3>3, <4>1 DEF Kept
      <3>4. CASE g # f
        <4>1. owed'[g] = owed[g] /\ disk'[g] = disk[g]
          BY <3>1, <3>4 DEF TypeOK
        <4> QED
          BY <2>0, <3>2, <4>1 DEF Kept
      <3> QED
        BY <3>3, <3>4
    <2>2. Fresh'
      BY <1>1, <2>0, SMT DEF Edit, TypeOK, Process, Idle, NoManifest, Counted, Listed,
         Fresh
    <2> QED
      BY <2>1, <2>2
  <1>2. CASE BeginInstall
    <2>0. ~again /\ Kept /\ Fresh
      BY <1>2, <1>b DEF BeginInstall
    <2>1. Kept'
      BY <1>2, <1>c, <2>0, SMT DEF BeginInstall, TypeOK, Process, Idle, Counted, Listed, OnDisk,
         Kept, Fresh
    <2>2. Fresh'
      <3>1. (\A f \in Files : backup[f] = Absent) /\ UNCHANGED <<backup, manifest>>
        BY <1>2 DEF BeginInstall
      <3> QED
        BY <3>1 DEF Fresh
    <2> QED
      BY <2>1, <2>2
  <1>3. CASE MoveAside
    <2>0. ~again /\ Kept /\ Fresh
      BY <1>3, <1>b DEF MoveAside
    <2>1. Kept'
      BY <1>3, <1>c, <2>0, SMT DEF MoveAside, TypeOK, Process, Idle, Counted, Listed, OnDisk,
         Kept, Fresh
    <2>2. Fresh'
      <3>1. proc.pc = "move" /\ ~manifest.there /\ UNCHANGED manifest
        BY <1>3 DEF MoveAside, Listed, InstallPath
      <3>2. CASE disk[proc.at] # Absent
        <4>1. /\ proc' = [proc EXCEPT !.pc = "write", !.backups = @ \cup {proc.at}]
              /\ backup' = [backup EXCEPT ![proc.at] = disk[proc.at]]
          BY <1>3, <3>2 DEF MoveAside
        <4>2. proc'.backups = proc.backups \cup {proc.at}
          BY <4>1 DEF TypeOK, Process
        <4> QED
          BY <2>0, <3>1, <4>1, <4>2 DEF Fresh, TypeOK
      <3>3. CASE disk[proc.at] = Absent
        <4>1. proc'.backups = proc.backups /\ UNCHANGED backup
          BY <1>3, <3>3 DEF MoveAside, TypeOK, Process
        <4> QED
          BY <2>0, <3>1, <4>1 DEF Fresh
      <3> QED
        BY <3>2, <3>3
    <2> QED
      BY <2>1, <2>2
  <1>4. CASE WriteFile
    <2>0. ~again /\ Kept /\ Fresh
      BY <1>4, <1>b DEF WriteFile
    <2>1. Kept'
      BY <1>4, <1>c, <2>0, SMT DEF WriteFile, TypeOK, Process, Idle, Counted, Listed, OnDisk,
         Kept, Fresh
    <2>2. Fresh'
      BY <1>4, <2>0, SMT DEF WriteFile, TypeOK, Process, Idle, NoManifest, Counted, Listed,
         Fresh
    <2> QED
      BY <2>1, <2>2
  <1>5. CASE WriteManifest
    <2>0. ~again /\ Kept /\ Fresh
      BY <1>5, <1>b DEF WriteManifest
    <2>1. Kept'
      BY <1>5, <1>c, <2>0, SMT DEF WriteManifest, TypeOK, Process, Idle, Counted, Listed, OnDisk,
         Kept, Fresh
    <2>2. Fresh'
      BY <1>5, <2>0, SMT DEF WriteManifest, TypeOK, Process, Idle, NoManifest, Counted, Listed,
         Fresh
    <2> QED
      BY <2>1, <2>2
  <1>6. CASE InstallFails
    <2>0. ~again /\ Kept /\ Fresh
      BY <1>6, <1>b DEF InstallFails
    <2>1. Kept'
      BY <1>6, <1>c, <2>0, SMT DEF InstallFails, TypeOK, Process, Idle, Counted, Listed, OnDisk,
         Kept, Fresh
    <2>2. Fresh'
      <3>1. proc.pc # "idle" /\ proc'.backups = proc.backups /\ UNCHANGED <<backup, manifest>>
        BY <1>6 DEF InstallFails, InstallPath, TypeOK, Process
      <3> QED
        BY <2>0, <3>1 DEF Fresh
    <2> QED
      BY <2>1, <2>2
  <1>7. CASE UndoWrite
    <2>0. ~again /\ Kept /\ Fresh
      BY <1>7, <1>b DEF UndoWrite
    <2>1. Kept'
      BY <1>7, <1>c, <2>0, SMT DEF UndoWrite, TypeOK, Process, Idle, Counted, Listed, OnDisk,
         Kept, Fresh
    <2>2. Fresh'
      BY <1>7, <2>0, SMT DEF UndoWrite, TypeOK, Process, Idle, NoManifest, Counted, Listed,
         Fresh
    <2> QED
      BY <2>1, <2>2
  <1>8. CASE UndoMove
    <2>0. ~again /\ Kept /\ Fresh
      BY <1>8, <1>b DEF UndoMove
    <2>1. Kept'
      BY <1>8, <1>c, <2>0, SMT DEF UndoMove, MoveBack, TypeOK, Process, Idle, Counted, Listed, OnDisk,
         Kept, Fresh
    <2>2. Fresh'
      BY <1>8, <2>0, SMT DEF UndoMove, MoveBack, TypeOK, Process, Idle, NoManifest, Counted, Listed,
         Fresh
    <2> QED
      BY <2>1, <2>2
  <1>9. CASE BeginUninstall
    <2>0. ~again /\ Kept /\ Fresh
      BY <1>9, <1>b DEF BeginUninstall
    <2>1. Kept'
      BY <1>9, <1>c, <2>0, SMT DEF BeginUninstall, Removable, TypeOK, Process, Idle, Counted, Listed, OnDisk,
         Kept, Fresh
    <2>2. Fresh'
      <3>1. manifest.there /\ proc'.backups = manifest.backups
        BY <1>9 DEF BeginUninstall, Removable
      <3>2. UNCHANGED <<backup, manifest>>
        BY <1>9 DEF BeginUninstall
      <3> QED
        BY <2>0, <3>1, <3>2 DEF Fresh
    <2> QED
      BY <2>1, <2>2
  <1>10. CASE Remove
    <2>0. ~again /\ Kept /\ Fresh
      BY <1>10, <1>b DEF Remove
    <2>1. Kept'
      BY <1>10, <1>c, <2>0, SMT DEF Remove, TypeOK, Process, Idle, Counted, Listed, OnDisk,
         Kept, Fresh
    <2>2. Fresh'
      BY <1>10, <2>0, SMT DEF Remove, TypeOK, Process, Idle, NoManifest, Counted, Listed,
         Fresh
    <2> QED
      BY <2>1, <2>2
  <1>11. CASE Restore
    <2>0. ~again /\ Kept /\ Fresh
      BY <1>11, <1>b DEF Restore
    <2>1. Kept'
      BY <1>11, <1>c, <2>0, SMT DEF Restore, MoveBack, TypeOK, Process, Idle, Counted, Listed, OnDisk,
         Kept, Fresh
    <2>2. Fresh'
      BY <1>11, <2>0, SMT DEF Restore, MoveBack, TypeOK, Process, Idle, NoManifest, Counted, Listed,
         Fresh
    <2> QED
      BY <2>1, <2>2
  <1>12. CASE Forget
    <2>0. ~again /\ Kept /\ Fresh
      BY <1>12, <1>b DEF Forget
    <2>1. Kept'
      BY <1>12, <1>c, <2>0, SMT DEF Forget, TypeOK, Process, Idle, Counted, Listed, OnDisk,
         Kept, Fresh
    <2>2. Fresh'
      BY <1>12, <2>0, SMT DEF Forget, TypeOK, Process, Idle, NoManifest, Counted, Listed,
         Fresh
    <2> QED
      BY <2>1, <2>2
  <1>13. CASE Clear
    <2>0. ~again /\ Kept /\ Fresh
      BY <1>13, <1>b DEF Clear
    <2>1. Kept'
      BY <1>13, <1>c, <2>0, SMT DEF Clear, TypeOK, Process, Idle, Counted, Listed, OnDisk,
         Kept, Fresh
    <2>2. Fresh'
      BY <1>13, <2>0, SMT DEF Clear, TypeOK, Process, Idle, NoManifest, Counted, Listed,
         Fresh
    <2> QED
      BY <2>1, <2>2
  <1>14. CASE Stopped
    <2>0. ~again /\ Kept /\ Fresh
      BY <1>14, <1>b DEF Stopped
    <2>1. Kept'
      BY <1>14, <1>c, <2>0, SMT DEF Stopped, TypeOK, Process, Idle, Counted, Listed, OnDisk,
         Kept, Fresh
    <2>2. Fresh'
      BY <1>14, <2>0, SMT DEF Stopped, TypeOK, Process, Idle, NoManifest, Counted, Listed,
         Fresh
    <2> QED
      BY <2>1, <2>2
  <1>15. CASE UNCHANGED vars
    BY <1>15, <1>b DEF vars, Kept, Fresh
  <1> QED
    BY <1>1, <1>2, <1>3, <1>4, <1>5, <1>6, <1>7, <1>8, <1>9, <1>10, <1>11, <1>12, <1>13, <1>14, <1>15 DEF Next

(* For any number of files: what the user has at the package's paths is    *)
(* there or in the backup after any sequence of operations, failures and   *)
(* kills, up to an installation over the backups of a stopped one.         *)
THEOREM NothingIsLost == Spec => []NothingLost
  <1>1. Init => KeepInv
    BY KeepHoldsInitially
  <1>2. KeepInv /\ [Next]_vars => KeepInv'
    BY KeepIsKept
  <1>3. KeepInv => NothingLost
    BY DEF KeepInv, Held, NothingLost
  <1> QED
    BY <1>1, <1>2, <1>3, PTL DEF Spec

-----------------------------------------------------------------------------
(* Most steps change nothing that AtomicInstaller sees.                    *)
LEMMA Unseen ==
    ASSUME ~AbsInstalled, ~AbsInstalled', torn' = torn,
           \A f \in Files : AbsAt(f)' = AbsAt(f)
    PROVE  UNCHANGED Atomic!vars
  <1>1. AbsTree' = AbsTree
    BY DEF AbsTree
  <1>2. AbsSaved' = AbsSaved
    BY DEF AbsSaved
  <1>3. AbsInstalled' = AbsInstalled
    BY DEF AbsInstalled
  <1> QED
    BY <1>1, <1>2, <1>3 DEF Atomic!vars

LEMMA StepRefines == ASSUME ShapeInv, [Next]_vars PROVE [Atomic!Next]_(Atomic!vars)
  <1> USE FilesAreCounted, Distinct DEF ShapeInv, Shape
  <1>a. CASE torn /\ torn'
    BY <1>a DEF Atomic!Next, Atomic!Tear
  <1>b. CASE Stopped
    BY <1>b DEF Stopped, Atomic!Next, Atomic!Tear
  <1> SUFFICES ASSUME ~torn, ~Stopped, torn' = torn PROVE [Atomic!Next]_(Atomic!vars)
    BY <1>a, <1>b DEF Next, Edit, BeginInstall, MoveAside, WriteFile, WriteManifest,
       InstallFails, UndoWrite, UndoMove, BeginUninstall, Remove, Restore, Forget, Clear,
       vars, TypeOK
  <1>1. CASE Edit
    <2>1. proc = Idle /\ proc' = Idle /\ UNCHANGED <<backup, manifest>>
      BY <1>1 DEF Edit
    <2>2. AbsTree = disk /\ AbsTree' = disk'
      <3>1. disk = [f \in Files |-> disk[f]] /\ disk' = [f \in Files |-> disk'[f]]
        BY <1>1 DEF Edit, TypeOK
      <3>2. \A f \in Files : AbsAt(f) = disk[f] /\ AbsAt(f)' = disk'[f]
        BY <2>1 DEF AbsAt, Moved, Written, Idle, InstallPath, UndoPath, RemovePath
      <3> QED
        BY <3>1, <3>2 DEF AbsTree
    <2>3. UNCHANGED <<AbsInstalled, AbsSaved>>
      BY <2>1 DEF AbsInstalled, AbsSaved
    <2>4. Atomic!Edit
      BY <1>1, <2>2, <2>3 DEF Edit, Atomic!Edit, Content, Atomic!Content
    <2> QED
      BY <2>4 DEF Atomic!Next
  <1>2. CASE WriteManifest
    <2>1. /\ proc.pc = "record" /\ ~manifest.there /\ proc.at = NFiles + 1
          /\ \A f \in Files : disk[f] = Ours
      BY <1>2, SMT DEF WriteManifest, Counted, Listed, OnDisk, InstallPath, Files
    <2>2. /\ proc' = Idle /\ UNCHANGED <<disk, backup>>
          /\ manifest' = [there |-> TRUE, backups |-> proc.backups]
      BY <1>2 DEF WriteManifest
    <2>3. ~AbsInstalled /\ AbsInstalled'
      BY <2>1, <2>2 DEF AbsInstalled, Idle, RemovePath
    <2>4. AbsTree' = Atomic!Package
      BY <2>1, <2>2 DEF AbsTree, AbsAt, Moved, Written, Idle, InstallPath, UndoPath,
         RemovePath, Atomic!Package
    <2>5. AbsSaved' = AbsTree
      <3>1. \A f \in Files : AbsAt(f) = IF f \in proc.backups THEN backup[f] ELSE Absent
        BY <2>1, SMT DEF AbsAt, Moved, Written, InstallPath, Files
      <3> QED
        BY <2>2, <2>3, <3>1 DEF AbsSaved, AbsTree
    <2>6. Atomic!Install
      BY <2>3, <2>4, <2>5 DEF Atomic!Install
    <2> QED
      BY <2>6 DEF Atomic!Next
  <1>3. CASE BeginUninstall
    <2>1. /\ proc = Idle /\ manifest.there /\ \A f \in Files : disk[f] = Ours
          /\ proc' = [pc |-> "remove", at |-> 1, backups |-> manifest.backups]
          /\ UNCHANGED <<disk, backup, manifest>>
      BY <1>3 DEF BeginUninstall, Removable
    <2>2. AbsInstalled /\ ~AbsInstalled'
      BY <2>1 DEF AbsInstalled, Idle, RemovePath
    <2>3. AbsTree = Atomic!Package
      BY <2>1 DEF AbsTree, AbsAt, Moved, Written, Idle, InstallPath, UndoPath,
         RemovePath, Atomic!Package
    <2>4. AbsTree' = AbsSaved
      <3>1. \A f \in Files : AbsAt(f)' = IF f \in manifest.backups THEN backup[f] ELSE Absent
        BY <2>1, SMT DEF AbsAt, Moved, Written, RemovePath, Files
      <3> QED
        BY <2>2, <3>1 DEF AbsSaved, AbsTree
    <2>5. AbsSaved' = Atomic!Nothing
      BY <2>2 DEF AbsSaved, Atomic!Nothing
    <2>6. Atomic!Uninstall
      BY <2>2, <2>3, <2>4, <2>5 DEF Atomic!Uninstall
    <2> QED
      BY <2>6 DEF Atomic!Next
  <1>4. CASE BeginInstall
    <2>1. ~AbsInstalled /\ ~AbsInstalled'
      BY <1>4, SMT DEF BeginInstall, AbsInstalled, Listed, TypeOK, Process, Idle, NoManifest, InstallPath, UndoPath, RemovePath
    <2>2. \A f \in Files : AbsAt(f)' = AbsAt(f)
      BY <1>4, SMT DEF BeginInstall, AbsAt, Moved, Written, Counted, Listed, OnDisk, TypeOK,
         Process, Idle, Files, InstallPath, UndoPath, RemovePath
    <2> QED
      BY <2>1, <2>2, Unseen
  <1>5. CASE MoveAside
    <2>1. ~AbsInstalled /\ ~AbsInstalled'
      BY <1>5, SMT DEF MoveAside, AbsInstalled, Listed, TypeOK, Process, Idle, NoManifest, InstallPath, UndoPath, RemovePath
    <2>2. \A f \in Files : AbsAt(f)' = AbsAt(f)
      <3> DEFINE i == proc.at
      <3>1. /\ proc.pc = "move" /\ proc'.pc = "write" /\ proc'.at = i /\ i \in Files
            /\ i \notin proc.backups
        <4>1. proc.pc = "move" /\ i \in Files
          BY <1>5 DEF MoveAside, Counted, Files
        <4>2. i \notin proc.backups
          <5>1. \A f \in proc.backups : f < i
            BY <4>1 DEF Listed
          <5>2. i \in Nat /\ ~(i < i)
            BY <4>1, SMT DEF Files
          <5> QED
            BY <5>1, <5>2
        <4>3. proc'.pc = "write" /\ proc'.at = i
          BY <1>5 DEF MoveAside, TypeOK, Process
        <4> QED
          BY <4>1, <4>2, <4>3
      <3>2. CASE disk[i] # Absent
        <4>1. /\ proc' = [proc EXCEPT !.pc = "write", !.backups = @ \cup {i}]
              /\ backup' = [backup EXCEPT ![i] = disk[i]]
              /\ disk' = [disk EXCEPT ![i] = Absent]
          BY <1>5, <3>2 DEF MoveAside
        <4>2. proc'.backups = proc.backups \cup {i}
          BY <4>1 DEF TypeOK, Process
        <4> QED
          BY <3>1, <4>1, <4>2, SMT DEF AbsAt, Moved, Written, TypeOK, InstallPath, Files
      <3>3. CASE disk[i] = Absent
        <4>1. proc'.backups = proc.backups /\ UNCHANGED <<disk, backup>>
          BY <1>5, <3>3 DEF MoveAside, TypeOK, Process
        <4> QED
          BY <3>1, <4>1, SMT DEF AbsAt, Moved, Written, InstallPath, Files
      <3> QED
        BY <3>2, <3>3
    <2> QED
      BY <2>1, <2>2, Unseen
  <1>6. CASE WriteFile
    <2>1. ~AbsInstalled /\ ~AbsInstalled'
      BY <1>6, SMT DEF WriteFile, AbsInstalled, Listed, TypeOK, Process, Idle, NoManifest, InstallPath, UndoPath, RemovePath
    <2>2. \A f \in Files : AbsAt(f)' = AbsAt(f)
      BY <1>6, SMT DEF WriteFile, AbsAt, Moved, Written, Counted, Listed, OnDisk, TypeOK,
         Process, Idle, Files, InstallPath, UndoPath, RemovePath
    <2> QED
      BY <2>1, <2>2, Unseen
  <1>7. CASE InstallFails
    <2>1. ~AbsInstalled /\ ~AbsInstalled'
      BY <1>7, SMT DEF InstallFails, AbsInstalled, Listed, TypeOK, Process, Idle, NoManifest, InstallPath, UndoPath, RemovePath
    <2>2. \A f \in Files : AbsAt(f)' = AbsAt(f)
      BY <1>7, SMT DEF InstallFails, AbsAt, Moved, Written, Counted, Listed, OnDisk, TypeOK,
         Process, Idle, Files, InstallPath, UndoPath, RemovePath
    <2> QED
      BY <2>1, <2>2, Unseen
  <1>8. CASE UndoWrite
    <2>1. ~AbsInstalled /\ ~AbsInstalled'
      BY <1>8, SMT DEF UndoWrite, AbsInstalled, Listed, TypeOK, Process, Idle, NoManifest, InstallPath, UndoPath, RemovePath
    <2>2. \A f \in Files : AbsAt(f)' = AbsAt(f)
      <3>1. /\ proc.pc = "undo_write" /\ proc.at \in Nat
            /\ UNCHANGED backup /\ proc'.backups = proc.backups
        BY <1>8, SMT DEF UndoWrite, TypeOK, Process
      <3>2. CASE proc.at = 0
        <4>1. proc'.pc = "undo_move" /\ UNCHANGED disk
          BY <1>8, <3>2 DEF UndoWrite, TypeOK, Process
        <4> QED
          BY <3>1, <3>2, <4>1, SMT DEF AbsAt, Moved, Written, InstallPath, UndoPath, Files
      <3>3. CASE proc.at # 0
        <4>1. /\ proc'.pc = "undo_write" /\ proc'.at = proc.at - 1
              /\ disk' = [disk EXCEPT ![proc.at] = Absent]
          BY <1>8, <3>3, SMT DEF UndoWrite, TypeOK, Process
        <4> QED
          BY <3>1, <3>3, <4>1, SMT DEF AbsAt, Moved, Written, TypeOK, InstallPath, UndoPath, Files
      <3> QED
        BY <3>2, <3>3
    <2> QED
      BY <2>1, <2>2, Unseen
  <1>9. CASE UndoMove
    <2>1. ~AbsInstalled /\ ~AbsInstalled'
      BY <1>9, SMT DEF UndoMove, AbsInstalled, Listed, TypeOK, Process, Idle, NoManifest, InstallPath, UndoPath, RemovePath
    <2>2. \A f \in Files : AbsAt(f)' = AbsAt(f)
      BY <1>9, SMT DEF UndoMove, MoveBack, AbsAt, Moved, Written, Counted, Listed, OnDisk, TypeOK,
         Process, Idle, Files, InstallPath, UndoPath, RemovePath
    <2> QED
      BY <2>1, <2>2, Unseen
  <1>10. CASE Remove
    <2>1. ~AbsInstalled /\ ~AbsInstalled'
      BY <1>10, SMT DEF Remove, AbsInstalled, Listed, TypeOK, Process, Idle, NoManifest, InstallPath, UndoPath, RemovePath
    <2>2. \A f \in Files : AbsAt(f)' = AbsAt(f)
      BY <1>10, SMT DEF Remove, AbsAt, Moved, Written, Counted, Listed, OnDisk, TypeOK,
         Process, Idle, Files, InstallPath, UndoPath, RemovePath
    <2> QED
      BY <2>1, <2>2, Unseen
  <1>11. CASE Restore
    <2>1. ~AbsInstalled /\ ~AbsInstalled'
      BY <1>11, SMT DEF Restore, AbsInstalled, Listed, TypeOK, Process, Idle, NoManifest, InstallPath, UndoPath, RemovePath
    <2>2. \A f \in Files : AbsAt(f)' = AbsAt(f)
      BY <1>11, SMT DEF Restore, MoveBack, AbsAt, Moved, Written, Counted, Listed, OnDisk, TypeOK,
         Process, Idle, Files, InstallPath, UndoPath, RemovePath
    <2> QED
      BY <2>1, <2>2, Unseen
  <1>12. CASE Forget
    <2>1. ~AbsInstalled /\ ~AbsInstalled'
      BY <1>12, SMT DEF Forget, AbsInstalled, Listed, TypeOK, Process, Idle, NoManifest, InstallPath, UndoPath, RemovePath
    <2>2. \A f \in Files : AbsAt(f)' = AbsAt(f)
      BY <1>12, SMT DEF Forget, AbsAt, Moved, Written, Counted, Listed, OnDisk, TypeOK,
         Process, Idle, Files, InstallPath, UndoPath, RemovePath
    <2> QED
      BY <2>1, <2>2, Unseen
  <1>13. CASE Clear
    <2>1. ~AbsInstalled /\ ~AbsInstalled'
      BY <1>13, SMT DEF Clear, AbsInstalled, Listed, TypeOK, Process, Idle, NoManifest, InstallPath, UndoPath, RemovePath
    <2>2. \A f \in Files : AbsAt(f)' = AbsAt(f)
      BY <1>13, SMT DEF Clear, AbsAt, Moved, Written, Counted, Listed, OnDisk, TypeOK,
         Process, Idle, Files, InstallPath, UndoPath, RemovePath
    <2> QED
      BY <2>1, <2>2, Unseen
  <1>14. CASE UNCHANGED vars
    BY <1>14 DEF vars, AbsTree, AbsAt, Moved, Written, AbsInstalled, AbsSaved, Atomic!vars
  <1> QED
    BY <1>1, <1>2, <1>3, <1>4, <1>5, <1>6, <1>7, <1>8, <1>9, <1>10, <1>11, <1>12, <1>13, <1>14 DEF Next

(* For any number of files: every installation, removal and rollback that  *)
(* is not stopped happens as a whole or not at all.                        *)
THEOREM ImplementsAtomic == Spec => Transactional
  <1>1. Init => Atomic!Init
    <2> SUFFICES ASSUME Init PROVE Atomic!Init
      OBVIOUS
    <2>1. AbsTree = disk
      <3>1. \A f \in Files : AbsAt(f) = disk[f]
        BY DEF Init, Idle, AbsAt, Moved, Written, InstallPath, UndoPath, RemovePath
      <3>2. disk = [f \in Files |-> disk[f]]
        BY DEF Init
      <3> QED
        BY <3>1, <3>2 DEF AbsTree
    <2>2. ~AbsInstalled
      BY DEF Init, NoManifest, AbsInstalled
    <2>3. AbsSaved = Atomic!Nothing
      BY <2>2 DEF AbsSaved, Atomic!Nothing
    <2> QED
      BY <2>1, <2>2, <2>3 DEF Init, Atomic!Init, Atomic!Tree, Atomic!Content, Content
  <1>2. ShapeInv /\ [Next]_vars => [Atomic!Next]_(Atomic!vars)
    BY StepRefines
  <1>3. Init => ShapeInv
    BY ShapeHoldsInitially
  <1>4. ShapeInv /\ [Next]_vars => ShapeInv'
    BY ShapeIsKept
  <1> QED
    BY <1>1, <1>2, <1>3, <1>4, PTL DEF Spec, Transactional, Atomic!Spec
=============================================================================
