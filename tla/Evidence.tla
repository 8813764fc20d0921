------------------------------- MODULE Evidence --------------------------------
(***************************************************************************)
(* Where a qualification record goes: the runner writes it next to its     *)
(* artifacts, an attended session is merged into it in place               *)
(* (manual_input.py), the records of one evidence root are published to    *)
(* the store (evidence_store.py), and the gate judges the store            *)
(* (qualification.py, check-release.py).  These are separate programs that *)
(* share files, none of them locks, and any of them may be killed between  *)
(* two writes.  A file is its content, and so is its hash.                 *)
(***************************************************************************)
EXTENDS Naturals, FiniteSets

CONSTANTS
  Pairs, Runs, PairOf(_),   \* target/viewer pairs, qualification runs and what they are of
  Roots, RootOf(_),         \* evidence roots (machines) and where a run's files lie
  Attended,                 \* bound: the runs a person's session is merged into
  Merges, Publications, Kills  \* bounds on what happens in one behaviour

ASSUME EvidenceAssumption ==
  /\ \A r \in Runs : PairOf(r) \in Pairs /\ RootOf(r) \in Roots
  /\ IsFiniteSet(Runs) /\ Attended \subseteq Runs /\ {Merges, Publications, Kills} \subseteq Nat

\* The scenarios an unattended run decides, and those a person may supply.
Scenarios == {"automatic", "input", "gestures"}
\* What the runner keeps, and what a merge keeps; an absent, half-written or whole file.
Files == {"capture", "results", "shot", "assertions"}
Contents == {"none", "half", "run", "typed", "drawn"}
NoFiles == [f \in Files |-> "none"]
None == [commit |-> "none", passes |-> {}, healthy |-> FALSE, status |-> "none", refs |-> NoFiles]
Broken == [None EXCEPT !.status = "broken"]

VARIABLES
  rec, disk,        \* the records and the artifacts in the evidence roots
  merge,            \* record-manual-input.py: where it is, the run, the record it read, its shot
  pub,              \* publish-evidence.py: where it is, the root, the records it loaded and did
  copies, kept,     \* the store: the record files and the artifacts of the commit
  list, verdict,    \* records.json, and what the gate said of it last
  truth, sound,     \* what really was seen in each run, and that it was of this commit and
                    \* its fixture stayed healthy
  calm,             \* no file of the root changed since the publication began
  kills, merges, publications

store == <<copies, kept, list>>
counts == <<kills, merges, publications>>
vars == <<rec, disk, merge, pub, store, verdict, truth, sound, calm, counts>>

Idle == [at |-> "idle"]
Init ==
  /\ rec = [r \in Runs |-> None] /\ disk = [r \in Runs |-> NoFiles]
  /\ copies = [r \in Runs |-> None] /\ kept = [r \in Runs |-> NoFiles]
  /\ merge = Idle /\ pub = Idle /\ calm = FALSE
  /\ list = [r \in Runs |-> None] /\ verdict = "unqualified"
  /\ truth = [r \in Runs |-> {}] /\ sound = [r \in Runs |-> FALSE]
  /\ kills = 0 /\ merges = 0 /\ publications = 0

(* ------------------------------ validation ------------------------------ *)

Status(passes, healthy) == IF healthy /\ passes = Scenarios THEN "passed" ELSE "incomplete"

\* _verified_source, validate_artifacts: every referenced file is there with its hash.
Intact(record, files) ==
  \A f \in Files : record.refs[f] # "none" => files[f] = record.refs[f]

\* validate_record: this commit, passed, healthy, every scenario, and the artifact kinds.
Complete(record) ==
  /\ record.commit = "this" /\ record.status = "passed" /\ record.healthy /\ record.passes = Scenarios
  /\ record.refs["capture"] # "none"
  /\ record.refs["results"] # "none" \/ record.refs["assertions"] # "none"
Valid(record, files) == Complete(record) /\ Intact(record, files)

(* ------------------------------ the runner ------------------------------ *)

Disturb(r) == calm' = (calm /\ pub.at # "idle" /\ RootOf(r) # pub.root)

\* main of qualify-desktop.py: the artifacts first, the record last of all.  A run may lack
\* the input scenarios, end with a sick fixture, or be of another commit.
Ran == [f \in Files |-> IF f \in {"capture", "results"} THEN "run" ELSE "none"]
Qualify(r) ==
  /\ rec[r] = None
  /\ \E lacks \in {"nothing", "input", "health", "commit"} :
       LET passes == IF lacks = "input" THEN {"automatic"} ELSE Scenarios
           healthy == lacks # "health"
       IN /\ truth' = [truth EXCEPT ![r] = passes]
          /\ sound' = [sound EXCEPT ![r] = lacks \notin {"health", "commit"}]
          /\ disk' = [disk EXCEPT ![r] = Ran]
          /\ rec' = [rec EXCEPT ![r] =
               [commit |-> IF lacks = "commit" THEN "other" ELSE "this", passes |-> passes,
                healthy |-> healthy, status |-> Status(passes, healthy), refs |-> disk'[r]]]
  /\ Disturb(r) /\ UNCHANGED <<merge, pub, store, verdict, counts>>

(* ---------------------- merging an attended session --------------------- *)

\* What a screenshot shows that was taken after typing alone, or after scrolling and
\* dragging as well.
Shown(shot) == IF shot = "drawn" THEN {"input", "gestures"} ELSE {"input"}

\* record-manual-input.py reads the record; merge_manual_input refuses one without a
\* status, and verifies the markers on the screenshot before it writes anything.
MarkersAssumed(shot) == {"input", "gestures"}   \* mutant: the person's word is taken for it
Markers(shot) == IF shot = "drawn" THEN {"input", "gestures"} ELSE {"input"}
MergeRead(r) ==
  /\ r \in Attended /\ merge = Idle /\ merges < Merges /\ merges' = merges + 1
  /\ rec[r].status \in {"incomplete", "passed"}
  /\ \E shot \in {"typed", "drawn"} :
       /\ merge' = [at |-> "shot", run |-> r, record |-> rec[r], shot |-> shot]
       /\ truth' = [truth EXCEPT ![r] = @ \cup Shown(shot)]
  /\ UNCHANGED <<rec, disk, pub, store, verdict, sound, calm, kills, publications>>

MergeCopyMore ==    \* mutant: and then a file that is not the merge's
  /\ merge.at \in {"shot", "assertions"}
  /\ disk' = [disk EXCEPT ![merge.run][merge.at] = merge.shot]
  /\ merge' = [merge EXCEPT !.at = IF @ = "shot" THEN "assertions" ELSE "results"]
  /\ Disturb(merge.run) /\ UNCHANGED <<rec, pub, store, verdict, truth, sound, counts>>
\* The screenshot and then the assertions replace those of an earlier merge in place.
MergeCopy ==
  /\ merge.at \in {"shot", "assertions"}
  /\ disk' = [disk EXCEPT ![merge.run][merge.at] = merge.shot]
  /\ merge' = [merge EXCEPT !.at = IF @ = "shot" THEN "assertions" ELSE "record"]
  /\ Disturb(merge.run) /\ UNCHANGED <<rec, pub, store, verdict, truth, sound, counts>>

\* The input scenarios pass, the hashes are of what is on the disk now, the record's own
\* input results are no longer referenced, and the status is worked out again.
MergedStale ==      \* mutant: a file that was referenced before keeps its hash
  LET record == merge.record
      passes == record.passes \cup Markers(merge.shot)
      now(f) == IF record.refs[f] = "none" THEN disk[merge.run][f] ELSE record.refs[f]
  IN [commit |-> record.commit, passes |-> passes, healthy |-> record.healthy, status |-> Status(passes, record.healthy),
      refs |-> [record.refs EXCEPT !["results"] = "none", !["shot"] = now("shot"), !["assertions"] = now("assertions")]]
Merged ==
  LET record == merge.record
      passes == record.passes \cup Markers(merge.shot)
      files  == disk[merge.run]
  IN [commit |-> record.commit, passes |-> passes, healthy |-> record.healthy, status |-> Status(passes, record.healthy),
      refs |-> [f \in Files |-> CASE f = "capture" -> record.refs[f]
                                  [] f = "results" -> "none"
                                  [] OTHER -> files[f]]]
MergeWrite ==
  /\ merge.at = "record" /\ rec' = [rec EXCEPT ![merge.run] = Merged] /\ merge' = Idle
  /\ Disturb(merge.run) /\ UNCHANGED <<disk, pub, store, verdict, truth, sound, counts>>

\* Killed in the middle of a write, what was being written is left half done.
MergeKilled ==
  /\ merge # Idle /\ kills < Kills /\ kills' = kills + 1 /\ merge' = Idle
  /\ \/ UNCHANGED <<rec, disk>>
     \/ merge.at # "record" /\ disk' = [disk EXCEPT ![merge.run][merge.at] = "half"] /\ UNCHANGED rec
     \/ merge.at = "record" /\ rec' = [rec EXCEPT ![merge.run] = Broken] /\ UNCHANGED disk
  /\ Disturb(merge.run) /\ UNCHANGED <<pub, store, verdict, truth, sound, merges, publications>>

(* ------------------------------ publishing ------------------------------ *)

\* publish loads every record of its root first, and raises at one that is unreadable.
PublishLoad(root) ==
  /\ pub = Idle /\ publications < Publications /\ publications' = publications + 1
  /\ LET here == { r \in Runs : RootOf(r) = root /\ rec[r] # None } IN
     /\ \A r \in here : rec[r].status # "broken"
     /\ pub' = [at |-> "record", root |-> root, todo |-> here, loaded |-> rec, done |-> {},
                run |-> "none", files |-> {}]
  /\ calm' = TRUE
  /\ UNCHANGED <<rec, disk, merge, store, verdict, truth, sound, kills, merges>>

\* The next record: another commit's is skipped, an altered artifact stops it all, and
\* one that does not validate is skipped.
PublishTake ==
  /\ pub.at = "record" /\ pub.todo # {}
  /\ LET r == CHOOSE r \in pub.todo : TRUE           \* in the order of their names
         record == pub.loaded[r] IN
     pub' = IF record.commit = "this" /\ ~Intact(record, disk[r]) THEN Idle
            ELSE IF ~Valid(record, disk[r]) THEN [pub EXCEPT !.todo = @ \ {r}]
            ELSE [pub EXCEPT !.at = "files", !.run = r, !.todo = @ \ {r},
                             !.files = { f \in Files : record.refs[f] # "none" }]
  /\ UNCHANGED <<rec, disk, merge, store, verdict, truth, sound, calm, counts>>

\* Its artifacts as they are now, then the record's file as it is now; what goes into
\* records.json is what was loaded.
CopiedOnce(f) ==     \* mutant: what the store has already is not copied again
  kept' = IF kept[pub.run][f] # "none" THEN kept ELSE [kept EXCEPT ![pub.run][f] = disk[pub.run][f]]
Copied(f) == kept' = [kept EXCEPT ![pub.run][f] = disk[pub.run][f]]
PublishFile ==
  /\ pub.at = "files" /\ pub.files # {}
  /\ LET f == CHOOSE f \in pub.files : TRUE IN Copied(f) /\ pub' = [pub EXCEPT !.files = @ \ {f}]
  /\ UNCHANGED <<rec, disk, merge, copies, list, verdict, truth, sound, calm, counts>>
PublishRecord ==
  /\ pub.at = "files" /\ pub.files = {}
  /\ copies' = [copies EXCEPT ![pub.run] = rec[pub.run]]
  /\ pub' = [pub EXCEPT !.at = "record", !.done = @ \cup {pub.run}, !.run = "none"]
  /\ UNCHANGED <<rec, disk, merge, kept, list, verdict, truth, sound, calm, counts>>

\* records.json lists what this publication did, unless it did nothing.
PublishList ==
  /\ pub.at = "record" /\ pub.todo = {}
  /\ list' = IF pub.done = {} THEN list
             ELSE [r \in Runs |-> IF r \in pub.done THEN pub.loaded[r] ELSE None]
  /\ pub' = Idle
  /\ UNCHANGED <<rec, disk, merge, copies, kept, verdict, truth, sound, calm, counts>>

PublishKilled ==
  /\ pub # Idle /\ kills < Kills /\ kills' = kills + 1 /\ pub' = Idle
  /\ \/ UNCHANGED kept
     \/ \E f \in pub.files : kept' = [kept EXCEPT ![pub.run][f] = "half"]
  /\ UNCHANGED <<rec, disk, merge, copies, list, verdict, truth, sound, calm, merges, publications>>

(* ------------------------------- the gate ------------------------------- *)

\* release_errors: every listed record validates against the store's artifacts, no pair
\* is listed twice and none is missing.
Listed == { r \in Runs : list[r] # None }
Duplicate == \E r, s \in Listed : r # s /\ PairOf(r) = PairOf(s)
Missing == \E p \in Pairs : \A r \in Listed : PairOf(r) # p
Errors == Duplicate \/ Missing \/ \E r \in Listed : ~Valid(list[r], kept[r])

CheckRelease ==
  /\ verdict' = IF Errors THEN "unqualified" ELSE "qualified"
  /\ UNCHANGED <<rec, disk, merge, pub, store, truth, sound, calm, counts>>

Next ==
  \/ \E r \in Runs : Qualify(r) \/ MergeRead(r)
  \/ MergeCopy \/ MergeWrite \/ MergeKilled
  \/ \E root \in Roots : PublishLoad(root)
  \/ PublishTake \/ PublishFile \/ PublishRecord \/ PublishList \/ PublishKilled \/ CheckRelease
Spec == Init /\ [][Next]_vars

(* ------------------------------ properties ------------------------------ *)

Records == [commit : {"none", "this", "other"}, passes : SUBSET Scenarios, healthy : BOOLEAN,
            status : {"none", "broken", "incomplete", "passed"}, refs : [Files -> Contents]]

\* Every file holds a record or a content, and the programs are where they can be.
TypeOK ==
  /\ {rec, copies, list} \subseteq [Runs -> Records]
  /\ {disk, kept} \subseteq [Runs -> [Files -> Contents]]
  /\ merge = Idle \/ merge \in [at : {"shot", "assertions", "record"}, run : Runs,
                                record : Records, shot : {"typed", "drawn"}]
  /\ pub = Idle \/ pub \in [at : {"record", "files"}, root : Roots, todo : SUBSET Runs, done : SUBSET Runs,
                            loaded : [Runs -> Records], run : Runs \cup {"none"}, files : SUBSET Files]
  /\ pub.at = "files" => pub.run \in Runs
  /\ verdict \in {"qualified", "unqualified"} /\ calm \in BOOLEAN
  /\ truth \in [Runs -> SUBSET Scenarios] /\ sound \in [Runs -> BOOLEAN]
  /\ kills \in 0 .. Kills /\ merges \in 0 .. Merges /\ publications \in 0 .. Publications

\* The evidence implements the gate's promise: whatever is killed, overtaken or merged in
\* between, it opens only on runs in which every scenario was really seen.
Gate == INSTANCE ReleaseGate
  WITH proven <- { r \in Runs : truth[r] = Scenarios /\ sound[r] }
GateSpec == Gate!Spec

\* A publication that finishes, of a root that did not change meanwhile and holds one valid
\* record of every pair, opens the gate whatever earlier ones left in the store.
PublishHeals ==
  [][LET valid == { r \in Runs : RootOf(r) = pub.root /\ Valid(rec[r], disk[r]) }
     IN PublishList /\ calm /\ (\A p \in Pairs : Cardinality({ r \in valid : PairOf(r) = p }) = 1)
          => ~Errors']_vars

\* A merge that finishes leaves a record that matches its files, whatever an earlier merge,
\* finished or killed, had left there.
MergeHeals == [][MergeWrite => Intact(rec'[merge.run], disk'[merge.run])]_vars
================================================================================
