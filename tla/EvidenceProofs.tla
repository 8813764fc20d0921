---------------------------- MODULE EvidenceProofs -----------------------------
(***************************************************************************)
(* Proofs about Evidence, for every set of pairs, runs and roots and every *)
(* bound: the type invariant, that a finished merge matches its files, that *)
(* the evidence implements the promise of the release gate, and that an    *)
(* undisturbed publication opens it.                                       *)
(***************************************************************************)
EXTENDS Evidence, FiniteSetTheorems, TLAPS

Merging == [at : {"shot", "assertions", "record"}, run : Runs, record : Records, shot : {"typed", "drawn"}]
Publishing == [at : {"record", "files"}, root : Roots, todo : SUBSET Runs, done : SUBSET Runs,
               loaded : [Runs -> Records], run : Runs \cup {"none"}, files : SUBSET Files]

\* A record claims no scenario that was not seen, nor this commit and a healthy fixture
\* for a run that had neither.
Backed(r, record) ==
  /\ record.passes \subseteq truth[r]
  /\ record.commit = "this" /\ record.healthy => sound[r]

\* A run without a record has left nothing anywhere, so qualifying it disturbs nobody.
Blank == \A r \in Runs : rec[r] = None =>
  /\ list[r] = None /\ truth[r] = {}
  /\ pub # Idle => pub.loaded[r] = None
  /\ merge # Idle => merge.run # r

AllBacked == \A r \in Runs :
  /\ Backed(r, rec[r]) /\ Backed(r, list[r])
  /\ pub # Idle => Backed(r, pub.loaded[r])

\* A merge holds a record that is backed, and markers that were really seen.
MergeBacked == merge # Idle =>
  /\ Backed(merge.run, merge.record)
  /\ Markers(merge.shot) \subseteq truth[merge.run]

\* Nothing but the run itself writes the capture.
CaptureKept ==
  /\ \A r \in Runs : rec[r].refs["capture"] # "none" => disk[r]["capture"] = rec[r].refs["capture"]
  /\ merge # Idle => (merge.record.refs["capture"] # "none" =>
                        disk[merge.run]["capture"] = merge.record.refs["capture"])

Links == Blank /\ AllBacked /\ MergeBacked /\ CaptureKept
IInv == TypeOK /\ Links

\* The values a record can have.
LEMMA RecordsTyped ==
  /\ NoFiles \in [Files -> Contents] /\ Ran \in [Files -> Contents]
  /\ None \in Records /\ Broken \in Records /\ Broken # None
<1>1. NoFiles \in [Files -> Contents] /\ Ran \in [Files -> Contents]
  BY DEF NoFiles, Ran, Contents, Files
<1>2. None \in Records
  BY <1>1 DEF None, Records
<1>3. Broken \in Records
  BY <1>2 DEF Broken, Records
<1>4. Broken # None
  <2>1. Broken.status = "broken" /\ None.status = "none"
    BY <1>1 DEF Broken, None
  <2>. QED BY <2>1
<1>. QED BY <1>1, <1>2, <1>3, <1>4

\* A program that is idle is none of the working ones.
LEMMA IdleApart == Idle \notin Merging /\ Idle \notin Publishing
  BY DEF Idle, Merging, Publishing

LEMMA StatusTyped ==
  ASSUME NEW passes, NEW healthy PROVE Status(passes, healthy) \in {"incomplete", "passed"}
  BY DEF Status

\* What a merge writes is a record, and not an empty one.
LEMMA MergedTyped ==
  ASSUME TypeOK, merge # Idle
  PROVE  Merged \in Records /\ Merged # None
<1>1. merge \in Merging
  BY DEF TypeOK, Merging
<1>2. /\ merge.run \in Runs /\ merge.record \in Records /\ disk[merge.run] \in [Files -> Contents]
  BY <1>1 DEF TypeOK, Merging
<1>3. Markers(merge.shot) \subseteq Scenarios
  BY DEF Markers, Scenarios
<1>4. [f \in Files |-> CASE f = "capture" -> merge.record.refs[f]
                         [] f = "results" -> "none"
                         [] OTHER -> disk[merge.run][f]] \in [Files -> Contents]
  BY <1>2 DEF Records, Contents, Files
<1>5. Status(merge.record.passes \cup Markers(merge.shot), merge.record.healthy) \in {"incomplete", "passed"}
  BY StatusTyped
<1>6. Merged \in Records
  BY <1>2, <1>3, <1>4, <1>5 DEF Merged, Records
<1>7. Merged.status \in {"incomplete", "passed"} /\ None.status = "none"
  BY <1>5 DEF Merged, None
<1>. QED BY <1>6, <1>7

(* ------------------------------- types ---------------------------------- *)

\* A run, a merge and a kill only ever write records and contents.
LEMMA QualifyTyped == ASSUME TypeOK, NEW r \in Runs, Qualify(r) PROVE TypeOK'
<1> USE DEF TypeOK, Qualify, store, counts
<1>1. PICK lacks \in {"nothing", "input", "health", "commit"} :
        LET passes == IF lacks = "input" THEN {"automatic"} ELSE Scenarios
            healthy == lacks # "health"
        IN /\ truth' = [truth EXCEPT ![r] = passes]
           /\ sound' = [sound EXCEPT ![r] = lacks \notin {"health", "commit"}]
           /\ disk' = [disk EXCEPT ![r] = Ran]
           /\ rec' = [rec EXCEPT ![r] =
                [commit |-> IF lacks = "commit" THEN "other" ELSE "this", passes |-> passes,
                 healthy |-> healthy, status |-> Status(passes, healthy), refs |-> disk'[r]]]
  OBVIOUS
<1> DEFINE passes == IF lacks = "input" THEN {"automatic"} ELSE Scenarios
           healthy == lacks # "health"
           record == [commit |-> IF lacks = "commit" THEN "other" ELSE "this", passes |-> passes,
                      healthy |-> healthy, status |-> Status(passes, healthy), refs |-> disk'[r]]
<1>2. disk' \in [Runs -> [Files -> Contents]] /\ disk'[r] = Ran
  BY <1>1, RecordsTyped
<1>3. record \in Records
  <2>1. Status(passes, healthy) \in {"incomplete", "passed"}
    BY StatusTyped
  <2>2. passes \in SUBSET Scenarios /\ healthy \in BOOLEAN
    BY DEF Scenarios
  <2>3. disk'[r] \in [Files -> Contents]
    BY <1>2, RecordsTyped
  <2> HIDE DEF passes, healthy
  <2>. QED BY <2>1, <2>2, <2>3 DEF Records
<1>4. rec' \in [Runs -> Records]
  <2> HIDE DEF record
  <2>1. rec' = [rec EXCEPT ![r] = record]
    BY <1>1 DEF record
  <2>. QED BY <2>1, <1>3
<1>5. truth' \in [Runs -> SUBSET Scenarios] /\ sound' \in [Runs -> BOOLEAN]
  BY <1>1 DEF Scenarios
<1>6. calm' \in BOOLEAN
  BY DEF Disturb
<1>. QED BY <1>2, <1>4, <1>5, <1>6

LEMMA MergeTyped ==
  ASSUME TypeOK, (\E r \in Runs : MergeRead(r)) \/ MergeCopy \/ MergeWrite \/ MergeKilled
  PROVE  TypeOK'
<1> USE DEF store, counts
<1>1. CASE \E r \in Runs : MergeRead(r)
  <2>1. PICK r \in Runs : MergeRead(r)
    BY <1>1
  <2>2. merge' \in Merging /\ truth' \in [Runs -> SUBSET Scenarios]
    BY <2>1 DEF MergeRead, TypeOK, Merging, Shown, Scenarios
  <2>3. merges' \in 0 .. Merges
    BY <2>1, EvidenceAssumption DEF MergeRead, TypeOK
  <2>. QED BY <2>1, <2>2, <2>3 DEF MergeRead, TypeOK, Merging
<1>2. ASSUME merge # Idle PROVE merge \in Merging
  BY <1>2 DEF TypeOK, Merging
<1>3. CASE MergeCopy
  <2>1. merge \in Merging
    BY <1>2, <1>3 DEF MergeCopy, Idle
  <2>2. merge' \in Merging
    BY <1>3, <2>1 DEF MergeCopy, Merging
  <2>3. disk' \in [Runs -> [Files -> Contents]]
    BY <1>3, <2>1 DEF MergeCopy, Merging, TypeOK, Contents
  <2>4. calm' \in BOOLEAN
    BY <1>3 DEF MergeCopy, Disturb, TypeOK
  <2>. QED BY <1>3, <2>2, <2>3, <2>4 DEF MergeCopy, TypeOK, Merging
<1>4. CASE MergeWrite
  <2>1. merge # Idle
    BY <1>4 DEF MergeWrite, Idle
  <2>2. rec' \in [Runs -> Records]
    BY <1>4, <2>1, <1>2, MergedTyped DEF MergeWrite, TypeOK, Merging
  <2>3. calm' \in BOOLEAN
    BY <1>4 DEF MergeWrite, Disturb, TypeOK
  <2>. QED BY <1>4, <2>2, <2>3 DEF MergeWrite, TypeOK
<1>5. CASE MergeKilled
  <2>1. merge \in Merging
    BY <1>5, <1>2 DEF MergeKilled
  <2>2. rec' \in [Runs -> Records]
    BY <1>5, <2>1, RecordsTyped DEF MergeKilled, TypeOK, Merging
  <2>3. disk' \in [Runs -> [Files -> Contents]]
    <3>1. CASE UNCHANGED disk
      BY <3>1 DEF TypeOK
    <3>2. CASE merge.at # "record" /\ disk' = [disk EXCEPT ![merge.run][merge.at] = "half"]
      <4>1. merge.at \in Files /\ merge.run \in Runs /\ "half" \in Contents
        BY <2>1, <3>2 DEF Merging, Files, Contents
      <4>. QED BY <3>2, <4>1 DEF TypeOK
    <3>. QED BY <1>5, <3>1, <3>2 DEF MergeKilled
  <2>4. calm' \in BOOLEAN /\ kills' \in 0 .. Kills
    BY <1>5, EvidenceAssumption DEF MergeKilled, Disturb, TypeOK
  <2>. QED BY <1>5, <2>2, <2>3, <2>4 DEF MergeKilled, TypeOK
<1>. QED BY <1>1, <1>3, <1>4, <1>5

LEMMA PublishTyped ==
  ASSUME TypeOK,
         \/ \E root \in Roots : PublishLoad(root)
         \/ PublishTake \/ PublishFile \/ PublishRecord \/ PublishList \/ PublishKilled
  PROVE  TypeOK'
<1> USE DEF store, counts
<1>1. CASE \E root \in Roots : PublishLoad(root)
  <2>1. PICK root \in Roots : PublishLoad(root)
    BY <1>1
  <2>2. pub' \in Publishing /\ pub'.at = "record"
    BY <2>1 DEF PublishLoad, TypeOK, Publishing
  <2>3. publications' \in 0 .. Publications
    BY <2>1, EvidenceAssumption DEF PublishLoad, TypeOK
  <2>. QED BY <2>1, <2>2, <2>3 DEF PublishLoad, TypeOK, Publishing
<1>2. ASSUME pub # Idle PROVE pub \in Publishing
  BY <1>2 DEF TypeOK, Publishing
<1>3. ASSUME NEW a, pub.at = a, a # "idle" PROVE pub # Idle
  BY <1>3 DEF Idle
<1>4. CASE PublishTake
  <2>1. pub \in Publishing /\ pub.todo # {}
    BY <1>2, <1>3, <1>4 DEF PublishTake
  <2> DEFINE r == CHOOSE r \in pub.todo : TRUE
             mark == { f \in Files : pub.loaded[r].refs[f] # "none" }
  <2>2. r \in Runs /\ mark \subseteq Files
    BY <2>1 DEF Publishing
  <2>3. \/ pub' = Idle
        \/ pub' = [pub EXCEPT !.todo = @ \ {r}]
        \/ pub' = [pub EXCEPT !.at = "files", !.run = r, !.todo = @ \ {r}, !.files = mark]
    BY <1>4 DEF PublishTake
  <2> HIDE DEF r, mark
  <2>4. pub' = Idle \/ (pub' \in Publishing /\ (pub'.at = "files" => pub'.run \in Runs))
    BY <2>1, <2>2, <2>3, <1>4 DEF Publishing, PublishTake
  <2>. QED BY <1>4, <2>4 DEF PublishTake, TypeOK, Publishing, Idle
<1>5. CASE PublishFile
  <2>1. pub \in Publishing /\ pub.files # {}
    BY <1>2, <1>3, <1>5 DEF PublishFile
  <2>2. PICK f \in pub.files : Copied(f) /\ pub' = [pub EXCEPT !.files = @ \ {f}]
    BY <2>1, <1>5 DEF PublishFile
  <2>3. pub' \in Publishing /\ pub'.run = pub.run
    BY <2>1, <2>2 DEF Publishing
  <2>4. kept' \in [Runs -> [Files -> Contents]]
    <3>1. CASE pub.run \in Runs
      BY <2>1, <2>2, <3>1 DEF Copied, TypeOK, Publishing
    <3>2. CASE pub.run \notin Runs
      BY <2>1, <2>2, <3>2 DEF Copied, TypeOK, Publishing
    <3>. QED BY <3>1, <3>2
  <2>. QED BY <1>5, <2>3, <2>4 DEF PublishFile, TypeOK, Publishing
<1>6. CASE PublishRecord
  <2>1. pub \in Publishing
    BY <1>2, <1>3, <1>6 DEF PublishRecord
  <2>2. pub.run \in Runs
    BY <1>6 DEF PublishRecord, TypeOK
  <2>3. copies' \in [Runs -> Records]
    BY <1>6, <2>2 DEF PublishRecord, TypeOK
  <2>4. pub' \in Publishing /\ pub'.at = "record"
    BY <1>6, <2>1, <2>2 DEF PublishRecord, Publishing
  <2>. QED BY <1>6, <2>3, <2>4 DEF PublishRecord, TypeOK, Publishing
<1>7. CASE PublishList
  <2>1. pub \in Publishing
    BY <1>2, <1>3, <1>7 DEF PublishList
  <2>2. [r \in Runs |-> IF r \in pub.done THEN pub.loaded[r] ELSE None] \in [Runs -> Records]
    BY <2>1, RecordsTyped DEF Publishing
  <2>3. list' \in [Runs -> Records]
    BY <1>7, <2>2 DEF PublishList, TypeOK
  <2>. QED BY <1>7, <2>3 DEF PublishList, TypeOK, Idle
<1>8. CASE PublishKilled
  <2>1. pub \in Publishing /\ kills' \in 0 .. Kills
    BY <1>2, <1>8, EvidenceAssumption DEF PublishKilled, TypeOK
  <2>2. kept' \in [Runs -> [Files -> Contents]]
    <3>1. ASSUME NEW f \in pub.files PROVE [kept EXCEPT ![pub.run][f] = "half"] \in [Runs -> [Files -> Contents]]
      <4>1. f \in Files /\ "half" \in Contents
        BY <2>1 DEF Publishing, Contents
      <4>. QED BY <4>1 DEF TypeOK
    <3>2. CASE UNCHANGED kept
      BY <3>2 DEF TypeOK
    <3>3. CASE \E f \in pub.files : kept' = [kept EXCEPT ![pub.run][f] = "half"]
      <4>1. PICK f \in pub.files : kept' = [kept EXCEPT ![pub.run][f] = "half"]
        BY <3>3
      <4>. QED BY <4>1, <3>1
    <3>. QED BY <1>8, <3>2, <3>3 DEF PublishKilled
  <2>. QED BY <1>8, <2>1, <2>2 DEF PublishKilled, TypeOK, Idle
<1>. QED BY <1>1, <1>4, <1>5, <1>6, <1>7, <1>8

(* ------------------------------- the links ------------------------------ *)

\* A step that leaves the records, what was seen and the captures alone keeps the links,
\* if it also leaves each program what it holds or ends it.
LEMMA LinksKept ==
  ASSUME Links, UNCHANGED <<rec, list, truth, sound>>,
         \A r \in Runs : disk'[r]["capture"] = disk[r]["capture"],
         pub' = Idle \/ (pub # Idle /\ pub'.loaded = pub.loaded),
         merge' = Idle \/ (merge # Idle /\ merge'.run = merge.run
                            /\ merge'.record = merge.record /\ merge'.shot = merge.shot
                            /\ merge'.run \in Runs)
  PROVE  Links'
<1>1. Blank'
  BY DEF Links, Blank
<1>2. AllBacked'
  BY DEF Links, AllBacked, Backed
<1>3. MergeBacked'
  BY DEF Links, MergeBacked, Backed, Markers
<1>4. CaptureKept'
  BY DEF Links, CaptureKept
<1>. QED BY <1>1, <1>2, <1>3, <1>4 DEF Links

LEMMA QualifyLinks == ASSUME IInv, NEW r \in Runs, Qualify(r) PROVE Links'
<1> USE DEF IInv, store, counts
<1>1. PICK lacks \in {"nothing", "input", "health", "commit"} :
        LET passes == IF lacks = "input" THEN {"automatic"} ELSE Scenarios
            healthy == lacks # "health"
        IN /\ truth' = [truth EXCEPT ![r] = passes]
           /\ sound' = [sound EXCEPT ![r] = lacks \notin {"health", "commit"}]
           /\ disk' = [disk EXCEPT ![r] = Ran]
           /\ rec' = [rec EXCEPT ![r] =
                [commit |-> IF lacks = "commit" THEN "other" ELSE "this", passes |-> passes,
                 healthy |-> healthy, status |-> Status(passes, healthy), refs |-> disk'[r]]]
  BY DEF Qualify
<1>2. UNCHANGED <<merge, pub, list>> /\ rec[r] = None
  BY DEF Qualify
<1>3. /\ list[r] = None
      /\ pub # Idle => pub.loaded[r] = None
      /\ merge # Idle => merge.run # r
  BY <1>2 DEF Links, Blank
<1>4. /\ rec'[r].commit = (IF lacks = "commit" THEN "other" ELSE "this")
      /\ rec'[r].passes = truth'[r] /\ rec'[r].healthy = (lacks # "health")
      /\ rec'[r].refs = disk'[r] /\ rec'[r].status \in {"incomplete", "passed"}
      /\ sound'[r] = (lacks \notin {"health", "commit"})
  BY <1>1, StatusTyped DEF TypeOK
<1>5. \A s \in Runs \ {r} : /\ rec'[s] = rec[s] /\ truth'[s] = truth[s]
                            /\ sound'[s] = sound[s] /\ disk'[s] = disk[s]
  BY <1>1 DEF TypeOK
<1>6. None.passes = {} /\ None.commit = "none" /\ None.status = "none"
  BY DEF None
<1>7. Blank'
  <2>1. rec'[r] # None
    BY <1>4, <1>6
  <2>. QED BY <1>2, <1>5, <2>1 DEF Links, Blank
<1>8. AllBacked'
  <2>1. \A x : x = None => Backed(r, x)'
    BY <1>6 DEF Backed
  <2>2. Backed(r, rec[r])'
    BY <1>4 DEF Backed
  <2>3. \A s \in Runs \ {r} : \A x : Backed(s, x) => Backed(s, x)'
    BY <1>5 DEF Backed
  <2>. QED BY <1>2, <1>3, <1>5, <2>1, <2>2, <2>3 DEF Links, AllBacked
<1>9. MergeBacked'
  <2>1. merge # Idle => merge.run \in Runs \ {r}
    BY <1>3 DEF TypeOK
  <2>. QED BY <1>2, <1>5, <2>1 DEF Links, MergeBacked, Backed, Markers
<1>10. CaptureKept'
  <2>1. merge # Idle => merge.run \in Runs \ {r}
    BY <1>3 DEF TypeOK
  <2>. QED BY <1>2, <1>4, <1>5, <2>1 DEF Links, CaptureKept
<1>. QED BY <1>7, <1>8, <1>9, <1>10 DEF Links

LEMMA MergeReadLinks == ASSUME IInv, NEW r \in Runs, MergeRead(r) PROVE Links'
<1> USE DEF IInv, store, counts
<1>1. PICK shot \in {"typed", "drawn"} :
        /\ merge' = [at |-> "shot", run |-> r, record |-> rec[r], shot |-> shot]
        /\ truth' = [truth EXCEPT ![r] = @ \cup Shown(shot)]
  BY DEF MergeRead
<1>2. UNCHANGED <<rec, disk, pub, list, sound>> /\ rec[r] # None
  BY DEF MergeRead, None
<1>3. /\ truth'[r] = truth[r] \cup Shown(shot)
      /\ \A s \in Runs : truth[s] \subseteq truth'[s] /\ (s # r => truth'[s] = truth[s])
  BY <1>1 DEF TypeOK
<1>4. merge'.run = r /\ merge'.record = rec[r] /\ merge'.shot = shot
  BY <1>1
<1>5. \A s \in Runs : \A x : Backed(s, x) => Backed(s, x)'
  BY <1>2, <1>3 DEF Backed
<1>6. Blank'
  BY <1>2, <1>3, <1>4 DEF Links, Blank
<1>7. AllBacked'
  BY <1>2, <1>5 DEF Links, AllBacked
<1>8. MergeBacked'
  <2>1. Backed(r, rec[r])'
    BY <1>5, <1>2 DEF Links, AllBacked
  <2>2. Markers(shot) \subseteq truth'[r]
    BY <1>3 DEF Markers, Shown
  <2>. QED BY <1>2, <1>4, <2>1, <2>2 DEF MergeBacked, Backed
<1>9. CaptureKept'
  BY <1>2, <1>4 DEF Links, CaptureKept
<1>. QED BY <1>6, <1>7, <1>8, <1>9 DEF Links

LEMMA MergeCopyLinks == ASSUME IInv, MergeCopy PROVE Links'
<1> USE DEF IInv, store, counts
<1>1. merge \in Merging /\ merge # Idle
  BY DEF MergeCopy, TypeOK, Merging, Idle
<1>2. /\ merge'.run = merge.run /\ merge'.record = merge.record /\ merge'.shot = merge.shot
  BY <1>1 DEF MergeCopy, Merging
<1>3. \A r \in Runs : disk'[r]["capture"] = disk[r]["capture"]
  BY <1>1 DEF MergeCopy, TypeOK, Merging, Files
<1>. QED BY <1>1, <1>2, <1>3, LinksKept DEF MergeCopy, Merging

LEMMA MergeWriteLinks == ASSUME IInv, MergeWrite PROVE Links'
<1> USE DEF IInv, store, counts
<1>1. merge \in Merging /\ merge # Idle
  BY DEF MergeWrite, TypeOK, Merging, Idle
<1>2. merge.run \in Runs /\ merge' = Idle /\ UNCHANGED <<list, pub, truth, sound, disk>>
  BY <1>1 DEF MergeWrite, Merging
<1>3. rec'[merge.run] = Merged /\ \A s \in Runs \ {merge.run} : rec'[s] = rec[s]
  BY <1>2 DEF MergeWrite, TypeOK
<1>4. Merged \in Records /\ Merged # None
  BY <1>1, MergedTyped
<1>5. Backed(merge.run, Merged)
  BY <1>1 DEF Links, MergeBacked, Backed, Merged
<1>6. Merged.refs["capture"] = merge.record.refs["capture"]
  BY DEF Merged, Files
<1>7. Blank'
  BY <1>1, <1>2, <1>3, <1>4 DEF Links, Blank
<1>8. AllBacked'
  BY <1>2, <1>3, <1>5 DEF Links, AllBacked, Backed
<1>9. MergeBacked'
  BY <1>2 DEF MergeBacked
<1>10. CaptureKept'
  BY <1>1, <1>2, <1>3, <1>6 DEF Links, CaptureKept
<1>. QED BY <1>7, <1>8, <1>9, <1>10 DEF Links

LEMMA MergeKilledLinks == ASSUME IInv, MergeKilled PROVE Links'
<1> USE DEF IInv, store, counts
<1>1. merge \in Merging /\ merge' = Idle
  BY DEF MergeKilled, TypeOK, Merging
<1>2. merge.run \in Runs /\ UNCHANGED <<list, pub, truth, sound>> /\ merge # Idle
  BY <1>1 DEF MergeKilled, Merging
<1>3. CASE UNCHANGED rec /\ \A r \in Runs : disk'[r]["capture"] = disk[r]["capture"]
  BY <1>1, <1>2, <1>3, LinksKept
<1>4. CASE rec' = [rec EXCEPT ![merge.run] = Broken] /\ UNCHANGED disk
  <2>1. rec'[merge.run] = Broken /\ \A s \in Runs \ {merge.run} : rec'[s] = rec[s]
    BY <1>2, <1>4 DEF TypeOK
  <2>2. Broken.passes = {} /\ Broken.commit = "none" /\ Broken.refs["capture"] = "none"
    BY DEF Broken, None, NoFiles, Files
  <2>3. Blank'
    BY <1>1, <1>2, <2>1, RecordsTyped DEF Links, Blank
  <2>4. AllBacked'
    BY <1>2, <2>1, <2>2 DEF Links, AllBacked, Backed
  <2>5. MergeBacked'
    BY <1>1 DEF MergeBacked
  <2>6. CaptureKept'
    BY <1>1, <1>4, <2>1, <2>2 DEF Links, CaptureKept
  <2>. QED BY <2>3, <2>4, <2>5, <2>6 DEF Links
<1>5. ASSUME merge.at # "record", disk' = [disk EXCEPT ![merge.run][merge.at] = "half"]
      PROVE  \A r \in Runs : disk'[r]["capture"] = disk[r]["capture"]
  BY <1>1, <1>2, <1>5 DEF TypeOK, Merging, Files
<1>. QED BY <1>3, <1>4, <1>5 DEF MergeKilled

LEMMA PublishLoadLinks == ASSUME IInv, NEW root \in Roots, PublishLoad(root) PROVE Links'
<1> USE DEF IInv, store, counts
<1>1. UNCHANGED <<rec, disk, merge, list, truth, sound>> /\ pub'.loaded = rec
  BY DEF PublishLoad
<1>2. Blank'
  BY <1>1 DEF Links, Blank
<1>3. AllBacked'
  BY <1>1 DEF Links, AllBacked, Backed
<1>4. MergeBacked' /\ CaptureKept'
  BY <1>1 DEF Links, MergeBacked, CaptureKept, Backed, Markers
<1>. QED BY <1>2, <1>3, <1>4 DEF Links

LEMMA PublishListLinks == ASSUME IInv, PublishList PROVE Links'
<1> USE DEF IInv, store, counts
<1>1. UNCHANGED <<rec, disk, merge, truth, sound>> /\ pub' = Idle /\ pub # Idle
  BY DEF PublishList, Idle
<1>2. pub.loaded \in [Runs -> Records]
  BY <1>1 DEF TypeOK
<1>3. \A r \in Runs : list'[r] \in {list[r], pub.loaded[r], None}
  BY DEF PublishList
<1>4. None.passes = {} /\ None.commit = "none"
  BY DEF None
<1>5. Blank'
  BY <1>1, <1>3 DEF Links, Blank
<1>6. AllBacked'
  BY <1>1, <1>3, <1>4 DEF Links, AllBacked, Backed
<1>7. MergeBacked' /\ CaptureKept'
  BY <1>1 DEF Links, MergeBacked, CaptureKept, Backed, Markers
<1>. QED BY <1>5, <1>6, <1>7 DEF Links

\* The steps of a publication that touch its own store only, and the gate.
LEMMA QuietLinks ==
  ASSUME IInv, PublishTake \/ PublishFile \/ PublishRecord \/ PublishKilled \/ CheckRelease \/ UNCHANGED vars
  PROVE  Links'
<1> USE DEF IInv, store, counts
<1>1. UNCHANGED <<rec, disk, merge, list, truth, sound>>
  BY DEF PublishTake, PublishFile, PublishRecord, PublishKilled, CheckRelease, vars
<1>2. pub' = Idle \/ (pub # Idle /\ pub'.loaded = pub.loaded)
  <2>1. pub = Idle \/ pub \in Publishing
    BY DEF TypeOK, Publishing
  <2>2. CASE PublishTake
    BY <2>1, <2>2 DEF PublishTake, Publishing, Idle
  <2>3. CASE PublishFile
    BY <2>1, <2>3 DEF PublishFile, Publishing, Idle
  <2>5. CASE PublishRecord
    BY <2>1, <2>5 DEF PublishRecord, Publishing, Idle
  <2>4. CASE PublishKilled \/ CheckRelease \/ UNCHANGED vars
    BY <2>4 DEF PublishKilled, CheckRelease, vars
  <2>. QED BY <2>2, <2>3, <2>4, <2>5
<1>3. merge = Idle \/ merge.run \in Runs
  BY DEF TypeOK
<1>. QED BY <1>1, <1>2, <1>3, LinksKept

(* ------------------------- the invariant holds -------------------------- *)

THEOREM InitEstablishes == Init => IInv
<1> SUFFICES ASSUME Init PROVE IInv
  OBVIOUS
<1> USE DEF Init
<1>1. TypeOK
  <2>1. 0 \in 0 .. Kills /\ 0 \in 0 .. Merges /\ 0 \in 0 .. Publications
    BY EvidenceAssumption
  <2>. QED BY <2>1, RecordsTyped DEF TypeOK, Idle
<1>2. None.passes = {} /\ None.commit = "none" /\ None.refs["capture"] = "none"
  BY DEF None, NoFiles, Files
<1>3. Blank /\ MergeBacked
  BY DEF Blank, MergeBacked
<1>4. AllBacked /\ CaptureKept
  BY <1>2 DEF AllBacked, CaptureKept, Backed
<1>. QED BY <1>1, <1>3, <1>4 DEF IInv, Links

THEOREM NextPreserves == IInv /\ [Next]_vars => IInv'
<1> SUFFICES ASSUME IInv, [Next]_vars PROVE IInv'
  OBVIOUS
<1> USE DEF IInv
<1>1. CASE \E r \in Runs : Qualify(r)
  BY <1>1, QualifyTyped, QualifyLinks
<1>2. CASE \E r \in Runs : MergeRead(r)
  BY <1>2, MergeTyped, MergeReadLinks
<1>3. CASE MergeCopy \/ MergeWrite \/ MergeKilled
  BY <1>3, MergeTyped, MergeCopyLinks, MergeWriteLinks, MergeKilledLinks
<1>4. CASE \E root \in Roots : PublishLoad(root)
  BY <1>4, PublishTyped, PublishLoadLinks
<1>5. CASE PublishList
  BY <1>5, PublishTyped, PublishListLinks
<1>6. CASE PublishTake \/ PublishFile \/ PublishRecord \/ PublishKilled
  BY <1>6, PublishTyped, QuietLinks
<1>7. CASE CheckRelease
  <2>1. TypeOK'
    BY <1>7 DEF CheckRelease, TypeOK, store, counts
  <2>. QED BY <1>7, <2>1, QuietLinks
<1>8. CASE UNCHANGED vars
  <2>1. TypeOK'
    BY <1>8 DEF vars, TypeOK, store, counts
  <2>. QED BY <1>8, <2>1, QuietLinks
<1>. QED BY <1>1, <1>2, <1>3, <1>4, <1>5, <1>6, <1>7, <1>8 DEF Next

THEOREM Invariant == Spec => []IInv
<1>. QED BY InitEstablishes, NextPreserves, PTL DEF Spec

\* Every file holds a record or a content, and the programs are where they can be.
THEOREM TypeCorrect == Spec => []TypeOK
<1>1. IInv => TypeOK
  BY DEF IInv
<1>. QED BY <1>1, Invariant, PTL

\* A merge that finishes (manual_input.py: merge_manual_input) leaves a record that matches
\* its files, whatever an earlier merge, finished or killed, had left there.
THEOREM MergeIsWhole == Spec => MergeHeals
<1>1. ASSUME IInv, MergeWrite PROVE Intact(rec'[merge.run], disk'[merge.run])
  <2> USE DEF IInv
  <2>1. merge \in Merging /\ merge # Idle
    BY <1>1 DEF MergeWrite, TypeOK, Merging, Idle
  <2>2. rec'[merge.run] = Merged /\ disk' = disk
    BY <1>1, <2>1 DEF MergeWrite, TypeOK, Merging
  <2>3. ASSUME NEW f \in Files, Merged.refs[f] # "none" PROVE disk[merge.run][f] = Merged.refs[f]
    <3>1. CASE f = "capture"
      <4>1. Merged.refs["capture"] = merge.record.refs["capture"]
        BY DEF Merged, Files
      <4>. QED BY <1>1, <2>1, <2>3, <3>1, <4>1 DEF Links, CaptureKept
    <3>2. CASE f # "capture"
      BY <2>3, <3>2 DEF Merged, Files
    <3>. QED BY <3>1, <3>2
  <2>. QED BY <2>2, <2>3 DEF Intact
<1>2. IInv /\ [Next]_vars => [MergeWrite => Intact(rec'[merge.run], disk'[merge.run])]_vars
  BY <1>1
<1>. QED BY <1>2, Invariant, PTL DEF Spec, MergeHeals

(* --------------------------- the gate's promise ------------------------- *)

Proved == { r \in Runs : truth[r] = Scenarios /\ sound[r] }

\* What opens the gate is listed, whole and of this commit, and so was really seen.
LEMMA GateOpensOnProof ==
  ASSUME IInv, ~Errors, NEW p \in Pairs PROVE \E r \in Proved : PairOf(r) = p
<1>1. PICK r \in Listed : PairOf(r) = p
  BY DEF Errors, Missing
<1>2. r \in Runs /\ Valid(list[r], kept[r])
  BY DEF Errors, Listed
<1>3. list[r].passes = Scenarios /\ list[r].commit = "this" /\ list[r].healthy
  BY <1>2 DEF Valid, Complete
<1>4. Backed(r, list[r])
  BY <1>2 DEF IInv, Links, AllBacked
<1>5. truth[r] \subseteq Scenarios
  BY <1>2 DEF IInv, TypeOK
<1>6. r \in Proved
  BY <1>2, <1>3, <1>4, <1>5 DEF Backed, Proved
<1>. QED BY <1>1, <1>6

\* A run only ever becomes proven, one at a time.
LEMMA ProofGrows ==
  ASSUME IInv, [Next]_vars
  PROVE  Proved' = Proved \/ \E r \in Runs : Proved' = Proved \cup {r}
<1> USE DEF IInv
<1>1. ASSUME NEW r \in Runs, \A s \in Runs \ {r} : truth'[s] = truth[s] /\ sound'[s] = sound[s],
             r \in Proved => r \in Proved'
      PROVE  Proved' = Proved \/ Proved' = Proved \cup {r}
  BY <1>1 DEF Proved
<1>2. ASSUME NEW r \in Runs, Qualify(r) PROVE Proved' = Proved \/ Proved' = Proved \cup {r}
  <2>1. \A s \in Runs \ {r} : truth'[s] = truth[s] /\ sound'[s] = sound[s]
    BY <1>2 DEF Qualify, TypeOK
  <2>2. r \notin Proved
    BY <1>2 DEF Qualify, Links, Blank, Proved, Scenarios
  <2>. QED BY <1>1, <2>1, <2>2
<1>3. ASSUME NEW r \in Runs, MergeRead(r) PROVE Proved' = Proved \/ Proved' = Proved \cup {r}
  <2>1. /\ UNCHANGED sound /\ \A s \in Runs : truth[s] \subseteq truth'[s] /\ truth'[s] \subseteq Scenarios
        /\ \A s \in Runs \ {r} : truth'[s] = truth[s]
    BY <1>3 DEF MergeRead, TypeOK, Shown, Scenarios
  <2>2. r \in Proved => r \in Proved'
    BY <2>1 DEF Proved
  <2>. QED BY <1>1, <2>1, <2>2
<1>4. ASSUME UNCHANGED <<truth, sound>> PROVE Proved' = Proved
  BY <1>4 DEF Proved
<1>. QED BY <1>2, <1>3, <1>4 DEF Next, vars, MergeCopy, MergeWrite, MergeKilled, PublishLoad,
         PublishTake, PublishFile, PublishRecord, PublishList, PublishKilled, CheckRelease

\* The evidence implements the gate's promise (qualification.py: release_errors): whatever is
\* killed, overtaken or merged in between, a commit is judged qualified only when every pair
\* has a run in which every scenario was really seen.
THEOREM GateIsHonest == Spec => GateSpec
<1>1. Init => Gate!Init
  BY DEF Init, Gate!Init, Scenarios
<1>2. IInv /\ [Next]_vars => [Gate!Next]_(<<Proved, verdict>>)
  <2> SUFFICES ASSUME IInv, [Next]_vars PROVE [Gate!Next]_(<<Proved, verdict>>)
    OBVIOUS
  <2>1. CASE CheckRelease
    <3>1. Proved' = Proved
      BY <2>1 DEF CheckRelease, Proved
    <3>2. verdict' \in {"qualified", "unqualified"}
      BY <2>1 DEF CheckRelease
    <3>3. verdict' = "qualified" => \A p \in Pairs : Gate!Proven(p)
      BY <2>1, GateOpensOnProof DEF CheckRelease, Gate!Proven, Proved
    <3>. QED BY <3>1, <3>2, <3>3 DEF Gate!Next, Gate!Judge, Proved
  <2>2. CASE ~CheckRelease
    <3>1. verdict' = verdict
      BY <2>2 DEF Next, vars, Qualify, MergeRead, MergeCopy, MergeWrite, MergeKilled, PublishLoad,
         PublishTake, PublishFile, PublishRecord, PublishList, PublishKilled
    <3>. QED BY <3>1, ProofGrows DEF Gate!Next, Gate!Prove, Proved
  <2>. QED BY <2>1, <2>2
<1>. QED BY <1>1, <1>2, Invariant, PTL DEF Spec, GateSpec, Gate!Spec, Proved

(* ------------------------ an undisturbed publication --------------------- *)

\* A run of the root being published whose record is valid as it stands, and a file of it
\* that the store has as it is.
Ours(r) == RootOf(r) = pub.root /\ Valid(rec[r], disk[r])
Same(r, f) == rec[r].refs[f] # "none" => kept[r][f] = disk[r][f]

\* While the root is left alone, what the publication loaded is what lies there; no valid
\* record is forgotten; and what it has done is valid and complete in the store.
Faithful == calm /\ pub # Idle =>
  /\ \A r \in Runs : RootOf(r) = pub.root => pub.loaded[r] = rec[r]
  /\ \A r \in pub.todo : RootOf(r) = pub.root
  /\ \A r \in Runs : Ours(r) => r \in pub.todo \cup pub.done \/ (pub.at = "files" /\ r = pub.run)
  /\ \A r \in pub.done : Ours(r) /\ \A f \in Files : Same(r, f)
  /\ pub.at = "files" => Ours(pub.run) /\ \A f \in Files \ pub.files : Same(pub.run, f)

\* A program that writes in a root and so ends the calm there.
LEMMA OutsideFaithful ==
  ASSUME TypeOK, Faithful, UNCHANGED <<pub, kept>>, NEW r,
         calm' => calm /\ RootOf(r) # pub.root,
         \A s \in Runs : s # r => rec'[s] = rec[s] /\ disk'[s] = disk[s]
  PROVE  Faithful'
<1> SUFFICES ASSUME calm', pub # Idle PROVE Faithful'
  BY DEF Faithful
<1>1. calm /\ RootOf(r) # pub.root /\ pub \in Publishing
  BY DEF TypeOK, Publishing
<1>2. \A s \in Runs : RootOf(s) = pub.root => rec'[s] = rec[s] /\ disk'[s] = disk[s]
  BY <1>1
<1>3. \A s \in Runs : (Ours(s) <=> Ours(s)') /\ (Ours(s) => \A f \in Files : Same(s, f) <=> Same(s, f)')
  BY <1>2 DEF Ours, Same
<1>4. pub.todo \subseteq Runs /\ pub.done \subseteq Runs /\ (pub.at = "files" => pub.run \in Runs)
  BY <1>1 DEF TypeOK, Publishing
<1>. QED BY <1>1, <1>2, <1>3, <1>4 DEF Faithful

\* A record without artifacts and commit is not valid.
LEMMA BlankIsInvalid == ASSUME NEW files PROVE ~Valid(None, files)
BY DEF Valid, Complete, None

LEMMA LoadFaithful == ASSUME TypeOK, NEW root \in Roots, PublishLoad(root) PROVE Faithful'
<1> DEFINE here == { r \in Runs : RootOf(r) = root /\ rec[r] # None }
<1>1. /\ pub' = [at |-> "record", root |-> root, todo |-> here, loaded |-> rec, done |-> {},
                 run |-> "none", files |-> {}]
      /\ UNCHANGED <<rec, disk, kept>>
  BY DEF PublishLoad, store
<1>2. \A r \in Runs : Ours(r)' => r \in here
  BY <1>1, BlankIsInvalid DEF Ours
<1> HIDE DEF here
<1>3. \A r \in here : RootOf(r) = root
  BY DEF here
<1>. QED BY <1>1, <1>2, <1>3 DEF Faithful

LEMMA TakeFaithful == ASSUME TypeOK, Faithful, PublishTake PROVE Faithful'
<1> SUFFICES ASSUME calm', pub' # Idle PROVE Faithful'
  BY DEF Faithful
<1> DEFINE r == CHOOSE r \in pub.todo : TRUE
           record == pub.loaded[r]
           mark == { f \in Files : record.refs[f] # "none" }
<1>1. pub \in Publishing /\ pub # Idle /\ pub.at = "record" /\ r \in pub.todo
  BY DEF PublishTake, TypeOK, Publishing, Idle
<1>2. calm /\ UNCHANGED <<rec, disk, kept>>
  BY DEF PublishTake, store
<1>3. r \in Runs /\ RootOf(r) = pub.root /\ record = rec[r]
  BY <1>1, <1>2 DEF Faithful, Publishing
<1>4. \/ ~Valid(rec[r], disk[r]) /\ pub' = [pub EXCEPT !.todo = @ \ {r}]
      \/ /\ Valid(rec[r], disk[r])
         /\ pub' = [pub EXCEPT !.at = "files", !.run = r, !.todo = @ \ {r}, !.files = mark]
  BY <1>3 DEF PublishTake
<1>5. \A f \in Files \ mark : rec[r].refs[f] = "none"
  BY <1>3
<1> HIDE DEF r, record, mark
<1>6. CASE ~Valid(rec[r], disk[r]) /\ pub' = [pub EXCEPT !.todo = @ \ {r}]
  <2>1. pub'.root = pub.root /\ pub'.todo = pub.todo \ {r} /\ pub'.done = pub.done
        /\ pub'.at = "record" /\ pub'.loaded = pub.loaded
    BY <1>1, <1>6 DEF Publishing
  <2>2. \A s \in Runs : (Ours(s) <=> Ours(s)') /\ \A f \in Files : Same(s, f) <=> Same(s, f)'
    BY <1>2, <2>1 DEF Ours, Same
  <2>3. ~Ours(r)
    BY <1>6 DEF Ours
  <2>. QED BY <1>1, <1>2, <2>1, <2>2, <2>3 DEF Faithful, Publishing
<1>7. CASE /\ Valid(rec[r], disk[r])
           /\ pub' = [pub EXCEPT !.at = "files", !.run = r, !.todo = @ \ {r}, !.files = mark]
  <2>1. pub'.root = pub.root /\ pub'.todo = pub.todo \ {r} /\ pub'.done = pub.done
        /\ pub'.at = "files" /\ pub'.loaded = pub.loaded /\ pub'.run = r /\ pub'.files = mark
    BY <1>1, <1>7 DEF Publishing
  <2>2. \A s \in Runs : (Ours(s) <=> Ours(s)') /\ \A f \in Files : Same(s, f) <=> Same(s, f)'
    BY <1>2, <2>1 DEF Ours, Same
  <2>3. Ours(r) /\ \A f \in Files \ mark : Same(r, f)
    BY <1>3, <1>5, <1>7 DEF Ours, Same
  <2>. QED BY <1>1, <1>2, <1>3, <2>1, <2>2, <2>3 DEF Faithful, Publishing
<1>. QED BY <1>4, <1>6, <1>7

LEMMA FileFaithful == ASSUME TypeOK, Faithful, PublishFile PROVE Faithful'
<1> SUFFICES ASSUME calm' PROVE Faithful'
  BY DEF Faithful
<1>1. pub \in Publishing /\ pub # Idle /\ pub.at = "files" /\ pub.run \in Runs
  BY DEF PublishFile, TypeOK, Publishing, Idle
<1>2. PICK f \in pub.files : Copied(f) /\ pub' = [pub EXCEPT !.files = @ \ {f}]
  BY DEF PublishFile
<1>3. calm /\ UNCHANGED <<rec, disk>> /\ f \in Files
  BY <1>1 DEF PublishFile, Publishing
<1>4. pub'.root = pub.root /\ pub'.todo = pub.todo /\ pub'.done = pub.done /\ pub'.at = "files"
      /\ pub'.loaded = pub.loaded /\ pub'.run = pub.run /\ pub'.files = pub.files \ {f}
  BY <1>1, <1>2 DEF Publishing
<1>5. \A s \in Runs, g \in Files : kept'[s][g] = IF s = pub.run /\ g = f THEN disk[s][g] ELSE kept[s][g]
  BY <1>1, <1>2, <1>3 DEF Copied, TypeOK
<1>6. \A s \in Runs : Ours(s) <=> Ours(s)'
  BY <1>3, <1>4 DEF Ours
<1>7. \A s \in Runs, g \in Files : (Same(s, g) \/ (s = pub.run /\ g = f)) => Same(s, g)'
  BY <1>3, <1>5 DEF Same
<1>. QED BY <1>1, <1>3, <1>4, <1>6, <1>7 DEF Faithful, Publishing

LEMMA RecordFaithful == ASSUME TypeOK, Faithful, PublishRecord PROVE Faithful'
<1> SUFFICES ASSUME calm' PROVE Faithful'
  BY DEF Faithful
<1>1. pub \in Publishing /\ pub # Idle /\ pub.at = "files" /\ pub.files = {} /\ pub.run \in Runs
  BY DEF PublishRecord, TypeOK, Publishing, Idle
<1>2. calm /\ UNCHANGED <<rec, disk, kept>>
  BY DEF PublishRecord
<1>3. pub'.root = pub.root /\ pub'.todo = pub.todo /\ pub'.done = pub.done \cup {pub.run}
      /\ pub'.at = "record" /\ pub'.loaded = pub.loaded
  BY <1>1 DEF PublishRecord, Publishing
<1>4. \A s \in Runs : (Ours(s) <=> Ours(s)') /\ \A f \in Files : Same(s, f) <=> Same(s, f)'
  BY <1>2, <1>3 DEF Ours, Same
<1>. QED BY <1>1, <1>2, <1>3, <1>4 DEF Faithful, Publishing

LEMMA NextFaithful == IInv /\ Faithful /\ [Next]_vars => Faithful'
<1> SUFFICES ASSUME IInv, Faithful, [Next]_vars PROVE Faithful'
  OBVIOUS
<1> USE DEF IInv
<1>1. ASSUME NEW r \in Runs, Qualify(r) PROVE Faithful'
  <2>1. \A s \in Runs : s # r => rec'[s] = rec[s] /\ disk'[s] = disk[s]
    BY <1>1 DEF Qualify, TypeOK
  <2>. QED BY <1>1, <2>1, OutsideFaithful DEF Qualify, Disturb, store
<1>2. CASE MergeCopy \/ MergeWrite \/ MergeKilled
  <2>1. merge \in Merging
    BY <1>2 DEF MergeCopy, MergeWrite, MergeKilled, TypeOK, Merging, Idle
  <2>2. \A s \in Runs : s # merge.run => rec'[s] = rec[s] /\ disk'[s] = disk[s]
    BY <1>2, <2>1 DEF MergeCopy, MergeWrite, MergeKilled, TypeOK, Merging
  <2>3. UNCHANGED <<pub, kept>> /\ Disturb(merge.run)
    BY <1>2 DEF MergeCopy, MergeWrite, MergeKilled, store
  <2>. QED BY <2>2, <2>3, OutsideFaithful DEF Disturb
<1>3. CASE \E root \in Roots : PublishLoad(root)
  BY <1>3, LoadFaithful
<1>4. CASE PublishTake \/ PublishFile \/ PublishRecord
  BY <1>4, TakeFaithful, FileFaithful, RecordFaithful
<1>5. CASE PublishList \/ PublishKilled
  BY <1>5 DEF PublishList, PublishKilled, Faithful
<1>6. CASE UNCHANGED <<calm, pub, rec, disk, kept>>
  BY <1>6 DEF Faithful, Ours, Same
<1>7. CASE CheckRelease \/ UNCHANGED vars \/ \E r \in Runs : MergeRead(r)
  BY <1>6, <1>7 DEF CheckRelease, vars, MergeRead, store
<1>. QED BY <1>1, <1>2, <1>3, <1>4, <1>5, <1>7 DEF Next

\* One valid record of every pair, all of them listed and whole in the store: no error.
LEMMA ListedIsClean ==
  ASSUME IInv, Faithful, PublishList, calm,
         \A p \in Pairs : Cardinality({ r \in { s \in Runs : Ours(s) } : PairOf(r) = p }) = 1
  PROVE  ~Errors'
<1> USE DEF IInv
<1>1. pub \in Publishing /\ pub # Idle /\ pub.at = "record" /\ pub.todo = {}
  BY DEF PublishList, TypeOK, Publishing, Idle
<1>2. /\ \A r \in Runs : r \in pub.done <=> Ours(r)
      /\ \A r \in pub.done : pub.loaded[r] = rec[r] /\ \A f \in Files : Same(r, f)
  BY <1>1 DEF Faithful, Publishing, Ours
<1>3. \A p \in Pairs : \E x : { r \in { s \in Runs : Ours(s) } : PairOf(r) = p } = {x}
  <2>1. \A p \in Pairs : IsFiniteSet({ r \in { s \in Runs : Ours(s) } : PairOf(r) = p })
    BY EvidenceAssumption, FS_Subset
  <2>. QED BY <2>1, FS_Singleton
<1>4. CASE Pairs = {}
  \* No pair, and so no run: nothing is listed.
  BY <1>4, EvidenceAssumption DEF Errors, Duplicate, Missing, Listed
<1>5. CASE Pairs # {}
  <2>1. pub.done # {}
    BY <1>2, <1>3, <1>5
  <2>2. list' = [r \in Runs |-> IF r \in pub.done THEN rec[r] ELSE None] /\ kept' = kept
    BY <1>2, <2>1 DEF PublishList
  <2>3. Listed' = pub.done
    BY <1>1, <1>2, <2>2, BlankIsInvalid DEF Listed, Ours, Publishing
  <2>4. ~Duplicate'
    <3>1. ASSUME NEW r \in pub.done, NEW s \in pub.done, PairOf(r) = PairOf(s) PROVE r = s
      <4>1. r \in Runs /\ s \in Runs /\ Ours(r) /\ Ours(s) /\ PairOf(r) \in Pairs
        BY <1>1, <1>2, EvidenceAssumption DEF Publishing
      <4>2. PICK x : { t \in { u \in Runs : Ours(u) } : PairOf(t) = PairOf(r) } = {x}
        BY <1>3, <4>1
      <4>. QED BY <4>1, <4>2, <3>1
    <3>. QED BY <3>1, <2>3 DEF Duplicate
  <2>5. ~Missing'
    BY <1>2, <1>3, <2>3 DEF Missing
  <2>6. ASSUME NEW r \in pub.done PROVE Valid(list'[r], kept'[r])
    <3>1. r \in Runs /\ Ours(r) /\ list'[r] = rec[r] /\ kept'[r] = kept[r]
      BY <1>1, <1>2, <2>2 DEF Publishing
    <3>2. \A f \in Files : rec[r].refs[f] # "none" => kept[r][f] = rec[r].refs[f]
      BY <3>1, <1>2 DEF Ours, Valid, Intact, Same
    <3>. QED BY <3>1, <3>2 DEF Ours, Valid, Intact
  <2>. QED BY <2>3, <2>4, <2>5, <2>6 DEF Errors
<1>. QED BY <1>4, <1>5

\* A publication that finishes (evidence_store.py: publish), of a root that did not change
\* meanwhile and holds one valid record of every pair, opens the gate, whatever earlier
\* publications, finished or killed, left in the store.
THEOREM PublicationOpens == Spec => PublishHeals
<1>1. Init => Faithful
  BY DEF Init, Faithful
<1>2. Spec => []Faithful
  BY <1>1, NextFaithful, Invariant, PTL DEF Spec
<1>3. ASSUME IInv, Faithful
      PROVE  LET valid == { r \in Runs : RootOf(r) = pub.root /\ Valid(rec[r], disk[r]) }
             IN PublishList /\ calm /\ (\A p \in Pairs : Cardinality({ r \in valid : PairOf(r) = p }) = 1)
                  => ~Errors'
  BY <1>3, ListedIsClean DEF Ours
<1>4. IInv /\ Faithful =>
        [LET valid == { r \in Runs : RootOf(r) = pub.root /\ Valid(rec[r], disk[r]) }
         IN PublishList /\ calm /\ (\A p \in Pairs : Cardinality({ r \in valid : PairOf(r) = p }) = 1)
              => ~Errors']_vars
  BY <1>3
<1>. QED BY <1>2, <1>4, Invariant, PTL DEF PublishHeals
================================================================================
