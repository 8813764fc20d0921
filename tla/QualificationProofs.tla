-------------------------- MODULE QualificationProofs ---------------------------
(***************************************************************************)
(* Proofs about Qualification, for every set of fixtures and selections,   *)
(* any number of cycles, retries, runs and faults: that a pass means that  *)
(* what the scenario is about was done, that it leaves nothing behind,     *)
(* what a passed record means, and that a spent guest is refused.          *)
(*                                                                         *)
(* The argument is by position.  As long as nothing failed, every step     *)
(* before the present one was executed or was a disconnect with nothing to *)
(* disconnect; so what its call ensures holds (Done), and stays so until a *)
(* later step undoes it (Kept).  Four scenarios check what a command did   *)
(* only later on, and have an annotation of their own.                     *)
(***************************************************************************)
EXTENDS Qualification, TLAPS

Call(p) == Steps[p].call

\* The steps that are over: all of them when the scenario is about to conclude.
Over(p) == p \in 1 .. Len(Steps) /\ (step = 0 \/ p < step)

\* The calls that pass with a valid frame only.
Framing == Connecting \ {"denied"}

\* What a call that found what it looked for ensures for the rest of the scenario ...
Ensured(c) ==
  /\ c \in Framing => "frame" \in did
  /\ c \in Connecting => opened
  /\ c \in {"approved", "granted"} => "Approve" \in did
  /\ c = "denied" => "Deny" \in did
  /\ c = "restart" => "restarted" \in did
  /\ c = "sleep" => "slept" \in did /\ slept
  /\ c = "wake" => "woken" \in did
  /\ c = "input" => "input" \in did
  /\ c \in {"pause", "plug", "unplug"} => c \in did \cup silent
  /\ c = "large" => current = "large"
Done == \A p \in 1 .. Len(Steps) : Over(p) => Ensured(Call(p))

\* ... and what it ensures until one of the calls that spoil it.
Spoils(c) ==
  CASE c = "disconnect" -> Connecting \cup {"secret"}
    [] c \in Framing    -> {"pause", "sleep", "wake", "lock"}
    [] c = "approve"    -> {"deny", "persist", "none"}
    [] c = "unplug"     -> {"plug"}
    [] c = "detach"     -> {"small"}
    [] c = "base"       -> {"small", "large"}
    [] OTHER            -> {}
Effect(c) ==
  CASE c = "disconnect" -> ses = "none"
    [] c \in Framing    -> machine = "running" /\ ~locked
    [] c = "approve"    -> consent = "approve"
    [] c = "unplug"     -> ~second \/ "unplug" \in silent
    [] c = "detach"     -> ~attached
    [] c = "base"       -> mode = "base" \/ "base" \in silent
    [] OTHER            -> TRUE
Unspoilt(p) == \A q \in p + 1 .. Len(Steps) : Over(q) => Call(q) \notin Spoils(Call(p))
Kept == \A p \in 1 .. Len(Steps) : Over(p) /\ Unspoilt(p) => Effect(Call(p))

(* --------------------- what single scenarios need ----------------------- *)

SureRow ==
  /\ step \in 2 .. 5 => ses # "stale"
  /\ step = 4 => (ses = "live" => locked /\ "lock" \in did)
  /\ step = 5 => locked /\ "lock" \in did /\ (ses # "live" => shown = "blank")
  /\ step = 6 => "lock" \in did /\ (~locked => "unlocked" \in did) /\ (ses = "stale" => shown = "blank")
  /\ step \notin 1 .. 6 => ~locked /\ {"lock", "unlocked"} \subseteq did

\* The screen hides the lock, a lost session or a dismissed message; only the live
\* session that was asked after both can tell, and that of a desktop viewer as long as it
\* was not lost.
LockRow == row = 8 /\ ~failed =>
  /\ step # 1 => machine = "running"
  /\ step \in 2 .. 6 => granted
  /\ step = 2 => ~locked
  /\ step = 3 => (locked => "lock" \in did)
  /\ step \in 2 .. 6 /\ ~App /\ "lost" \notin did => ses = "live"
  /\ Sure => SureRow
DenyRow == row = 11 /\ step = 4 => "Deny" \notin events
RestoreRow == row = 12 /\ step \in 2 .. 4 => ~token
ResizeRow == row = 13 /\ ~failed =>
  /\ step \in 3 .. 5 => (mode = "small" => "small" \in did)
  /\ step \notin 1 .. 5 => "small" \in did
ResumedRow ==
  /\ row \in {5, 15} /\ ~failed /\ step # 1 => ses # "stale"
  /\ resumed => /\ machine = "running" /\ ~locked /\ row \in {5, 15}
                /\ row = 5 => step \notin 1 .. 3
                /\ row = 15 => step \notin 1 .. 5
Counting == row = 3 /\ (step = 1 \/ transient) => cycle < Cycles

(* ----------------------------- a whole run ------------------------------ *)

Shape ==
  /\ Order[row].needs \subseteq able /\ Scenario \in only
  /\ raised => failed
  /\ step # 0 /\ Steps[step].runs = "ok" => ~failed
Rows == Counting /\ LockRow /\ DenyRow /\ RestoreRow /\ ResizeRow /\ ResumedRow
InRow == phase = "run" => Shape /\ Rows /\ (~failed => Done /\ Kept)

\* The mode changes late, and a session lives with its compositor.
Early == phase = "begin" \/ (phase = "run" /\ (row < 13 \/ (row = 13 /\ step \in 1 .. 2)))
Fixture ==
  /\ Early => mode = "base"
  /\ phase \in {"begin", "run"} /\ ses = "live" => up

\* What passed stays as it was left, and what was healthy stays so.
Verdicts == phase # "idle" =>
  /\ \A r \in 1 .. 15 : outcome[Order[r].name] = "passed" =>
       Order[r].name \in only /\ (phase = "run" => r < row)
  /\ outcome["resize"] = "passed" => ~attached
  /\ outcome["4k-200"] = "passed" => current = "large" /\ ~locked
  /\ outcome["suspend-resume"] = "passed" => slept
  /\ phase = "versions" \/ (phase = "stop" /\ record # "lost") =>
       (healthy => machine = "running" /\ mode = current)
  /\ phase = "begin" => outcome = NoVerdicts

\* A guest that slept is marked, or does not run, or is about to be marked.
Spent ==
  /\ slept => IsGuest
  /\ slept /\ faults = 0 => marker \/ machine # "running" \/ At("agent")
  /\ phase = "begin" /\ slept => faults >= 1

IInv == TypeOK /\ InRow /\ Fixture /\ Verdicts /\ Spent /\ PassedRecord

(* ------------------------------- the table ------------------------------ *)

\* What the proofs need to know of a scenario's row, whichever it is.
Table(r) == LET s == Order[r].steps IN
  /\ Len(s) \in 1 .. 11
  /\ \A p \in 1 .. Len(s) : s[p].runs \in {"ok", "checked", "raised"}
  \* Only captures, questions and what cleans up run after something went wrong.
  /\ \A p \in 1 .. Len(s) : s[p].call \in Connecting \cup
       {"restart", "pause", "resumed", "sleep", "wake", "agent", "lock", "hidden", "secret", "visible",
        "plug", "small", "size", "idle", "large", "forget", "deny", "persist", "none", "input"}
         => s[p].runs = "ok"
  \* A session is connected before it is recovered or disconnected.
  /\ \A p \in 1 .. Len(s) : s[p].call = "recover" => \E q \in 1 .. p - 1 : s[q].call = "connect"
  /\ \A p \in 1 .. Len(s) : s[p].call = "disconnect" => \E q \in 1 .. p - 1 : s[q].call \in Connecting
  \* It is disconnected at the end, and the machine was seen to run.
  /\ \E p \in 1 .. Len(s) : s[p].call = "disconnect" /\
       \A q \in p + 1 .. Len(s) : s[q].call \notin Connecting \cup {"secret"}
  /\ \E p \in 1 .. Len(s) : s[p].call \in Framing /\
       \A q \in p + 1 .. Len(s) : s[q].call \notin {"pause", "sleep", "wake"}

LEMMA Rows15 ==
  /\ Len(Order) = 15
  /\ Order[1] = Row("first-frame", FirstFrame, {})
  /\ Order[2] = Row("changing-frames", ChangingFrames, {})
  /\ Order[3] = Row("reconnect-20", Reconnect, {})
  /\ Order[4] = Row("viewer-killed", ViewerKilled, {})
  /\ Order[5] = Row("network-interruption", Interruption, {})
  /\ Order[6] = Row("server-restart", ServerRestart, {})
  /\ Order[7] = Row("input", Input, {"input"})
  /\ Order[8] = Row("lock", Lock, {"lock", "input"})
  /\ Order[9] = Row("monitor-change", MonitorChange, {"hotplug"})
  /\ Order[10] = Row("portal-approve", PortalApprove, {"portal"})
  /\ Order[11] = Row("portal-deny", PortalDeny, {"portal"})
  /\ Order[12] = Row("portal-restore", PortalRestore, {"portal"})
  /\ Order[13] = Row("resize", Resize, {"resize"})
  /\ Order[14] = Row("4k-200", HighDpi, {"resize"})
  /\ Order[15] = Row("suspend-resume", SuspendResume, {"suspend"})
BY DEF Order

\* The rows, step by step.
LEMMA FirstFrameSteps ==
  /\ Len(FirstFrame) = 2
  /\ FirstFrame[1] = Step("connect") /\ FirstFrame[2] = Always("disconnect")
BY DEF FirstFrame
LEMMA ChangingFramesSteps ==
  /\ Len(ChangingFrames) = 3
  /\ ChangingFrames[1] = Step("connect") /\ ChangingFrames[2] = Step("capture")
  /\ ChangingFrames[3] = Always("disconnect")
BY DEF ChangingFrames
LEMMA ReconnectSteps ==
  /\ Len(Reconnect) = 2
  /\ Reconnect[1] = Step("connect") /\ Reconnect[2] = Always("disconnect")
BY DEF Reconnect
LEMMA ViewerKilledSteps ==
  /\ Len(ViewerKilled) = 4
  /\ ViewerKilled[1] = Step("connect") /\ ViewerKilled[2] = Always("disconnect")
  /\ ViewerKilled[3] = Step("connect") /\ ViewerKilled[4] = Always("disconnect")
BY DEF ViewerKilled
LEMMA InterruptionSteps ==
  /\ Len(Interruption) = 6
  /\ Interruption[1] = Step("connect") /\ Interruption[2] = Step("pause")
  /\ Interruption[3] = Step("resumed") /\ Interruption[4] = Always("disconnect")
  /\ Interruption[5] = Step("recover") /\ Interruption[6] = Always("disconnect")
BY DEF Interruption
LEMMA ServerRestartSteps ==
  /\ Len(ServerRestart) = 3
  /\ ServerRestart[1] = Step("restart") /\ ServerRestart[2] = Step("connect")
  /\ ServerRestart[3] = Always("disconnect")
BY DEF ServerRestart
LEMMA InputSteps ==
  /\ Len(Input) = 3
  /\ Input[1] = Step("connect") /\ Input[2] = Step("input") /\ Input[3] = Finally("disconnect")
BY DEF Input
LEMMA LockSteps ==
  /\ Len(Lock) = 9
  /\ Lock[1] = Step("connect") /\ Lock[2] = Step("lock") /\ Lock[3] = Step("hidden")
  /\ Lock[4] = Step("alive") /\ Lock[5] = Step("secret") /\ Lock[6] = Step("visible")
  /\ Lock[7] = Step("alive") /\ Lock[8] = Finally("disconnect") /\ Lock[9] = Finally("unlock")
BY DEF Lock
LEMMA MonitorChangeSteps ==
  /\ Len(MonitorChange) = 7
  /\ MonitorChange[1] = Step("connect") /\ MonitorChange[2] = Step("plug")
  /\ MonitorChange[3] = Step("capture") /\ MonitorChange[4] = Always("unplug")
  /\ MonitorChange[5] = Always("capture") /\ MonitorChange[6] = Always("alive")
  /\ MonitorChange[7] = Finally("disconnect")
BY DEF MonitorChange
LEMMA PortalApproveSteps ==
  /\ Len(PortalApprove) = 5
  /\ PortalApprove[1] = Step("forget") /\ PortalApprove[2] = Step("restart")
  /\ PortalApprove[3] = Step("approve") /\ PortalApprove[4] = Step("approved")
  /\ PortalApprove[5] = Always("disconnect")
BY DEF PortalApprove
LEMMA PortalDenySteps ==
  /\ Len(PortalDeny) = 10
  /\ PortalDeny[1] = Step("forget") /\ PortalDeny[2] = Step("restart")
  /\ PortalDeny[3] = Step("deny") /\ PortalDeny[4] = Step("denied")
  /\ PortalDeny[5] = Always("disconnect") /\ PortalDeny[6] = Finally("approve")
  /\ PortalDeny[7] = Step("forget") /\ PortalDeny[8] = Step("restart")
  /\ PortalDeny[9] = Step("connect") /\ PortalDeny[10] = Always("disconnect")
BY DEF PortalDeny
LEMMA PortalRestoreSteps ==
  /\ Len(PortalRestore) = 10
  /\ PortalRestore[1] = Step("forget") /\ PortalRestore[2] = Step("restart")
  /\ PortalRestore[3] = Step("persist") /\ PortalRestore[4] = Step("granted")
  /\ PortalRestore[5] = Always("disconnect") /\ PortalRestore[6] = Step("restart")
  /\ PortalRestore[7] = Step("none") /\ PortalRestore[8] = Step("restored")
  /\ PortalRestore[9] = Always("disconnect") /\ PortalRestore[10] = Finally("approve")
BY DEF PortalRestore
LEMMA ResizeSteps ==
  /\ Len(Resize) = 8
  /\ Resize[1] = Step("connect") /\ Resize[2] = Step("small") /\ Resize[3] = Step("capture")
  /\ Resize[4] = Always("alive") /\ Resize[5] = Step("size") /\ Resize[6] = Finally("detach")
  /\ Resize[7] = Finally("disconnect") /\ Resize[8] = Finally("base")
BY DEF Resize
LEMMA HighDpiSteps ==
  /\ Len(HighDpi) = 5
  /\ HighDpi[1] = Step("idle") /\ HighDpi[2] = Step("large") /\ HighDpi[3] = Step("connect")
  /\ HighDpi[4] = Step("size") /\ HighDpi[5] = Always("disconnect")
BY DEF HighDpi
LEMMA SuspendResumeSteps ==
  /\ Len(SuspendResume) = 8
  /\ SuspendResume[1] = Step("connect") /\ SuspendResume[2] = Step("sleep")
  /\ SuspendResume[3] = Step("wake") /\ SuspendResume[4] = Step("agent")
  /\ SuspendResume[5] = Step("resumed") /\ SuspendResume[6] = Always("disconnect")
  /\ SuspendResume[7] = Step("recover") /\ SuspendResume[8] = Always("disconnect")
BY DEF SuspendResume

LEMMA TableHolds == ASSUME NEW r \in 1 .. 15 PROVE Table(r)
<1>1. CASE r = 1
  <2>1. Order[r].steps = FirstFrame
    BY <1>1, Rows15 DEF Row
  <2>. QED BY <2>1, FirstFrameSteps DEF Table, Step, Always, Finally, Connecting, Framing
<1>2. CASE r = 2
  <2>1. Order[r].steps = ChangingFrames
    BY <1>2, Rows15 DEF Row
  <2>. QED BY <2>1, ChangingFramesSteps DEF Table, Step, Always, Finally, Connecting, Framing
<1>3. CASE r = 3
  <2>1. Order[r].steps = Reconnect
    BY <1>3, Rows15 DEF Row
  <2>. QED BY <2>1, ReconnectSteps DEF Table, Step, Always, Finally, Connecting, Framing
<1>4. CASE r = 4
  <2>1. Order[r].steps = ViewerKilled
    BY <1>4, Rows15 DEF Row
  <2>. QED BY <2>1, ViewerKilledSteps DEF Table, Step, Always, Finally, Connecting, Framing
<1>5. CASE r = 5
  <2>1. Order[r].steps = Interruption
    BY <1>5, Rows15 DEF Row
  <2>. QED BY <2>1, InterruptionSteps DEF Table, Step, Always, Finally, Connecting, Framing
<1>6. CASE r = 6
  <2>1. Order[r].steps = ServerRestart
    BY <1>6, Rows15 DEF Row
  <2>. QED BY <2>1, ServerRestartSteps DEF Table, Step, Always, Finally, Connecting, Framing
<1>7. CASE r = 7
  <2>1. Order[r].steps = Input
    BY <1>7, Rows15 DEF Row
  <2>. QED BY <2>1, InputSteps DEF Table, Step, Always, Finally, Connecting, Framing
<1>8. CASE r = 8
  <2>1. Order[r].steps = Lock
    BY <1>8, Rows15 DEF Row
  <2>. QED BY <2>1, LockSteps DEF Table, Step, Always, Finally, Connecting, Framing
<1>9. CASE r = 9
  <2>1. Order[r].steps = MonitorChange
    BY <1>9, Rows15 DEF Row
  <2>. QED BY <2>1, MonitorChangeSteps DEF Table, Step, Always, Finally, Connecting, Framing
<1>10. CASE r = 10
  <2>1. Order[r].steps = PortalApprove
    BY <1>10, Rows15 DEF Row
  <2>. QED BY <2>1, PortalApproveSteps DEF Table, Step, Always, Finally, Connecting, Framing
<1>11. CASE r = 11
  <2>1. Order[r].steps = PortalDeny
    BY <1>11, Rows15 DEF Row
  <2>. QED BY <2>1, PortalDenySteps DEF Table, Step, Always, Finally, Connecting, Framing
<1>12. CASE r = 12
  <2>1. Order[r].steps = PortalRestore
    BY <1>12, Rows15 DEF Row
  <2>. QED BY <2>1, PortalRestoreSteps DEF Table, Step, Always, Finally, Connecting, Framing
<1>13. CASE r = 13
  <2>1. Order[r].steps = Resize
    BY <1>13, Rows15 DEF Row
  <2>. QED BY <2>1, ResizeSteps DEF Table, Step, Always, Finally, Connecting, Framing
<1>14. CASE r = 14
  <2>1. Order[r].steps = HighDpi
    BY <1>14, Rows15 DEF Row
  <2>. QED BY <2>1, HighDpiSteps DEF Table, Step, Always, Finally, Connecting, Framing
<1>15. CASE r = 15
  <2>1. Order[r].steps = SuspendResume
    BY <1>15, Rows15 DEF Row
  <2>. QED BY <2>1, SuspendResumeSteps DEF Table, Step, Always, Finally, Connecting, Framing
<1>. QED BY <1>1, <1>2, <1>3, <1>4, <1>5, <1>6, <1>7, <1>8, <1>9, <1>10, <1>11, <1>12, <1>13, <1>14, <1>15
\* Where the calls are that only some scenarios make.
Place(r, p, c) ==
  /\ c = "pause" => r = 5 /\ p = 2
  /\ c = "resumed" => (r = 5 /\ p = 3) \/ (r = 15 /\ p = 5)
  /\ c = "recover" => (r = 5 /\ p = 5) \/ (r = 15 /\ p = 7)
  /\ c = "alive" => (r = 8 /\ p \in {4, 7}) \/ (r = 9 /\ p = 6) \/ (r = 13 /\ p = 4)
  /\ c = "capture" => (r = 2 /\ p = 2) \/ (r = 9 /\ p \in {3, 5}) \/ (r = 13 /\ p = 3)
  /\ c = "lock" => r = 8 /\ p = 2
  /\ c = "hidden" => r = 8 /\ p = 3
  /\ c = "secret" => r = 8 /\ p = 5
  /\ c = "visible" => r = 8 /\ p = 6
  /\ c = "unlock" => r = 8 /\ p = 9
  /\ c = "plug" => r = 9 /\ p = 2
  /\ c = "unplug" => r = 9 /\ p = 4
  /\ c = "small" => r = 13 /\ p = 2
  /\ c = "detach" => r = 13 /\ p = 6
  /\ c = "base" => r = 13 /\ p = 8
  /\ c = "size" => (r = 13 /\ p = 5) \/ (r = 14 /\ p = 4)
  /\ c = "idle" => r = 14 /\ p = 1
  /\ c = "large" => r = 14 /\ p = 2
  /\ c = "sleep" => r = 15 /\ p = 2
  /\ c = "wake" => r = 15 /\ p = 3
  /\ c = "agent" => r = 15 /\ p = 4
  /\ c = "input" => r = 7 /\ p = 2
  /\ c \in {"forget", "restart", "deny", "approve", "persist", "none", "approved", "denied", "granted",
            "restored"} => r \in {6, 10, 11, 12}
  /\ c = "denied" => r = 11 /\ p = 4
  /\ r = 12 => (c = "forget" => p = 1) /\ (c = "restart" => p \in {2, 6}) /\ (c = "persist" => p = 3)
               /\ (c = "none" => p = 7) /\ (c = "granted" => p = 4) /\ (c = "restored" => p = 8)
  /\ r = 11 => (c = "deny" => p = 3) /\ (c \in Connecting => p \in {4, 9})
  /\ r \in {3, 5, 8, 9, 13, 15} => (c = "connect" => p = 1)
  /\ c = "disconnect" => (r = 3 => p = 2) /\ (r = 11 => p \in {5, 10}) /\ (r = 5 => p \in {4, 6}) /\ (r \in {9, 13} => p = 7)
                         /\ (r = 8 => p = 8) /\ (r = 15 => p \in {6, 8}) /\ (r = 12 => p \in {5, 9})

LEMMA Places ==
  ASSUME NEW r \in 1 .. 15, NEW p \in 1 .. Len(Order[r].steps)
  PROVE  Place(r, p, Order[r].steps[p].call)
<1>1. CASE r = 1
  <2>1. Order[r].steps = FirstFrame
    BY <1>1, Rows15 DEF Row
  <2>. QED BY <1>1, <2>1, FirstFrameSteps DEF Place, Step, Always, Finally, Connecting
<1>2. CASE r = 2
  <2>1. Order[r].steps = ChangingFrames
    BY <1>2, Rows15 DEF Row
  <2>. QED BY <1>2, <2>1, ChangingFramesSteps DEF Place, Step, Always, Finally, Connecting
<1>3. CASE r = 3
  <2>1. Order[r].steps = Reconnect
    BY <1>3, Rows15 DEF Row
  <2>. QED BY <1>3, <2>1, ReconnectSteps DEF Place, Step, Always, Finally, Connecting
<1>4. CASE r = 4
  <2>1. Order[r].steps = ViewerKilled
    BY <1>4, Rows15 DEF Row
  <2>. QED BY <1>4, <2>1, ViewerKilledSteps DEF Place, Step, Always, Finally, Connecting
<1>5. CASE r = 5
  <2>1. Order[r].steps = Interruption
    BY <1>5, Rows15 DEF Row
  <2>. QED BY <1>5, <2>1, InterruptionSteps DEF Place, Step, Always, Finally, Connecting
<1>6. CASE r = 6
  <2>1. Order[r].steps = ServerRestart
    BY <1>6, Rows15 DEF Row
  <2>. QED BY <1>6, <2>1, ServerRestartSteps DEF Place, Step, Always, Finally, Connecting
<1>7. CASE r = 7
  <2>1. Order[r].steps = Input
    BY <1>7, Rows15 DEF Row
  <2>. QED BY <1>7, <2>1, InputSteps DEF Place, Step, Always, Finally, Connecting
<1>8. CASE r = 8
  <2>1. Order[r].steps = Lock
    BY <1>8, Rows15 DEF Row
  <2>. QED BY <1>8, <2>1, LockSteps DEF Place, Step, Always, Finally, Connecting
<1>9. CASE r = 9
  <2>1. Order[r].steps = MonitorChange
    BY <1>9, Rows15 DEF Row
  <2>. QED BY <1>9, <2>1, MonitorChangeSteps DEF Place, Step, Always, Finally, Connecting
<1>10. CASE r = 10
  <2>1. Order[r].steps = PortalApprove
    BY <1>10, Rows15 DEF Row
  <2>. QED BY <1>10, <2>1, PortalApproveSteps DEF Place, Step, Always, Finally, Connecting
<1>11. CASE r = 11
  <2>1. Order[r].steps = PortalDeny
    BY <1>11, Rows15 DEF Row
  <2>. QED BY <1>11, <2>1, PortalDenySteps DEF Place, Step, Always, Finally, Connecting
<1>12. CASE r = 12
  <2>1. Order[r].steps = PortalRestore
    BY <1>12, Rows15 DEF Row
  <2>. QED BY <1>12, <2>1, PortalRestoreSteps DEF Place, Step, Always, Finally, Connecting
<1>13. CASE r = 13
  <2>1. Order[r].steps = Resize
    BY <1>13, Rows15 DEF Row
  <2>. QED BY <1>13, <2>1, ResizeSteps DEF Place, Step, Always, Finally, Connecting
<1>14. CASE r = 14
  <2>1. Order[r].steps = HighDpi
    BY <1>14, Rows15 DEF Row
  <2>. QED BY <1>14, <2>1, HighDpiSteps DEF Place, Step, Always, Finally, Connecting
<1>15. CASE r = 15
  <2>1. Order[r].steps = SuspendResume
    BY <1>15, Rows15 DEF Row
  <2>. QED BY <1>15, <2>1, SuspendResumeSteps DEF Place, Step, Always, Finally, Connecting
<1>. QED BY <1>1, <1>2, <1>3, <1>4, <1>5, <1>6, <1>7, <1>8, <1>9, <1>10, <1>11, <1>12, <1>13, <1>14, <1>15

\* The scenarios have names of their own.
LEMMA NamesDiffer ==
  /\ \A r, q \in 1 .. 15 : Order[r].name = Order[q].name => r = q
  /\ Names = { Order[r].name : r \in 1 .. 15 }
  /\ Order[1].name = "first-frame" /\ Order[3].name = "reconnect-20" /\ Order[8].name = "lock"
  /\ Order[9].name = "monitor-change" /\ Order[13].name = "resize" /\ Order[14].name = "4k-200"
  /\ Order[15].name = "suspend-resume"
<1>1. Names = { Order[r].name : r \in 1 .. 15 }
  BY Rows15 DEF Names
<1>2. \A r, q \in 1 .. 15 : Order[r].name = Order[q].name => r = q
  BY Rows15 DEF Row
<1>. QED BY <1>1, <1>2, Rows15 DEF Row

\* What is needed of the rows in an order of steps: every question of whether the first
\* connection was made has one answer, and no session is disconnected twice in a row.
Sequel(r) == LET s == Order[r].steps IN
  /\ \A p \in 1 .. Len(s) : (\E q \in 1 .. p - 1 : s[q].call = "connect") =>
       \E q \in 1 .. p - 1 : s[q].call = "connect" /\ \A o \in 1 .. q - 1 : s[o].call # "connect"
  /\ \A p \in 1 .. Len(s) - 1 : s[p].call = "disconnect" => s[p + 1].call # "disconnect"

LEMMA SequelHolds == ASSUME NEW r \in 1 .. 15 PROVE Sequel(r)
<1>1. CASE r = 1
  <2>1. Order[r].steps = FirstFrame
    BY <1>1, Rows15 DEF Row
  <2>. QED BY <2>1, FirstFrameSteps DEF Sequel, Step, Always, Finally
<1>2. CASE r = 2
  <2>1. Order[r].steps = ChangingFrames
    BY <1>2, Rows15 DEF Row
  <2>. QED BY <2>1, ChangingFramesSteps DEF Sequel, Step, Always, Finally
<1>3. CASE r = 3
  <2>1. Order[r].steps = Reconnect
    BY <1>3, Rows15 DEF Row
  <2>. QED BY <2>1, ReconnectSteps DEF Sequel, Step, Always, Finally
<1>4. CASE r = 4
  <2>1. Order[r].steps = ViewerKilled
    BY <1>4, Rows15 DEF Row
  <2>. QED BY <2>1, ViewerKilledSteps DEF Sequel, Step, Always, Finally
<1>5. CASE r = 5
  <2>1. Order[r].steps = Interruption
    BY <1>5, Rows15 DEF Row
  <2>. QED BY <2>1, InterruptionSteps DEF Sequel, Step, Always, Finally
<1>6. CASE r = 6
  <2>1. Order[r].steps = ServerRestart
    BY <1>6, Rows15 DEF Row
  <2>. QED BY <2>1, ServerRestartSteps DEF Sequel, Step, Always, Finally
<1>7. CASE r = 7
  <2>1. Order[r].steps = Input
    BY <1>7, Rows15 DEF Row
  <2>. QED BY <2>1, InputSteps DEF Sequel, Step, Always, Finally
<1>8. CASE r = 8
  <2>1. Order[r].steps = Lock
    BY <1>8, Rows15 DEF Row
  <2>. QED BY <2>1, LockSteps DEF Sequel, Step, Always, Finally
<1>9. CASE r = 9
  <2>1. Order[r].steps = MonitorChange
    BY <1>9, Rows15 DEF Row
  <2>. QED BY <2>1, MonitorChangeSteps DEF Sequel, Step, Always, Finally
<1>10. CASE r = 10
  <2>1. Order[r].steps = PortalApprove
    BY <1>10, Rows15 DEF Row
  <2>. QED BY <2>1, PortalApproveSteps DEF Sequel, Step, Always, Finally
<1>11. CASE r = 11
  <2>1. Order[r].steps = PortalDeny
    BY <1>11, Rows15 DEF Row
  <2>. QED BY <2>1, PortalDenySteps DEF Sequel, Step, Always, Finally
<1>12. CASE r = 12
  <2>1. Order[r].steps = PortalRestore
    BY <1>12, Rows15 DEF Row
  <2>. QED BY <2>1, PortalRestoreSteps DEF Sequel, Step, Always, Finally
<1>13. CASE r = 13
  <2>1. Order[r].steps = Resize
    BY <1>13, Rows15 DEF Row
  <2>. QED BY <2>1, ResizeSteps DEF Sequel, Step, Always, Finally
<1>14. CASE r = 14
  <2>1. Order[r].steps = HighDpi
    BY <1>14, Rows15 DEF Row
  <2>. QED BY <2>1, HighDpiSteps DEF Sequel, Step, Always, Finally
<1>15. CASE r = 15
  <2>1. Order[r].steps = SuspendResume
    BY <1>15, Rows15 DEF Row
  <2>. QED BY <2>1, SuspendResumeSteps DEF Sequel, Step, Always, Finally
<1>. QED BY <1>1, <1>2, <1>3, <1>4, <1>5, <1>6, <1>7, <1>8, <1>9, <1>10, <1>11, <1>12, <1>13, <1>14, <1>15

(* -------------------- from one step to the next ------------------------- *)

\* A set of steps that is not empty has a first one.
LEMMA Least == ASSUME NEW S, S \subseteq 1 .. 15, S # {}
               PROVE \E q \in S : \A o \in S : q <= o
<1>. SUFFICES ASSUME \A q \in S : \E o \in S : o < q PROVE FALSE
  <2>1. \A q, o \in 1 .. 15 : ~(q <= o) => o < q
    OBVIOUS
  <2>. QED BY <2>1
<1>1. 1 \notin S OBVIOUS
<1>2. 2 \notin S BY <1>1
<1>3. 3 \notin S BY <1>1, <1>2
<1>4. 4 \notin S BY <1>1, <1>2, <1>3
<1>5. 5 \notin S BY <1>1, <1>2, <1>3, <1>4
<1>6. 6 \notin S BY <1>1, <1>2, <1>3, <1>4, <1>5
<1>7. 7 \notin S BY <1>1, <1>2, <1>3, <1>4, <1>5, <1>6
<1>8. 8 \notin S BY <1>1, <1>2, <1>3, <1>4, <1>5, <1>6, <1>7
<1>9. 9 \notin S BY <1>1, <1>2, <1>3, <1>4, <1>5, <1>6, <1>7, <1>8
<1>10. 10 \notin S BY <1>1, <1>2, <1>3, <1>4, <1>5, <1>6, <1>7, <1>8, <1>9
<1>11. 11 \notin S BY <1>1, <1>2, <1>3, <1>4, <1>5, <1>6, <1>7, <1>8, <1>9, <1>10
<1>12. 12 \notin S BY <1>1, <1>2, <1>3, <1>4, <1>5, <1>6, <1>7, <1>8, <1>9, <1>10, <1>11
<1>13. 13 \notin S BY <1>1, <1>2, <1>3, <1>4, <1>5, <1>6, <1>7, <1>8, <1>9, <1>10, <1>11, <1>12
<1>14. 14 \notin S BY <1>1, <1>2, <1>3, <1>4, <1>5, <1>6, <1>7, <1>8, <1>9, <1>10, <1>11, <1>12, <1>13
<1>15. 15 \notin S BY <1>1, <1>2, <1>3, <1>4, <1>5, <1>6, <1>7, <1>8, <1>9, <1>10, <1>11, <1>12, <1>13, <1>14
<1>16. \A q \in 1 .. 15 : q \in {1, 2, 3, 4, 5, 6, 7, 8, 9, 10, 11, 12, 13, 14, 15}
  OBVIOUS
<1>17. PICK q \in S : TRUE
  OBVIOUS
<1>18. q \in {1, 2, 3, 4, 5, 6, 7, 8, 9, 10, 11, 12, 13, 14, 15}
  BY <1>16, <1>17
<1>. QED BY <1>1, <1>2, <1>3, <1>4, <1>5, <1>6, <1>7, <1>8, <1>9, <1>10, <1>11, <1>12, <1>13, <1>14, <1>15, <1>17, <1>18

\* The next step is the first that can run, and there is none only when none can.
LEMMA AfterShape ==
  ASSUME row \in 1 .. 15, step \in Nat, NEW wrong \in BOOLEAN, NEW broke \in BOOLEAN
  PROVE  /\ After(wrong, broke) = 0 \/ (/\ After(wrong, broke) \in step + 1 .. Len(Steps)
                                        /\ Runnable(After(wrong, broke), wrong, broke))
         /\ \A q \in step + 1 .. Len(Steps) :
              Runnable(q, wrong, broke) => After(wrong, broke) # 0 /\ After(wrong, broke) <= q
<1>. DEFINE rest == { q \in step + 1 .. Len(Steps) : Runnable(q, wrong, broke) }
            a == After(wrong, broke)
<1>1. Len(Steps) \in 1 .. 11
  BY TableHolds DEF Table, Steps
<1>2. rest \subseteq 1 .. 15
  <2>1. \A n \in 1 .. 11, m \in Nat : \A q \in m + 1 .. n : q \in 1 .. 15
    OBVIOUS
  <2>2. rest \subseteq step + 1 .. Len(Steps)
    OBVIOUS
  <2>. QED
    <3>. HIDE DEF rest
    <3>. QED BY <1>1, <2>1, <2>2
<1>3. CASE rest = {}
  <2>1. a = 0
    BY <1>3 DEF After
  <2>. QED BY <1>3, <2>1
<1>4. CASE rest # {}
  <2>1. a = CHOOSE q \in rest : \A o \in rest : q <= o
    BY <1>4 DEF After
  <2>2. \E q \in rest : \A o \in rest : q <= o
    <3>. HIDE DEF rest
    <3>. QED BY <1>2, <1>4, Least
  <2>3. a \in rest /\ \A o \in rest : a <= o
    <3>. HIDE DEF rest, a
    <3>. QED BY <2>1, <2>2
  <2>4. a # 0
    BY <2>3
  <2>. QED BY <2>3, <2>4
<1>. QED BY <1>3, <1>4
\* A step of a scenario that goes on to the next one, or to the end.
InStep == TypeOK /\ phase = "run" /\ step # 0
Walks ==
  /\ phase' = phase /\ row' = row /\ UNCHANGED <<able, only>>
  /\ failed' \in BOOLEAN /\ (failed => failed')
  /\ raised' \in BOOLEAN /\ (raised' = raised \/ failed') /\ hung' \in BOOLEAN
  /\ step' = After(failed', raised') \/ (step' = 0 /\ failed')

\* Where it goes: forward, and to a step that may run.
LEMMA Forward ==
  ASSUME InStep, Shape, Walks
  PROVE  /\ row \in 1 .. 15 /\ step \in 1 .. Len(Steps) /\ Steps' = Steps
         /\ step' = 0 \/ (step' \in step + 1 .. Len(Steps) /\ Runnable(step', failed', raised'))
         /\ ~failed' => \A q \in step + 1 .. Len(Steps) :
              Runnable(q, failed', raised') => step' # 0 /\ step' <= q
         /\ Shape'
<1>1. row \in 1 .. 15 /\ step \in 1 .. Len(Steps) /\ Len(Steps) \in 1 .. 11
  <2>1. row \in 1 .. 15
    BY Rows15 DEF InStep, TypeOK
  <2>2. Len(Steps) \in 1 .. 11
    BY <2>1, TableHolds DEF Table, Steps
  <2>3. step \in 0 .. Len(Steps) /\ step # 0
    BY DEF InStep, TypeOK
  <2>4. \A n \in 1 .. 11 : \A q \in 0 .. n : q # 0 => q \in 1 .. n
    OBVIOUS
  <2>. QED BY <2>1, <2>2, <2>3, <2>4
<1>2. Steps' = Steps
  BY DEF Walks, Steps
<1>3. failed' \in BOOLEAN /\ raised' \in BOOLEAN
  BY DEF Walks, InStep, TypeOK
<1>4. /\ step' = 0 \/ (step' \in step + 1 .. Len(Steps) /\ Runnable(step', failed', raised'))
      /\ ~failed' => \A q \in step + 1 .. Len(Steps) :
              Runnable(q, failed', raised') => step' # 0 /\ step' <= q
  <2>1. CASE step' = After(failed', raised')
    BY <1>1, <1>3, <2>1, AfterShape
  <2>2. CASE step' = 0 /\ failed'
    BY <2>2
  <2>. QED BY <2>1, <2>2 DEF Walks
<1>5. raised' => failed'
  BY DEF Walks, Shape
<1>6. step' # 0 /\ Steps[step'].runs = "ok" => ~failed'
  BY <1>4 DEF Runnable
<1>. QED BY <1>1, <1>2, <1>4, <1>5, <1>6 DEF Shape, Walks, Scenario
\* What a step does not undo, except where its call is known to spoil it.
Keeps ==
  /\ did \subseteq did' /\ silent \subseteq silent' /\ (opened => opened') /\ (slept => slept') /\ current' \in {current, "large"}
  /\ ses = "none" => ses' = "none" \/ Call(step) \in Connecting \cup {"secret"}
  /\ machine = "running" => machine' = "running" \/ Call(step) \in {"pause", "sleep", "wake"}
  /\ ~locked => ~locked' \/ Call(step) = "lock"
  /\ consent = "approve" => consent' = "approve" \/ Call(step) \in {"deny", "persist", "none"}
  /\ ~second => ~second' \/ Call(step) = "plug"
  /\ ~attached => ~attached' \/ Call(step) = "small"
  /\ mode = "base" => mode' = "base" \/ Call(step) \in {"small", "large"}

\* What the call of a step is to achieve when nothing failed.
Met == \A c : c = Call(step) => Ensured(c)' /\ Effect(c)'

\* Without a failure only a disconnect with nothing to disconnect is skipped.
LEMMA SkipsLittle ==
  ASSUME InStep, Shape, Walks, ~failed, ~failed', Done, Keeps, Met
  PROVE  \A p \in step + 1 .. Len(Steps) :
           Over(p)' => Call(p) = "disconnect" /\ ses' = "none"
<1>1. /\ row \in 1 .. 15 /\ step \in 1 .. Len(Steps) /\ Steps' = Steps
      /\ \A q \in step + 1 .. Len(Steps) :
              Runnable(q, failed', raised') => step' # 0 /\ step' <= q
      /\ step' \in Nat /\ Len(Steps) \in Nat
  <2>1. Len(Steps) \in 1 .. 11 /\ row \in 1 .. 15
    BY Forward, TableHolds DEF Table, Steps
  <2>. QED BY <2>1, Forward
<1>2. ~raised'
  BY DEF Shape, Walks
<1>3. \A q \in step + 1 .. Len(Steps) : Over(q)' => ~Runnable(q, FALSE, FALSE)
  <2>. SUFFICES ASSUME NEW q \in step + 1 .. Len(Steps), Over(q)', Runnable(q, FALSE, FALSE) PROVE FALSE
    OBVIOUS
  <2>1. failed' = FALSE /\ raised' = FALSE
    BY <1>2 DEF Walks, InStep, TypeOK
  <2>2. step' = 0 \/ q < step'
    BY <1>1 DEF Over
  <2>3. q \in Nat
    BY <1>1
  <2>4. Runnable(q, failed', raised')
    BY <2>1
  <2>5. step' # 0 /\ step' <= q
    BY <1>1, <2>4
  <2>. QED BY <1>1, <2>2, <2>3, <2>5
<1>4. \A q \in step + 1 .. Len(Steps) : Steps[q].runs \in {"ok", "checked", "raised"}
  <2>1. \A q \in step + 1 .. Len(Steps) : q \in 1 .. Len(Steps)
    BY <1>1
  <2>. QED BY <1>1, <2>1, TableHolds DEF Table, Steps
<1>5. \A q \in step + 1 .. Len(Steps) : Over(q)' =>
        IF Call(q) = "disconnect" THEN ~(opened' /\ ses' # "none") ELSE ~Begun(q)
  BY <1>3, <1>4 DEF Runnable, Call
<1>6. \A q \in 1 .. step : \A c : c = Call(q) => Ensured(c)'
  <2>. SUFFICES ASSUME NEW q \in 1 .. step PROVE \A c : c = Call(q) => Ensured(c)'
    OBVIOUS
  <2>2. CASE q = step
    BY <2>2 DEF Met
  <2>3. CASE q # step
    <3>1. Over(q)
      BY <1>1, <2>3 DEF Over
    <3>2. Ensured(Call(q))
      BY <1>1, <3>1 DEF Done, Over
    <3>. QED BY <3>2 DEF Ensured, Keeps
  <2>. QED BY <2>2, <2>3
<1>7. \A p \in step + 1 .. Len(Steps) : Over(p)' => \A q \in step + 1 .. p - 1 :
        q \in step + 1 .. Len(Steps) /\ Over(q)'
  <2>1. \A p, q : p \in step + 1 .. Len(Steps) /\ q \in step + 1 .. p - 1 =>
          q \in step + 1 .. Len(Steps) /\ q \in 1 .. Len(Steps) /\ q < p /\ p \in Nat /\ q \in Nat
    BY <1>1
  <2>. QED BY <1>1, <2>1 DEF Over
<1>8. ASSUME NEW p \in step + 1 .. Len(Steps), Over(p)', Call(p) # "disconnect" PROVE FALSE
  <2>1. ~Begun(p)
    BY <1>5, <1>8
  <2>2. "frame" \notin did' /\ \E q \in 1 .. p - 1 : Steps[q].call = "connect"
    BY <2>1 DEF Begun
  <2>3. p \in 1 .. Len(Steps)
    BY <1>1
  <2>4. Sequel(row)
    BY <1>1, SequelHolds
  <2>5. PICK q \in 1 .. p - 1 : Steps[q].call = "connect" /\ \A o \in 1 .. q - 1 : Steps[o].call # "connect"
    BY <2>2, <2>3, <2>4 DEF Sequel, Steps
  <2>6. CASE q <= step
    <3>1. \A c : c = "connect" => Ensured(c)'
      BY <1>1, <1>6, <2>5, <2>6 DEF Call
    <3>. QED BY <2>2, <3>1 DEF Ensured, Framing, Connecting
  <2>7. CASE q > step
    <3>1. q \in step + 1 .. p - 1
      BY <1>1, <2>3, <2>7
    <3>2. q \in step + 1 .. Len(Steps) /\ Over(q)'
      BY <1>7, <1>8, <3>1
    <3>3. ~Begun(q)
      BY <1>5, <2>5, <3>2 DEF Call
    <3>. QED BY <2>5, <3>3 DEF Begun
  <2>. QED BY <1>1, <2>3, <2>6, <2>7
<1>9. ASSUME NEW p \in step + 1 .. Len(Steps), Over(p)', Call(p) = "disconnect" PROVE ses' = "none"
  <2>1. opened' => ses' = "none"
    BY <1>5, <1>9
  <2>2. p \in 1 .. Len(Steps)
    BY <1>1
  <2>3. PICK q \in 1 .. p - 1 : Steps[q].call \in Connecting
    BY <1>1, <1>9, <2>2, TableHolds DEF Table, Steps, Call
  <2>4. CASE q <= step
    <3>1. \A c : c = Call(q) => Ensured(c)'
      BY <1>1, <1>6, <2>4
    <3>2. \A c : Ensured(c)' /\ c \in Connecting => opened'
      BY DEF Ensured
    <3>. QED BY <2>1, <2>3, <3>1, <3>2 DEF Call
  <2>5. CASE q > step
    <3>1. q \in step + 1 .. p - 1
      BY <1>1, <2>2, <2>5
    <3>2. q \in step + 1 .. Len(Steps) /\ Over(q)'
      BY <1>7, <1>9, <3>1
    <3>3. Call(q) = "disconnect"
      BY <1>8, <3>2
    <3>. QED BY <2>3, <3>3 DEF Call, Connecting
  <2>. QED BY <1>1, <2>2, <2>4, <2>5
<1>. QED BY <1>8, <1>9

\* So the annotations hold for the next step too.
LEMMA Advance ==
  ASSUME InStep, Shape, Walks, ~failed, ~failed', Done, Kept, Keeps, Met
  PROVE  Done' /\ Kept'
<1>1. /\ row \in 1 .. 15 /\ step \in 1 .. Len(Steps) /\ Steps' = Steps
      /\ step' \in Nat /\ Len(Steps) \in 1 .. 11
      /\ step' = 0 \/ step' > step
  <2>1. Len(Steps) \in 1 .. 11 /\ row \in 1 .. 15
    BY Forward, TableHolds DEF Table, Steps
  <2>. QED BY <2>1, Forward
<1>2. \A p \in 1 .. Len(Steps) : Call(p)' = Call(p)
  BY <1>1 DEF Call
<1>3. \A p \in 1 .. Len(Steps) : p < step \/ p = step \/ p \in step + 1 .. Len(Steps)
  BY <1>1
<1>4. \A p \in step + 1 .. Len(Steps) : Over(p)' => Call(p) = "disconnect" /\ ses' = "none"
  BY SkipsLittle
<1>5. \A p \in 1 .. Len(Steps) : p < step => Over(p)
  BY DEF Over
<1>6. ASSUME NEW p \in 1 .. Len(Steps), Over(p)' PROVE \A c : c = Call(p) => Ensured(c)'
  <2>1. CASE p < step
    <3>1. Ensured(Call(p))
      BY <1>5, <2>1 DEF Done
    <3>. QED BY <3>1 DEF Ensured, Keeps
  <2>2. CASE p = step
    BY <2>2 DEF Met
  <2>3. CASE p \in step + 1 .. Len(Steps)
    <3>1. Call(p) = "disconnect"
      BY <1>4, <1>6, <2>3
    <3>. QED BY <3>1 DEF Ensured, Framing, Connecting
  <2>. QED BY <1>3, <2>1, <2>2, <2>3
<1>7. ASSUME NEW p \in 1 .. Len(Steps), Over(p)', Unspoilt(p)' PROVE \A c : c = Call(p) => Effect(c)'
  <2>1. CASE p < step
    <3>1. \A q \in 1 .. Len(Steps) : Over(q) \/ q = step => Over(q)'
      <4>. SUFFICES ASSUME NEW q \in 1 .. Len(Steps), Over(q) \/ q = step PROVE Over(q)'
        OBVIOUS
      <4>1. q <= step \/ step = 0
        BY <1>1 DEF Over
      <4>2. step' = 0 \/ q < step'
        BY <1>1, <4>1
      <4>. QED BY <1>1, <4>2 DEF Over
    <3>2. \A q \in p + 1 .. Len(Steps) : q \in 1 .. Len(Steps) /\ (Over(q)' => Call(q) \notin Spoils(Call(p)))
      <4>1. \A q \in p + 1 .. Len(Steps) : q \in 1 .. Len(Steps)
        BY <1>1
      <4>2. \A q \in p + 1 .. Len(Steps) : Over(q)' => Call(q)' \notin Spoils(Call(p)')
        BY <1>1, <1>7 DEF Unspoilt, Spoils
      <4>. QED BY <1>2, <4>1, <4>2
    <3>3. Unspoilt(p)
      BY <3>1, <3>2 DEF Unspoilt
    <3>4. step \in p + 1 .. Len(Steps)
      BY <1>1, <2>1
    <3>5. Call(step) \notin Spoils(Call(p))
      <4>1. \A q \in p + 1 .. Len(Steps) : q = step => Call(q) \notin Spoils(Call(p))
        BY <3>1, <3>2
      <4>. QED BY <3>4, <4>1
    <3>6. Effect(Call(p))
      BY <1>5, <2>1, <3>3 DEF Kept
    <3>7. \A c : Effect(c) /\ Call(step) \notin Spoils(c) => Effect(c)'
      BY DEF Effect, Spoils, Keeps
    <3>. QED BY <3>5, <3>6, <3>7
  <2>2. CASE p = step
    BY <2>2 DEF Met
  <2>3. CASE p \in step + 1 .. Len(Steps)
    <3>1. Call(p) = "disconnect" /\ ses' = "none"
      BY <1>4, <1>7, <2>3
    <3>. QED BY <3>1 DEF Effect, Framing, Connecting
  <2>. QED BY <1>3, <2>1, <2>2, <2>3
<1>8. Done'
  BY <1>1, <1>2, <1>6 DEF Done
<1>9. Kept'
  BY <1>1, <1>2, <1>7 DEF Kept
<1>. QED BY <1>8, <1>9
\* And the step after a step is the next one, unless that one disconnects.
LEMMA Succeeds ==
  ASSUME InStep, Shape, Walks, ~failed, ~failed', Done, Keeps, Met,
         NEW n \in 1 .. 11, n = step + 1, n <= Len(Steps), Steps[n].call # "disconnect"
  PROVE  step' = n
<1>1. /\ step \in 1 .. Len(Steps) /\ Steps' = Steps /\ Len(Steps) \in 1 .. 11
      /\ step' = 0 \/ step' \in step + 1 .. Len(Steps)
  <2>1. Len(Steps) \in 1 .. 11
    BY Forward, TableHolds DEF Table, Steps
  <2>. QED BY <2>1, Forward
<1>2. n \in step + 1 .. Len(Steps) /\ n \in 1 .. Len(Steps)
  BY <1>1
<1>3. ~Over(n)'
  BY <1>2, SkipsLittle DEF Call
<1>4. step' # 0 /\ ~(n < step')
  BY <1>1, <1>2, <1>3 DEF Over
<1>. QED BY <1>1, <1>4

\* What else a step of a scenario leaves alone.
Gentle ==
  /\ UNCHANGED <<outcome, healthy, record>> /\ current' \in {current, "large"}
  /\ mode' \in {mode, "base"} \/ row = 14 \/ (row = 13 /\ step = 2)
  /\ ses' = "live" => up'
  /\ locked' => locked \/ row = 8
  /\ attached' => attached \/ row = 13
  /\ slept => slept'

LEMMA Walking ==
  ASSUME IInv, phase = "run", step # 0, Walks, Gentle, ~failed' => Keeps /\ Met,
         TypeOK', Rows', Spent'
  PROVE  IInv'
<1>1. InStep /\ Shape /\ (~failed => Done /\ Kept)
  BY DEF IInv, InStep, InRow
<1>2. /\ row \in 1 .. 15 /\ step \in 1 .. Len(Steps) /\ Steps' = Steps /\ Len(Steps) \in 1 .. 11
      /\ step' = 0 \/ step' \in step + 1 .. Len(Steps)
      /\ Shape'
  <2>1. Len(Steps) \in 1 .. 11
    BY <1>1, Forward, TableHolds DEF Table, Steps
  <2>. QED BY <1>1, <2>1, Forward
<1>3. ~failed' => Done' /\ Kept'
  <2>1. ~failed' => ~failed
    BY DEF Walks
  <2>. QED BY <1>1, <2>1, Advance
<1>4. InRow'
  BY <1>2, <1>3 DEF InRow
<1>5. Fixture'
  <2>1. phase' = "run" /\ row' = row /\ (row < 13 \/ (row = 13 /\ step' \in 1 .. 2) => mode' = mode \/ mode' = "base")
    BY <1>2 DEF Gentle, Walks
  <2>2. row < 13 \/ (row = 13 /\ step' \in 1 .. 2) => Early
    BY <1>2 DEF Early
  <2>. QED BY <2>1, <2>2 DEF Fixture, Early, Gentle, IInv
<1>6. Verdicts'
  <2>1. Verdicts /\ phase' = "run" /\ row' = row /\ only' = only /\ outcome' = outcome
    BY DEF IInv, Walks, Gentle
  <2>2. \A r \in 1 .. 15 : outcome[Order[r].name] = "passed" => r < row
    BY <2>1 DEF Verdicts
  <2>3. /\ outcome["4k-200"] = "passed" => row # 8
        /\ outcome["resize"] = "passed" => row # 13
    BY <1>2, <2>2, NamesDiffer
  <2>. QED BY <2>1, <2>3 DEF Verdicts, Gentle
<1>7. PassedRecord'
  BY DEF PassedRecord, Walks
<1>. QED BY <1>4, <1>5, <1>6, <1>7 DEF IInv

\* A guest that is left alone is as much spent as it was.
LEMMA SpentStays ==
  ASSUME IInv, phase = "run", phase' = "run", UNCHANGED <<guest, able>>, ~At("agent"),
         faults' \in {faults, faults + 1}
  PROVE  Spent'
<1>1. faults' = 0 => faults = 0
  BY DEF IInv, TypeOK
<1>. QED BY <1>1 DEF Spent, IInv, IsGuest, guest
(* ------------------------ the steps of a scenario ----------------------- *)

LEMMA TypeWalks ==
  ASSUME IInv, phase = "run", step # 0, Walks
  PROVE  /\ row' \in 1 .. Len(Order) /\ step' \in 0 .. Len(Steps)' /\ Scenario' = Scenario
         /\ failed' \in BOOLEAN /\ raised' \in BOOLEAN /\ hung' \in BOOLEAN /\ phase' = "run"
<1>1. InStep /\ Shape
  BY DEF IInv, InStep, InRow
<1>2. row' = row /\ Steps' = Steps
  BY DEF Walks, Steps
<1>3. step' \in 0 .. Len(Steps)
  <2>1. step \in 1 .. Len(Steps) /\ Len(Steps) \in 1 .. 11 /\ (step' = 0 \/ step' \in step + 1 .. Len(Steps))
    BY <1>1, Forward, TableHolds DEF Table, Steps
  <2>. QED BY <2>1
<1>. QED BY <1>1, <1>2, <1>3 DEF InStep, TypeOK, Walks, Scenario

\* The annotations of the rows that have no command to be checked later on.
LEMMA RowsElse ==
  ASSUME IInv, phase = "run", step # 0, Walks,
         row = 3 /\ transient' => cycle' < Cycles,
         row = 11 /\ step' = 4 => "Deny" \notin events',
         row = 12 => (token' => token \/ step >= 4) /\ (step = 1 /\ step' \in 2 .. 4 => ~token'),
         row \in {5, 15} /\ ~failed' => ses' # "stale" \/ (ses' = ses /\ step # 1),
         resumed' => \/ resumed /\ machine' = machine /\ (locked' => locked)
                     \/ machine' = "running" /\ ~locked' /\ <<row, step>> \in {<<5, 3>>, <<15, 5>>}
  PROVE  /\ Counting' /\ DenyRow' /\ RestoreRow' /\ ResumedRow'
         /\ row \notin {8, 13} => Rows'
<1>1. InStep /\ Shape /\ Rows
  BY DEF IInv, InStep, InRow
<1>2. /\ row \in 1 .. 15 /\ row' = row /\ step \in 1 .. 11 /\ step' \in 0 .. 11
      /\ step' = 0 \/ step' > step
  <2>1. step \in 1 .. Len(Steps) /\ Len(Steps) \in 1 .. 11 /\ (step' = 0 \/ step' \in step + 1 .. Len(Steps))
    BY <1>1, Forward, TableHolds DEF Table, Steps
  <2>2. row \in 1 .. 15 /\ row' = row
    BY <1>1, Forward DEF Walks
  <2>3. \A n \in 1 .. 11 : \A q \in 1 .. n : q \in 1 .. 11 /\ \A o \in q + 1 .. n : o \in 0 .. 11 /\ o > q
    OBVIOUS
  <2>4. step \in 1 .. 11 /\ \A o \in step + 1 .. Len(Steps) : o \in 0 .. 11 /\ o > step
    BY <2>1, <2>3
  <2>5. step' \in 0 .. 11 /\ (step' = 0 \/ step' > step)
    BY <2>1, <2>4
  <2>. QED BY <2>2, <2>4, <2>5
<1>3. Counting'
  BY <1>2 DEF Counting
<1>4. RestoreRow'
  BY <1>1, <1>2 DEF RestoreRow, Rows
<1>6. DenyRow'
  BY <1>2 DEF DenyRow
<1>5. ResumedRow'
  <2>1. ~failed' => ~failed
    BY DEF Walks
  <2>2. row' \in {5, 15} /\ ~failed' /\ step' # 1 => ses' # "stale"
    BY <1>1, <1>2, <2>1 DEF ResumedRow, Rows
  <2>3. ASSUME resumed' PROVE /\ machine' = "running" /\ ~locked' /\ row' \in {5, 15}
                              /\ row' = 5 => step' \notin 1 .. 3
                              /\ row' = 15 => step' \notin 1 .. 5
    <3>1. CASE resumed /\ machine' = machine /\ (locked' => locked)
      BY <1>1, <1>2, <3>1 DEF ResumedRow, Rows
    <3>2. CASE machine' = "running" /\ ~locked' /\ <<row, step>> \in {<<5, 3>>, <<15, 5>>}
      <4>1. (row = 5 /\ step = 3) \/ (row = 15 /\ step = 5)
        BY <3>2
      <4>. QED BY <1>2, <3>2, <4>1
    <3>. QED BY <2>3, <3>1, <3>2
  <2>. QED BY <2>2, <2>3 DEF ResumedRow
<1>. QED BY <1>2, <1>3, <1>4, <1>5, <1>6 DEF Rows, LockRow, ResizeRow

\* Where a step is, from its call.
LEMMA Where ==
  ASSUME IInv, phase = "run", step # 0
  PROVE  /\ row \in 1 .. 15 /\ step \in 1 .. Len(Steps) /\ Len(Steps) \in 1 .. 11
         /\ Place(row, step, Call(step))
         /\ Steps[step].runs # "ok" \/ ~failed
<1>1. InStep /\ Shape
  BY DEF IInv, InStep, InRow
<1>2. row \in 1 .. 15 /\ step \in 1 .. Len(Steps) /\ Len(Steps) \in 1 .. 11
  <2>1. row \in 1 .. 15 /\ step \in 0 .. Len(Steps) /\ step # 0
    BY <1>1, Rows15 DEF InStep, TypeOK
  <2>2. Len(Steps) \in 1 .. 11
    BY <2>1, TableHolds DEF Table, Steps
  <2>3. \A n \in 1 .. 11 : \A q \in 0 .. n : q # 0 => q \in 1 .. n
    OBVIOUS
  <2>. QED BY <2>1, <2>2, <2>3
<1>3. Place(row, step, Call(step))
  BY <1>2, Places DEF Call, Steps
<1>. QED BY <1>1, <1>2, <1>3 DEF Shape, InStep
\* The steps that only look, or only concern the session.
Looks == SkipRecover \/ Disconnect \/ AskAlive \/ Resumed \/ AskSize \/ WaitIdle
         \/ \E c \in {"capture", "visible", "hidden"} : Capture(c)

LEMMA LooksFacts ==
  ASSUME IInv, Looks
  PROVE  /\ phase = "run" /\ step # 0 /\ Walks /\ Others
         /\ UNCHANGED <<fixture, guest, attached, silent, did, faults, shown, old>>
         /\ ses' = ses \/ (Call(step) = "disconnect" /\ ses' = "none")
         /\ resumed' = resumed \/ (Call(step) = "resumed" /\ resumed' \in BOOLEAN
                                   /\ (resumed' => Alive /\ Shows = "scene"))
         /\ Call(step) \in {"recover", "disconnect", "alive", "resumed", "size", "idle", "capture",
                            "visible", "hidden"}
         /\ Call(step) = "recover" => resumed
         /\ Call(step) = "alive" /\ ~failed' => Alive
         /\ Call(step) = "disconnect" => ses' = "none"
         /\ Call(step) = "size" /\ ~failed' => mode = IF Scenario = "resize" THEN "small" ELSE "large"
         /\ Call(step) = "hidden" /\ ~failed' => Shows # "scene"
         /\ Call(step) = "visible" /\ ~failed' => Shows = "scene"
         /\ dead' \in BOOLEAN
<1>1. TypeOK
  BY DEF IInv
<1>2. Alive \in BOOLEAN /\ App \in BOOLEAN /\ Picture \in BOOLEAN /\ Hidden \in BOOLEAN
  <2>1. App \in BOOLEAN
    BY DEF App
  <2>2. Alive \in BOOLEAN
    <3>1. CASE App
      <4>1. Alive = (ses = "live" \/ (ses = "stale" /\ ~dead))
        BY <3>1 DEF Alive
      <4>. QED BY <4>1, Zenon
    <3>2. CASE ~App
      <4>1. Alive = (ses # "none")
        BY <3>2 DEF Alive
      <4>. QED BY <4>1, Zenon
    <3>. QED BY <2>1, <3>1, <3>2
  <2>3. Picture \in BOOLEAN /\ Hidden \in BOOLEAN
    BY Zenon DEF Picture, Hidden
  <2>. QED BY <2>1, <2>2, <2>3
<1>3. CASE SkipRecover
  BY <1>1, <1>3 DEF SkipRecover, Proceed, Ends, Check, Walks, Others, result, TypeOK, At, Call, viewer
<1>4. CASE Disconnect
  BY <1>1, <1>4 DEF Disconnect, Proceed, Ends, Check, Walks, Others, result, TypeOK, At, Call
<1>5. Asked => dead' \in BOOLEAN
  BY <1>1, <1>2 DEF Asked, TypeOK
<1>6. CASE AskAlive
  BY <1>1, <1>2, <1>5, <1>6 DEF AskAlive, Ends, Check, Walks, Others, result, TypeOK, At, Call
<1>7. CASE Resumed
  <2>1. resumed' \in BOOLEAN /\ (resumed' => Alive /\ Shows = "scene")
    BY <1>2, <1>7 DEF Resumed, Picture
  <2>. QED BY <1>1, <1>5, <1>7, <2>1 DEF Resumed, Proceed, Ends, Check, Walks, Others, result, TypeOK, At, Call
<1>8. CASE AskSize
  <2>1. At("size") /\ UNCHANGED <<fixture, guest, viewer, attached, silent, resumed, did, faults>>
    BY <1>8 DEF AskSize
  <2>2. CASE App /\ ses # "live"
    BY <1>1, <1>8, <2>1, <2>2 DEF AskSize, Breaks, Walks, Others, result, TypeOK, At, Call, viewer
  <2>3. CASE ~(App /\ ses # "live")
    BY <1>1, <1>8, <2>1, <2>3 DEF AskSize, Ends, Check, Walks, Others, result, TypeOK, At, Call, viewer
  <2>. QED BY <2>2, <2>3
<1>9. CASE WaitIdle
  BY <1>1, <1>9 DEF WaitIdle, Ends, Check, Walks, Others, result, TypeOK, At, Call, viewer
<1>10. ASSUME NEW c \in {"capture", "visible", "hidden"}, Capture(c) PROVE
         /\ phase = "run" /\ step # 0 /\ Walks /\ Others /\ Call(step) = c
         /\ UNCHANGED <<fixture, guest, attached, silent, did, faults, ses, shown, old, resumed>>
         /\ c = "hidden" /\ ~failed' => Shows # "scene"
         /\ c = "visible" /\ ~failed' => Shows = "scene"
         /\ dead' \in BOOLEAN
  <2>1. At(c) /\ UNCHANGED <<fixture, guest, ses, shown, old, attached, silent, resumed, did, faults>>
        /\ Ends(IF c = "hidden" THEN Hidden ELSE Picture)
    BY <1>10 DEF Capture
  <2>2. dead' \in BOOLEAN
    BY <1>1, <1>5, <1>10 DEF Capture, TypeOK
  <2>3. Walks /\ Others /\ (~failed' => IF c = "hidden" THEN Hidden ELSE Picture)
    BY <1>1, <1>2, <2>1 DEF Ends, Check, Walks, Others, result, TypeOK
  <2>. QED BY <2>1, <2>2, <2>3 DEF At, Call, Hidden, Picture
<1>11. CASE \E c \in {"capture", "visible", "hidden"} : Capture(c)
  BY <1>1, <1>10, <1>11
<1>. QED BY <1>3, <1>4, <1>6, <1>7, <1>8, <1>9, <1>11 DEF Looks
LEMMA LooksMet == ASSUME IInv, Looks PROVE ~failed' => Keeps /\ Met
<1>. SUFFICES ASSUME ~failed' PROVE Keeps /\ Met
  OBVIOUS
<1>1. phase = "run" /\ step # 0 /\ Walks /\ Shape /\ Rows /\ ~failed /\ Done
  BY LooksFacts DEF IInv, InRow, Walks
<1>2. row \in 1 .. 15 /\ step \in 1 .. Len(Steps)
  BY <1>1, Where
<1>3. Keeps
  BY LooksFacts DEF Keeps, Others, result, fixture, guest
<1>4. CASE Call(step) = "recover"
  <2>1. PICK q \in 1 .. step - 1 : Steps[q].call = "connect"
    BY <1>2, <1>4, TableHolds DEF Table, Steps, Call
  <2>2. q \in 1 .. Len(Steps) /\ Over(q)
    BY <1>2, <2>1 DEF Over
  <2>3. Ensured(Call(q))
    BY <1>1, <2>2 DEF Done
  <2>4. "frame" \in did /\ opened
    BY <2>1, <2>3 DEF Ensured, Framing, Connecting, Call
  <2>5. machine = "running" /\ ~locked
    BY <1>1, <1>4, LooksFacts DEF Rows, ResumedRow
  <2>6. UNCHANGED <<did, opened, machine, locked>>
    BY LooksFacts DEF Others, guest, fixture
  <2>. QED BY <1>3, <1>4, <2>4, <2>5, <2>6 DEF Met, Ensured, Effect, Connecting, Framing
<1>5. CASE Call(step) = "disconnect"
  <2>1. ses' = "none"
    BY <1>5, LooksFacts
  <2>. QED BY <1>3, <1>5, <2>1 DEF Met, Ensured, Effect, Connecting, Framing
<1>6. CASE Call(step) \in {"alive", "resumed", "size", "idle", "capture", "visible", "hidden"}
  BY <1>3, <1>6 DEF Met, Ensured, Effect, Connecting, Framing
<1>. QED BY <1>4, <1>5, <1>6, LooksFacts

LEMMA LooksLock == ASSUME IInv, Looks, row = 8 PROVE LockRow'
<1>. SUFFICES ASSUME ~failed' PROVE LockRow'
  BY DEF LockRow
<1>1. phase = "run" /\ step # 0 /\ Walks /\ Shape /\ LockRow /\ ~failed /\ Done /\ InStep
  BY LooksFacts DEF IInv, InRow, Rows, Walks, InStep
<1>2. Order[row].steps = Lock /\ Steps = Lock
  BY Rows15 DEF Row, Steps
<1>3. Keeps /\ Met
  BY LooksMet
<1>4. step' = 0 \/ (step' \in step + 1 .. 9)
  BY <1>1, <1>2, Forward, LockSteps
<1>5. UNCHANGED <<granted, machine, locked, did, shown, up>> /\ (Sure' <=> Sure) /\ (App' <=> App)
  BY LooksFacts DEF fixture, guest, Others, result, Sure, App
<1>6. (Call(step) = "hidden" /\ step = 3) \/ (Call(step) = "alive" /\ step = 4)
      \/ (Call(step) = "visible" /\ step = 6) \/ (step \in 7 .. 9)
  <2>1. Place(row, step, Call(step)) /\ step \in 1 .. 9
    BY <1>1, <1>2, Where, LockSteps
  <2>2. Call(step) # "connect" /\ Call(step) # "lock" /\ Call(step) # "secret"
    BY LooksFacts
  <2>3. step # 1 /\ step # 2 /\ step # 5
    BY <1>2, <2>2, LockSteps DEF Call, Step
  <2>4. step = 3 => Call(step) = "hidden"
    BY <1>2, LockSteps DEF Call, Step
  <2>5. step = 4 => Call(step) = "alive"
    BY <1>2, LockSteps DEF Call, Step
  <2>6. step = 6 => Call(step) = "visible"
    BY <1>2, LockSteps DEF Call, Step
  <2>. QED BY <2>1, <2>3, <2>4, <2>5, <2>6
<1>7. CASE Call(step) = "hidden" /\ step = 3
  <2>1. step' = 4
    <3>1. 4 = step + 1 /\ 4 <= Len(Steps) /\ Steps[4].call # "disconnect"
      BY <1>2, <1>7, LockSteps DEF Step
    <3>. QED BY <1>1, <1>3, <3>1, Succeeds
  <2>2. Shows # "scene" /\ ses' = ses
    BY <1>7, LooksFacts
  <2>3. granted /\ machine = "running" /\ (locked => "lock" \in did) /\ (Sure => ses # "stale")
        /\ (~App /\ "lost" \notin did => ses = "live")
    BY <1>1, <1>7 DEF LockRow, SureRow
  <2>4. ses = "live" => up
    BY <1>1 DEF IInv, Fixture
  <2>5. ses = "live" => locked
    BY <2>2, <2>3, <2>4 DEF Shows, Visible
  <2>. QED BY <1>5, <2>1, <2>2, <2>3, <2>5 DEF LockRow, SureRow
<1>8. CASE Call(step) = "alive" /\ step = 4
  <2>1. step' = 5
    <3>1. 5 = step + 1 /\ 5 <= Len(Steps) /\ Steps[5].call # "disconnect"
      BY <1>2, <1>8, LockSteps DEF Step
    <3>. QED BY <1>1, <1>3, <3>1, Succeeds
  <2>2. Alive /\ ses' = ses
    BY <1>8, LooksFacts
  <2>3. granted /\ machine = "running" /\ (~App /\ "lost" \notin did => ses = "live")
        /\ (Sure => ses # "stale" /\ (ses = "live" => locked /\ "lock" \in did))
    BY <1>1, <1>8 DEF LockRow, SureRow
  <2>4. Sure => ses = "live"
    BY <2>2, <2>3 DEF Alive, Sure
  <2>. QED BY <1>5, <2>1, <2>2, <2>3, <2>4 DEF LockRow, SureRow
<1>9. CASE Call(step) = "visible" /\ step = 6
  <2>1. step' \notin 1 .. 6
    BY <1>4, <1>9
  <2>2. Shows = "scene"
    BY <1>9, LooksFacts
  <2>3. Sure => "lock" \in did /\ (~locked => "unlocked" \in did) /\ (ses = "stale" => shown = "blank")
    BY <1>1, <1>9 DEF LockRow, SureRow
  <2>4. Sure => ~locked
    BY <2>2, <2>3 DEF Shows, Visible
  <2>5. machine = "running"
    BY <1>1, <1>9 DEF LockRow
  <2>. QED BY <1>5, <2>1, <2>3, <2>4, <2>5 DEF LockRow, SureRow
<1>10. CASE step \in 7 .. 9
  <2>1. step' \notin 1 .. 6 /\ step \notin 1 .. 6
    BY <1>4, <1>10
  <2>. QED BY <1>1, <1>5, <2>1 DEF LockRow, SureRow
<1>. QED BY <1>6, <1>7, <1>8, <1>9, <1>10
LEMMA LooksResize == ASSUME IInv, Looks, row = 13 PROVE ResizeRow'
<1>. SUFFICES ASSUME ~failed' PROVE ResizeRow'
  BY DEF ResizeRow
<1>1. phase = "run" /\ step # 0 /\ Walks /\ Shape /\ ResizeRow /\ ~failed /\ Done /\ InStep
  BY LooksFacts DEF IInv, InRow, Rows, Walks, InStep
<1>2. Order[row].steps = Resize /\ Steps = Resize
  BY Rows15 DEF Row, Steps
<1>3. step \in 1 .. 8 /\ (step' = 0 \/ (step' \in step + 1 .. 8)) /\ row' = row
  BY <1>1, <1>2, Forward, ResizeSteps DEF Walks
<1>4. Call(step) # "connect" /\ Call(step) # "small" /\ UNCHANGED <<mode, did>>
  BY LooksFacts DEF fixture
<1>5. step # 1 /\ step # 2
  BY <1>2, <1>4, ResizeSteps DEF Call, Step
<1>6. Keeps /\ Met
  BY LooksMet
<1>7. CASE step \in 3 .. 4
  <2>1. step' = step + 1
    <3>1. PICK n \in 1 .. 11 : n = step + 1
      BY <1>7
    <3>2. n <= Len(Steps) /\ Steps[n].call # "disconnect"
      BY <1>2, <1>7, <3>1, ResizeSteps DEF Step, Always
    <3>. QED BY <1>1, <1>6, <3>1, <3>2, Succeeds
  <2>. QED BY <1>1, <1>3, <1>4, <1>7, <2>1 DEF ResizeRow
<1>8. CASE step = 5
  <2>1. Call(step) = "size"
    BY <1>2, <1>8, ResizeSteps DEF Call, Step
  <2>2. mode = "small"
    BY <2>1, LooksFacts, NamesDiffer DEF Scenario
  <2>. QED BY <1>1, <1>3, <1>4, <1>8, <2>2 DEF ResizeRow
<1>9. CASE step \in 6 .. 8
  BY <1>1, <1>3, <1>4, <1>9 DEF ResizeRow
<1>. QED BY <1>3, <1>5, <1>7, <1>8, <1>9

LEMMA LooksKeep == ASSUME IInv, Looks PROVE IInv'
<1>1. phase = "run" /\ step # 0 /\ Walks /\ Shape /\ Rows /\ TypeOK
  BY LooksFacts DEF IInv, InRow
<1>2. TypeOK'
  <2>1. UNCHANGED <<fixture, guest, attached, silent, did, faults, shown, old, attempt, transient, cycle,
                    retries, result, opened>>
    BY LooksFacts DEF Others
  <2>2. ses' \in {"none", "live", "lost", "stale"} /\ resumed' \in BOOLEAN /\ dead' \in BOOLEAN
    BY <1>1, LooksFacts DEF TypeOK
  <2>3. /\ row' \in 1 .. Len(Order) /\ step' \in 0 .. Len(Steps)' /\ Scenario' = Scenario
        /\ failed' \in BOOLEAN /\ raised' \in BOOLEAN /\ hung' \in BOOLEAN /\ phase' = "run"
    BY <1>1, TypeWalks
  <2>. QED BY <1>1, <2>1, <2>2, <2>3 DEF TypeOK, result, fixture, guest
<1>3. Gentle
  BY <1>1, LooksFacts DEF Gentle, Others, result, fixture, guest, IInv, Fixture
<1>4. Spent'
  BY <1>1, LooksFacts, SpentStays DEF At, Call, Walks
<1>5. Rows'
  <2>1. row = 3 /\ transient' => cycle' < Cycles
    BY <1>1, LooksFacts DEF Rows, Counting, Others
  <2>2. row = 12 => (token' => token \/ step >= 4) /\ (step = 1 => ~token')
    <3>1. ASSUME row = 12, step = 1 PROVE FALSE
      <4>1. Order[row].steps = PortalRestore
        BY <3>1, Rows15 DEF Row
      <4>2. Call(step) = "forget"
        BY <3>1, <4>1, PortalRestoreSteps DEF Call, Steps, Step
      <4>. QED BY <4>2, LooksFacts
    <3>. QED BY <3>1, LooksFacts DEF fixture
  <2>3. row \in {5, 15} => step # 1
    <3>1. ASSUME row = 5, step = 1 PROVE FALSE
      <4>1. Order[row].steps = Interruption
        BY <3>1, Rows15 DEF Row
      <4>2. Call(step) = "connect"
        BY <3>1, <4>1, InterruptionSteps DEF Call, Steps, Step
      <4>. QED BY <4>2, LooksFacts
    <3>2. ASSUME row = 15, step = 1 PROVE FALSE
      <4>1. Order[row].steps = SuspendResume
        BY <3>2, Rows15 DEF Row
      <4>2. Call(step) = "connect"
        BY <3>2, <4>1, SuspendResumeSteps DEF Call, Steps, Step
      <4>. QED BY <4>2, LooksFacts
    <3>. QED BY <3>1, <3>2
  <2>4. row \in {5, 15} /\ ~failed' => ses' # "stale" \/ (ses' = ses /\ step # 1)
    BY <2>3, LooksFacts
  <2>5. resumed' => \/ resumed /\ machine' = machine /\ (locked' => locked)
                    \/ machine' = "running" /\ ~locked' /\ <<row, step>> \in {<<5, 3>>, <<15, 5>>}
    <3>. SUFFICES ASSUME resumed', ~(resumed /\ machine' = machine /\ (locked' => locked))
                  PROVE machine' = "running" /\ ~locked' /\ <<row, step>> \in {<<5, 3>>, <<15, 5>>}
      OBVIOUS
    <3>1. machine' = machine /\ locked' = locked /\ Call(step) = "resumed" /\ Shows = "scene"
      BY LooksFacts DEF guest, fixture
    <3>2. <<row, step>> \in {<<5, 3>>, <<15, 5>>}
      BY <1>1, <3>1, Where DEF Place
    <3>3. ~failed
      BY <1>1, <3>1, Where, TableHolds DEF Table, Call, Steps
    <3>4. ses # "stale"
      BY <1>1, <2>3, <3>2, <3>3 DEF Rows, ResumedRow
    <3>. QED BY <3>1, <3>2, <3>4 DEF Shows, Visible
  <2>10. ~(row = 11 /\ step' = 4)
    <3>1. ASSUME row = 11 PROVE Call(step) = "disconnect" /\ step \in {5, 10}
      BY <1>1, <3>1, LooksFacts, Where DEF Place
    <3>2. step' = 0 \/ step' > step
      <4>1. step' = 0 \/ step' \in step + 1 .. Len(Steps)
        BY <1>1, Forward DEF InStep
      <4>2. Len(Steps) \in 1 .. 11 /\ step \in 1 .. Len(Steps)
        BY <1>1, Where
      <4>. QED BY <4>1, <4>2
    <3>. QED BY <3>1, <3>2
  <2>6. /\ Counting' /\ DenyRow' /\ RestoreRow' /\ ResumedRow'
        /\ row \notin {8, 13} => Rows'
    BY <1>1, <2>1, <2>2, <2>4, <2>5, <2>10, RowsElse
  <2>7. row = 8 => Rows'
    BY <1>1, <2>6, LooksLock DEF Rows, ResizeRow, Walks
  <2>8. row = 13 => Rows'
    BY <1>1, <2>6, LooksResize DEF Rows, LockRow, Walks
  <2>. QED BY <2>6, <2>7, <2>8
<1>. QED BY <1>1, <1>2, <1>3, <1>4, <1>5, LooksMet, Walking
\* Steps go forward, and the first and the next of a few rows are known.
LEMMA Onward ==
  ASSUME IInv, phase = "run", step # 0, Walks
  PROVE  /\ row' = row /\ step \in 1 .. 11 /\ (step' = 0 \/ step' > step) /\ step' \in 0 .. 11
         /\ step' # 0 /\ Steps[step'].runs = "ok" => ~failed'
<1>1. InStep /\ Shape
  BY DEF IInv, InStep, InRow
<1>2. step' = 0 \/ step' \in step + 1 .. Len(Steps)
  BY <1>1, Forward
<1>3. Len(Steps) \in 1 .. 11 /\ step \in 1 .. Len(Steps)
  BY Where
<1>4. \A n \in 1 .. 11 : \A q \in 1 .. n : q \in 1 .. 11 /\ \A o \in q + 1 .. n : o \in 0 .. 11 /\ o > q
  OBVIOUS
<1>5. step \in 1 .. 11 /\ \A o \in step + 1 .. Len(Steps) : o \in 0 .. 11 /\ o > step
  BY <1>3, <1>4
<1>6. step' # 0 /\ Steps[step'].runs = "ok" => ~failed'
  BY <1>1, Forward DEF Shape
<1>. QED BY <1>2, <1>5, <1>6 DEF Walks

LEMMA Openings ==
  /\ row \in {3, 5, 8, 9, 13, 15} /\ step = 1 => Call(step) = "connect"
  /\ row = 12 /\ step = 1 => Call(step) = "forget"
<1>1. CASE row = 3
  BY <1>1, Rows15, ReconnectSteps DEF Row, Steps, Call, Step
<1>2. CASE row = 5
  BY <1>2, Rows15, InterruptionSteps DEF Row, Steps, Call, Step
<1>3. CASE row = 8
  BY <1>3, Rows15, LockSteps DEF Row, Steps, Call, Step
<1>4. CASE row = 9
  BY <1>4, Rows15, MonitorChangeSteps DEF Row, Steps, Call, Step
<1>5. CASE row = 12
  BY <1>5, Rows15, PortalRestoreSteps DEF Row, Steps, Call, Step
<1>6. CASE row = 13
  BY <1>6, Rows15, ResizeSteps DEF Row, Steps, Call, Step
<1>7. CASE row = 15
  BY <1>7, Rows15, SuspendResumeSteps DEF Row, Steps, Call, Step
<1>. QED BY <1>1, <1>2, <1>3, <1>4, <1>5, <1>6, <1>7

LEMMA ConnectFacts ==
  ASSUME IInv, NEW c \in Connecting, Connect(c)
  PROVE  /\ phase = "run" /\ step # 0 /\ Walks /\ Call(step) = c
         /\ UNCHANGED <<up, mode, second, locked, consent, guest, attached, silent, resumed, retries, result>>
         /\ ses' = IF up THEN "live" ELSE "lost"
         /\ opened' /\ opened' \in BOOLEAN /\ dead' = FALSE /\ shown' = "blank" /\ old' \in BOOLEAN
         /\ granted' \in BOOLEAN /\ token' \in BOOLEAN /\ events' \subseteq {"Approve", "Deny"}
         /\ transient' = FALSE /\ attempt' = 1
         /\ faults' \in {faults, faults + 1} /\ faults' \in 0 .. Faults
         /\ did \subseteq did'
         /\ cycle' \in {cycle, cycle + 1}
         /\ ~failed' /\ c # "denied" =>
              "frame" \in did' /\ granted' /\ up /\ machine = "running" /\ ~locked
         /\ ~failed' /\ c = "approved" => "Approve" \in did'
         /\ ~failed' /\ c = "denied" => "Deny" \in did'
         /\ ~failed' /\ c = "granted" => token'
         /\ token' /\ ~token => "Approve" \in did'
<1>1. TypeOK
  BY DEF IInv
<1>2. /\ At(c) /\ phase = "run" /\ step # 0 /\ Call(step) = c
      /\ granted' = (up /\ machine = "running" /\ Grants)
      /\ events' = events \cup (IF up THEN Answer ELSE {})
      /\ token' = (token \/ (granted' /\ Dialog /\ consent = "persist"))
      /\ Open(IF up THEN "live" ELSE "lost")
  BY DEF Connect, Needed, At, Call
<1>3. PICK frame \in {granted' /\ ~locked, FALSE} :
       /\ IF frame = (granted' /\ ~locked) THEN UNCHANGED faults ELSE Fault
       /\ did' = did \cup events' \cup (IF frame THEN {"frame"} ELSE {})
       /\ Count(frame) /\ transient' = FALSE /\ attempt' = 1
       /\ UNCHANGED <<up, mode, second, locked, consent, guest, attached, silent, resumed, retries, result>>
       /\ Check(Satisfied(c, frame, events', token'))
  BY DEF Connect
<1>4. Answer \subseteq {"Approve", "Deny"} /\ events' \subseteq {"Approve", "Deny"}
  BY <1>1, <1>2 DEF Answer, TypeOK
<1>5. frame \in BOOLEAN /\ granted' \in BOOLEAN /\ token' \in BOOLEAN
  BY <1>1, <1>2, <1>3 DEF TypeOK, Grants, Dialog
<1>6. ses' = (IF up THEN "live" ELSE "lost") /\ opened' /\ opened' \in BOOLEAN /\ dead' = FALSE
      /\ shown' = "blank" /\ old' \in BOOLEAN
  BY <1>1, <1>2 DEF Open, TypeOK
<1>7. faults' \in {faults, faults + 1} /\ faults' \in 0 .. Faults
  BY <1>1, <1>3, QualAssumption DEF Fault, TypeOK
<1>8. Satisfied(c, frame, events', token') \in BOOLEAN
  BY <1>5 DEF Satisfied
<1>9. Walks /\ (~failed' => Satisfied(c, frame, events', token'))
  BY <1>1, <1>3, <1>8 DEF Check, Walks, TypeOK, result
<1>10. frame => granted' /\ ~locked /\ up /\ machine = "running"
  BY <1>2, <1>3
<1>11. c # "denied" /\ ~failed' => frame
  BY <1>9 DEF Satisfied
<1>12. ~failed' => (c = "approved" => "Approve" \in events') /\ (c = "denied" => "Deny" \in events')
                   /\ (c = "granted" => token')
  BY <1>9 DEF Satisfied
<1>13. token' /\ ~token => "Approve" \in events'
  BY <1>2 DEF Answer
<1>14. cycle' \in {cycle, cycle + 1}
  BY <1>3 DEF Count
<1>. QED BY <1>2, <1>3, <1>4, <1>5, <1>6, <1>7, <1>9, <1>10, <1>11, <1>12, <1>13, <1>14
LEMMA ConnectMet == ASSUME IInv, NEW c \in Connecting, Connect(c) PROVE ~failed' => Keeps /\ Met
<1>. SUFFICES ASSUME ~failed' PROVE Keeps /\ Met
  OBVIOUS
<1>1. Keeps
  BY ConnectFacts DEF Keeps, result, guest, Connecting
<1>2. c = "granted" => "Approve" \in did'
  <2>. SUFFICES ASSUME c = "granted" PROVE "Approve" \in did'
    OBVIOUS
  <2>1. phase = "run" /\ step # 0 /\ Call(step) = "granted" /\ Rows
    BY ConnectFacts DEF IInv, InRow
  <2>2. row = 12 /\ step = 4
    <3>1. row \in {6, 10, 11, 12}
      BY <2>1, Where DEF Place
    <3>2. ASSUME row = 6 PROVE FALSE
      <4>1. Order[row].steps = ServerRestart
        BY <3>2, Rows15 DEF Row
      <4>. QED BY <2>1, <4>1, Where, ServerRestartSteps DEF Steps, Call, Step, Always
    <3>3. ASSUME row = 10 PROVE FALSE
      <4>1. Order[row].steps = PortalApprove
        BY <3>3, Rows15 DEF Row
      <4>. QED BY <2>1, <4>1, Where, PortalApproveSteps DEF Steps, Call, Step, Always
    <3>4. ASSUME row = 11 PROVE FALSE
      <4>1. step \in {4, 9}
        BY <2>1, <3>4, Where DEF Place, Connecting
      <4>2. Order[row].steps = PortalDeny
        BY <3>4, Rows15 DEF Row
      <4>. QED BY <2>1, <4>1, <4>2, PortalDenySteps DEF Steps, Call, Step, Always
    <3>. QED BY <2>1, <3>1, <3>2, <3>3, <3>4, Where DEF Place
  <2>3. ~token
    BY <2>1, <2>2 DEF Rows, RestoreRow
  <2>4. token'
    BY ConnectFacts
  <2>. QED BY <2>3, <2>4, ConnectFacts
<1>3. ASSUME c # "denied" PROVE "frame" \in did' /\ machine' = "running" /\ ~locked'
  BY <1>3, ConnectFacts DEF guest
<1>4. opened' /\ (c = "approved" => "Approve" \in did') /\ (c = "denied" => "Deny" \in did') /\ Call(step) = c
  BY ConnectFacts
<1>5. Met
  BY <1>2, <1>3, <1>4 DEF Met, Ensured, Effect, Framing, Connecting
<1>. QED BY <1>1, <1>5

LEMMA ConnectKeeps == ASSUME IInv, NEW c \in Connecting, Connect(c) PROVE IInv'
<1>1. phase = "run" /\ step # 0 /\ Walks /\ Shape /\ Rows /\ TypeOK /\ Call(step) = c
  BY ConnectFacts DEF IInv, InRow
<1>2. Place(row, step, c) /\ row \in 1 .. 15 /\ Steps[step].runs = "ok"
  BY <1>1, Where, TableHolds DEF Table, Call, Steps
<1>3. row \in {3, 5, 8, 9, 13, 15} /\ c # "recover" => step = 1
  BY <1>2 DEF Place, Connecting
<1>4. row' = row /\ step \in 1 .. 11 /\ (step' = 0 \/ step' > step)
  BY <1>1, Onward
<1>5. ~failed
  BY <1>1, <1>2 DEF Shape
<1>6. TypeOK'
  <2>1. UNCHANGED <<up, mode, second, locked, consent, guest, attached, silent, resumed, retries, result>>
    BY ConnectFacts
  <2>2. ses' \in {"live", "lost"} /\ opened' \in BOOLEAN /\ dead' = FALSE /\ shown' = "blank" /\ old' \in BOOLEAN
         /\ granted' \in BOOLEAN /\ token' \in BOOLEAN /\ events' \subseteq {"Approve", "Deny"}
         /\ transient' = FALSE /\ attempt' = 1 /\ faults' \in 0 .. Faults
    BY ConnectFacts
  <2>3. /\ row' \in 1 .. Len(Order) /\ step' \in 0 .. Len(Steps)' /\ Scenario' = Scenario
        /\ failed' \in BOOLEAN /\ raised' \in BOOLEAN /\ hung' \in BOOLEAN /\ phase' = "run"
    BY <1>1, TypeWalks
  <2>4. cycle' \in Nat /\ (Scenario = "reconnect-20" => cycle' <= Cycles)
    <3>1. cycle \in Nat /\ cycle' \in {cycle, cycle + 1}
      BY <1>1, ConnectFacts DEF TypeOK
    <3>2. ASSUME Scenario = "reconnect-20" PROVE cycle < Cycles
      <4>1. row = 3
        BY <1>2, <3>2, NamesDiffer DEF Scenario
      <4>2. c # "recover"
        BY <1>2, <4>1 DEF Place
      <4>. QED BY <1>1, <1>3, <4>1, <4>2 DEF Rows, Counting
    <3>. QED BY <3>1, <3>2, QualAssumption
  <2>5. (Scenario = "reconnect-20" => cycle <= Cycles)'
    BY <2>3, <2>4
  <2>6. only' \subseteq Names /\ able' \in Fixtures /\ outcome' \in [Names -> {"none", "passed", "failed"}]
    BY <1>1, <2>1 DEF TypeOK, result
  <2>7. /\ up' \in BOOLEAN /\ second' \in BOOLEAN /\ locked' \in BOOLEAN /\ mode' \in {"base", "small", "large"}
        /\ consent' \in {"approve", "deny", "persist", "none"}
        /\ machine' \in {"running", "paused", "suspended"} /\ slept' \in BOOLEAN /\ marker' \in BOOLEAN
        /\ attached' \in BOOLEAN /\ resumed' \in BOOLEAN
    BY <1>1, <2>1 DEF TypeOK, guest
  <2>15. silent' \subseteq Blind \cup {"pause"}
    BY <1>1, <2>1 DEF TypeOK
  <2>8. /\ retries' \in 0 .. Retries /\ current' \in {"base", "large"} /\ healthy' \in BOOLEAN
        /\ record' \in {"none", "lost", "passed", "incomplete"} /\ runs' \in 0 .. Runs
    BY <1>1, <2>1 DEF TypeOK, result
  <2>9. ses' \in {"none", "live", "lost", "stale"} /\ shown' \in {"blank", "scene"}
    BY <2>2
  <2>13. dead' \in BOOLEAN /\ transient' \in BOOLEAN
    BY <2>2, Zenon
  <2>14. attempt' \in 1 .. 2
    BY <2>2
  <2>10. /\ old' \in BOOLEAN /\ opened' \in BOOLEAN /\ granted' \in BOOLEAN /\ token' \in BOOLEAN
         /\ events' \subseteq {"Approve", "Deny"} /\ faults' \in 0 .. Faults
    BY <2>2
  <2>11. phase' \in {"idle", "begin", "run", "post", "versions", "stop"}
    BY <2>3
  <2>12. cycle' \in Nat
    BY <2>4
  <2>. QED BY <2>3, <2>5, <2>6, <2>7, <2>8, <2>9, <2>10, <2>11, <2>12, <2>13, <2>14, <2>15, Zenon DEF TypeOK
<1>7. Gentle
  <2>1. UNCHANGED <<up, mode, second, locked, attached>> /\ UNCHANGED guest /\ UNCHANGED result
    BY ConnectFacts
  <2>2. ses' = "live" => up'
    BY <2>1, ConnectFacts
  <2>. QED BY <2>1, <2>2 DEF Gentle, result, guest
<1>8. Spent'
  BY <1>1, ConnectFacts, SpentStays DEF At, Call, Walks, result, Connecting
<1>9. Rows'
  <2>1. row = 3 /\ transient' => cycle' < Cycles
    BY ConnectFacts
  <2>2. row = 12 => (token' => token \/ step >= 4) /\ (step = 1 => ~token')
    <3>. SUFFICES ASSUME row = 12 PROVE step >= 4
      BY <1>4
    <3>1. c \in {"approved", "denied", "granted", "restored", "connect"}
      BY <1>2 DEF Place, Connecting
    <3>2. Order[row].steps = PortalRestore
      BY Rows15 DEF Row
    <3>3. step # 1 /\ step # 2 /\ step # 3
      BY <1>1, <3>1, <3>2, PortalRestoreSteps DEF Steps, Call, Step
    <3>. QED BY <1>4, <3>3
  <2>3. ~(row = 11 /\ step' = 4)
    BY <1>2, <1>4 DEF Place
  <2>4. ses' # "stale"
    BY ConnectFacts
  <2>5. resumed' => resumed /\ machine' = machine /\ (locked' => locked)
    BY ConnectFacts DEF guest
  <2>6. /\ Counting' /\ DenyRow' /\ RestoreRow' /\ ResumedRow'
        /\ row \notin {8, 13} => Rows'
    BY <1>1, <2>1, <2>2, <2>3, <2>4, <2>5, RowsElse
  <2>7. ASSUME row \in {8, 13}, ~failed' PROVE step' = 2
    <3>1. step = 1
      BY <1>2, <1>3, <2>7 DEF Place
    <3>2. 2 <= Len(Steps) /\ Steps[2].call # "disconnect"
      <4>1. CASE row = 8
        BY <4>1, Rows15, LockSteps DEF Row, Steps, Step
      <4>2. CASE row = 13
        BY <4>2, Rows15, ResizeSteps DEF Row, Steps, Step
      <4>. QED BY <2>7, <4>1, <4>2
    <3>3. InStep /\ Done /\ Keeps /\ Met
      BY <1>1, <1>5, <2>7, ConnectMet DEF IInv, InRow, InStep
    <3>4. 2 \in 1 .. 11 /\ 2 = step + 1
      BY <3>1
    <3>. QED BY <1>1, <1>5, <2>7, <3>2, <3>3, <3>4, Succeeds
  <2>8. row = 8 => LockRow'
    <3>. SUFFICES ASSUME row = 8, ~failed' PROVE LockRow'
      BY DEF LockRow
    <3>1. c # "denied"
      BY <1>2 DEF Place
    <3>2. granted' /\ machine' = "running" /\ ~locked' /\ ses' = "live"
      BY <3>1, ConnectFacts DEF guest
    <3>. QED BY <2>7, <3>2 DEF LockRow, SureRow
  <2>9. row = 13 => ResizeRow'
    BY <2>7 DEF ResizeRow
  <2>. QED BY <1>4, <2>6, <2>8, <2>9 DEF Rows, LockRow, ResizeRow
<1>. QED BY <1>1, <1>6, <1>7, <1>8, <1>9, ConnectMet, Walking
LEMMA GlitchFacts ==
  ASSUME IInv, NEW c \in Connecting, Glitch(c)
  PROVE  /\ phase = "run" /\ step # 0 /\ Call(step) = c /\ ~failed
         /\ UNCHANGED <<fixture, guest, attached, silent, resumed, cycle, retries, result, did>>
         /\ shown' = "blank" /\ opened' = TRUE /\ dead' = FALSE /\ old' \in BOOLEAN
         /\ faults' = faults + 1 /\ faults' \in 0 .. Faults
         /\ \/ attempt' = 2 /\ ses' = "none" /\ UNCHANGED <<transient, step, failed, phase, row, raised, hung>>
            \/ attempt' = 1 /\ ses' = "lost" /\ transient' = TRUE /\ Walks /\ failed'
         /\ row \in {3, 5, 8, 9, 13, 15} /\ c # "recover" => step = 1
<1>1. TypeOK /\ Rows
  BY DEF IInv, InRow, Glitch, Needed, At
<1>2. phase = "run" /\ step # 0 /\ Call(step) = c
  BY DEF Glitch, Needed, At, Call
<1>3. Place(row, step, c) /\ row \in 1 .. 15 /\ Steps[step].runs = "ok" /\ ~failed
  BY <1>2, Where, TableHolds DEF Table, Call, Steps
<1>4. row \in {3, 5, 8, 9, 13, 15} /\ c # "recover" => step = 1
  BY <1>3 DEF Place, Connecting
<1>5. faults' = faults + 1 /\ faults' \in 0 .. Faults
  BY <1>1, QualAssumption DEF Glitch, Fault, TypeOK
<1>6. UNCHANGED <<fixture, guest, attached, silent, resumed, cycle, retries, result, did>>
  BY DEF Glitch
<1>7. /\ ses' = (IF attempt = 1 THEN "none" ELSE "lost")
      /\ shown' = "blank" /\ opened' = TRUE /\ dead' = FALSE /\ old' \in BOOLEAN
  BY <1>1 DEF Glitch, Open, TypeOK
<1>8. CASE attempt = 1
  BY <1>2, <1>3, <1>4, <1>5, <1>6, <1>7, <1>8 DEF Glitch
<1>9. CASE attempt # 1
  <2>1. attempt' = 1 /\ transient' = TRUE /\ Check(Satisfied(c, FALSE, events, FALSE))
    BY <1>9 DEF Glitch
  <2>2. Satisfied(c, FALSE, events, FALSE) = FALSE
    <3>1. CASE c # "denied"
      BY <3>1 DEF Satisfied
    <3>2. CASE c = "denied"
      BY <1>1, <1>3, <3>2 DEF Satisfied, Place, Rows, DenyRow
    <3>. QED BY <3>1, <3>2
  <2>3. Walks /\ failed'
    BY <1>1, <1>6, <2>1, <2>2 DEF Check, Walks, TypeOK, result
  <2>. QED BY <1>2, <1>3, <1>4, <1>5, <1>6, <1>7, <1>9, <2>1, <2>3
<1>. QED BY <1>8, <1>9

\* The second try is in the same step, with no session yet.
LEMMA GlitchKept ==
  ASSUME IInv, NEW c \in Connecting, Glitch(c), UNCHANGED <<step, row>>, attempt' = 2
  PROVE  Done' /\ Kept'
<1>1. Done /\ Kept /\ Steps' = Steps
  BY GlitchFacts DEF IInv, InRow, Steps
<1>2. \A p : (Over(p)' <=> Over(p)) /\ Call(p)' = Call(p)
  BY <1>1 DEF Over, Call
<1>3. \A p : Unspoilt(p)' <=> Unspoilt(p)
  BY <1>1, <1>2 DEF Unspoilt, Spoils
<1>4. /\ UNCHANGED <<did, silent, current, slept, machine, locked, consent, second, attached, mode>>
      /\ opened' = TRUE /\ ses' = "none"
  <2>1. UNCHANGED <<fixture, guest, attached, silent, result, did>> /\ opened' = TRUE
    BY GlitchFacts
  <2>2. ses' = "none"
    <3>1. attempt' = 1 \/ ses' = "none"
      BY GlitchFacts, Zenon
    <3>. QED BY <3>1
  <2>. QED BY <2>1, <2>2 DEF fixture, guest, result
<1>5. \A d : (Ensured(d) => Ensured(d)') /\ (Effect(d) => Effect(d)')
  BY <1>4 DEF Ensured, Effect
<1>6. \A p \in 1 .. Len(Steps) : Over(p) => \A d : d = Call(p) => Ensured(d)'
  BY <1>1, <1>5 DEF Done
<1>7. \A p \in 1 .. Len(Steps) : Over(p) /\ Unspoilt(p) => \A d : d = Call(p) => Effect(d)'
  BY <1>1, <1>5 DEF Kept
<1>8. Done'
  BY <1>1, <1>2, <1>6 DEF Done
<1>9. Kept'
  BY <1>1, <1>2, <1>3, <1>7 DEF Kept
<1>. QED BY <1>8, <1>9
LEMMA GlitchKeeps == ASSUME IInv, NEW c \in Connecting, Glitch(c) PROVE IInv'
<1>1. TypeOK /\ Rows /\ phase = "run" /\ step # 0 /\ Call(step) = c
  BY GlitchFacts DEF IInv, InRow
<1>2. /\ up' = up /\ mode' = mode /\ second' = second /\ locked' = locked /\ consent' = consent
      /\ token' = token /\ granted' = granted /\ events' = events /\ machine' = machine
      /\ slept' = slept /\ marker' = marker /\ attached' = attached /\ resumed' = resumed
      /\ silent' = silent
      /\ cycle' = cycle /\ retries' = retries /\ able' = able /\ only' = only /\ current' = current
      /\ outcome' = outcome /\ healthy' = healthy /\ record' = record /\ runs' = runs /\ did' = did
  BY GlitchFacts DEF fixture, guest, result
<1>3. CASE attempt' = 2 /\ UNCHANGED <<transient, step, failed, phase, row, raised, hung>>
  <2>1. Steps' = Steps /\ Scenario' = Scenario
    BY <1>3 DEF Steps, Scenario
  <2>2. TypeOK'
    <3>1. ses' \in {"none", "live", "lost", "stale"} /\ shown' \in {"blank", "scene"} /\ faults' \in 0 .. Faults
      BY GlitchFacts
    <3>2. opened' \in BOOLEAN /\ dead' \in BOOLEAN /\ old' \in BOOLEAN
      BY GlitchFacts, Zenon
    <3>3. attempt' \in 1 .. 2
      BY <1>3
    <3>. QED BY <1>1, <1>2, <1>3, <2>1, <3>1, <3>2, <3>3 DEF TypeOK
  <2>3. Shape'
    BY <1>1, <1>2, <1>3, <2>1 DEF IInv, InRow, Shape
  <2>4. Rows'
    <3>1. row = 8 => step = 1
      <4>1. Place(row, step, Call(step))
        BY <1>1, GlitchFacts, Where DEF IInv, InRow
      <4>2. row = 8 => c # "recover"
        BY <1>1, <4>1 DEF Place
      <4>. QED BY <4>2, GlitchFacts
    <3>2. ses' = "none"
      BY <1>3, GlitchFacts
    <3>3. Counting' /\ DenyRow' /\ RestoreRow' /\ ResizeRow'
      BY <1>1, <1>2, <1>3 DEF Rows, Counting, DenyRow, RestoreRow, ResizeRow
    <3>4. LockRow'
      BY <1>3, <3>1 DEF LockRow, SureRow
    <3>5. ResumedRow'
      BY <1>1, <1>2, <1>3, <3>2 DEF Rows, ResumedRow
    <3>. QED BY <3>3, <3>4, <3>5 DEF Rows
  <2>5. Done' /\ Kept'
    BY <1>3, GlitchKept
  <2>6. Fixture'
    BY <1>1, <1>2, <1>3, GlitchFacts DEF IInv, Fixture, Early
  <2>7. Verdicts'
    BY <1>1, <1>2, <1>3 DEF IInv, Verdicts
  <2>8. Spent'
    BY <1>1, <1>2, <1>3, GlitchFacts, SpentStays DEF At, Call, guest, Connecting
  <2>9. PassedRecord'
    BY <1>1, <1>3 DEF PassedRecord
  <2>. QED BY <2>2, <2>3, <2>4, <2>5, <2>6, <2>7, <2>8, <2>9 DEF IInv, InRow
<1>4. CASE attempt' = 1 /\ transient' = TRUE /\ Walks /\ failed'
  <2>1. TypeOK'
    <3>1. ses' \in {"none", "live", "lost", "stale"} /\ shown' \in {"blank", "scene"} /\ faults' \in 0 .. Faults
      BY GlitchFacts
    <3>2. opened' \in BOOLEAN /\ dead' \in BOOLEAN /\ old' \in BOOLEAN /\ transient' \in BOOLEAN
      BY <1>4, GlitchFacts, Zenon
    <3>3. attempt' \in 1 .. 2
      BY <1>4
    <3>4. /\ row' \in 1 .. Len(Order) /\ step' \in 0 .. Len(Steps)' /\ Scenario' = Scenario
          /\ failed' \in BOOLEAN /\ raised' \in BOOLEAN /\ hung' \in BOOLEAN /\ phase' = "run"
      BY <1>1, <1>4, TypeWalks
    <3>. QED BY <1>1, <1>2, <3>1, <3>2, <3>3, <3>4 DEF TypeOK
  <2>2. Gentle
    BY <1>2, GlitchFacts DEF Gentle
  <2>3. Spent'
    BY <1>1, <1>2, <1>4, GlitchFacts, SpentStays DEF At, Call, guest, Connecting, Walks
  <2>4. Rows'
    <3>1. row = 3 => step = 1
      <4>1. row = 3 => c # "recover"
        BY <1>1, Where DEF Place
      <4>. QED BY <4>1, GlitchFacts
    <3>2. row = 3 /\ transient' => cycle' < Cycles
      BY <1>1, <1>2, <3>1 DEF Rows, Counting
    <3>3. row = 12 => step # 1
      BY <1>1, Openings DEF Connecting
    <3>4. row = 11 /\ step' = 4 => "Deny" \notin events'
      <4>1. row = 11 => step \in {4, 9}
        BY <1>1, Where DEF Place
      <4>. QED BY <1>1, <1>4, <4>1, Onward
    <3>5. /\ Counting' /\ DenyRow' /\ RestoreRow' /\ ResumedRow'
          /\ row \notin {8, 13} => Rows'
      BY <1>1, <1>2, <1>4, <3>2, <3>3, <3>4, RowsElse, GlitchFacts
    <3>. QED BY <1>4, <3>5 DEF Rows, LockRow, ResizeRow
  <2>. QED BY <1>1, <1>4, <2>1, <2>2, <2>3, <2>4, Walking
<1>. QED BY <1>3, <1>4, GlitchFacts
\* What follows a failure is only cleaning up.
LEMMA FailedRows ==
  ASSUME IInv, phase = "run", step # 0, Walks, failed', UNCHANGED <<transient, cycle, token, machine, locked, resumed>>
  PROVE  Rows'
<1>1. Rows /\ row' = row /\ row \in 1 .. 15 /\ step \in 1 .. 11 /\ (step' = 0 \/ step' > step) /\ step' \in 0 .. 11
  BY Onward, Where DEF IInv, InRow
<1>2. step' # 0 => Steps[step'].runs # "ok"
  BY Onward
<1>3. row = 3 /\ transient' => cycle' < Cycles
  BY <1>1 DEF Rows, Counting
<1>4. row = 11 => step' # 4
  <2>. SUFFICES ASSUME row = 11 PROVE step' # 4
    OBVIOUS
  <2>1. Steps[4].runs = "ok"
    BY Rows15, PortalDenySteps DEF Row, Steps, Step
  <2>. QED BY <1>2, <2>1
<1>5. row = 12 => step' \notin 2 .. 4
  <2>. SUFFICES ASSUME row = 12 PROVE step' \notin 2 .. 4
    OBVIOUS
  <2>1. Steps[2].runs = "ok" /\ Steps[3].runs = "ok" /\ Steps[4].runs = "ok"
    BY Rows15, PortalRestoreSteps DEF Row, Steps, Step
  <2>. QED BY <1>1, <1>2, <2>1
<1>6. /\ Counting' /\ DenyRow' /\ RestoreRow' /\ ResumedRow'
      /\ row \notin {8, 13} => Rows'
  BY <1>1, <1>3, <1>4, <1>5, RowsElse
<1>. QED BY <1>6 DEF Rows, LockRow, ResizeRow

\* A guest of which something was lost may be spent.
LEMMA SpentFault ==
  ASSUME IInv, phase' = "run", UNCHANGED able, faults' = faults + 1, slept' => slept \/ IsGuest
  PROVE  Spent'
<1>1. faults' # 0
  BY DEF IInv, TypeOK
<1>. QED BY <1>1 DEF Spent, IInv, IsGuest

LEMMA RaiseKeeps == ASSUME IInv, Raise PROVE IInv'
<1>1. TypeOK /\ Rows /\ phase = "run" /\ step # 0 /\ raised' = TRUE /\ failed' = TRUE /\ phase' = phase /\ row' = row
      /\ (step' = After(TRUE, TRUE) \/ step' = 0) /\ faults' = faults + 1 /\ faults < Faults
      /\ hung' \in BOOLEAN
  BY DEF Raise, Breaks, Fault, IInv, InRow
<1>2. /\ UNCHANGED <<up, mode, second, locked, consent, token, granted, events, machine, slept, marker>>
      /\ UNCHANGED <<ses, shown, dead, old, attached, silent, resumed, did, attempt, transient, cycle, retries>>
      /\ UNCHANGED <<able, only, current, outcome, healthy, record, runs, opened>>
  BY DEF Raise, Breaks, Others, fixture, guest, viewer, result
<1>3. Walks
  <2>1. step' = After(failed', raised') \/ step' = 0
    BY <1>1
  <2>. QED BY <1>1, <1>2, <2>1 DEF Walks
<1>4. TypeOK'
  <2>1. /\ row' \in 1 .. Len(Order) /\ step' \in 0 .. Len(Steps)' /\ Scenario' = Scenario
        /\ failed' \in BOOLEAN /\ raised' \in BOOLEAN /\ hung' \in BOOLEAN /\ phase' = "run"
    BY <1>1, <1>3, TypeWalks
  <2>2. faults' \in 0 .. Faults
    BY <1>1, QualAssumption DEF TypeOK
  <2>. QED BY <1>1, <1>2, <2>1, <2>2 DEF TypeOK
<1>5. Gentle
  BY <1>1, <1>2 DEF Gentle, IInv, Fixture
<1>6. Spent'
  BY <1>1, <1>2, SpentFault
<1>7. Rows'
  BY <1>1, <1>2, <1>3, FailedRows
<1>. QED BY <1>1, <1>3, <1>4, <1>5, <1>6, <1>7, Walking

LEMMA PauseFacts ==
  ASSUME IInv, Pause
  PROVE  /\ phase = "run" /\ step # 0 /\ Call(step) = "pause" /\ Walks
         /\ UNCHANGED <<up, mode, second, locked, consent, token, granted, events, slept, marker>>
         /\ UNCHANGED <<dead, old, attached, resumed, attempt, transient, cycle, retries>>
         /\ UNCHANGED <<able, only, current, outcome, healthy, record, runs, opened>>
         /\ ses' = ses \/ (ses = "live" /\ ses' = "lost")
         /\ shown' \in {"blank", "scene"}
         /\ UNCHANGED <<machine, faults>> \/ (machine' = "paused" /\ faults' = faults + 1 /\ faults < Faults)
         /\ did \subseteq did' /\ silent' \in {silent, silent \cup {"pause"}} /\ "pause" \in did' \cup silent'
<1>1. TypeOK /\ phase = "run" /\ step # 0 /\ Call(step) = "pause"
  BY DEF Pause, IInv, At, Call
<1>2. /\ UNCHANGED <<up, mode, second, locked, consent, token, granted, events, slept, marker>>
      /\ UNCHANGED <<dead, old, attached, resumed>>
  BY DEF Pause, fixture
<1>3. CASE /\ did' = did \cup {"pause"} /\ (Lose \/ UNCHANGED <<ses, shown>>)
           /\ UNCHANGED <<machine, faults, silent>> /\ Proceed
  BY <1>1, <1>2, <1>3 DEF Lose, Shows, Proceed, Ends, Others, Check, Walks, result, TypeOK
<1>4. CASE /\ ~IsGuest /\ silent' = silent \cup {"pause"}
           /\ UNCHANGED <<machine, ses, shown, faults, did>> /\ Proceed
  BY <1>1, <1>2, <1>4 DEF Proceed, Ends, Others, Check, Walks, result, TypeOK
<1>5. CASE /\ Fault /\ machine' = "paused" /\ did' = did \cup {"pause"} /\ UNCHANGED <<ses, shown, silent>>
           /\ IF IsGuest THEN Breaks(FALSE) ELSE Proceed
  <2>1. Others /\ Walks
    <3>1. CASE IsGuest
      BY <1>1, <1>5, <3>1 DEF Breaks, Others, Walks, result, TypeOK
    <3>2. CASE ~IsGuest
      BY <1>1, <1>5, <3>2 DEF Proceed, Ends, Others, Check, Walks, result, TypeOK
    <3>. QED BY <3>1, <3>2
  <2>. QED BY <1>1, <1>2, <1>5, <2>1 DEF Fault, Others, result, TypeOK
<1>. QED BY <1>3, <1>4, <1>5 DEF Pause

LEMMA PauseKeeps == ASSUME IInv, Pause PROVE IInv'
<1>1. TypeOK /\ Rows /\ phase = "run" /\ step # 0 /\ Call(step) = "pause" /\ Walks
  BY PauseFacts DEF IInv, InRow
<1>2. row = 5 /\ step = 2
  BY <1>1, Where DEF Place
<1>3. /\ UNCHANGED <<up, mode, second, locked, consent, token, granted, events, slept, marker>>
      /\ UNCHANGED <<dead, old, attached, resumed, attempt, transient, cycle, retries>>
      /\ UNCHANGED <<able, only, current, outcome, healthy, record, runs, opened>>
  BY PauseFacts
<1>4. /\ ses' = ses \/ (ses = "live" /\ ses' = "lost")
      /\ shown' \in {"blank", "scene"}
      /\ UNCHANGED <<machine, faults>> \/ (machine' = "paused" /\ faults' = faults + 1 /\ faults < Faults)
      /\ did \subseteq did' /\ silent' \in {silent, silent \cup {"pause"}} /\ "pause" \in did' \cup silent'
  BY PauseFacts
<1>6. TypeOK'
  <2>1. /\ row' \in 1 .. Len(Order) /\ step' \in 0 .. Len(Steps)' /\ Scenario' = Scenario
        /\ failed' \in BOOLEAN /\ raised' \in BOOLEAN /\ hung' \in BOOLEAN /\ phase' = "run"
    BY <1>1, TypeWalks
  <2>2. faults' \in 0 .. Faults /\ machine' \in {"running", "paused", "suspended"}
    BY <1>1, <1>4, QualAssumption DEF TypeOK
  <2>3. ses' \in {"none", "live", "lost", "stale"} /\ shown' \in {"blank", "scene"}
    BY <1>1, <1>4 DEF TypeOK
  <2>4. silent' \subseteq Blind \cup {"pause"}
    BY <1>1, <1>4 DEF TypeOK
  <2>. QED BY <1>1, <1>3, <2>1, <2>2, <2>3, <2>4 DEF TypeOK
<1>7. Gentle
  BY <1>1, <1>3, <1>4 DEF Gentle, IInv, Fixture
<1>8. Spent'
  BY <1>1, <1>3, <1>4, SpentFault, SpentStays DEF At, Call, Walks, guest
<1>9. Keeps /\ Met
  BY <1>1, <1>3, <1>4 DEF Keeps, Met, Ensured, Effect, Framing, Connecting
<1>10. Rows'
  <2>1. ~resumed'
    BY <1>1, <1>2, <1>3 DEF Rows, ResumedRow
  <2>2. ~failed' => ses # "stale"
    BY <1>1, <1>2 DEF Rows, ResumedRow, Walks
  <2>. QED BY <1>1, <1>2, <1>4, <2>1, <2>2, RowsElse
<1>. QED BY <1>1, <1>6, <1>7, <1>8, <1>9, <1>10, Walking

\* The input is seen in the viewer, or the scenario fails.
LEMMA InputKeeps == ASSUME IInv, TypeAndClick PROVE IInv'
<1>1. TypeOK /\ Rows /\ phase = "run" /\ step # 0 /\ Call(step) = "input"
  BY DEF TypeAndClick, IInv, InRow, At, Call
<1>2. row = 7
  BY <1>1, Where DEF Place
<1>3. PICK marked \in BOOLEAN :
        /\ faults' = faults \/ Fault
        /\ did' = (IF marked THEN did \cup {"input"} ELSE did)
        /\ UNCHANGED <<fixture, guest, viewer, attached, silent, resumed>> /\ Ends(marked)
  BY DEF TypeAndClick
<1>4. /\ UNCHANGED <<up, mode, second, locked, consent, token, granted, events, machine, slept, marker>>
      /\ UNCHANGED <<ses, shown, dead, old, attached, silent, resumed, attempt, transient, cycle, retries>>
      /\ UNCHANGED <<able, only, current, outcome, healthy, record, runs, opened>>
  BY <1>3 DEF Ends, Others, fixture, guest, viewer, result
<1>5. Walks /\ (~failed' => marked)
  BY <1>1, <1>3, <1>4 DEF Ends, Check, Walks, TypeOK
<1>6. faults' \in 0 .. Faults /\ faults' \in {faults, faults + 1}
  BY <1>1, <1>3, QualAssumption DEF Fault, TypeOK
<1>7. TypeOK'
  <2>1. /\ row' \in 1 .. Len(Order) /\ step' \in 0 .. Len(Steps)' /\ Scenario' = Scenario
        /\ failed' \in BOOLEAN /\ raised' \in BOOLEAN /\ hung' \in BOOLEAN /\ phase' = "run"
    BY <1>1, <1>5, TypeWalks
  <2>. QED BY <1>1, <1>4, <1>6, <2>1 DEF TypeOK
<1>8. Gentle
  BY <1>1, <1>4 DEF Gentle, IInv, Fixture
<1>9. Spent'
  BY <1>1, <1>4, <1>5, <1>6, SpentStays DEF At, Call, Walks, guest
<1>10. ~failed' => Keeps /\ Met
  BY <1>1, <1>3, <1>4, <1>5 DEF Keeps, Met, Ensured, Effect, Framing, Connecting
<1>11. Rows'
  <2>1. resumed' => resumed /\ machine' = machine /\ (locked' => locked)
    BY <1>4
  <2>. QED BY <1>1, <1>2, <1>5, <2>1, RowsElse
<1>. QED BY <1>1, <1>5, <1>7, <1>8, <1>9, <1>10, <1>11, Walking

\* The refusal is looked for right after the helper was told to deny.
LEMMA DenyPath ==
  ASSUME IInv, phase = "run", step # 0, Walks, ~failed' => Keeps /\ Met, row = 11, step \in 1 .. 2
  PROVE  step' # 4
<1>1. Order[row].steps = PortalDeny /\ Steps = PortalDeny
  BY Rows15 DEF Row, Steps
<1>2. CASE failed'
  <2>1. Steps[4].runs = "ok"
    BY <1>1, PortalDenySteps DEF Step
  <2>. QED BY <1>2, <2>1, Onward
<1>3. CASE ~failed'
  <2>1. InStep /\ Shape /\ ~failed /\ Done
    BY <1>3 DEF IInv, InRow, InStep, Walks
  <2>2. PICK n \in 1 .. 11 : n = step + 1
    OBVIOUS
  <2>3. n <= Len(Steps) /\ Steps[n].call # "disconnect" /\ n # 4
    BY <1>1, <2>2, PortalDenySteps DEF Step
  <2>. QED BY <1>3, <2>1, <2>2, <2>3, Succeeds
<1>. QED BY <1>2, <1>3

LEMMA RestartKeeps == ASSUME IInv, Restart PROVE IInv'
<1>1. TypeOK /\ Rows /\ phase = "run" /\ step # 0 /\ Call(step) = "restart"
  BY DEF Restart, IInv, InRow, At, Call
<1>2. row \in {6, 10, 11, 12} /\ (row = 12 => step \in {2, 6})
  BY <1>1, Where DEF Place
<1>3. /\ UNCHANGED <<consent, token, events, machine, slept, marker>>
      /\ UNCHANGED <<dead, attached, silent, resumed, attempt, transient, cycle, retries>>
      /\ UNCHANGED <<able, only, current, outcome, healthy, record, runs, opened>>
  BY DEF Restart, Ends, Others, guest, result
<1>4. /\ ses' = ses \/ (ses = "live" /\ ses' = "lost")
      /\ ses' # "live" /\ shown' \in {"blank", "scene"} /\ old' = FALSE
      /\ mode' = "base" /\ second' = FALSE /\ locked' = FALSE /\ granted' = FALSE
      /\ faults' \in {faults, faults + 1} /\ faults' \in 0 .. Faults
      /\ did' = IF up' THEN did \cup {"restarted"} ELSE did
  BY <1>1, QualAssumption DEF Restart, Lose, Fault, Shows, TypeOK
<1>5. up' \in BOOLEAN
  BY <1>1 DEF Restart, TypeOK
<1>6. Walks /\ (~failed' => up')
  BY <1>1, <1>3, <1>5 DEF Restart, Ends, Check, Walks, TypeOK
<1>7. TypeOK'
  <2>1. /\ row' \in 1 .. Len(Order) /\ step' \in 0 .. Len(Steps)' /\ Scenario' = Scenario
        /\ failed' \in BOOLEAN /\ raised' \in BOOLEAN /\ hung' \in BOOLEAN /\ phase' = "run"
    BY <1>1, <1>6, TypeWalks
  <2>2. ses' \in {"none", "live", "lost", "stale"} /\ mode' \in {"base", "small", "large"}
    BY <1>1, <1>4 DEF TypeOK
  <2>3. old' \in BOOLEAN /\ second' \in BOOLEAN /\ locked' \in BOOLEAN /\ granted' \in BOOLEAN
    BY <1>4, Zenon
  <2>. QED BY <1>1, <1>3, <1>4, <1>5, <2>1, <2>2, <2>3 DEF TypeOK
<1>8. Gentle
  BY <1>1, <1>3, <1>4 DEF Gentle
<1>9. Spent'
  BY <1>1, <1>3, <1>4, <1>6, SpentStays DEF At, Call, Walks, guest
<1>10. ~failed' => Keeps /\ Met
  BY <1>1, <1>3, <1>4, <1>6 DEF Keeps, Met, Ensured, Effect, Framing, Connecting
<1>11. Rows'
  <2>1. row = 11 => step' # 4
    <3>1. row = 11 => step \in 2 .. 8
      <4>. SUFFICES ASSUME row = 11 PROVE step # 1 /\ step \in 1 .. 8
        BY <1>1, Onward, <1>6
      <4>1. Steps = PortalDeny
        BY Rows15 DEF Row, Steps
      <4>2. step \in 1 .. 10
        BY <1>1, <4>1, Where, PortalDenySteps
      <4>3. step # 1 /\ step # 9 /\ step # 10
        BY <1>1, <4>1, PortalDenySteps DEF Call, Step, Always
      <4>. QED BY <4>2, <4>3
    <3>2. row = 11 /\ step = 3 => FALSE
      BY <1>1, Rows15, PortalDenySteps DEF Row, Steps, Call, Step
    <3>3. row = 11 /\ step = 2 => step' # 4
      BY <1>1, <1>6, <1>10, DenyPath
    <3>. QED BY <1>1, <1>6, <3>1, <3>2, <3>3, Onward
  <2>2. resumed' => resumed /\ machine' = machine /\ (locked' => locked)
    BY <1>3, <1>4
  <2>. QED BY <1>1, <1>2, <1>3, <1>4, <1>6, <2>1, <2>2, RowsElse DEF Rows, Counting
<1>. QED BY <1>1, <1>6, <1>7, <1>8, <1>9, <1>10, <1>11, Walking

LEMMA PortalKeeps == ASSUME IInv, Portal PROVE IInv'
<1>1. TypeOK /\ Rows /\ phase = "run" /\ step # 0
      /\ Call(step) \in {"forget", "approve", "deny", "persist", "none"}
  BY DEF Portal, IInv, InRow, At, Call
<1>2. row \in {6, 10, 11, 12} /\ (row = 12 => (Call(step) = "forget" => step = 1))
      /\ (row = 11 => (Call(step) = "deny" => step = 3))
  BY <1>1, Where DEF Place
<1>3. /\ UNCHANGED <<up, mode, second, locked, granted, machine, slept, marker, ses, shown, dead, old>>
      /\ UNCHANGED <<attached, silent, resumed, did, faults, attempt, transient, cycle, retries>>
      /\ UNCHANGED <<able, only, current, outcome, healthy, record, runs, opened>>
  BY DEF Portal, Proceed, Ends, Others, guest, result, viewer
<1>4. \/ Call(step) = "forget" /\ token' = FALSE /\ UNCHANGED <<consent, events>>
      \/ Call(step) # "forget" /\ consent' = Call(step) /\ events' = {} /\ token' = token
  BY DEF Portal, At, Call
<1>5. Walks
  BY <1>1, <1>3 DEF Portal, Proceed, Ends, Check, Walks, TypeOK
<1>6. TypeOK'
  <2>1. /\ row' \in 1 .. Len(Order) /\ step' \in 0 .. Len(Steps)' /\ Scenario' = Scenario
        /\ failed' \in BOOLEAN /\ raised' \in BOOLEAN /\ hung' \in BOOLEAN /\ phase' = "run"
    BY <1>1, <1>5, TypeWalks
  <2>2. consent' \in {"approve", "deny", "persist", "none"} /\ events' \subseteq {"Approve", "Deny"}
    BY <1>1, <1>4 DEF TypeOK
  <2>3. token' \in BOOLEAN
    BY <1>1, <1>4 DEF TypeOK
  <2>. QED BY <1>1, <1>3, <2>1, <2>2, <2>3 DEF TypeOK
<1>7. Gentle
  BY <1>1, <1>3 DEF Gentle, IInv, Fixture
<1>8. Spent'
  BY <1>1, <1>3, <1>5, SpentStays DEF At, Call, Walks, guest
<1>9. Keeps /\ Met
  BY <1>1, <1>3, <1>4 DEF Keeps, Met, Ensured, Effect, Framing, Connecting
<1>10. Rows'
  <2>1. row = 11 /\ step' = 4 => "Deny" \notin events'
    <3>1. CASE Call(step) # "forget"
      BY <1>4, <3>1
    <3>2. CASE Call(step) = "forget"
      <4>. SUFFICES ASSUME row = 11 PROVE step' # 4
        OBVIOUS
      <4>1. Steps = PortalDeny
        BY Rows15 DEF Row, Steps
      <4>2. step \in 1 .. 10
        BY <1>1, <4>1, Where, PortalDenySteps
      <4>3. step # 2 /\ step # 3
        BY <3>2, <4>1, PortalDenySteps DEF Call, Step
      <4>4. step = 1 => step' # 4
        BY <1>1, <1>5, <1>9, DenyPath
      <4>. QED BY <1>1, <1>5, <4>2, <4>3, <4>4, Onward
    <3>. QED BY <3>1, <3>2
  <2>2. resumed' => resumed /\ machine' = machine /\ (locked' => locked)
    BY <1>3
  <2>3. row = 12 => (token' => token) /\ (step = 1 => ~token')
    BY <1>2, <1>4, Openings
  <2>. QED BY <1>1, <1>2, <1>3, <1>5, <2>1, <2>2, <2>3, RowsElse DEF Rows, Counting
<1>. QED BY <1>1, <1>5, <1>6, <1>7, <1>8, <1>9, <1>10, Walking

LEMMA HighDpiKeeps == ASSUME IInv, SetHighDpi PROVE IInv'
<1>1. TypeOK /\ Rows /\ phase = "run" /\ step # 0 /\ Call(step) = "large"
  BY DEF SetHighDpi, IInv, InRow, At, Call
<1>2. row = 14
  BY <1>1, Where DEF Place
<1>3. /\ UNCHANGED <<up, second, locked, consent, token, granted, events, machine, slept, marker>>
      /\ UNCHANGED <<ses, shown, dead, old, attached, silent, resumed, did, faults, attempt, transient, cycle, retries>>
      /\ UNCHANGED <<able, only, outcome, healthy, record, runs, opened>>
      /\ mode' \in {mode, "large"} /\ current' = "large"
  BY DEF SetHighDpi, guest, viewer
<1>4. Walks
  BY <1>1, <1>3 DEF SetHighDpi, Check, Walks, TypeOK
<1>5. TypeOK'
  <2>1. /\ row' \in 1 .. Len(Order) /\ step' \in 0 .. Len(Steps)' /\ Scenario' = Scenario
        /\ failed' \in BOOLEAN /\ raised' \in BOOLEAN /\ hung' \in BOOLEAN /\ phase' = "run"
    BY <1>1, <1>4, TypeWalks
  <2>. QED BY <1>1, <1>3, <2>1 DEF TypeOK
<1>6. Gentle
  BY <1>1, <1>2, <1>3 DEF Gentle, IInv, Fixture
<1>7. Spent'
  BY <1>1, <1>3, <1>4, SpentStays DEF At, Call, Walks, guest
<1>8. Keeps /\ Met
  BY <1>1, <1>3 DEF Keeps, Met, Ensured, Effect, Framing, Connecting
<1>9. Rows'
  BY <1>1, <1>2, <1>3, <1>4, RowsElse
<1>. QED BY <1>1, <1>4, <1>5, <1>6, <1>7, <1>8, <1>9, Walking
LEMMA SleepKeeps == ASSUME IInv, Sleep PROVE IInv'
<1>1. TypeOK /\ Rows /\ Shape /\ Spent /\ phase = "run" /\ step # 0 /\ Call(step) = "sleep"
  BY DEF Sleep, IInv, InRow, At, Call
<1>2. row = 15 /\ step = 2
  BY <1>1, Where DEF Place
<1>3. /\ UNCHANGED <<up, mode, second, locked, consent, token, granted, events, marker>>
      /\ UNCHANGED <<ses, shown, dead, old, attached, silent, resumed, attempt, transient, cycle, retries>>
      /\ UNCHANGED <<able, only, current, outcome, healthy, record, runs, opened>>
  BY DEF Sleep, Ends, Others, viewer, fixture, result
<1>4. /\ (machine' = "suspended" /\ faults' = faults)
         \/ (machine' \in {"running", "suspended"} /\ faults' = faults + 1 /\ faults < Faults)
      /\ slept' = (slept \/ machine' = "suspended")
      /\ did' = (IF machine' = "suspended" THEN did \cup {"slept"} ELSE did)
  BY DEF Sleep, Fault
<1>5. Walks /\ (~failed' => faults' = faults)
  BY <1>1, <1>3 DEF Sleep, Ends, Check, Walks, TypeOK
<1>6. faults' \in 0 .. Faults /\ (faults' = faults + 1 => faults' # faults)
  BY <1>1, <1>4, QualAssumption DEF TypeOK
<1>7. TypeOK'
  <2>1. /\ row' \in 1 .. Len(Order) /\ step' \in 0 .. Len(Steps)' /\ Scenario' = Scenario
        /\ failed' \in BOOLEAN /\ raised' \in BOOLEAN /\ hung' \in BOOLEAN /\ phase' = "run"
    BY <1>1, <1>5, TypeWalks
  <2>2. machine' \in {"running", "paused", "suspended"} /\ slept' \in BOOLEAN
    BY <1>1, <1>4 DEF TypeOK
  <2>. QED BY <1>1, <1>3, <1>6, <2>1, <2>2 DEF TypeOK
<1>8. Gentle
  BY <1>1, <1>3, <1>4 DEF Gentle, IInv, Fixture
<1>9. Spent'
  <2>1. IsGuest
    BY <1>1, <1>2, Rows15 DEF Shape, Row, IsGuest
  <2>2. CASE faults' = faults + 1
    BY <1>1, <1>3, <1>5, <2>1, <2>2, SpentFault DEF Walks
  <2>3. CASE machine' = "suspended"
    BY <1>1, <1>3, <1>5, <2>1, <2>3 DEF Spent, Walks, IsGuest
  <2>. QED BY <1>4, <2>2, <2>3
<1>10. ~failed' => Keeps /\ Met
  <2>. SUFFICES ASSUME ~failed' PROVE Keeps /\ Met
    OBVIOUS
  <2>1. machine' = "suspended"
    BY <1>4, <1>5, <1>6
  <2>. QED BY <1>1, <1>3, <1>4, <2>1 DEF Keeps, Met, Ensured, Effect, Framing, Connecting
<1>11. Rows'
  <2>1. ~resumed'
    BY <1>1, <1>2, <1>3 DEF Rows, ResumedRow
  <2>2. ~failed' => ses' # "stale"
    BY <1>1, <1>2, <1>3, <1>5 DEF Rows, ResumedRow, Walks
  <2>. QED BY <1>1, <1>2, <1>5, <2>1, <2>2, RowsElse
<1>. QED BY <1>1, <1>5, <1>7, <1>8, <1>9, <1>10, <1>11, Walking

LEMMA WakeKeeps == ASSUME IInv, Wake PROVE IInv'
<1>1. TypeOK /\ Rows /\ Shape /\ Spent /\ phase = "run" /\ step # 0 /\ Call(step) = "wake"
  BY DEF Wake, IInv, InRow, At, Call
<1>2. row = 15 /\ step = 3 /\ Steps = SuspendResume
  BY <1>1, Where, Rows15 DEF Place, Row, Steps
<1>3. /\ UNCHANGED <<up, mode, second, locked, consent, token, granted, events, marker, slept>>
      /\ UNCHANGED <<dead, old, attached, silent, resumed, attempt, transient, cycle, retries>>
      /\ UNCHANGED <<able, only, current, outcome, healthy, record, runs, opened>>
  BY DEF Wake, Ends, Others, fixture, result
<1>4. /\ (machine' = "running" /\ faults' = faults /\ did' = did \cup {"woken"})
         \/ (machine' = machine /\ faults' = faults + 1 /\ faults < Faults /\ did' = did)
      /\ ses' = ses \/ (ses = "live" /\ ses' = "lost")
      /\ shown' \in {"blank", "scene"}
  BY <1>1 DEF Wake, Fault, Lose, Shows, TypeOK
<1>5. Walks /\ (~failed' => faults' = faults) /\ (faults' = faults => failed' = failed)
  BY <1>1, <1>3 DEF Wake, Ends, Check, Walks, TypeOK
<1>6. faults' \in 0 .. Faults /\ (faults' = faults + 1 => faults' # faults)
  BY <1>1, <1>4, QualAssumption DEF TypeOK
<1>7. TypeOK'
  <2>1. /\ row' \in 1 .. Len(Order) /\ step' \in 0 .. Len(Steps)' /\ Scenario' = Scenario
        /\ failed' \in BOOLEAN /\ raised' \in BOOLEAN /\ hung' \in BOOLEAN /\ phase' = "run"
    BY <1>1, <1>5, TypeWalks
  <2>2. machine' \in {"running", "paused", "suspended"}
    BY <1>1, <1>4 DEF TypeOK
  <2>3. ses' \in {"none", "live", "lost", "stale"}
    BY <1>1, <1>4 DEF TypeOK
  <2>. QED BY <1>1, <1>3, <1>4, <1>6, <2>1, <2>2, <2>3 DEF TypeOK
<1>8. Gentle
  BY <1>1, <1>3, <1>4 DEF Gentle, IInv, Fixture
<1>9. ~failed' => Keeps /\ Met
  BY <1>1, <1>3, <1>4, <1>5, <1>6 DEF Keeps, Met, Ensured, Effect, Framing, Connecting
<1>10. Spent'
  <2>1. CASE faults' = faults + 1
    BY <1>1, <1>3, <1>5, <2>1, SpentFault DEF Walks
  <2>2. CASE faults' = faults
    <3>1. Steps[3].runs = "ok" /\ Steps[4].call = "agent" /\ Len(Steps) = 8
      BY <1>2, SuspendResumeSteps DEF Step
    <3>2. ~failed /\ ~failed'
      BY <1>1, <1>2, <1>5, <2>2, <3>1 DEF Shape
    <3>3. InStep /\ Done
      BY <1>1, <3>2 DEF InStep, IInv, InRow
    <3>4. 4 \in 1 .. 11 /\ 4 = step + 1 /\ 4 <= Len(Steps)
      BY <1>2, <3>1
    <3>5. step' = 4
      BY <1>1, <1>5, <1>9, <3>1, <3>2, <3>3, <3>4, Succeeds
    <3>6. At("agent")'
      BY <1>1, <1>5, <3>1, <3>5 DEF At, Walks, Steps
    <3>. QED BY <1>1, <1>3, <1>5, <3>6 DEF Spent, Walks, IsGuest
  <2>. QED BY <1>4, <2>1, <2>2
<1>11. Rows'
  <2>1. ~resumed'
    BY <1>1, <1>2, <1>3 DEF Rows, ResumedRow
  <2>2. ~failed' => ses # "stale"
    BY <1>1, <1>2, <1>5 DEF Rows, ResumedRow, Walks
  <2>. QED BY <1>1, <1>2, <1>4, <1>5, <2>1, <2>2, RowsElse
<1>. QED BY <1>1, <1>5, <1>7, <1>8, <1>9, <1>10, <1>11, Walking

LEMMA MarkSleptKeeps == ASSUME IInv, MarkSlept PROVE IInv'
<1>1. TypeOK /\ Rows /\ Spent /\ phase = "run" /\ step # 0 /\ Call(step) = "agent"
  BY DEF MarkSlept, IInv, InRow, At, Call
<1>2. row = 15 /\ step = 4
  BY <1>1, Where DEF Place
<1>3. /\ UNCHANGED <<up, mode, second, locked, consent, token, granted, events, machine, slept>>
      /\ UNCHANGED <<ses, shown, dead, old, attached, silent, resumed, did, attempt, transient, cycle, retries>>
      /\ UNCHANGED <<able, only, current, outcome, healthy, record, runs, opened>>
  BY DEF MarkSlept, Proceed, Ends, Others, fixture, result, viewer
<1>4. \/ marker' = TRUE /\ faults' = faults
      \/ marker' = marker /\ faults' = faults + 1 /\ faults < Faults
  BY DEF MarkSlept, Fault
<1>5. Walks
  BY <1>1, <1>3 DEF MarkSlept, Proceed, Ends, Check, Walks, TypeOK
<1>6. TypeOK'
  <2>1. /\ row' \in 1 .. Len(Order) /\ step' \in 0 .. Len(Steps)' /\ Scenario' = Scenario
        /\ failed' \in BOOLEAN /\ raised' \in BOOLEAN /\ hung' \in BOOLEAN /\ phase' = "run"
    BY <1>1, <1>5, TypeWalks
  <2>2. faults' \in 0 .. Faults
    BY <1>1, <1>4, QualAssumption DEF TypeOK
  <2>3. marker' \in BOOLEAN
    BY <1>1, <1>4 DEF TypeOK
  <2>. QED BY <1>1, <1>3, <2>1, <2>2, <2>3 DEF TypeOK
<1>7. Gentle
  BY <1>1, <1>3 DEF Gentle, IInv, Fixture
<1>8. Keeps /\ Met
  BY <1>1, <1>3 DEF Keeps, Met, Ensured, Effect, Framing, Connecting
<1>9. Spent'
  <2>1. CASE faults' = faults + 1
    BY <1>1, <1>3, <1>5, <2>1, SpentFault DEF Walks
  <2>2. CASE marker' = TRUE
    BY <1>1, <1>3, <1>5, <2>2 DEF Spent, Walks, IsGuest
  <2>. QED BY <1>4, <2>1, <2>2
<1>10. Rows'
  <2>1. ~failed' => ses' # "stale"
    BY <1>1, <1>2, <1>3, <1>5 DEF Rows, ResumedRow, Walks
  <2>2. resumed' => resumed /\ machine' = machine /\ (locked' => locked)
    BY <1>3
  <2>. QED BY <1>1, <1>2, <1>5, <2>1, <2>2, RowsElse
<1>. QED BY <1>1, <1>5, <1>6, <1>7, <1>8, <1>9, <1>10, Walking

LEMMA SecretKeeps == ASSUME IInv, Secret PROVE IInv'
<1>1. TypeOK /\ Rows /\ Shape /\ phase = "run" /\ step # 0 /\ Call(step) = "secret"
  BY DEF Secret, IInv, InRow, At, Call
<1>2. row = 8 /\ step = 5 /\ Steps = Lock
  BY <1>1, Where, Rows15 DEF Place, Row, Steps
<1>3. /\ UNCHANGED <<up, mode, second, consent, token, granted, events, machine, slept, marker>>
      /\ UNCHANGED <<dead, old, attached, silent, resumed, attempt, transient, cycle, retries, shown>>
      /\ UNCHANGED <<able, only, current, outcome, healthy, record, runs, opened>>
  BY DEF Secret, Proceed, Ends, Others, guest, result
<1>4. /\ \/ ses = "live" /\ locked' = FALSE /\ ses' = ses /\ faults' = faults
         \/ ses = "live" /\ locked' = locked /\ ses' = ses /\ faults' = faults + 1 /\ faults < Faults
         \/ ses # "live" /\ locked' = locked /\ ses' \in {ses, "stale", "none"} /\ faults' = faults
      /\ did' = (IF locked' # locked THEN did \cup {"unlocked"} ELSE did)
  BY DEF Secret, Fault
<1>5. Walks
  BY <1>1, <1>3 DEF Secret, Proceed, Ends, Check, Walks, TypeOK
<1>6. TypeOK'
  <2>1. /\ row' \in 1 .. Len(Order) /\ step' \in 0 .. Len(Steps)' /\ Scenario' = Scenario
        /\ failed' \in BOOLEAN /\ raised' \in BOOLEAN /\ hung' \in BOOLEAN /\ phase' = "run"
    BY <1>1, <1>5, TypeWalks
  <2>2. faults' \in 0 .. Faults
    BY <1>1, <1>4, QualAssumption DEF TypeOK
  <2>3. locked' \in BOOLEAN /\ ses' \in {"none", "live", "lost", "stale"}
    BY <1>1, <1>4 DEF TypeOK
  <2>. QED BY <1>1, <1>3, <2>1, <2>2, <2>3 DEF TypeOK
<1>7. Gentle
  BY <1>1, <1>2, <1>3, <1>4 DEF Gentle, IInv, Fixture
<1>8. Keeps /\ Met
  BY <1>1, <1>3, <1>4 DEF Keeps, Met, Ensured, Effect, Framing, Connecting
<1>9. Spent'
  BY <1>1, <1>3, <1>4, <1>5, SpentStays DEF At, Call, Walks, guest
<1>10. LockRow'
  <2>. SUFFICES ASSUME ~failed' PROVE LockRow'
    BY DEF LockRow
  <2>1. InStep /\ ~failed /\ Done
    BY <1>1, <1>5 DEF InStep, IInv, InRow, Walks
  <2>2. 6 \in 1 .. 11 /\ 6 = step + 1 /\ 6 <= Len(Steps) /\ Steps[6].call # "disconnect"
    BY <1>2, LockSteps DEF Step
  <2>3. step' = 6
    BY <1>1, <1>5, <1>8, <2>1, <2>2, Succeeds
  <2>4. /\ granted /\ machine = "running" /\ (~App /\ "lost" \notin did => ses = "live")
        /\ Sure => locked /\ "lock" \in did /\ (ses # "live" => shown = "blank")
    BY <1>1, <1>2, <2>1 DEF Rows, LockRow, SureRow
  <2>6. ("lost" \in did' <=> "lost" \in did) /\ (App' <=> App) /\ (Sure' <=> Sure)
    BY <1>3, <1>4 DEF App, Sure
  <2>7. ~App /\ "lost" \notin did => ses' = "live"
    BY <1>4, <2>4
  <2>5. Sure => "lock" \in did' /\ (~locked' => "unlocked" \in did') /\ (ses' = "stale" => shown' = "blank")
    BY <1>3, <1>4, <2>4
  <2>. QED BY <1>3, <2>3, <2>4, <2>5, <2>6, <2>7 DEF LockRow, SureRow
<1>11. Rows'
  <2>1. resumed' => resumed /\ machine' = machine /\ (locked' => locked)
    BY <1>3, <1>4
  <2>2. Counting' /\ DenyRow' /\ RestoreRow' /\ ResumedRow'
    BY <1>1, <1>2, <1>5, <2>1, RowsElse
  <2>. QED BY <1>2, <1>5, <1>10, <2>2 DEF Rows, ResizeRow, Walks
<1>. QED BY <1>1, <1>5, <1>6, <1>7, <1>8, <1>9, <1>11, Walking
\* The fixture's commands, which may do nothing unnoticed, and live_resize's end.
Commands == Detach \/ \E c \in {"lock", "unlock", "plug", "unplug", "small", "base"} : Command(c)

LEMMA CommandFacts ==
  ASSUME IInv, Commands
  PROVE  /\ phase = "run" /\ step # 0 /\ Walks /\ failed' = failed
         /\ UNCHANGED <<up, consent, token, granted, events, machine, slept, marker, ses, shown, dead, old>>
         /\ UNCHANGED <<resumed, faults, attempt, transient, cycle, retries>>
         /\ UNCHANGED <<able, only, current, outcome, healthy, record, runs, opened>>
         /\ locked' \in BOOLEAN /\ second' \in BOOLEAN /\ attached' \in BOOLEAN
         /\ mode' \in {"base", "small", "large"} /\ silent' \subseteq Blind \cup {"pause"}
         /\ silent \subseteq silent' /\ did' \in {did, did \cup {Call(step)}}
         /\ Call(step) \in {"lock", "unlock", "plug", "unplug", "small", "detach", "base"}
         /\ mode' = mode \/ (Call(step) \in {"small", "base"} /\ mode' = Call(step) /\ Call(step) \in did')
         /\ \/ locked' = locked
            \/ Call(step) = "lock" /\ locked' /\ "lock" \in did'
            \/ Call(step) = "unlock" /\ ~locked'
         /\ second' = second \/ Call(step) = "plug" \/ (Call(step) = "unplug" /\ ~second')
         /\ Call(step) \in {"plug", "unplug"} => Call(step) \in did' \cup silent'
         /\ Call(step) = "unplug" => ~second' \/ "unplug" \in silent'
         /\ Call(step) = "base" => mode' = "base" \/ "base" \in silent'
         /\ Call(step) \notin {"small", "detach"} => attached' = attached
         /\ Call(step) = "detach" => ~attached'
<1>1. TypeOK
  BY DEF IInv
<1>2. CASE Detach
  <2>1. At("detach") /\ attached' = FALSE /\ Proceed
        /\ UNCHANGED <<fixture, guest, viewer, silent, resumed, did, faults>>
    BY <1>2 DEF Detach
  <2>2. Walks /\ failed' = failed /\ Others
    BY <1>1, <2>1 DEF Proceed, Ends, Check, Others, Walks, result, TypeOK
  <2>. QED BY <1>1, <2>1, <2>2 DEF Others, At, Call, fixture, guest, viewer, result, TypeOK
<1>3. ASSUME NEW c \in {"lock", "unlock", "plug", "unplug", "small", "base"}, Command(c)
      PROVE  /\ phase = "run" /\ step # 0 /\ Walks /\ failed' = failed /\ Others
             /\ UNCHANGED <<up, consent, token, granted, events, guest, viewer, resumed, faults>>
             /\ Call(step) = c /\ attached' = (attached \/ c = "small")
             /\ \/ Works(c) /\ did' = did \cup {c} /\ silent' = silent
                \/ silent' = silent \cup ({c} \cap Blind) /\ UNCHANGED <<mode, second, locked, did>>
  <2>1. /\ At(c) /\ Proceed /\ attached' = (attached \/ c = "small")
        /\ UNCHANGED <<up, consent, token, granted, events, guest, viewer, resumed, faults>>
        /\ \/ Works(c) /\ did' = did \cup {c} /\ silent' = silent
           \/ silent' = silent \cup ({c} \cap Blind) /\ UNCHANGED <<mode, second, locked, did>>
    BY <1>3 DEF Command
  <2>2. Walks /\ failed' = failed /\ Others
    BY <1>1, <2>1 DEF Proceed, Ends, Check, Others, Walks, result, TypeOK
  <2>. QED BY <2>1, <2>2 DEF At, Call
<1>4. ASSUME NEW c \in {"lock", "unlock", "plug", "unplug", "small", "base"}, Command(c)
      PROVE  /\ mode' = mode \/ (c \in {"small", "base"} /\ mode' = c /\ c \in did')
             /\ \/ locked' = locked
                \/ c = "lock" /\ locked' = TRUE /\ "lock" \in did'
                \/ c = "unlock" /\ locked' = FALSE
             /\ second' = second \/ (c = "plug" /\ second' = TRUE) \/ (c = "unplug" /\ second' = FALSE)
             /\ c \in {"plug", "unplug"} => c \in did' \cup silent'
             /\ c = "unplug" => second' = FALSE \/ "unplug" \in silent'
             /\ c = "base" => mode' = "base" \/ "base" \in silent'
             /\ silent \subseteq silent' /\ did' \in {did, did \cup {c}}
             /\ silent' \subseteq Blind \cup {"pause"}
  <2>1. CASE Works(c) /\ did' = did \cup {c} /\ silent' = silent
    <3>1. silent' \subseteq Blind \cup {"pause"}
      BY <1>1, <2>1 DEF TypeOK
    <3>. QED BY <1>4, <2>1, <3>1 DEF Works
  <2>2. CASE silent' = silent \cup ({c} \cap Blind) /\ UNCHANGED <<mode, second, locked, did>>
    <3>1. silent' \subseteq Blind \cup {"pause"}
      BY <1>1, <2>2 DEF TypeOK
    <3>. QED BY <1>4, <2>2, <3>1 DEF Blind
  <2>. QED BY <1>3, <1>4, <2>1, <2>2
<1>5. ASSUME NEW c \in {"lock", "unlock", "plug", "unplug", "small", "base"}, Command(c)
      PROVE  /\ locked' \in BOOLEAN /\ second' \in BOOLEAN /\ attached' \in BOOLEAN
             /\ mode' \in {"base", "small", "large"}
             /\ c # "small" => attached' = attached
  <2>1. locked' \in BOOLEAN /\ second' \in BOOLEAN
    BY <1>1, <1>4, <1>5 DEF TypeOK
  <2>2. attached' \in BOOLEAN /\ (c # "small" => attached' = attached)
    BY <1>1, <1>3, <1>5 DEF TypeOK
  <2>3. mode' \in {"base", "small", "large"}
    BY <1>1, <1>4, <1>5 DEF TypeOK
  <2>. QED BY <2>1, <2>2, <2>3
<1>6. CASE \E c \in {"lock", "unlock", "plug", "unplug", "small", "base"} : Command(c)
  <2>1. PICK c \in {"lock", "unlock", "plug", "unplug", "small", "base"} : Command(c)
    BY <1>6
  <2>2. Call(step) = c /\ phase = "run" /\ step # 0 /\ Walks /\ failed' = failed
    BY <1>3, <2>1
  <2>3. /\ UNCHANGED <<up, consent, token, granted, events, machine, slept, marker, ses, shown, dead, old>>
        /\ UNCHANGED <<resumed, faults, attempt, transient, cycle, retries>>
        /\ UNCHANGED <<able, only, current, outcome, healthy, record, runs, opened>>
    BY <1>3, <2>1 DEF Others, guest, viewer, result
  <2>. QED BY <1>4, <1>5, <2>1, <2>2, <2>3
<1>. QED BY <1>2, <1>6 DEF Commands

LEMMA CommandMet == ASSUME IInv, Commands PROVE ~failed' => Keeps /\ Met
<1>. SUFFICES ASSUME ~failed' PROVE Keeps /\ Met
  OBVIOUS
<1>1. Keeps
  BY CommandFacts DEF Keeps
<1>2. CASE Call(step) \in {"plug", "unplug"}
  <2>1. /\ Call(step) \in did' \cup silent'
        /\ Call(step) = "unplug" => ~second' \/ "unplug" \in silent'
    BY <1>2, CommandFacts
  <2>. QED BY <1>1, <1>2, <2>1 DEF Met, Ensured, Effect, Framing, Connecting
<1>4. CASE Call(step) = "detach"
  <2>1. ~attached'
    BY <1>4, CommandFacts
  <2>. QED BY <1>1, <1>4, <2>1 DEF Met, Ensured, Effect, Framing, Connecting
<1>5. CASE Call(step) = "base"
  <2>1. mode' = "base" \/ "base" \in silent'
    BY <1>5, CommandFacts
  <2>. QED BY <1>1, <1>5, <2>1 DEF Met, Ensured, Effect, Framing, Connecting
<1>6. CASE Call(step) \in {"lock", "unlock", "small"}
  BY <1>1, <1>6 DEF Met, Ensured, Effect, Framing, Connecting
<1>. QED BY <1>2, <1>4, <1>5, <1>6, CommandFacts

LEMMA CommandKeeps == ASSUME IInv, Commands PROVE IInv'
<1>1. TypeOK /\ Rows /\ Shape /\ phase = "run" /\ step # 0 /\ Walks /\ failed' = failed
  BY CommandFacts DEF IInv, InRow
<1>2. row' = row /\ step \in 1 .. 11 /\ (step' = 0 \/ step' > step) /\ step' \in 0 .. 11
  BY <1>1, Onward
<1>3. Place(row, step, Call(step))
  BY <1>1, Where
<1>4. TypeOK'
  <2>1. /\ row' \in 1 .. Len(Order) /\ step' \in 0 .. Len(Steps)' /\ Scenario' = Scenario
        /\ failed' \in BOOLEAN /\ raised' \in BOOLEAN /\ hung' \in BOOLEAN /\ phase' = "run"
    BY <1>1, TypeWalks
  <2>2. /\ locked' \in BOOLEAN /\ second' \in BOOLEAN /\ attached' \in BOOLEAN
        /\ mode' \in {"base", "small", "large"} /\ silent' \subseteq Blind \cup {"pause"}
    BY CommandFacts
  <2>3. /\ UNCHANGED <<up, consent, token, granted, events, machine, slept, marker, ses, shown, dead, old>>
         /\ UNCHANGED <<resumed, faults, attempt, transient, cycle, retries>>
         /\ UNCHANGED <<able, only, current, outcome, healthy, record, runs, opened>>
    BY CommandFacts
  <2>. QED BY <1>1, <2>1, <2>2, <2>3 DEF TypeOK
<1>5. Gentle
  <2>2. mode' \in {mode, "base"} \/ (row = 13 /\ step = 2)
    BY <1>3, CommandFacts DEF Place
  <2>3. (locked' => locked \/ row = 8) /\ (attached' => attached \/ row = 13)
    BY <1>3, CommandFacts DEF Place
  <2>. QED BY <1>1, <2>2, <2>3, CommandFacts DEF Gentle, IInv, Fixture
<1>6. Spent'
  BY <1>1, CommandFacts, SpentStays DEF At, Call, Walks, guest
<1>7. ~failed' => InStep /\ ~failed /\ Done /\ Keeps /\ Met
  BY <1>1, CommandMet DEF InStep, IInv, InRow
<1>8. Counting' /\ DenyRow' /\ RestoreRow' /\ ResumedRow' /\ (row \notin {8, 13} => Rows')
  <2>1. row \in {8, 9, 13}
    BY <1>3, CommandFacts DEF Place
  <2>3. ~resumed
    BY <1>1, <2>1 DEF Rows, ResumedRow
  <2>2. ~resumed'
    BY <2>3, CommandFacts
  <2>. QED BY <1>1, <2>1, <2>2, RowsElse
<1>9. row = 8 => LockRow'
  <2>. SUFFICES ASSUME row = 8, ~failed' PROVE LockRow'
    BY DEF LockRow
  <2>0. Steps = Lock /\ LockRow /\ UNCHANGED <<granted, machine, ses, shown, able>>
    BY <1>1, Rows15, CommandFacts DEF Row, Steps, Rows
  <2>1. (Call(step) = "lock" /\ step = 2) \/ (Call(step) = "unlock" /\ step = 9)
    BY <1>3, CommandFacts DEF Place
  <2>4. /\ did \subseteq did' /\ ("lost" \in did' => "lost" \in did)
        /\ (App' <=> App) /\ (Sure' <=> Sure)
    BY <2>0, <2>1, CommandFacts DEF App, Sure
  <2>2. CASE Call(step) = "lock" /\ step = 2
    <3>1. 3 \in 1 .. 11 /\ 3 = step + 1 /\ 3 <= Len(Steps) /\ Steps[3].call # "disconnect"
      BY <2>0, <2>2, LockSteps DEF Step
    <3>2. step' = 3
      BY <1>1, <1>7, <3>1, Succeeds
    <3>3. granted /\ machine = "running" /\ ~locked /\ (Sure => ses # "stale")
          /\ (~App /\ "lost" \notin did => ses = "live")
      BY <1>7, <2>0, <2>2 DEF LockRow, SureRow
    <3>4. locked' => "lock" \in did'
      BY <2>2, <3>3, CommandFacts
    <3>. QED BY <2>0, <2>4, <3>2, <3>3, <3>4 DEF LockRow, SureRow
  <2>3. CASE Call(step) = "unlock" /\ step = 9
    <3>1. step' \notin 1 .. 6
      BY <1>2, <2>3
    <3>2. Sure => ~locked /\ {"lock", "unlocked"} \subseteq did
      BY <1>7, <2>0, <2>3 DEF LockRow, SureRow
    <3>3. locked' => locked
      BY <2>3, CommandFacts
    <3>4. machine' = "running"
      BY <1>7, <2>0, <2>3 DEF LockRow
    <3>. QED BY <2>4, <3>1, <3>2, <3>3, <3>4 DEF LockRow, SureRow
  <2>. QED BY <2>1, <2>2, <2>3
<1>11. row = 13 => ResizeRow'
  <2>. SUFFICES ASSUME row = 13, ~failed' PROVE ResizeRow'
    BY DEF ResizeRow
  <2>0. Steps = Resize /\ ResizeRow /\ did \subseteq did'
    BY <1>1, Rows15, CommandFacts DEF Row, Steps, Rows
  <2>1. (Call(step) = "small" /\ step = 2) \/ step \in {6, 8}
    BY <1>3, CommandFacts DEF Place
  <2>2. CASE Call(step) = "small" /\ step = 2
    <3>1. 3 \in 1 .. 11 /\ 3 = step + 1 /\ 3 <= Len(Steps) /\ Steps[3].call # "disconnect"
      BY <2>0, <2>2, ResizeSteps DEF Step
    <3>2. step' = 3
      BY <1>1, <1>7, <3>1, Succeeds
    <3>3. mode = "base"
      BY <1>1, <2>2 DEF IInv, Fixture, Early
    <3>4. mode' = "small" => "small" \in did'
      BY <2>2, <3>3, CommandFacts
    <3>. QED BY <3>2, <3>4 DEF ResizeRow
  <2>3. CASE step \in {6, 8}
    <3>1. "small" \in did
      BY <1>2, <1>7, <2>0, <2>3 DEF ResizeRow
    <3>2. step' \notin 1 .. 5
      BY <1>2, <2>3
    <3>. QED BY <2>0, <3>1, <3>2 DEF ResizeRow
  <2>. QED BY <2>1, <2>2, <2>3
<1>12. Rows'
  BY <1>2, <1>8, <1>9, <1>11 DEF Rows, LockRow, ResizeRow
<1>. QED BY <1>1, <1>4, <1>5, <1>6, <1>7, <1>12, Walking
(* ----------------------- between and around steps ----------------------- *)

\* A session that is lost in the middle of a step.
Loses == (Drop \/ Crash) /\ phase = "run"

LEMMA LosesFacts ==
  ASSUME IInv, Loses
  PROVE  /\ UNCHANGED <<mode, second, locked, consent, token, granted, events, machine, slept, marker>>
         /\ UNCHANGED <<dead, old, attached, silent, phase, row, step, failed, raised, hung, attempt, transient, resumed>>
         /\ UNCHANGED <<cycle, retries, able, only, current, outcome, healthy, record, runs, opened>>
         /\ did' = did \cup (IF ses = "live" THEN {"lost"} ELSE {})
         /\ faults' = faults + 1 /\ faults' \in 0 .. Faults
         /\ up' \in BOOLEAN /\ ses' # "live"
         /\ ses' = ses \/ (ses = "live" /\ ses' = "lost")
         /\ shown' = Shows /\ shown' \in {"blank", "scene"}
<1>1. TypeOK
  BY DEF IInv
<1>2. CASE Drop
  BY <1>1, <1>2, QualAssumption DEF Drop, Fault, Lose, Lost, Shows, TypeOK, fixture, guest, local, result
<1>3. CASE Crash
  <2>1. faults' = faults + 1 /\ faults' \in 0 .. Faults
    BY <1>1, <1>3, QualAssumption DEF Crash, Fault, TypeOK
  <2>2. ses' # "live" /\ (ses' = ses \/ (ses = "live" /\ ses' = "lost")) /\ shown' = Shows
    BY <1>3 DEF Crash, Lose
  <2>3. shown' \in {"blank", "scene"}
    BY <1>1, <2>2 DEF Shows, TypeOK
  <2>4. up' \in BOOLEAN
    BY <1>3 DEF Crash
  <2>5. /\ UNCHANGED <<mode, second, locked, consent, token, granted, events, machine, slept, marker>>
        /\ UNCHANGED <<dead, old, attached, silent, phase, row, step, failed, raised, hung, attempt, transient, resumed>>
        /\ UNCHANGED <<cycle, retries, able, only, current, outcome, healthy, record, runs, opened>>
        /\ did' = did \cup (IF ses = "live" THEN {"lost"} ELSE {})
    BY <1>3 DEF Crash, Lost, guest, local, result
  <2>. QED BY <2>1, <2>2, <2>3, <2>4, <2>5
<1>. QED BY <1>2, <1>3 DEF Loses

LEMMA LosesKeep == ASSUME IInv, Loses PROVE IInv'
<1>1. TypeOK /\ Rows /\ Shape /\ phase = "run" /\ phase' = "run"
  BY LosesFacts DEF Loses, IInv, InRow
<1>2. Steps' = Steps /\ Scenario' = Scenario
  BY LosesFacts DEF Steps, Scenario
<1>3. TypeOK'
  <2>1. ses' \in {"none", "live", "lost", "stale"}
    BY <1>1, LosesFacts DEF TypeOK
  <2>2. /\ UNCHANGED <<mode, second, locked, consent, token, granted, events, machine, slept, marker>>
        /\ UNCHANGED <<dead, old, attached, silent, phase, row, step, failed, raised, hung, attempt, transient, resumed>>
        /\ UNCHANGED <<cycle, retries, able, only, current, outcome, healthy, record, runs, opened>>
        /\ faults' \in 0 .. Faults /\ up' \in BOOLEAN /\ shown' \in {"blank", "scene"}
    BY LosesFacts
  <2>. QED BY <1>1, <1>2, <2>1, <2>2 DEF TypeOK
<1>4. Shape'
  BY <1>1, <1>2, LosesFacts DEF Shape
<1>5. Rows'
  <2>1. Counting' /\ DenyRow' /\ RestoreRow' /\ ResizeRow'
    BY <1>1, LosesFacts DEF Rows, Counting, DenyRow, RestoreRow, ResizeRow
  <2>2. ResumedRow'
    BY <1>1, LosesFacts DEF Rows, ResumedRow
  <2>3. LockRow'
    <3>. SUFFICES ASSUME row = 8, ~failed PROVE LockRow'
      BY LosesFacts DEF LockRow
    <3>1. LockRow /\ UNCHANGED <<row, step, granted, machine, locked>> /\ did \subseteq did' /\ (App' <=> App)
      BY <1>1, LosesFacts DEF Rows, App
    <3>2. Sure' => Sure
      BY <3>1 DEF Sure
    <3>3. step \in 2 .. 6 /\ ~App /\ "lost" \notin did' => ses' = "live"
      <4>. SUFFICES ASSUME step \in 2 .. 6, ~App, "lost" \notin did' PROVE FALSE
        OBVIOUS
      <4>1. ses = "live"
        BY <3>1 DEF LockRow
      <4>. QED BY <4>1, LosesFacts
    <3>4. ASSUME Sure PROVE SureRow'
      <4>1. SureRow
        BY <3>1, <3>4 DEF LockRow
      <4>2. step = 5 => locked /\ shown' = "blank"
        <5>. SUFFICES ASSUME step = 5 PROVE locked /\ shown' = "blank"
          OBVIOUS
        <5>1. shown' = Shows /\ locked /\ (ses # "live" => shown = "blank")
          BY <4>1, LosesFacts DEF SureRow
        <5>. QED BY <5>1 DEF Shows, Visible
      <4>3. step = 6 => (ses' = "stale" => shown' = "blank")
        <5>. SUFFICES ASSUME step = 6, ses' = "stale" PROVE shown' = "blank"
          OBVIOUS
        <5>1. ses = "stale" /\ shown' = Shows
          BY LosesFacts
        <5>2. shown = "blank"
          BY <4>1, <5>1 DEF SureRow
        <5>. QED BY <5>1, <5>2 DEF Shows
      <4>4. step \in 2 .. 5 => ses' # "stale"
        BY <4>1, LosesFacts DEF SureRow
      <4>5. ses' # "live"
        BY LosesFacts
      <4>. QED BY <3>1, <4>1, <4>2, <4>3, <4>4, <4>5 DEF SureRow
    <3>. QED BY <3>1, <3>2, <3>3, <3>4 DEF LockRow
  <2>. QED BY <2>1, <2>2, <2>3 DEF Rows
<1>6. ~failed' => Done' /\ Kept'
  <2>. SUFFICES ASSUME ~failed PROVE Done' /\ Kept'
    BY LosesFacts
  <2>1. Done /\ Kept
    BY <1>1 DEF IInv, InRow
  <2>2. \A p : (Over(p)' <=> Over(p)) /\ Call(p)' = Call(p)
    BY <1>2, LosesFacts DEF Over, Call
  <2>3. \A p : Unspoilt(p)' <=> Unspoilt(p)
    BY <1>2, <2>2 DEF Unspoilt, Spoils
  <2>4. UNCHANGED <<silent, current, slept, opened, machine, locked, consent, second, attached, mode>>
        /\ (ses = "none" => ses' = "none") /\ did \subseteq did'
    BY LosesFacts
  <2>5. \A c : (Ensured(c) => Ensured(c)') /\ (Effect(c) => Effect(c)')
    BY <2>4 DEF Ensured, Effect
  <2>6. \A p \in 1 .. Len(Steps) : Over(p) => \A c : c = Call(p) => Ensured(c)'
    BY <2>1, <2>5 DEF Done
  <2>7. \A p \in 1 .. Len(Steps) : Over(p) /\ Unspoilt(p) => \A c : c = Call(p) => Effect(c)'
    BY <2>1, <2>5 DEF Kept
  <2>8. Done'
    BY <1>2, <2>2, <2>6 DEF Done
  <2>9. Kept'
    BY <1>2, <2>2, <2>3, <2>7 DEF Kept
  <2>. QED BY <2>8, <2>9
<1>7. Fixture'
  BY <1>1, LosesFacts DEF IInv, Fixture, Early
<1>8. Verdicts'
  BY <1>1, LosesFacts DEF IInv, Verdicts
<1>9. Spent'
  BY <1>1, LosesFacts, SpentFault
<1>10. PassedRecord'
  BY <1>1 DEF PassedRecord
<1>. QED BY <1>3, <1>4, <1>5, <1>6, <1>7, <1>8, <1>9, <1>10 DEF IInv, InRow
LEMMA EarlyCrashKeeps == ASSUME IInv, Crash, phase = "begin" PROVE IInv'
<1>1. TypeOK
  BY DEF IInv
<1>2. /\ UNCHANGED <<mode, second, locked, consent, token, granted, events, machine, slept, marker>>
      /\ UNCHANGED <<dead, old, attached, silent, phase, row, step, failed, raised, hung, attempt, transient, resumed>>
      /\ UNCHANGED <<cycle, retries, able, only, current, outcome, healthy, record, runs, opened>>
  BY DEF Crash, guest, local, result
<1>3. faults' = faults + 1 /\ faults' \in 0 .. Faults
  BY <1>1, QualAssumption DEF Crash, Fault, TypeOK
<1>4. ses' # "live" /\ ses' \in {ses, "lost"} /\ shown' = Shows /\ up' = FALSE
  BY DEF Crash, Lose
<1>5. shown' \in {"blank", "scene"}
  BY <1>1, <1>4 DEF Shows, TypeOK
<1>6. Steps' = Steps /\ Scenario' = Scenario
  BY <1>2 DEF Steps, Scenario
<1>7. TypeOK'
  <2>1. ses' \in {"none", "live", "lost", "stale"}
    BY <1>1, <1>4 DEF TypeOK
  <2>2. up' \in BOOLEAN
    BY <1>4
  <2>. QED BY <1>1, <1>2, <1>3, <1>5, <1>6, <2>1, <2>2 DEF TypeOK
<1>8. InRow' /\ PassedRecord'
  BY <1>2 DEF InRow, PassedRecord
<1>9. Fixture'
  BY <1>2, <1>4 DEF IInv, Fixture, Early
<1>10. Verdicts'
  BY <1>2 DEF IInv, Verdicts
<1>11. Spent'
  <2>1. faults' # 0 /\ faults' >= 1
    BY <1>1, <1>3 DEF TypeOK
  <2>. QED BY <1>2, <2>1 DEF IInv, Spent, IsGuest
<1>. QED BY <1>7, <1>8, <1>9, <1>10, <1>11 DEF IInv

LEMMA AbortKeeps == ASSUME IInv, Abort PROVE IInv'
<1>1. TypeOK /\ phase # "idle"
  BY DEF IInv, Abort
<1>2. /\ UNCHANGED <<up, mode, second, locked, consent, token, granted, events, machine, slept, marker>>
      /\ UNCHANGED <<ses, shown, dead, old, attached, silent, row, step, failed, raised, hung, attempt, transient, resumed>>
      /\ UNCHANGED <<cycle, retries, able, only, current, outcome, healthy, runs, did, opened>>
      /\ phase' = "stop" /\ record' = "lost"
  BY DEF Abort, fixture, guest, viewer, local
<1>3. faults' = faults + 1 /\ faults' \in 0 .. Faults /\ faults' # 0
  BY <1>1, QualAssumption DEF Abort, Fault, TypeOK
<1>4. Steps' = Steps /\ Scenario' = Scenario
  BY <1>2 DEF Steps, Scenario
<1>5. TypeOK'
  BY <1>1, <1>2, <1>3, <1>4 DEF TypeOK
<1>6. InRow' /\ PassedRecord' /\ Fixture'
  BY <1>2 DEF InRow, PassedRecord, Fixture, Early
<1>7. Verdicts'
  BY <1>1, <1>2 DEF IInv, Verdicts
<1>8. Spent'
  BY <1>2, <1>3 DEF IInv, Spent, IsGuest
<1>. QED BY <1>5, <1>6, <1>7, <1>8 DEF IInv

LEMMA AbandonKeeps == ASSUME IInv, Abandon PROVE IInv'
<1>1. TypeOK /\ phase = "run" /\ step = 0
  BY DEF IInv, Abandon
<1>2. /\ UNCHANGED <<up, mode, second, locked, consent, token, granted, events, machine, slept, marker>>
      /\ UNCHANGED <<ses, shown, dead, old, attached, silent, row, step, failed, raised, hung, attempt, transient, resumed>>
      /\ UNCHANGED <<cycle, retries, able, only, current, outcome, healthy, runs, did, opened, faults>>
      /\ phase' = "stop" /\ record' = "lost"
  BY DEF Abandon, fixture, guest, viewer, local
<1>3. Steps' = Steps /\ Scenario' = Scenario
  BY <1>2 DEF Steps, Scenario
<1>4. TypeOK'
  BY <1>1, <1>2, <1>3 DEF TypeOK
<1>5. InRow' /\ PassedRecord' /\ Fixture'
  BY <1>2 DEF InRow, PassedRecord, Fixture, Early
<1>6. Verdicts'
  BY <1>1, <1>2 DEF IInv, Verdicts
<1>7. Spent'
  BY <1>1, <1>2 DEF IInv, Spent, IsGuest, At
<1>. QED BY <1>4, <1>5, <1>6, <1>7 DEF IInv

LEMMA AgainKeeps == ASSUME IInv, Again PROVE IInv'
<1>1. TypeOK /\ Shape /\ Rows /\ phase = "run" /\ step = 0 /\ row = 3
  <2>1. TypeOK /\ Shape /\ Rows /\ phase = "run" /\ step = 0 /\ Order[row].name = "reconnect-20"
    BY DEF IInv, InRow, Again, AtEnd, GoesRound, Scenario
  <2>2. row \in 1 .. 15
    BY <2>1, Rows15 DEF TypeOK
  <2>. QED BY <2>1, <2>2, NamesDiffer
<1>2. /\ UNCHANGED <<up, mode, second, locked, consent, token, granted, events, machine, slept, marker>>
      /\ UNCHANGED <<ses, shown, dead, old, attached, silent, phase, row, raised, hung, attempt, transient, resumed>>
      /\ UNCHANGED <<cycle, able, only, current, outcome, healthy, record, runs, did, faults>>
      /\ step' = 1 /\ failed' = FALSE /\ opened' = FALSE
  BY DEF Again, fixture, guest, viewer, result
<1>3. ~raised /\ (IF failed THEN transient /\ retries < Retries ELSE cycle < Cycles)
      /\ retries' = (IF failed THEN retries + 1 ELSE retries)
  BY DEF Again, GoesRound, Retried
<1>4. Steps' = Steps /\ Scenario' = Scenario /\ Steps = Reconnect
  BY <1>1, <1>2, Rows15 DEF Steps, Scenario, Row
<1>5. TypeOK'
  <2>1. retries' \in 0 .. Retries
    BY <1>1, <1>3, QualAssumption DEF TypeOK
  <2>2. step' \in 0 .. Len(Steps)'
    BY <1>2, <1>4, ReconnectSteps
  <2>3. failed' \in BOOLEAN /\ opened' \in BOOLEAN
    BY <1>2, Zenon
  <2>. QED BY <1>1, <1>2, <1>4, <2>1, <2>2, <2>3 DEF TypeOK
<1>6. Shape'
  BY <1>1, <1>2, <1>3, <1>4 DEF Shape
<1>7. Rows'
  <2>1. Counting'
    BY <1>1, <1>2, <1>3 DEF Rows, Counting
  <2>. QED BY <1>1, <1>2, <2>1 DEF Rows, LockRow, DenyRow, RestoreRow, ResizeRow, ResumedRow
<1>8. Done' /\ Kept'
  <2>1. \A p \in 1 .. Len(Steps)' : ~Over(p)'
    BY <1>2, <1>4, ReconnectSteps DEF Over
  <2>. QED BY <2>1 DEF Done, Kept
<1>9. Fixture' /\ PassedRecord'
  BY <1>1, <1>2 DEF IInv, Fixture, Early, PassedRecord
<1>10. Verdicts'
  BY <1>1, <1>2 DEF IInv, Verdicts
<1>11. Spent'
  BY <1>1, <1>2 DEF IInv, Spent, IsGuest, At
<1>. QED BY <1>5, <1>6, <1>7, <1>8, <1>9, <1>10, <1>11 DEF IInv, InRow

\* Which scenario is next, if there is one.
LEMMA NextRowShape ==
  ASSUME NEW r \in 1 .. 16
  PROVE  NextRow(r) = 0 \/ (NextRow(r) \in r .. 15 /\ NextRow(r) \in 1 .. 15 /\ Wanted(NextRow(r)))
<1>. DEFINE rest == { q \in r .. Len(Order) : Wanted(q) }
            a == NextRow(r)
<1>1. rest \subseteq 1 .. 15 /\ rest \subseteq r .. 15
  BY Rows15
<1>2. CASE rest = {}
  BY <1>2 DEF NextRow
<1>3. CASE rest # {}
  <2>1. a = CHOOSE q \in rest : \A o \in rest : q <= o
    BY <1>3 DEF NextRow
  <2>2. \E q \in rest : \A o \in rest : q <= o
    <3>. HIDE DEF rest
    <3>. QED BY <1>1, <1>3, Least
  <2>3. a \in rest
    <3>. HIDE DEF rest, a
    <3>. QED BY <2>1, <2>2
  <2>. QED BY <1>1, <2>3
<1>. QED BY <1>2, <1>3
LEMMA Entering ==
  ASSUME IInv, NEW r \in 1 .. 16, Enter(NextRow(r)),
         UNCHANGED <<fixture, guest, viewer, attached, able, only, current, healthy, record, runs, faults>>,
         outcome' \in [Names -> {"none", "passed", "failed"}],
         phase = "begin" \/ (phase = "run" /\ step = 0 /\ r = row + 1)
  PROVE  /\ phase' \in {"run", "post"} /\ (phase' = "run" => row' \in 1 .. 15 /\ row' >= r)
         /\ TypeOK' /\ InRow' /\ Fixture' /\ Spent' /\ PassedRecord'
<1>. DEFINE n == NextRow(r)
<1>1. TypeOK /\ row \in 1 .. 15
  BY Rows15 DEF IInv, TypeOK
<1>2. n = 0 \/ (n \in r .. 15 /\ n \in 1 .. 15 /\ Wanted(n))
  BY NextRowShape
<1>3. /\ row' = (IF n = 0 THEN row ELSE n) /\ step' = (IF n = 0 THEN 0 ELSE 1)
      /\ phase' = (IF n = 0 THEN "post" ELSE "run")
      /\ failed' = FALSE /\ raised' = FALSE /\ hung' = FALSE /\ attempt' = 1 /\ transient' = FALSE
      /\ resumed' = FALSE /\ cycle' = 0 /\ retries' = 0 /\ did' = {} /\ silent' = {} /\ opened' = FALSE
  BY DEF Enter
<1>. HIDE DEF n
<1>4. row' \in 1 .. 15 /\ (phase' = "run" => n # 0 /\ row' = n /\ step' = 1 /\ row' >= r)
  BY <1>1, <1>2, <1>3
<1>5. Len(Steps') \in 1 .. 11
  <2>1. Steps' = Order[row'].steps
    BY DEF Steps
  <2>. QED BY <1>4, <2>1, TableHolds DEF Table
<1>6. TypeOK'
  <2>1. step' \in 0 .. Len(Steps') /\ row' \in 1 .. Len(Order)
    <3>1. step' \in {0, 1} /\ \A m \in 1 .. 11 : {0, 1} \subseteq 0 .. m
      BY <1>3
    <3>. QED BY <1>4, <1>5, <3>1, Rows15
  <2>2. cycle' \in Nat /\ cycle' <= Cycles /\ retries' \in 0 .. Retries /\ attempt' \in 1 .. 2
    BY <1>3, QualAssumption
  <2>3. failed' \in BOOLEAN /\ raised' \in BOOLEAN /\ hung' \in BOOLEAN /\ transient' \in BOOLEAN
        /\ resumed' \in BOOLEAN /\ opened' \in BOOLEAN
    BY <1>3, Zenon
  <2>5. silent' \subseteq Blind \cup {"pause"}
    BY <1>3
  <2>4. phase' \in {"idle", "begin", "run", "post", "versions", "stop"}
    BY <1>3
  <2>. QED BY <1>1, <2>1, <2>2, <2>3, <2>4, <2>5 DEF TypeOK, fixture, guest, viewer
<1>7. InRow'
  <2>. SUFFICES ASSUME phase' = "run" PROVE Shape' /\ Rows' /\ Done' /\ Kept'
    BY DEF InRow
  <2>1. Shape'
    BY <1>2, <1>3, <1>4 DEF Shape, Scenario, Wanted
  <2>2. Rows'
    <3>1. step' = 1 /\ ~failed' /\ ~resumed' /\ cycle' = 0
      BY <1>3, <1>4
    <3>2. LockRow'
      BY <3>1 DEF LockRow, SureRow
    <3>3. Counting' /\ DenyRow' /\ RestoreRow' /\ ResizeRow' /\ ResumedRow'
      BY <3>1, QualAssumption DEF Counting, DenyRow, RestoreRow, ResizeRow, ResumedRow
    <3>. QED BY <3>2, <3>3 DEF Rows
  <2>3. \A p \in 1 .. Len(Steps)' : ~Over(p)'
    BY <1>4, <1>5 DEF Over
  <2>. QED BY <2>1, <2>2, <2>3 DEF Done, Kept
<1>8. Fixture'
  <2>1. Early' => mode = "base"
    <3>1. CASE phase = "begin"
      BY <3>1 DEF IInv, Fixture, Early
    <3>2. CASE phase = "run" /\ step = 0 /\ r = row + 1
      <4>. SUFFICES ASSUME Early' PROVE Early
        BY DEF IInv, Fixture
      <4>1. phase' = "run" /\ row' <= 13
        BY <1>3, <1>4 DEF Early
      <4>2. row < 13
        BY <1>1, <1>4, <3>2, <4>1
      <4>. QED BY <3>2, <4>2 DEF Early
    <3>. QED BY <3>1, <3>2
  <2>2. UNCHANGED <<mode, ses, up>> /\ phase \in {"begin", "run"}
    BY DEF fixture, viewer
  <2>. QED BY <2>1, <2>2 DEF IInv, Fixture
<1>9. Spent'
  <2>1. UNCHANGED <<slept, marker, machine, faults, able>>
    BY DEF guest
  <2>2. ~At("agent") /\ phase' # "begin"
    BY <1>3 DEF At
  <2>. QED BY <2>1, <2>2 DEF IInv, Spent, IsGuest
<1>10. PassedRecord'
  BY <1>3 DEF PassedRecord
<1>. QED BY <1>3, <1>4, <1>6, <1>7, <1>8, <1>9, <1>10

LEMMA BeginKeeps == ASSUME IInv, Begin PROVE IInv'
<1>1. TypeOK /\ Verdicts /\ phase = "begin" /\ outcome = NoVerdicts
  BY DEF IInv, Begin, Verdicts
<1>2. PICK r \in 1 .. 16 : Enter(NextRow(r)) /\ (outcome' = outcome \/ outcome' = [outcome EXCEPT !["first-frame"] = "failed"])
  <2>1. CASE Smoke("base")
    BY <2>1 DEF Begin
  <2>2. CASE ~Smoke("base")
    BY <2>2 DEF Begin
  <2>. QED BY <2>1, <2>2
<1>3. UNCHANGED <<fixture, guest, viewer, attached, able, only, current, healthy, record, runs, faults>>
  BY DEF Begin
<1>4. \A n \in Names : outcome'[n] # "passed"
  BY <1>1, <1>2 DEF NoVerdicts
<1>5. outcome' \in [Names -> {"none", "passed", "failed"}]
  BY <1>1, <1>2 DEF TypeOK
<1>6. phase' \in {"run", "post"} /\ TypeOK' /\ InRow' /\ Fixture' /\ Spent' /\ PassedRecord'
  BY <1>1, <1>2, <1>3, <1>5, Entering
<1>7. Verdicts'
  <2>1. \A q \in 1 .. 15 : Order[q].name \in Names
    BY NamesDiffer
  <2>2. {"resize", "4k-200", "suspend-resume"} \subseteq Names
    BY <2>1, NamesDiffer
  <2>. QED BY <1>4, <1>6, <2>1, <2>2 DEF Verdicts
<1>. QED BY <1>6, <1>7 DEF IInv

\* What a scenario leaves behind that is about to conclude with a pass.
LEMMA Concluding ==
  ASSUME IInv, phase = "run", step = 0, ~failed
  PROVE  /\ row = 8 => machine = "running"
         /\ row = 8 /\ Sure => ~locked /\ {"lock", "unlocked"} \subseteq did
         /\ row = 9 => ~second \/ "unplug" \in silent
         /\ row = 13 => ~attached /\ "small" \in did
         /\ row = 14 => current = "large" /\ ~locked
         /\ row = 15 => slept
         /\ \A p \in 1 .. Len(Steps) : Ensured(Call(p))
         /\ \A p \in 1 .. Len(Steps) :
              (\A q \in p + 1 .. Len(Steps) : Call(q) \notin Spoils(Call(p))) => Effect(Call(p))
<1>1. Rows /\ Done /\ Kept
  BY DEF IInv, InRow
<1>2. \A p \in 1 .. Len(Steps) : Over(p)
  BY DEF Over
<1>3. \A p \in 1 .. Len(Steps) : Ensured(Call(p))
  BY <1>1, <1>2 DEF Done
<1>4. \A p \in 1 .. Len(Steps) :
        (\A q \in p + 1 .. Len(Steps) : Call(q) \notin Spoils(Call(p))) => Effect(Call(p))
  BY <1>1, <1>2 DEF Kept, Unspoilt
<1>5. /\ row = 8 => machine = "running"
      /\ row = 8 /\ Sure => ~locked /\ {"lock", "unlocked"} \subseteq did
  BY <1>1 DEF Rows, LockRow, SureRow
<1>6. row = 9 => ~second \/ "unplug" \in silent
  <2>. SUFFICES ASSUME row = 9 PROVE ~second \/ "unplug" \in silent
    OBVIOUS
  <2>1. Steps = MonitorChange
    BY Rows15 DEF Row, Steps
  <2>2. 4 \in 1 .. Len(Steps) /\ Call(4) = "unplug"
    BY <2>1, MonitorChangeSteps DEF Call, Always
  <2>3. \A q \in 5 .. Len(Steps) : Call(q) # "plug"
    BY <2>1, MonitorChangeSteps DEF Call, Always, Finally
  <2>4. Spoils("unplug") = {"plug"} /\ (Effect("unplug") => ~second \/ "unplug" \in silent)
    BY DEF Spoils, Effect, Framing, Connecting
  <2>5. \A q \in 4 + 1 .. Len(Steps) : Call(q) \notin Spoils(Call(4))
    BY <2>2, <2>3, <2>4
  <2>. QED BY <1>4, <2>2, <2>4, <2>5
<1>7. row = 13 => ~attached /\ "small" \in did
  <2>. SUFFICES ASSUME row = 13 PROVE ~attached /\ "small" \in did
    OBVIOUS
  <2>1. Steps = Resize
    BY Rows15 DEF Row, Steps
  <2>2. 6 \in 1 .. Len(Steps) /\ Call(6) = "detach"
    BY <2>1, ResizeSteps DEF Call, Finally
  <2>3. \A q \in 7 .. Len(Steps) : Call(q) # "small"
    BY <2>1, ResizeSteps DEF Call, Finally
  <2>4. Spoils("detach") = {"small"} /\ (Effect("detach") => ~attached)
    BY DEF Spoils, Effect, Framing, Connecting
  <2>5. \A q \in 6 + 1 .. Len(Steps) : Call(q) \notin Spoils(Call(6))
    BY <2>2, <2>3, <2>4
  <2>. QED BY <1>1, <1>4, <2>2, <2>4, <2>5 DEF Rows, ResizeRow
<1>8. row = 14 => current = "large" /\ ~locked
  <2>. SUFFICES ASSUME row = 14 PROVE current = "large" /\ ~locked
    OBVIOUS
  <2>1. Steps = HighDpi
    BY Rows15 DEF Row, Steps
  <2>2. 2 \in 1 .. Len(Steps) /\ Call(2) = "large"
    BY <2>1, HighDpiSteps DEF Call, Step
  <2>3. Ensured(Call(2))
    BY <1>3, <2>2
  <2>4. 3 \in 1 .. Len(Steps) /\ Call(3) = "connect"
    BY <2>1, HighDpiSteps DEF Call, Step
  <2>5. \A q \in 3 + 1 .. Len(Steps) : Call(q) \notin {"pause", "sleep", "wake", "lock"}
    BY <2>1, HighDpiSteps DEF Call, Step, Always
  <2>6. /\ Spoils("connect") = {"pause", "sleep", "wake", "lock"}
        /\ Effect("connect") => ~locked
    BY DEF Spoils, Effect, Framing, Connecting
  <2>7. ~locked
    BY <1>4, <2>4, <2>5, <2>6
  <2>. QED BY <2>2, <2>3, <2>7 DEF Ensured
<1>9. row = 15 => slept
  <2>. SUFFICES ASSUME row = 15 PROVE slept
    OBVIOUS
  <2>1. Steps = SuspendResume
    BY Rows15 DEF Row, Steps
  <2>2. 2 \in 1 .. Len(Steps) /\ Call(2) = "sleep"
    BY <2>1, SuspendResumeSteps DEF Call, Step
  <2>3. Ensured(Call(2))
    BY <1>3, <2>2
  <2>. QED BY <2>2, <2>3 DEF Ensured
<1>. QED BY <1>3, <1>4, <1>5, <1>6, <1>7, <1>8, <1>9

LEMMA ConcludeKeeps == ASSUME IInv, Conclude PROVE IInv'
<1>1. TypeOK /\ Verdicts /\ Shape /\ phase = "run" /\ step = 0 /\ row \in 1 .. 15
  BY Rows15 DEF IInv, InRow, Conclude, AtEnd, TypeOK
<1>2. /\ outcome' = [outcome EXCEPT ![Scenario] = IF failed THEN "failed" ELSE "passed"]
      /\ Enter(NextRow(row + 1))
      /\ UNCHANGED <<fixture, guest, viewer, attached, able, only, current, healthy, record, runs, faults>>
  BY DEF Conclude
<1>3. row + 1 \in 1 .. 16
  BY <1>1
<1>4. outcome' \in [Names -> {"none", "passed", "failed"}]
  BY <1>1, <1>2 DEF TypeOK
<1>5. /\ phase' \in {"run", "post"} /\ (phase' = "run" => row' \in 1 .. 15 /\ row' >= row + 1)
      /\ TypeOK' /\ InRow' /\ Fixture' /\ Spent' /\ PassedRecord'
  <2>1. phase = "run" /\ step = 0 /\ row + 1 = row + 1
    BY <1>1
  <2>. QED BY <1>2, <1>3, <1>4, <2>1, Entering
<1>6. Scenario = Order[row].name /\ \A q \in 1 .. 15 : Order[q].name \in Names
  BY NamesDiffer DEF Scenario
<1>7. \A q \in 1 .. 15 : q # row => outcome'[Order[q].name] = outcome[Order[q].name]
  BY <1>1, <1>2, <1>6, NamesDiffer DEF TypeOK
<1>8. outcome'[Order[row].name] = "passed" => ~failed
  BY <1>1, <1>2, <1>6 DEF TypeOK
<1>9. \A q \in 1 .. 15 : outcome'[Order[q].name] = "passed" =>
        Order[q].name \in only' /\ (phase' = "run" => q < row')
  <2>1. only' = only /\ Order[row].name \in only
    BY <1>1, <1>2, <1>6 DEF Shape
  <2>2. \A q \in 1 .. 15 : outcome[Order[q].name] = "passed" => Order[q].name \in only /\ q < row
    BY <1>1 DEF Verdicts
  <2>3. ASSUME NEW q \in 1 .. 15, outcome'[Order[q].name] = "passed" PROVE Order[q].name \in only /\ q <= row
    <3>1. CASE q = row
      BY <1>1, <2>1, <3>1
    <3>2. CASE q # row
      BY <1>1, <1>7, <2>2, <2>3, <3>2
    <3>. QED BY <3>1, <3>2
  <2>. QED BY <1>1, <1>5, <2>1, <2>3
<1>10. /\ UNCHANGED <<locked, second, attached, current, slept>>
  BY <1>2 DEF fixture, guest
<1>11. /\ outcome'["resize"] = "passed" => ~attached
       /\ outcome'["4k-200"] = "passed" => current = "large" /\ ~locked
       /\ outcome'["suspend-resume"] = "passed" => slept
  <2>1. /\ outcome["resize"] = "passed" => ~attached
        /\ outcome["4k-200"] = "passed" => current = "large" /\ ~locked
        /\ outcome["suspend-resume"] = "passed" => slept
    BY <1>1 DEF Verdicts
  <2>2. ~failed => /\ row = 13 => ~attached
                   /\ row = 14 => current = "large" /\ ~locked
                   /\ row = 15 => slept
    BY <1>1, Concluding
  <2>5. outcome'["resize"] = "passed" => ~attached
    <3>1. CASE row = 13
      BY <1>8, <2>2, <3>1, NamesDiffer
    <3>2. CASE row # 13
      BY <1>7, <2>1, <3>2, NamesDiffer
    <3>. QED BY <3>1, <3>2
  <2>6. outcome'["4k-200"] = "passed" => current = "large" /\ ~locked
    <3>1. CASE row = 14
      BY <1>8, <2>2, <3>1, NamesDiffer
    <3>2. CASE row # 14
      BY <1>7, <2>1, <3>2, NamesDiffer
    <3>. QED BY <3>1, <3>2
  <2>7. outcome'["suspend-resume"] = "passed" => slept
    <3>1. CASE row = 15
      BY <1>8, <2>2, <3>1, NamesDiffer
    <3>2. CASE row # 15
      BY <1>7, <2>1, <3>2, NamesDiffer
    <3>. QED BY <3>1, <3>2
  <2>. QED BY <2>5, <2>6, <2>7
<1>12. Verdicts'
  BY <1>5, <1>9, <1>10, <1>11 DEF Verdicts
<1>. QED BY <1>5, <1>12 DEF IInv

LEMMA PostRunKeeps == ASSUME IInv, PostRun PROVE IInv'
<1>1. TypeOK /\ phase = "post"
  BY DEF IInv, PostRun
<1>2. /\ UNCHANGED <<up, mode, second, locked, consent, token, granted, events, machine, slept, marker>>
      /\ UNCHANGED <<ses, shown, dead, old, attached, silent, row, step, failed, raised, hung, attempt, transient, resumed>>
      /\ UNCHANGED <<cycle, retries, able, only, current, outcome, record, runs, did, opened, faults>>
      /\ phase' = "versions" /\ healthy' = (up /\ machine = "running" /\ mode = current)
  BY DEF PostRun, fixture, guest, viewer, local, Smoke
<1>3. Steps' = Steps /\ Scenario' = Scenario
  BY <1>2 DEF Steps, Scenario
<1>4. TypeOK'
  <2>1. healthy' \in BOOLEAN
    BY <1>1, <1>2 DEF TypeOK
  <2>. QED BY <1>1, <1>2, <1>3, <2>1 DEF TypeOK
<1>5. InRow' /\ PassedRecord' /\ Fixture'
  BY <1>2 DEF InRow, PassedRecord, Fixture, Early
<1>6. Verdicts'
  BY <1>1, <1>2 DEF IInv, Verdicts
<1>7. Spent'
  BY <1>1, <1>2 DEF IInv, Spent, IsGuest, At
<1>. QED BY <1>4, <1>5, <1>6, <1>7 DEF IInv

LEMMA VersionsKeeps == ASSUME IInv, Versions PROVE IInv'
<1>1. TypeOK /\ phase = "versions"
  BY DEF IInv, Versions
<1>2. /\ UNCHANGED <<up, mode, second, locked, consent, token, granted, events, machine, slept, marker>>
      /\ UNCHANGED <<ses, shown, dead, old, attached, silent, row, step, failed, raised, hung, attempt, transient, resumed>>
      /\ UNCHANGED <<cycle, retries, able, only, current, outcome, healthy, runs, did, opened, faults>>
      /\ phase' = "stop" /\ record' \in {"lost", record}
  BY DEF Versions, fixture, guest, viewer, local
<1>3. Steps' = Steps /\ Scenario' = Scenario
  BY <1>2 DEF Steps, Scenario
<1>4. TypeOK'
  <2>1. record' \in {"none", "lost", "passed", "incomplete"}
    BY <1>1, <1>2 DEF TypeOK
  <2>. QED BY <1>1, <1>2, <1>3, <2>1 DEF TypeOK
<1>5. InRow' /\ PassedRecord' /\ Fixture'
  BY <1>2 DEF InRow, PassedRecord, Fixture, Early
<1>6. Verdicts'
  BY <1>1, <1>2 DEF IInv, Verdicts
<1>7. Spent'
  BY <1>1, <1>2 DEF IInv, Spent, IsGuest, At
<1>. QED BY <1>4, <1>5, <1>6, <1>7 DEF IInv

LEMMA StopKeeps == ASSUME IInv, Stop PROVE IInv'
<1>1. TypeOK /\ Verdicts /\ phase = "stop"
  BY DEF IInv, Stop
<1>2. /\ UNCHANGED <<mode, second, locked, consent, token, granted, events, slept, marker>>
      /\ UNCHANGED <<ses, shown, dead, old, attached, silent, row, step, failed, raised, hung, attempt, transient, resumed>>
      /\ UNCHANGED <<cycle, retries, able, only, current, outcome, healthy, runs, did, opened, faults>>
      /\ phase' = "idle"
      /\ record' = IF record = "lost" THEN "lost" ELSE IF Complete THEN "passed" ELSE "incomplete"
      /\ up' = (up /\ IsGuest) /\ machine' = IF IsGuest THEN machine ELSE "running"
  BY DEF Stop, viewer, local
<1>3. Steps' = Steps /\ Scenario' = Scenario
  BY <1>2 DEF Steps, Scenario
<1>4. TypeOK'
  <2>1. record' \in {"none", "lost", "passed", "incomplete"} /\ machine' \in {"running", "paused", "suspended"}
    BY <1>1, <1>2 DEF TypeOK
  <2>2. up' \in BOOLEAN
    BY <1>1, <1>2 DEF TypeOK, IsGuest
  <2>. QED BY <1>1, <1>2, <1>3, <2>1, <2>2 DEF TypeOK
<1>5. InRow' /\ Fixture' /\ Verdicts'
  BY <1>2 DEF InRow, Fixture, Early, Verdicts
<1>6. Spent'
  <2>1. ~At("agent") /\ (slept => machine' = machine)
    BY <1>1, <1>2 DEF IInv, Spent, At
  <2>. QED BY <1>2, <2>1 DEF IInv, Spent, IsGuest
<1>7. PassedRecord'
  <2>. SUFFICES ASSUME record' = "passed" PROVE PassedRecord'
    BY DEF PassedRecord
  <2>1. record # "lost" /\ Complete
    BY <1>2
  <2>2. healthy /\ \A r \in 1 .. 15 : Order[r].needs # {"portal"} => outcome[Order[r].name] = "passed"
    BY <2>1, Rows15 DEF Complete
  <2>3. \A r \in {13, 14, 15} : Order[r].needs # {"portal"}
    BY Rows15 DEF Row
  <2>4. /\ outcome["resize"] = "passed"
        /\ outcome["4k-200"] = "passed" /\ outcome["suspend-resume"] = "passed"
    <3>1. \A r \in {13, 14, 15} : outcome[Order[r].name] = "passed"
      BY <2>2, <2>3
    <3>. QED BY <3>1, NamesDiffer
  <2>5. ~locked /\ ~attached /\ current = "large" /\ slept /\ machine = "running" /\ mode = current
    BY <1>1, <2>1, <2>2, <2>4 DEF Verdicts
  <2>6. \A r \in 1 .. Len(Order) : Order[r].needs # {"portal"} => Order[r].name \in only
    BY <1>1, <2>2, Rows15 DEF Verdicts
  <2>7. machine' = "running"
    BY <1>2, <2>5
  <2>. QED BY <1>2, <2>5, <2>6, <2>7 DEF PassedRecord
<1>. QED BY <1>4, <1>5, <1>6, <1>7 DEF IInv
LEMMA StartKeeps == ASSUME IInv, Start PROVE IInv'
<1>1. TypeOK /\ Spent
  BY DEF IInv
<1>2. /\ phase' = "begin" /\ current' = "base" /\ outcome' = NoVerdicts /\ record' = "none"
      /\ ses' = "none" /\ shown' = "blank" /\ dead' = FALSE /\ old' = FALSE /\ attached' = FALSE
      /\ UNCHANGED <<able, healthy, row, step, failed, raised, hung, attempt, transient, resumed, cycle, retries>>
      /\ UNCHANGED <<did, silent, opened, faults, slept, marker>>
      /\ machine' = "running" /\ mode' = "base" /\ only' \in Selections /\ ~Refused
      /\ runs < Runs /\ runs' = runs + 1 /\ phase = "idle"
  BY DEF Start, local
<1>3. /\ up' \in BOOLEAN /\ second' \in BOOLEAN /\ locked' \in BOOLEAN /\ token' \in BOOLEAN
      /\ granted' \in BOOLEAN /\ events' \subseteq {"Approve", "Deny"}
      /\ consent' \in {"approve", "deny", "persist", "none"}
  <2>1. CASE IsGuest /\ runs > 0
    <3>1. UNCHANGED <<up, second, locked, consent, token, granted, events>>
      BY <2>1 DEF Start, fixture
    <3>. QED BY <1>1, <3>1 DEF TypeOK
  <2>2. CASE ~(IsGuest /\ runs > 0)
    <3>1. /\ up' = TRUE /\ second' = FALSE /\ locked' = FALSE
          /\ consent' = "approve" /\ token' = FALSE /\ granted' = FALSE /\ events' = {}
      BY <2>2 DEF Start
    <3>. QED BY <3>1
  <2>. QED BY <2>1, <2>2
<1>4. Steps' = Steps /\ Scenario' = Scenario
  BY <1>2 DEF Steps, Scenario
<1>5. TypeOK'
  <2>1. runs' \in 0 .. Runs
    BY <1>1, <1>2, QualAssumption DEF TypeOK
  <2>2. only' \subseteq Names
    BY <1>2, SelectionsAssumption
  <2>3. outcome' \in [Names -> {"none", "passed", "failed"}]
    BY <1>2 DEF NoVerdicts
  <2>4. dead' \in BOOLEAN /\ old' \in BOOLEAN /\ attached' \in BOOLEAN
    BY <1>2, Zenon
  <2>5. /\ mode' \in {"base", "small", "large"} /\ machine' \in {"running", "paused", "suspended"}
        /\ ses' \in {"none", "live", "lost", "stale"} /\ shown' \in {"blank", "scene"}
        /\ phase' \in {"idle", "begin", "run", "post", "versions", "stop"}
        /\ current' \in {"base", "large"} /\ record' \in {"none", "lost", "passed", "incomplete"}
    BY <1>2
  <2>. QED BY <1>1, <1>2, <1>3, <1>4, <2>1, <2>2, <2>3, <2>4, <2>5 DEF TypeOK
<1>6. InRow' /\ PassedRecord' /\ Fixture'
  BY <1>2 DEF InRow, PassedRecord, Fixture, Early
<1>7. Verdicts'
  <2>1. \A n \in Names : outcome'[n] = "none"
    BY <1>2 DEF NoVerdicts
  <2>2. \A q \in 1 .. 15 : Order[q].name \in Names
    BY NamesDiffer
  <2>3. {"resize", "4k-200", "suspend-resume"} \subseteq Names
    BY <2>2, NamesDiffer
  <2>. QED BY <1>2, <2>1, <2>2, <2>3 DEF Verdicts, NoVerdicts
<1>8. Spent'
  <2>1. slept => IsGuest /\ ~marker /\ machine = "running"
    BY <1>1, <1>2 DEF Spent, Refused
  <2>2. ~At("agent")
    BY <1>2 DEF At
  <2>3. slept => faults # 0
    BY <1>1, <2>1, <2>2 DEF Spent
  <2>4. slept => faults >= 1
    BY <1>1, <2>3 DEF TypeOK
  <2>. QED BY <1>1, <1>2, <2>3, <2>4 DEF Spent, IsGuest
<1>. QED BY <1>5, <1>6, <1>7, <1>8 DEF IInv

LEMMA InitHolds == Init => IInv
<1>. SUFFICES ASSUME Init PROVE IInv
  OBVIOUS
<1>1. TypeOK
  <2>1. row \in 1 .. Len(Order) /\ step \in 0 .. Len(Steps)
    <3>1. row = 1 /\ step = 1 /\ Steps = FirstFrame
      BY Rows15 DEF Init, Steps, Row
    <3>2. Len(Steps) = 2
      BY <3>1, FirstFrameSteps
    <3>. QED BY <3>1, <3>2, Rows15
  <2>2. outcome \in [Names -> {"none", "passed", "failed"}]
    BY DEF Init, NoVerdicts
  <2>3. retries \in 0 .. Retries /\ cycle \in Nat /\ cycle <= Cycles /\ faults \in 0 .. Faults
        /\ runs \in 0 .. Runs /\ attempt \in 1 .. 2
    BY QualAssumption DEF Init
  <2>. QED BY <2>1, <2>2, <2>3 DEF Init, TypeOK
<1>2. InRow /\ PassedRecord /\ Fixture /\ Verdicts
  BY DEF Init, InRow, PassedRecord, Fixture, Early, Verdicts
<1>3. Spent
  BY DEF Init, Spent
<1>. QED BY <1>1, <1>2, <1>3 DEF IInv

LEMMA StutterKeeps == ASSUME IInv, UNCHANGED vars PROVE IInv'
<1>1. /\ UNCHANGED <<up, mode, second, locked, consent, token, granted, events, machine, slept, marker>>
      /\ UNCHANGED <<ses, shown, dead, old, attached, silent, row, step, failed, raised, hung, attempt, transient, resumed>>
      /\ UNCHANGED <<cycle, retries, able, only, current, outcome, healthy, record, runs, did, opened, faults, phase>>
  BY DEF vars, fixture, guest, viewer, local, result
<1>2. Steps' = Steps /\ Scenario' = Scenario
  BY <1>1 DEF Steps, Scenario
<1>3. TypeOK'
  BY <1>1, <1>2 DEF IInv, TypeOK
<1>4. InRow'
  <2>. SUFFICES ASSUME phase = "run" PROVE Shape' /\ Rows' /\ (~failed' => Done' /\ Kept')
    BY <1>1 DEF InRow
  <2>1. Shape /\ Rows /\ (~failed => Done /\ Kept)
    BY DEF IInv, InRow
  <2>2. Shape'
    BY <1>1, <1>2, <2>1 DEF Shape
  <2>3. Rows'
    BY <1>1, <2>1 DEF Rows, Counting, LockRow, SureRow, Sure, App, DenyRow, RestoreRow, ResizeRow, ResumedRow
  <2>4. \A p : (Over(p)' <=> Over(p)) /\ Call(p)' = Call(p)
    BY <1>1, <1>2 DEF Over, Call
  <2>5. \A p : Unspoilt(p)' <=> Unspoilt(p)
    BY <1>2, <2>4 DEF Unspoilt, Spoils
  <2>6. \A c : (Ensured(c) => Ensured(c)') /\ (Effect(c) => Effect(c)')
    BY <1>1 DEF Ensured, Effect
  <2>7. ASSUME ~failed PROVE Done' /\ Kept'
    <3>1. \A p \in 1 .. Len(Steps) : Over(p) => \A c : c = Call(p) => Ensured(c)'
      BY <2>1, <2>6, <2>7 DEF Done
    <3>2. \A p \in 1 .. Len(Steps) : Over(p) /\ Unspoilt(p) => \A c : c = Call(p) => Effect(c)'
      BY <2>1, <2>6, <2>7 DEF Kept
    <3>3. Done'
      BY <1>2, <2>4, <3>1 DEF Done
    <3>4. Kept'
      BY <1>2, <2>4, <2>5, <3>2 DEF Kept
    <3>. QED BY <3>3, <3>4
  <2>. QED BY <1>1, <2>2, <2>3, <2>7
<1>5. Fixture' /\ PassedRecord'
  BY <1>1 DEF IInv, Fixture, Early, PassedRecord
<1>6. Verdicts'
  BY <1>1 DEF IInv, Verdicts
<1>7. Spent'
  BY <1>1, <1>2 DEF IInv, Spent, IsGuest, At
<1>. QED BY <1>3, <1>4, <1>5, <1>6, <1>7 DEF IInv

(* ------------------------------ the theorems ---------------------------- *)

LEMMA NextKeeps == ASSUME IInv, [Next]_vars PROVE IInv'
<1>1. CASE Start
  BY <1>1, StartKeeps
<1>2. CASE \E c \in Connecting : Connect(c) \/ Glitch(c)
  BY <1>2, ConnectKeeps, GlitchKeeps
<1>3. CASE SkipRecover \/ Disconnect \/ AskAlive \/ Resumed \/ AskSize \/ WaitIdle
           \/ \E c \in {"capture", "visible", "hidden"} : Capture(c)
  BY <1>3, LooksKeep DEF Looks
<1>4. CASE Commands \/ TypeAndClick \/ Pause \/ Restart \/ Secret \/ SetHighDpi \/ Portal
  BY <1>4, CommandKeeps, InputKeeps, PauseKeeps, RestartKeeps, SecretKeeps, HighDpiKeeps, PortalKeeps
<1>5. CASE Sleep \/ Wake \/ MarkSlept
  BY <1>5, SleepKeeps, WakeKeeps, MarkSleptKeeps
<1>6. CASE Again \/ Conclude \/ Abandon \/ Begin \/ PostRun \/ Versions \/ Stop
  BY <1>6, AgainKeeps, ConcludeKeeps, AbandonKeeps, BeginKeeps, PostRunKeeps, VersionsKeeps, StopKeeps
<1>7. CASE Drop \/ Crash
  <2>1. CASE phase = "run"
    BY <1>7, <2>1, LosesKeep DEF Loses
  <2>2. CASE phase # "run"
    <3>1. Crash /\ phase = "begin"
      BY <1>7, <2>2 DEF Drop, Crash
    <3>. QED BY <3>1, EarlyCrashKeeps
  <2>. QED BY <2>1, <2>2
<1>8. CASE Raise \/ Abort
  BY <1>8, RaiseKeeps, AbortKeeps
<1>9. CASE UNCHANGED vars
  BY <1>9, StutterKeeps
<1>. QED BY <1>1, <1>2, <1>3, <1>4, <1>5, <1>6, <1>7, <1>8, <1>9 DEF Next, Runner, Scenarios, Commands

\* The annotations of the present step hold throughout.
THEOREM Inductive == Spec => []IInv
<1>1. Init => IInv
  BY InitHolds
<1>2. IInv /\ [Next]_vars => IInv'
  BY NextKeeps
<1>. QED BY <1>1, <1>2, PTL DEF Spec

\* Type correctness, with the reconnect loop within its cycles and its retries.
THEOREM TypeCorrect == Spec => []TypeOK
<1>1. IInv => TypeOK
  BY DEF IInv
<1>. QED BY <1>1, Inductive, PTL

\* A passed record is one of every scenario but a portal's, of a guest that really slept
\* and of a fixture that ended up healthy and unlocked at the mode it was left at, with
\* every command the runner gives free to do nothing unnoticed (qualify-desktop.py: set_mode,
\* lock, hotplug; desktop_scenarios.py: the finally blocks).
THEOREM RecordIsWhole == Spec => []PassedRecord
<1>1. IInv => PassedRecord
  BY DEF IInv
<1>. QED BY <1>1, Inductive, PTL

\* A guest that slept is not used again when nothing went wrong.
THEOREM SpentRefused == Spec => []SpentIsRefused
<1>1. IInv => SpentIsRefused
  BY DEF IInv, Spent, SpentIsRefused
<1>. QED BY <1>1, Inductive, PTL
\* Only a scenario that concludes without a failure passes.
LEMMA PassConcludes ==
  ASSUME IInv, [Next]_vars, NEW n \in Names, NewlyPassed(n)
  PROVE  Conclude /\ n = Scenario /\ phase = "run" /\ step = 0 /\ ~failed /\ row \in 1 .. 15
<1>1. TypeOK
  BY DEF IInv
<1>2. outcome' # outcome
  BY DEF NewlyPassed
<1>3. ~Start
  BY DEF Start, NoVerdicts, NewlyPassed
<1>4. ~Begin
  <2>. SUFFICES ASSUME Begin PROVE FALSE
    OBVIOUS
  <2>1. outcome' = [outcome EXCEPT !["first-frame"] = "failed"]
    BY <1>2 DEF Begin
  <2>. QED BY <1>1, <2>1 DEF NewlyPassed, TypeOK
<1>5. \A c \in Connecting : ~Connect(c) /\ ~Glitch(c)
  BY <1>2 DEF Connect, Glitch, result
<1>6. ~Looks
  BY <1>2, LooksFacts DEF Others, result
<1>7. ~(TypeAndClick \/ Restart \/ Secret \/ SetHighDpi \/ Portal)
  BY <1>2 DEF TypeAndClick, Restart, Secret, SetHighDpi, Portal, Proceed, Ends, Others, result
<1>8. ~(Sleep \/ Wake \/ MarkSlept \/ Again)
  BY <1>2 DEF Sleep, Wake, MarkSlept, Again, Proceed, Ends, Others, result
<1>9. ~Commands /\ ~Pause
  BY <1>2, CommandFacts, PauseFacts
<1>10. ~(PostRun \/ Versions \/ Stop)
  BY <1>2 DEF PostRun, Versions, Stop
<1>11. ~(Drop \/ Crash \/ Raise \/ Abort \/ Abandon)
  BY <1>2 DEF Drop, Crash, Raise, Breaks, Abort, Abandon, Others, result
<1>12. ~(UNCHANGED vars)
  BY <1>2 DEF vars, result
<1>13. Conclude
  BY <1>3, <1>4, <1>5, <1>6, <1>7, <1>8, <1>9, <1>10, <1>11, <1>12
     DEF Next, Runner, Scenarios, Looks, Commands
<1>14. phase = "run" /\ step = 0 /\ outcome' = [outcome EXCEPT ![Scenario] = IF failed THEN "failed" ELSE "passed"]
  BY <1>13 DEF Conclude, AtEnd
<1>15. n = Scenario /\ ~failed
  BY <1>1, <1>14 DEF NewlyPassed, TypeOK
<1>16. row \in 1 .. 15
  BY <1>1, Rows15 DEF TypeOK
<1>. QED BY <1>13, <1>14, <1>15, <1>16

\* What a scenario that concludes has done, row by row.
LEMMA PassIsDone ==
  ASSUME IInv, phase = "run", step = 0, ~failed, row \in 1 .. 15
  PROVE  Proof(Scenario) \subseteq did \cup silent
<1>1. \A p \in 1 .. Len(Steps) : Ensured(Call(p))
  BY Concluding
<1>2. "frame" \in did
  <2>1. PICK p \in 1 .. Len(Steps) : Call(p) \in Framing
    BY TableHolds DEF Table, Steps, Call
  <2>2. Ensured(Call(p))
    BY <1>1, <2>1
  <2>. QED BY <2>1, <2>2 DEF Ensured
<1>3. \A p \in 1 .. Len(Steps) :
        /\ Call(p) \in {"approved", "granted"} => "Approve" \in did
        /\ Call(p) = "denied" => "Deny" \in did
        /\ Call(p) = "restart" => "restarted" \in did
        /\ Call(p) = "sleep" => "slept" \in did
        /\ Call(p) = "wake" => "woken" \in did
        /\ Call(p) = "input" => "input" \in did
        /\ Call(p) \in {"pause", "plug", "unplug"} => Call(p) \in did \cup silent
  BY <1>1 DEF Ensured
<1>4. CASE row \in {1, 2, 3, 4, 14}
  <2>1. Scenario \in {"first-frame", "changing-frames", "reconnect-20", "viewer-killed", "4k-200"}
    BY <1>4, Rows15 DEF Row, Scenario
  <2>. QED BY <1>2, <2>1 DEF Proof
<1>5. CASE row = 8
  <2>1. Scenario = "lock"
    BY <1>5, NamesDiffer DEF Scenario
  <2>2. Sure => {"lock", "unlocked"} \subseteq did
    BY <1>5, Concluding
  <2>. QED BY <1>2, <2>1, <2>2 DEF Proof
<1>6. CASE row = 13
  <2>1. Scenario = "resize"
    BY <1>6, NamesDiffer DEF Scenario
  <2>2. "small" \in did
    BY <1>6, Concluding
  <2>. QED BY <1>2, <2>1, <2>2 DEF Proof
<1>7. CASE row = 9
  <2>1. Scenario = "monitor-change" /\ Steps = MonitorChange
    BY <1>7, Rows15 DEF Scenario, Steps, Row
  <2>2. {2, 4} \subseteq 1 .. Len(Steps) /\ Call(2) = "plug" /\ Call(4) = "unplug"
    BY <2>1, MonitorChangeSteps DEF Call, Step, Always
  <2>. QED BY <1>2, <1>3, <2>1, <2>2 DEF Proof
<1>13. CASE row = 5
  <2>1. Scenario = "network-interruption" /\ Steps = Interruption
    BY <1>13, Rows15 DEF Scenario, Steps, Row
  <2>2. 2 \in 1 .. Len(Steps) /\ Call(2) = "pause"
    BY <2>1, InterruptionSteps DEF Call, Step
  <2>. QED BY <1>2, <1>3, <2>1, <2>2 DEF Proof
<1>14. CASE row = 7
  <2>1. Scenario = "input" /\ Steps = Input
    BY <1>14, Rows15 DEF Scenario, Steps, Row
  <2>2. 2 \in 1 .. Len(Steps) /\ Call(2) = "input"
    BY <2>1, InputSteps DEF Call, Step
  <2>. QED BY <1>2, <1>3, <2>1, <2>2 DEF Proof
<1>8. CASE row = 6
  <2>1. Scenario = "server-restart" /\ Steps = ServerRestart
    BY <1>8, Rows15 DEF Scenario, Steps, Row
  <2>2. 1 \in 1 .. Len(Steps) /\ Call(1) = "restart"
    BY <2>1, ServerRestartSteps DEF Call, Step
  <2>. QED BY <1>2, <1>3, <2>1, <2>2 DEF Proof
<1>9. CASE row = 10
  <2>1. Scenario = "portal-approve" /\ Steps = PortalApprove
    BY <1>9, Rows15 DEF Scenario, Steps, Row
  <2>2. {2, 4} \subseteq 1 .. Len(Steps) /\ Call(2) = "restart" /\ Call(4) = "approved"
    BY <2>1, PortalApproveSteps DEF Call, Step
  <2>. QED BY <1>2, <1>3, <2>1, <2>2 DEF Proof
<1>10. CASE row = 11
  <2>1. Scenario = "portal-deny" /\ Steps = PortalDeny
    BY <1>10, Rows15 DEF Scenario, Steps, Row
  <2>2. {2, 4} \subseteq 1 .. Len(Steps) /\ Call(2) = "restart" /\ Call(4) = "denied"
    BY <2>1, PortalDenySteps DEF Call, Step
  <2>. QED BY <1>2, <1>3, <2>1, <2>2 DEF Proof
<1>11. CASE row = 12
  <2>1. Scenario = "portal-restore" /\ Steps = PortalRestore
    BY <1>11, Rows15 DEF Scenario, Steps, Row
  <2>2. {2, 4} \subseteq 1 .. Len(Steps) /\ Call(2) = "restart" /\ Call(4) = "granted"
    BY <2>1, PortalRestoreSteps DEF Call, Step
  <2>. QED BY <1>2, <1>3, <2>1, <2>2 DEF Proof
<1>12. CASE row = 15
  <2>1. Scenario = "suspend-resume" /\ Steps = SuspendResume
    BY <1>12, Rows15 DEF Scenario, Steps, Row
  <2>2. {2, 3} \subseteq 1 .. Len(Steps) /\ Call(2) = "sleep" /\ Call(3) = "wake"
    BY <2>1, SuspendResumeSteps DEF Call, Step
  <2>. QED BY <1>2, <1>3, <2>1, <2>2 DEF Proof
<1>. QED BY <1>4, <1>5, <1>6, <1>7, <1>8, <1>9, <1>10, <1>11, <1>12, <1>13, <1>14

\* A scenario passes only when what it is about really happened (of a pause, a plug and an
\* unplug: was told to, as the code cannot tell more), and reconnects twenty times
\* (desktop_scenarios.py: what each scenario asks of the viewer; qualify-desktop.py: pause,
\* hotplug, alive).
THEOREM PassMeansDone == Spec => PassedMeansDone
<1>1. ASSUME IInv, [Next]_vars
      PROVE  \A n \in Names : NewlyPassed(n) => /\ Proof(n) \subseteq did \cup silent
                                                /\ n = "reconnect-20" => cycle = Cycles
  <2>. SUFFICES ASSUME NEW n \in Names, NewlyPassed(n)
                PROVE  Proof(n) \subseteq did \cup silent /\ (n = "reconnect-20" => cycle = Cycles)
    OBVIOUS
  <2>1. Conclude /\ n = Scenario /\ phase = "run" /\ step = 0 /\ ~failed /\ row \in 1 .. 15
    BY <1>1, PassConcludes
  <2>2. Proof(n) \subseteq did \cup silent
    BY <1>1, <2>1, PassIsDone
  <2>3. ASSUME n = "reconnect-20" PROVE cycle = Cycles
    <3>1. ~raised /\ ~GoesRound /\ cycle \in Nat /\ cycle <= Cycles
      BY <1>1, <2>1, <2>3 DEF IInv, InRow, Shape, TypeOK, Conclude
    <3>2. ~(cycle < Cycles)
      BY <2>1, <2>3, <3>1 DEF GoesRound
    <3>. QED BY <3>1, <3>2, QualAssumption
  <2>. QED BY <2>2, <2>3
<1>. QED BY <1>1, Inductive, PTL DEF Spec, PassedMeansDone
\* What a scenario leaves behind that concludes with a pass, from the calls that clean up after it.
LEMMA PassIsClean ==
  ASSUME IInv, phase = "run", step = 0, ~failed, row \in 1 .. 15
  PROVE  /\ ses = "none" /\ machine = "running"
         /\ row = 13 => mode = "base" \/ "base" \in silent
         /\ row \in 10 .. 12 => consent = "approve"
<1>1. \A p \in 1 .. Len(Steps) :
        (\A q \in p + 1 .. Len(Steps) : Call(q) \notin Spoils(Call(p))) => Effect(Call(p))
  BY Concluding
<1>2. ses = "none"
  <2>1. PICK p \in 1 .. Len(Steps) : Call(p) = "disconnect" /\
               \A q \in p + 1 .. Len(Steps) : Call(q) \notin Connecting \cup {"secret"}
    BY TableHolds DEF Table, Steps, Call
  <2>2. Spoils("disconnect") = Connecting \cup {"secret"} /\ (Effect("disconnect") => ses = "none")
    BY DEF Spoils, Effect, Framing, Connecting
  <2>3. Effect(Call(p))
    BY <1>1, <2>1, <2>2
  <2>. QED BY <2>1, <2>2, <2>3
<1>3. machine = "running"
  <2>. SUFFICES ASSUME row # 8 PROVE machine = "running"
    BY Concluding
  <2>1. PICK p \in 1 .. Len(Steps) : Call(p) \in Framing /\
               \A q \in p + 1 .. Len(Steps) : Call(q) \notin {"pause", "sleep", "wake"}
    BY TableHolds DEF Table, Steps, Call
  <2>4. \A q \in 1 .. Len(Steps) : Call(q) # "lock"
    BY Places DEF Place, Steps, Call
  <2>5. \A q \in p + 1 .. Len(Steps) : q \in 1 .. Len(Steps)
    <3>1. Len(Steps) \in 1 .. 11
      BY TableHolds DEF Table, Steps
    <3>. QED BY <3>1
  <2>2. \A c \in Framing : Spoils(c) = {"pause", "sleep", "wake", "lock"} /\ (Effect(c) => machine = "running")
    BY DEF Spoils, Effect, Framing, Connecting
  <2>3. Effect(Call(p))
    BY <1>1, <2>1, <2>2, <2>4, <2>5
  <2>. QED BY <2>1, <2>2, <2>3
<1>4. ASSUME row = 13 PROVE mode = "base" \/ "base" \in silent
  <2>1. Steps = Resize
    BY <1>4, Rows15 DEF Row, Steps
  <2>2. 8 \in 1 .. Len(Steps) /\ Call(8) = "base" /\ Len(Steps) = 8
    BY <2>1, ResizeSteps DEF Call, Finally
  <2>3. Effect("base") => mode = "base" \/ "base" \in silent
    BY DEF Effect, Framing, Connecting
  <2>. QED BY <1>1, <2>2, <2>3
<1>5. /\ Spoils("approve") = {"deny", "persist", "none"}
      /\ Effect("approve") => consent = "approve"
  BY DEF Spoils, Effect, Framing, Connecting
<1>6. ASSUME row = 10 PROVE consent = "approve"
  <2>1. Steps = PortalApprove
    BY <1>6, Rows15 DEF Row, Steps
  <2>2. 3 \in 1 .. Len(Steps) /\ Call(3) = "approve"
    BY <2>1, PortalApproveSteps DEF Call, Step
  <2>3. \A q \in 3 + 1 .. Len(Steps) : Call(q) \notin {"deny", "persist", "none"}
    BY <2>1, PortalApproveSteps DEF Call, Step, Always
  <2>. QED BY <1>1, <1>5, <2>2, <2>3
<1>7. ASSUME row = 11 PROVE consent = "approve"
  <2>1. Steps = PortalDeny
    BY <1>7, Rows15 DEF Row, Steps
  <2>2. 6 \in 1 .. Len(Steps) /\ Call(6) = "approve"
    BY <2>1, PortalDenySteps DEF Call, Finally
  <2>3. \A q \in 6 + 1 .. Len(Steps) : Call(q) \notin {"deny", "persist", "none"}
    BY <2>1, PortalDenySteps DEF Call, Step, Always
  <2>. QED BY <1>1, <1>5, <2>2, <2>3
<1>8. ASSUME row = 12 PROVE consent = "approve"
  <2>1. Steps = PortalRestore
    BY <1>8, Rows15 DEF Row, Steps
  <2>2. 10 \in 1 .. Len(Steps) /\ Call(10) = "approve" /\ Len(Steps) = 10
    BY <2>1, PortalRestoreSteps DEF Call, Finally
  <2>. QED BY <1>1, <1>5, <2>2
<1>. QED BY <1>2, <1>3, <1>4, <1>6, <1>7, <1>8

\* A scenario that passes leaves no session, lock, output or mode of its own behind, unless
\* the command that takes it back did nothing and nobody could tell, the consent helper
\* approving and the machine running (desktop_scenarios.py: the finally blocks).
THEOREM PassLeavesNothing == Spec => PassedLeavesNothing
<1>1. ASSUME IInv, [Next]_vars
      PROVE  \A n \in Names : NewlyPassed(n) =>
               /\ ses = "none" /\ machine = "running"
               /\ n = "lock" /\ Sure => ~locked
               /\ n = "monitor-change" => ~second \/ "unplug" \in silent
               /\ n = "resize" => ~attached /\ (mode = "base" \/ "base" \in silent)
               /\ n \in {"portal-approve", "portal-deny", "portal-restore"} => consent = "approve"
  <2>. SUFFICES ASSUME NEW n \in Names, NewlyPassed(n)
                PROVE  /\ ses = "none" /\ machine = "running"
                       /\ n = "lock" /\ Sure => ~locked
                       /\ n = "monitor-change" => ~second \/ "unplug" \in silent
                       /\ n = "resize" => ~attached /\ (mode = "base" \/ "base" \in silent)
                       /\ n \in {"portal-approve", "portal-deny", "portal-restore"} => consent = "approve"
    OBVIOUS
  <2>1. n = Scenario /\ phase = "run" /\ step = 0 /\ ~failed /\ row \in 1 .. 15
    BY <1>1, PassConcludes
  <2>2. /\ ses = "none" /\ machine = "running"
        /\ row = 13 => mode = "base" \/ "base" \in silent
        /\ row \in 10 .. 12 => consent = "approve"
    BY <1>1, <2>1, PassIsClean
  <2>3. (row = 8 /\ Sure => ~locked) /\ (row = 9 => ~second \/ "unplug" \in silent) /\ (row = 13 => ~attached)
    BY <1>1, <2>1, Concluding
  <2>4. /\ n = "lock" => row = 8
        /\ n = "monitor-change" => row = 9
        /\ n = "resize" => row = 13
    BY <2>1, NamesDiffer DEF Scenario
  <2>5. n \in {"portal-approve", "portal-deny", "portal-restore"} => row \in 10 .. 12
    <3>1. /\ Order[10].name = "portal-approve" /\ Order[11].name = "portal-deny"
          /\ Order[12].name = "portal-restore"
      BY Rows15 DEF Row
    <3>. QED BY <2>1, <3>1, NamesDiffer DEF Scenario
  <2>. QED BY <2>2, <2>3, <2>4, <2>5
<1>. QED BY <1>1, Inductive, PTL DEF Spec, PassedLeavesNothing
(* --------------------------- every run ends ------------------------------ *)

\* What is left of a run is measured in natural numbers.
LEMMA Measured == ASSUME IInv PROVE \A i \in 1 .. 7 : Distance[i] \in Nat
<1>1. /\ faults \in 0 .. Faults /\ Faults \in Nat /\ row \in 1 .. 15 /\ Len(Order) = 15
      /\ retries \in 0 .. Retries /\ Retries \in Nat /\ Cycles \in Nat /\ cycle \in Nat
      /\ (Scenario = "reconnect-20" => cycle <= Cycles)
      /\ step \in 0 .. Len(Steps)
  BY QualAssumption, Rows15 DEF IInv, TypeOK
<1>2. Len(Steps) \in 1 .. 11
  BY <1>1, TableHolds DEF Table, Steps
<1>3. /\ Faults - faults \in Nat /\ Len(Order) - row \in Nat /\ Retries - retries \in Nat
      /\ Scenario = "reconnect-20" => Cycles - cycle \in Nat
      /\ 2 + Len(Steps) - step \in Nat
  BY <1>1, <1>2
<1>4. InLaps => Cycles - cycle \in Nat
  BY <1>3 DEF InLaps
<1>5. Distance[1] \in Nat /\ Distance[2] \in Nat /\ Distance[3] \in Nat /\ Distance[4] \in Nat
  BY <1>3 DEF Distance
<1>6. Distance[5] \in Nat /\ Distance[6] \in Nat
  BY <1>4 DEF Distance
<1>7. Distance[7] \in Nat
  <2>1. Distance[7] \in {0, 1, 2 + Len(Steps) - step}
    BY DEF Distance
  <2>. QED BY <1>3, <2>1
<1>. QED BY <1>5, <1>6, <1>7

\* The order looks at the first part that differs.
LEMMA NearerAt ==
  ASSUME NEW d, NEW e, NEW i \in 1 .. 7, d[i] < e[i], \A j \in 1 .. i - 1 : d[j] = e[j]
  PROVE  Nearer(d, e)
BY DEF Nearer

LEMMA FaultNearer == ASSUME IInv, faults' = faults + 1 PROVE Nearer(Distance', Distance)
<1>1. faults \in Nat /\ Faults \in Nat
  BY QualAssumption DEF IInv, TypeOK
<1>2. Distance'[1] < Distance[1]
  BY <1>1 DEF Distance
<1>. QED BY <1>2, NearerAt

\* Main goes on to what it has to do next.
LEMMA PhaseNearer ==
  ASSUME faults' = faults,
         <<phase, phase'>> \in {<<"begin", "run">>, <<"begin", "post">>, <<"run", "post">>,
                                <<"post", "versions">>, <<"versions", "stop">>, <<"run", "stop">>}
  PROVE  Nearer(Distance', Distance)
<1>1. Distance'[1] = Distance[1] /\ Distance'[2] < Distance[2]
  BY DEF Distance
<1>. QED BY <1>1, NearerAt

\* Another scenario follows.
LEMMA RowNearer ==
  ASSUME faults' = faults, phase' = phase, row \in 1 .. 15, row' \in 1 .. 15, row' > row
  PROVE  Nearer(Distance', Distance)
<1>1. Distance'[1] = Distance[1] /\ Distance'[2] = Distance[2] /\ Distance'[3] < Distance[3]
  BY Rows15 DEF Distance
<1>. QED BY <1>1, NearerAt

\* The reconnect loop is the third row, and the only one that is gone through again.
LEMMA Laps ==
  ASSUME IInv, phase = "run"
  PROVE  /\ row \in 1 .. 15 /\ (InLaps <=> row = 3)
         /\ row = 3 => Len(Steps) = 2 /\ (step = 0 \/ step = 1 \/ step = 2)
         /\ row = 3 /\ step = 1 => ~failed /\ cycle < Cycles
<1>1. TypeOK /\ Shape /\ Counting /\ row \in 1 .. 15
  BY Rows15 DEF IInv, TypeOK, InRow, Rows
<1>2. InLaps <=> row = 3
  BY <1>1, NamesDiffer DEF InLaps, Scenario
<1>3. row = 3 => Steps = Reconnect /\ Len(Steps) = 2 /\ Steps[1].runs = "ok"
  BY Rows15, ReconnectSteps DEF Steps, Row, Step
<1>. QED BY <1>1, <1>2, <1>3 DEF TypeOK, Shape, Counting

\* A step of a scenario: outside the loop the scenario goes on, or fails; in it the first
\* step counts a cycle or fails.
LEMMA WalkNearer ==
  ASSUME IInv, phase = "run", step # 0, Walks, faults' = faults, retries' = retries,
         row = 3 => cycle' = cycle \/ (step = 1 /\ cycle' = cycle + 1),
         row = 3 /\ step = 1 => cycle' = cycle + 1 \/ failed'
  PROVE  Nearer(Distance', Distance)
<1>1. /\ row \in 1 .. 15 /\ (InLaps <=> row = 3)
      /\ row = 3 => Len(Steps) = 2 /\ (step = 1 \/ step = 2)
      /\ row = 3 /\ step = 1 => ~failed /\ cycle < Cycles
  BY Laps
<1>2. /\ phase' = phase /\ row' = row /\ Steps' = Steps /\ InLaps' = InLaps /\ failed \in BOOLEAN
      /\ failed' \in BOOLEAN /\ (failed => failed') /\ cycle \in Nat /\ Cycles \in Nat
  BY QualAssumption DEF Walks, Steps, InLaps, Scenario, IInv, TypeOK
<1>3. /\ step \in 1 .. Len(Steps) /\ Len(Steps) \in 1 .. 11
      /\ step' = 0 \/ step' \in step + 1 .. Len(Steps)
  BY Where, Forward DEF IInv, InRow, InStep
<1>4. \A i \in 1 .. 4 : Distance'[i] = Distance[i]
  BY <1>2 DEF Distance
<1>5. /\ Distance[5] = (IF InLaps THEN Cycles - cycle ELSE 0)
      /\ Distance'[5] = (IF InLaps THEN Cycles - cycle' ELSE 0)
      /\ Distance[6] = (IF failed THEN 0 ELSE 1) /\ Distance'[6] = (IF failed' THEN 0 ELSE 1)
      /\ Distance[7] = (IF step = 0 THEN (IF InLaps THEN 1 ELSE 0)
                        ELSE IF InLaps /\ step = 1 THEN 0 ELSE 2 + Len(Steps) - step)
      /\ Distance'[7] = (IF step' = 0 THEN (IF InLaps THEN 1 ELSE 0)
                         ELSE IF InLaps /\ step' = 1 THEN 0 ELSE 2 + Len(Steps) - step')
  BY <1>2 DEF Distance
<1>6. CASE row = 3 /\ step = 1 /\ cycle' = cycle + 1
  <2>1. Distance'[5] < Distance[5]
    BY <1>1, <1>2, <1>5, <1>6
  <2>. QED BY <1>4, <2>1, NearerAt
<1>7. CASE (row = 3 => cycle' = cycle) /\ failed' /\ ~failed
  <2>1. Distance'[5] = Distance[5] /\ Distance'[6] < Distance[6]
    BY <1>1, <1>5, <1>7
  <2>. QED BY <1>4, <2>1, NearerAt
<1>8. CASE (row = 3 => cycle' = cycle) /\ failed' = failed /\ ~(row = 3 /\ step = 1)
  <2>1. Distance'[5] = Distance[5] /\ Distance'[6] = Distance[6]
    BY <1>1, <1>5, <1>8
  <2>2. Distance'[7] < Distance[7]
    <3>1. Distance[7] = 2 + Len(Steps) - step /\ Distance[7] >= 2
      BY <1>1, <1>3, <1>5, <1>8
    <3>2. CASE step' = 0
      <4>1. Distance'[7] = (IF InLaps THEN 1 ELSE 0)
        BY <1>5, <3>2
      <4>2. Distance[7] \in Nat
        BY <1>3, <3>1
      <4>3. Distance'[7] \in {0, 1}
        BY <4>1
      <4>. QED BY <3>1, <4>2, <4>3
    <3>3. CASE step' # 0
      <4>1. step' > step /\ step' \in Nat /\ step' # 1
        BY <1>3, <3>3
      <4>2. Distance'[7] = 2 + Len(Steps) - step'
        BY <1>5, <3>3, <4>1
      <4>. QED BY <1>3, <3>1, <4>1, <4>2
    <3>. QED BY <3>2, <3>3
  <2>. QED BY <1>4, <2>1, <2>2, NearerAt
<1>. QED BY <1>1, <1>2, <1>6, <1>7, <1>8
\* Every other step of a scenario is no first step of a lap.
LEMMA OthersNearer ==
  ASSUME IInv, phase = "run", step # 0, Walks, Call(step) # "connect",
         cycle' = cycle, retries' = retries, faults' = faults \/ faults' = faults + 1
  PROVE  Nearer(Distance', Distance)
<1>1. ~(row = 3 /\ step = 1)
  BY Openings
<1>. QED BY <1>1, FaultNearer, WalkNearer

LEMMA ConnectNearer ==
  ASSUME IInv, NEW c \in Connecting, Connect(c) PROVE Nearer(Distance', Distance)
<1>1. /\ phase = "run" /\ step # 0 /\ Walks /\ Call(step) = c /\ retries' = retries
      /\ faults' \in {faults, faults + 1} /\ cycle' \in {cycle, cycle + 1}
  BY ConnectFacts
<1>2. cycle' = cycle + 1 \/ failed' \/ c # "connect"
  <2>1. PICK frame \in {granted' /\ ~locked, FALSE} :
          Count(frame) /\ Check(Satisfied(c, frame, events', token'))
    BY DEF Connect
  <2>2. ~failed' => Satisfied(c, frame, events', token')
    BY <2>1 DEF Check
  <2>3. c = "connect" /\ ~failed' => frame
    BY <2>2 DEF Satisfied
  <2>. QED BY <2>1, <2>3 DEF Count
<1>3. row = 3 => step = 1
  <2>1. row = 3 /\ step = 2 => Call(step) = "disconnect"
    BY Rows15, ReconnectSteps DEF Call, Steps, Row, Always
  <2>. QED BY <1>1, <2>1, Laps DEF Connecting
<1>4. row = 3 => c = "connect"
  BY <1>1, <1>3, Openings
<1>. QED BY <1>1, <1>2, <1>3, <1>4, FaultNearer, WalkNearer

\* The calls on the fixture, the guest and the session, one by one.
LEMMA CallNearer ==
  ASSUME IInv, TypeAndClick \/ Restart \/ Secret \/ SetHighDpi \/ Portal \/ Sleep \/ Wake \/ MarkSlept
  PROVE  Nearer(Distance', Distance)
<1>1. TypeOK
  BY DEF IInv
<1>2. /\ phase = "run" /\ step # 0 /\ Call(step) # "connect"
      /\ cycle' = cycle /\ retries' = retries /\ UNCHANGED <<able, only>>
      /\ faults' = faults \/ faults' = faults + 1
  <2>1. phase = "run" /\ step # 0 /\ Call(step) # "connect"
    BY DEF TypeAndClick, Restart, Secret, SetHighDpi, Portal, Sleep, Wake, MarkSlept, At, Call
  <2>2. cycle' = cycle /\ retries' = retries /\ UNCHANGED <<able, only>>
    BY DEF TypeAndClick, Restart, Secret, SetHighDpi, Portal, Sleep, Wake, MarkSlept, Proceed, Ends, Others, result
  <2>3. faults' = faults \/ faults' = faults + 1
    BY DEF TypeAndClick, Restart, Secret, SetHighDpi, Portal, Sleep, Wake, MarkSlept, Fault
  <2>. QED BY <2>1, <2>2, <2>3
<1>3. Walks
  <2>1. CASE TypeAndClick
    <3>1. PICK marked \in BOOLEAN : Ends(marked)
      BY <2>1 DEF TypeAndClick
    <3>. QED BY <1>1, <1>2, <3>1 DEF Ends, Check, Walks, TypeOK
  <2>2. CASE Restart
    <3>1. up' \in BOOLEAN
      BY <1>1, <2>2 DEF Restart, TypeOK
    <3>. QED BY <1>1, <1>2, <2>2, <3>1 DEF Restart, Ends, Check, Walks, TypeOK
  <2>3. CASE SetHighDpi
    BY <1>1, <1>2, <2>3 DEF SetHighDpi, Check, Walks, TypeOK
  <2>4. CASE Secret \/ Portal \/ MarkSlept
    BY <1>1, <1>2, <2>4 DEF Secret, Portal, MarkSlept, Proceed, Ends, Check, Walks, TypeOK
  <2>5. CASE Sleep \/ Wake
    BY <1>1, <1>2, <2>5 DEF Sleep, Wake, Ends, Check, Walks, TypeOK
  <2>. QED BY <2>1, <2>2, <2>3, <2>4, <2>5
<1>. QED BY <1>2, <1>3, OthersNearer

\* Another lap costs a retry, or was paid for by the cycle that was counted.
LEMMA AgainNearer == ASSUME IInv, Again PROVE Nearer(Distance', Distance)
<1>1. /\ phase = "run" /\ step = 0 /\ Scenario = "reconnect-20" /\ step' = 1 /\ failed' = FALSE
      /\ UNCHANGED <<faults, phase, row, cycle>>
      /\ retries' = (IF failed THEN retries + 1 ELSE retries)
  BY DEF Again, AtEnd, GoesRound, Retried
<1>2. InLaps /\ InLaps' /\ retries \in Nat /\ Retries \in Nat
  BY <1>1, QualAssumption DEF InLaps, Scenario, IInv, TypeOK
<1>3. \A i \in 1 .. 3 : Distance'[i] = Distance[i]
  BY <1>1 DEF Distance
<1>4. CASE failed
  <2>1. Distance'[4] < Distance[4]
    BY <1>1, <1>2, <1>4 DEF Distance
  <2>. QED BY <1>3, <2>1, NearerAt
<1>5. CASE ~failed
  <2>1. Distance'[4] = Distance[4] /\ Distance'[5] = Distance[5] /\ Distance'[6] = Distance[6]
    BY <1>1, <1>2, <1>5 DEF Distance
  <2>2. Distance'[7] < Distance[7]
    BY <1>1, <1>2 DEF Distance
  <2>. QED BY <1>3, <2>1, <2>2, NearerAt
<1>. QED BY <1>4, <1>5

\* The next scenario is a later one, and after the last there is the post-run smoke.
LEMMA EnterNearer == ASSUME IInv, Begin \/ Conclude PROVE Nearer(Distance', Distance)
<1>1. PICK r \in 1 .. 16 : /\ Enter(NextRow(r)) /\ faults' = faults
                           /\ phase = "begin" \/ (phase = "run" /\ r = row + 1)
  <2>1. row \in 1 .. 15
    BY Rows15 DEF IInv, TypeOK
  <2>2. row + 1 \in 1 .. 16
    BY <2>1
  <2>. QED BY <2>2 DEF Begin, Conclude, AtEnd
<1>2. row \in 1 .. 15
  BY Rows15 DEF IInv, TypeOK
<1>3. NextRow(r) = 0 \/ (NextRow(r) \in r .. 15 /\ NextRow(r) \in 1 .. 15)
  BY NextRowShape
<1>4. /\ phase' = (IF NextRow(r) = 0 THEN "post" ELSE "run")
      /\ row' = (IF NextRow(r) = 0 THEN row ELSE NextRow(r))
  BY <1>1 DEF Enter
<1>5. CASE phase = "run" /\ NextRow(r) # 0
  <2>1. row' \in 1 .. 15 /\ row' > row
    BY <1>1, <1>2, <1>3, <1>4, <1>5
  <2>. QED BY <1>1, <1>2, <1>4, <1>5, <2>1, RowNearer
<1>6. CASE phase = "begin" \/ NextRow(r) = 0
  BY <1>1, <1>4, <1>6, PhaseNearer
<1>. QED BY <1>1, <1>5, <1>6

LEMMA StepNearer ==
  ASSUME IInv, Next, phase # "idle", phase' # "idle" PROVE Nearer(Distance', Distance)
<1>1. ~Start /\ ~Stop
  BY DEF Start, Stop
<1>2. CASE \E c \in Connecting : Connect(c)
  BY <1>2, ConnectNearer
<1>3. CASE \E c \in Connecting : Glitch(c)
  BY <1>3, GlitchFacts, FaultNearer
<1>4. CASE Looks
  BY <1>4, LooksFacts, OthersNearer DEF Others
<1>5. CASE Commands \/ Pause
  <2>1. /\ phase = "run" /\ step # 0 /\ Walks /\ Call(step) # "connect"
        /\ cycle' = cycle /\ retries' = retries /\ (faults' = faults \/ faults' = faults + 1)
    BY <1>5, CommandFacts, PauseFacts
  <2>. QED BY <2>1, OthersNearer
<1>6. CASE TypeAndClick \/ Restart \/ Secret \/ SetHighDpi \/ Portal \/ Sleep \/ Wake \/ MarkSlept
  BY <1>6, CallNearer
<1>7. CASE Again \/ Begin \/ Conclude
  BY <1>7, AgainNearer, EnterNearer
<1>8. CASE PostRun \/ Versions \/ Abandon
  BY <1>8, PhaseNearer DEF PostRun, Versions, Abandon
<1>9. CASE Drop \/ Crash \/ Raise \/ Abort
  BY <1>9, FaultNearer DEF Drop, Crash, Raise, Abort, Fault
<1>. QED BY <1>1, <1>2, <1>3, <1>4, <1>5, <1>6, <1>7, <1>8, <1>9
     DEF Next, Runner, Scenarios, Looks, Commands

\* Nothing a run does (desktop_scenarios.py: the retry loop of scenario_reconnect, the rows of
\* steps, _run_group; qualify-desktop.py: main) can go on for ever, with any number of cycles,
\* retries and faults: what is left of it shrinks with every step, in a well-founded order.
THEOREM EveryRunShrinks == Spec => RunShrinks
<1>1. IInv /\ IInv' /\ [Next]_vars =>
        [phase # "idle" /\ phase' # "idle" =>
           (\A i \in 1 .. 7 : Distance'[i] \in Nat) /\ Nearer(Distance', Distance)]_vars
  <2> SUFFICES ASSUME IInv, IInv', Next, phase # "idle", phase' # "idle"
               PROVE  (\A i \in 1 .. 7 : Distance'[i] \in Nat) /\ Nearer(Distance', Distance)
    OBVIOUS
  <2>1. Nearer(Distance', Distance)
    BY StepNearer
  <2>2. (\A i \in 1 .. 7 : Distance[i] \in Nat)'
    BY Measured, PTL
  <2>. QED BY <2>1, <2>2
<1>. QED BY <1>1, Inductive, PTL DEF Spec, RunShrinks
================================================================================
