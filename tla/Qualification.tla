----------------------------- MODULE Qualification -----------------------------
(***************************************************************************)
(* One qualification run: qualify-desktop.py starts a fixture (a container, *)
(* or a KVM guest that outlives the run), takes an actual viewer through    *)
(* the scenarios of desktop_scenarios.py, and writes a record.  A scenario  *)
(* is a row of steps, one per driver call, with what the code does when a   *)
(* step finds nothing (the early returns) and when it raises (the finally   *)
(* blocks).  The fixture, the session and the guest change on their own.    *)
(***************************************************************************)
EXTENDS Naturals, Sequences

CONSTANTS
  Fixtures,    \* the fixtures that may be qualified, each the set of what it can do
  Selections,  \* the scenarios a run may be limited to (--scenario)
  Cycles,      \* RECONNECT_CYCLES
  Retries,     \* RECONNECT_TRANSIENT_RETRIES
  Faults,      \* bound: things that go wrong in one behaviour
  Runs         \* bound: runs against the same guest

ASSUME QualAssumption ==
  /\ \A f \in Fixtures :
       /\ f \subseteq {"resize", "hotplug", "lock", "input", "suspend", "portal", "app"}
       /\ "app" \in f => "input" \in f
  /\ Cycles \in Nat \ {0} /\ Retries \in Nat /\ Faults \in Nat /\ Runs \in Nat

(* ------------------------ the scenarios as rows ------------------------- *)

\* A step runs unless something has gone wrong before it; an `Always` step runs also
\* after a check failed, a `Finally` step also after a call raised.
Step(call)    == [call |-> call, runs |-> "ok"]
Always(call)  == [call |-> call, runs |-> "checked"]
Finally(call) == [call |-> call, runs |-> "raised"]

FirstFrame     == <<Step("connect"), Always("disconnect")>>
ChangingFrames == <<Step("connect"), Step("capture"), Always("disconnect")>>
Reconnect      == <<Step("connect"), Always("disconnect")>>
ViewerKilled   == <<Step("connect"), Always("disconnect"), Step("connect"), Always("disconnect")>>
Interruption   == <<Step("connect"), Step("pause"), Step("resumed"), Always("disconnect"),
                    Step("recover"), Always("disconnect")>>
ServerRestart  == <<Step("restart"), Step("connect"), Always("disconnect")>>
Input          == <<Step("connect"), Step("input"), Finally("disconnect")>>
LockUnasked    == <<Step("connect"), Step("lock"), Step("hidden"), Step("secret"), Step("visible"),
                    Finally("disconnect"), Finally("unlock")>>   \* mutant: alive asked of nothing
Lock           == <<Step("connect"), Step("lock"), Step("hidden"), Step("alive"), Step("secret"),
                    Step("visible"), Step("alive"), Finally("disconnect"), Finally("unlock")>>
MonitorChange  == <<Step("connect"), Step("plug"), Step("capture"), Always("unplug"), Always("capture"),
                    Always("alive"), Finally("disconnect")>>
PortalApprove  == <<Step("forget"), Step("restart"), Step("approve"), Step("approved"),
                    Always("disconnect")>>
PortalDeny     == <<Step("forget"), Step("restart"), Step("deny"), Step("denied"),
                    Always("disconnect"), Finally("approve"),
                    Step("forget"), Step("restart"), Step("connect"), Always("disconnect")>>
PortalRestore  == <<Step("forget"), Step("restart"), Step("persist"), Step("granted"),
                    Always("disconnect"), Step("restart"), Step("none"), Step("restored"),
                    Always("disconnect"), Finally("approve")>>
ResizeLeft     == <<Step("connect"), Step("small"), Step("capture"), Always("alive"), Step("size"),
                    Finally("detach"), Finally("disconnect")>>   \* mutant: the mode is left as it is
Resize         == <<Step("connect"), Step("small"), Step("capture"), Always("alive"), Step("size"),
                    Finally("detach"), Finally("disconnect"), Finally("base")>>
HighDpi        == <<Step("idle"), Step("large"), Step("connect"), Step("size"), Always("disconnect")>>
SuspendResume  == <<Step("connect"), Step("sleep"), Step("wake"), Step("agent"), Step("resumed"),
                    Always("disconnect"), Step("recover"), Always("disconnect")>>

\* run_scenarios: mode changes late because they can crash servers, the suspend last
\* because a guest that slept cannot change its mode again; each with what it needs.
Row(name, steps, needs) == [name |-> name, steps |-> steps, needs |-> needs]
Order == <<
  Row("first-frame", FirstFrame, {}), Row("changing-frames", ChangingFrames, {}),
  Row("reconnect-20", Reconnect, {}), Row("viewer-killed", ViewerKilled, {}),
  Row("network-interruption", Interruption, {}), Row("server-restart", ServerRestart, {}),
  Row("input", Input, {"input"}), Row("lock", Lock, {"lock", "input"}),
  Row("monitor-change", MonitorChange, {"hotplug"}),
  Row("portal-approve", PortalApprove, {"portal"}), Row("portal-deny", PortalDeny, {"portal"}),
  Row("portal-restore", PortalRestore, {"portal"}),
  Row("resize", Resize, {"resize"}), Row("4k-200", HighDpi, {"resize"}),
  Row("suspend-resume", SuspendResume, {"suspend"}) >>

VARIABLES
  able, only,                        \* what the fixture can do, the scenarios of this run
  up, mode, second, locked,          \* the fixture: alive, its mode, a second output, the lock
  consent, token, granted, events,   \* the portal helper, restore token, grant, what it logged
  machine, slept, marker,            \* the guest: its state, been through S3, marked as such
  ses, shown, dead, old,             \* the session, its last frame, closed for good, one abandoned
  attached,                          \* live_resize
  phase, row, step,                  \* main, the scenario, its step
  failed, raised, hung,              \* what went wrong in it: a check, an error, a call that hangs
  attempt, transient, resumed,       \* connect_and_capture, frames went on after a disturbance
  cycle, retries,                    \* scenario_reconnect
  current, outcome, healthy, record, \* current_mode, verdicts, post-run smoke, the record
  did, silent, opened,               \* what really happened in this scenario, what was told to
                                     \* and did not, nobody looking; a session in it
  faults, runs

fixture == <<up, mode, second, locked, consent, token, granted, events>>
guest == <<machine, slept, marker>>
viewer == <<ses, shown, dead, old>>
local == <<failed, raised, hung, attempt, transient, resumed, cycle, retries>>
result == <<able, only, current, outcome, healthy, record, runs>>
vars == <<fixture, guest, viewer, attached, silent, phase, row, step, local, result, did, opened, faults>>

IsGuest == "suspend" \in able
Names == { Order[i].name : i \in 1 .. Len(Order) }
ASSUME SelectionsAssumption == Selections \subseteq SUBSET Names
Scenario == Order[row].name
Steps == Order[row].steps
NoVerdicts == [n \in Names |-> "none"]

Init ==
  /\ able \in Fixtures /\ only = Names
  /\ up = FALSE /\ mode = "base" /\ second = FALSE /\ locked = FALSE
  /\ consent = "approve" /\ token = FALSE /\ granted = FALSE /\ events = {}
  /\ machine = "running" /\ slept = FALSE /\ marker = FALSE
  /\ ses = "none" /\ shown = "blank" /\ dead = FALSE /\ old = FALSE /\ attached = FALSE /\ silent = {}
  /\ phase = "idle" /\ row = 1 /\ step = 1 /\ failed = FALSE /\ raised = FALSE /\ hung = FALSE
  /\ attempt = 1 /\ transient = FALSE /\ resumed = FALSE /\ cycle = 0 /\ retries = 0
  /\ current = "base" /\ outcome = NoVerdicts /\ healthy = FALSE /\ record = "none"
  /\ did = {} /\ opened = FALSE /\ faults = 0 /\ runs = 0

(* ------------------- what happens without the runner -------------------- *)

Fault == faults < Faults /\ faults' = faults + 1

\* A live session shows the desktop, a lost one the viewer's own message, and one whose
\* message was dismissed the last frame it had.
Visible == up /\ machine = "running" /\ granted /\ ~locked
Shows == CASE ses = "live"  -> (IF Visible THEN "scene" ELSE "blank")
           [] ses = "stale" -> shown
           [] OTHER         -> "blank"

\* The session is lost: dropped by the server, or with the compositor under it.
Lose == ses' = (IF ses = "live" THEN "lost" ELSE ses) /\ shown' = Shows
Lost == did' = did \cup (IF ses = "live" THEN {"lost"} ELSE {})

Drop ==
  /\ phase = "run" /\ ses = "live" /\ Fault /\ Lose /\ Lost
  /\ UNCHANGED <<fixture, guest, dead, old, attached, silent, phase, row, step, local, result,
                 opened>>

Crash ==
  /\ phase \in {"begin", "run"} /\ up /\ Fault /\ Lose /\ Lost /\ up' = FALSE
  /\ UNCHANGED <<mode, second, locked, consent, token, granted, events, guest, dead, old,
                 attached, silent, phase, row, step, local, result, opened>>

(* ---------------------- from one step to the next ----------------------- *)

\* A first connection without a frame is only disconnected: the try has not begun.
Begun(q) == "frame" \in did' \/ \A p \in 1 .. q - 1 : Steps[p].call # "connect"
Runnable(q, wrong, broke) ==
  /\ CASE Steps[q].runs = "raised"  -> TRUE
       [] Steps[q].runs = "checked" -> ~broke
       [] OTHER                     -> ~broke /\ ~wrong
  /\ IF Steps[q].call = "disconnect" THEN opened' /\ ses' # "none" ELSE Begun(q)

\* The next step to run after this one, given what went wrong so far; 0 when none is left.
After(wrong, broke) ==
  LET rest == { q \in step + 1 .. Len(Steps) : Runnable(q, wrong, broke) }
  IN IF rest = {} THEN 0 ELSE CHOOSE q \in rest : \A o \in rest : q <= o

At(call) == phase = "run" /\ step # 0 /\ Steps[step].call = call

\* A check of the scenario: when it does not hold, the rest is only cleaning up.
Check(ok) ==
  /\ failed' = (failed \/ ~ok) /\ step' = After(failed', raised)
  /\ UNCHANGED <<phase, row, raised, hung>>

Others == UNCHANGED <<attempt, transient, cycle, retries, result, opened>>
Ends(ok) == Others /\ Check(ok)
Proceed == Ends(TRUE)

\* A call raises.  Inside a try the finally block follows, and an error in that block cuts
\* it short; the session stays open unless the block closes it.  What does not come back
\* (a docker, adb or viewer command) raises TimeoutExpired, which is no OSError: no
\* scenario catches it, but an error of the finally block takes its place.
TryOpened == \E p \in 1 .. step - 1 : Steps[p].call \in {"connect", "deny", "persist"}
Breaks(hangs) ==
  /\ Others /\ raised' = TRUE /\ failed' = TRUE /\ hung' = hangs
  /\ UNCHANGED <<phase, row>>
  /\ step' = IF TryOpened /\ Steps[step].runs # "raised" THEN After(TRUE, TRUE) ELSE 0
Raise ==
  /\ phase = "run" /\ step # 0 /\ Fault
  /\ UNCHANGED <<fixture, guest, viewer, attached, silent, resumed, did>>
  /\ \E hangs \in BOOLEAN : Breaks(hangs)

\* The timeout reaches main, which is left with stop() alone ...
Abandon ==
  /\ phase = "run" /\ step = 0 /\ hung /\ phase' = "stop" /\ record' = "lost"
  /\ UNCHANGED <<fixture, guest, viewer, attached, silent, row, step, local, able, only,
                 current, outcome, healthy, runs, did, opened, faults>>

\* ... and so does one between the scenarios.
Abort ==
  /\ phase \in {"begin", "post", "versions"} /\ Fault /\ phase' = "stop" /\ record' = "lost"
  /\ UNCHANGED <<fixture, guest, viewer, attached, silent, row, step, local, able, only,
                 current, outcome, healthy, runs, did, opened>>

(* ----------------------------- connecting ------------------------------- *)

\* A portal fixture raises its consent dialog unless it holds a restore token, and the
\* helper answers as it was told.
Dialog == "portal" \in able /\ ~token
Answer == IF ~Dialog \/ consent = "none" THEN {} ELSE {IF consent = "deny" THEN "Deny" ELSE "Approve"}
Grants == ~Dialog \/ consent \in {"approve", "persist"}

\* What a scenario asks of the frame and of the dialogs since it last looked.
Satisfied(call, frame, log, stored) ==
  CASE call = "approved" -> frame /\ "Approve" \in log
    [] call = "denied"   -> ~frame /\ "Deny" \in log
    [] call = "granted"  -> frame /\ stored
    [] call = "restored" -> frame /\ log = {}
    [] OTHER             -> frame

Connecting == {"connect", "recover", "approved", "denied", "granted", "restored"}
Needed(call) == At(call) /\ (call = "recover" => ~resumed)

\* connect(): a new viewer.  One that was never disconnected is still there.
Open(s) ==
  /\ ses' = s /\ dead' = FALSE /\ shown' = "blank" /\ opened' = TRUE
  /\ old' = (old \/ ses # "none")

CountNothing(frame) == cycle' = cycle   \* mutant
Count(frame) == cycle' = IF frame THEN cycle + 1 ELSE cycle

\* connect_and_capture: a valid frame, or none because there is none or it comes too late.
Connect(call) ==
  /\ Needed(call)
  /\ granted' = (up /\ machine = "running" /\ Grants)
  /\ events' = events \cup (IF up THEN Answer ELSE {})
  /\ token' = (token \/ (granted' /\ Dialog /\ consent = "persist"))
  /\ Open(IF up THEN "live" ELSE "lost")
  /\ \E frame \in {granted' /\ ~locked, FALSE} :
       /\ IF frame = (granted' /\ ~locked) THEN UNCHANGED faults ELSE Fault
       /\ did' = did \cup events' \cup (IF frame THEN {"frame"} ELSE {})
       /\ Count(frame) /\ transient' = FALSE /\ attempt' = 1
       /\ UNCHANGED <<up, mode, second, locked, consent, guest, attached, silent, resumed,
                      retries, result>>
       /\ Check(Satisfied(call, frame, events', token'))

\* The handshake glitch: disconnected and tried once more, and no frame the second time.
Glitch(call) ==
  /\ Needed(call) /\ up /\ Fault
  /\ Open(IF attempt = 1 THEN "none" ELSE "lost")
  /\ UNCHANGED <<fixture, guest, attached, silent, resumed, cycle, retries, result, did>>
  /\ IF attempt = 1
     THEN attempt' = 2 /\ UNCHANGED <<transient, step, failed, phase, row, raised, hung>>
     ELSE attempt' = 1 /\ transient' = TRUE /\ Check(Satisfied(call, FALSE, events, FALSE))

\* Frames that went on in the same session make the second connection unnecessary.
SkipRecover ==
  /\ At("recover") /\ resumed
  /\ UNCHANGED <<fixture, guest, viewer, attached, silent, resumed, did, faults>> /\ Proceed

Disconnect ==
  /\ At("disconnect") /\ ses' = "none"
  /\ UNCHANGED <<fixture, guest, shown, dead, old, attached, silent, resumed, did,
                 faults>> /\ Proceed

(* --------------------- looking at the session --------------------------- *)

\* alive.  The app reads its own screen, and a session it once called closed stays over even
\* when the message was dismissed and the last frame is back.  A desktop viewer only has to
\* be running, as it is with its message on the screen, and nothing is remembered.
App == "app" \in able
Alive == IF App THEN ses = "live" \/ (ses = "stale" /\ ~dead) ELSE ses # "none"
Asked == dead' = (dead \/ (App /\ ~Alive))

AskAlive ==
  /\ At("alive") /\ Asked
  /\ UNCHANGED <<fixture, guest, ses, shown, old, attached, silent, resumed, did,
                 faults>> /\ Ends(Alive)

\* A screenshot that shows the scene, and one that does not; of a closed session there is none.
Picture == ~dead /\ Shows = "scene"
Hidden == ~dead /\ Shows # "scene"

\* capture_valid and _scene_hidden poll the screen; the first asks for alive as it waits.
Capture(call) ==
  /\ At(call) /\ (IF call = "hidden" THEN UNCHANGED dead ELSE Asked)
  /\ UNCHANGED <<fixture, guest, ses, shown, old, attached, silent, resumed, did, faults>>
  /\ Ends(IF call = "hidden" THEN Hidden ELSE Picture)

\* After a disturbance: alive, a valid capture and one that differs, or a reconnect.
Resumed ==
  /\ At("resumed") /\ Asked
  /\ \E seen \in BOOLEAN : resumed' = (seen /\ Alive /\ Picture)
  /\ UNCHANGED <<fixture, guest, ses, shown, old, attached, silent, did, faults>> /\ Proceed

\* The size the viewer receives is the mode the scenario asked for.  The app reports it
\* for a live session only, and raises otherwise; a desktop viewer's is its capture's.
AskSize ==
  /\ At("size") /\ UNCHANGED <<fixture, guest, viewer, attached, silent, resumed, did, faults>>
  /\ IF App /\ ses # "live" THEN Breaks(FALSE)
     ELSE Ends(mode = IF Scenario = "resize" THEN "small" ELSE "large")

\* Keyboard, pointer, scroll and drag, as one step: the scene in the viewer must show that
\* it got them, and may not, or too late.
TypeAndClick ==
  /\ At("input")
  /\ \E marked \in {ses = "live" /\ Visible, FALSE} :
       /\ IF marked = (ses = "live" /\ Visible) THEN UNCHANGED faults ELSE Fault
       /\ did' = (IF marked THEN did \cup {"input"} ELSE did)
       /\ UNCHANGED <<fixture, guest, viewer, attached, silent, resumed>> /\ Ends(marked)

(* ----------------------- acting on the fixture -------------------------- *)

\* pause and unpause: the session may or may not survive; a guest whose cont is refused
\* stays frozen and the call raises.  Nobody looks at what docker pause and docker unpause
\* return: a container may never be paused, or stay frozen in silence.
Pause ==
  /\ At("pause") /\ UNCHANGED <<fixture, slept, marker, dead, old, attached, resumed>>
  /\ \/ /\ did' = did \cup {"pause"} /\ (Lose \/ UNCHANGED <<ses, shown>>)
        /\ UNCHANGED <<machine, faults, silent>> /\ Proceed
     \/ /\ ~IsGuest /\ silent' = silent \cup {"pause"}
        /\ UNCHANGED <<machine, ses, shown, faults, did>> /\ Proceed
     \/ /\ Fault /\ machine' = "paused" /\ did' = did \cup {"pause"} /\ UNCHANGED <<ses, shown,
                                                                                    silent>>
        /\ IF IsGuest THEN Breaks(FALSE) ELSE Proceed

\* restart and its smoke check.  A guest that slept cannot open its DRM device again.
Restart ==
  /\ At("restart") /\ Lose /\ old' = FALSE
  /\ up' \in {~slept /\ machine = "running", FALSE}
  /\ IF up' = (~slept /\ machine = "running") THEN UNCHANGED faults ELSE Fault
  /\ mode' = "base" /\ second' = FALSE /\ locked' = FALSE /\ granted' = FALSE
  /\ did' = (IF up' THEN did \cup {"restarted"} ELSE did)
  /\ UNCHANGED <<consent, token, events, guest, dead, attached, silent, resumed>> /\ Ends(up')

\* The fixture's commands.  Of most only the exit status is looked at, of an unlock not even
\* that: a command may do nothing unnoticed, and a guest that slept does not change its mode.
Works(call) ==
  \/ call = "lock"   /\ locked' = TRUE  /\ UNCHANGED <<mode, second>>
  \/ call = "unlock" /\ locked' = FALSE /\ UNCHANGED <<mode, second>>
  \/ call = "plug"   /\ second' = TRUE  /\ UNCHANGED <<mode, locked>>
  \/ call = "unplug" /\ second' = FALSE /\ UNCHANGED <<mode, locked>>
  \/ call \in {"small", "base"} /\ ~slept /\ mode' = call /\ UNCHANGED <<second, locked>>
Blind == {"plug", "unplug", "base"}     \* what no later step of the scenario can tell
Command(call) ==
  /\ At(call)
  /\ \/ Works(call) /\ did' = did \cup {call} /\ UNCHANGED silent
     \/ silent' = silent \cup ({call} \cap Blind) /\ UNCHANGED <<mode, second, locked, did>>
  /\ attached' = (attached \/ call = "small")
  /\ UNCHANGED <<up, consent, token, granted, events, guest, viewer, resumed, faults>> /\ Proceed

\* live_resize is put back by the finally block.
Detach ==
  /\ At("detach") /\ attached' = FALSE
  /\ UNCHANGED <<fixture, guest, viewer, silent, resumed, did, faults>> /\ Proceed

\* The unlock secret: in a live session it unlocks unless a key is lost.  Where the viewer
\* shows that the connection closed, its Return may dismiss the message, and end a desktop
\* viewer.
Secret ==
  /\ At("secret")
  /\ \/ /\ ses = "live" /\ locked' = FALSE /\ UNCHANGED <<ses, shown, faults>>
     \/ /\ ses = "live" /\ Fault /\ UNCHANGED <<locked, ses, shown>>
     \/ /\ ses # "live" /\ UNCHANGED <<locked, shown, faults>>
        /\ ses' \in {ses, "stale"} \cup (IF App THEN {} ELSE {"none"})
  /\ did' = (IF locked' # locked THEN did \cup {"unlocked"} ELSE did)
  /\ UNCHANGED <<up, mode, second, consent, token, granted, events, guest, dead, old, attached,
                 silent, resumed>>
  /\ Proceed

\* wait_idle: WayVNC must have no client left; other servers cannot be asked.
WaitIdle ==
  /\ At("idle") /\ UNCHANGED <<fixture, guest, viewer, attached, silent, resumed, did, faults>>
  /\ Ends("portal" \in able \/ (ses # "live" /\ ~old))

\* set_mode(HIGH_DPI_MODE) and the smoke check at that mode: what the fixture stays at.
SetHighDpi ==
  /\ At("large") /\ mode' \in {mode} \cup (IF slept THEN {} ELSE {"large"}) /\ current' = "large"
  /\ UNCHANGED <<up, second, locked, consent, token, granted, events, guest, viewer, attached,
                 silent, resumed, did, faults, attempt, transient, cycle, retries, able, only,
                 outcome, healthy, record, runs, opened>>
  /\ Check(up /\ mode' = "large")

\* portal_forget and portal_mode; what the helper did before is no longer looked at.
Portal ==
  /\ \/ At("forget") /\ token' = FALSE /\ UNCHANGED <<consent, events>>
     \/ /\ \E c \in {"approve", "deny", "persist", "none"} : At(c) /\ consent' = c
        /\ events' = {} /\ UNCHANGED token
  /\ UNCHANGED <<up, mode, second, locked, granted, guest, viewer, attached, silent, resumed,
                 did, faults>>
  /\ Proceed

(* ------------------------------ suspending ------------------------------ *)

\* guest-suspend-ram never answers; only query-status tells, and not for ever: a guest
\* that is late may sleep after the scenario has failed.
Sleep ==
  /\ At("sleep")
  /\ \/ machine' = "suspended" /\ UNCHANGED faults
     \/ machine' \in {"running", "suspended"} /\ Fault
  /\ slept' = (slept \/ machine' = "suspended")
  /\ did' = (IF machine' = "suspended" THEN did \cup {"slept"} ELSE did)
  /\ UNCHANGED <<fixture, marker, viewer, attached, silent, resumed>> /\ Ends(faults' = faults)

\* system_wakeup, and the status that must be running again; the session may be gone.
Wake ==
  /\ At("wake")
  /\ \/ machine' = "running" /\ UNCHANGED faults /\ did' = did \cup {"woken"}
     \/ UNCHANGED machine /\ Fault /\ UNCHANGED did
  /\ Lose \/ UNCHANGED <<ses, shown>>
  /\ UNCHANGED <<fixture, slept, marker, dead, old, attached, silent,
                 resumed>> /\ Ends(faults' = faults)

\* The guest is marked only when its agent came back; the scenario does not ask for it.
MarkSlept ==
  /\ At("agent")
  /\ \/ marker' = TRUE /\ UNCHANGED faults
     \/ Fault /\ UNCHANGED marker
  /\ UNCHANGED <<fixture, machine, slept, viewer, attached, silent, resumed, did>> /\ Proceed

(* --------------------------- the whole run ------------------------------ *)

Wanted(r) == Order[r].name \in only /\ Order[r].needs \subseteq able
NextRow(r) == LET rest == { q \in r .. Len(Order) : Wanted(q) }
              IN IF rest = {} THEN 0 ELSE CHOOSE q \in rest : \A o \in rest : q <= o

\* The next scenario of _run_group starts afresh; after the last one the post-run smoke.
Enter(r) ==
  /\ row' = (IF r = 0 THEN row ELSE r) /\ step' = (IF r = 0 THEN 0 ELSE 1)
  /\ phase' = (IF r = 0 THEN "post" ELSE "run")
  /\ failed' = FALSE /\ raised' = FALSE /\ hung' = FALSE /\ attempt' = 1 /\ transient' = FALSE
  /\ resumed' = FALSE /\ cycle' = 0 /\ retries' = 0 /\ did' = {} /\ silent' = {} /\ opened' = FALSE

Smoke(wanted) == up /\ machine = "running" /\ mode = wanted

\* driver.start and the first smoke.  A container is new; a guest is as the last run left
\* it, and refused when it is marked as one that slept.
RefusedAsleep == IsGuest /\ machine # "running"   \* mutant: the marker is not looked at
Refused == IsGuest /\ (machine # "running" \/ marker)
Start ==
  /\ phase = "idle" /\ runs < Runs /\ runs' = runs + 1
  /\ only' \in Selections /\ ~Refused
  /\ IF IsGuest /\ runs > 0
     THEN UNCHANGED fixture
     ELSE /\ up' = TRUE /\ mode' = "base" /\ second' = FALSE /\ locked' = FALSE
          /\ consent' = "approve" /\ token' = FALSE /\ granted' = FALSE /\ events' = {}
  /\ up' /\ mode' = "base"                      \* otherwise SystemExit, and no record
  /\ machine' = "running" /\ UNCHANGED <<slept, marker>>
  /\ phase' = "begin" /\ current' = "base" /\ outcome' = NoVerdicts /\ record' = "none"
  /\ ses' = "none" /\ shown' = "blank" /\ dead' = FALSE /\ old' = FALSE /\ attached' = FALSE
  /\ UNCHANGED <<able, healthy, row, step, local, did, silent, opened, faults>>

\* run_scenarios begins with a smoke of its own; without it there is no first frame.
Begin ==
  /\ phase = "begin"
  /\ IF Smoke("base") THEN Enter(NextRow(1)) /\ UNCHANGED outcome
     ELSE Enter(NextRow(2)) /\ outcome' = [outcome EXCEPT !["first-frame"] = "failed"]
  /\ UNCHANGED <<fixture, guest, viewer, attached, able, only, current, healthy, record, runs,
                 faults>>

\* scenario_reconnect goes round again after a good cycle, or after a bounded number of
\* handshake glitches.
AtEnd == phase = "run" /\ step = 0
GoesRoundAgain == Scenario = "reconnect-20" /\ ~raised /\   \* mutant: one cycle too many
             (IF failed THEN transient /\ retries < Retries ELSE cycle <= Cycles)
GoesRound == /\ Scenario = "reconnect-20" /\ ~raised
             /\ IF failed THEN transient /\ retries < Retries ELSE cycle < Cycles
RetriedFree == retries' = retries   \* mutant: a retry costs nothing
Retried == retries' = (IF failed THEN retries + 1 ELSE retries)
Again ==
  /\ AtEnd /\ GoesRound /\ step' = 1 /\ failed' = FALSE /\ opened' = FALSE /\ Retried
  /\ UNCHANGED <<fixture, guest, viewer, attached, silent, phase, row, raised, hung, attempt,
                 transient, resumed, cycle, result, did, faults>>

Conclude ==
  /\ AtEnd /\ ~GoesRound /\ ~hung
  /\ outcome' = [outcome EXCEPT ![Scenario] = IF failed THEN "failed" ELSE "passed"]
  /\ Enter(NextRow(row + 1))
  /\ UNCHANGED <<fixture, guest, viewer, attached, able, only, current, healthy, record, runs,
                 faults>>

\* The post-run smoke, at the mode the scenarios are meant to leave.
PostRun ==
  /\ phase = "post" /\ healthy' = Smoke(current) /\ phase' = "versions"
  /\ UNCHANGED <<fixture, guest, viewer, attached, silent, row, step, local, able, only,
                 current, outcome, record, runs, did, opened, faults>>

\* driver.versions: for a guest that does not answer it raises, and no record is written.
Versions ==
  /\ phase = "versions" /\ phase' = "stop"
  /\ record' = IF IsGuest /\ machine # "running" THEN "lost" ELSE record
  /\ UNCHANGED <<fixture, guest, viewer, attached, silent, row, step, local, able, only,
                 current, outcome, healthy, runs, did, opened, faults>>

\* driver.stop, and unless the record is lost fill_record: passed only when nothing is
\* missing.  A container is removed; a guest stays as it is.
CompleteWithout ==   \* mutant: a scenario that was not run is not missing
  /\ healthy /\ \A n \in Names : outcome[n] # "failed"
Complete ==
  /\ healthy /\ "portal" \notin able          \* its portal-revoke cannot be run at all
  /\ \A r \in 1 .. Len(Order) : Order[r].needs # {"portal"} => outcome[Order[r].name] = "passed"
Stop ==
  /\ phase = "stop" /\ phase' = "idle"
  /\ record' = IF record = "lost" THEN "lost" ELSE IF Complete THEN "passed" ELSE "incomplete"
  /\ up' = (up /\ IsGuest) /\ machine' = IF IsGuest THEN machine ELSE "running"
  /\ UNCHANGED <<mode, second, locked, consent, token, granted, events, slept, marker, viewer,
                 attached, silent, row, step, local, able, only, current, outcome, healthy,
                 runs, did, opened, faults>>

Scenarios ==
  \/ \E c \in Connecting : Connect(c) \/ Glitch(c)
  \/ SkipRecover \/ Disconnect \/ AskAlive \/ Resumed \/ AskSize
  \/ \E c \in {"capture", "visible", "hidden"} : Capture(c)
  \/ \E c \in {"lock", "unlock", "plug", "unplug", "small", "base"} : Command(c)
  \/ Detach \/ TypeAndClick \/ Pause \/ Restart \/ Secret \/ WaitIdle \/ SetHighDpi \/ Portal
  \/ Sleep \/ Wake \/ MarkSlept \/ Again \/ Conclude \/ Abandon
Runner == Scenarios \/ Begin \/ PostRun \/ Versions \/ Stop
Next == Start \/ Runner \/ Drop \/ Crash \/ Raise \/ Abort
Spec == Init /\ [][Next]_vars /\ WF_vars(Runner)

(* ------------------------------ properties ------------------------------ *)

\* Whether a pass of the lock can be trusted: a desktop viewer whose session was lost
\* answers that it is alive.
Sure == App \/ "lost" \notin did

\* What really happened in a scenario, for its pass to be worth anything.
Proof(n) ==
  CASE n = "lock"           -> {"frame"} \cup (IF Sure THEN {"lock", "unlocked"} ELSE {})
    [] n = "network-interruption" -> {"frame", "pause"}
    [] n = "input"          -> {"frame", "input"}
    [] n = "monitor-change" -> {"frame", "plug", "unplug"}
    [] n = "resize"         -> {"frame", "small"}
    [] n = "server-restart" -> {"frame", "restarted"}
    [] n = "portal-approve" -> {"frame", "restarted", "Approve"}
    [] n = "portal-deny"    -> {"frame", "restarted", "Deny"}
    [] n = "portal-restore" -> {"frame", "restarted", "Approve"}
    [] n = "suspend-resume" -> {"frame", "slept", "woken"}
    [] OTHER                -> {"frame"}

\* The record's run and its variables keep their ranges; the reconnect loop stays within
\* its cycles and its retries.
TypeOK ==
  /\ able \in Fixtures /\ only \subseteq Names
  /\ up \in BOOLEAN /\ second \in BOOLEAN /\ locked \in BOOLEAN /\ mode \in {"base", "small", "large"}
  /\ consent \in {"approve", "deny", "persist", "none"} /\ token \in BOOLEAN /\ granted \in BOOLEAN
  /\ events \subseteq {"Approve", "Deny"}
  /\ machine \in {"running", "paused", "suspended"} /\ slept \in BOOLEAN /\ marker \in BOOLEAN
  /\ ses \in {"none", "live", "lost", "stale"} /\ shown \in {"blank", "scene"}
  /\ dead \in BOOLEAN /\ old \in BOOLEAN /\ attached \in BOOLEAN
  /\ silent \subseteq Blind \cup {"pause"}
  /\ phase \in {"idle", "begin", "run", "post", "versions", "stop"}
  /\ row \in 1 .. Len(Order) /\ step \in 0 .. Len(Steps)
  /\ failed \in BOOLEAN /\ raised \in BOOLEAN /\ hung \in BOOLEAN /\ attempt \in 1 .. 2 /\ transient \in BOOLEAN
  /\ resumed \in BOOLEAN /\ retries \in 0 .. Retries
  /\ cycle \in Nat /\ (Scenario = "reconnect-20" => cycle <= Cycles)
  /\ current \in {"base", "large"} /\ outcome \in [Names -> {"none", "passed", "failed"}]
  /\ healthy \in BOOLEAN /\ record \in {"none", "lost", "passed", "incomplete"}
  /\ opened \in BOOLEAN /\ faults \in 0 .. Faults /\ runs \in 0 .. Runs

NewlyPassed(n) == outcome'[n] = "passed" /\ outcome[n] # "passed"

\* A scenario passes only when what it is about really happened in it: whatever is lost,
\* late or dismissed on the way, a blank screen is not a lock, a last frame that is shown
\* again is not an unlock, a wait is not a suspend, and twenty reconnects are twenty.  Two
\* scenarios cannot tell whether their commands did anything (a container's pause, a plug
\* and an unplug): these were given, and did what they are for or nothing.
PassedMeansDone ==
  [][\A n \in Names : NewlyPassed(n) =>
       /\ Proof(n) \subseteq did \cup silent
       /\ n = "reconnect-20" => cycle = Cycles]_vars

\* A scenario that passes leaves no session open and the machine running; no lock behind, no
\* output and no mode of its own unless the command that takes it back silently did
\* nothing; and the consent helper approving.
PassedLeavesNothing ==
  [][\A n \in Names : NewlyPassed(n) =>
       /\ ses = "none" /\ machine = "running"
       /\ n = "lock" /\ Sure => ~locked
       /\ n = "monitor-change" => ~second \/ "unplug" \in silent
       /\ n = "resize" => ~attached /\ (mode = "base" \/ "base" \in silent)
       /\ n \in {"portal-approve", "portal-deny", "portal-restore"} => consent = "approve"]_vars

\* A record is "passed" only for a run of every scenario but a portal's, of a fixture that ended up
\* healthy at the mode it was left at and unlocked, and of a machine that really slept.
PassedRecord ==
  record = "passed" /\ phase = "idle" =>
    /\ { Order[r].name : r \in { q \in 1 .. Len(Order) : Order[q].needs # {"portal"} } } \subseteq only
    /\ slept /\ machine = "running" /\ mode = "large" /\ ~locked /\ ~attached

\* A guest that slept is not used for another run, unless its agent never came back to
\* be told so or it slept late: something went wrong.
SpentIsRefused == phase = "begin" /\ slept => faults >= 1

\* How far a run is from its end, the weightiest part first: the faults still to come, what
\* main still has to do, the scenarios left, in the reconnect loop the retries and cycles
\* left, whether the scenario can still pass, and the steps left (a lap begins at step 1).
InLaps == phase = "run" /\ Scenario = "reconnect-20"
Distance == <<
  Faults - faults,
  CASE phase = "begin" -> 4 [] phase = "run" -> 3 [] phase = "post" -> 2 [] phase = "versions" -> 1
    [] OTHER -> 0,
  Len(Order) - row,
  Retries - retries,
  IF InLaps THEN Cycles - cycle ELSE 0,
  IF failed THEN 0 ELSE 1,
  IF step = 0 THEN (IF InLaps THEN 1 ELSE 0)
  ELSE IF InLaps /\ step = 1 THEN 0 ELSE 2 + Len(Steps) - step >>

\* The lexicographic order of two such distances.
Nearer(d, e) == \E i \in 1 .. 7 : d[i] < e[i] /\ \A j \in 1 .. i - 1 : d[j] = e[j]

\* No run goes on for ever: every step taken in it, by the runner, the guest or a fault, is
\* a step towards its end.  The reconnect loop cannot turn without a cycle or a retry used
\* up, a scenario cannot return to a step it took, and no scenario is judged a second time.
RunShrinks ==
  [][phase # "idle" /\ phase' # "idle" =>
       (\A i \in 1 .. 7 : Distance'[i] \in Nat) /\ Nearer(Distance', Distance)]_vars

\* A started run ends, whatever goes wrong in it: no scenario retries for ever.
RunEnds == phase # "idle" ~> phase = "idle"
================================================================================
