# wayland-vnc: verification project

TLA+ modules of wayland-vnc, the TLC configurations that check them, and proofs
that the TLA+ proof system (TLAPS) checks. Paths below are relative to the
repository; `runtime.py` is `src/wayland_vnc/runtime.py`, and so on.

## The system

wayland-vnc turns a Wayland session into a VNC server by driving somebody
else's server: WayVNC on a wlroots compositor, GNOME Remote Desktop on GNOME.
Most of what it does is to keep files, a systemd user unit, a keyring and a
running daemon in agreement while several short processes change them.

| Component | State | Operations | Talks to |
|---|---|---|---|
| Serving runtime, WayVNC path (`runtime.py`, the unit file) | `credentials`, `wayvnc.conf`, `rsa.pem`; the unit and its start count; the running server's config | `serve`, `provision`, `provision_preserving_bind`, `refresh_config`, `restart_service`, `ensure_credentials` | systemd (`systemctl --user`), openssl, WayVNC by `exec` |
| Serving runtime, GNOME path (`runtime.py`) | the credentials file, the stored address, the keyring password, the dconf switch, the unit drop-in (on disk, and as systemd loaded it), the daemon, the owner of port 5900 | `serve_grd`, `_adopt_grd_password`, `ensure_grd_listen_address`, `_require_grd_listener`, `sync_backend_password`, `apply_bind`, `wait_for_backend` | `grdctl`, systemd, `/proc` |
| Settings app (`settings.py`, `settings_app.py`, `settings_dialogs.py`) | one GTK thread: the page and its switches, the banner, the open form, the redraws waiting for an idle; the cached probe | the switches and forms, `report`, `refresh`; below them `set_credential`, `apply_network`, `set_lan_access`, `set_enabled`, `set_active` | the files above, systemd, the backend |
| Setup menu (`tui.py`) | none | `_install`, `_uninstall` | the files above, systemd |
| Command line (`cli.py`) | none | `serve`, `set-password`, `provision`, `setup`, `remove`, `doctor`, `status` | runtime, installer |
| Staging installer (`installer.py`) | package files, their backups, the manifest | `install`, `_rollback_partial`, `uninstall` | the file system |
| Capability probe and backend table (`probe.py`, `backends.py`) | none | read-only probes | `/proc`, D-Bus, the environment |
| Qualification run (`scripts/qualify-desktop.py`, `desktop_scenarios.py`) | the fixture, the viewer's session, the scenario under way, the verdicts | one function per scenario over a driver; `start`, `run_scenarios`, the post-run smoke, `stop` | containers, KVM guests, viewers |
| Evidence (`qualification.py`, `evidence_store.py`, `manual_input.py`, their scripts) | records and artifacts in evidence roots and in the store, `records.json` | the runner's record, `merge_manual_input`, `publish`, `release_errors` | the file system |
| Android viewer lab (`android_viewer.py`) | the last UI dump, typing attempts, learnt pointer gains | `connect`, `desktop_size`, `disconnect`, `click`, `scroll`, `drag` | the app, by adb |
| QEMU guest control (`qemu_guest.py`) | the QMP conversation | suspend and wake | QEMU |
| Native patches (`patches/`, `native/`) | of the patched projects | C code patched into GNOME Remote Desktop and LibVNCServer | VNC clients |
| Others (`hardware.py`, `fixture_smoke.py`, `i18n.py`, packaging, CI) | none that interacts | checks, catalogues, builds | |

### How they interact, and what is hard

The serving runtime is not one process. The service at login, a click in the
settings app, `wayland-vnc set-password` in a
terminal and the setup menu all read and write the same files, and
each of them restarts the same unit or daemon. **There is no lock anywhere.**
So the hard behaviours are these:

* *Interleavings* between one process's read and its later write.
  `provision_preserving_bind` reads the bind and writes it back after it has
  generated a key; `ensure_credentials` and `_adopt_grd_password` write a
  password over one read earlier.
* *Torn files.* `write_private` truncates and then writes. A reader in
  between, or a kill, sees an empty file, and different readers treat "empty"
  and "absent" differently.
* *Kills half way.* A unit restart kills the main process wherever it is, also
  inside openssl; an action's process may end with the session.
* *Caches.* A running server keeps the configuration it loaded, the
  daemon keeps the password its VNC server started with and the address its
  environment started with, systemd keeps the drop-in it last reloaded.
  Every shortcut ("already right, nothing to do") compares one copy and
  concludes about another.
* *Timing outside the program*: the daemon's crash at the end of a session,
  another session's daemon on port 5900, the user in GNOME Settings.
* *The start limit*: manual restarts count against `StartLimitBurst`.
* *One step of several failing*, in the installer, in `serve_grd`, in a scenario
  that must still put back what it changed, and in the window's handlers, each of
  which catches other exceptions.
* *Redraws.* A switch shows its new position before its handler has run, and the
  page that holds it must not be replaced until its signal is over: the redraw is
  deferred, and whatever happens in between must not be shown wrongly for good.
* *An app that moves on* between a UI dump and the tap that answers it, that
  swallows keys, and whose connecting screen looks like an empty desktop, as does a
  dump that failed.
* *Commands of which only an exit status is looked at*, or not even that: a
  `daemon-reload`, a `docker pause`, a mode change, a plug.
* *Evidence that looks alike*: a blank screen is a lock and a lost session, a frame
  shown again is an unlock and a dismissed message, a guest that does not answer
  is asleep and dead.
* *Programs that share evidence files* without a lock: a merge rewrites a record in
  place while a publication copies it, and either may be killed between two writes.

What makes each component correct:

* serving: what is stored is what is enforced, once a change is over; nobody's
  change of one datum moves another; success is reported for this session's
  server and no other;
* installer: an operation happens as a whole or not at all; nothing of the
  user's is lost, whatever happens;
* settings window: when nothing is left to run, it shows what is stored; a page is
  never disposed under its own switch;
* qualification: a scenario passes only if what it is about happened in it, and
  leaves nothing behind; a record passes only for a whole run on a healthy fixture
  that was fit for it; a run always ends;
* evidence: the release gate opens only on runs in which everything was seen, however
  merges, publications and kills interleave, and nothing half done blocks it for ever;
* Android lab: "connected" and "refused" are said only of a desktop and of a server
  that refused; every loop ends; input lands where it is meant to.

`PROJECT.json` lists every hazard with its line and the properties aimed at it.

## Modules

| Module | What it is |
|---|---|
| `WayvncService` | the WayVNC path: files, unit, server, and every process that touches them |
| `WayvncServiceProofs` | its theorems |
| `GrdService` | the GNOME path |
| `GrdServiceProofs` | its theorems |
| `Installer` | the staging installer |
| `AtomicInstaller` | what the installer promises: whole or not at all |
| `InstallerProofs` | its theorems, the refinement among them |
| `SettingsWindow`, `SettingsWindowProofs` | the settings window over the operations of the service; its theorems |
| `Qualification` | one qualification run after another: fixture, viewer, every scenario |
| `QualificationProofs` | its theorems |
| `Evidence` | records, merges, publications and the gate |
| `ReleaseGate` | what the gate promises |
| `EvidenceProofs` | the theorems of `Evidence`, the refinement among them |
| `AndroidViewer` | `connect` and `desktop_size` against the RealVNC app |
| `AndroidPointer` | EXTENDS it: swipes, the learnt gains, clicks and drags in a session |
| `AndroidViewerProofs`, `AndroidPointerProofs` | their theorems |
| `MC...` | the instances TLC checks (model values and symmetry) |

### WayvncService

A process is a client (one click, one CLI run, one menu action) or the unit's
main process `Serve`. `proc[q]` holds its position, its operation and the
locals it still needs: the password it will write and the bind it will write.
Every file access and every `systemctl` call is a step, so all the code's
windows exist in the model. Positions follow the calls:

    set_credential: open_creds write_creds check_creds | read_bind find_key
                    [open_key generate_key] read_creds open_conf write_conf
                    | check_active restart
    set_lan_access: read_bind ... write_conf | check_active restart
    apply_network:  find_key ... write_conf | check_active restart
    provision:      find_key ... write_conf
    menu install:   open_creds write_creds | read_bind ... write_conf | unmask enable
    menu uninstall: disable mask rm_creds rm_conf
    serve:          ensure_creds [open_creds write_creds] read_bind ... write_conf | exec

A file is `Absent`, `Empty` (truncated) or holds a value; the key is absent,
partial or whole. The unit has systemd's states, a mask and a count of the
starts in the current interval; `RunStartJob` is a start or restart job: it kills
the main process wherever it is and starts a new one, unless the unit
is masked or past its limit. WayVNC itself is external: after `exec` it loads
the file *as it is then*.

Three history variables say when the code can keep its promise. `wanted` is
the bind last chosen. `stale` becomes true when a bind is read from a truncated
file or a choice is stored while another process holds a copy of the previous
one: after that the copy may be written back. `unapplied` becomes true when a
change ends without having restarted a unit that has a main process: it was
killed, it failed, it gave up because the config was unreadable, or it is one
of the operations that do not restart (`provision`, the menu's install on an
active unit). No history variable is read by a guard.

### GrdService

The same kind of processes on the GNOME path; a file write is one step here,
because `WayvncService` already has the torn files. The daemon (external, the
private build that can be told its address) is a record of unit state, listen
address and VNC server; `holder` is the owner of port 5900, where `hidden` is an
owner whose process `/proc` does not show. `listener_pid` then answers 0, and
`_grd_main_pid` answers 0 for a daemon that is not there. A pid that was read
becomes `gone` when the daemon restarts. The environment starts and crashes
the daemon, takes the port and gives it back, and changes the password and the switch
in GNOME Settings; `Outside` selects which of these an instance has.

Two answers the code does not have are choices of the model. A keyring that cannot be read
(`grd_password` is `None`: locked, no Secret Service) makes `Adopt` leave the file alone,
with the claim on the password dropped, and makes `Compare` go on to write the keyring, as for
one that differs. What `daemon-reload` returns is not looked at
(`runtime.py:789`): a `Reload` that failed leaves `loaded` as it was and the caller goes
on to restart the daemon with it; the claim on the address is dropped, because a change to
the same address then finds the drop-in right and never repairs it.

`proc[q].chosen` is the password a client's caller gave it; the program has it no longer
once it is stored. It is what `ChosenIsStored` compares with.

`passClaim` and `bindClaim` are history. `sole`: one change is in flight and has
had the password (the address) to itself from its beginning; `stored`: it ended
with file and keyring read and the same; `agreed`: it also restarted the daemon
afterwards. An overlapping change, a failure half way or GNOME Settings end the
claim.

### Installer and AtomicInstaller

`disk`, `backup` and `manifest` are the file system; `proc` is the running
operation with the index of the file at hand and its `backups` list. Each
change of the disk is a step; `InstallFails` is an exception at any step of
`install` and starts `_rollback_partial`; `Stopped` is a kill or Ctrl-C at any
step (`except Exception` does not see it), or an error where no handler
follows. `AtomicInstaller` has `Install`, `Uninstall`, `Edit` and `Tear`. The
refinement mapping shows a half-done installation as its rollback would leave
the tree and a half-done removal as its end will: an installation takes effect
with its manifest, a removal when its checks have passed. `Tear` is possible
only where `Stopped` is: after it nothing is promised about atomicity, but
`NothingLost` still is.

### SettingsWindow

GTK runs every handler to its end on one thread, so `call` is the one handler that
holds it, with what it still has to do: `store`, `apply`, `unit`, `banner`, `page`.
`page` and `banner` are what the widgets show, `idle` how many redraws wait
for the loop, `dialog` the open form. `Store`, `Apply` and `SwitchUnit` are the calls
into `settings.py` with every way they fail; `Failed(caught)` is what the handler
does about it: a switch's error is reported and redrawn, a form shows it in
itself, and an exception that no `except` names ends the call. The page and the
banner are read at two moments, as in `refresh`. `OtherProgram` changes files and
unit behind the window's back at any time. What a credential or a bind does to the server
is not repeated here: that is `WayvncService` and `GrdService`.
`stale` is history: why the window may show something else than is stored.

`Page` has every row that depends on what may change while the window is open: the switches,
what is sensitive, and Status's Service row, which says the unit in words
(`settings_app.py:144`). `_apply_switch` draws nothing when `systemctl` worked
(`settings_app.py:252`), so after a switch that worked the Service row says what the unit was,
until something else causes a redraw; `stale` then has `"service"`. `_page`'s docstring has it
"called again after every change" (`settings_app.py:311`) and `build_window`'s that what is
shown "never drifts from what is on disk" (`settings_app.py:423`); the code does this for the
dialogs and the LAN switch only. `ShownIsStored` therefore claims the Service row when `stale` is
empty, and every other row also after such a switch.

### Qualification

A scenario of `desktop_scenarios.py` is a row of steps, one per driver call, and the
runner goes from step to step: `Step` runs while nothing is wrong, `Always` also
after a check failed, `Finally` also after a call raised. `After` is that control flow:
early returns and `finally` blocks of fifteen Python functions in one operator.
`Order` is `run_scenarios`' order with what each scenario needs of the fixture.
Driver calls are actions (`Connect`, `Pause`, `Command`, `Secret`, `Sleep`, ...): they
change the fixture, the viewer's session and the guest, and may find nothing, fail
unnoticed, raise (`Raise`, where `OSError` or `ValueError` is caught) or not come back
(`Raise` with `hung`: `TimeoutExpired`, which no scenario catches). Either way Python runs the
scenario's `finally` block, whose own error takes the place of the first; a hang that is left at
the end reaches `main` (`Abandon`), which stops the fixture and writes no record. `Abort` is a
hang between the scenarios. `Drop` and `Crash` are the server and the compositor.

A viewer shows the scene, nothing, or, when the message of a lost connection was dismissed,
the last frame once more. What `alive` answers depends on the viewer, and so on the fixture
("app"): the Android app reads its screen and remembers in `dead` that it once called its
session closed; a desktop viewer, on the host or in its container, only has to be
running, as it is with its message up, and remembers nothing. A glitch in the handshake
disconnects before the second try, as `connect_and_capture` does.

A mode change, a plug and an unplug have only their exit status looked at, `docker pause` not even
that. The model lets each of them do nothing: `silent` is the history of those that no later
step of the scenario can tell from the ones that worked (the pause, `plug`, `unplug` and the
mode that is put back); a lock, an unlock or a small mode that did nothing shows in a capture
or in the size. `did` is history too: what really happened in the scenario under way.
`PassedMeansDone` asks for what a scenario is about in `did`, or in `silent` where the program
cannot know. It asks nothing but a frame of the lock of a desktop viewer that lost its session
(`Sure`): `alive` answers TRUE there, and the last frame of a dismissed message passes for an
unlock, although the comment (`desktop_scenarios.py:531`) says "Only a session that is still
up counts as locked, and as unlocked". TLC reaches that state.

A container is new in every run; a guest is as the last run left it. Keyboard, pointer, scroll
and drag are one row of the record here, `input`, and one step of the model.

### Evidence and ReleaseGate

A file is its content, and its hash too. `Qualify` is the runner, which writes the record
last; a merge is a program with three writes in place; a publication copies file after
file of records it loaded at its beginning, and writes `records.json` at its end; the
gate reads the store. A kill leaves the file being written half done. `truth` and
`sound` are history: what was really seen in a run, and that it was of this commit and its
fixture stayed healthy. `ReleaseGate` has only proven runs and a verdict; the
refinement maps `proven` to the runs in which everything was seen and that are
sound, so a verdict `qualified` without one of every pair would be no step of it.
`--include-incomplete` is off: the release workflow does not pass it. Three writes are atomic here
that are not on a disk: `Qualify` (the runner writes its record last, so a killed run leaves
artifacts without a record), `PublishRecord` (one record's copy) and `PublishList`: a kill
within the write of `records.json` leaves a file that does not parse, and the gate closed.

### AndroidViewer and AndroidPointer

The app is a screen on top (`view`), the screens it will still show (`todo`), a
keyboard that hides everything from a dump, fields, a toolbar and the analytics box.
`pc` is the program's place; `seen` is its last UI dump, all it knows. A
tap answers the dump, and does what it does to the app as it is *now*.
`connect` is `Look`, then one of six `Answer` actions; `EnterCredentials` is the typing
with its attempts and its Back presses; `OpenInfo` to `AwaitInfo` are
`desktop_size`. `faults` counts what went wrong in the app, the server or a dump.

A dump may fail, or have an empty hierarchy for a moment (`android_viewer.py:266`, 667): it
has no node, so it counts as quiet, hides a sheet or a dialog that came up behind it, reads as
a keyboard that is down, and as an information screen that is gone. Each is a fault
(`Missing`). The connecting screen may be dumped `Late` times without one; it may stay longer,
and then each further dump is a fault. So `ConnectedIsHonest` has no assumption on how long
it stays: the price of a false "connected" is `QuietDumps - Late` faults, or the faults that keep a
keyboard over the sheet (`Kept`). Nothing keeps `Late` below `QuietDumps`; where it is not, the
formula says that it claims nothing. Either of the two taps that answer the last first-run page may
be lost, as a fault: a lost tap on the analytics box is what `AnalyticsDeclined` excepts. The
two taps follow each other without an event of the app's in between. The input method
service's report goes down with the keyboard; it may deny a keyboard that is up (`Deny`), but not
report one that is gone.

`AndroidPointer` has the pointer in pixels, with Python's rounding, and the app's real
acceleration as a constant of the behaviour that the program does not know. `sight` is what the
fixture's file says (`_pointer`, `qualify-desktop.py:966`): it follows the pointer when it moves, or
late (`Stale`, `Report`), and a read of it may fail at any time (`Provoke`, `After`, `StepBack`,
`GiveUp`), which sends one more short swipe, teaches nothing, or falls back on `current`. If the
one event that should have brought it up to date was lost, it stays wrong for as long as nothing
moves: `Report` may never happen. `blurs` counts all these. `Unseen` is a session without a report yet;
not in the far corner, where the swipe that should provoke one cannot move the pointer.
`PlacementConverges`: a placement only fails under something other than the desktop, or in a session
with a late report or a failed read. With one it may really fail: a gain learnt from a late report is
one the app does not have. `SwipeInZone` holds with them all.

## Runs

Runs that pass:

| Run | Instance | Checks |
|---|---|---|
| `wayvnc_concurrent` | 2 clients and the service, every kind of client operation but `apply_network` (its steps are `set_lan_access`'s without the read), 2 passwords, 1 port, `StartLimitBurst = 1`, kills | `TypeOK`, `BindKept`, `InForce` |
| `grd_concurrent` | 2 clients and the service, password and network changes, failing commands, kills, daemon crashes, GNOME Settings' password | `TypeOK`, `PasswordAgrees`, `ListensWhereChosen` |
| `grd_port` | 1 client and the service, every operation, every outside event, failures | `PasswordAgrees`, `SuccessIsOurs` |
| `installer_atomic` | 3 files, 2 user contents, edits, failures, kills, any number of operations | `TypeOK`, `NothingLost`, `Transactional` |
| `settings_window` | 3 kinds of host, 2 addresses, every handler, its errors, 1 change by another program | `TypeOK`, `NeverUnderItself`, `ShownIsStored`, `PutBack` |
| `qualification` | a portal container, a container with the lab's viewer, a guest with the app; 2 runs on the same guest, 2 things that go wrong anywhere, commands that silently do nothing, all scenarios or one | `TypeOK`, `PassedRecord`, `SpentIsRefused`, `PassedMeansDone`, `PassedLeavesNothing`, `RunShrinks`, `RunEnds` |
| `evidence` | 2 pairs, 3 runs on 2 machines, 2 merges, 2 publications, 1 kill | `TypeOK`, `GateSpec`, `MergeHeals`, `PublishHeals` |
| `android_connect` | 3 kinds of app, 3 faults; apart from that, input with the program's own pixels, 5 accelerations and 1 late report or failed read | `TypeOK`, `ConnectedIsHonest`, `RefusalNeedsFaults`, `InfoClosed`, `AtMostOneStray`, `AnalyticsDeclined`, `SheetNotCancelled`, `ComesBack`, `SwipeInZone`, `PlacementConverges` |

Runs in which TLC finds what the source says to be violated by what it does
(the quotations are in `PROJECT.json`, "findings"):

| Run | What happens |
|---|---|
| `wayvnc_lost_bind` | a service start writes back the bind it read before the user's switch |
| `grd_lost_change` | a change stores its password, a starting service adopts the old one of the keyring over it, and the change returns success with the old one stored |
| `installer_retry` | an installation stopped and repeated overwrites the backup of the user's file |
| `settings_silent` | a LAN switch whose command hangs stays where the bind is not: the exception is none that the handler names, so nothing is redrawn |

Other things the code does not promise are conditions in the properties that pass, and
the models contain the behaviours; they have no run of their own:

* a password change that finds the config truncated by a starting service gives
  up, and that service runs with the old password (`unapplied` in `WayvncService`);
* a key generator killed half way leaves a `rsa.pem` that counts as a key for ever
  (`runtime.py:173`; `key = "partial"`);
* a password change that finds the keyring up to date returns although the daemon
  enforces another (`runtime.py:526`; `passClaim`);
* a network change repeated after its restart failed finds the drop-in up to date and
  restarts nothing (`runtime.py:783`; `bindClaim`);
* a `daemon-reload` that failed leaves the daemon on the old address for good (`runtime.py:789`;
  `bindClaim`);
* the Service row of the window is not redrawn after a switch that worked
  (`settings_app.py:252`; `stale`);
* a desktop viewer that lost its session passes the lock (`Sure`);
* a guest that slept is marked only when its agent came back
  (`scripts/qualify-desktop.py:869`): `SpentIsRefused` therefore says "unless something
  went wrong". The state has this guest unmarked and running again.

### Bounds, and why they are enough

* Two clients and the service: every property is about one change against one
  other writer and the service; the proofs of both service modules are for any
  number. A client performs one operation; a second change is the second client.
* Two passwords, of which one is the one `ensure_credentials` would generate: old
  and new are what the properties tell apart. Two addresses are all there are.
  One port in the checked instances; the proofs are for any set of ports.
* `StartLimitBurst = 1` instead of 3: a start, the refused one after it, and, since the
  interval may pass at any time, a start after that; the proofs are for any limit.
* Three installed files: the package has two, three give a first, a middle and
  a last; the proofs are for any number. Two user contents: the original and an edit.
* The violation runs use the smallest instance that shows the behaviour and,
  where kills are not what they are about, exclude them.

* `settings_window`: one host per branch of `LanOption` and of the error
  handling; two redraws waiting (`Pending`) let a second switch be moved before the
  first redraw; one outside change (`Changes`) is enough, as the property promises
  nothing after it until a redraw.
* `qualification`: `Cycles = 2` for the code's 20 and `Retries = 1` for its 3: a first, a last and
  a repeated cycle. Two faults: one in a scenario and one while it cleans up, or one in
  either run. A retried cycle takes two of them (a glitch in each of its two tries), so TLC sees the
  last retry used up but not the next one refused; that the loop does not turn without a cycle or a
  retry used up is `RunShrinks`, checked here and proved for any numbers. Two runs, because what a run leaves matters for the
  next one only. The three fixtures need every scenario between them and have each kind of viewer.
* `evidence`: two pairs make "missing" and "duplicate" possible; the third run is the first
  pair's on another machine. Two merges into the same run and two publications are
  what can overlap and repeat; the proofs are for any number. One kill, at any write.
* `android_connect`: `QuietDumps = 3` for 4, `Late = 1`, `Attempts = Backs = 2` for
  3, `Dumps = 2`; the proofs are for any numbers. Three faults
  exceed what each property forgives. The paths are a fresh app, a used one
  and one with a dialog nobody planned for; between them they show every screen.
  Pixels, tolerance, tries and the gain clamp are the code's; the app's gains are the four corners
  of what `DeviceAssumption` allows and one near the program's first estimates, the pointer starts
  in two corners and the middle. Two placements: the second one starts with learnt gains. One late
  report or failed read (`Blurs`): it can meet every step.

Bounds that are guards: `Changes`, `Pending` (SettingsWindow), `Runs`, `Faults`
(Qualification), `Merges`, `Publications`, `Kills`, `Attended` (Evidence), `Faults`, `Late`,
`Placements`, `Blurs` (Android). In the service and installer modules no counter is capped: the
start count is bounded by the limit itself.

### Deadlock and fairness

Deadlock is checked in the GNOME, installer, evidence and settings window runs.
`Wayvnc*.cfg` turn it off: once the clients have finished, a masked unit cannot be started by
anybody and the system stops. So do `AndroidConnect.cfg` and `Qualification.cfg`: when the
last run is over, or the last placement, there is nothing left to do. `SettingsSilent.cfg`
asks one question only.

Three modules state fairness, and a liveness property under it:

* `SettingsWindow`, `PutBack`: a switch that shows something else than is stored is put back.
  `WF(Handler)`: every command a handler runs has a timeout in `settings.py`, so a
  handler goes on. `SF(RunIdle)`: a person may keep clicking, but between two clicks the
  loop is idle again and again, and an idle source then runs.
* `Qualification`, `RunEnds`: a started run ends. `WF(Runner)`: every driver call has a
  timeout. That is all; crashes, drops and aborts are not fair, they need not happen.
* `AndroidPointer`, `ComesBack`: `connect` and `desktop_size` return. `WF` of the program's
  own steps and `SF(Expire)`: the deadline comes. It is strong because `connect` looks at the
  clock only at the head of its loop: it is possible again and again, not continuously. Nothing
  is assumed of the app: it need never show another screen.

The service modules and the installer have safety properties only: nothing is claimed about
what eventually happens there.

## Proofs

Assumptions are the named `ASSUME`s of the modules: what the constants are and
that marks such as `Absent` are not values. One says more: `DeviceAssumption` of
`AndroidPointer`, on which `PlacementsConverge` alone rests. It has the program's own
numbers (screen, safe zone, tolerance, `FastAbove`, `SlowMin`, the first and the extreme
gains; of the 14 tries it takes at least ten), and the device they were chosen for: the
app's fast gain is between 1/2 and 5/2 and its slow gain between 1/4 and 1, the
pointer starts anywhere on the screen, and the targets are in the box the scenarios aim
at. The code states no such ranges: they reach from less than half its first estimates (6/5
and 3/5) to more than one and a half times these, and they are narrower than the clamp of a learnt
gain (1/5 to 4 at both speeds), which is what the code allows an estimate to become. Outside them
nothing is claimed.

* `WayvncServiceProofs!TypeCorrect`: `Spec => []TypeOK`.
* `WayvncServiceProofs!BindIsKept`: `Spec => []BindKept`. `BindKept` is not
  inductive: a process may be about to write a bind. `BindInv` adds that, while
  `~stale`, every process that holds a copy (`Copies`) holds `wanted`, with the port,
  and for the switch its own address. Writing a copy then keeps `wanted`;
  choosing while a copy exists sets `stale`.
* `WayvncServiceProofs!StoredIsInForce`: `Spec => []InForce`. `ForceInv` follows
  a change from its write to its restart: whatever the files hold that a serving
  process does not, some client still at work carries to the restart, or
  `unapplied` says that one ended without it.
* `InstallerProofs!TypeCorrect`, from `ShapeInv`: which files are written or
  removed at each position, and that a listed backup is there.
* `InstallerProofs!NothingIsLost`: `Spec => []NothingLost`, from `KeepInv`.
  `NothingLost` is not inductive, because moving a file aside destroys what the backup
  held, and deleting the backup directory destroys what is left in it. `Fresh`
  adds that every backup is on the list of the manifest or of the operation at
  work, unless an installation began over leftovers.
* `InstallerProofs!ImplementsAtomic`: `Spec => Transactional`, for every number of
  files: initial states map to initial states, and every step, from `ShapeInv`, to
  a step of `AtomicInstaller` or to no change.

* `GrdServiceProofs!TypeCorrect`: `Spec => []TypeOK`.
* `GrdServiceProofs!SuccessNeedsTheServer`: `Spec => SuccessIsOurs`, from `OwnerInv`:
  the port is ours only while the daemon's VNC server is up, the pid `serve` holds is
  current only while the daemon is active, and `serve` never waits for the pid 0.
* `GrdServiceProofs!PasswordsAgree`: `Spec => []PasswordAgrees`, from `PassInv`, which
  says for a claim what each process on the password's path holds: while it is
  `sole` only one process is on that path; whoever will write a password writes
  the one in the file; and after a change a service start carries that password.
* `GrdServiceProofs!AddressIsChosen`: `Spec => []ListensWhereChosen`, from `BindInv`,
  which follows the address from `wayvnc.conf` to the drop-in, to systemd and to
  the daemon. It needs that a `sole` claim belongs to a client still at work: a
  service start then cannot be the one that applies it.

In these proofs one lemma per invariant (`OwnerQuiet`, `PassQuiet`, `BindQuiet`) treats
every step that does not touch its subject; only the other steps have cases.

* `SettingsWindowProofs`: `TypeCorrect`, `RedrawnFromOutside` (`NeverUnderItself`) and
  `WindowIsHonest` (`ShownIsStored`), from `IInv`: `CallShape` says which handler may be
  at which step for which widget, and `Drawn` says that whatever the page or the banner does not
  show as stored either has a redraw waiting or under way, or is in `stale`; the Service row has an
  entry of its own there.
* `EvidenceProofs`: `TypeCorrect`; `MergeIsWhole` (`MergeHeals`), an action property; and
  `GateIsHonest`, `Spec => GateSpec`, for any set of runs, pairs and roots and any number of
  merges, publications and kills. `IInv` has `AllBacked`: every record, in the roots,
  loaded by a publication, or in the store, claims only what was seen in its run, whatever
  its files are; `MergeBacked` the same for the record a merge will write. `GateOpensOnProof`
  then turns an empty list of errors into a proven run of every pair. `PublicationOpens`
  (`PublishHeals`) needs one invariant more, `Faithful`: while nothing changed its root,
  what a publication has copied so far is what the root holds. It then counts the
  records of a pair in the store, which takes that there are finitely many runs.
* `AndroidViewerProofs`: `TypeCorrect`, `ConnectIsHonest`, `RefusalIsPaid`, `InfoIsClosed`,
  `OneStray`, and the action properties `AnalyticsOff` and `SheetIsKept`, for any bounds and any
  paths. `IInv` has one part per hazard: `Screens` (which screens can still come when),
  `Answering`, `Typing` (what every failed attempt and every Back cost in faults),
  `Refusing`, `Quietly` (quiet dumps that saw no desktop, against those the connecting screen had
  free and the faults paid for the rest), `Visiting`.
* `AndroidPointerProofs!SwipesStayInZone`: `LabSpec => []SwipeInZone`, for any safe zone a
  slow swipe fits into and any gains that are fractions. The difficulty is arithmetic:
  `Round` is bounded on both sides, so a distance that is scaled down to the swipe length of
  its speed is not longer after rounding, and the swipe's start is chosen so
  that its end is inside (`CommandedFits`, `SwipeFits`). Only `ZoneAssumption` is used.
* `AndroidPointerProofs!PlacementsConverge`: `LabSpec => []PlacementConverges`, under
  `DeviceAssumption`: whatever gains the app has in that range, wherever the pointer starts, and
  whatever earlier placements have learnt, while no report is late and no read fails. The program corrects an estimate from what it saw
  the pointer do, and the screen's edge, the rounding and the clamp all distort what it
  sees; that nothing makes it go back and forth until the tries are used up is the question. The
  argument counts the tries that can be needed. A fast swipe that the edge stops teaches a gain
  larger than the one before by a factor that allows at most two such swipes; one that
  is not stopped teaches the app's gain, up to a pixel's rounding. With that gain each swipe
  takes half the safe zone off the distance or ends within 41 pixels, where the moves are
  slow: the first teaches the slow gain, the next ends within seven pixels and one more
  within one, which the tolerance of six accepts. The inductive invariant is `InFront`: while
  the desktop is in front, the tries left suffice for the distance and for what the gains
  are known to be (`Enough`); between the two swipes of a move finer than one swipe the same
  holds of where the second one will end (`Halfway`). `Converging` has what each learnt
  gain can be.
* `QualificationProofs`: `TypeCorrect`, `RecordIsWhole` (`PassedRecord`), `SpentRefused`
  (`SpentIsRefused`), and the action properties `PassMeansDone`, `PassLeavesNothing` and
  `EveryRunShrinks` (`RunShrinks`), for any number of cycles, retries, runs and faults. The verdict is given at the end of a scenario
  about calls made long before, any of which may have been left out, repeated
  or undone: none of these properties is inductive. So `IInv` is stated by position in the
  scenario's steps: `Done`, every step that is over has ensured what its call ensures
  for good (`Ensured`), and `Kept`, what it ensures until some calls spoil it (`Effect`,
  `Spoils`) holds unless one of them came since; the rows whose steps depend on each
  other (lock, monitor, denial, restoring, resize, resumption, counting) have a conjunct of
  their own. What a command ensures is that it is in `did` or in `silent`. `Advance` proves once that a scenario that goes on without
  failing keeps `Done` and `Kept`, if its call did what it says (`Met`) and spoilt nothing it
  may not (`Keeps`); each action then only has to show these two. `Concluding` reads
  the two off at the last step, with what `TableHolds` and `Places` say of the fifteen rows.
  `SelectionsAssumption`: a selection is one of scenarios that exist. `RunShrinks` is
  the part of `RunEnds` that is no liveness: `Distance`, seven numbers compared
  lexicographically, is smaller after every step of a run, whoever takes it. What it adds to
  `IInv` is the order of things: that no counter passes its bound, that a lap of the
  reconnect loop costs a cycle or a retry, and that a run visits its scenarios in order.
  `RunEnds` then rests on nothing but that the runner takes its steps.

Every inductive invariant was model-checked before it was proved.

Every safety invariant and action property of the passing runs is a theorem. Only
model-checked: the liveness properties `PutBack`, `RunEnds` and `ComesBack`, the absence of
deadlock, and the refutation of the properties that are violated. Liveness and `ENABLED` are
outside this prover's reach.

## Not modelled, and why

* The probe and the backend table only read; the modules fix their answer.
* GTK widgets, curses, wording, toasts, the diagnostics and about dialogs, `doctor`'s
  report: no state that others see. The window's cached probe is fixed: a host
  does not change its backend while the window is open.
* `ensure_grd_restart_tolerance` only widens the start limit of the daemon's unit, and
  `GrdService` lets the daemon's start fail at any time.
* In `GrdService`: torn files, the stock daemon that cannot be told its
  address, and polling intervals (a wait may end with any answer a poll can give).
* In `Installer`: two operations at once (nothing locks the tree), directories, modes,
  symlinks, and manifests that this program did not write.
* In `Qualification`: a second output in a passed record (an unplug that silently did nothing); the
  four inputs apart from each other; how a capture is recognised as the scene (`image_evidence.py`): a Boolean;
  versions, sizes and timings in the record; `portal-revoke`, which the code never runs; the
  QMP and agent exchanges under suspend and pause, which succeed or raise.
* In `Evidence`: two merges or two publications at the same time; validation of the
  record's format; `publish` lists only its own root's records in `records.json`, where
  `docs/evidence-store.md:18` has the store hold all: the model does as the code does.
* In the Android modules: pinching, the version probe, the drag's path (unlike a swipe it is
  not clamped to the safe zone, `android_viewer.py:802`), and input while the app
  is being connected: `AndroidPointer` starts from a session that is up.
* The native patches are diffs against two C projects whose source is not in the
  repository. Most of what their functions do is outside the diff, so no faithful action
  can be written from them.
* `hardware.py`, `fixture_smoke.py`, `i18n.py`, packaging, CI and the settings app's end-to-end
  driver: checks, builds and tests without state that others share.

## Plan

1. Done: the service modules, the installer, and their proofs.
2. Done: the settings window, the qualification run, the evidence with its gate, the Android lab,
   and their proofs.
3. Done: a theorem for every safety invariant and action property that a run checks, the last ones
   `RunShrinks` and `PlacementConverges`.
4. Left: the placement's convergence for slow gains above 1 and for other screens; liveness for
   the service modules (with fairness for the processes' own steps and for
   systemd's restarts, every change ends); two installer operations at once; two merges at
   once; pinching and the pointer before the session is up.
