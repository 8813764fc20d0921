----------------------------- MODULE GrdService -----------------------------
(***************************************************************************)
(* The serving path on a GNOME desktop.  There `wayland-vnc serve` serves  *)
(* nothing itself: it configures gnome-remote-desktop, makes sure that     *)
(* this session's daemon owns port 5900, and returns.  The password then   *)
(* lives in three places (our credentials file, the keyring, the running   *)
(* daemon), the address in four (wayvnc.conf, the unit drop-in, the        *)
(* drop-in as systemd loaded it, the running daemon), and serve, the       *)
(* settings app, the command line and GNOME's own Settings all write them. *)
(*                                                                         *)
(* Processes interleave between every file access and every command.  Each *)
(* write of a file is one step here (WayvncService splits them), and the   *)
(* daemon is the private build, the one that can be told where to listen.  *)
(***************************************************************************)
EXTENDS Naturals

CONSTANTS
    Clients,            \* one-shot invocations: a click, a CLI run
    Serve,              \* the main process of wayland-vnc.service
    Passwords,          \* passwords the Credentials rules accept
    Foreign,            \* one GNOME accepts and those rules reject
    Generated,          \* what ensure_credentials draws
    Absent,             \* no file, no keyring entry, no server
    Ops,                \* the operations the clients perform in this instance
    Outside,            \* what happens around the program in this instance
    MayFail             \* whether commands may fail and processes be killed

Loopback == "127.0.0.1"
Lan == "0.0.0.0"
Addresses == {Loopback, Lan}
ClientOps == {"set_credential", "apply_network", "provision"}
OutsideEvents == {"settings_password", "settings_toggle", "impostor", "crash"}
Procs == Clients \cup {Serve}

ASSUME ServeAssumption == Serve \notin Clients
ASSUME PasswordAssumption ==
    /\ Generated \in Passwords
    /\ Foreign \notin Passwords \cup {Absent} /\ Absent \notin Passwords
ASSUME AddressAssumption == Absent \notin Addresses
ASSUME InstanceAssumption ==
    Ops \subseteq ClientOps /\ Outside \subseteq OutsideEvents /\ MayFail \in BOOLEAN

VARIABLES
    creds,    \* the password in our credentials file
    conf,     \* the address in wayvnc.conf
    keyring,  \* the password GNOME Remote Desktop keeps in the login keyring
    enabled,  \* the dconf key that turns its VNC backend on
    dropin,   \* the address in 15-wayland-vnc-listen.conf
    loaded,   \* that drop-in as systemd last loaded it
    daemon,   \* gnome-remote-desktop: unit state, listen address, VNC server
    holder,   \* who listens on port 5900
    proc,     \* per process: position and the locals still needed
    served,   \* wayland-vnc.service after its main process ended
    passClaim, bindClaim \* history: who can still answer for a change

stored == <<creds, conf, keyring, enabled, dropin, loaded>>
outer == <<daemon, holder>>
claims == <<passClaim, bindClaim>>
vars == <<creds, conf, keyring, enabled, dropin, loaded, daemon, holder, proc,
          served, passClaim, bindClaim>>

SeedPath == {"query", "enable", "configure", "seed", "adopt"}
BindPath == {"read_bind", "check_dropin", "write_dropin", "reload", "bounce_bind"}
Positions == SeedPath \cup BindPath \cup
    {"idle", "over", "failed", "ensure", "verb", "owner", "wait", "look", "wait_free",
     "again", "owner_again", "wait_again", "compare", "push",
     "bounce_password", "settle", "settle_again"}
Process == [pc : Positions, op : ClientOps \cup {"serve", "none"},
            chosen : Passwords \cup {Absent},   \* what set_credential's caller asked for
            pass : Passwords \cup {Absent}, addr : Addresses,
            owner : {"zero", "current", "gone"}]
Idle == [pc |-> "idle", op |-> "none", chosen |-> Absent, pass |-> Absent, addr |-> Loopback,
         owner |-> "zero"]
Daemon == [state : {"inactive", "active", "failed"}, addr : Addresses,
           vnc : {"off", "up", "blocked"}, pass : Passwords \cup {Foreign, Absent}]
Off(s) == [state |-> s, addr |-> Loopback, vnc |-> "off", pass |-> Absent]
Claim == {"none", "sole", "stored", "agreed"}

TypeOK ==
    /\ creds \in Passwords \cup {Absent}
    /\ conf \in Addresses \cup {Absent}
    /\ keyring \in Passwords \cup {Foreign, Absent}
    /\ enabled \in BOOLEAN
    /\ {dropin, loaded} \subseteq Addresses \cup {Absent}
    /\ daemon \in Daemon
    /\ holder \in {"none", "ours", "hidden", "other"}
    /\ proc \in [Procs -> Process]
    /\ served \in {"stopped", "running", "active"}
    /\ passClaim \in Claim /\ bindClaim \in Claim

(* Login: an account on which nothing was configured, or one on which the  *)
(* user had set GNOME's VNC up before this package was there.              *)
Init ==
    /\ creds = Absent /\ conf = Absent /\ dropin = Absent /\ loaded = Absent
    /\ \/ keyring = Absent /\ enabled = FALSE
       \/ keyring \in Passwords \cup {Foreign} /\ enabled = TRUE
    /\ daemon = Off("inactive") /\ holder = "none"
    /\ proc = [q \in Procs |-> Idle]
    /\ served = "stopped"
    /\ passClaim = "none" /\ bindClaim = "none"

Over(q) == proc[q].pc \in {"idle", "over", "failed"}
Goto(q, l) == proc' = [proc EXCEPT ![q].pc = l]
Ended(q) == IF q = Serve THEN Idle ELSE [Idle EXCEPT !.pc = "over"]
End(q) == proc' = [proc EXCEPT ![q] = Ended(q)]

(* History: passClaim and bindClaim.  "sole": one change is in flight and   *)
(* has had the password (the address) to itself since it began; "stored":  *)
(* it ended with the file and the keyring the same; "agreed": the daemon   *)
(* was made to use it as well.  Anything that overlaps a change, changes   *)
(* the same thing from outside, or stops it half way, ends the claim.      *)
ChangesPass(q) ==
    proc[q].pc \in SeedPath \cup {"compare", "push", "bounce_password"}
ChangesBind(q) ==
    proc[q].pc \in BindPath \/ (q = Serve /\ proc[q].pc = "verb")
PassAlone(q) == \A r \in Procs \ {q} : ~ChangesPass(r)
BindAlone(q) == \A r \in Procs \ {q} : ~ChangesBind(r)
Dropped(claim) == IF claim = "sole" THEN "none" ELSE claim
Passed(claim, level) == IF claim = "sole" THEN level ELSE claim

-----------------------------------------------------------------------------
(* gnome-remote-desktop (external), as runtime.py describes it: the listen *)
(* address is in its environment from the start; its VNC server reads the  *)
(* password when it starts and caches it; a bind that fails is not retried.*)

ListenAddress == IF loaded = Absent THEN Loopback ELSE loaded
Launched == [Off("active") EXCEPT !.addr = ListenAddress]
Released == IF holder = "ours" THEN "none" ELSE holder

(* A pid somebody read is the pid of a process that is no longer there.    *)
Forgotten(f) ==
    [q \in Procs |->
        IF f[q].owner = "current" THEN [f[q] EXCEPT !.owner = "gone"] ELSE f[q]]

(* systemd starts or restarts the daemon for the step that leaves f behind.*)
Launch(f) ==
    daemon' = Launched /\ holder' = Released /\ proc' = Forgotten(f)
LaunchFails(f) ==
    /\ daemon' = Off("failed") /\ holder' = Released /\ proc' = Forgotten(f)

DaemonStarts ==
    /\ daemon.state = "inactive"
    /\ Launch(proc)
    /\ UNCHANGED <<stored, served, claims>>

VncStarts ==
    /\ daemon.state = "active" /\ daemon.vnc = "off" /\ enabled
    /\ IF holder = "none"
       THEN daemon' = [daemon EXCEPT !.vnc = "up", !.pass = keyring] /\ holder' = "ours"
       ELSE daemon' = [daemon EXCEPT !.vnc = "blocked"] /\ UNCHANGED holder
    /\ UNCHANGED <<stored, proc, served, claims>>

(* A session ends and takes the daemon with it; systemd restarts it, or    *)
(* gives up when it crashed too often.                                     *)
DaemonCrashes ==
    /\ "crash" \in Outside /\ daemon.state = "active"
    /\ \E s \in {"inactive", "failed"} : daemon' = Off(s)
    /\ holder' = Released /\ proc' = Forgotten(proc)
    /\ UNCHANGED <<stored, served, claims>>

(* Another session's daemon takes the port, and leaves it. *)
ImpostorComes ==
    /\ "impostor" \in Outside /\ holder = "none"
    /\ holder' \in {"hidden", "other"}
    /\ UNCHANGED <<stored, daemon, proc, served, claims>>
ImpostorGoes ==
    /\ holder \in {"hidden", "other"}
    /\ holder' = "none"
    /\ UNCHANGED <<stored, daemon, proc, served, claims>>

(* The user, in GNOME Settings.  Turning VNC off stops the VNC server.     *)
SettingsPassword ==
    /\ "settings_password" \in Outside
    /\ keyring' \in Passwords \cup {Foreign}
    /\ passClaim' = "none"
    /\ UNCHANGED <<creds, conf, enabled, dropin, loaded, outer, proc, served, bindClaim>>
SettingsToggle ==
    /\ "settings_toggle" \in Outside
    /\ enabled' = ~enabled
    /\ IF enabled
       THEN daemon' = [daemon EXCEPT !.vnc = "off", !.pass = Absent] /\ holder' = Released
       ELSE UNCHANGED outer
    /\ passClaim' = "none"
    /\ UNCHANGED <<creds, conf, keyring, dropin, loaded, proc, served, bindClaim>>

-----------------------------------------------------------------------------
(* wayland-vnc.service. *)

(* The end of q that is not success: it is killed, a command it ran failed *)
(* or it gives up.  systemd restarts the service, the client reports it.   *)
Broken(q) == IF q = Serve THEN Idle ELSE [Idle EXCEPT !.pc = "failed"]
Drops(q, s) ==
    /\ served' = s
    /\ passClaim' = IF ChangesPass(q) THEN Dropped(passClaim) ELSE passClaim
    /\ bindClaim' = IF ChangesBind(q) THEN Dropped(bindClaim) ELSE bindClaim
Ends(q, s) == proc' = [proc EXCEPT ![q] = Broken(q)] /\ Drops(q, s)
Status(q) == IF q = Serve THEN "stopped" ELSE served
Raise(q) == Ends(q, Status(q))
Fails(q) ==
    /\ MayFail /\ ~Over(q)
    /\ Raise(q)
    /\ UNCHANGED <<stored, outer>>

(* Login, systemd's restart, and logout.                                   *)
ServeStarts ==
    /\ served = "stopped"
    /\ served' = "running"
    /\ proc' = [proc EXCEPT ![Serve] = [Idle EXCEPT !.pc = "ensure", !.op = "serve"]]
    /\ UNCHANGED <<stored, outer, claims>>
ServeStops ==
    /\ served # "stopped"
    /\ Ends(Serve, "stopped")
    /\ UNCHANGED <<stored, outer>>

(* serve: the stored credential, or a generated one.                       *)
EnsureCredentials ==
    /\ proc[Serve].pc = "ensure"
    /\ creds' = IF creds = Absent THEN Generated ELSE creds
    /\ proc' = [proc EXCEPT ![Serve].pc = "query", ![Serve].pass = creds']
    /\ passClaim' = IF ~PassAlone(Serve) THEN "none"
                    ELSE IF passClaim = "none" THEN "sole" ELSE passClaim
    /\ UNCHANGED <<conf, keyring, enabled, dropin, loaded, outer, served, bindClaim>>

QueryEnabled ==
    /\ proc[Serve].pc = "query"
    /\ Goto(Serve, IF enabled THEN "adopt" ELSE "enable")
    /\ UNCHANGED <<stored, outer, served, claims>>
Enable ==
    /\ proc[Serve].pc = "enable"
    /\ enabled' = TRUE
    /\ Goto(Serve, "configure")
    /\ UNCHANGED <<creds, conf, keyring, dropin, loaded, outer, served, claims>>
(* set-auth-method and disable-view-only.                                  *)
Configure ==
    /\ proc[Serve].pc = "configure"
    /\ Goto(Serve, "seed")
    /\ UNCHANGED <<stored, outer, served, claims>>

(* On to the bind, which somebody else may be changing.                    *)
ToBind(q) ==
    /\ proc' = [proc EXCEPT ![q].pc = "read_bind", ![q].pass = Absent]
    /\ bindClaim' = IF BindAlone(q) THEN bindClaim ELSE "none"

Seed ==
    /\ proc[Serve].pc = "seed"
    /\ keyring' = proc[Serve].pass
    /\ passClaim' = Passed(passClaim, "stored")
    /\ ToBind(Serve)
    /\ UNCHANGED <<creds, conf, enabled, dropin, loaded, outer, served>>

(* The file follows the keyring, when our rules can accept its value; what *)
(* cannot be read (a locked keyring, no Secret Service) is "unknown", and  *)
(* the file is left alone with nothing known of the two.                   *)
NotAdopted == creds          \* mutant: the file keeps its own password
AdoptedAnything == keyring   \* mutant: whatever GNOME accepts is taken
Adopted == IF keyring \in Passwords /\ keyring # proc[Serve].pass
           THEN keyring ELSE creds
Adopt ==
    /\ proc[Serve].pc = "adopt"
    /\ \/ /\ creds' = Adopted
          /\ passClaim' = Passed(passClaim, IF keyring \in Passwords THEN "stored" ELSE "none")
       \/ /\ MayFail
          /\ passClaim' = Dropped(passClaim)
          /\ UNCHANGED creds
    /\ ToBind(Serve)
    /\ UNCHANGED <<conf, keyring, enabled, dropin, loaded, outer, served>>

-----------------------------------------------------------------------------
(* The bind: ensure_grd_listen_address, from serve and from apply_bind.    *)

(* bind_address: the stored one, or the loopback default.                  *)
ReadBind(q) ==
    /\ proc[q].pc = "read_bind"
    /\ proc' = [proc EXCEPT ![q].pc = "check_dropin",
                            ![q].addr = IF conf = Absent THEN Loopback ELSE conf]
    /\ UNCHANGED <<stored, outer, served, claims>>

(* An unchanged drop-in means a plain start, or from a client nothing.     *)
CheckDropin(q) ==
    /\ proc[q].pc = "check_dropin"
    /\ IF dropin # proc[q].addr
       THEN Goto(q, "write_dropin") /\ UNCHANGED bindClaim
       ELSE IF q = Serve
       THEN proc' = [proc EXCEPT ![q].pc = "verb", ![q].addr = Loopback] /\ UNCHANGED bindClaim
       ELSE End(q) /\ bindClaim' = Dropped(bindClaim)
    /\ UNCHANGED <<stored, outer, served, passClaim>>

WriteDropin(q) ==
    /\ proc[q].pc = "write_dropin"
    /\ dropin' = proc[q].addr
    /\ proc' = [proc EXCEPT ![q].pc = "reload", ![q].addr = Loopback]
    /\ UNCHANGED <<creds, conf, keyring, enabled, loaded, outer, served, claims>>

ForgetReload(q) ==      \* mutant: no daemon-reload after the drop-in is written
    /\ proc[q].pc = "reload"
    /\ Goto(q, "bounce_bind")
    /\ UNCHANGED <<stored, outer, served, claims>>
(* Nobody looks at what daemon-reload answers: when it fails, the restart  *)
(* that follows runs the daemon with the address systemd had loaded before.*)
Reload(q) ==
    /\ proc[q].pc = "reload"
    /\ \/ loaded' = dropin /\ UNCHANGED bindClaim
       \/ MayFail /\ bindClaim' = Dropped(bindClaim) /\ UNCHANGED loaded
    /\ Goto(q, "bounce_bind")
    /\ UNCHANGED <<creds, conf, keyring, enabled, dropin, outer, served, passClaim>>

(* q's systemctl restarts (or starts) the daemon and q goes on at l; the   *)
(* command may fail and leave the daemon failed.                           *)
Bounce(q, l) == Launch([proc EXCEPT ![q].pc = l])
BounceFails(q) ==
    /\ MayFail /\ LaunchFails([proc EXCEPT ![q] = Broken(q)])
    /\ Drops(q, Status(q))

(* The drop-in changed: a daemon that is active is restarted.              *)
BounceBind(q) ==
    /\ proc[q].pc = "bounce_bind"
    /\ IF daemon.state = "active"
       THEN \/ /\ Bounce(q, IF q = Serve THEN "owner" ELSE "settle")
               /\ bindClaim' = Passed(bindClaim, "agreed")
               /\ UNCHANGED <<served, passClaim>>
            \/ BounceFails(q)
       ELSE /\ IF q = Serve THEN Goto(q, "verb") ELSE End(q)
            /\ bindClaim' = Passed(bindClaim, "agreed")
            /\ UNCHANGED <<outer, served, passClaim>>
    /\ UNCHANGED stored

-----------------------------------------------------------------------------
(* serve, from `systemctl start` on.  An active daemon is left alone.      *)
Start ==
    /\ proc[Serve].pc = "verb"
    /\ IF daemon.state = "active"
       THEN Goto(Serve, "owner") /\ UNCHANGED <<outer, served, claims>>
       ELSE \/ Bounce(Serve, "owner") /\ UNCHANGED <<served, claims>>
            \/ BounceFails(Serve)
    /\ UNCHANGED stored

(* _grd_main_pid, and what listener_pid answers: 0 is "unknown" in both.   *)
MainPid == IF daemon.state = "active" THEN "current" ELSE "zero"
Listener == CASE holder = "ours"   -> "current"
              [] holder = "hidden" -> "zero"
              [] OTHER             -> holder

TrustOwner ==           \* mutant: the two zeroes compared
    /\ proc[Serve].pc \in {"owner", "owner_again"}
    /\ proc' = [proc EXCEPT ![Serve].owner = MainPid,
                   ![Serve].pc = IF @ = "owner" THEN "wait" ELSE "wait_again"]
    /\ UNCHANGED <<stored, outer, served, claims>>
ReadOwner ==
    /\ proc[Serve].pc \in {"owner", "owner_again"}
    /\ IF MainPid = "zero" /\ proc[Serve].pc = "owner_again"
       THEN Raise(Serve)
       ELSE /\ proc' = [proc EXCEPT ![Serve].owner = MainPid,
                   ![Serve].pc = IF MainPid = "zero" THEN "look"
                                 ELSE IF @ = "owner" THEN "wait" ELSE "wait_again"]
            /\ UNCHANGED <<served, claims>>
    /\ UNCHANGED <<stored, outer>>

(* wait_for_listener: some poll finds the owner, or none of them does.     *)
ListenerFound ==
    /\ proc[Serve].pc \in {"wait", "wait_again"}
    /\ Listener = proc[Serve].owner
    /\ served' = "active" /\ End(Serve)
    /\ UNCHANGED <<stored, outer, claims>>
ListenerMissing ==
    /\ proc[Serve].pc \in {"wait", "wait_again"}
    /\ Listener # proc[Serve].owner
    /\ IF proc[Serve].pc = "wait"
       THEN proc' = [proc EXCEPT ![Serve].pc = "look", ![Serve].owner = "zero"] /\ UNCHANGED <<served, claims>>
       ELSE Raise(Serve)
    /\ UNCHANGED <<stored, outer>>

LookForHolder ==
    /\ proc[Serve].pc = "look"
    /\ Goto(Serve, IF holder = "none" THEN "again" ELSE "wait_free")
    /\ UNCHANGED <<stored, outer, served, claims>>
(* wait_for_port_free *)
PortFree ==
    /\ proc[Serve].pc = "wait_free"
    /\ IF holder = "none"
       THEN Goto(Serve, "again") /\ UNCHANGED <<served, claims>>
       ELSE Raise(Serve)
    /\ UNCHANGED <<stored, outer>>

(* The one restart, whose result nobody looks at.                          *)
RestartAgain ==
    /\ proc[Serve].pc = "again"
    /\ \/ Bounce(Serve, "owner_again")
       \/ MayFail /\ LaunchFails([proc EXCEPT ![Serve].pc = "owner_again"])
    /\ UNCHANGED <<stored, served, claims>>

-----------------------------------------------------------------------------
(* Clients. *)

Call(q, o, l, p) ==
    /\ proc[q] = Idle /\ o \in Ops
    /\ proc' = [proc EXCEPT ![q] = [Idle EXCEPT !.pc = l, !.op = o, !.pass = p, !.chosen = p]]

(* set_credential and `set-password` store the password first.             *)
StoreCredential(q) ==
    \E p \in Passwords :
        /\ Call(q, "set_credential", "compare", p)
        /\ creds' = p
        /\ passClaim' = IF PassAlone(q) THEN "sole" ELSE "none"
        /\ UNCHANGED <<conf, keyring, enabled, dropin, loaded, outer, served, bindClaim>>

(* sync_backend_password reads the file back and compares the keyring; one *)
(* that cannot be read is not the same.                                    *)
Compare(q) ==
    /\ proc[q].pc = "compare"
    /\ \/ /\ keyring = creds
          /\ End(q) /\ passClaim' = Passed(passClaim, "stored")
       \/ /\ keyring # creds \/ MayFail
          /\ proc' = [proc EXCEPT ![q].pc = "push", ![q].pass = creds]
          /\ UNCHANGED passClaim
    /\ UNCHANGED <<stored, outer, served, bindClaim>>

Push(q) ==
    /\ proc[q].pc = "push"
    /\ keyring' = proc[q].pass
    /\ proc' = [proc EXCEPT ![q].pc = "bounce_password", ![q].pass = Absent]
    /\ UNCHANGED <<creds, conf, enabled, dropin, loaded, outer, served, claims>>

ForgetBounce(q) ==      \* mutant: the keyring is written and that is all
    /\ proc[q].pc = "bounce_password"
    /\ End(q)
    /\ passClaim' = Passed(passClaim, "agreed")
    /\ UNCHANGED <<stored, outer, served, bindClaim>>
BouncePassword(q) ==
    /\ proc[q].pc = "bounce_password"
    /\ \/ /\ Bounce(q, "settle")
          /\ passClaim' = Passed(passClaim, "agreed")
          /\ UNCHANGED <<served, bindClaim>>
       \/ BounceFails(q)
    /\ UNCHANGED stored

(* wait_for_backend revives a failed daemon once, and only reports.        *)
Settle(q) ==
    /\ proc[q].pc \in {"settle", "settle_again"}
    /\ IF daemon.state = "failed" /\ proc[q].pc = "settle"
       THEN \/ Bounce(q, "settle_again")
            \/ MayFail /\ LaunchFails([proc EXCEPT ![q].pc = "settle_again"])
       ELSE End(q) /\ UNCHANGED outer
    /\ UNCHANGED <<stored, served, claims>>

(* apply_network and set_lan_access store the address, then apply it;      *)
(* `provision` leaves it at that.                                          *)
StoreNetwork(q) ==
    \E o \in {"apply_network", "provision"}, a \in Addresses :
        /\ Call(q, o, IF o = "provision" THEN "over" ELSE "read_bind", Absent)
        /\ conf' = a
        /\ bindClaim' = IF BindAlone(q) /\ o = "apply_network" THEN "sole" ELSE "none"
        /\ UNCHANGED <<creds, keyring, enabled, dropin, loaded, outer, served, passClaim>>

-----------------------------------------------------------------------------
BindStep(q) ==
    \/ ReadBind(q) \/ CheckDropin(q) \/ WriteDropin(q) \/ Reload(q)
    \/ BounceBind(q) \/ Fails(q)
ClientStep(q) ==
    \/ StoreCredential(q) \/ Compare(q) \/ Push(q) \/ BouncePassword(q)
    \/ Settle(q) \/ StoreNetwork(q)
ServeStep ==
    \/ ServeStarts \/ ServeStops
    \/ EnsureCredentials \/ QueryEnabled \/ Enable \/ Configure \/ Seed \/ Adopt
    \/ Start \/ ReadOwner \/ ListenerFound \/ ListenerMissing
    \/ LookForHolder \/ PortFree \/ RestartAgain
Environment ==
    \/ DaemonStarts \/ VncStarts \/ DaemonCrashes
    \/ ImpostorComes \/ ImpostorGoes \/ SettingsPassword \/ SettingsToggle

Next ==
    \/ \E q \in Procs : BindStep(q)
    \/ \E q \in Clients : ClientStep(q)
    \/ ServeStep
    \/ Environment

Spec == Init /\ [][Next]_vars

-----------------------------------------------------------------------------
(* Properties. *)

(* A password change, or a service start, that had the password to itself  *)
(* leaves the file and the keyring the same; a change that ran to its      *)
(* restart leaves the daemon enforcing it too.  No crash, restart or later *)
(* service start undoes either.                                            *)
PasswordAgrees ==
    /\ passClaim \in {"stored", "agreed"} => creds = keyring
    /\ passClaim = "agreed" /\ daemon.vnc = "up" => daemon.pass = creds

(* A network change that had the address to itself and changed it leaves   *)
(* the daemon listening there, whatever restarts it later; one whose       *)
(* daemon-reload failed unseen does not, and nothing repairs it: the       *)
(* drop-in is then unchanged for every later change to the same address.   *)
ListensWhereChosen ==
    bindClaim = "agreed" /\ daemon.state = "active" => daemon.addr = conf

(* serve reports success only while this session's daemon owns port 5900:  *)
(* never for a pid that is gone, nor for two unknowns that look the same.  *)
SuccessIsOurs ==
    [][served # "active" /\ served' = "active"
        => daemon.state = "active" /\ daemon.vnc = "up" /\ holder = "ours"]_vars

-----------------------------------------------------------------------------
(* What the source says without those conditions; checked, and refuted.    *)

Returns(q, o) == proc[q].op = o /\ proc'[q].pc = "over"

(* set_credential: "Store the viewer credential (mode 600)", and "the      *)
(* password also goes into GNOME Remote Desktop": the only change there is *)
(* does not return with another password stored.                           *)
ChosenIsStored ==
    [][\A q \in Clients : Returns(q, "set_credential") => creds' = proc[q].chosen]_vars
=============================================================================
