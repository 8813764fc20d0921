---------------------------- MODULE WayvncService ----------------------------
(***************************************************************************)
(* The serving path on a desktop that WayVNC can serve: the three files of *)
(* the per-user configuration directory, the systemd user unit that runs   *)
(* `wayland-vnc serve`, and every other process that writes those files:   *)
(* the settings app, the command line and the setup menu.                  *)
(*                                                                         *)
(* Nothing in the program locks the directory.  Each process is therefore  *)
(* split at every file access and every systemctl call, and all of them    *)
(* interleave.  A file is replaced by write_private, which truncates it    *)
(* and then writes it, so there is a moment at which a file is present and *)
(* empty; a process killed there leaves it so.                             *)
(***************************************************************************)
EXTENDS Naturals

CONSTANTS
    Clients,          \* one-shot invocations: a click, a CLI run, a menu action
    Serve,            \* the unit's main process, `wayland-vnc serve`
    Passwords,        \* passwords the Credentials rules accept
    Generated,        \* what ensure_credentials draws when there is no password
    Ports, DefaultPort,
    Absent, Empty,    \* a file that is not there, a file that was only truncated
    Ops,              \* the operations the clients perform in this instance
    StartLimitBurst,  \* starts systemd allows in one StartLimitIntervalSec
    MayDie            \* whether a process may be killed half way

Loopback == "127.0.0.1"
Lan == "0.0.0.0"
Bind == [address : {Loopback, Lan}, port : Ports]
DefaultBind == [address |-> Loopback, port |-> DefaultPort]

(* wayvnc.conf: what provision writes.  Its password is Absent when no      *)
(* credential was stored; authentication is enabled either way.            *)
Config == [address : {Loopback, Lan}, port : Ports,
           password : Passwords \cup {Absent}]
BindOf(c) == [address |-> c.address, port |-> c.port]

Procs == Clients \cup {Serve}
NetworkOps == {"set_lan_access", "apply_network", "provision"}
ClientOps == NetworkOps \cup {"set_credential", "install", "uninstall"}

ASSUME ServeAssumption == Serve \notin Clients
ASSUME PasswordAssumption == Generated \in Passwords
ASSUME PortAssumption == Ports \subseteq 1025..65535 /\ DefaultPort \in Ports
ASSUME MarkAssumption ==
    Absent # Empty /\ {Absent, Empty} \cap (Passwords \cup Config) = {}
ASSUME OpsAssumption == Ops \subseteq ClientOps
ASSUME BoundAssumption == StartLimitBurst \in Nat \ {0} /\ MayDie \in BOOLEAN

VARIABLES
    creds,    \* the credentials file
    conf,     \* wayvnc.conf
    key,      \* rsa.pem: "absent", "partial" while openssl has it open, "whole"
    unit,     \* wayland-vnc.service as systemd holds it
    server,   \* the configuration the running WayVNC loaded; Absent: none runs
    proc,     \* per process: position, operation, and the locals still needed
    wanted,   \* history: the bind last chosen
    stale,    \* history: a bind was read torn, or changed under a copy of it
    unapplied \* history: a change ended without reaching the unit's current run

files == <<creds, conf, key>>
ghosts == <<wanted, stale, unapplied>>
vars == <<creds, conf, key, unit, server, proc, wanted, stale, unapplied>>

Positions == {"idle", "over", "open_creds", "write_creds", "check_creds",
              "read_bind", "find_key", "open_key", "generate_key", "read_creds",
              "open_conf", "write_conf", "check_active", "restart", "unmask",
              "enable", "disable", "mask", "rm_creds", "rm_conf",
              "ensure_creds", "exec", "serving"}
Process == [pc : Positions, op : ClientOps \cup {"serve", "none"},
            pass : Passwords \cup {Absent}, bind : Bind]
Idle == [pc |-> "idle", op |-> "none", pass |-> Absent, bind |-> DefaultBind]

Unit == [state : {"inactive", "active", "auto-restart", "failed"},
         starts : 0..StartLimitBurst, masked : BOOLEAN]

TypeOK ==
    /\ creds \in Passwords \cup {Absent, Empty}
    /\ conf \in Config \cup {Absent, Empty}
    /\ server \in Config \cup {Absent, Empty}
    /\ key \in {"absent", "partial", "whole"}
    /\ unit \in Unit
    /\ proc \in [Procs -> Process]
    /\ wanted \in Bind
    /\ stale \in BOOLEAN
    /\ unapplied \in BOOLEAN

(* A fresh account, or one an earlier login left configured. *)
Init ==
    /\ \/ creds = Absent /\ conf = Absent /\ key = "absent" /\ wanted = DefaultBind
       \/ \E p \in Passwords, b \in Bind :
            /\ creds = p /\ key = "whole" /\ wanted = b
            /\ conf = [address |-> b.address, port |-> b.port, password |-> p]
    /\ unit = [state |-> "inactive", starts |-> 0, masked |-> FALSE]
    /\ server = Absent
    /\ proc = [q \in Procs |-> Idle]
    /\ stale = FALSE
    /\ unapplied = FALSE

Busy(q) == proc[q].pc \notin {"idle", "over", "serving"}
Usable(c) == c \notin {Absent, Empty}

(* q holds a copy of a bind it read, and will write that copy back.  The   *)
(* network operations hold what the user chose instead, except that the    *)
(* switch takes its port from the file.                                    *)
Copies(q) ==
    /\ proc[q].pc \in {"find_key", "open_key", "generate_key", "read_creds",
                       "open_conf", "write_conf"}
    /\ proc[q].op \notin {"apply_network", "provision"}

(* A change ends without having made a running server use it.              *)
Abandon == unapplied' = (unapplied \/ proc[Serve] # Idle)

Goto(q, l) == proc' = [proc EXCEPT ![q].pc = l]
(* A client runs once; the unit's main process may be started again.       *)
Ended(q) == IF q = Serve THEN Idle ELSE [Idle EXCEPT !.pc = "over"]
End(q) == proc' = [proc EXCEPT ![q] = Ended(q)]

-----------------------------------------------------------------------------
(* systemd.  A start counts against the limit whoever asked for it.        *)

CountedPastLimit(u) ==   \* mutant: only failed starts are limited
    [u EXCEPT !.state = "active", !.starts = @ + 1]
Started(u) ==
    IF u.masked THEN [u EXCEPT !.state = "inactive"]
    ELSE IF u.starts = StartLimitBurst THEN [u EXCEPT !.state = "failed"]
    ELSE [u EXCEPT !.state = "active", !.starts = @ + 1]
MainProcess(u) ==
    IF u.state = "active" THEN [Idle EXCEPT !.pc = "ensure_creds", !.op = "serve"]
    ELSE Idle

(* A start or restart job that q waits for, q's last step: the old main    *)
(* process is killed wherever it was, and the new one reads every file.    *)
RunStartJob(q) ==
    /\ unit' = Started(unit)
    /\ proc' = [proc EXCEPT ![q] = Ended(q), ![Serve] = MainProcess(Started(unit))]
    /\ server' = Absent
    /\ unapplied' = FALSE
    /\ UNCHANGED <<files, wanted, stale>>

Stopped == [unit EXCEPT !.state = "inactive"]

(* Login, or the Service switches: start and stop requests from outside.   *)
StartRequest ==
    /\ unit.state \in {"inactive", "failed"} /\ ~unit.masked
    /\ RunStartJob(Serve)
StopRequest ==
    /\ unit.state \in {"active", "auto-restart"}
    /\ unit' = Stopped /\ End(Serve) /\ server' = Absent
    /\ UNCHANGED <<files, ghosts>>
AutoRestart ==
    /\ unit.state = "auto-restart"
    /\ RunStartJob(Serve)
(* StartLimitIntervalSec passes, and the count of starts begins again.     *)
IntervalPasses ==
    /\ unit.starts > 0
    /\ unit' = [unit EXCEPT !.starts = 0]
    /\ UNCHANGED <<files, server, proc, ghosts>>

-----------------------------------------------------------------------------
(* Ends other than success. *)

(* q raises: a client reports the error; systemd restarts the service.     *)
Raise(q) ==
    /\ End(q)
    /\ IF q = Serve
       THEN unit' = [unit EXCEPT !.state = "auto-restart"] /\ UNCHANGED unapplied
       ELSE Abandon /\ UNCHANGED unit

(* q is killed, or openssl fails under it. *)
Killed(q) ==
    /\ MayDie /\ Busy(q)
    /\ Raise(q)
    /\ UNCHANGED <<files, server, wanted, stale>>

(* WayVNC exits; with status 0 RemainAfterExit keeps the unit active.      *)
ServerExits(clean) ==
    /\ proc[Serve].pc = "serving"
    /\ End(Serve)
    /\ server' = Absent
    /\ unit' = IF clean THEN unit ELSE [unit EXCEPT !.state = "auto-restart"]
    /\ UNCHANGED <<files, ghosts>>

-----------------------------------------------------------------------------
(* Client operations: what the user asks for. *)

Begin(q, o, l, p, b) ==
    /\ proc[q] = Idle /\ o \in Ops
    /\ proc' = [proc EXCEPT ![q] = [pc |-> l, op |-> o, pass |-> p, bind |-> b]]
    /\ UNCHANGED <<files, unit, server, ghosts>>

(* set_credential and `set-password`; the menu's install.                  *)
BeginCredential(q) ==
    \E o \in {"set_credential", "install"}, p \in Passwords :
        Begin(q, o, "open_creds", p, DefaultBind)
(* set_lan_access: the address is chosen, the port will be read.           *)
BeginLanAccess(q) ==
    \E a \in {Loopback, Lan} :
        Begin(q, "set_lan_access", "read_bind", Absent,
              [DefaultBind EXCEPT !.address = a])
(* apply_network; `provision --address --port`.                            *)
BeginNetwork(q) ==
    \E o \in {"apply_network", "provision"}, b \in Bind :
        Begin(q, o, "find_key", Absent, b)
(* The menu's uninstall. *)
BeginUninstall(q) == Begin(q, "uninstall", "disable", Absent, DefaultBind)

-----------------------------------------------------------------------------
(* The credentials file. *)

(* serve: the stored credential, or a generated one on first use.          *)
EnsureCredentials ==
    /\ proc[Serve].pc = "ensure_creds"
    /\ IF creds = Empty
       THEN Raise(Serve)
       ELSE /\ proc' = [proc EXCEPT ![Serve] =
                           IF creds = Absent
                           THEN [@ EXCEPT !.pc = "open_creds", !.pass = Generated]
                           ELSE [@ EXCEPT !.pc = "read_bind"]]
            /\ UNCHANGED <<unit, unapplied>>
    /\ UNCHANGED <<files, server, wanted, stale>>

OpenCreds(q) ==
    /\ proc[q].pc = "open_creds"
    /\ creds' = Empty
    /\ Goto(q, "write_creds")
    /\ UNCHANGED <<conf, key, unit, server, ghosts>>

WriteCreds(q) ==
    /\ proc[q].pc = "write_creds"
    /\ creds' = proc[q].pass
    /\ proc' = [proc EXCEPT ![q].pass = Absent,
                            ![q].pc = IF proc[q].op = "set_credential"
                                      THEN "check_creds" ELSE "read_bind"]
    /\ UNCHANGED <<conf, key, unit, server, ghosts>>

(* set_credential reads the file back before it looks for a keyring copy.  *)
CheckCreds(q) ==
    /\ proc[q].pc = "check_creds"
    /\ IF creds = Empty
       THEN Raise(q)
       ELSE Goto(q, "read_bind") /\ UNCHANGED <<unit, unapplied>>
    /\ UNCHANGED <<files, server, wanted, stale>>

-----------------------------------------------------------------------------
(* provision, and the ways of preserving a bind around it. *)

(* refresh_config does nothing when there is no usable config.             *)
GiveUpRefresh(q) ==
    /\ proc[q].pc = "read_bind" /\ proc[q].op = "set_credential" /\ ~Usable(conf)
    /\ End(q) /\ Abandon
    /\ UNCHANGED <<files, unit, server, wanted, stale>>

(* read_config, and bind_address's default when there is nothing to read.  *)
ForgottenBind == DefaultBind    \* mutant: re-provisioning with the defaults
FoundBind == IF Usable(conf) THEN BindOf(conf) ELSE DefaultBind

ReadBind(q) ==
    /\ proc[q].pc = "read_bind"
    /\ proc[q].op = "set_credential" => Usable(conf)
    /\ LET b == IF proc[q].op = "set_lan_access"
                THEN [FoundBind EXCEPT !.address = proc[q].bind.address]
                ELSE FoundBind
       IN  proc' = [proc EXCEPT ![q].pc = "find_key", ![q].bind = b]
    /\ stale' = (stale \/ conf = Empty)
    /\ UNCHANGED <<files, unit, server, wanted, unapplied>>

FindKey(q) ==
    /\ proc[q].pc = "find_key"
    /\ Goto(q, IF key = "absent" THEN "open_key" ELSE "read_creds")
    /\ UNCHANGED <<files, unit, server, ghosts>>

(* openssl opens its output before it has a key to put there. *)
OpenKey(q) ==
    /\ proc[q].pc = "open_key"
    /\ key' = "partial"
    /\ Goto(q, "generate_key")
    /\ UNCHANGED <<creds, conf, unit, server, ghosts>>

GenerateKey(q) ==
    /\ proc[q].pc = "generate_key"
    /\ key' = "whole"
    /\ Goto(q, "read_creds")
    /\ UNCHANGED <<creds, conf, unit, server, ghosts>>

ReadCreds(q) ==
    /\ proc[q].pc = "read_creds"
    /\ IF creds = Empty
       THEN Raise(q)
       ELSE /\ proc' = [proc EXCEPT ![q].pc = "open_conf", ![q].pass = creds]
            /\ UNCHANGED <<unit, unapplied>>
    /\ UNCHANGED <<files, server, wanted, stale>>

OpenConf(q) ==
    /\ proc[q].pc = "open_conf"
    /\ conf' = Empty
    /\ Goto(q, "write_conf")
    /\ UNCHANGED <<creds, key, unit, server, ghosts>>

(* History: what the user chose, and whether someone still holds a copy of *)
(* what was chosen before.                                                 *)
NoteChoice(q) ==
    LET copied == \E r \in Procs \ {q} : Copies(r)
    IN  IF proc[q].op \in {"apply_network", "provision"}
        THEN wanted' = proc[q].bind /\ stale' = copied
        ELSE IF proc[q].op = "set_lan_access"
        THEN /\ wanted' = [wanted EXCEPT !.address = proc[q].bind.address]
             /\ stale' = (stale \/ copied)
        ELSE UNCHANGED <<wanted, stale>>

AfterProvision(o) ==
    CASE o = "serve"     -> "exec"
      [] o = "provision" -> "idle"
      [] o = "install"   -> "unmask"
      [] OTHER           -> "check_active"

WriteConf(q) ==
    /\ proc[q].pc = "write_conf"
    /\ conf' = [address |-> proc[q].bind.address, port |-> proc[q].bind.port,
                password |-> proc[q].pass]
    /\ NoteChoice(q)
    /\ IF proc[q].op = "provision"
       THEN End(q) /\ Abandon
       ELSE /\ proc' = [proc EXCEPT ![q] = [Idle EXCEPT
                           !.pc = AfterProvision(proc[q].op), !.op = proc[q].op]]
            /\ UNCHANGED unapplied
    /\ UNCHANGED <<creds, key, unit, server>>

-----------------------------------------------------------------------------
(* Making the running server use it: restart_service asks, then restarts.  *)

ForgetRestart(q) ==     \* mutant: the config is rewritten and that is all
    /\ proc[q].pc = "check_active"
    /\ End(q)
    /\ UNCHANGED <<files, unit, server, ghosts>>
CheckActive(q) ==
    /\ proc[q].pc = "check_active"
    /\ IF unit.state = "active" THEN Goto(q, "restart") ELSE End(q)
    /\ UNCHANGED <<files, unit, server, ghosts>>

Restart(q) ==
    /\ proc[q].pc = "restart"
    /\ \/ ~unit.masked /\ RunStartJob(q)
       \/ /\ unit.masked
          /\ End(q) /\ Abandon
          /\ UNCHANGED <<files, unit, server, wanted, stale>>

(* The menu's install ends with `unmask` and `enable --now`, which starts  *)
(* an inactive unit and leaves an active one alone.                        *)
Unmask(q) ==
    /\ proc[q].pc = "unmask"
    /\ unit' = [unit EXCEPT !.masked = FALSE]
    /\ Goto(q, "enable")
    /\ UNCHANGED <<files, server, ghosts>>

EnableNow(q) ==
    /\ proc[q].pc = "enable"
    /\ \/ ~unit.masked /\ unit.state # "active" /\ RunStartJob(q)
       \/ /\ unit.masked \/ unit.state = "active"
          /\ End(q) /\ Abandon
          /\ UNCHANGED <<files, unit, server, wanted, stale>>

DisableNow(q) ==
    /\ proc[q].pc = "disable"
    /\ unit' = Stopped /\ server' = Absent
    /\ proc' = [proc EXCEPT ![q].pc = "mask", ![Serve] = Idle]
    /\ UNCHANGED <<files, ghosts>>

Mask(q) ==
    /\ proc[q].pc = "mask"
    /\ unit' = [unit EXCEPT !.masked = TRUE]
    /\ Goto(q, "rm_creds")
    /\ UNCHANGED <<files, server, ghosts>>

RemoveCreds(q) ==
    /\ proc[q].pc = "rm_creds"
    /\ creds' = Absent
    /\ Goto(q, "rm_conf")
    /\ UNCHANGED <<conf, key, unit, server, ghosts>>

RemoveConf(q) ==
    /\ proc[q].pc = "rm_conf"
    /\ conf' = Absent
    /\ wanted' = DefaultBind
    /\ stale' = (\E r \in Procs \ {q} : Copies(r))
    /\ End(q) /\ Abandon
    /\ UNCHANGED <<creds, key, unit, server>>

(* serve execs WayVNC, which loads the file as it is now (external).  It   *)
(* refuses a config without a password and a key it cannot parse; from an  *)
(* empty file it may start with its own defaults or give up.               *)
Servable == Usable(conf) /\ conf.password # Absent /\ key = "whole"
Exec ==
    /\ proc[Serve].pc = "exec"
    /\ \/ /\ conf = Empty \/ Servable
          /\ server' = conf
          /\ proc' = [proc EXCEPT ![Serve].pc = "serving"]
          /\ UNCHANGED <<unit, unapplied>>
       \/ /\ ~Servable
          /\ Raise(Serve)
          /\ UNCHANGED server
    /\ UNCHANGED <<files, wanted, stale>>

-----------------------------------------------------------------------------
FileStep(q) ==
    \/ OpenCreds(q) \/ WriteCreds(q) \/ CheckCreds(q)
    \/ GiveUpRefresh(q) \/ ReadBind(q)
    \/ FindKey(q) \/ OpenKey(q) \/ GenerateKey(q)
    \/ ReadCreds(q) \/ OpenConf(q) \/ WriteConf(q)
    \/ Killed(q)

ClientStep(q) ==
    \/ BeginCredential(q) \/ BeginLanAccess(q) \/ BeginNetwork(q)
    \/ BeginUninstall(q)
    \/ CheckActive(q) \/ Restart(q) \/ Unmask(q) \/ EnableNow(q)
    \/ DisableNow(q) \/ Mask(q) \/ RemoveCreds(q) \/ RemoveConf(q)

UnitStep ==
    \/ StartRequest \/ StopRequest \/ AutoRestart \/ IntervalPasses
    \/ \E clean \in BOOLEAN : ServerExits(clean)
    \/ EnsureCredentials \/ Exec

Next ==
    \/ \E q \in Procs : FileStep(q)
    \/ \E q \in Clients : ClientStep(q)
    \/ UnitStep

Spec == Init /\ [][Next]_vars

-----------------------------------------------------------------------------
(* Properties. *)

(* The bind in wayvnc.conf is the one last chosen: neither a password      *)
(* change, nor a service start, nor a reinstall moves it -- as long as     *)
(* nobody read the file while it was truncated and no choice landed while  *)
(* someone held a copy of the previous one.                                *)
BindKept == Usable(conf) /\ ~stale => BindOf(conf) = wanted

Quiet == \A q \in Clients : ~Busy(q)

(* When every change is over, the running server enforces the stored       *)
(* password on the stored bind, unless a change ended without reaching it  *)
(* (it was killed, failed, gave up its refresh, or does not restart).      *)
InForce ==
    Quiet /\ proc[Serve].pc = "serving" /\ ~unapplied
        => Usable(server) /\ server = conf /\ server.password = creds

-----------------------------------------------------------------------------
(* What the source says without those conditions; checked, and refuted, on *)
(* an instance in which no process dies.                                   *)

(* provision_preserving_bind: "Provisioning with the defaults here would   *)
(* take a server someone had opened ... back to loopback on the next       *)
(* restart, silently undoing that choice."                                 *)
BindNeverUndone == Usable(conf) => BindOf(conf) = wanted
=============================================================================
