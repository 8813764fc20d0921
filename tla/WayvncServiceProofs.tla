------------------------ MODULE WayvncServiceProofs ------------------------
(* Theorems about WayvncService, for every set of clients, passwords and   *)
(* ports and every start limit.                                            *)
EXTENDS WayvncService, TLAPS

-----------------------------------------------------------------------------
(* Type correctness. *)

LEMMA DefaultBindType == DefaultBind \in Bind
BY PortAssumption DEF DefaultBind, Bind, Loopback, Lan

LEMMA ConfigBind ==
    ASSUME NEW c \in Config
    PROVE  BindOf(c) \in Bind /\ c # Absent /\ c # Empty
BY MarkAssumption DEF Config, Bind, BindOf

LEMMA IdleType == Idle \in Process /\ \A q \in Procs : Ended(q) \in Process
BY DefaultBindType DEF Idle, Ended, Process, Positions

LEMMA StartedType ==
    ASSUME NEW u \in Unit
    PROVE  Started(u) \in Unit /\ MainProcess(Started(u)) \in Process
<1>1. Started(u) \in Unit
  <2>1. CASE u.masked
    BY <2>1 DEF Started, Unit
  <2>2. CASE ~u.masked /\ u.starts = StartLimitBurst
    BY <2>2 DEF Started, Unit
  <2>3. CASE ~u.masked /\ u.starts # StartLimitBurst
    <3>1. u.starts + 1 \in 0..StartLimitBurst
      BY <2>3, BoundAssumption DEF Unit
    <3>2. QED
      BY <2>3, <3>1 DEF Started, Unit
  <2>4. QED
    BY <2>1, <2>2, <2>3
<1>2. MainProcess(Started(u)) \in Process
  BY DefaultBindType DEF MainProcess, Idle, Process, Positions
<1>3. QED
  BY <1>1, <1>2

LEMMA TypeInit == Init => TypeOK
<1>1. [state |-> "inactive", starts |-> 0, masked |-> FALSE] \in Unit
  BY BoundAssumption DEF Unit
<1>2. ASSUME NEW p \in Passwords, NEW b \in Bind
      PROVE  [address |-> b.address, port |-> b.port, password |-> p] \in Config
  BY DEF Bind, Config
<1>3. Init => /\ creds \in Passwords \cup {Absent, Empty}
              /\ conf \in Config \cup {Absent, Empty}
              /\ key \in {"absent", "partial", "whole"}
              /\ wanted \in Bind
  BY <1>2, DefaultBindType DEF Init
<1>4. Init => /\ server \in Config \cup {Absent, Empty}
              /\ unit \in Unit
              /\ proc \in [Procs -> Process]
              /\ stale \in BOOLEAN /\ unapplied \in BOOLEAN
  BY <1>1, IdleType DEF Init
<1>5. QED
  BY <1>3, <1>4 DEF TypeOK

(* Where a process goes next, and how it ends. *)
LEMMA GotoType ==
    ASSUME TypeOK, NEW q \in Procs, NEW l \in Positions, Goto(q, l)
    PROVE  proc' \in [Procs -> Process]
BY DEF TypeOK, Goto, Process

LEMMA EndType ==
    ASSUME TypeOK, NEW q \in Procs
    PROVE  [proc EXCEPT ![q] = Ended(q)] \in [Procs -> Process]
BY IdleType DEF TypeOK

LEMMA RaiseType ==
    ASSUME TypeOK, NEW q \in Procs, Raise(q)
    PROVE  /\ proc' \in [Procs -> Process]
           /\ unit' \in Unit
           /\ unapplied' \in BOOLEAN
<1>1. proc' \in [Procs -> Process]
  BY EndType DEF Raise, End
<1>2. [unit EXCEPT !.state = "auto-restart"] \in Unit
  BY DEF TypeOK, Unit
<1>3. QED
  BY <1>1, <1>2 DEF TypeOK, Raise, Abandon

LEMMA StartJobType ==
    ASSUME TypeOK, NEW q \in Procs, RunStartJob(q)
    PROVE  TypeOK'
<1>1. unit' \in Unit /\ MainProcess(Started(unit)) \in Process
  BY StartedType DEF TypeOK, RunStartJob
<1>2. proc' \in [Procs -> Process]
  BY <1>1, IdleType DEF TypeOK, RunStartJob, Procs
<1>3. QED
  BY <1>1, <1>2 DEF TypeOK, RunStartJob, files

LEMMA FileStepType ==
    ASSUME TypeOK, NEW q \in Procs, FileStep(q)
    PROVE  TypeOK'
<1>1. CASE OpenCreds(q)
  BY <1>1, GotoType DEF OpenCreds, TypeOK, ghosts, Positions
<1>2. CASE WriteCreds(q)
  <2>1. proc[q].pass \in Passwords \cup {Absent, Empty}
    BY DEF TypeOK, Process
  <2>2. proc' \in [Procs -> Process]
    BY <1>2 DEF WriteCreds, TypeOK, Process, Positions
  <2>3. QED
    BY <1>2, <2>1, <2>2 DEF WriteCreds, TypeOK, ghosts
<1>3. CASE CheckCreds(q)
  BY <1>3, GotoType, RaiseType DEF CheckCreds, TypeOK, files, Positions
<1>4. CASE GiveUpRefresh(q)
  BY <1>4, EndType DEF GiveUpRefresh, End, Abandon, TypeOK, files
<1>5. CASE ReadBind(q)
  <2>1. FoundBind \in Bind
    BY ConfigBind, DefaultBindType DEF TypeOK, FoundBind, Usable
  <2>2. [FoundBind EXCEPT !.address = proc[q].bind.address] \in Bind
    BY <2>1 DEF TypeOK, Process, Bind
  <2>3. \E b \in Bind :
            proc' = [proc EXCEPT ![q].pc = "find_key", ![q].bind = b]
    BY <1>5, <2>1, <2>2 DEF ReadBind
  <2>4. PICK b \in Bind :
            proc' = [proc EXCEPT ![q].pc = "find_key", ![q].bind = b]
    BY <2>3
  <2>5. [[proc[q] EXCEPT !.pc = "find_key"] EXCEPT !.bind = b] \in Process
    BY DEF TypeOK, Process, Positions
  <2>6. proc' = [proc EXCEPT ![q] =
                    [[proc[q] EXCEPT !.pc = "find_key"] EXCEPT !.bind = b]]
    BY <2>4 DEF TypeOK
  <2>7. proc' \in [Procs -> Process]
    BY <2>5, <2>6 DEF TypeOK
  <2>8. QED
    BY <1>5, <2>7 DEF ReadBind, TypeOK, files
<1>6. CASE FindKey(q)
  BY <1>6, GotoType DEF FindKey, TypeOK, files, ghosts, Positions
<1>7. CASE OpenKey(q)
  BY <1>7, GotoType DEF OpenKey, TypeOK, ghosts, Positions
<1>8. CASE GenerateKey(q)
  BY <1>8, GotoType DEF GenerateKey, TypeOK, ghosts, Positions
<1>9. CASE ReadCreds(q)
  <2>1. CASE creds = Empty
    BY <1>9, <2>1, RaiseType DEF ReadCreds, TypeOK, files
  <2>2. CASE creds # Empty
    <3>1. proc' \in [Procs -> Process]
      BY <1>9, <2>2 DEF ReadCreds, TypeOK, Process, Positions
    <3>2. QED
      BY <1>9, <2>2, <3>1 DEF ReadCreds, TypeOK, files
  <2>3. QED
    BY <2>1, <2>2
<1>10. CASE OpenConf(q)
  BY <1>10, GotoType DEF OpenConf, TypeOK, ghosts, Positions
<1>11. CASE WriteConf(q)
  <2>1. conf' \in Config
    BY <1>11 DEF WriteConf, TypeOK, Process, Bind, Config
  <2>2. wanted' \in Bind /\ stale' \in BOOLEAN
    BY <1>11 DEF WriteConf, NoteChoice, TypeOK, Process, Bind
  <2>3. CASE proc[q].op = "provision"
    BY <1>11, <2>1, <2>2, <2>3, EndType DEF WriteConf, End, Abandon, TypeOK
  <2>4. CASE proc[q].op # "provision"
    <3>1. AfterProvision(proc[q].op) \in Positions
      BY DEF AfterProvision, Positions
    <3>2. proc[q].op \in ClientOps \cup {"serve", "none"}
      BY DEF TypeOK, Process
    <3>3. [Idle EXCEPT !.pc = AfterProvision(proc[q].op), !.op = proc[q].op]
              \in Process
      BY <3>1, <3>2, DefaultBindType DEF Idle, Process
    <3>4. proc' \in [Procs -> Process]
      BY <1>11, <2>4, <3>3 DEF WriteConf, TypeOK
    <3>5. QED
      BY <1>11, <2>1, <2>2, <2>4, <3>4 DEF WriteConf, TypeOK
  <2>5. QED
    BY <2>3, <2>4
<1>12. CASE Killed(q)
  BY <1>12, RaiseType DEF Killed, TypeOK, files
<1>13. QED
  BY <1>1, <1>2, <1>3, <1>4, <1>5, <1>6, <1>7, <1>8, <1>9, <1>10, <1>11,
     <1>12 DEF FileStep

LEMMA ClientStepType ==
    ASSUME TypeOK, NEW q \in Clients, ClientStep(q)
    PROVE  TypeOK'
<1>0. q \in Procs
  BY DEF Procs
<1>1. ASSUME NEW o \in ClientOps, NEW l \in Positions,
             NEW p \in Passwords \cup {Absent}, NEW b \in Bind,
             Begin(q, o, l, p, b)
      PROVE  TypeOK'
  <2>1. [pc |-> l, op |-> o, pass |-> p, bind |-> b] \in Process
    BY DEF Process
  <2>2. QED
    BY <1>0, <1>1, <2>1 DEF Begin, TypeOK, files, ghosts
<1>2. CASE BeginCredential(q)
  BY <1>1, <1>2, DefaultBindType
  DEF BeginCredential, ClientOps, Positions
<1>3. CASE BeginLanAccess(q)
  <2>1. \A a \in {Loopback, Lan} : [DefaultBind EXCEPT !.address = a] \in Bind
    BY DefaultBindType DEF Bind
  <2>2. QED
    BY <1>1, <1>3, <2>1 DEF BeginLanAccess, ClientOps, NetworkOps, Positions
<1>4. CASE BeginNetwork(q)
  BY <1>1, <1>4 DEF BeginNetwork, ClientOps, NetworkOps, Positions
<1>5. CASE BeginUninstall(q)
  BY <1>1, <1>5, DefaultBindType DEF BeginUninstall, ClientOps, Positions
<1>6. CASE CheckActive(q)
  BY <1>0, <1>6, GotoType, EndType
  DEF CheckActive, End, TypeOK, files, ghosts, Positions
<1>7. CASE Restart(q)
  BY <1>0, <1>7, StartJobType, EndType
  DEF Restart, End, Abandon, TypeOK, files
<1>8. CASE Unmask(q)
  <2>1. unit' \in Unit
    BY <1>8 DEF Unmask, TypeOK, Unit
  <2>2. QED
    BY <1>0, <1>8, <2>1, GotoType DEF Unmask, TypeOK, files, ghosts, Positions
<1>9. CASE EnableNow(q)
  BY <1>0, <1>9, StartJobType, EndType
  DEF EnableNow, End, Abandon, TypeOK, files
<1>10. CASE DisableNow(q)
  <2>1. unit' \in Unit
    BY <1>10 DEF DisableNow, Stopped, TypeOK, Unit
  <2>2. [proc[q] EXCEPT !.pc = "mask"] \in Process
    BY <1>0 DEF TypeOK, Process, Positions
  <2>3. \E f \in [Procs -> Process] : proc' = [f EXCEPT ![Serve] = Idle]
    <3>1. [proc EXCEPT ![q].pc = "mask"] \in [Procs -> Process]
      BY <1>0, <2>2 DEF TypeOK
    <3>2. QED
      BY <1>10, <3>1 DEF DisableNow
  <2>4. proc' \in [Procs -> Process]
    BY <2>3, IdleType
  <2>5. QED
    BY <1>10, <2>1, <2>4 DEF DisableNow, TypeOK, files, ghosts
<1>11. CASE Mask(q)
  <2>1. unit' \in Unit
    BY <1>11 DEF Mask, TypeOK, Unit
  <2>2. QED
    BY <1>0, <1>11, <2>1, GotoType DEF Mask, TypeOK, files, ghosts, Positions
<1>12. CASE RemoveCreds(q)
  BY <1>0, <1>12, GotoType DEF RemoveCreds, TypeOK, ghosts, Positions
<1>13. CASE RemoveConf(q)
  BY <1>0, <1>13, EndType, DefaultBindType
  DEF RemoveConf, End, Abandon, TypeOK
<1>14. QED
  BY <1>2, <1>3, <1>4, <1>5, <1>6, <1>7, <1>8, <1>9, <1>10, <1>11, <1>12,
     <1>13 DEF ClientStep

LEMMA UnitStepType ==
    ASSUME TypeOK, UnitStep
    PROVE  TypeOK'
<1>0. Serve \in Procs
  BY DEF Procs
<1>1. CASE StartRequest
  BY <1>0, <1>1, StartJobType DEF StartRequest
<1>2. CASE StopRequest
  <2>1. unit' \in Unit
    BY <1>2 DEF StopRequest, Stopped, TypeOK, Unit
  <2>2. QED
    BY <1>0, <1>2, <2>1, EndType DEF StopRequest, End, TypeOK, files, ghosts
<1>3. CASE AutoRestart
  BY <1>0, <1>3, StartJobType DEF AutoRestart
<1>4. CASE IntervalPasses
  <2>1. unit' \in Unit
    BY <1>4, BoundAssumption DEF IntervalPasses, TypeOK, Unit
  <2>2. QED
    BY <1>4, <2>1 DEF IntervalPasses, TypeOK, files, ghosts
<1>5. CASE \E clean \in BOOLEAN : ServerExits(clean)
  <2>1. unit' \in Unit
    BY <1>5 DEF ServerExits, TypeOK, Unit
  <2>2. QED
    BY <1>0, <1>5, <2>1, EndType DEF ServerExits, End, TypeOK, files, ghosts
<1>6. CASE EnsureCredentials
  <2>1. CASE creds = Empty
    BY <1>0, <1>6, <2>1, RaiseType DEF EnsureCredentials, TypeOK, files
  <2>2. CASE creds # Empty
    <3>1. [proc[Serve] EXCEPT !.pc = "open_creds", !.pass = Generated] \in Process
      BY <1>0, PasswordAssumption DEF TypeOK, Process, Positions
    <3>2. [proc[Serve] EXCEPT !.pc = "read_bind"] \in Process
      BY <1>0 DEF TypeOK, Process, Positions
    <3>3. \E r \in Process : proc' = [proc EXCEPT ![Serve] = r]
      BY <1>6, <2>2, <3>1, <3>2 DEF EnsureCredentials
    <3>4. proc' \in [Procs -> Process]
      BY <3>3 DEF TypeOK
    <3>5. QED
      BY <1>6, <2>2, <3>4 DEF EnsureCredentials, TypeOK, files
  <2>3. QED
    BY <2>1, <2>2
<1>7. CASE Exec
  <2>1. proc' \in [Procs -> Process]
    BY <1>0, <1>7, RaiseType DEF Exec, TypeOK, Process, Positions
  <2>2. QED
    BY <1>0, <1>7, <2>1, RaiseType DEF Exec, TypeOK, files
<1>8. QED
  BY <1>1, <1>2, <1>3, <1>4, <1>5, <1>6, <1>7 DEF UnitStep

(* Every process is at one of its own program points, with locals of the   *)
(* right kind, and every file holds something the program writes there.    *)
THEOREM TypeCorrect == Spec => []TypeOK
<1>1. TypeOK /\ [Next]_vars => TypeOK'
  <2> SUFFICES ASSUME TypeOK, [Next]_vars PROVE TypeOK'
    OBVIOUS
  <2>1. CASE Next
    BY <2>1, FileStepType, ClientStepType, UnitStepType DEF Next
  <2>2. CASE UNCHANGED vars
    BY <2>2 DEF TypeOK, vars
  <2>3. QED
    BY <2>1, <2>2
<1>2. QED
  BY TypeInit, <1>1, PTL DEF Spec

-----------------------------------------------------------------------------
(* The bind last chosen is kept.  What has to be remembered along the way  *)
(* is that every copy of the bind in flight is a copy of the right one,    *)
(* and that a missing file stands for the default.                         *)

CopyRight(q) ==
    Copies(q) => IF proc[q].op = "set_lan_access"
                 THEN proc[q].bind.port = wanted.port
                 ELSE proc[q].bind = wanted
BindInv ==
    ~stale => /\ Usable(conf) => BindOf(conf) = wanted
              /\ conf = Absent => wanted = DefaultBind
              /\ \A q \in Procs : CopyRight(q)

(* A step that moves no bind: it makes no copy, and at most truncates.     *)
LEMMA BindUntouched ==
    ASSUME BindInv, UNCHANGED <<wanted, stale>>, conf' \in {conf, Empty},
           \A r \in Procs : Copies(r)' => /\ Copies(r)
                                         /\ proc'[r].op = proc[r].op
                                         /\ proc'[r].bind = proc[r].bind
    PROVE  BindInv'
BY MarkAssumption DEF BindInv, CopyRight, Usable

(* A process that has ended, or stands anywhere outside provision, holds   *)
(* no copy.                                                                *)
LEMMA EndedCopies ==
    ASSUME TypeOK, NEW q \in Procs, NEW r \in Procs, End(q), Copies(r)'
    PROVE  Copies(r) /\ proc'[r] = proc[r]
BY DEF TypeOK, End, Ended, Idle, Copies

LEMMA StartJobBind ==
    ASSUME TypeOK, BindInv, NEW q \in Procs, RunStartJob(q)
    PROVE  BindInv'
<1>1. ASSUME NEW r \in Procs, Copies(r)'
      PROVE  Copies(r) /\ proc'[r] = proc[r]
  BY <1>1 DEF TypeOK, RunStartJob, Ended, MainProcess, Idle, Copies
<1>2. QED
  BY <1>1, BindUntouched DEF RunStartJob, files

LEMMA RaiseBind ==
    ASSUME TypeOK, BindInv, NEW q \in Procs, Raise(q),
           UNCHANGED <<files, wanted, stale>>
    PROVE  BindInv'
BY EndedCopies, BindUntouched DEF Raise, files

LEMMA GotoBind ==
    ASSUME TypeOK, BindInv, NEW q \in Procs, NEW l \in Positions, Goto(q, l),
           UNCHANGED <<wanted, stale>>, conf' \in {conf, Empty},
           \/ proc[q].pc \in {"find_key", "open_key", "generate_key",
                              "read_creds", "open_conf"}
           \/ l \notin {"find_key", "open_key", "generate_key", "read_creds",
                        "open_conf", "write_conf"}
    PROVE  BindInv'
<1>1. ASSUME NEW r \in Procs, Copies(r)'
      PROVE  /\ Copies(r)
             /\ proc'[r].op = proc[r].op
             /\ proc'[r].bind = proc[r].bind
  BY <1>1 DEF TypeOK, Goto, Copies, Process
<1>2. QED
  BY <1>1, BindUntouched

LEMMA FileStepBind ==
    ASSUME TypeOK, BindInv, NEW q \in Procs, FileStep(q)
    PROVE  BindInv'
<1>1. CASE OpenCreds(q)
  BY <1>1, GotoBind DEF OpenCreds, ghosts, Positions
<1>2. CASE WriteCreds(q)
  <2>1. ASSUME NEW r \in Procs, Copies(r)'
        PROVE  Copies(r) /\ proc'[r] = proc[r]
    BY <1>2, <2>1 DEF WriteCreds, Copies, TypeOK, Process
  <2>2. QED
    BY <1>2, <2>1, BindUntouched DEF WriteCreds, ghosts
<1>3. CASE CheckCreds(q)
  BY <1>3, GotoBind, RaiseBind DEF CheckCreds, files, Positions
<1>4. CASE GiveUpRefresh(q)
  BY <1>4, EndedCopies, BindUntouched DEF GiveUpRefresh, files
<1>5. CASE ReadBind(q)
  <2>1. CASE stale'
    BY <2>1 DEF BindInv
  <2>2. CASE ~stale'
    <3>1. ~stale /\ conf # Empty /\ FoundBind = wanted
      BY <1>5, <2>2 DEF ReadBind, BindInv, FoundBind, Usable, TypeOK
    <3>2. IF proc[q].op = "set_lan_access"
          THEN proc'[q].bind.port = wanted.port
          ELSE proc'[q].bind = wanted
      BY <1>5, <3>1 DEF ReadBind, TypeOK, Process, Bind
    <3>3. proc'[q].op = proc[q].op
      BY <1>5 DEF ReadBind, TypeOK, Process
    <3>4. ASSUME NEW r \in Procs, r # q
          PROVE  CopyRight(r)'
      BY <1>5, <3>1, <3>4 DEF ReadBind, BindInv, CopyRight, Copies, TypeOK
    <3>5. CopyRight(q)'
      BY <1>5, <3>2, <3>3 DEF ReadBind, CopyRight
    <3>6. QED
      BY <1>5, <3>1, <3>4, <3>5 DEF ReadBind, BindInv, files
  <2>3. QED
    BY <2>1, <2>2
<1>6. CASE FindKey(q)
  BY <1>6, GotoBind DEF FindKey, files, ghosts, Positions
<1>7. CASE OpenKey(q)
  BY <1>7, GotoBind DEF OpenKey, ghosts, Positions
<1>8. CASE GenerateKey(q)
  BY <1>8, GotoBind DEF GenerateKey, ghosts, Positions
<1>9. CASE ReadCreds(q)
  <2>1. CASE creds = Empty
    BY <1>9, <2>1, RaiseBind DEF ReadCreds
  <2>2. CASE creds # Empty
    <3>1. ASSUME NEW r \in Procs, Copies(r)'
          PROVE  /\ Copies(r)
                 /\ proc'[r].op = proc[r].op
                 /\ proc'[r].bind = proc[r].bind
      BY <1>9, <2>2, <3>1 DEF ReadCreds, Copies, TypeOK, Process
    <3>2. QED
      BY <1>9, <2>2, <3>1, BindUntouched DEF ReadCreds, files
  <2>3. QED
    BY <2>1, <2>2
<1>10. CASE OpenConf(q)
  BY <1>10, GotoBind DEF OpenConf, ghosts, Positions
<1>11. CASE WriteConf(q)
  <2>1. CASE stale'
    BY <2>1 DEF BindInv
  <2>2. CASE ~stale'
    <3>1. BindOf(conf') = proc[q].bind /\ Usable(conf')
      <4>1. conf' \in Config
        BY <1>11 DEF WriteConf, TypeOK, Process, Bind, Config
      <4>2. proc[q].bind \in Bind
        BY DEF TypeOK, Process
      <4>3. QED
        BY <1>11, <4>1, <4>2, ConfigBind
        DEF WriteConf, BindOf, Usable, Bind
    <3>2. ASSUME NEW r \in Procs, Copies(r)'
          PROVE  r # q /\ Copies(r) /\ proc'[r] = proc[r]
      <4>1. AfterProvision(proc[q].op) \notin
                {"find_key", "open_key", "generate_key", "read_creds",
                 "open_conf", "write_conf"}
        BY DEF AfterProvision
      <4>2. proc'[q].pc \notin
                {"find_key", "open_key", "generate_key", "read_creds",
                 "open_conf", "write_conf"}
        <5>1. CASE proc[q].op = "provision"
          BY <1>11, <5>1 DEF WriteConf, End, Ended, Idle, TypeOK
        <5>2. CASE proc[q].op # "provision"
          <6>1. proc'[q].pc = AfterProvision(proc[q].op)
            BY <1>11, <5>2 DEF WriteConf, Idle, TypeOK
          <6>2. QED
            BY <4>1, <6>1
        <5>3. QED
          BY <5>1, <5>2
      <4>3. proc' = [proc EXCEPT ![q] = proc'[q]]
        BY <1>11 DEF WriteConf, End, TypeOK
      <4>4. QED
        BY <3>2, <4>2, <4>3 DEF Copies, TypeOK
    <3>3. CASE proc[q].op \in {"apply_network", "provision"}
      BY <1>11, <2>2, <3>1, <3>2, <3>3
      DEF WriteConf, NoteChoice, BindInv, CopyRight, Usable
    <3>4. CASE proc[q].op = "set_lan_access"
      <4>1. ~stale /\ Copies(q) /\ proc[q].bind.port = wanted.port
        BY <1>11, <2>2, <3>4
        DEF WriteConf, NoteChoice, BindInv, CopyRight, Copies
      <4>2. wanted' = proc[q].bind
        BY <1>11, <3>4, <4>1 DEF WriteConf, NoteChoice, TypeOK, Process, Bind
      <4>3. \A r \in Procs : ~Copies(r)'
        BY <1>11, <2>2, <3>2, <3>4 DEF WriteConf, NoteChoice
      <4>4. QED
        BY <3>1, <4>2, <4>3 DEF BindInv, CopyRight, Usable
    <3>5. CASE proc[q].op \notin {"apply_network", "provision", "set_lan_access"}
      <4>1. ~stale /\ UNCHANGED wanted /\ proc[q].bind = wanted
        BY <1>11, <2>2, <3>5
        DEF WriteConf, NoteChoice, BindInv, CopyRight, Copies
      <4>2. \A r \in Procs : CopyRight(r)'
        BY <3>2, <4>1 DEF BindInv, CopyRight
      <4>3. QED
        BY <3>1, <4>1, <4>2 DEF BindInv, Usable
    <3>6. QED
      BY <3>3, <3>4, <3>5
  <2>3. QED
    BY <2>1, <2>2
<1>12. CASE Killed(q)
  BY <1>12, RaiseBind DEF Killed
<1>13. QED
  BY <1>1, <1>2, <1>3, <1>4, <1>5, <1>6, <1>7, <1>8, <1>9, <1>10, <1>11,
     <1>12 DEF FileStep

LEMMA ClientStepBind ==
    ASSUME TypeOK, BindInv, NEW q \in Clients, ClientStep(q)
    PROVE  BindInv'
<1>0. q \in Procs
  BY DEF Procs
<1>1. ASSUME NEW o, NEW l, NEW p, NEW b, Begin(q, o, l, p, b),
             \/ o \in {"apply_network", "provision"}
             \/ l \notin {"find_key", "open_key", "generate_key",
                          "read_creds", "open_conf", "write_conf"}
      PROVE  BindInv'
  <2>1. ASSUME NEW r \in Procs, Copies(r)'
        PROVE  Copies(r) /\ proc'[r] = proc[r]
    BY <1>0, <1>1, <2>1 DEF Begin, Copies, TypeOK
  <2>2. QED
    BY <1>1, <2>1, BindUntouched DEF Begin, files, ghosts
<1>2. CASE BeginCredential(q)
  BY <1>1, <1>2 DEF BeginCredential
<1>3. CASE BeginLanAccess(q)
  BY <1>1, <1>3 DEF BeginLanAccess
<1>4. CASE BeginNetwork(q)
  BY <1>1, <1>4 DEF BeginNetwork
<1>5. CASE BeginUninstall(q)
  BY <1>1, <1>5 DEF BeginUninstall
<1>6. CASE CheckActive(q)
  BY <1>0, <1>6, GotoBind, EndedCopies, BindUntouched
  DEF CheckActive, files, ghosts, Positions
<1>7. CASE Restart(q)
  BY <1>0, <1>7, StartJobBind, EndedCopies, BindUntouched DEF Restart, files
<1>8. CASE Unmask(q)
  BY <1>0, <1>8, GotoBind DEF Unmask, files, ghosts, Positions
<1>9. CASE EnableNow(q)
  BY <1>0, <1>9, StartJobBind, EndedCopies, BindUntouched DEF EnableNow, files
<1>10. CASE DisableNow(q)
  <2>1. ASSUME NEW r \in Procs, Copies(r)'
        PROVE  Copies(r) /\ proc'[r] = proc[r]
    BY <1>0, <1>10, <2>1 DEF DisableNow, Copies, TypeOK, Process, Idle
  <2>2. QED
    BY <1>10, <2>1, BindUntouched DEF DisableNow, files, ghosts
<1>11. CASE Mask(q)
  BY <1>0, <1>11, GotoBind DEF Mask, files, ghosts, Positions
<1>12. CASE RemoveCreds(q)
  BY <1>0, <1>12, GotoBind DEF RemoveCreds, ghosts, Positions
<1>13. CASE RemoveConf(q)
  <2>1. CASE stale'
    BY <2>1 DEF BindInv
  <2>2. CASE ~stale'
    <3>1. \A r \in Procs : ~Copies(r)'
      BY <1>0, <1>13, <2>2, EndedCopies
      DEF RemoveConf, End, Ended, Idle, Copies, TypeOK
    <3>2. QED
      BY <1>13, <3>1 DEF RemoveConf, BindInv, CopyRight, Usable
  <2>3. QED
    BY <2>1, <2>2
<1>14. QED
  BY <1>2, <1>3, <1>4, <1>5, <1>6, <1>7, <1>8, <1>9, <1>10, <1>11, <1>12,
     <1>13 DEF ClientStep

LEMMA UnitStepBind ==
    ASSUME TypeOK, BindInv, UnitStep
    PROVE  BindInv'
<1>0. Serve \in Procs
  BY DEF Procs
<1>1. CASE StartRequest
  BY <1>0, <1>1, StartJobBind DEF StartRequest
<1>2. CASE StopRequest
  BY <1>0, <1>2, EndedCopies, BindUntouched DEF StopRequest, files, ghosts
<1>3. CASE AutoRestart
  BY <1>0, <1>3, StartJobBind DEF AutoRestart
<1>4. CASE IntervalPasses
  BY <1>4, BindUntouched DEF IntervalPasses, files, ghosts, Copies
<1>5. CASE \E clean \in BOOLEAN : ServerExits(clean)
  BY <1>0, <1>5, EndedCopies, BindUntouched DEF ServerExits, files, ghosts
<1>6. CASE EnsureCredentials
  <2>1. CASE creds = Empty
    BY <1>0, <1>6, <2>1, RaiseBind DEF EnsureCredentials
  <2>2. CASE creds # Empty
    <3>1. ASSUME NEW r \in Procs, Copies(r)'
          PROVE  Copies(r) /\ proc'[r] = proc[r]
      <4>1. CASE creds = Absent
        BY <1>0, <1>6, <2>2, <3>1, <4>1
        DEF EnsureCredentials, Copies, TypeOK, Process
      <4>2. CASE creds # Absent
        BY <1>0, <1>6, <2>2, <3>1, <4>2
        DEF EnsureCredentials, Copies, TypeOK, Process
      <4>3. QED
        BY <4>1, <4>2
    <3>2. QED
      BY <1>6, <2>2, <3>1, BindUntouched DEF EnsureCredentials, files
  <2>3. QED
    BY <2>1, <2>2
<1>7. CASE Exec
  <2>1. CASE proc' = [proc EXCEPT ![Serve].pc = "serving"]
    <3>1. ASSUME NEW r \in Procs, Copies(r)'
          PROVE  Copies(r) /\ proc'[r] = proc[r]
      BY <1>0, <2>1, <3>1 DEF Copies, TypeOK, Process
    <3>2. QED
      BY <1>7, <3>1, BindUntouched DEF Exec, files
  <2>2. CASE Raise(Serve)
    BY <1>0, <1>7, <2>2, RaiseBind DEF Exec
  <2>3. QED
    BY <1>7, <2>1, <2>2 DEF Exec
<1>8. QED
  BY <1>1, <1>2, <1>3, <1>4, <1>5, <1>6, <1>7 DEF UnitStep

LEMMA BindInit == Init => BindInv
<1>1. ASSUME NEW p \in Passwords, NEW b \in Bind
      PROVE  BindOf([address |-> b.address, port |-> b.port, password |-> p]) = b
  BY DEF Bind, BindOf
<1>2. ASSUME Init, NEW q \in Procs
      PROVE  ~Copies(q)
  BY <1>2 DEF Init, Idle, Copies
<1>3. ASSUME NEW p \in Passwords, NEW b \in Bind
      PROVE  [address |-> b.address, port |-> b.port, password |-> p] \in Config
  BY DEF Bind, Config
<1>4. Init => /\ Usable(conf) => BindOf(conf) = wanted
              /\ conf = Absent => wanted = DefaultBind
  BY <1>1, <1>3, MarkAssumption DEF Init, Usable
<1>5. QED
  BY <1>2, <1>4 DEF BindInv, CopyRight

(* A password change, a service start or a reinstall never moves the bind  *)
(* the user chose, whatever else is running, unless the file was read torn *)
(* or a choice landed under somebody's copy of the previous one.           *)
THEOREM BindIsKept == Spec => []BindKept
<1>1. TypeOK /\ BindInv /\ [Next]_vars => BindInv'
  <2> SUFFICES ASSUME TypeOK, BindInv, [Next]_vars PROVE BindInv'
    OBVIOUS
  <2>1. CASE Next
    BY <2>1, FileStepBind, ClientStepBind, UnitStepBind DEF Next
  <2>2. CASE UNCHANGED vars
    BY <2>2 DEF BindInv, CopyRight, Copies, vars
  <2>3. QED
    BY <2>1, <2>2
<1>2. BindInv => BindKept
  BY DEF BindInv, BindKept
<1>3. QED
  BY BindInit, TypeCorrect, <1>1, <1>2, PTL DEF Spec

-----------------------------------------------------------------------------
(* The stored password and bind are in force once every change is over.    *)
(* What has to be remembered is where the unit's main process is, and that *)
(* from the moment it has read the credentials it carries what is stored;  *)
(* nothing is claimed while a change is under way, so a client only has to *)
(* be watched at the step that ends it.                                    *)

Roles ==
    /\ proc[Serve].pc \in {"idle", "ensure_creds", "open_creds", "write_creds",
                          "read_bind", "find_key", "open_key", "generate_key",
                          "read_creds", "open_conf", "write_conf", "exec",
                          "serving"}
    /\ proc[Serve] # Idle => unit.state = "active" /\ proc[Serve].op = "serve"

Carried ==
    /\ proc[Serve].pc \in {"open_conf", "write_conf"} => proc[Serve].pass = creds
    /\ proc[Serve].pc = "exec" => Usable(conf) /\ conf.password = creds
    /\ proc[Serve].pc = "serving" =>
           Usable(server) /\ server = conf /\ server.password = creds

ForceInv == Roles /\ (Quiet /\ ~unapplied => Carried)

(* Before it has read the credentials, the main process carries nothing.   *)
LEMMA CarriesNothing ==
    ASSUME Roles, proc[Serve].pc \notin {"open_conf", "write_conf", "exec", "serving"}
    PROVE  ForceInv
BY DEF ForceInv, Carried

LEMMA StartJobForce ==
    ASSUME TypeOK, NEW q \in Procs, RunStartJob(q)
    PROVE  ForceInv'
<1>1. proc'[Serve] = MainProcess(Started(unit)) /\ unit' = Started(unit)
  BY DEF RunStartJob, TypeOK, Procs
<1>2. Roles' /\ proc'[Serve].pc \in {"idle", "ensure_creds"}
  BY <1>1 DEF Roles, MainProcess, Idle
<1>3. QED
  BY <1>2 DEF ForceInv, Carried

LEMMA ServeEnds ==
    ASSUME TypeOK, End(Serve)
    PROVE  ForceInv'
<1>1. proc'[Serve] = Idle
  BY DEF End, Ended, TypeOK, Procs
<1>2. QED
  BY <1>1 DEF ForceInv, Roles, Carried, Idle

(* A client that moves on is still busy.                                   *)
LEMMA ClientMoves ==
    ASSUME ForceInv, NEW q \in Clients, Busy(q)', proc'[Serve] = proc[Serve],
           unit'.state = unit.state
    PROVE  ForceInv'
<1>1. ~Quiet'
  BY DEF Quiet
<1>2. QED
  BY <1>1 DEF ForceInv, Roles

LEMMA ClientGoes ==
    ASSUME TypeOK, ForceInv, NEW q \in Clients, NEW l \in Positions, Goto(q, l),
           l \notin {"idle", "over", "serving"}, unit'.state = unit.state
    PROVE  ForceInv'
<1>1. proc'[Serve] = proc[Serve] /\ proc'[q].pc = l
  BY ServeAssumption DEF Goto, TypeOK, Procs, Process
<1>2. QED
  BY <1>1, ClientMoves DEF Busy

(* A client that ends without a restart admits it, unless nothing runs.    *)
LEMMA ClientAbandons ==
    ASSUME TypeOK, ForceInv, NEW q \in Clients, End(q), UNCHANGED unit,
           Abandon \/ (proc[Serve] = Idle)
    PROVE  ForceInv'
<1>1. proc'[Serve] = proc[Serve]
  BY ServeAssumption DEF End, TypeOK, Procs
<1>2. CASE proc[Serve] = Idle
  BY <1>1, <1>2 DEF ForceInv, Roles, Carried, Idle
<1>3. CASE proc[Serve] # Idle
  BY <1>1, <1>3 DEF ForceInv, Roles, Abandon
<1>4. QED
  BY <1>2, <1>3

LEMMA ClientRaises ==
    ASSUME TypeOK, ForceInv, NEW q \in Clients, Raise(q)
    PROVE  ForceInv'
BY ServeAssumption, ClientAbandons DEF Raise

LEMMA ClientFileForce ==
    ASSUME TypeOK, ForceInv, NEW q \in Clients, FileStep(q)
    PROVE  ForceInv'
<1>0. q \in Procs /\ Serve \in Procs /\ q # Serve
  BY ServeAssumption DEF Procs
<1>1. CASE OpenCreds(q)
  BY <1>1, ClientGoes DEF OpenCreds, Positions
<1>2. CASE WriteCreds(q)
  <2>1. Busy(q)' /\ proc'[Serve] = proc[Serve]
    BY <1>0, <1>2 DEF WriteCreds, Busy, TypeOK, Process
  <2>2. QED
    BY <1>2, <2>1, ClientMoves DEF WriteCreds
<1>3. CASE CheckCreds(q)
  BY <1>3, ClientGoes, ClientRaises DEF CheckCreds, Positions
<1>4. CASE GiveUpRefresh(q)
  BY <1>4, ClientAbandons DEF GiveUpRefresh
<1>5. CASE ReadBind(q)
  <2>1. Busy(q)' /\ proc'[Serve] = proc[Serve]
    BY <1>0, <1>5 DEF ReadBind, Busy, TypeOK, Process
  <2>2. QED
    BY <1>5, <2>1, ClientMoves DEF ReadBind
<1>6. CASE FindKey(q)
  BY <1>6, ClientGoes DEF FindKey, Positions
<1>7. CASE OpenKey(q)
  BY <1>7, ClientGoes DEF OpenKey, Positions
<1>8. CASE GenerateKey(q)
  BY <1>8, ClientGoes DEF GenerateKey, Positions
<1>9. CASE ReadCreds(q)
  <2>1. CASE creds = Empty
    BY <1>9, <2>1, ClientRaises DEF ReadCreds
  <2>2. CASE creds # Empty
    <3>1. Busy(q)' /\ proc'[Serve] = proc[Serve]
      BY <1>0, <1>9, <2>2 DEF ReadCreds, Busy, TypeOK, Process
    <3>2. QED
      BY <1>9, <2>2, <3>1, ClientMoves DEF ReadCreds
  <2>3. QED
    BY <2>1, <2>2
<1>10. CASE OpenConf(q)
  BY <1>10, ClientGoes DEF OpenConf, Positions
<1>11. CASE WriteConf(q)
  <2>1. CASE proc[q].op = "provision"
    BY <1>11, <2>1, ClientAbandons DEF WriteConf
  <2>2. CASE proc[q].op # "provision"
    <3>1. AfterProvision(proc[q].op) \notin {"idle", "over", "serving"}
      BY <2>2 DEF AfterProvision
    <3>2. proc'[q].pc = AfterProvision(proc[q].op) /\ proc'[Serve] = proc[Serve]
      BY <1>0, <1>11, <2>2 DEF WriteConf, Idle, TypeOK
    <3>3. QED
      BY <1>11, <3>1, <3>2, ClientMoves DEF WriteConf, Busy
  <2>3. QED
    BY <2>1, <2>2
<1>12. CASE Killed(q)
  BY <1>12, ClientRaises DEF Killed
<1>13. QED
  BY <1>1, <1>2, <1>3, <1>4, <1>5, <1>6, <1>7, <1>8, <1>9, <1>10, <1>11,
     <1>12 DEF FileStep

LEMMA ClientStepForce ==
    ASSUME TypeOK, ForceInv, NEW q \in Clients, ClientStep(q)
    PROVE  ForceInv'
<1>0. q \in Procs /\ Serve \in Procs /\ q # Serve
  BY ServeAssumption DEF Procs
<1>1. ASSUME NEW o, NEW l, NEW p, NEW b, Begin(q, o, l, p, b),
             l \notin {"idle", "over", "serving"}
      PROVE  ForceInv'
  <2>1. Busy(q)' /\ proc'[Serve] = proc[Serve]
    BY <1>0, <1>1 DEF Begin, Busy, TypeOK
  <2>2. QED
    BY <1>1, <2>1, ClientMoves DEF Begin
<1>2. CASE BeginCredential(q)
  BY <1>1, <1>2 DEF BeginCredential
<1>3. CASE BeginLanAccess(q)
  BY <1>1, <1>3 DEF BeginLanAccess
<1>4. CASE BeginNetwork(q)
  BY <1>1, <1>4 DEF BeginNetwork
<1>5. CASE BeginUninstall(q)
  BY <1>1, <1>5 DEF BeginUninstall
<1>6. CASE CheckActive(q)
  <2>1. CASE unit.state = "active"
    BY <1>6, <2>1, ClientGoes DEF CheckActive, Positions
  <2>2. CASE unit.state # "active"
    BY <1>6, <2>2, ClientAbandons DEF CheckActive, ForceInv, Roles
  <2>3. QED
    BY <2>1, <2>2
<1>7. CASE Restart(q)
  BY <1>0, <1>7, StartJobForce, ClientAbandons DEF Restart
<1>8. CASE Unmask(q)
  <2>1. unit'.state = unit.state
    BY <1>8 DEF Unmask, TypeOK, Unit
  <2>2. QED
    BY <1>8, <2>1, ClientGoes DEF Unmask, Positions
<1>9. CASE EnableNow(q)
  BY <1>0, <1>9, StartJobForce, ClientAbandons DEF EnableNow
<1>10. CASE DisableNow(q)
  <2>1. proc'[Serve] = Idle
    BY <1>0, <1>10 DEF DisableNow, TypeOK
  <2>2. QED
    BY <2>1 DEF ForceInv, Roles, Carried, Idle
<1>11. CASE Mask(q)
  <2>1. unit'.state = unit.state
    BY <1>11 DEF Mask, TypeOK, Unit
  <2>2. QED
    BY <1>11, <2>1, ClientGoes DEF Mask, Positions
<1>12. CASE RemoveCreds(q)
  BY <1>12, ClientGoes DEF RemoveCreds, Positions
<1>13. CASE RemoveConf(q)
  BY <1>13, ClientAbandons DEF RemoveConf
<1>14. QED
  BY <1>2, <1>3, <1>4, <1>5, <1>6, <1>7, <1>8, <1>9, <1>10, <1>11, <1>12,
     <1>13 DEF ClientStep

LEMMA ServeFileForce ==
    ASSUME TypeOK, ForceInv, FileStep(Serve)
    PROVE  ForceInv'
<1>0. Serve \in Procs
  BY DEF Procs
<1>1. ASSUME NEW l \in {"write_creds", "open_key", "generate_key", "read_creds"},
             proc[Serve] # Idle, UNCHANGED unit, proc'[Serve].pc = l,
             proc'[Serve].op = proc[Serve].op
      PROVE  ForceInv'
  BY <1>1, CarriesNothing DEF ForceInv, Roles, Carried
<1>2. proc[Serve].pc # "idle" => proc[Serve] # Idle
  BY DEF Idle
<1>3. CASE OpenCreds(Serve)
  BY <1>0, <1>1, <1>2, <1>3 DEF OpenCreds, Goto, TypeOK, Process
<1>4. CASE WriteCreds(Serve)
  <2>1. proc[Serve].op = "serve"
    BY <1>2, <1>4 DEF WriteCreds, ForceInv, Roles
  <2>2. proc'[Serve].pc = "read_bind" /\ proc'[Serve].op = "serve"
    BY <1>0, <1>4, <2>1 DEF WriteCreds, TypeOK, Process
  <2>3. QED
    BY <1>2, <1>4, <2>2 DEF WriteCreds, ForceInv, Roles, Carried
<1>5. CASE CheckCreds(Serve)
  BY <1>5 DEF CheckCreds, ForceInv, Roles
<1>6. CASE GiveUpRefresh(Serve)
  BY <1>6, ServeEnds DEF GiveUpRefresh
<1>7. CASE ReadBind(Serve)
  <2>1. proc'[Serve].pc = "find_key" /\ proc'[Serve].op = proc[Serve].op
    BY <1>0, <1>7 DEF ReadBind, TypeOK, Process
  <2>2. QED
    BY <1>2, <1>7, <2>1 DEF ReadBind, ForceInv, Roles, Carried
<1>8. CASE FindKey(Serve)
  BY <1>0, <1>1, <1>2, <1>8 DEF FindKey, Goto, TypeOK, Process
<1>9. CASE OpenKey(Serve)
  BY <1>0, <1>1, <1>2, <1>9 DEF OpenKey, Goto, TypeOK, Process
<1>10. CASE GenerateKey(Serve)
  BY <1>0, <1>1, <1>2, <1>10 DEF GenerateKey, Goto, TypeOK, Process
<1>11. CASE ReadCreds(Serve)
  <2>1. CASE creds = Empty
    BY <1>11, <2>1, ServeEnds DEF ReadCreds, Raise
  <2>2. CASE creds # Empty
    <3>1. /\ proc'[Serve].pc = "open_conf" /\ proc'[Serve].pass = creds
          /\ proc'[Serve].op = proc[Serve].op
      BY <1>0, <1>11, <2>2 DEF ReadCreds, TypeOK, Process
    <3>2. QED
      BY <1>2, <1>11, <2>2, <3>1 DEF ReadCreds, files, ForceInv, Roles, Carried
  <2>3. QED
    BY <2>1, <2>2
<1>12. CASE OpenConf(Serve)
  <2>1. /\ proc'[Serve].pc = "write_conf" /\ proc'[Serve].op = proc[Serve].op
        /\ proc'[Serve].pass = proc[Serve].pass
    BY <1>0, <1>12 DEF OpenConf, Goto, TypeOK, Process
  <2>2. Quiet' = Quiet
    BY <1>0, <1>12, ServeAssumption DEF OpenConf, Goto, Quiet, Busy, TypeOK, Procs
  <2>3. QED
    BY <1>2, <1>12, <2>1, <2>2
    DEF OpenConf, ghosts, ForceInv, Roles, Carried
<1>13. CASE WriteConf(Serve)
  <2>1. proc[Serve].op = "serve"
    BY <1>2, <1>13 DEF WriteConf, ForceInv, Roles
  <2>2. proc'[Serve].pc = "exec" /\ proc'[Serve].op = "serve"
    BY <1>0, <1>13, <2>1 DEF WriteConf, AfterProvision, Idle, TypeOK
  <2>3. Quiet' = Quiet
    BY <1>0, <1>13, <2>1, ServeAssumption
    DEF WriteConf, Quiet, Busy, TypeOK, Procs
  <2>4. Usable(conf)' /\ conf'.password = proc[Serve].pass
    <3>1. conf' \in Config
      BY <1>0, <1>13 DEF WriteConf, TypeOK, Process, Bind, Config
    <3>2. QED
      BY <1>13, <3>1, ConfigBind DEF WriteConf, Usable
  <2>5. QED
    BY <1>2, <1>13, <2>1, <2>2, <2>3, <2>4 DEF WriteConf, ForceInv, Roles, Carried
<1>14. CASE Killed(Serve)
  BY <1>14, ServeEnds DEF Killed, Raise
<1>15. QED
  BY <1>3, <1>4, <1>5, <1>6, <1>7, <1>8, <1>9, <1>10, <1>11, <1>12, <1>13,
     <1>14 DEF FileStep

LEMMA UnitStepForce ==
    ASSUME TypeOK, ForceInv, UnitStep
    PROVE  ForceInv'
<1>0. Serve \in Procs
  BY DEF Procs
<1>1. CASE StartRequest
  BY <1>0, <1>1, StartJobForce DEF StartRequest
<1>2. CASE StopRequest
  BY <1>2, ServeEnds DEF StopRequest
<1>3. CASE AutoRestart
  BY <1>0, <1>3, StartJobForce DEF AutoRestart
<1>4. CASE IntervalPasses
  <2>1. unit'.state = unit.state
    BY <1>4 DEF IntervalPasses, TypeOK, Unit
  <2>2. QED
    BY <1>4, <2>1
    DEF IntervalPasses, files, ghosts, ForceInv, Roles, Carried, Quiet, Busy
<1>5. CASE \E clean \in BOOLEAN : ServerExits(clean)
  BY <1>5, ServeEnds DEF ServerExits
<1>6. CASE EnsureCredentials
  <2>1. CASE creds = Empty
    BY <1>6, <2>1, ServeEnds DEF EnsureCredentials, Raise
  <2>2. CASE creds # Empty
    <3>1. proc'[Serve].pc \in {"open_creds", "read_bind"}
      <4>1. CASE creds = Absent
        BY <1>0, <1>6, <2>2, <4>1 DEF EnsureCredentials, TypeOK, Process
      <4>2. CASE creds # Absent
        BY <1>0, <1>6, <2>2, <4>2 DEF EnsureCredentials, TypeOK, Process
      <4>3. QED
        BY <4>1, <4>2
    <3>2. proc'[Serve].op = proc[Serve].op
      <4>1. CASE creds = Absent
        BY <1>0, <1>6, <2>2, <4>1 DEF EnsureCredentials, TypeOK, Process
      <4>2. CASE creds # Absent
        BY <1>0, <1>6, <2>2, <4>2 DEF EnsureCredentials, TypeOK, Process
      <4>3. QED
        BY <4>1, <4>2
    <3>3. proc[Serve] # Idle /\ UNCHANGED unit
      BY <1>6, <2>2 DEF EnsureCredentials, Idle
    <3>4. QED
      BY <3>1, <3>2, <3>3 DEF ForceInv, Roles, Carried
  <2>3. QED
    BY <2>1, <2>2
<1>7. CASE Exec
  <2>1. CASE Raise(Serve)
    BY <2>1, ServeEnds DEF Raise
  <2>2. CASE ~Raise(Serve)
    <3>1. /\ server' = conf /\ UNCHANGED <<unit, unapplied, files>>
          /\ proc' = [proc EXCEPT ![Serve].pc = "serving"]
      BY <1>7, <2>2 DEF Exec
    <3>2. proc'[Serve].pc = "serving" /\ proc'[Serve].op = proc[Serve].op
      BY <1>0, <3>1 DEF TypeOK, Process
    <3>3. Quiet' = Quiet
      BY <3>1, ServeAssumption DEF Quiet, Busy, TypeOK, Procs
    <3>4. proc[Serve].pc = "exec" /\ proc[Serve] # Idle
      BY <1>7 DEF Exec, Idle
    <3>5. QED
      BY <3>1, <3>2, <3>3, <3>4
      DEF files, ForceInv, Roles, Carried, Usable
  <2>3. QED
    BY <2>1, <2>2
<1>8. QED
  BY <1>1, <1>2, <1>3, <1>4, <1>5, <1>6, <1>7 DEF UnitStep

(* However password changes, network changes, reinstalls, service starts   *)
(* and crashes interleave, once they are over the running server enforces  *)
(* the password and the bind that are stored, unless a change ended        *)
(* without reaching it.                                                    *)
THEOREM StoredIsInForce == Spec => []InForce
<1>1. Init => ForceInv
  BY DEF Init, ForceInv, Roles, Carried, Idle, Procs
<1>2. TypeOK /\ ForceInv /\ [Next]_vars => ForceInv'
  <2> SUFFICES ASSUME TypeOK, ForceInv, [Next]_vars PROVE ForceInv'
    OBVIOUS
  <2>1. CASE Next
    BY <2>1, ClientFileForce, ServeFileForce, ClientStepForce, UnitStepForce
    DEF Next, Procs
  <2>2. CASE UNCHANGED vars
    BY <2>2 DEF ForceInv, Roles, Carried, Quiet, Busy, vars
  <2>3. QED
    BY <2>1, <2>2
<1>3. ForceInv => InForce
  BY DEF ForceInv, Carried, InForce
<1>4. QED
  BY TypeCorrect, <1>1, <1>2, <1>3, PTL DEF Spec
=============================================================================
