--------------------------- MODULE GrdServiceProofs ---------------------------
(***************************************************************************)
(* GrdService, for any set of clients and passwords: type correctness, and *)
(* the three safety properties of its runs.                                *)
(***************************************************************************)
EXTENDS GrdService, TLAPS

(* Who owns the port, and whose pid serve holds.                           *)
OwnerInv ==
    /\ holder = "ours" => daemon.state = "active" /\ daemon.vnc = "up"
    /\ proc[Serve].owner = "current" => daemon.state = "active"
    /\ proc[Serve].pc \in {"wait", "wait_again"} => proc[Serve].owner # "zero"

(* A change that has the password to itself, at each position; and what a  *)
(* service start that comes after it holds.                                *)
PassInv ==
    /\ passClaim = "sole" =>
        \A q \in Procs : ChangesPass(q) => PassAlone(q)
    /\ passClaim # "none" => creds # Absent
    /\ passClaim \in {"stored", "agreed"} =>
        /\ creds = keyring
        /\ \A q \in Clients : ~ChangesPass(q)
    /\ passClaim # "none" => \A q \in Procs :
        /\ proc[q].pc \in SeedPath \cup {"push"} => proc[q].pass = creds
        /\ proc[q].pc = "bounce_password" => keyring = creds
    /\ passClaim = "agreed" /\ daemon.vnc = "up" => daemon.pass = creds

(* The same for the address: it is in wayvnc.conf, and gets from there to  *)
(* the drop-in, to systemd and to the daemon.                              *)
BindInv ==
    /\ bindClaim \in {"none", "sole", "agreed"}
    /\ bindClaim = "sole" =>
        /\ \A q \in Procs : ChangesBind(q) => BindAlone(q)
        /\ \E q \in Clients : proc[q].pc \in BindPath
    /\ bindClaim # "none" => conf # Absent
    /\ bindClaim # "none" => \A q \in Procs :
        /\ proc[q].pc \in {"check_dropin", "write_dropin"} => proc[q].addr = conf
        /\ proc[q].pc \in {"reload", "bounce_bind"} => dropin = conf
        /\ proc[q].pc = "bounce_bind" => loaded = conf
    /\ bindClaim = "agreed" =>
        /\ dropin = conf /\ loaded = conf
        /\ daemon.state = "active" => daemon.addr = conf
        /\ \A q \in Procs : proc[q].pc \in BindPath =>
               q = Serve /\ proc[q].pc \in {"read_bind", "check_dropin"}

-----------------------------------------------------------------------------
(* Type correctness. *)

LEMMA ProcsAre == Serve \in Procs /\ \A q \in Clients : q \in Procs /\ q # Serve
  BY ServeAssumption DEF Procs

LEMMA Kinds ==
    /\ Loopback \in Addresses /\ Lan \in Addresses /\ Absent \notin Addresses
    /\ Generated \in Passwords /\ Absent \notin Passwords
    /\ Foreign # Absent /\ Foreign \notin Passwords
  BY PasswordAssumption, AddressAssumption DEF Addresses

LEMMA IdleType ==
    /\ Idle \in Process
    /\ \A q \in Procs : Ended(q) \in Process /\ Broken(q) \in Process
  BY Kinds DEF Idle, Ended, Broken, Process, Positions

LEMMA DaemonType ==
    ASSUME TypeOK
    PROVE  /\ Launched \in Daemon
           /\ \A s \in {"inactive", "active", "failed"} : Off(s) \in Daemon
           /\ Released \in {"none", "ours", "hidden", "other"}
  <1>1. ListenAddress \in Addresses
    BY Kinds DEF TypeOK, ListenAddress
  <1>2. \A s \in {"inactive", "active", "failed"} : Off(s) \in Daemon
    BY Kinds DEF Off, Daemon
  <1>3. Launched \in Daemon
    BY <1>1, <1>2, Kinds DEF Launched, Off, Daemon
  <1>4. Released \in {"none", "ours", "hidden", "other"}
    BY DEF TypeOK, Released
  <1> QED
    BY <1>2, <1>3, <1>4

(* A step of q leaves the other processes alone; what it leaves behind of  *)
(* q, by the fields that it sets.                                          *)
Moved(q, f) == f \in [Procs -> Process] /\ \A r \in Procs \ {q} : f[r] = proc[r]

LEMMA SetMoves ==
    ASSUME TypeOK, NEW q \in Procs, NEW p \in Process
    PROVE  Moved(q, [proc EXCEPT ![q] = p]) /\ [proc EXCEPT ![q] = p][q] = p
  BY DEF TypeOK, Moved

LEMMA GotoMoves ==
    ASSUME TypeOK, NEW q \in Procs, NEW l \in Positions
    PROVE  LET f == [proc EXCEPT ![q].pc = l]
           IN  /\ Moved(q, f)
               /\ f[q].pc = l
               /\ f[q].pass = proc[q].pass /\ f[q].addr = proc[q].addr
               /\ f[q].owner = proc[q].owner
  <1>1. [proc[q] EXCEPT !.pc = l] \in Process
    BY DEF TypeOK, Process
  <1> QED
    BY <1>1 DEF TypeOK, Moved, Process

LEMMA PassMoves ==
    ASSUME TypeOK, NEW q \in Procs, NEW l \in Positions, NEW p \in Passwords \cup {Absent}
    PROVE  LET f == [proc EXCEPT ![q].pc = l, ![q].pass = p]
           IN  /\ Moved(q, f)
               /\ f[q].pc = l /\ f[q].pass = p /\ f[q].addr = proc[q].addr
               /\ f[q].owner = proc[q].owner
  <1> DEFINE z == [[proc[q] EXCEPT !.pc = l] EXCEPT !.pass = p]
  <1>1. z \in Process /\ z.pc = l /\ z.pass = p /\ z.addr = proc[q].addr
            /\ z.owner = proc[q].owner
    BY DEF TypeOK, Process
  <1>2. [proc EXCEPT ![q].pc = l, ![q].pass = p] = [proc EXCEPT ![q] = z]
    BY DEF TypeOK
  <1> HIDE DEF z
  <1> QED
    BY <1>1, <1>2, SetMoves

LEMMA AddrMoves ==
    ASSUME TypeOK, NEW q \in Procs, NEW l \in Positions, NEW a \in Addresses
    PROVE  LET f == [proc EXCEPT ![q].pc = l, ![q].addr = a]
           IN  /\ Moved(q, f)
               /\ f[q].pc = l /\ f[q].addr = a /\ f[q].pass = proc[q].pass
               /\ f[q].owner = proc[q].owner
  <1> DEFINE z == [[proc[q] EXCEPT !.pc = l] EXCEPT !.addr = a]
  <1>1. z \in Process /\ z.pc = l /\ z.addr = a /\ z.pass = proc[q].pass
            /\ z.owner = proc[q].owner
    BY DEF TypeOK, Process
  <1>2. [proc EXCEPT ![q].pc = l, ![q].addr = a] = [proc EXCEPT ![q] = z]
    BY DEF TypeOK
  <1> HIDE DEF z
  <1> QED
    BY <1>1, <1>2, SetMoves

LEMMA OwnerMoves ==
    ASSUME TypeOK, NEW q \in Procs, NEW l \in Positions,
           NEW o \in {"zero", "current", "gone"}
    PROVE  LET f == [proc EXCEPT ![q].owner = o, ![q].pc = l]
               g == [proc EXCEPT ![q].pc = l, ![q].owner = o]
           IN  /\ Moved(q, f) /\ f[q].pc = l /\ f[q].owner = o
               /\ Moved(q, g) /\ g[q].pc = l /\ g[q].owner = o
  <1> DEFINE z == [[proc[q] EXCEPT !.pc = l] EXCEPT !.owner = o]
  <1> DEFINE y == [[proc[q] EXCEPT !.owner = o] EXCEPT !.pc = l]
  <1>1. z \in Process /\ z.pc = l /\ z.owner = o
    BY DEF TypeOK, Process
  <1>2. y \in Process /\ y.pc = l /\ y.owner = o
    BY DEF TypeOK, Process
  <1>3. /\ [proc EXCEPT ![q].pc = l, ![q].owner = o] = [proc EXCEPT ![q] = z]
        /\ [proc EXCEPT ![q].owner = o, ![q].pc = l] = [proc EXCEPT ![q] = y]
    BY DEF TypeOK
  <1> HIDE DEF z, y
  <1>4. /\ Moved(q, [proc EXCEPT ![q] = z]) /\ [proc EXCEPT ![q] = z][q] = z
        /\ Moved(q, [proc EXCEPT ![q] = y]) /\ [proc EXCEPT ![q] = y][q] = y
    BY <1>1, <1>2, SetMoves
  <1> QED
    BY <1>1, <1>2, <1>3, <1>4

(* A restart of the daemon changes only what a process knows of its pid.   *)
LEMMA ForgottenIs ==
    ASSUME NEW f \in [Procs -> Process]
    PROVE  /\ Forgotten(f) \in [Procs -> Process]
           /\ \A r \in Procs :
                /\ Forgotten(f)[r].pc = f[r].pc
                /\ Forgotten(f)[r].pass = f[r].pass
                /\ Forgotten(f)[r].addr = f[r].addr
                /\ Forgotten(f)[r].owner # "current"
                /\ Forgotten(f)[r].owner = "zero" => f[r].owner = "zero"
  <1>1. \A p \in Process :
            /\ [p EXCEPT !.owner = "gone"] \in Process
            /\ [p EXCEPT !.owner = "gone"].pc = p.pc
            /\ [p EXCEPT !.owner = "gone"].pass = p.pass
            /\ [p EXCEPT !.owner = "gone"].addr = p.addr
            /\ [p EXCEPT !.owner = "gone"].owner = "gone"
    BY DEF Process
  <1> QED
    BY <1>1 DEF Forgotten

LEMMA LaunchType ==
    ASSUME TypeOK, NEW f \in [Procs -> Process], Launch(f) \/ LaunchFails(f)
    PROVE  /\ daemon' \in Daemon
           /\ holder' \in {"none", "ours", "hidden", "other"}
           /\ proc' \in [Procs -> Process]
  BY DaemonType, ForgottenIs DEF Launch, LaunchFails

LEMMA DropsType ==
    ASSUME TypeOK, NEW q, NEW s \in {"stopped", "running", "active"}, Drops(q, s)
    PROVE  /\ served' \in {"stopped", "running", "active"}
           /\ passClaim' \in Claim /\ bindClaim' \in Claim
  BY DEF TypeOK, Drops, Dropped, Claim

LEMMA EndsType ==
    ASSUME TypeOK, NEW q \in Procs, NEW s \in {"stopped", "running", "active"}, Ends(q, s)
    PROVE  /\ proc' \in [Procs -> Process]
           /\ served' \in {"stopped", "running", "active"}
           /\ passClaim' \in Claim /\ bindClaim' \in Claim
  BY DropsType, IdleType, SetMoves DEF Ends, Moved

LEMMA StatusType ==
    ASSUME TypeOK, NEW q PROVE Status(q) \in {"stopped", "running", "active"}
  BY DEF TypeOK, Status

LEMMA BounceFailsType ==
    ASSUME TypeOK, NEW q \in Procs, BounceFails(q), UNCHANGED stored
    PROVE  TypeOK'
  <1>1. [proc EXCEPT ![q] = Broken(q)] \in [Procs -> Process]
    BY IdleType, SetMoves DEF Moved
  <1> QED
    BY <1>1, LaunchType, DropsType, StatusType DEF BounceFails, TypeOK, stored

LEMMA RaiseType ==
    ASSUME TypeOK, NEW q \in Procs, Raise(q), UNCHANGED <<stored, outer>>
    PROVE  TypeOK'
  BY EndsType, StatusType DEF Raise, TypeOK, stored, outer

(* Steps that only move q on, with or without a restart of the daemon.     *)
LEMMA OnlyMoves ==
    ASSUME TypeOK, NEW q \in Procs, Moved(q, proc'),
           UNCHANGED <<stored, outer>>,
           served' \in {"stopped", "running", "active"},
           passClaim' \in Claim, bindClaim' \in Claim
    PROVE  TypeOK'
  BY DEF Moved, TypeOK, stored, outer

LEMMA OnlyLaunches ==
    ASSUME TypeOK, NEW q \in Procs, NEW l \in Positions,
           LET f == [proc EXCEPT ![q].pc = l] IN Launch(f) \/ LaunchFails(f),
           UNCHANGED <<stored, served>>,
           passClaim' \in Claim, bindClaim' \in Claim
    PROVE  TypeOK'
  <1>1. [proc EXCEPT ![q].pc = l] \in [Procs -> Process]
    BY GotoMoves DEF Moved
  <1> QED
    BY <1>1, LaunchType DEF TypeOK, stored

LEMMA ClaimType ==
    ASSUME TypeOK
    PROVE  /\ passClaim \in Claim /\ bindClaim \in Claim
           /\ \A c \in Claim : Dropped(c) \in Claim
           /\ \A c, l \in Claim : Passed(c, l) \in Claim
           /\ {"none", "sole", "stored", "agreed"} \subseteq Claim
  BY DEF TypeOK, Claim, Dropped, Passed

LEMMA TypeInit == Init => TypeOK
  <1>1. Off("inactive") \in Daemon
    BY Kinds DEF Off, Daemon
  <1>2. [q \in Procs |-> Idle] \in [Procs -> Process]
    BY IdleType
  <1> QED
    BY <1>1, <1>2 DEF Init, TypeOK, Claim

LEMMA BindStepType ==
    ASSUME TypeOK, NEW q \in Procs, BindStep(q)
    PROVE  TypeOK'
  <1>0. /\ {"check_dropin", "write_dropin", "verb", "reload", "bounce_bind", "owner", "settle"}
                \subseteq Positions
        /\ Loopback \in Addresses
    BY Kinds DEF Positions, SeedPath, BindPath
  <1>1. CASE ReadBind(q)
    <2> DEFINE a == IF conf = Absent THEN Loopback ELSE conf
    <2>1. a \in Addresses
      BY <1>0 DEF TypeOK
    <2>2. Moved(q, proc')
      BY <1>1, <1>0, <2>1, AddrMoves DEF ReadBind
    <2> QED
      BY <1>1, <2>2, OnlyMoves, ClaimType DEF ReadBind, claims, TypeOK
  <1>2. CASE CheckDropin(q)
    <2>1. Moved(q, proc')
      BY <1>2, <1>0, GotoMoves, AddrMoves, SetMoves, IdleType DEF CheckDropin, Goto, End
    <2>2. bindClaim' \in Claim
      BY <1>2, ClaimType DEF CheckDropin
    <2> QED
      BY <1>2, <2>1, <2>2, OnlyMoves DEF CheckDropin, TypeOK
  <1>3. CASE WriteDropin(q)
    <2>1. proc' \in [Procs -> Process]
      BY <1>3, <1>0, AddrMoves DEF WriteDropin, Moved
    <2>2. proc[q].addr \in Addresses
      BY DEF TypeOK, Process
    <2> QED
      BY <1>3, <2>1, <2>2 DEF WriteDropin, TypeOK, outer, claims
  <1>4. CASE Reload(q)
    <2>1. proc' \in [Procs -> Process]
      BY <1>4, <1>0, GotoMoves DEF Reload, Goto, Moved
    <2>2. bindClaim' \in Claim /\ loaded' \in Addresses \cup {Absent}
      BY <1>4, ClaimType DEF Reload, TypeOK
    <2> QED
      BY <1>4, <2>1, <2>2 DEF Reload, TypeOK, outer
  <1>5. CASE BounceBind(q)
    <2>1. CASE BounceFails(q)
      BY <1>5, <2>1, BounceFailsType DEF BounceBind
    <2>2. CASE daemon.state = "active" /\ ~BounceFails(q)
      BY <1>5, <1>0, <2>2, OnlyLaunches, ClaimType DEF BounceBind, Bounce
    <2>3. CASE daemon.state # "active"
      <3>1. Moved(q, proc')
        BY <1>5, <1>0, <2>3, GotoMoves, SetMoves, IdleType DEF BounceBind, Goto, End
      <3> QED
        BY <1>5, <2>3, <3>1, OnlyMoves, ClaimType DEF BounceBind, TypeOK
    <2> QED
      BY <2>1, <2>2, <2>3
  <1>6. CASE Fails(q)
    BY <1>6, RaiseType DEF Fails
  <1> QED
    BY <1>1, <1>2, <1>3, <1>4, <1>5, <1>6 DEF BindStep

LEMMA ClientStepType ==
    ASSUME TypeOK, NEW q \in Clients, ClientStep(q)
    PROVE  TypeOK'
  <1>0. /\ q \in Procs
        /\ {"compare", "push", "bounce_password", "settle", "settle_again", "read_bind", "over"}
                \subseteq Positions
    BY ProcsAre DEF Positions, BindPath
  <1>1. ASSUME NEW o \in ClientOps, NEW l \in Positions,
               NEW p \in Passwords \cup {Absent}, Call(q, o, l, p)
        PROVE  proc' \in [Procs -> Process]
    <2>1. [Idle EXCEPT !.pc = l, !.op = o, !.pass = p, !.chosen = p] \in Process
      BY Kinds DEF Idle, Process
    <2> QED
      BY <1>0, <1>1, <2>1, SetMoves DEF Call, Moved
  <1>2. CASE StoreCredential(q)
    BY <1>2, <1>0, <1>1, ClaimType DEF StoreCredential, ClientOps, TypeOK, outer
  <1>3. CASE Compare(q)
    <2>0. creds \in Passwords \cup {Absent}
      BY DEF TypeOK
    <2>a. "push" \in Positions
      BY <1>0
    <2>b. Moved(q, [proc EXCEPT ![q].pc = "push", ![q].pass = creds])
      BY <1>0, <2>0, <2>a, PassMoves
    <2>c. Moved(q, [proc EXCEPT ![q] = Ended(q)])
      BY <1>0, SetMoves, IdleType
    <2>1. proc' \in [Procs -> Process]
      BY <1>3, <2>b, <2>c DEF Compare, End, Moved
    <2> QED
      BY <1>3, <2>1, ClaimType DEF Compare, TypeOK, stored, outer
  <1>4. CASE Push(q)
    <2>1. proc' \in [Procs -> Process]
      BY <1>4, <1>0, PassMoves DEF Push, Moved
    <2>2. proc[q].pass \in Passwords \cup {Absent}
      BY <1>0 DEF TypeOK, Process
    <2> QED
      BY <1>4, <2>1, <2>2 DEF Push, TypeOK, outer, claims
  <1>5. CASE BouncePassword(q)
    <2>1. CASE BounceFails(q)
      BY <1>5, <1>0, <2>1, BounceFailsType DEF BouncePassword
    <2>2. CASE ~BounceFails(q)
      BY <1>5, <1>0, <2>2, OnlyLaunches, ClaimType DEF BouncePassword, Bounce
    <2> QED
      BY <2>1, <2>2
  <1>6. CASE Settle(q)
    <2>1. CASE daemon.state = "failed" /\ proc[q].pc = "settle"
      BY <1>6, <1>0, <2>1, OnlyLaunches, ClaimType DEF Settle, Bounce, claims
    <2>2. CASE ~(daemon.state = "failed" /\ proc[q].pc = "settle")
      <3>1. Moved(q, proc')
        BY <1>6, <1>0, <2>2, SetMoves, IdleType DEF Settle, End
      <3> QED
        BY <1>6, <1>0, <2>2, <3>1, OnlyMoves, ClaimType DEF Settle, claims, TypeOK
    <2> QED
      BY <2>1, <2>2
  <1>7. CASE StoreNetwork(q)
    BY <1>7, <1>0, <1>1, ClaimType DEF StoreNetwork, ClientOps, TypeOK, outer
  <1> QED
    BY <1>2, <1>3, <1>4, <1>5, <1>6, <1>7 DEF ClientStep

LEMMA ServeStepType ==
    ASSUME TypeOK, ServeStep
    PROVE  TypeOK'
  <1>0. /\ Serve \in Procs
        /\ SeedPath \cup {"ensure", "read_bind", "owner", "wait", "look", "wait_free",
                          "again", "owner_again", "wait_again"} \subseteq Positions
    BY ProcsAre DEF Positions, BindPath
  <1>a. SeedPath = {"query", "enable", "configure", "seed", "adopt"}
    BY DEF SeedPath
  <1>b. ASSUME NEW l \in Positions, Goto(Serve, l), UNCHANGED <<stored, outer, served, claims>>
        PROVE  TypeOK'
    BY <1>0, <1>b, OnlyMoves, GotoMoves, ClaimType DEF Goto, claims, TypeOK
  <1>c. ASSUME ToBind(Serve)
        PROVE  proc' \in [Procs -> Process] /\ bindClaim' \in Claim
    BY <1>0, <1>c, PassMoves, ClaimType DEF ToBind, Moved
  <1>1. CASE ServeStarts
    <2>1. [Idle EXCEPT !.pc = "ensure", !.op = "serve"] \in Process
      BY <1>0, Kinds DEF Idle, Process
    <2> QED
      BY <1>1, <1>0, <2>1, SetMoves, OnlyMoves, ClaimType DEF ServeStarts, claims
  <1>2. CASE ServeStops
    BY <1>2, <1>0, EndsType DEF ServeStops, TypeOK, stored, outer
  <1>3. CASE EnsureCredentials
    <2>1. creds' \in Passwords \cup {Absent}
      BY <1>3, Kinds DEF EnsureCredentials, TypeOK
    <2>a. "query" \in Positions
      BY <1>0, <1>a
    <2>b. Moved(Serve, [proc EXCEPT ![Serve].pc = "query", ![Serve].pass = creds'])
      BY <1>0, <2>1, <2>a, PassMoves
    <2>2. proc' \in [Procs -> Process]
      BY <1>3, <2>b DEF EnsureCredentials, Moved
    <2> QED
      BY <1>3, <2>1, <2>2, ClaimType DEF EnsureCredentials, TypeOK, outer
  <1>4. CASE QueryEnabled
    BY <1>4, <1>0, <1>a, <1>b DEF QueryEnabled
  <1>5. CASE Enable
    BY <1>5, <1>0, <1>a, GotoMoves DEF Enable, Goto, Moved, TypeOK, outer, claims
  <1>6. CASE Configure
    BY <1>6, <1>0, <1>a, <1>b DEF Configure
  <1>7. CASE Seed
    <2>1. proc[Serve].pass \in Passwords \cup {Absent}
      BY <1>0 DEF TypeOK, Process
    <2> QED
      BY <1>7, <1>c, <2>1, ClaimType DEF Seed, TypeOK, outer
  <1>8. CASE Adopt
    <2>1. creds' \in Passwords \cup {Absent}
      BY <1>8 DEF Adopt, Adopted, TypeOK
    <2> QED
      BY <1>8, <1>c, <2>1, ClaimType DEF Adopt, TypeOK, outer
  <1>9. CASE Start
    <2>1. CASE daemon.state = "active"
      BY <1>9, <1>0, <1>b, <2>1 DEF Start, claims, outer, stored
    <2>2. CASE BounceFails(Serve)
      BY <1>9, <1>0, <2>2, BounceFailsType DEF Start
    <2>3. CASE daemon.state # "active" /\ ~BounceFails(Serve)
      BY <1>9, <1>0, <2>3, OnlyLaunches, ClaimType DEF Start, Bounce, claims
    <2> QED
      BY <2>1, <2>2, <2>3
  <1>10. CASE ReadOwner
    <2>1. CASE Raise(Serve)
      BY <1>10, <1>0, <2>1, RaiseType DEF ReadOwner
    <2>2. CASE ~Raise(Serve)
      <3>1. MainPid \in {"zero", "current", "gone"}
        BY DEF MainPid
      <3>2. proc[Serve].pc \in {"owner", "owner_again"}
        BY <1>10 DEF ReadOwner
      <3>3. PICK l \in {"look", "wait", "wait_again"} :
                proc' = [proc EXCEPT ![Serve].owner = MainPid, ![Serve].pc = l]
        BY <1>10, <2>2, <3>2 DEF ReadOwner
      <3>4. l \in Positions
        BY <1>0
      <3>5. Moved(Serve, [proc EXCEPT ![Serve].owner = MainPid, ![Serve].pc = l])
        BY <1>0, <3>1, <3>4, OwnerMoves
      <3> QED
        BY <1>10, <1>0, <2>2, <3>3, <3>5, OnlyMoves, ClaimType DEF ReadOwner, claims, TypeOK
    <2> QED
      BY <2>1, <2>2
  <1>11. CASE ListenerFound
    <2>1. Moved(Serve, proc')
      BY <1>11, <1>0, SetMoves, IdleType DEF ListenerFound, End
    <2> QED
      BY <1>11, <1>0, <2>1, OnlyMoves, ClaimType DEF ListenerFound, claims
  <1>12. CASE ListenerMissing
    <2>1. CASE Raise(Serve)
      BY <1>12, <1>0, <2>1, RaiseType DEF ListenerMissing
    <2>2. CASE ~Raise(Serve)
      <3>1. "look" \in Positions
        BY <1>0
      <3>2. Moved(Serve, [proc EXCEPT ![Serve].pc = "look", ![Serve].owner = "zero"])
        BY <1>0, <3>1, OwnerMoves
      <3> QED
        BY <1>12, <1>0, <2>2, <3>2, OnlyMoves, ClaimType DEF ListenerMissing, claims, TypeOK
    <2> QED
      BY <2>1, <2>2
  <1>13. CASE LookForHolder
    BY <1>13, <1>0, <1>b DEF LookForHolder
  <1>14. CASE PortFree
    BY <1>14, <1>0, <1>b, RaiseType DEF PortFree, stored, outer, claims
  <1>15. CASE RestartAgain
    BY <1>15, <1>0, OnlyLaunches, ClaimType DEF RestartAgain, Bounce, claims
  <1> QED
    BY <1>1, <1>2, <1>3, <1>4, <1>5, <1>6, <1>7, <1>8, <1>9, <1>10, <1>11, <1>12,
       <1>13, <1>14, <1>15 DEF ServeStep

LEMMA EnvironmentType ==
    ASSUME TypeOK, Environment
    PROVE  TypeOK'
  <1>1. CASE DaemonStarts
    BY <1>1, LaunchType DEF DaemonStarts, TypeOK, stored, claims
  <1>2. CASE VncStarts
    <2>1. daemon' \in Daemon
      BY <1>2 DEF VncStarts, TypeOK, Daemon
    <2> QED
      BY <1>2, <2>1 DEF VncStarts, TypeOK, stored, claims
  <1>3. CASE DaemonCrashes
    BY <1>3, DaemonType, ForgottenIs DEF DaemonCrashes, TypeOK, stored, claims
  <1>4. CASE ImpostorComes \/ ImpostorGoes
    BY <1>4 DEF ImpostorComes, ImpostorGoes, TypeOK, stored, claims
  <1>5. CASE SettingsPassword
    BY <1>5 DEF SettingsPassword, TypeOK, outer, Claim
  <1>6. CASE SettingsToggle
    <2>1. [daemon EXCEPT !.vnc = "off", !.pass = Absent] \in Daemon
      <3>1. [daemon EXCEPT !.vnc = "off"] \in Daemon
        BY DEF TypeOK, Daemon
      <3>2. [[daemon EXCEPT !.vnc = "off"] EXCEPT !.pass = Absent] \in Daemon
        BY <3>1 DEF Daemon
      <3> QED
        BY <3>2
    <2>2. daemon' \in Daemon /\ holder' \in {"none", "ours", "hidden", "other"}
      BY <1>6, <2>1, DaemonType DEF SettingsToggle, TypeOK, outer
    <2>3. enabled' \in BOOLEAN
      BY <1>6 DEF SettingsToggle
    <2> QED
      BY <1>6, <2>2, <2>3 DEF SettingsToggle, TypeOK, Claim
  <1> QED
    BY <1>1, <1>2, <1>3, <1>4, <1>5, <1>6 DEF Environment

LEMMA TypeNext == TypeOK /\ [Next]_vars => TypeOK'
  <1>1. TypeOK /\ Next => TypeOK'
    BY BindStepType, ClientStepType, ServeStepType, EnvironmentType DEF Next
  <1>2. TypeOK /\ UNCHANGED vars => TypeOK'
    BY DEF TypeOK, vars
  <1> QED
    BY <1>1, <1>2

(* Every reachable state has the type that the module declares.            *)
THEOREM TypeCorrect == Spec => []TypeOK
  BY TypeInit, TypeNext, PTL DEF Spec

-----------------------------------------------------------------------------
(* Success means that the port is ours. *)

Waits == {"wait", "wait_again"}

(* What a step may do to serve's own record without a look at the daemon.  *)
OwnerKept(old, new) ==
    /\ new.pc \in Waits => old.pc \in Waits /\ new.owner = old.owner
    /\ new.owner \in {old.owner, "zero"}

LEMMA OwnerQuiet ==
    ASSUME TypeOK, OwnerInv, UNCHANGED outer, OwnerKept(proc[Serve], proc'[Serve])
    PROVE  OwnerInv'
  BY DEF OwnerInv, OwnerKept, Waits, outer

LEMMA OwnerLaunch ==
    ASSUME TypeOK, OwnerInv, NEW f \in [Procs -> Process], Launch(f) \/ LaunchFails(f),
           f[Serve].pc \in Waits => f[Serve].owner # "zero"
    PROVE  OwnerInv'
  <1>1. Released # "ours"
    BY DEF Released
  <1> QED
    BY <1>1, ForgottenIs, ProcsAre DEF OwnerInv, Launch, LaunchFails, Waits

LEMMA IdleIs ==
    /\ \A q : Ended(q).owner = "zero" /\ Broken(q).owner = "zero"
    /\ \A q : Ended(q).pc \in {"idle", "over"} /\ Broken(q).pc \in {"idle", "failed"}
    /\ \A q : q # Serve => Ended(q).pc = "over" /\ Broken(q).pc = "failed"
    /\ Ended(Serve).pc = "idle" /\ Broken(Serve).pc = "idle"
  BY DEF Idle, Ended, Broken

LEMMA OwnerEnds ==
    ASSUME TypeOK, NEW q \in Procs, NEW p \in {Ended(q), Broken(q)}
    PROVE  OwnerKept(proc[Serve], [proc EXCEPT ![q] = p][Serve])
  <1>1. CASE q = Serve
    BY <1>1, IdleIs DEF TypeOK, OwnerKept, Waits
  <1>2. CASE q # Serve
    BY <1>2, ProcsAre DEF TypeOK, OwnerKept
  <1> QED
    BY <1>1, <1>2

LEMMA OwnerGoes ==
    ASSUME TypeOK, NEW q \in Procs, NEW f, Moved(q, f),
           f[q].pc \notin Waits, f[q].owner = proc[q].owner
    PROVE  OwnerKept(proc[Serve], f[Serve])
  BY ProcsAre DEF Moved, OwnerKept

(* No step to a position other than the waits disturbs what serve holds.   *)
LEMMA OwnerMovesOn ==
    ASSUME TypeOK, NEW q \in Procs, NEW l \in Positions \ Waits,
           NEW a \in Addresses, NEW p \in Passwords \cup {Absent}
    PROVE  /\ OwnerKept(proc[Serve], [proc EXCEPT ![q].pc = l][Serve])
           /\ OwnerKept(proc[Serve], [proc EXCEPT ![q].pc = l, ![q].addr = a][Serve])
           /\ OwnerKept(proc[Serve], [proc EXCEPT ![q].pc = l, ![q].pass = p][Serve])
  <1>0. l \in Positions /\ l \notin Waits
    OBVIOUS
  <1> DEFINE f == [proc EXCEPT ![q].pc = l]
             g == [proc EXCEPT ![q].pc = l, ![q].addr = a]
             h == [proc EXCEPT ![q].pc = l, ![q].pass = p]
  <1>1. Moved(q, f) /\ f[q].pc = l /\ f[q].owner = proc[q].owner
    BY <1>0, GotoMoves
  <1>2. Moved(q, g) /\ g[q].pc = l /\ g[q].owner = proc[q].owner
    <2> DEFINE z == [[proc[q] EXCEPT !.pc = l] EXCEPT !.addr = a]
    <2>1. z \in Process /\ z.pc = l /\ z.owner = proc[q].owner
      BY DEF TypeOK, Process
    <2>2. g = [proc EXCEPT ![q] = z]
      BY DEF TypeOK
    <2> HIDE DEF z, g
    <2> QED
      BY <2>1, <2>2, SetMoves
  <1>3. Moved(q, h) /\ h[q].pc = l /\ h[q].owner = proc[q].owner
    <2> DEFINE z == [[proc[q] EXCEPT !.pc = l] EXCEPT !.pass = p]
    <2>1. z \in Process /\ z.pc = l /\ z.owner = proc[q].owner
      BY DEF TypeOK, Process
    <2>2. h = [proc EXCEPT ![q] = z]
      BY DEF TypeOK
    <2> HIDE DEF z, h
    <2> QED
      BY <2>1, <2>2, SetMoves
  <1> HIDE DEF f, g, h
  <1>4. OwnerKept(proc[Serve], f[Serve]) /\ OwnerKept(proc[Serve], g[Serve])
            /\ OwnerKept(proc[Serve], h[Serve])
    BY <1>0, <1>1, <1>2, <1>3, OwnerGoes
  <1> QED
    BY <1>4 DEF f, g, h

LEMMA OwnerBounce ==
    ASSUME TypeOK, OwnerInv, NEW q \in Procs, NEW l \in Positions \ Waits,
           LET f == [proc EXCEPT ![q].pc = l] IN Launch(f) \/ LaunchFails(f)
    PROVE  OwnerInv'
  <1> DEFINE f == [proc EXCEPT ![q].pc = l]
  <1>1. Moved(q, f) /\ f[q].pc = l
    BY GotoMoves
  <1>2. f \in [Procs -> Process]
    BY <1>1 DEF Moved
  <1>3. f[Serve].pc \in Waits => f[Serve].owner # "zero"
    BY <1>1, ProcsAre DEF Moved, OwnerInv, Waits
  <1>4. Launch(f) \/ LaunchFails(f)
    OBVIOUS
  <1> HIDE DEF f
  <1> QED
    BY <1>2, <1>3, <1>4, OwnerLaunch

LEMMA OwnerBounceFails ==
    ASSUME TypeOK, OwnerInv, NEW q \in Procs, BounceFails(q)
    PROVE  OwnerInv'
  <1> DEFINE f == [proc EXCEPT ![q] = Broken(q)]
  <1>1. Moved(q, f)
    BY IdleType, SetMoves
  <1>2. OwnerKept(proc[Serve], f[Serve])
    BY OwnerEnds
  <1>3. f \in [Procs -> Process] /\ LaunchFails(f)
    BY <1>1 DEF Moved, BounceFails
  <1> HIDE DEF f
  <1>4. f[Serve].pc \in Waits => f[Serve].owner # "zero"
    BY <1>2 DEF OwnerKept, OwnerInv, Waits
  <1> QED
    BY <1>3, <1>4, OwnerLaunch

LEMMA OwnerRaise ==
    ASSUME TypeOK, OwnerInv, NEW q \in Procs, NEW s, Ends(q, s), UNCHANGED outer
    PROVE  OwnerInv'
  BY OwnerEnds, OwnerQuiet DEF Ends

(* Where the steps go, none of which is a wait. *)
LEMMA NoWait ==
    {"idle", "over", "failed", "ensure", "verb", "owner", "look", "wait_free", "again",
     "owner_again", "compare", "push", "bounce_password", "settle", "settle_again"}
        \cup SeedPath \cup BindPath \subseteq Positions \ Waits
  BY DEF Positions, Waits, SeedPath, BindPath

LEMMA OwnerBindStep ==
    ASSUME TypeOK, OwnerInv, NEW q \in Procs, BindStep(q)
    PROVE  OwnerInv'
  <1>0. /\ {"check_dropin", "write_dropin", "reload", "bounce_bind", "verb", "owner", "settle"}
               \subseteq Positions \ Waits
        /\ Loopback \in Addresses
    BY NoWait, Kinds DEF BindPath
  <1>1. CASE ReadBind(q)
    <2> DEFINE a == IF conf = Absent THEN Loopback ELSE conf
    <2>1. a \in Addresses
      BY <1>0 DEF TypeOK
    <2>2. OwnerKept(proc[Serve], proc'[Serve])
      BY <1>1, <1>0, <2>1, OwnerMovesOn DEF ReadBind
    <2> QED
      BY <1>1, <2>2, OwnerQuiet DEF ReadBind
  <1>2. CASE CheckDropin(q)
    <2>1. OwnerKept(proc[Serve], proc'[Serve])
      BY <1>2, <1>0, OwnerMovesOn, OwnerEnds DEF CheckDropin, Goto, End
    <2> QED
      BY <1>2, <2>1, OwnerQuiet DEF CheckDropin
  <1>3. CASE WriteDropin(q)
    BY <1>3, <1>0, OwnerMovesOn, OwnerQuiet DEF WriteDropin
  <1>4. CASE Reload(q)
    <2>1. "bounce_bind" \in Positions \ Waits
      BY <1>0
    <2>2. OwnerKept(proc[Serve], [proc EXCEPT ![q].pc = "bounce_bind"][Serve])
      BY <2>1, Kinds, OwnerMovesOn
    <2> QED
      BY <1>4, <2>2, OwnerQuiet DEF Reload, Goto
  <1>5. CASE BounceBind(q)
    <2>1. CASE BounceFails(q)
      BY <2>1, OwnerBounceFails
    <2>2. CASE daemon.state = "active" /\ ~BounceFails(q)
      BY <1>5, <1>0, <2>2, OwnerBounce DEF BounceBind, Bounce
    <2>3. CASE daemon.state # "active"
      BY <1>5, <1>0, <2>3, Kinds, OwnerMovesOn, OwnerEnds, OwnerQuiet
      DEF BounceBind, Goto, End
    <2> QED
      BY <2>1, <2>2, <2>3
  <1>6. CASE Fails(q)
    BY <1>6, OwnerRaise DEF Fails, Raise
  <1> QED
    BY <1>1, <1>2, <1>3, <1>4, <1>5, <1>6 DEF BindStep

LEMMA OwnerClientStep ==
    ASSUME TypeOK, OwnerInv, NEW q \in Clients, ClientStep(q)
    PROVE  OwnerInv'
  <1>0. q \in Procs /\ q # Serve /\ Serve \in Procs
    BY ProcsAre
  <1>a. /\ {"settle", "settle_again"} \subseteq Positions \ Waits
    BY NoWait
  <1>1. ASSUME UNCHANGED outer, proc'[Serve] = proc[Serve]
        PROVE  OwnerInv'
    BY <1>1, OwnerQuiet DEF OwnerKept
  <1>2. CASE StoreCredential(q)
    BY <1>0, <1>1, <1>2 DEF StoreCredential, Call, TypeOK
  <1>3. CASE Compare(q)
    BY <1>0, <1>1, <1>3 DEF Compare, End, TypeOK
  <1>4. CASE Push(q)
    BY <1>0, <1>1, <1>4 DEF Push, TypeOK
  <1>5. CASE BouncePassword(q)
    BY <1>0, <1>5, <1>a, OwnerBounce, OwnerBounceFails DEF BouncePassword, Bounce
  <1>6. CASE Settle(q)
    <2>1. CASE UNCHANGED outer
      BY <1>0, <1>6, <1>a, <2>1, OwnerBounce, <1>1 DEF Settle, End, TypeOK, Bounce
    <2>2. CASE ~UNCHANGED outer
      BY <1>0, <1>6, <1>a, <2>2, OwnerBounce DEF Settle, Bounce
    <2> QED
      BY <2>1, <2>2
  <1>7. CASE StoreNetwork(q)
    BY <1>0, <1>1, <1>7 DEF StoreNetwork, Call, TypeOK
  <1> QED
    BY <1>2, <1>3, <1>4, <1>5, <1>6, <1>7 DEF ClientStep

LEMMA OwnerServeStep ==
    ASSUME TypeOK, OwnerInv, ServeStep
    PROVE  OwnerInv'
  <1>0. /\ Serve \in Procs
        /\ SeedPath \cup {"ensure", "read_bind", "owner", "look", "wait_free",
                          "again", "owner_again"} \subseteq Positions \ Waits
    BY ProcsAre, NoWait DEF BindPath
  <1>a. SeedPath = {"query", "enable", "configure", "seed", "adopt"}
    BY DEF SeedPath
  <1>b. ASSUME NEW l \in Positions \ Waits, Goto(Serve, l), UNCHANGED outer
        PROVE  OwnerInv'
    BY <1>0, <1>b, Kinds, OwnerMovesOn, OwnerQuiet DEF Goto
  <1>c. ASSUME NEW l \in Positions \ Waits, NEW p \in Passwords \cup {Absent},
               proc' = [proc EXCEPT ![Serve].pc = l, ![Serve].pass = p], UNCHANGED outer
        PROVE  OwnerInv'
    <2>1. OwnerKept(proc[Serve], proc'[Serve])
      BY <1>0, <1>c, Kinds, OwnerMovesOn
    <2> QED
      BY <1>c, <2>1, OwnerQuiet
  <1>1. CASE ServeStarts
    <2>1. proc'[Serve].pc = "ensure" /\ proc'[Serve].owner = "zero"
      BY <1>0, <1>1 DEF ServeStarts, Idle, TypeOK
    <2> QED
      BY <1>1, <2>1, OwnerQuiet DEF ServeStarts, OwnerKept, Waits
  <1>2. CASE ServeStops
    BY <1>2, <1>0, OwnerRaise DEF ServeStops
  <1>3. CASE EnsureCredentials
    <2>1. creds' \in Passwords \cup {Absent}
      BY <1>3, Kinds DEF EnsureCredentials, TypeOK
    <2> QED
      BY <1>3, <1>0, <1>a, <1>c, <2>1 DEF EnsureCredentials
  <1>4. CASE QueryEnabled
    BY <1>4, <1>0, <1>a, <1>b DEF QueryEnabled
  <1>5. CASE Enable
    BY <1>5, <1>0, <1>a, <1>b DEF Enable
  <1>6. CASE Configure
    BY <1>6, <1>0, <1>a, <1>b DEF Configure
  <1>7. CASE Seed
    BY <1>7, <1>0, <1>c DEF Seed, ToBind
  <1>8. CASE Adopt
    BY <1>8, <1>0, <1>c DEF Adopt, ToBind
  <1>9. CASE Start
    <2>1. CASE daemon.state = "active"
      BY <1>9, <1>0, <1>b, <2>1 DEF Start
    <2>2. CASE BounceFails(Serve)
      BY <1>0, <2>2, OwnerBounceFails
    <2>3. CASE daemon.state # "active" /\ ~BounceFails(Serve)
      BY <1>9, <1>0, <2>3, OwnerBounce DEF Start, Bounce
    <2> QED
      BY <2>1, <2>2, <2>3
  <1>10. CASE ReadOwner
    <2>1. CASE Raise(Serve)
      BY <1>10, <1>0, <2>1, OwnerRaise DEF ReadOwner, Raise
    <2>2. CASE ~Raise(Serve)
      <3>1. proc[Serve].pc \in {"owner", "owner_again"}
        BY <1>10 DEF ReadOwner
      <3>2. PICK l \in Positions :
                /\ proc' = [proc EXCEPT ![Serve].owner = MainPid, ![Serve].pc = l]
                /\ MainPid = "zero" => l \notin Waits
        BY <1>10, <2>2, <3>1 DEF ReadOwner, Waits, Positions
      <3>3. MainPid \in {"zero", "current"} /\ (MainPid = "current" => daemon.state = "active")
        BY DEF MainPid
      <3>4. proc'[Serve].pc = l /\ proc'[Serve].owner = MainPid
        <4>1. MainPid \in {"zero", "current", "gone"}
          BY <3>3
        <4> DEFINE z == [[proc[Serve] EXCEPT !.owner = MainPid] EXCEPT !.pc = l]
        <4>2. z \in Process /\ z.pc = l /\ z.owner = MainPid
          BY <1>0, <4>1 DEF TypeOK, Process
        <4>3. proc' = [proc EXCEPT ![Serve] = z]
          BY <1>0, <3>2 DEF TypeOK
        <4> HIDE DEF z
        <4> QED
          BY <1>0, <4>2, <4>3, SetMoves
      <3> QED
        BY <1>10, <3>2, <3>3, <3>4 DEF ReadOwner, OwnerInv, Waits, outer
    <2> QED
      BY <2>1, <2>2
  <1>11. CASE ListenerFound
    BY <1>11, <1>0, OwnerEnds, OwnerQuiet DEF ListenerFound, End
  <1>12. CASE ListenerMissing
    <2>1. CASE Raise(Serve)
      BY <1>12, <1>0, <2>1, OwnerRaise DEF ListenerMissing, Raise
    <2>2. CASE ~Raise(Serve)
      <3>1. "look" \in Positions \ Waits
        BY <1>0
      <3>2. LET f == [proc EXCEPT ![Serve].pc = "look", ![Serve].owner = "zero"]
            IN  f[Serve].pc = "look" /\ f[Serve].owner = "zero"
        <4> DEFINE z == [[proc[Serve] EXCEPT !.pc = "look"] EXCEPT !.owner = "zero"]
        <4>1. z \in Process /\ z.pc = "look" /\ z.owner = "zero"
          BY <1>0, <3>1 DEF TypeOK, Process
        <4>2. [proc EXCEPT ![Serve].pc = "look", ![Serve].owner = "zero"]
                  = [proc EXCEPT ![Serve] = z]
          BY <1>0 DEF TypeOK
        <4> HIDE DEF z
        <4> QED
          BY <1>0, <4>1, <4>2, SetMoves
      <3> QED
        BY <1>12, <2>2, <3>1, <3>2, OwnerQuiet DEF ListenerMissing, OwnerKept
    <2> QED
      BY <2>1, <2>2
  <1>13. CASE LookForHolder
    BY <1>13, <1>0, <1>b DEF LookForHolder
  <1>14. CASE PortFree
    BY <1>14, <1>0, <1>b, OwnerRaise DEF PortFree, Raise
  <1>15. CASE RestartAgain
    BY <1>15, <1>0, OwnerBounce DEF RestartAgain, Bounce
  <1> QED
    BY <1>1, <1>2, <1>3, <1>4, <1>5, <1>6, <1>7, <1>8, <1>9, <1>10, <1>11, <1>12,
       <1>13, <1>14, <1>15 DEF ServeStep

LEMMA OwnerEnvironment ==
    ASSUME TypeOK, OwnerInv, Environment
    PROVE  OwnerInv'
  <1>0. Released # "ours"
    BY DEF Released
  <1>1. CASE DaemonStarts
    <2>1. proc \in [Procs -> Process] /\ (proc[Serve].pc \in Waits => proc[Serve].owner # "zero")
      BY DEF TypeOK, OwnerInv, Waits
    <2> QED
      BY <1>1, <2>1, OwnerLaunch DEF DaemonStarts
  <1>2. CASE VncStarts
    BY <1>2 DEF VncStarts, OwnerInv, TypeOK, Daemon
  <1>3. CASE DaemonCrashes
    <2>1. proc \in [Procs -> Process]
      BY DEF TypeOK
    <2> QED
      BY <1>0, <1>3, <2>1, ForgottenIs, ProcsAre DEF DaemonCrashes, OwnerInv
  <1>4. CASE ImpostorComes \/ ImpostorGoes
    BY <1>4 DEF ImpostorComes, ImpostorGoes, OwnerInv
  <1>5. CASE SettingsPassword
    BY <1>5 DEF SettingsPassword, OwnerInv, outer
  <1>6. CASE SettingsToggle
    <2>1. daemon'.state = daemon.state
      BY <1>6 DEF SettingsToggle, outer, TypeOK, Daemon
    <2> QED
      BY <1>0, <1>6, <2>1 DEF SettingsToggle, OwnerInv, outer
  <1> QED
    BY <1>1, <1>2, <1>3, <1>4, <1>5, <1>6 DEF Environment

LEMMA OwnerInit == Init => OwnerInv
  BY ProcsAre DEF Init, OwnerInv, Idle

LEMMA OwnerNext == TypeOK /\ OwnerInv /\ [Next]_vars => OwnerInv'
  <1>1. TypeOK /\ OwnerInv /\ Next => OwnerInv'
    BY OwnerBindStep, OwnerClientStep, OwnerServeStep, OwnerEnvironment DEF Next
  <1>2. OwnerInv /\ UNCHANGED vars => OwnerInv'
    BY DEF OwnerInv, vars
  <1> QED
    BY <1>1, <1>2

(* serve's success, as the run grd_port checks it: the pid that serve read *)
(* is this daemon's, still, when the poll finds it on port 5900.           *)
THEOREM SuccessNeedsTheServer == Spec => SuccessIsOurs
  <1>1. ASSUME TypeOK, OwnerInv, [Next]_vars
        PROVE  [served # "active" /\ served' = "active"
                  => daemon.state = "active" /\ daemon.vnc = "up" /\ holder = "ours"]_vars
    <2>1. SUFFICES ASSUME Next, served # "active", served' = "active"
                   PROVE  daemon.state = "active" /\ daemon.vnc = "up" /\ holder = "ours"
      BY <1>1
    <2>2. \A q : Drops(q, "stopped") \/ Drops(q, Status(q)) => FALSE
      BY <2>1 DEF Drops, Status
    <2>3. ASSUME NEW q \in Procs, BindStep(q) PROVE FALSE
      BY <2>1, <2>2, <2>3 DEF BindStep, ReadBind, CheckDropin, WriteDropin, Reload,
         BounceBind, BounceFails, Fails, Raise, Ends
    <2>4. ASSUME NEW q \in Clients, ClientStep(q) PROVE FALSE
      BY <2>1, <2>2, <2>4 DEF ClientStep, StoreCredential, Compare, Push, BouncePassword,
         BounceFails, Settle, StoreNetwork
    <2>5. ~Environment
      BY <2>1 DEF Environment, DaemonStarts, VncStarts, DaemonCrashes, ImpostorComes,
         ImpostorGoes, SettingsPassword, SettingsToggle
    <2>6. ServeStep
      BY <2>1, <2>3, <2>4, <2>5 DEF Next
    <2>7. ListenerFound
      BY <2>1, <2>2, <2>6 DEF ServeStep, ServeStarts, ServeStops, EnsureCredentials,
         QueryEnabled, Enable, Configure, Seed, Adopt, Start, BounceFails, ReadOwner,
         ListenerMissing, LookForHolder, PortFree, RestartAgain, Raise, Ends
    <2>8. Listener = proc[Serve].owner /\ proc[Serve].owner # "zero"
      BY <1>1, <2>7 DEF ListenerFound, OwnerInv
    <2>9. proc[Serve].owner \in {"current", "gone"}
      BY <1>1, <2>8, ProcsAre DEF TypeOK, Process
    <2>10. holder = "ours"
      BY <1>1, <2>8, <2>9 DEF Listener, TypeOK
    <2> QED
      BY <1>1, <2>10 DEF OwnerInv
  <1> QED
    BY <1>1, TypeInit, TypeNext, OwnerInit, OwnerNext, PTL DEF Spec, SuccessIsOurs

-----------------------------------------------------------------------------
(* The password. *)

PassPath == SeedPath \cup {"compare", "push", "bounce_password"}

(* What a step may do to a process's record without a look at the password.*)
PassKept(old, new) ==
    /\ new.pc \in PassPath => old.pc \in PassPath
    /\ new.pc \in SeedPath \cup {"push"} =>
           old.pc \in SeedPath \cup {"push"} /\ new.pass = old.pass
    /\ new.pc = "bounce_password" => old.pc = "bounce_password"

LEMMA PassNone == passClaim' = "none" => PassInv'
  BY DEF PassInv

LEMMA PassQuiet ==
    ASSUME PassInv, UNCHANGED <<creds, keyring>>, passClaim' \in {passClaim, "none"},
           \A r \in Procs : PassKept(proc[r], proc'[r]),
           daemon'.vnc = "up" => daemon.vnc = "up" /\ daemon'.pass = daemon.pass
    PROVE  PassInv'
  <1>1. CASE passClaim' = "none"
    BY <1>1, PassNone
  <1>2. CASE passClaim' # "none"
    <2>0. passClaim' = passClaim
      BY <1>2
    <2>1. \A r \in Procs : ChangesPass(r)' => ChangesPass(r)
      BY DEF PassKept, PassPath, ChangesPass
    <2>2. \A r \in Procs : PassAlone(r) => PassAlone(r)'
      BY <2>1 DEF PassAlone
    <2>3. passClaim = "sole" => \A r \in Procs : ChangesPass(r)' => PassAlone(r)'
      BY <2>1, <2>2 DEF PassInv
    <2>4. passClaim \in {"stored", "agreed"} => \A r \in Clients : ~ChangesPass(r)'
      BY <2>1, ProcsAre DEF PassInv
    <2>5. passClaim # "none" => \A r \in Procs :
              /\ proc'[r].pc \in SeedPath \cup {"push"} => proc'[r].pass = creds
              /\ proc'[r].pc = "bounce_password" => keyring = creds
      BY DEF PassInv, PassKept
    <2> QED
      BY <2>0, <2>3, <2>4, <2>5 DEF PassInv
  <1> QED
    BY <1>1, <1>2

LEMMA PassLaunch ==
    ASSUME PassInv, UNCHANGED <<creds, keyring>>, passClaim' \in {passClaim, "none"},
           NEW f \in [Procs -> Process], Launch(f) \/ LaunchFails(f),
           \A r \in Procs : PassKept(proc[r], f[r])
    PROVE  PassInv'
  <1>1. daemon'.vnc = "off"
    BY DEF Launch, LaunchFails, Launched, Off
  <1>2. \A r \in Procs : PassKept(proc[r], proc'[r])
    BY ForgottenIs DEF Launch, LaunchFails, PassKept
  <1> QED
    BY <1>1, <1>2, PassQuiet

LEMMA PassSame == \A p : PassKept(p, p)
  BY DEF PassKept

LEMMA PassEnds ==
    ASSUME TypeOK, NEW q \in Procs, NEW p \in {Ended(q), Broken(q)}
    PROVE  \A r \in Procs : PassKept(proc[r], [proc EXCEPT ![q] = p][r])
  <1>1. p.pc \in {"idle", "over", "failed"}
    BY IdleIs
  <1>2. PassKept(proc[q], p)
    BY <1>1 DEF PassKept, PassPath, SeedPath
  <1> QED
    BY <1>2, PassSame DEF TypeOK

(* No step to a position off the path, or further on it without a change   *)
(* of what the process holds, disturbs the password.                       *)
LEMMA PassMovesOn ==
    ASSUME TypeOK, NEW q \in Procs, NEW l \in Positions,
           l \in PassPath => l \in SeedPath /\ proc[q].pc \in SeedPath
    PROVE  \A r \in Procs : PassKept(proc[r], [proc EXCEPT ![q].pc = l][r])
  <1> DEFINE f == [proc EXCEPT ![q].pc = l]
  <1>1. Moved(q, f) /\ f[q].pc = l /\ f[q].pass = proc[q].pass
    BY GotoMoves
  <1> HIDE DEF f
  <1>2. PassKept(proc[q], f[q])
    BY <1>1 DEF PassKept, PassPath, SeedPath
  <1>3. \A r \in Procs : PassKept(proc[r], f[r])
    BY <1>1, <1>2, PassSame DEF Moved
  <1> QED
    BY <1>3 DEF f

LEMMA AddrMovesOn ==
    ASSUME TypeOK, NEW q \in Procs, NEW l \in Positions \ PassPath, NEW a \in Addresses
    PROVE  \A r \in Procs : PassKept(proc[r], [proc EXCEPT ![q].pc = l, ![q].addr = a][r])
  <1> DEFINE z == [[proc[q] EXCEPT !.pc = l] EXCEPT !.addr = a]
  <1>1. z.pc = l
    BY DEF TypeOK, Process
  <1>2. [proc EXCEPT ![q].pc = l, ![q].addr = a] = [proc EXCEPT ![q] = z]
    BY DEF TypeOK
  <1> HIDE DEF z
  <1>3. PassKept(proc[q], z)
    BY <1>1 DEF PassKept, PassPath
  <1> QED
    BY <1>2, <1>3, PassSame DEF TypeOK

LEMMA PassBounce ==
    ASSUME TypeOK, PassInv, NEW q \in Procs, NEW l \in Positions \ PassPath,
           LET f == [proc EXCEPT ![q].pc = l] IN Launch(f) \/ LaunchFails(f),
           UNCHANGED <<creds, keyring>>, passClaim' \in {passClaim, "none"}
    PROVE  PassInv'
  <1> DEFINE f == [proc EXCEPT ![q].pc = l]
  <1>1. f \in [Procs -> Process]
    BY GotoMoves DEF Moved
  <1>2. \A r \in Procs : PassKept(proc[r], f[r])
    BY PassMovesOn
  <1>3. Launch(f) \/ LaunchFails(f)
    OBVIOUS
  <1> HIDE DEF f
  <1> QED
    BY <1>1, <1>2, <1>3, PassLaunch

LEMMA PassBounceFails ==
    ASSUME TypeOK, PassInv, NEW q \in Procs, BounceFails(q), UNCHANGED stored
    PROVE  PassInv'
  <1> DEFINE f == [proc EXCEPT ![q] = Broken(q)]
  <1>1. f \in [Procs -> Process]
    BY IdleType, SetMoves DEF Moved
  <1>2. \A r \in Procs : PassKept(proc[r], f[r])
    BY PassEnds
  <1>3. LaunchFails(f)
    BY DEF BounceFails
  <1>4. passClaim' \in {passClaim, "none"} /\ UNCHANGED <<creds, keyring>>
    BY DEF BounceFails, Drops, Dropped, stored
  <1> HIDE DEF f
  <1> QED
    BY <1>1, <1>2, <1>3, <1>4, PassLaunch

LEMMA PassRaise ==
    ASSUME TypeOK, PassInv, NEW q \in Procs, NEW s, Ends(q, s), UNCHANGED <<stored, outer>>
    PROVE  PassInv'
  <1>1. passClaim' \in {passClaim, "none"}
    BY DEF Ends, Drops, Dropped
  <1> QED
    BY <1>1, PassEnds, PassQuiet DEF Ends, stored, outer

(* Where the steps go that have nothing to do with the password. *)
LEMMA OffPath ==
    {"idle", "over", "failed", "ensure", "verb", "owner", "wait", "look", "wait_free", "again",
     "owner_again", "wait_again", "settle", "settle_again"}
        \cup BindPath \subseteq Positions \ PassPath
  BY DEF Positions, PassPath, SeedPath, BindPath

LEMMA PassBindStep ==
    ASSUME TypeOK, PassInv, NEW q \in Procs, BindStep(q)
    PROVE  PassInv'
  <1>0. /\ {"check_dropin", "write_dropin", "reload", "bounce_bind", "verb", "owner", "settle"}
               \subseteq Positions \ PassPath
        /\ Loopback \in Addresses
    BY OffPath, Kinds DEF BindPath
  <1>a. ASSUME \A r \in Procs : PassKept(proc[r], proc'[r]),
               UNCHANGED <<creds, keyring, outer, passClaim>>
        PROVE  PassInv'
    BY <1>a, PassQuiet DEF outer
  <1>1. CASE ReadBind(q)
    <2> DEFINE a == IF conf = Absent THEN Loopback ELSE conf
    <2>1. a \in Addresses
      BY <1>0 DEF TypeOK
    <2>2. \A r \in Procs : PassKept(proc[r], proc'[r])
      BY <1>1, <1>0, <2>1, AddrMovesOn DEF ReadBind
    <2> QED
      BY <1>1, <1>a, <2>2 DEF ReadBind, stored, claims
  <1>2. CASE CheckDropin(q)
    <2>1. \A r \in Procs : PassKept(proc[r], proc'[r])
      BY <1>2, <1>0, PassMovesOn, AddrMovesOn, PassEnds DEF CheckDropin, Goto, End
    <2> QED
      BY <1>2, <1>a, <2>1 DEF CheckDropin, stored
  <1>3. CASE WriteDropin(q)
    <2>1. \A r \in Procs : PassKept(proc[r], proc'[r])
      BY <1>3, <1>0, AddrMovesOn DEF WriteDropin
    <2> QED
      BY <1>3, <1>a, <2>1 DEF WriteDropin, claims
  <1>4. CASE Reload(q)
    <2>1. \A r \in Procs : PassKept(proc[r], proc'[r])
      BY <1>4, <1>0, PassMovesOn DEF Reload, Goto
    <2> QED
      BY <1>4, <1>a, <2>1 DEF Reload, claims
  <1>5. CASE BounceBind(q)
    <2>1. CASE BounceFails(q)
      BY <1>5, <2>1, PassBounceFails DEF BounceBind
    <2>2. CASE daemon.state = "active" /\ ~BounceFails(q)
      BY <1>5, <1>0, <2>2, PassBounce DEF BounceBind, Bounce, stored
    <2>3. CASE daemon.state # "active"
      <3>1. \A r \in Procs : PassKept(proc[r], proc'[r])
        BY <1>5, <1>0, <2>3, PassMovesOn, PassEnds DEF BounceBind, Goto, End
      <3> QED
        BY <1>5, <1>a, <2>3, <3>1 DEF BounceBind, stored
    <2> QED
      BY <2>1, <2>2, <2>3
  <1>6. CASE Fails(q)
    BY <1>6, PassRaise DEF Fails, Raise
  <1> QED
    BY <1>1, <1>2, <1>3, <1>4, <1>5, <1>6 DEF BindStep

(* What a change that still has a claim knows at its own steps.            *)
LEMMA PassClaimIs ==
    ASSUME TypeOK, PassInv, NEW q \in Clients, ChangesPass(q)
    PROVE  /\ passClaim \in {"none", "sole"}
           /\ passClaim = "sole" =>
                \A r \in Procs \ {q} : proc[r].pc \notin PassPath
  <1>1. passClaim \in {"none", "sole"}
    BY DEF PassInv, TypeOK, Claim
  <1>2. passClaim = "sole" => PassAlone(q)
    BY ProcsAre DEF PassInv
  <1> QED
    BY <1>1, <1>2 DEF PassAlone, ChangesPass, PassPath

(* A step to a claim that is alone: only the one process is on the path.   *)
LEMMA PassSole ==
    ASSUME NEW q \in Procs, \A r \in Procs \ {q} : proc'[r].pc \notin PassPath,
           passClaim' = "sole", creds' # Absent,
           proc'[q].pc \in SeedPath \cup {"push"} => proc'[q].pass = creds',
           proc'[q].pc = "bounce_password" => keyring' = creds'
    PROVE  PassInv'
  <1>1. \A r \in Procs : ChangesPass(r)' => r = q
    BY DEF ChangesPass, PassPath
  <1>2. \A r \in Procs : ChangesPass(r)' => PassAlone(r)'
    BY <1>1 DEF PassAlone
  <1>3. \A r \in Procs :
          /\ proc'[r].pc \in SeedPath \cup {"push"} => proc'[r].pass = creds'
          /\ proc'[r].pc = "bounce_password" => keyring' = creds'
    BY DEF PassPath
  <1> QED
    BY <1>2, <1>3 DEF PassInv

(* A step to the end of a change: nobody but serve may be at work on it.   *)
LEMMA PassStored ==
    ASSUME \A r \in Procs : proc'[r].pc \notin PassPath,
           creds' # Absent, creds' = keyring',
           passClaim' = "agreed" /\ daemon'.vnc = "up" => daemon'.pass = creds'
    PROVE  PassInv'
  <1>1. \A r \in Procs : ~ChangesPass(r)'
    BY DEF ChangesPass, PassPath
  <1> QED
    BY <1>1, ProcsAre DEF PassInv, PassPath

LEMMA PassClientStep ==
    ASSUME TypeOK, PassInv, NEW q \in Clients, ClientStep(q)
    PROVE  PassInv'
  <1>0. q \in Procs /\ q # Serve /\ Serve \in Procs
    BY ProcsAre
  <1>a. {"settle", "settle_again"} \subseteq Positions \ PassPath
    BY OffPath
  <1>b. {"compare", "push", "bounce_password"} \subseteq PassPath
    BY DEF PassPath
  <1>1. CASE StoreCredential(q)
    <2>1. CASE passClaim' = "none"
      BY <2>1, PassNone
    <2>2. CASE passClaim' # "none"
      <3>1. PICK p \in Passwords : Call(q, "set_credential", "compare", p) /\ creds' = p
        BY <1>1 DEF StoreCredential
      <3>2. proc'[q].pc = "compare" /\ \A r \in Procs \ {q} : proc'[r] = proc[r]
        BY <1>0, <3>1 DEF Call, TypeOK, Idle
      <3>3. passClaim' = "sole" /\ PassAlone(q)
        BY <1>1, <2>2 DEF StoreCredential
      <3>4. \A r \in Procs \ {q} : proc'[r].pc \notin PassPath
        BY <3>2, <3>3 DEF PassAlone, ChangesPass, PassPath
      <3>5. creds' # Absent
        BY <3>1, Kinds
      <3>6. proc'[q].pc \notin SeedPath \cup {"push", "bounce_password"}
        BY <3>2 DEF SeedPath
      <3> QED
        BY <1>0, <3>3, <3>4, <3>5, <3>6, PassSole
    <2> QED
      BY <2>1, <2>2
  <1>2. CASE Compare(q)
    <2>1. ChangesPass(q)
      BY <1>2 DEF Compare, ChangesPass
    <2>2. CASE passClaim = "none"
      BY <1>2, <2>2, PassNone DEF Compare, Passed
    <2>3. CASE passClaim # "none"
      <3>1. /\ passClaim = "sole" /\ creds # Absent
            /\ \A r \in Procs \ {q} : proc[r].pc \notin PassPath
        BY <2>1, <2>3, PassClaimIs DEF PassInv
      <3>2. CASE keyring = creds /\ End(q) /\ passClaim' = Passed(passClaim, "stored")
        <4>1. /\ \A r \in Procs \ {q} : proc'[r] = proc[r]
              /\ proc'[q].pc = "over"
          BY <1>0, <1>2, <3>2, IdleIs DEF Compare, End, TypeOK
        <4>2. \A r \in Procs : proc'[r].pc \notin PassPath
          BY <3>1, <4>1 DEF PassPath, SeedPath
        <4>3. passClaim' = "stored"
          BY <1>2, <3>1, <3>2 DEF Compare, Passed
        <4> QED
          BY <1>2, <3>1, <3>2, <4>2, <4>3, PassStored DEF Compare, stored
      <3>3. CASE /\ proc' = [proc EXCEPT ![q].pc = "push", ![q].pass = creds]
                 /\ UNCHANGED passClaim
        <4> DEFINE z == [[proc[q] EXCEPT !.pc = "push"] EXCEPT !.pass = creds]
        <4>1. z.pc = "push" /\ z.pass = creds
          BY <1>0 DEF TypeOK, Process
        <4>2. proc' = [proc EXCEPT ![q] = z]
          BY <1>0, <1>2, <3>3 DEF Compare, TypeOK
        <4> HIDE DEF z
        <4>3. proc'[q] = z /\ \A r \in Procs \ {q} : proc'[r] = proc[r]
          BY <1>0, <4>2 DEF TypeOK
        <4>4. passClaim' = "sole" /\ creds' = creds
          BY <1>2, <3>1, <3>3 DEF Compare, stored
        <4> QED
          BY <1>0, <3>1, <4>1, <4>3, <4>4, PassSole
      <3> QED
        BY <1>2, <3>2, <3>3 DEF Compare
    <2> QED
      BY <2>2, <2>3
  <1>3. CASE Push(q)
    <2>1. ChangesPass(q)
      BY <1>3 DEF Push, ChangesPass
    <2>2. CASE passClaim = "none"
      BY <1>3, <2>2, PassNone DEF Push, claims
    <2>3. CASE passClaim # "none"
      <3>1. /\ passClaim = "sole" /\ creds # Absent
            /\ \A r \in Procs \ {q} : proc[r].pc \notin PassPath
        BY <2>1, <2>3, PassClaimIs DEF PassInv
      <3>2. proc[q].pass = creds
        BY <1>0, <1>3, <2>3 DEF Push, PassInv
      <3> DEFINE z == [[proc[q] EXCEPT !.pc = "bounce_password"] EXCEPT !.pass = Absent]
      <3>3. z.pc = "bounce_password"
        BY <1>0 DEF TypeOK, Process
      <3>4. proc' = [proc EXCEPT ![q] = z]
        BY <1>0, <1>3 DEF Push, TypeOK
      <3> HIDE DEF z
      <3>5. proc'[q] = z /\ \A r \in Procs \ {q} : proc'[r] = proc[r]
        BY <1>0, <3>4 DEF TypeOK
      <3>6. passClaim' = "sole" /\ creds' = creds /\ keyring' = creds
        BY <1>3, <3>1, <3>2 DEF Push, claims
      <3>7. proc'[q].pc \notin SeedPath \cup {"push"}
        BY <3>3, <3>5 DEF SeedPath
      <3> QED
        BY <1>0, <3>1, <3>5, <3>6, <3>7, PassSole
    <2> QED
      BY <2>2, <2>3
  <1>4. CASE BouncePassword(q)
    <2>1. CASE BounceFails(q)
      BY <1>0, <1>4, <2>1, PassBounceFails DEF BouncePassword
    <2>2. CASE ~BounceFails(q)
      <3>1. ChangesPass(q)
        BY <1>4 DEF BouncePassword, ChangesPass
      <3>2. Launch([proc EXCEPT ![q].pc = "settle"])
        BY <1>4, <2>2 DEF BouncePassword, Bounce
      <3>3. CASE passClaim = "none"
        BY <1>4, <2>2, <3>3, PassNone DEF BouncePassword, Passed
      <3>4. CASE passClaim # "none"
        <4>1. /\ passClaim = "sole" /\ creds # Absent
              /\ \A r \in Procs \ {q} : proc[r].pc \notin PassPath
          BY <3>1, <3>4, PassClaimIs DEF PassInv
        <4>2. keyring = creds
          BY <1>0, <1>4, <3>4 DEF BouncePassword, PassInv
        <4>3. daemon'.vnc = "off"
          BY <3>2 DEF Launch, Launched, Off
        <4> DEFINE f == [proc EXCEPT ![q].pc = "settle"]
        <4>4. Moved(q, f) /\ f[q].pc = "settle"
          BY <1>0, <1>a, GotoMoves
        <4>5. proc' = Forgotten(f)
          BY <3>2 DEF Launch
        <4> HIDE DEF f
        <4>6. \A r \in Procs : proc'[r].pc = f[r].pc
          BY <4>4, <4>5, ForgottenIs DEF Moved
        <4>7. \A r \in Procs : proc'[r].pc \notin PassPath
          BY <1>a, <4>1, <4>4, <4>6 DEF Moved
        <4>8. UNCHANGED <<creds, keyring>>
          BY <1>4 DEF BouncePassword, stored
        <4> QED
          BY <4>1, <4>2, <4>3, <4>7, <4>8, PassStored
      <3> QED
        BY <3>3, <3>4
    <2> QED
      BY <2>1, <2>2
  <1>5. CASE Settle(q)
    <2>0. UNCHANGED <<creds, keyring, passClaim>>
      BY <1>5 DEF Settle, stored, claims
    <2>1. CASE daemon.state = "failed" /\ proc[q].pc = "settle"
      BY <1>5, <1>0, <1>a, <2>0, <2>1, PassBounce DEF Settle, Bounce
    <2>2. CASE ~(daemon.state = "failed" /\ proc[q].pc = "settle")
      BY <1>5, <1>0, <2>0, <2>2, PassEnds, PassQuiet DEF Settle, End, outer
    <2> QED
      BY <2>1, <2>2
  <1>6. CASE StoreNetwork(q)
    <2>1. PICK o \in {"apply_network", "provision"} :
              Call(q, o, IF o = "provision" THEN "over" ELSE "read_bind", Absent)
      BY <1>6 DEF StoreNetwork
    <2>2. proc'[q].pc \in {"over", "read_bind"} /\ \A r \in Procs \ {q} : proc'[r] = proc[r]
      BY <1>0, <2>1 DEF Call, TypeOK, Idle
    <2>3. \A r \in Procs : PassKept(proc[r], proc'[r])
      BY <2>2, PassSame DEF PassKept, PassPath, SeedPath
    <2> QED
      BY <1>6, <2>3, PassQuiet DEF StoreNetwork, outer
  <1> QED
    BY <1>1, <1>2, <1>3, <1>4, <1>5, <1>6 DEF ClientStep

LEMMA PassServeStep ==
    ASSUME TypeOK, PassInv, ServeStep
    PROVE  PassInv'
  <1>0. Serve \in Procs
    BY ProcsAre
  <1>a. /\ SeedPath = {"query", "enable", "configure", "seed", "adopt"}
        /\ SeedPath \subseteq Positions /\ SeedPath \subseteq PassPath
        /\ {"ensure", "read_bind", "owner", "wait", "wait_again", "look", "wait_free", "again",
            "owner_again"} \subseteq Positions \ PassPath
    BY OffPath DEF SeedPath, Positions, PassPath, BindPath
  <1>b. ASSUME \A r \in Procs : PassKept(proc[r], proc'[r]),
               UNCHANGED <<stored, outer, claims>>
        PROVE  PassInv'
    BY <1>b, PassQuiet DEF stored, outer, claims
  <1>c. ASSUME NEW l \in Positions \ PassPath, Goto(Serve, l),
               UNCHANGED <<stored, outer, claims>>
        PROVE  PassInv'
    BY <1>0, <1>b, <1>c, PassMovesOn DEF Goto
  <1>d. ASSUME NEW l \in SeedPath, proc[Serve].pc \in SeedPath, Goto(Serve, l),
               UNCHANGED <<creds, keyring, outer, claims>>
        PROVE  PassInv'
    BY <1>0, <1>a, <1>d, PassMovesOn, PassQuiet DEF Goto, outer, claims
  (* Who starts alone, or reaches the end of the path, is alone on it.     *)
  <1>e. ASSUME proc[Serve].pc \in SeedPath, passClaim = "sole"
        PROVE  \A r \in Procs \ {Serve} : proc[r].pc \notin PassPath
    BY <1>0, <1>e DEF PassInv, ChangesPass, PassAlone, PassPath
  <1>f. ASSUME passClaim \in {"stored", "agreed"}
        PROVE  \A r \in Procs \ {Serve} : proc[r].pc \notin PassPath
    BY <1>f DEF PassInv, ChangesPass, PassPath, Procs
  <1>g. ASSUME ToBind(Serve)
        PROVE  /\ proc'[Serve].pc = "read_bind"
               /\ \A r \in Procs \ {Serve} : proc'[r] = proc[r]
    <2> DEFINE z == [[proc[Serve] EXCEPT !.pc = "read_bind"] EXCEPT !.pass = Absent]
    <2>1. z.pc = "read_bind"
      BY <1>0 DEF TypeOK, Process
    <2>2. proc' = [proc EXCEPT ![Serve] = z]
      BY <1>0, <1>g DEF ToBind, TypeOK
    <2> HIDE DEF z
    <2> QED
      BY <1>0, <2>1, <2>2 DEF TypeOK
  <1>1. CASE ServeStarts
    <2>1. proc'[Serve].pc = "ensure" /\ \A r \in Procs \ {Serve} : proc'[r] = proc[r]
      BY <1>0, <1>1 DEF ServeStarts, Idle, TypeOK
    <2>2. \A r \in Procs : PassKept(proc[r], proc'[r])
      BY <2>1, PassSame DEF PassKept, PassPath, SeedPath
    <2> QED
      BY <1>1, <1>b, <2>2 DEF ServeStarts
  <1>2. CASE ServeStops
    BY <1>2, <1>0, PassRaise DEF ServeStops
  <1>3. CASE EnsureCredentials
    <2>1. CASE passClaim' = "none"
      BY <2>1, PassNone
    <2>2. CASE passClaim' # "none"
      <3> DEFINE z == [[proc[Serve] EXCEPT !.pc = "query"] EXCEPT !.pass = creds']
      <3>1. z.pc = "query" /\ z.pass = creds'
        BY <1>0 DEF TypeOK, Process
      <3>2. proc' = [proc EXCEPT ![Serve] = z]
        BY <1>0, <1>3 DEF EnsureCredentials, TypeOK
      <3> HIDE DEF z
      <3>3. proc'[Serve] = z /\ \A r \in Procs \ {Serve} : proc'[r] = proc[r]
        BY <1>0, <3>2 DEF TypeOK
      <3>4. PassAlone(Serve) /\ passClaim' = IF passClaim = "none" THEN "sole" ELSE passClaim
        BY <1>3, <2>2 DEF EnsureCredentials
      <3>5. \A r \in Procs \ {Serve} : proc'[r].pc \notin PassPath
        BY <3>3, <3>4 DEF PassAlone, ChangesPass, PassPath
      <3>6. creds' # Absent /\ (creds # Absent => creds' = creds)
        BY <1>3, Kinds DEF EnsureCredentials
      <3>7. CASE passClaim' = "sole"
        BY <1>0, <3>1, <3>3, <3>5, <3>6, <3>7, PassSole
      <3>8. CASE passClaim' # "sole"
        <4>1. passClaim \in {"stored", "agreed"} /\ passClaim' = passClaim
          BY <2>2, <3>4, <3>8 DEF TypeOK, Claim
        <4>2. creds' = creds
          BY <3>6, <4>1 DEF PassInv
        <4>3. UNCHANGED <<keyring, daemon>>
          BY <1>3 DEF EnsureCredentials, outer
        <4>4. \A r \in Clients : ~ChangesPass(r)'
          BY <3>5, ProcsAre DEF ChangesPass, PassPath
        <4>5. \A r \in Procs :
                /\ proc'[r].pc \in SeedPath \cup {"push"} => proc'[r].pass = creds'
                /\ proc'[r].pc # "bounce_password"
          BY <3>1, <3>3, <3>5 DEF PassPath
        <4>6. creds = keyring /\ (passClaim = "agreed" /\ daemon.vnc = "up" => daemon.pass = creds)
          BY <4>1 DEF PassInv
        <4> QED
          BY <3>6, <4>1, <4>2, <4>3, <4>4, <4>5, <4>6 DEF PassInv
      <3> QED
        BY <3>7, <3>8
    <2> QED
      BY <2>1, <2>2
  <1>4. CASE QueryEnabled
    BY <1>4, <1>a, <1>d DEF QueryEnabled, stored
  <1>5. CASE Enable
    BY <1>5, <1>a, <1>d DEF Enable
  <1>6. CASE Configure
    BY <1>6, <1>a, <1>d DEF Configure, stored
  <1>7. CASE Seed
    <2>1. CASE passClaim = "none"
      BY <1>7, <2>1, PassNone DEF Seed, Passed
    <2>2. CASE passClaim # "none"
      <3>1. proc[Serve].pass = creds /\ creds # Absent
        BY <1>7, <1>0, <1>a, <2>2 DEF Seed, PassInv
      <3>2. \A r \in Procs \ {Serve} : proc[r].pc \notin PassPath
        BY <1>7, <1>a, <1>e, <1>f, <2>2 DEF Seed, TypeOK, Claim
      <3>3. \A r \in Procs : proc'[r].pc \notin PassPath
        BY <1>7, <1>a, <1>g, <3>2 DEF Seed
      <3>4. passClaim' = "agreed" => passClaim = "agreed"
        BY <1>7 DEF Seed, Passed
      <3>5. creds' = creds /\ keyring' = creds /\ UNCHANGED daemon
        BY <1>7, <3>1 DEF Seed, outer
      <3>6. passClaim' = "agreed" /\ daemon'.vnc = "up" => daemon'.pass = creds'
        BY <3>4, <3>5 DEF PassInv
      <3> QED
        BY <3>1, <3>3, <3>5, <3>6, PassStored
    <2> QED
      BY <2>1, <2>2
  <1>8. CASE Adopt
    <2>1. CASE passClaim' = "none"
      BY <2>1, PassNone
    <2>2. CASE passClaim' # "none"
      <3>0. passClaim # "none"
        BY <1>8, <2>2 DEF Adopt, Passed, Dropped
      <3>1. proc[Serve].pass = creds /\ creds # Absent
        BY <1>8, <1>0, <1>a, <3>0 DEF Adopt, PassInv
      <3>2. \A r \in Procs \ {Serve} : proc[r].pc \notin PassPath
        BY <1>8, <1>a, <1>e, <1>f, <3>0 DEF Adopt, TypeOK, Claim
      <3>3. \A r \in Procs : proc'[r].pc \notin PassPath
        BY <1>8, <1>a, <1>g, <3>2 DEF Adopt
      <3>4. CASE passClaim = "sole"
        <4>1. keyring \in Passwords /\ passClaim' = "stored" /\ creds' = Adopted
          BY <1>8, <2>2, <3>4 DEF Adopt, Passed, Dropped
        <4>2. creds' = keyring /\ keyring' = keyring
          BY <1>8, <3>1, <4>1 DEF Adopt, Adopted
        <4> QED
          BY <3>3, <4>1, <4>2, Kinds, PassStored
      <3>5. CASE passClaim # "sole"
        <4>1. creds = keyring /\ passClaim' = passClaim
          BY <1>8, <3>0, <3>5 DEF Adopt, Passed, Dropped, PassInv, TypeOK, Claim
        <4>2. creds' = creds /\ keyring' = keyring /\ UNCHANGED daemon
          BY <1>8, <3>1, <4>1 DEF Adopt, Adopted, outer
        <4>3. passClaim' = "agreed" /\ daemon'.vnc = "up" => daemon'.pass = creds'
          BY <4>1, <4>2 DEF PassInv
        <4> QED
          BY <3>1, <3>3, <4>1, <4>2, <4>3, PassStored
      <3> QED
        BY <3>4, <3>5
    <2> QED
      BY <2>1, <2>2
  <1>9. CASE Start
    <2>0. UNCHANGED <<creds, keyring>>
      BY <1>9 DEF Start, stored
    <2>1. CASE daemon.state = "active"
      BY <1>9, <1>a, <1>c, <2>1 DEF Start
    <2>2. CASE BounceFails(Serve)
      BY <1>9, <1>0, <2>2, PassBounceFails DEF Start
    <2>3. CASE daemon.state # "active" /\ ~BounceFails(Serve)
      BY <1>9, <1>0, <1>a, <2>0, <2>3, PassBounce DEF Start, Bounce, claims
    <2> QED
      BY <2>1, <2>2, <2>3
  <1>10. CASE ReadOwner
    <2>1. CASE Raise(Serve)
      BY <1>10, <1>0, <2>1, PassRaise DEF ReadOwner, Raise
    <2>2. CASE ~Raise(Serve)
      <3>1. proc[Serve].pc \in {"owner", "owner_again"}
        BY <1>10 DEF ReadOwner
      <3>2. PICK l \in {"look", "wait", "wait_again"} :
                proc' = [proc EXCEPT ![Serve].owner = MainPid, ![Serve].pc = l]
        BY <1>10, <2>2, <3>1 DEF ReadOwner
      <3> DEFINE z == [[proc[Serve] EXCEPT !.owner = MainPid] EXCEPT !.pc = l]
      <3>3. z.pc = l
        BY <1>0 DEF TypeOK, Process
      <3>4. proc' = [proc EXCEPT ![Serve] = z]
        BY <1>0, <3>2 DEF TypeOK
      <3> HIDE DEF z
      <3>5. PassKept(proc[Serve], z)
        BY <1>a, <3>3 DEF PassKept, PassPath
      <3>6. \A r \in Procs : PassKept(proc[r], proc'[r])
        BY <1>0, <3>4, <3>5, PassSame DEF TypeOK
      <3> QED
        BY <1>10, <1>b, <2>2, <3>6 DEF ReadOwner, stored, outer, claims
    <2> QED
      BY <2>1, <2>2
  <1>11. CASE ListenerFound
    <2>1. \A r \in Procs : PassKept(proc[r], proc'[r])
      BY <1>11, <1>0, PassEnds DEF ListenerFound, End
    <2> QED
      BY <1>11, <1>b, <2>1 DEF ListenerFound, stored, outer, claims
  <1>12. CASE ListenerMissing
    <2>1. CASE Raise(Serve)
      BY <1>12, <1>0, <2>1, PassRaise DEF ListenerMissing, Raise
    <2>2. CASE ~Raise(Serve)
      <3> DEFINE z == [[proc[Serve] EXCEPT !.pc = "look"] EXCEPT !.owner = "zero"]
      <3>1. z.pc = "look"
        BY <1>0 DEF TypeOK, Process
      <3>2. proc' = [proc EXCEPT ![Serve] = z]
        BY <1>0, <1>12, <2>2 DEF ListenerMissing, TypeOK
      <3> HIDE DEF z
      <3>3. PassKept(proc[Serve], z)
        BY <1>a, <3>1 DEF PassKept, PassPath
      <3>4. \A r \in Procs : PassKept(proc[r], proc'[r])
        BY <1>0, <3>2, <3>3, PassSame DEF TypeOK
      <3> QED
        BY <1>12, <1>b, <2>2, <3>4 DEF ListenerMissing, stored, outer, claims
    <2> QED
      BY <2>1, <2>2
  <1>13. CASE LookForHolder
    BY <1>13, <1>a, <1>c DEF LookForHolder
  <1>14. CASE PortFree
    BY <1>14, <1>0, <1>a, <1>c, PassRaise DEF PortFree, Raise
  <1>15. CASE RestartAgain
    BY <1>15, <1>0, <1>a, PassBounce DEF RestartAgain, Bounce, claims, stored
  <1> QED
    BY <1>1, <1>2, <1>3, <1>4, <1>5, <1>6, <1>7, <1>8, <1>9, <1>10, <1>11, <1>12,
       <1>13, <1>14, <1>15 DEF ServeStep

LEMMA PassEnvironment ==
    ASSUME TypeOK, PassInv, Environment
    PROVE  PassInv'
  <1>1. CASE DaemonStarts
    <2>1. proc \in [Procs -> Process]
      BY DEF TypeOK
    <2> QED
      BY <1>1, <2>1, PassLaunch, PassSame DEF DaemonStarts, stored, claims
  <1>2. CASE VncStarts
    <2>1. \A r \in Procs : ChangesPass(r)' = ChangesPass(r) /\ PassAlone(r)' = PassAlone(r)
      BY <1>2 DEF VncStarts, ChangesPass, PassAlone
    <2>2. daemon'.vnc = "up" => daemon'.pass = keyring
      BY <1>2 DEF VncStarts, TypeOK, Daemon
    <2>3. UNCHANGED <<creds, keyring, proc, passClaim>>
      BY <1>2 DEF VncStarts, stored, claims
    <2> QED
      BY <2>1, <2>2, <2>3, ProcsAre DEF PassInv
  <1>3. CASE DaemonCrashes
    <2>1. proc \in [Procs -> Process]
      BY DEF TypeOK
    <2>2. \A r \in Procs : PassKept(proc[r], proc'[r])
      BY <1>3, <2>1, ForgottenIs DEF DaemonCrashes, PassKept
    <2>3. daemon'.vnc = "off"
      BY <1>3 DEF DaemonCrashes, Off
    <2> QED
      BY <1>3, <2>2, <2>3, PassQuiet DEF DaemonCrashes, stored, claims
  <1>4. CASE ImpostorComes \/ ImpostorGoes
    BY <1>4, PassSame, PassQuiet DEF ImpostorComes, ImpostorGoes, stored, claims
  <1>5. CASE SettingsPassword \/ SettingsToggle
    BY <1>5, PassNone DEF SettingsPassword, SettingsToggle
  <1> QED
    BY <1>1, <1>2, <1>3, <1>4, <1>5 DEF Environment

LEMMA PassInit == Init => PassInv
  BY DEF Init, PassInv

LEMMA PassNext == TypeOK /\ PassInv /\ [Next]_vars => PassInv'
  <1>1. TypeOK /\ PassInv /\ Next => PassInv'
    BY PassBindStep, PassClientStep, PassServeStep, PassEnvironment DEF Next
  <1>2. PassInv /\ UNCHANGED vars => PassInv'
    BY DEF PassInv, vars, ChangesPass, PassAlone
  <1> QED
    BY <1>1, <1>2

(* A password change that nothing overlapped, as grd_concurrent checks it, *)
(* for any number of clients and passwords: the file, the keyring and the  *)
(* running daemon go on agreeing.                                          *)
THEOREM PasswordsAgree == Spec => []PasswordAgrees
  <1>1. PassInv => PasswordAgrees
    BY DEF PassInv, PasswordAgrees
  <1> QED
    BY <1>1, TypeInit, TypeNext, PassInit, PassNext, PTL DEF Spec

-----------------------------------------------------------------------------
(* The address. *)

(* What a step may do to a process's record without a look at the address. *)
BindKept(old, new) ==
    new.pc \in BindPath \cup {"verb"} => new.pc = old.pc /\ new.addr = old.addr

LEMMA BindNone == bindClaim' = "none" => BindInv'
  BY DEF BindInv

LEMMA BindSame == \A p : BindKept(p, p)
  BY DEF BindKept

(* A step of q, or of nobody (q is serve, whose record it leaves alone).   *)
LEMMA BindQuiet ==
    ASSUME BindInv, UNCHANGED <<conf, dropin, loaded>>,
           bindClaim' \in {bindClaim, "none"},
           NEW q \in Procs, \A r \in Procs \ {q} : proc'[r].pc = proc[r].pc,
           q = Serve \/ proc[q].pc \notin BindPath \/ bindClaim' # "sole",
           \A r \in Procs : BindKept(proc[r], proc'[r]),
           daemon'.state = "active" =>
               \/ daemon.state = "active" /\ daemon'.addr = daemon.addr
               \/ daemon'.addr = ListenAddress
    PROVE  BindInv'
  <1>1. CASE bindClaim' = "none"
    BY <1>1, BindNone
  <1>2. CASE bindClaim' # "none"
    <2>0. bindClaim' = bindClaim /\ bindClaim \in {"sole", "agreed"}
      BY <1>2 DEF BindInv
    <2>1. \A r \in Procs : ChangesBind(r)' => ChangesBind(r)
      BY DEF BindKept, ChangesBind
    <2>2. \A r \in Procs : BindAlone(r) => BindAlone(r)'
      BY <2>1 DEF BindAlone
    <2>3. bindClaim = "sole" => \A r \in Procs : ChangesBind(r)' => BindAlone(r)'
      BY <2>1, <2>2 DEF BindInv
    <2>4. bindClaim = "sole" => \E r \in Clients : proc'[r].pc \in BindPath
      <3>1. SUFFICES ASSUME bindClaim = "sole"
                     PROVE  \E r \in Clients : proc'[r].pc \in BindPath
        OBVIOUS
      <3>2. PICK r \in Clients : proc[r].pc \in BindPath
        BY <3>1 DEF BindInv
      <3>3. r \in Procs /\ r # q
        BY <2>0, <3>1, <3>2, ProcsAre
      <3> QED
        BY <3>2, <3>3
    <2>5. conf' # Absent
      BY <2>0 DEF BindInv
    <2>6. \A r \in Procs :
            /\ proc'[r].pc \in {"check_dropin", "write_dropin"} => proc'[r].addr = conf'
            /\ proc'[r].pc \in {"reload", "bounce_bind"} => dropin' = conf'
            /\ proc'[r].pc = "bounce_bind" => loaded' = conf'
      BY <2>0 DEF BindInv, BindKept, BindPath
    <2>7. bindClaim = "agreed" =>
            /\ dropin' = conf' /\ loaded' = conf'
            /\ daemon'.state = "active" => daemon'.addr = conf'
      BY <2>5 DEF BindInv, ListenAddress
    <2>8. bindClaim = "agreed" => \A r \in Procs : proc'[r].pc \in BindPath =>
            r = Serve /\ proc'[r].pc \in {"read_bind", "check_dropin"}
      BY DEF BindInv, BindKept
    <2> QED
      BY <2>0, <2>3, <2>4, <2>5, <2>6, <2>7, <2>8 DEF BindInv
  <1> QED
    BY <1>1, <1>2

LEMMA BindLaunch ==
    ASSUME BindInv, UNCHANGED <<conf, dropin, loaded>>,
           bindClaim' \in {bindClaim, "none"},
           NEW q \in Procs, NEW f \in [Procs -> Process], Launch(f) \/ LaunchFails(f),
           \A r \in Procs \ {q} : f[r].pc = proc[r].pc,
           q = Serve \/ proc[q].pc \notin BindPath \/ bindClaim' # "sole",
           \A r \in Procs : BindKept(proc[r], f[r])
    PROVE  BindInv'
  <1>1. daemon'.state = "active" => daemon'.addr = ListenAddress
    BY DEF Launch, LaunchFails, Launched, Off
  <1>2. \A r \in Procs : proc'[r].pc = f[r].pc /\ proc'[r].addr = f[r].addr
    BY ForgottenIs DEF Launch, LaunchFails
  <1>3. \A r \in Procs : BindKept(proc[r], proc'[r])
    BY <1>2 DEF BindKept
  <1>4. \A r \in Procs \ {q} : proc'[r].pc = proc[r].pc
    BY <1>2
  <1> QED
    BY <1>1, <1>3, <1>4, BindQuiet

LEMMA BindEnds ==
    ASSUME TypeOK, NEW q \in Procs, NEW p \in {Ended(q), Broken(q)}
    PROVE  LET f == [proc EXCEPT ![q] = p]
           IN  /\ \A r \in Procs : BindKept(proc[r], f[r])
               /\ \A r \in Procs \ {q} : f[r].pc = proc[r].pc
  <1>1. p.pc \in {"idle", "over", "failed"}
    BY IdleIs
  <1>2. BindKept(proc[q], p)
    BY <1>1 DEF BindKept, BindPath
  <1> QED
    BY <1>2, BindSame DEF TypeOK

LEMMA BindMovesOn ==
    ASSUME TypeOK, NEW q \in Procs, NEW l \in Positions \ (BindPath \cup {"verb"})
    PROVE  LET f == [proc EXCEPT ![q].pc = l]
           IN  /\ f \in [Procs -> Process]
               /\ \A r \in Procs : BindKept(proc[r], f[r])
               /\ \A r \in Procs \ {q} : f[r].pc = proc[r].pc
  <1> DEFINE f == [proc EXCEPT ![q].pc = l]
  <1>1. Moved(q, f) /\ f[q].pc = l
    BY GotoMoves
  <1> HIDE DEF f
  <1>2. BindKept(proc[q], f[q])
    BY <1>1 DEF BindKept
  <1>3. /\ f \in [Procs -> Process]
        /\ \A r \in Procs : BindKept(proc[r], f[r])
        /\ \A r \in Procs \ {q} : f[r].pc = proc[r].pc
    BY <1>1, <1>2, BindSame DEF Moved
  <1> QED
    BY <1>3 DEF f

LEMMA BindBounce ==
    ASSUME TypeOK, BindInv, NEW q \in Procs,
           NEW l \in Positions \ (BindPath \cup {"verb"}),
           LET f == [proc EXCEPT ![q].pc = l] IN Launch(f) \/ LaunchFails(f),
           UNCHANGED <<conf, dropin, loaded>>, bindClaim' \in {bindClaim, "none"},
           q = Serve \/ proc[q].pc \notin BindPath \/ bindClaim' # "sole"
    PROVE  BindInv'
  <1> DEFINE f == [proc EXCEPT ![q].pc = l]
  <1>1. /\ f \in [Procs -> Process]
        /\ \A r \in Procs : BindKept(proc[r], f[r])
        /\ \A r \in Procs \ {q} : f[r].pc = proc[r].pc
    BY BindMovesOn
  <1>2. Launch(f) \/ LaunchFails(f)
    OBVIOUS
  <1> HIDE DEF f
  <1> QED
    BY <1>1, <1>2, BindLaunch

(* A process that breaks off takes the claim of its own change with it.    *)
LEMMA BindDrops ==
    ASSUME BindInv, NEW q \in Procs, NEW s, Drops(q, s)
    PROVE  /\ bindClaim' \in {bindClaim, "none"}
           /\ q = Serve \/ proc[q].pc \notin BindPath \/ bindClaim' # "sole"
  BY DEF Drops, Dropped, ChangesBind

LEMMA BindBounceFails ==
    ASSUME TypeOK, BindInv, NEW q \in Procs, BounceFails(q), UNCHANGED stored
    PROVE  BindInv'
  <1> DEFINE f == [proc EXCEPT ![q] = Broken(q)]
  <1>1. f \in [Procs -> Process]
    BY IdleType, SetMoves DEF Moved
  <1>2. /\ \A r \in Procs : BindKept(proc[r], f[r])
        /\ \A r \in Procs \ {q} : f[r].pc = proc[r].pc
    BY BindEnds
  <1>3. LaunchFails(f) /\ Drops(q, Status(q))
    BY DEF BounceFails
  <1> HIDE DEF f
  <1>4. /\ bindClaim' \in {bindClaim, "none"}
        /\ q = Serve \/ proc[q].pc \notin BindPath \/ bindClaim' # "sole"
    BY <1>3, BindDrops
  <1> QED
    BY <1>1, <1>2, <1>3, <1>4, BindLaunch DEF stored

LEMMA BindRaise ==
    ASSUME TypeOK, BindInv, NEW q \in Procs, NEW s, Ends(q, s), UNCHANGED <<stored, outer>>
    PROVE  BindInv'
  <1>1. /\ bindClaim' \in {bindClaim, "none"}
        /\ q = Serve \/ proc[q].pc \notin BindPath \/ bindClaim' # "sole"
    BY BindDrops DEF Ends
  <1>2. /\ \A r \in Procs : BindKept(proc[r], proc'[r])
        /\ \A r \in Procs \ {q} : proc'[r].pc = proc[r].pc
    BY BindEnds DEF Ends
  <1> QED
    BY <1>1, <1>2, BindQuiet DEF stored, outer

(* A step of the change that has the address to itself.                    *)
LEMMA BindClaimIs ==
    ASSUME BindInv, NEW q \in Procs, proc[q].pc \in BindPath, bindClaim = "sole"
    PROVE  q \in Clients /\ \A r \in Procs \ {q} : ~ChangesBind(r)
  <1>1. BindAlone(q)
    BY DEF BindInv, ChangesBind
  <1>2. PICK r \in Clients : proc[r].pc \in BindPath
    BY DEF BindInv
  <1>3. r = q
    BY <1>1, <1>2, ProcsAre DEF BindAlone, ChangesBind
  <1> QED
    BY <1>1, <1>2, <1>3 DEF BindAlone

LEMMA BindSole ==
    ASSUME NEW q \in Clients, proc'[q].pc \in BindPath,
           \A r \in Procs \ {q} : ~ChangesBind(r)',
           bindClaim' = "sole", conf' # Absent,
           proc'[q].pc \in {"check_dropin", "write_dropin"} => proc'[q].addr = conf',
           proc'[q].pc \in {"reload", "bounce_bind"} => dropin' = conf',
           proc'[q].pc = "bounce_bind" => loaded' = conf'
    PROVE  BindInv'
  <1>1. \A r \in Procs : ChangesBind(r)' => BindAlone(r)'
    BY DEF BindAlone
  <1>2. \A r \in Procs \ {q} : proc'[r].pc \notin BindPath
    BY DEF ChangesBind
  <1>3. \A r \in Procs :
          /\ proc'[r].pc \in {"check_dropin", "write_dropin"} => proc'[r].addr = conf'
          /\ proc'[r].pc \in {"reload", "bounce_bind"} => dropin' = conf'
          /\ proc'[r].pc = "bounce_bind" => loaded' = conf'
    BY <1>2 DEF BindPath
  <1> QED
    BY <1>1, <1>3 DEF BindInv

LEMMA BindAgreed ==
    ASSUME bindClaim' = "agreed", conf' # Absent, dropin' = conf', loaded' = conf',
           daemon'.state = "active" => daemon'.addr = conf',
           \A r \in Procs : proc'[r].pc \in BindPath =>
               /\ r = Serve
               /\ \/ proc'[r].pc = "read_bind"
                  \/ proc'[r].pc = "check_dropin" /\ proc'[r].addr = conf'
    PROVE  BindInv'
  <1>1. \A r \in Procs :
          proc'[r].pc \in {"check_dropin", "write_dropin"} => proc'[r].addr = conf'
    BY DEF BindPath
  <1> QED
    BY <1>1 DEF BindInv

(* The two-field steps of the bind, field by field.                        *)
LEMMA BindAddr ==
    ASSUME TypeOK, NEW q \in Procs, NEW l, NEW a,
           proc' = [proc EXCEPT ![q].pc = l, ![q].addr = a]
    PROVE  /\ proc'[q].pc = l /\ proc'[q].addr = a
           /\ \A r \in Procs \ {q} : proc'[r] = proc[r]
  <1> DEFINE z == [[proc[q] EXCEPT !.pc = l] EXCEPT !.addr = a]
  <1>1. z.pc = l /\ z.addr = a
    BY DEF TypeOK, Process
  <1>2. proc' = [proc EXCEPT ![q] = z]
    BY DEF TypeOK
  <1> HIDE DEF z
  <1> QED
    BY <1>1, <1>2 DEF TypeOK

LEMMA BindGoto ==
    ASSUME TypeOK, NEW q \in Procs, NEW l, Goto(q, l)
    PROVE  /\ proc'[q].pc = l /\ proc'[q].addr = proc[q].addr
           /\ \A r \in Procs \ {q} : proc'[r] = proc[r]
  BY DEF TypeOK, Goto, Process

LEMMA SameChanges ==
    ASSUME NEW r, proc'[r] = proc[r]
    PROVE  ChangesBind(r)' = ChangesBind(r)
  BY DEF ChangesBind

(* ReadBind, CheckDropin and WriteDropin, under each claim.                *)
LEMMA BindReads ==
    ASSUME TypeOK, BindInv, NEW q \in Procs, ReadBind(q)
    PROVE  BindInv'
  <1> DEFINE a == IF conf = Absent THEN Loopback ELSE conf
  <1>1. /\ proc'[q].pc = "check_dropin" /\ proc'[q].addr = a
        /\ \A r \in Procs \ {q} : proc'[r] = proc[r]
    BY BindAddr DEF ReadBind
  <1>2. UNCHANGED <<conf, dropin, loaded, daemon, bindClaim>>
    BY DEF ReadBind, stored, outer, claims
  <1>3. bindClaim # "none" => a = conf /\ conf # Absent
    BY DEF BindInv
  <1>4. proc[q].pc = "read_bind"
    BY DEF ReadBind
  <1> HIDE DEF a
  <1>5. CASE bindClaim = "none"
    BY <1>2, <1>5, BindNone
  <1>6. CASE bindClaim = "sole"
    <2>1. q \in Clients /\ \A r \in Procs \ {q} : ~ChangesBind(r)
      BY <1>4, <1>6, BindClaimIs DEF BindPath
    <2>2. \A r \in Procs \ {q} : ~ChangesBind(r)'
      BY <1>1, <2>1, SameChanges
    <2>3. proc'[q].pc \in BindPath
      BY <1>1 DEF BindPath
    <2> QED
      BY <1>1, <1>2, <1>3, <1>6, <2>1, <2>2, <2>3, BindSole
  <1>7. CASE bindClaim = "agreed"
    <2>1. \A r \in Procs : proc'[r].pc \in BindPath =>
            /\ r = Serve
            /\ \/ proc'[r].pc = "read_bind"
               \/ proc'[r].pc = "check_dropin" /\ proc'[r].addr = conf
      BY <1>1, <1>3, <1>4, <1>7 DEF BindInv, BindPath
    <2>2. dropin = conf /\ loaded = conf /\ (daemon.state = "active" => daemon.addr = conf)
      BY <1>7 DEF BindInv
    <2> QED
      BY <1>2, <1>3, <1>7, <2>1, <2>2, BindAgreed
  <1> QED
    BY <1>5, <1>6, <1>7 DEF BindInv

LEMMA BindChecks ==
    ASSUME TypeOK, BindInv, NEW q \in Procs, CheckDropin(q)
    PROVE  BindInv'
  <1>1. UNCHANGED <<conf, dropin, loaded, daemon>> /\ proc[q].pc = "check_dropin"
    BY DEF CheckDropin, stored, outer
  <1>2. CASE bindClaim' = "none"
    BY <1>2, BindNone
  <1>3. CASE bindClaim' # "none"
    <2>1. bindClaim' = bindClaim /\ bindClaim \in {"sole", "agreed"}
      BY <1>3 DEF CheckDropin, Dropped, BindInv
    <2>2. proc[q].addr = conf /\ conf # Absent
      BY <1>1, <2>1 DEF BindInv
    <2>3. CASE bindClaim = "sole"
      <3>1. q \in Clients /\ q # Serve /\ \A r \in Procs \ {q} : ~ChangesBind(r)
        BY <1>1, <2>3, BindClaimIs, ProcsAre DEF BindPath
      <3>2. Goto(q, "write_dropin")
        BY <2>1, <2>3, <3>1 DEF CheckDropin, Dropped
      <3>3. /\ proc'[q].pc = "write_dropin" /\ proc'[q].addr = conf
            /\ \A r \in Procs \ {q} : proc'[r] = proc[r]
        BY <2>2, <3>2, BindGoto
      <3>4. \A r \in Procs \ {q} : ~ChangesBind(r)'
        BY <3>1, <3>3, SameChanges
      <3>5. proc'[q].pc \in BindPath
        BY <3>3 DEF BindPath
      <3> QED
        BY <1>1, <2>1, <2>2, <2>3, <3>1, <3>3, <3>4, <3>5, BindSole
    <2>4. CASE bindClaim = "agreed"
      <3>1. q = Serve /\ dropin = conf
        BY <1>1, <2>4 DEF BindInv, BindPath
      <3>2. proc' = [proc EXCEPT ![Serve].pc = "verb", ![Serve].addr = Loopback]
        BY <2>2, <3>1 DEF CheckDropin
      <3>3. /\ proc'[q].pc = "verb"
            /\ \A r \in Procs \ {q} : proc'[r] = proc[r]
        BY <3>1, <3>2, BindAddr
      <3>4. \A r \in Procs : proc'[r].pc \notin BindPath
        BY <2>4, <3>1, <3>3 DEF BindInv, BindPath
      <3>5. loaded = conf /\ (daemon.state = "active" => daemon.addr = conf)
        BY <2>4 DEF BindInv
      <3> QED
        BY <1>1, <2>1, <2>2, <2>4, <3>1, <3>4, <3>5, BindAgreed
    <2> QED
      BY <2>1, <2>3, <2>4
  <1> QED
    BY <1>2, <1>3

(* From the write on there is no change that agrees yet.                   *)
LEMMA BindWriting ==
    ASSUME BindInv, NEW q \in Procs,
           proc[q].pc \in {"write_dropin", "reload", "bounce_bind"}
    PROVE  /\ bindClaim \in {"none", "sole"}
           /\ bindClaim = "sole" =>
                /\ q \in Clients /\ conf # Absent
                /\ \A r \in Procs \ {q} : ~ChangesBind(r)
  BY BindClaimIs DEF BindInv, BindPath

LEMMA BindWrites ==
    ASSUME TypeOK, BindInv, NEW q \in Procs, WriteDropin(q) \/ Reload(q)
    PROVE  BindInv'
  <1>1. proc[q].pc \in {"write_dropin", "reload", "bounce_bind"}
    BY DEF WriteDropin, Reload
  <1>2. UNCHANGED conf /\ bindClaim' \in {bindClaim, Dropped(bindClaim)}
    BY DEF WriteDropin, Reload, claims
  <1>3. CASE bindClaim' = "none"
    BY <1>3, BindNone
  <1>4. CASE bindClaim = "sole" /\ bindClaim' = "sole"
    <2>1. q \in Clients /\ conf # Absent /\ \A r \in Procs \ {q} : ~ChangesBind(r)
      BY <1>1, <1>4, BindWriting
    <2>2. CASE WriteDropin(q)
      <3>1. /\ proc'[q].pc = "reload"
            /\ \A r \in Procs \ {q} : proc'[r] = proc[r]
        BY <2>2, BindAddr DEF WriteDropin
      <3>2. dropin' = conf
        BY <1>4, <2>2 DEF WriteDropin, BindInv
      <3>3. proc'[q].pc \in BindPath /\ \A r \in Procs \ {q} : ~ChangesBind(r)'
        BY <2>1, <3>1, SameChanges DEF BindPath
      <3> QED
        BY <1>2, <1>4, <2>1, <3>1, <3>2, <3>3, BindSole
    <2>3. CASE Reload(q)
      <3>1. /\ proc'[q].pc = "bounce_bind"
            /\ \A r \in Procs \ {q} : proc'[r] = proc[r]
        BY <2>3, BindGoto DEF Reload
      <3>2. dropin' = conf /\ loaded' = conf
        BY <1>4, <2>3 DEF Reload, BindInv, Dropped
      <3>3. proc'[q].pc \in BindPath /\ \A r \in Procs \ {q} : ~ChangesBind(r)'
        BY <2>1, <3>1, SameChanges DEF BindPath
      <3> QED
        BY <1>2, <1>4, <2>1, <3>1, <3>2, <3>3, BindSole
    <2> QED
      BY <2>2, <2>3
  <1> QED
    BY <1>1, <1>2, <1>3, <1>4, BindWriting DEF Dropped

LEMMA BindRestarts ==
    ASSUME TypeOK, BindInv, NEW q \in Procs, BounceBind(q)
    PROVE  BindInv'
  <1>0. /\ {"owner", "settle", "verb"} \subseteq Positions
        /\ proc[q].pc = "bounce_bind" /\ UNCHANGED <<conf, dropin, loaded>>
    BY DEF Positions, BounceBind, stored
  <1>1. CASE BounceFails(q)
    BY <1>1, BindBounceFails DEF BounceBind
  <1>2. CASE ~BounceFails(q)
    <2>1. bindClaim' = Passed(bindClaim, "agreed")
      BY <1>2 DEF BounceBind
    <2>2. CASE bindClaim = "none"
      BY <2>1, <2>2, BindNone DEF Passed
    <2>3. CASE bindClaim = "sole"
      <3>1. /\ q \in Clients /\ q # Serve /\ conf # Absent
            /\ \A r \in Procs \ {q} : ~ChangesBind(r)
        BY <1>0, <2>3, BindWriting, ProcsAre
      <3>2. dropin = conf /\ loaded = conf
        BY <1>0, <2>3 DEF BindInv
      <3>3. \A r \in Procs \ {q} : proc[r].pc \notin BindPath
        BY <3>1 DEF ChangesBind
      <3>4. CASE daemon.state = "active"
        <4>1. Launch([proc EXCEPT ![q].pc = "settle"])
          BY <1>2, <3>1, <3>4 DEF BounceBind, Bounce
        <4>2. daemon'.addr = conf
          BY <3>1, <3>2, <4>1 DEF Launch, Launched, Off, ListenAddress
        <4> DEFINE f == [proc EXCEPT ![q].pc = "settle"]
        <4>3. Moved(q, f) /\ f[q].pc = "settle"
          BY <1>0, GotoMoves
        <4>4. proc' = Forgotten(f)
          BY <4>1 DEF Launch
        <4> HIDE DEF f
        <4>5. \A r \in Procs : proc'[r].pc = f[r].pc
          BY <4>3, <4>4, ForgottenIs DEF Moved
        <4>6. \A r \in Procs : proc'[r].pc \notin BindPath
          BY <3>3, <4>3, <4>5 DEF Moved, BindPath
        <4> QED
          BY <1>0, <2>1, <2>3, <3>1, <3>2, <4>2, <4>6, BindAgreed DEF Passed
      <3>5. CASE daemon.state # "active"
        <4>1. End(q) /\ UNCHANGED daemon
          BY <3>1, <3>5 DEF BounceBind, outer
        <4>2. proc'[q].pc = "over" /\ \A r \in Procs \ {q} : proc'[r] = proc[r]
          BY <3>1, <4>1, IdleIs DEF End, TypeOK
        <4>3. \A r \in Procs : proc'[r].pc \notin BindPath
          BY <3>3, <4>2 DEF BindPath
        <4> QED
          BY <1>0, <2>1, <2>3, <3>1, <3>2, <3>5, <4>1, <4>3, BindAgreed DEF Passed
      <3> QED
        BY <3>4, <3>5
    <2> QED
      BY <1>0, <2>2, <2>3, BindWriting
  <1> QED
    BY <1>1, <1>2

LEMMA BindBindStep ==
    ASSUME TypeOK, BindInv, NEW q \in Procs, BindStep(q)
    PROVE  BindInv'
  <1>1. CASE Fails(q)
    BY <1>1, BindRaise DEF Fails, Raise
  <1> QED
    BY <1>1, BindReads, BindChecks, BindWrites, BindRestarts DEF BindStep

LEMMA OffBind ==
    {"idle", "over", "failed", "ensure", "owner", "wait", "look", "wait_free", "again",
     "owner_again", "wait_again", "compare", "push", "bounce_password", "settle",
     "settle_again"} \cup SeedPath \subseteq Positions \ (BindPath \cup {"verb"})
  BY DEF Positions, SeedPath, BindPath

LEMMA BindClientStep ==
    ASSUME TypeOK, BindInv, NEW q \in Clients, ClientStep(q)
    PROVE  BindInv'
  <1>0. q \in Procs /\ q # Serve /\ Serve \in Procs
    BY ProcsAre
  <1>a. {"compare", "push", "settle", "settle_again", "bounce_password"}
            \subseteq Positions \ (BindPath \cup {"verb"})
    BY OffBind
  <1>b. ASSUME proc[q].pc \notin BindPath, proc'[q].pc \notin BindPath \cup {"verb"},
               \A r \in Procs \ {q} : proc'[r] = proc[r],
               UNCHANGED <<conf, dropin, loaded, outer, bindClaim>>
        PROVE  BindInv'
    <2>1. \A r \in Procs : BindKept(proc[r], proc'[r])
      BY <1>b, BindSame DEF BindKept
    <2> QED
      BY <1>0, <1>b, <2>1, BindQuiet DEF outer
  <1>1. CASE StoreCredential(q)
    <2>1. PICK p \in Passwords : Call(q, "set_credential", "compare", p)
      BY <1>1 DEF StoreCredential
    <2>2. proc[q].pc = "idle" /\ proc'[q].pc = "compare"
            /\ \A r \in Procs \ {q} : proc'[r] = proc[r]
      BY <1>0, <2>1 DEF Call, TypeOK, Idle
    <2> QED
      BY <1>1, <1>a, <1>b, <2>2 DEF StoreCredential, BindPath
  <1>2. CASE Compare(q)
    <2>1. proc[q].pc = "compare"
      BY <1>2 DEF Compare
    <2>2. CASE End(q)
      <3>1. proc'[q].pc = "over" /\ \A r \in Procs \ {q} : proc'[r] = proc[r]
        BY <1>0, <1>2, <2>2, IdleIs DEF Compare, End, TypeOK
      <3> QED
        BY <1>2, <1>a, <1>b, <2>1, <3>1 DEF Compare, stored, BindPath
    <2>3. CASE proc' = [proc EXCEPT ![q].pc = "push", ![q].pass = creds]
      <3> DEFINE z == [[proc[q] EXCEPT !.pc = "push"] EXCEPT !.pass = creds]
      <3>1. z.pc = "push"
        BY <1>0 DEF TypeOK, Process
      <3>2. proc' = [proc EXCEPT ![q] = z]
        BY <1>0, <1>2, <2>3 DEF Compare, TypeOK
      <3> HIDE DEF z
      <3>3. proc'[q] = z /\ \A r \in Procs \ {q} : proc'[r] = proc[r]
        BY <1>0, <3>2 DEF TypeOK
      <3> QED
        BY <1>2, <1>a, <1>b, <2>1, <3>1, <3>3 DEF Compare, stored, BindPath
    <2> QED
      BY <1>2, <2>2, <2>3 DEF Compare
  <1>3. CASE Push(q)
    <2> DEFINE z == [[proc[q] EXCEPT !.pc = "bounce_password"] EXCEPT !.pass = Absent]
    <2>1. z.pc = "bounce_password"
      BY <1>0 DEF TypeOK, Process
    <2>2. proc' = [proc EXCEPT ![q] = z]
      BY <1>0, <1>3 DEF Push, TypeOK
    <2> HIDE DEF z
    <2>3. proc'[q] = z /\ \A r \in Procs \ {q} : proc'[r] = proc[r]
      BY <1>0, <2>2 DEF TypeOK
    <2>4. proc[q].pc = "push" /\ UNCHANGED <<conf, dropin, loaded, outer, bindClaim>>
      BY <1>3 DEF Push, claims
    <2> QED
      BY <1>a, <1>b, <2>1, <2>3, <2>4
  <1>4. CASE BouncePassword(q)
    <2>0. proc[q].pc = "bounce_password"
      BY <1>4 DEF BouncePassword
    <2>1. CASE BounceFails(q)
      BY <1>0, <1>4, <2>1, BindBounceFails DEF BouncePassword
    <2>2. CASE ~BounceFails(q)
      BY <1>0, <1>4, <1>a, <2>0, <2>2, BindBounce DEF BouncePassword, Bounce, stored
    <2> QED
      BY <2>1, <2>2
  <1>5. CASE Settle(q)
    <2>0. /\ UNCHANGED <<conf, dropin, loaded, bindClaim>>
          /\ proc[q].pc \in {"settle", "settle_again"}
      BY <1>5 DEF Settle, stored, claims
    <2>1. CASE daemon.state = "failed" /\ proc[q].pc = "settle"
      BY <1>0, <1>5, <1>a, <2>0, <2>1, BindBounce DEF Settle, Bounce
    <2>2. CASE ~(daemon.state = "failed" /\ proc[q].pc = "settle")
      <3>1. proc'[q].pc = "over" /\ \A r \in Procs \ {q} : proc'[r] = proc[r]
        BY <1>0, <1>5, <2>2, IdleIs DEF Settle, End, TypeOK
      <3> QED
        BY <1>5, <1>a, <1>b, <2>0, <2>2, <3>1 DEF Settle, BindPath
    <2> QED
      BY <2>1, <2>2
  <1>6. CASE StoreNetwork(q)
    <2>1. CASE bindClaim' = "none"
      BY <2>1, BindNone
    <2>2. CASE bindClaim' # "none"
      <3>1. PICK o \in {"apply_network", "provision"}, a \in Addresses :
              /\ Call(q, o, IF o = "provision" THEN "over" ELSE "read_bind", Absent)
              /\ conf' = a
              /\ bindClaim' = IF BindAlone(q) /\ o = "apply_network" THEN "sole" ELSE "none"
        BY <1>6 DEF StoreNetwork
      <3>2. bindClaim' = "sole" /\ BindAlone(q) /\ o = "apply_network"
        BY <2>2, <3>1
      <3>3. proc'[q].pc = "read_bind" /\ \A r \in Procs \ {q} : proc'[r] = proc[r]
        BY <1>0, <3>1, <3>2 DEF Call, TypeOK, Idle
      <3>4. \A r \in Procs \ {q} : ~ChangesBind(r)'
        BY <3>2, <3>3, SameChanges DEF BindAlone
      <3>5. proc'[q].pc \in BindPath
        BY <3>3 DEF BindPath
      <3>6. conf' # Absent
        BY <3>1, Kinds
      <3> QED
        BY <3>2, <3>3, <3>4, <3>5, <3>6, BindSole
    <2> QED
      BY <2>1, <2>2
  <1> QED
    BY <1>1, <1>2, <1>3, <1>4, <1>5, <1>6 DEF ClientStep

LEMMA BindServeStep ==
    ASSUME TypeOK, BindInv, ServeStep
    PROVE  BindInv'
  <1>0. Serve \in Procs
    BY ProcsAre
  <1>a. /\ {"ensure", "owner", "wait", "wait_again", "look", "wait_free", "again",
            "owner_again"} \cup SeedPath \subseteq Positions \ (BindPath \cup {"verb"})
        /\ SeedPath = {"query", "enable", "configure", "seed", "adopt"}
    BY OffBind DEF SeedPath
  <1>b. ASSUME proc'[Serve].pc \notin BindPath \cup {"verb"},
               \A r \in Procs \ {Serve} : proc'[r] = proc[r],
               UNCHANGED <<conf, dropin, loaded, outer, bindClaim>>
        PROVE  BindInv'
    <2>1. \A r \in Procs : BindKept(proc[r], proc'[r])
      BY <1>b, BindSame DEF BindKept
    <2> QED
      BY <1>0, <1>b, <2>1, BindQuiet DEF outer
  <1>c. ASSUME NEW l \in Positions \ (BindPath \cup {"verb"}), Goto(Serve, l),
               UNCHANGED <<conf, dropin, loaded, outer, bindClaim>>
        PROVE  BindInv'
    BY <1>0, <1>b, <1>c, BindGoto
  (* To the bind: alone, or under no claim.                                *)
  <1>d. ASSUME ToBind(Serve), UNCHANGED <<conf, dropin, loaded, outer>>
        PROVE  BindInv'
    <2> DEFINE z == [[proc[Serve] EXCEPT !.pc = "read_bind"] EXCEPT !.pass = Absent]
    <2>1. z.pc = "read_bind"
      BY <1>0 DEF TypeOK, Process
    <2>2. proc' = [proc EXCEPT ![Serve] = z]
      BY <1>0, <1>d DEF ToBind, TypeOK
    <2> HIDE DEF z
    <2>3. proc'[Serve].pc = "read_bind" /\ \A r \in Procs \ {Serve} : proc'[r] = proc[r]
      BY <1>0, <2>1, <2>2 DEF TypeOK
    <2>4. CASE bindClaim' = "none"
      BY <2>4, BindNone
    <2>5. CASE bindClaim' # "none"
      <3>1. bindClaim' = bindClaim /\ BindAlone(Serve)
        BY <1>d, <2>5 DEF ToBind
      <3>2. bindClaim # "sole"
        BY <3>1, ProcsAre DEF BindInv, BindAlone, ChangesBind
      <3>3. bindClaim = "agreed"
        BY <2>5, <3>1, <3>2 DEF BindInv
      <3>4. \A r \in Procs : proc'[r].pc \in BindPath =>
              r = Serve /\ proc'[r].pc = "read_bind"
        BY <2>3, <3>1 DEF BindAlone, ChangesBind
      <3>5. /\ conf # Absent /\ dropin = conf /\ loaded = conf
            /\ daemon.state = "active" => daemon.addr = conf
        BY <3>3 DEF BindInv
      <3> QED
        BY <1>d, <3>1, <3>3, <3>4, <3>5, BindAgreed DEF outer
    <2> QED
      BY <2>4, <2>5
  <1>1. CASE ServeStarts
    <2>1. proc'[Serve].pc = "ensure" /\ \A r \in Procs \ {Serve} : proc'[r] = proc[r]
      BY <1>0, <1>1 DEF ServeStarts, Idle, TypeOK
    <2> QED
      BY <1>1, <1>a, <1>b, <2>1 DEF ServeStarts, stored, claims
  <1>2. CASE ServeStops
    BY <1>2, <1>0, BindRaise DEF ServeStops
  <1>3. CASE EnsureCredentials
    <2> DEFINE z == [[proc[Serve] EXCEPT !.pc = "query"] EXCEPT !.pass = creds']
    <2>1. z.pc = "query"
      BY <1>0 DEF TypeOK, Process
    <2>2. proc' = [proc EXCEPT ![Serve] = z]
      BY <1>0, <1>3 DEF EnsureCredentials, TypeOK
    <2> HIDE DEF z
    <2>3. proc'[Serve] = z /\ \A r \in Procs \ {Serve} : proc'[r] = proc[r]
      BY <1>0, <2>2 DEF TypeOK
    <2> QED
      BY <1>3, <1>a, <1>b, <2>1, <2>3 DEF EnsureCredentials
  <1>4. CASE QueryEnabled
    BY <1>4, <1>a, <1>c DEF QueryEnabled, stored, claims
  <1>5. CASE Enable
    BY <1>5, <1>a, <1>c DEF Enable, claims
  <1>6. CASE Configure
    BY <1>6, <1>a, <1>c DEF Configure, stored, claims
  <1>7. CASE Seed
    BY <1>7, <1>d DEF Seed
  <1>8. CASE Adopt
    BY <1>8, <1>d DEF Adopt
  <1>9. CASE Start
    <2>0. UNCHANGED <<conf, dropin, loaded>>
      BY <1>9 DEF Start, stored
    <2>1. CASE daemon.state = "active"
      BY <1>9, <1>a, <1>c, <2>0, <2>1 DEF Start, claims
    <2>2. CASE BounceFails(Serve)
      BY <1>9, <1>0, <2>2, BindBounceFails DEF Start
    <2>3. CASE daemon.state # "active" /\ ~BounceFails(Serve)
      BY <1>9, <1>0, <1>a, <2>0, <2>3, BindBounce DEF Start, Bounce, claims
    <2> QED
      BY <2>1, <2>2, <2>3
  <1>10. CASE ReadOwner
    <2>1. CASE Raise(Serve)
      BY <1>10, <1>0, <2>1, BindRaise DEF ReadOwner, Raise
    <2>2. CASE ~Raise(Serve)
      <3>1. proc[Serve].pc \in {"owner", "owner_again"}
        BY <1>10 DEF ReadOwner
      <3>2. PICK l \in {"look", "wait", "wait_again"} :
                proc' = [proc EXCEPT ![Serve].owner = MainPid, ![Serve].pc = l]
        BY <1>10, <2>2, <3>1 DEF ReadOwner
      <3> DEFINE z == [[proc[Serve] EXCEPT !.owner = MainPid] EXCEPT !.pc = l]
      <3>3. z.pc = l
        BY <1>0 DEF TypeOK, Process
      <3>4. proc' = [proc EXCEPT ![Serve] = z]
        BY <1>0, <3>2 DEF TypeOK
      <3> HIDE DEF z
      <3>5. proc'[Serve] = z /\ \A r \in Procs \ {Serve} : proc'[r] = proc[r]
        BY <1>0, <3>4 DEF TypeOK
      <3> QED
        BY <1>10, <1>a, <1>b, <2>2, <3>3, <3>5 DEF ReadOwner, stored, claims
    <2> QED
      BY <2>1, <2>2
  <1>11. CASE ListenerFound
    <2>1. proc'[Serve].pc = "idle" /\ \A r \in Procs \ {Serve} : proc'[r] = proc[r]
      BY <1>0, <1>11, IdleIs DEF ListenerFound, End, TypeOK
    <2> QED
      BY <1>11, <1>b, <2>1 DEF ListenerFound, stored, claims, BindPath
  <1>12. CASE ListenerMissing
    <2>1. CASE Raise(Serve)
      BY <1>12, <1>0, <2>1, BindRaise DEF ListenerMissing, Raise
    <2>2. CASE ~Raise(Serve)
      <3> DEFINE z == [[proc[Serve] EXCEPT !.pc = "look"] EXCEPT !.owner = "zero"]
      <3>1. z.pc = "look"
        BY <1>0 DEF TypeOK, Process
      <3>2. proc' = [proc EXCEPT ![Serve] = z]
        BY <1>0, <1>12, <2>2 DEF ListenerMissing, TypeOK
      <3> HIDE DEF z
      <3>3. proc'[Serve] = z /\ \A r \in Procs \ {Serve} : proc'[r] = proc[r]
        BY <1>0, <3>2 DEF TypeOK
      <3> QED
        BY <1>12, <1>a, <1>b, <2>2, <3>1, <3>3 DEF ListenerMissing, stored, claims
    <2> QED
      BY <2>1, <2>2
  <1>13. CASE LookForHolder
    BY <1>13, <1>a, <1>c DEF LookForHolder, stored, claims
  <1>14. CASE PortFree
    BY <1>14, <1>0, <1>a, <1>c, BindRaise DEF PortFree, Raise, stored, claims
  <1>15. CASE RestartAgain
    BY <1>15, <1>0, <1>a, BindBounce DEF RestartAgain, Bounce, claims, stored
  <1> QED
    BY <1>1, <1>2, <1>3, <1>4, <1>5, <1>6, <1>7, <1>8, <1>9, <1>10, <1>11, <1>12,
       <1>13, <1>14, <1>15 DEF ServeStep

LEMMA BindEnvironment ==
    ASSUME TypeOK, BindInv, Environment
    PROVE  BindInv'
  <1>0. Serve \in Procs /\ proc \in [Procs -> Process]
    BY ProcsAre DEF TypeOK
  <1>a. ASSUME UNCHANGED <<conf, dropin, loaded, proc, bindClaim>>,
               daemon'.state = daemon.state, daemon'.addr = daemon.addr
        PROVE  BindInv'
    BY <1>0, <1>a, BindSame, BindQuiet
  <1>1. CASE DaemonStarts
    BY <1>0, <1>1, BindSame, BindLaunch DEF DaemonStarts, stored, claims
  <1>2. CASE VncStarts
    <2>1. daemon'.state = daemon.state /\ daemon'.addr = daemon.addr
      BY <1>2 DEF VncStarts, TypeOK, Daemon
    <2> QED
      BY <1>2, <1>a, <2>1 DEF VncStarts, stored, claims
  <1>3. CASE DaemonCrashes
    <2>1. \A r \in Procs : BindKept(proc[r], proc'[r]) /\ proc'[r].pc = proc[r].pc
      BY <1>0, <1>3, ForgottenIs DEF DaemonCrashes, BindKept
    <2>2. daemon'.state # "active"
      BY <1>3 DEF DaemonCrashes, Off
    <2> QED
      BY <1>0, <1>3, <2>1, <2>2, BindQuiet DEF DaemonCrashes, stored, claims
  <1>4. CASE ImpostorComes \/ ImpostorGoes \/ SettingsPassword
    BY <1>4, <1>a DEF ImpostorComes, ImpostorGoes, SettingsPassword, stored, claims, outer
  <1>5. CASE SettingsToggle
    <2>1. daemon'.state = daemon.state /\ daemon'.addr = daemon.addr
      BY <1>5 DEF SettingsToggle, TypeOK, Daemon, outer
    <2> QED
      BY <1>5, <1>a, <2>1 DEF SettingsToggle
  <1> QED
    BY <1>1, <1>2, <1>3, <1>4, <1>5 DEF Environment

LEMMA BindInit == Init => BindInv
  BY DEF Init, BindInv

LEMMA BindNext == TypeOK /\ BindInv /\ [Next]_vars => BindInv'
  <1>1. TypeOK /\ BindInv /\ Next => BindInv'
    BY BindBindStep, BindClientStep, BindServeStep, BindEnvironment DEF Next
  <1>2. BindInv /\ UNCHANGED vars => BindInv'
    BY DEF BindInv, vars, ChangesBind, BindAlone
  <1> QED
    BY <1>1, <1>2

(* A network change that nothing overlapped, as grd_concurrent checks it,  *)
(* for any number of clients: the daemon listens there, whatever restarts  *)
(* it afterwards.                                                          *)
THEOREM AddressIsChosen == Spec => []ListensWhereChosen
  <1>1. BindInv => ListensWhereChosen
    BY DEF BindInv, ListensWhereChosen
  <1> QED
    BY <1>1, TypeInit, TypeNext, BindInit, BindNext, PTL DEF Spec
=============================================================================
