----------------------------- MODULE SettingsWindow -----------------------------
(***************************************************************************)
(* The settings window (settings_app.py, settings_dialogs.py) over the     *)
(* operations of settings.py.  GTK runs every handler on one thread, to    *)
(* its end, and a handler that calls systemctl holds the window for as     *)
(* long; the command line, systemd and the package manager change the same *)
(* files and the same unit meanwhile.  A switch shows its new position     *)
(* before its handler runs, a page is replaced as a whole, and what a      *)
(* handler defers runs on a later idle.  A credential is stored or not and *)
(* a bind is its address here: WayvncService and GrdService have what they *)
(* hold, and the server that must follow them.  Toasts are left out.       *)
(***************************************************************************)
EXTENDS Naturals

CONSTANTS
  Hosts,            \* the capability probes a window may have cached: [backend, private, wayland]
  Addresses,        \* the addresses typed or stored, loopback and the wildcard among them
  Pending, Changes  \* bounds: deferred callbacks waiting, changes made by other programs

ASSUME WindowAssumption ==
  /\ Hosts \subseteq [backend : {"wayvnc", "grd", "w0vncserver"}, private : BOOLEAN, wayland : BOOLEAN]
  /\ {"loopback", "any"} \subseteq Addresses /\ "none" \notin Addresses
  /\ {Pending, Changes} \subseteq Nat

VARIABLES
  host,             \* the cached probe
  cred, bind, unit, \* what is stored, and the unit as systemd reports it
  page, banner,     \* what the widgets show
  idle,             \* how many redraws were deferred to an idle
  dialog, call,     \* the open dialog, and the handler that has the thread
  stale,            \* since the last redraw began: what changed without one being due
  changes

stored == <<cred, bind, unit>>
shown == <<page, banner>>
vars == <<host, stored, shown, idle, dialog, call, stale, changes>>

Free == [do |-> "none", key |-> "none", text |-> "none", from |-> "loop"]
Dialogs == {"credential", "network", "language", "reading"}   \* reading: diagnostics, about
Choices == {"lan-on", "lan-off"}
Redraw(from, key) == [do |-> "banner", key |-> key, text |-> "none", from |-> from]

(* ---------------------------- gathered state ---------------------------- *)

\* service_usable, lan_access, and the rows that _page builds from one status(): the switches,
\* what is sensitive, and Status's Service row, which says the unit in words.
Usable == unit.installed /\ cred /\ host.wayland
LanAccess == bind = "any"
LanOption == host.backend = "wayvnc" \/ (host.backend = "grd" /\ host.private)
Page == [lan |-> LanAccess, enabled |-> unit.enabled, active |-> unit.active,
         sensitive |-> Usable, network |-> cred, service |-> unit]
\* The banner says why the switches are insensitive, and offers the password when that is it.
Banner == [revealed |-> ~Usable, fix |-> ~cred /\ unit.installed /\ host.wayland]

Absent == [installed |-> FALSE, enabled |-> FALSE, active |-> FALSE]
Units == [installed : {TRUE}, enabled : BOOLEAN, active : BOOLEAN] \cup {Absent}

Init ==
  /\ host \in Hosts /\ cred \in BOOLEAN /\ unit \in Units
  /\ bind \in Addresses \cup {"none"}
  /\ page = Page /\ banner = Banner
  /\ idle = 0 /\ dialog = "none" /\ call = Free
  /\ stale = {} /\ changes = 0

(* ------------------------------ the redraw ------------------------------ *)

\* refresh: the banner from one status(), the page from another, and the old page is gone.
RefreshBanner ==
  /\ call.do = "banner" /\ banner' = Banner /\ call' = [call EXCEPT !.do = "page"] /\ stale' = {}
  /\ UNCHANGED <<host, stored, page, idle, dialog, changes>>
\* The language chooser closes after the window was redrawn in the language chosen.
RefreshPage ==
  /\ call.do = "page" /\ page' = Page /\ call' = Free
  /\ dialog' = IF call.key = "language" THEN "none" ELSE dialog
  /\ UNCHANGED <<host, stored, banner, idle, stale, changes>>

\* _on_next_idle's run, for report and for a LAN choice's done.
RunIdle ==
  /\ call = Free /\ idle > 0 /\ idle' = idle - 1 /\ call' = Redraw("loop", "none")
  /\ UNCHANGED <<host, stored, shown, dialog, stale, changes>>

(* ------------------------ what the person may do ------------------------ *)

Sensitive(row) == IF row = "lan" THEN LanOption ELSE page.sensitive
Toggle(row) ==
  /\ call = Free /\ dialog = "none" /\ idle < Pending /\ Sensitive(row)
  /\ page' = [page EXCEPT ![row] = ~@]
  /\ call' = [do |-> IF row = "lan" THEN "store" ELSE "unit", text |-> "none", from |-> "page",
              key |-> IF row # "lan" THEN row ELSE IF page'.lan THEN "lan-on" ELSE "lan-off"]
  /\ UNCHANGED <<host, stored, banner, idle, dialog, stale, changes>>

\* choose and open_for: a form is filled in from what is stored as it opens, and holds
\* what the person left or typed when it is submitted.
Open(kind) ==
  /\ call = Free /\ dialog = "none" /\ dialog' = kind
  /\ kind = "network" => page.network
  /\ UNCHANGED <<host, stored, shown, idle, call, stale, changes>>
Cancel ==
  /\ call = Free /\ dialog # "none" /\ dialog' = "none"
  /\ UNCHANGED <<host, stored, shown, idle, call, stale, changes>>

\* A form is submitted whole; one with two different passwords, or with one that
\* check_password_for_backend refuses, says so and is otherwise left as it is.
Submit(kind, text) ==
  /\ call = Free /\ dialog = kind
  /\ call' = [do |-> "store", key |-> kind, text |-> text, from |-> "dialog"]
  /\ UNCHANGED <<host, stored, shown, idle, dialog, stale, changes>>
SubmitCredential == Submit("credential", "none")
SubmitNetwork(text) == Submit("network", text)
\* relanguage: the preference is written, the catalogue switched, everything redrawn.
ChooseLanguage ==
  /\ call = Free /\ dialog = "language" /\ call' = Redraw("dialog", "language")
  /\ UNCHANGED <<host, stored, shown, idle, dialog, stale, changes>>

(* --------------------------- the ends of a call --------------------------- *)

\* done for a LAN choice waits for an idle; a dialog's closes it and redraws at once.
DoneAtOnce ==          \* mutant: the redraw inside the switch's own signal
  /\ dialog' = "none" /\ call' = Redraw(call.from, "none") /\ UNCHANGED <<idle, stale>>
Done ==
  /\ IF call.from = "page"
     THEN idle' = idle + 1 /\ call' = Free /\ UNCHANGED dialog
     ELSE dialog' = "none" /\ call' = Redraw("dialog", "none") /\ UNCHANGED idle
  /\ UNCHANGED stale

\* report for a switch: a toast, and a redraw on the next idle.
ReportOnly == UNCHANGED <<idle, dialog, stale>>   \* mutant: a toast and no redraw
ReportTwice == idle' = idle + 2 /\ UNCHANGED <<dialog, stale>>   \* mutant: redrawn by both
Report == idle' = idle + 1 /\ UNCHANGED <<dialog, stale>>
\* What was not drawn although it may have changed: a switch's row, or what a form stored
\* before it failed.
Undrawn ==
  stale' = stale \cup (IF call.from = "page" THEN {"lan"} ELSE IF call.do = "apply" THEN {"dialog"} ELSE {})
\* A switch's error is reported; a form shows it in itself; and an exception that no
\* handler catches ends the call, with its traceback on stderr.
FailedUnseen(caught) == call' = Free /\ UNCHANGED <<idle, dialog, stale>>   \* mutant
Failed(caught) ==
  /\ call' = Free /\ IF caught /\ call.from = "page" THEN Report ELSE Undrawn /\ UNCHANGED <<idle, dialog>>

(* --------------------------- the calls themselves --------------------------- *)

\* set_password or provision.  A file that cannot be written or read is an OSError or a
\* ValueError; openssl failing or hanging, for a first bind, is a SubprocessError.
Store ==
  /\ call.do = "store"
  /\ \/ /\ IF call.key = "credential" THEN cred' = TRUE /\ UNCHANGED bind
           ELSE UNCHANGED cred /\ bind' = CASE call.key = "lan-on" -> "any"
                                            [] call.key = "lan-off" -> "loopback"
                                            [] OTHER -> call.text
        /\ call' = [call EXCEPT !.do = "apply"]
        /\ UNCHANGED <<idle, dialog, stale>>
     \/ Failed(TRUE) /\ UNCHANGED <<cred, bind>>
     \/ call.key # "credential" /\ bind = "none" /\ Failed(FALSE) /\ UNCHANGED <<cred, bind>>
  /\ UNCHANGED <<host, unit, shown, changes>>

\* sync_backend_password with refresh_config and restart_service, or apply_bind: a WayVNC
\* unit that does not come back is no error, a refusal by grdctl or systemctl is a
\* RuntimeError, which the network form alone does not catch, and a command that hangs a
\* SubprocessError.
Refusable == host.backend = "grd" /\ (call.key = "credential" \/ host.private)
Catches == call.key # "network"
Apply ==
  /\ call.do = "apply"
  /\ \/ /\ Done
        /\ unit' \in {unit} \cup (IF host.backend = "wayvnc" THEN {[unit EXCEPT !.active = FALSE]} ELSE {})
     \/ Refusable /\ Failed(Catches) /\ UNCHANGED unit
     \/ call.key = "credential" /\ host.backend # "grd" /\ Failed(TRUE) /\ UNCHANGED unit  \* refresh_config's
     \/ (Refusable \/ host.backend = "wayvnc") /\ Failed(FALSE) /\ UNCHANGED unit
  /\ UNCHANGED <<host, cred, bind, shown, changes>>

\* _apply_switch: systemctl enable, disable, start or stop to where the switch now is; its
\* timeout counts as a refusal.  When it works nothing is drawn: the switch is already right,
\* and Status's Service row is left saying what the unit was.
SwitchUnit ==
  /\ call.do = "unit"
  /\ \/ /\ unit.installed /\ unit' = [unit EXCEPT ![call.key] = page[call.key]]
        /\ call' = Free /\ stale' = stale \cup {"service"} /\ UNCHANGED <<idle, dialog>>
     \/ Failed(TRUE) /\ UNCHANGED unit
  /\ UNCHANGED <<host, cred, bind, shown, changes>>

\* The command line, systemd, a crash of the unit, the package manager.
OtherProgram ==
  /\ changes < Changes /\ changes' = changes + 1 /\ stale' = stale \cup {"outside"}
  /\ \/ cred' = ~cred /\ UNCHANGED <<bind, unit>>
     \/ bind' \in (Addresses \cup {"none"}) \ {bind} /\ UNCHANGED <<cred, unit>>
     \/ unit' \in Units \ {unit} /\ UNCHANGED <<cred, bind>>
  /\ UNCHANGED <<host, shown, idle, dialog, call>>

Handler == Store \/ Apply \/ SwitchUnit \/ RefreshBanner \/ RefreshPage
Person ==
  \/ \E row \in {"lan", "enabled", "active"} : Toggle(row)
  \/ \E kind \in Dialogs : Open(kind)
  \/ \E text \in Addresses : SubmitNetwork(text)
  \/ SubmitCredential \/ ChooseLanguage \/ Cancel
Next == Handler \/ RunIdle \/ Person \/ OtherProgram

Spec == Init /\ [][Next]_vars
\* Every command a handler runs has a time limit, and between two clicks of a person the
\* loop is idle often enough to run what was deferred.
FairSpec == Spec /\ WF_vars(Handler) /\ SF_vars(RunIdle)

(* ------------------------------ properties ------------------------------ *)

TypeOK ==
  /\ host \in Hosts /\ cred \in BOOLEAN /\ bind \in Addresses \cup {"none"}
  /\ unit \in Units
  /\ page \in [lan : BOOLEAN, enabled : BOOLEAN, active : BOOLEAN, sensitive : BOOLEAN, network : BOOLEAN,
               service : Units]
  /\ banner \in [revealed : BOOLEAN, fix : BOOLEAN]
  /\ idle \in 0 .. Pending
  /\ dialog \in {"none"} \cup Dialogs
  /\ call \in [do : {"none", "store", "apply", "unit", "banner", "page"}, text : {"none"} \cup Addresses,
               from : {"loop", "page", "dialog"},
               key : Choices \cup {"none", "credential", "network", "language", "enabled", "active"}]
  /\ stale \subseteq {"outside", "dialog", "lan", "service"} /\ changes \in 0 .. Changes

\* The page is never replaced while one of its own switches is still emitting its signal:
\* that once aborted the process.
NeverUnderItself == call.do \in {"banner", "page"} => call.from # "page"

\* With nothing left to run, the window shows what is stored and what systemd says, unless
\* another program or a half-done form changed it since.  The one row excepted is Status's
\* Service row, which says what the unit was before a switch worked, until the next redraw
\* (settings_app.py:_apply_switch draws nothing on success).
Quiet == call = Free /\ idle = 0
Rest(p) == [p EXCEPT !.service = Absent]
ShownIsStored ==
  Quiet /\ stale \subseteq {"service"} =>
    /\ Rest(page) = Rest(Page) /\ banner = Banner
    /\ stale = {} => page.service = unit

\* A switch left where its unit or the bind is not is put back, whatever worked before it.
PutBack == (Rest(page) # Rest(Page)) ~> (Rest(page) = Rest(Page) \/ ~ stale \subseteq {"service"})

\* settings_app.py:_apply_lan_access: "On failure the toast says why and the deferred redraw
\* puts the switch back where the stored bind is".
LanPutBack == Quiet /\ stale \subseteq {"lan"} => page.lan = LanAccess
================================================================================
