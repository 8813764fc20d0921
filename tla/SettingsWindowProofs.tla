-------------------------- MODULE SettingsWindowProofs --------------------------
(***************************************************************************)
(* Proofs about SettingsWindow, for every set of hosts and addresses and   *)
(* every bound.  ShownIsStored is not inductive by itself: it speaks of a  *)
(* window with nothing left to run, and Drawn says what must already be    *)
(* true of the widgets while each handler is still running.                *)
(***************************************************************************)
EXTENDS SettingsWindow, TLAPS

\* Which handler runs on whose behalf.  A switch that is being handled has left room for
\* the one redraw it may defer.
CallShape ==
  /\ call.do = "none" => call = Free
  /\ call.do \in {"banner", "page"} => call.from # "page"
  /\ call.do = "unit" => call.from = "page" /\ call.key \in {"enabled", "active"}
  /\ call.do \in {"store", "apply"} => call.from # "loop"
  /\ call.from = "page" => idle < Pending

\* What the widgets show while a handler runs, when no redraw is due and nothing but the
\* Service row is behind: a unit's switch is ahead of its unit by just its own position, and
\* a form has changed nothing until it has stored.
Shows(p) == Rest(page) = Rest(p) /\ banner = Banner /\ (stale = {} => page.service = unit)
Drawn == stale \subseteq {"service"} =>
  /\ call.do = "page" => banner = Banner
  /\ idle = 0 /\ call.do = "none" => Shows(Page)
  /\ idle = 0 /\ call.do = "unit" => Shows([Page EXCEPT ![call.key] = page[call.key]])
  /\ idle = 0 /\ call.do = "store" /\ call.from = "dialog" => Shows(Page)

IInv == TypeOK /\ CallShape /\ Drawn

Rows  == [lan : BOOLEAN, enabled : BOOLEAN, active : BOOLEAN, sensitive : BOOLEAN, network : BOOLEAN,
          service : Units]
Calls == [do : {"none", "store", "apply", "unit", "banner", "page"}, text : {"none"} \cup Addresses,
          from : {"loop", "page", "dialog"},
          key : Choices \cup {"none", "credential", "network", "language", "enabled", "active"}]

\* A page built from what is stored has the type of a page, and so has the banner.
LEMMA PageTyped ==
  ASSUME host \in Hosts, cred \in BOOLEAN, unit \in Units
  PROVE  Page \in Rows /\ Banner \in [revealed : BOOLEAN, fix : BOOLEAN]
<1>1. host.wayland \in BOOLEAN
  BY WindowAssumption
<1>2. unit.installed \in BOOLEAN /\ unit.enabled \in BOOLEAN /\ unit.active \in BOOLEAN
  <2>1. CASE unit \in [installed : {TRUE}, enabled : BOOLEAN, active : BOOLEAN]
    <3>1. unit.installed = TRUE /\ unit.enabled \in BOOLEAN /\ unit.active \in BOOLEAN
      BY <2>1
    <3>. QED BY <3>1
  <2>2. CASE unit = Absent
    BY <2>2 DEF Absent
  <2>. QED BY <2>1, <2>2 DEF Units
<1>3. Usable \in BOOLEAN /\ LanAccess \in BOOLEAN
  BY DEF Usable, LanAccess
<1>4. (~Usable) \in BOOLEAN /\ (~cred /\ unit.installed /\ host.wayland) \in BOOLEAN
  OBVIOUS
<1>5. Page \in Rows
  BY <1>2, <1>3 DEF Page, Rows
<1>6. Banner \in [revealed : BOOLEAN, fix : BOOLEAN]
  BY <1>4 DEF Banner
<1>. QED BY <1>5, <1>6

\* Everything but the Service row, of a page with one switch at v.
LEMMA SwitchedRest ==
  ASSUME NEW p \in Rows, NEW key \in {"enabled", "active"}, NEW v \in BOOLEAN, NEW u, NEW on, NEW run,
         on = (IF key = "enabled" THEN v ELSE p.enabled), run = (IF key = "active" THEN v ELSE p.active)
  PROVE  Rest([lan |-> p.lan, enabled |-> on, active |-> run, sensitive |-> p.sensitive,
               network |-> p.network, service |-> u]) = Rest([p EXCEPT ![key] = v])
<1>1. Rest([lan |-> p.lan, enabled |-> on, active |-> run, sensitive |-> p.sensitive,
            network |-> p.network, service |-> u])
      = [lan |-> p.lan, enabled |-> on, active |-> run, sensitive |-> p.sensitive,
         network |-> p.network, service |-> Absent]
  BY DEF Rest
<1>2. [p EXCEPT ![key] = v] \in Rows
  BY DEF Rows
<1>3. DEFINE q == [p EXCEPT ![key] = v]
<1>4. /\ q.lan = p.lan /\ q.enabled = on /\ q.active = run /\ q.sensitive = p.sensitive
      /\ q.network = p.network
  BY DEF Rows
<1>5. ASSUME NEW r \in Rows
      PROVE  Rest(r) = [lan |-> r.lan, enabled |-> r.enabled, active |-> r.active, sensitive |-> r.sensitive,
                        network |-> r.network, service |-> Absent]
  BY DEF Rest, Rows
<1>. QED BY <1>1, <1>2, <1>4, <1>5

\* A redraw and the free loop have the type of a call.
LEMMA CallsTyped ==
  /\ Free \in Calls
  /\ \A from \in {"loop", "page", "dialog"}, key \in {"none", "language"} : Redraw(from, key) \in Calls
  BY DEF Free, Redraw, Calls, Choices

THEOREM InitEstablishes == Init => IInv
<1> SUFFICES ASSUME Init PROVE IInv
  OBVIOUS
<1> USE DEF Init, stored, shown
<1>1. TypeOK
  <2>1. /\ page \in Rows /\ banner \in [revealed : BOOLEAN, fix : BOOLEAN]
    BY PageTyped
  <2>. QED BY <2>1, CallsTyped, WindowAssumption DEF TypeOK, Rows, Calls, Dialogs
<1>2. CallShape
  BY DEF CallShape, Free
<1>3. Drawn
  <2>1. page.service = unit
    BY DEF Page
  <2>. QED BY <2>1 DEF Drawn, Shows, Free
<1>. QED BY <1>1, <1>2, <1>3 DEF IInv

\* The first half of a redraw: from here the banner is right until something changes.
LEMMA BannerStep == ASSUME IInv, RefreshBanner PROVE IInv'
<1> USE DEF IInv, RefreshBanner, stored, shown
<1>1. call' \in Calls /\ call'.do = "page" /\ call'.from = call.from
  BY DEF TypeOK, Calls
<1>2. TypeOK'
  BY <1>1, PageTyped DEF TypeOK, Calls
<1>3. CallShape'
  BY <1>1 DEF CallShape
<1>4. Drawn'
  BY <1>1 DEF Drawn, Banner, Usable
<1>. QED BY <1>2, <1>3, <1>4

\* The second half: the page is what was gathered, and the banner was.
LEMMA PageStep == ASSUME IInv, RefreshPage PROVE IInv'
<1> USE DEF IInv, RefreshPage, stored, shown
<1>1. call' = Free /\ Free \in Calls
  BY CallsTyped
<1>2. TypeOK'
  BY <1>1, PageTyped DEF TypeOK, Calls, Rows, Dialogs
<1>3. CallShape'
  BY <1>1 DEF CallShape, Free
<1>4. Drawn'
  <2>1. Page' = Page /\ Banner' = Banner
    BY DEF Page, Banner, Usable, LanAccess
  <2>2. page' = Page /\ Page.service = unit
    BY DEF Page
  <2>. QED BY <1>1, <2>1, <2>2 DEF Drawn, Shows, Free
<1>. QED BY <1>2, <1>3, <1>4

LEMMA IdleStep == ASSUME IInv, RunIdle PROVE IInv'
<1> USE DEF IInv, RunIdle, stored, shown
<1>1. call' \in Calls /\ call'.do = "banner" /\ call'.from = "loop"
  BY CallsTyped DEF Redraw
<1>2. TypeOK'
  BY <1>1, WindowAssumption DEF TypeOK, Calls
<1>3. CallShape'
  BY <1>1 DEF CallShape
<1>4. Drawn'
  BY <1>1 DEF Drawn
<1>. QED BY <1>2, <1>3, <1>4

\* A switch that was flipped is ahead of what is stored by its own position only.
LEMMA ToggleStep ==
  ASSUME IInv, NEW row \in {"lan", "enabled", "active"}, Toggle(row) PROVE IInv'
<1> USE DEF IInv, Toggle, stored, shown
<1>1. /\ call' \in Calls /\ call'.from = "page" /\ page' \in Rows
      /\ row = "lan" => call'.do = "store"
      /\ row # "lan" => call'.do = "unit" /\ call'.key = row
  BY DEF TypeOK, Calls, Rows, Choices
<1>2. TypeOK'
  BY <1>1 DEF TypeOK, Calls, Rows
<1>3. CallShape'
  BY <1>1 DEF CallShape
<1>4. Drawn'
  <2>1. ASSUME row # "lan", stale \subseteq {"service"}, idle = 0
        PROVE  /\ banner = Banner /\ Rest(page') = Rest([Page EXCEPT ![row] = page'[row]])
               /\ stale = {} => page'.service = unit
    <3>1. Rest(page) = Rest(Page) /\ banner = Banner /\ (stale = {} => page.service = unit)
      BY <2>1 DEF Drawn, Shows, Free
    <3>2. page'.service = page.service
      BY DEF TypeOK
    <3>3. Rest(page') = [Rest(page) EXCEPT ![row] = page'[row]]
      BY <2>1 DEF Rest, TypeOK
    <3>4. Rest([Page EXCEPT ![row] = page'[row]]) = [Rest(Page) EXCEPT ![row] = page'[row]]
      <4>1. Page \in Rows /\ page'[row] \in BOOLEAN
        BY <1>1, PageTyped DEF TypeOK, Rows
      <4>. QED BY <4>1 DEF Rest, Rows
    <3>. QED BY <3>1, <3>2, <3>3, <3>4
  <2>2. Page' = Page /\ Banner' = Banner
    BY DEF Page, Banner, Usable, LanAccess
  <2>. QED BY <1>1, <2>1, <2>2 DEF Drawn, Shows
<1>. QED BY <1>2, <1>3, <1>4

\* Opening, leaving and submitting a form draws and stores nothing.
LEMMA FormStep ==
  ASSUME IInv,
         \/ \E kind \in Dialogs : Open(kind)
         \/ Cancel \/ SubmitCredential \/ ChooseLanguage
         \/ \E text \in Addresses : SubmitNetwork(text)
  PROVE  IInv'
<1> USE DEF IInv, stored, shown
<1>1. /\ UNCHANGED <<host, cred, bind, unit, page, banner, idle, stale, changes>>
      /\ call = Free /\ dialog' \in {"none"} \cup Dialogs
      /\ \/ call' = Free
         \/ call' \in Calls /\ call'.from = "dialog" /\ call'.do \in {"store", "banner"}
  BY CallsTyped DEF Open, Cancel, SubmitCredential, SubmitNetwork, Submit, ChooseLanguage, Redraw,
                    TypeOK, Calls
<1>2. TypeOK'
  BY <1>1, CallsTyped DEF TypeOK, Calls
<1>3. CallShape'
  BY <1>1 DEF CallShape, Free
<1>4. Drawn'
  <2>1. Page' = Page /\ Banner' = Banner
    BY <1>1 DEF Page, Banner, Usable, LanAccess
  <2>2. call.do = "none" /\ call.from = "loop"
    BY <1>1 DEF Free
  <2>. QED BY <1>1, <2>1, <2>2 DEF Drawn, Shows
<1>. QED BY <1>2, <1>3, <1>4

\* A handler that fails without having changed what is drawn: a switch leaves a redraw due
\* or its row behind, a form that stored nothing leaves the widgets right.
LEMMA FailedStep ==
  ASSUME IInv, NEW caught \in BOOLEAN, Failed(caught), call.do \in {"store", "apply", "unit"},
         UNCHANGED <<host, cred, bind, unit, page, banner, changes>>
  PROVE  IInv'
<1> USE DEF IInv
<1>1. call' = Free /\ Free \in Calls /\ UNCHANGED dialog
  BY CallsTyped DEF Failed, Report
<1>2. \/ idle' = idle + 1 /\ stale' = stale /\ call.from = "page"
      \/ idle' = idle /\ ~ stale' \subseteq {"service"} /\ stale' \subseteq {"outside", "dialog", "lan", "service"}
      \/ idle' = idle /\ stale' = stale /\ call.from # "page" /\ call.do # "apply"
  <2>1. CASE caught /\ call.from = "page"
    BY <2>1 DEF Failed, Report
  <2>2. CASE ~(caught /\ call.from = "page")
    <3>1. idle' = idle /\ stale' = stale \cup (IF call.from = "page" THEN {"lan"} ELSE IF call.do = "apply" THEN {"dialog"} ELSE {})
      BY <2>2 DEF Failed, Undrawn
    <3>. QED BY <3>1 DEF TypeOK
  <2>. QED BY <2>1, <2>2
<1>3. TypeOK'
  <2>1. idle' \in 0 .. Pending
    <3>1. Pending \in Nat /\ idle \in 0 .. Pending
      BY WindowAssumption DEF TypeOK
    <3>2. call.from = "page" => idle < Pending
      BY DEF CallShape
    <3>. QED BY <1>2, <3>1, <3>2
  <2>2. stale' \subseteq {"outside", "dialog", "lan", "service"}
    BY <1>2 DEF TypeOK
  <2>3. call' \in Calls
    BY <1>1
  <2>. QED BY <1>1, <2>1, <2>2, <2>3 DEF TypeOK, Calls
<1>4. CallShape'
  BY <1>1 DEF CallShape, Free
<1>5. Drawn'
  <2>1. Page' = Page /\ Banner' = Banner
    BY DEF Page, Banner, Usable, LanAccess
  <2>2. CASE idle' = idle + 1
    BY <2>2, <1>1 DEF Drawn, Free, TypeOK
  <2>3. CASE ~ stale' \subseteq {"service"}
    BY <2>3 DEF Drawn
  <2>4. CASE idle' = idle /\ stale' = stale /\ call.from # "page" /\ call.do # "apply"
    <3>1. call.do = "store" /\ call.from = "dialog"
      BY <2>4 DEF CallShape, TypeOK, Free
    <3>. QED BY <2>4, <3>1, <2>1, <1>1 DEF Drawn, Shows, Free
  <2>. QED BY <1>2, <2>2, <2>3, <2>4
<1>. QED BY <1>3, <1>4, <1>5

\* What a store changes is drawn by the call that applies it.
LEMMA StoreStep == ASSUME IInv, Store PROVE IInv'
<1> USE DEF IInv, stored, shown
<1>1. /\ call.do = "store"
      /\ UNCHANGED <<host, unit, page, banner, changes>>
  BY DEF Store
<1>2. CASE /\ call' = [call EXCEPT !.do = "apply"] /\ UNCHANGED <<idle, dialog, stale>>
           /\ cred' \in BOOLEAN /\ bind' \in Addresses \cup {"none"}
  <2>1. call' \in Calls /\ call'.do = "apply" /\ call'.from = call.from
    BY <1>2 DEF TypeOK, Calls
  <2>2. TypeOK'
    BY <1>1, <1>2, <2>1 DEF TypeOK, Calls
  <2>3. CallShape'
    BY <1>1, <1>2, <2>1 DEF CallShape
  <2>4. Drawn'
    BY <2>1 DEF Drawn
  <2>. QED BY <2>2, <2>3, <2>4
<1>3. ASSUME NEW caught \in BOOLEAN, Failed(caught), UNCHANGED <<cred, bind>>
      PROVE  IInv'
  BY <1>1, <1>3, FailedStep
<1>4. \/ /\ call' = [call EXCEPT !.do = "apply"] /\ UNCHANGED <<idle, dialog, stale>>
         /\ cred' \in BOOLEAN /\ bind' \in Addresses \cup {"none"}
      \/ Failed(TRUE) /\ UNCHANGED <<cred, bind>>
      \/ Failed(FALSE) /\ UNCHANGED <<cred, bind>>
  <2>1. call.text \in Addresses \cup {"none"}
    BY DEF TypeOK, Calls
  <2>. QED BY <2>1, WindowAssumption DEF Store, TypeOK
<1>. QED BY <1>2, <1>3, <1>4

LEMMA ApplyStep == ASSUME IInv, Apply PROVE IInv'
<1> USE DEF IInv, stored, shown
<1>1. /\ call.do = "apply"
      /\ UNCHANGED <<host, cred, bind, page, banner, changes>>
  BY DEF Apply
<1>2. CASE Done /\ unit' \in Units
  <2>1. CASE call.from = "page"
    <3>1. idle' = idle + 1 /\ call' = Free /\ UNCHANGED <<dialog, stale>>
      BY <1>2, <2>1 DEF Done
    <3>2. idle' \in 0 .. Pending /\ idle' # 0
      BY <3>1, <2>1, WindowAssumption DEF TypeOK, CallShape
    <3>3. TypeOK'
      BY <1>1, <1>2, <3>1, <3>2, CallsTyped DEF TypeOK, Calls
    <3>4. CallShape'
      BY <3>1 DEF CallShape, Free
    <3>5. Drawn'
      BY <3>1, <3>2 DEF Drawn, Free
    <3>. QED BY <3>3, <3>4, <3>5
  <2>2. CASE call.from # "page"
    <3>1. /\ dialog' = "none" /\ UNCHANGED <<idle, stale>>
          /\ call' \in Calls /\ call'.do = "banner" /\ call'.from = "dialog"
      BY <1>2, <2>2, CallsTyped DEF Done, Redraw
    <3>2. TypeOK'
      BY <1>1, <1>2, <3>1 DEF TypeOK, Calls
    <3>3. CallShape'
      BY <3>1 DEF CallShape
    <3>4. Drawn'
      BY <3>1 DEF Drawn
    <3>. QED BY <3>2, <3>3, <3>4
  <2>. QED BY <2>1, <2>2
<1>3. ASSUME NEW caught \in BOOLEAN, Failed(caught), UNCHANGED unit
      PROVE  IInv'
  BY <1>1, <1>3, FailedStep
<1>4. \/ Done /\ unit' \in Units
      \/ \E caught \in BOOLEAN : Failed(caught) /\ UNCHANGED unit
  <2>1. [unit EXCEPT !.active = FALSE] \in Units
    <3>1. CASE unit = Absent
      <4>1. unit \in [installed : BOOLEAN, enabled : BOOLEAN, active : BOOLEAN] /\ unit.active = FALSE
        BY <3>1 DEF Absent
      <4>2. [unit EXCEPT !.active = FALSE] = unit
        BY <4>1
      <4>. QED BY <4>2 DEF TypeOK
    <3>2. CASE unit # Absent
      <4>1. unit \in [installed : {TRUE}, enabled : BOOLEAN, active : BOOLEAN]
        BY <3>2 DEF TypeOK, Units
      <4>. QED BY <4>1 DEF Units
    <3>. QED BY <3>1, <3>2
  <2>2. Catches \in BOOLEAN
    BY DEF Catches
  <2>. QED BY <2>1, <2>2 DEF Apply, TypeOK
<1>. QED BY <1>2, <1>3, <1>4

\* The unit goes where its switch already is.
LEMMA SwitchStep == ASSUME IInv, SwitchUnit PROVE IInv'
<1> USE DEF IInv, stored, shown
<1>1. /\ call.do = "unit" /\ call.key \in {"enabled", "active"}
      /\ UNCHANGED <<host, cred, bind, page, banner, changes>>
  BY DEF SwitchUnit, CallShape
<1>2. CASE /\ unit.installed /\ unit' = [unit EXCEPT ![call.key] = page[call.key]]
           /\ call' = Free /\ stale' = stale \cup {"service"} /\ UNCHANGED <<idle, dialog>>
  <2>1. page[call.key] \in BOOLEAN
    BY <1>1 DEF TypeOK
  <2>2. unit \in [installed : {TRUE}, enabled : BOOLEAN, active : BOOLEAN]
    <3>1. unit # Absent
      BY <1>2 DEF Absent
    <3>. QED BY <3>1 DEF TypeOK, Units
  <2>3. unit' \in Units
    BY <1>1, <1>2, <2>1, <2>2 DEF Units
  <2>4. TypeOK'
    BY <1>1, <1>2, <2>3, CallsTyped DEF TypeOK, Calls
  <2>5. CallShape'
    BY <1>2 DEF CallShape, Free
  <2>6. Drawn'
    <3>1. ASSUME stale \subseteq {"service"}, idle = 0
          PROVE  Rest(page) = Rest(Page') /\ banner = Banner'
      <4>1. banner = Banner /\ Rest(page) = Rest([Page EXCEPT ![call.key] = page[call.key]])
        BY <3>1, <1>1 DEF Drawn, Shows
      <4>2. unit'.installed = unit.installed
        BY <1>1, <1>2, <2>2
      <4>3. Banner' = Banner /\ Usable' = Usable
        BY <1>1, <4>2 DEF Banner, Usable
      <4>4. /\ unit'.enabled = IF call.key = "enabled" THEN page[call.key] ELSE Page.enabled
            /\ unit'.active = IF call.key = "active" THEN page[call.key] ELSE Page.active
        BY <1>1, <1>2, <2>2 DEF Page
      <4>5. Rest(Page') = Rest([Page EXCEPT ![call.key] = page[call.key]])
        <5>1. Page \in Rows
          BY PageTyped DEF TypeOK
        <5>2. Page' = [lan |-> Page.lan, enabled |-> unit'.enabled, active |-> unit'.active,
                       sensitive |-> Page.sensitive, network |-> Page.network, service |-> unit']
          BY <1>1, <4>3 DEF Page, LanAccess
        <5>. QED BY <1>1, <2>1, <4>4, <5>1, <5>2, SwitchedRest
      <4>. QED BY <1>1, <4>1, <4>3, <4>5
    <3>2. stale' # {} /\ (stale' \subseteq {"service"} => stale \subseteq {"service"})
      BY <1>2
    <3>. QED BY <1>1, <1>2, <3>1, <3>2 DEF Drawn, Shows, Free
  <2>. QED BY <2>4, <2>5, <2>6
<1>3. CASE Failed(TRUE) /\ UNCHANGED unit
  BY <1>1, <1>3, FailedStep
<1>. QED BY <1>2, <1>3 DEF SwitchUnit

LEMMA OutsideStep == ASSUME IInv, OtherProgram PROVE IInv'
<1> USE DEF IInv, OtherProgram, stored, shown
<1>1. TypeOK'
  <2>1. changes' \in 0 .. Changes /\ stale' \subseteq {"outside", "dialog", "lan", "service"}
    BY WindowAssumption DEF TypeOK
  <2>2. cred' \in BOOLEAN /\ bind' \in Addresses \cup {"none"} /\ unit' \in Units
    BY DEF TypeOK
  <2>. QED BY <2>1, <2>2 DEF TypeOK
<1>2. CallShape'
  BY DEF CallShape
<1>3. Drawn'
  BY DEF Drawn
<1>. QED BY <1>1, <1>2, <1>3

THEOREM NextPreserves == IInv /\ [Next]_vars => IInv'
<1> SUFFICES ASSUME IInv, [Next]_vars PROVE IInv'
  OBVIOUS
<1>1. CASE Handler
  BY <1>1, StoreStep, ApplyStep, SwitchStep, BannerStep, PageStep DEF Handler
<1>2. CASE RunIdle
  BY <1>2, IdleStep
<1>3. CASE Person
  BY <1>3, ToggleStep, FormStep DEF Person
<1>4. CASE OtherProgram
  BY <1>4, OutsideStep
<1>5. CASE UNCHANGED vars
  <2>1. Page' = Page /\ Banner' = Banner
    BY <1>5 DEF vars, stored, Page, Banner, Usable, LanAccess
  <2>2. UNCHANGED <<host, cred, bind, unit, page, banner, idle, dialog, call, stale, changes>>
    BY <1>5 DEF vars, stored, shown
  <2>3. TypeOK' /\ CallShape'
    BY <2>2 DEF IInv, TypeOK, CallShape
  <2>4. Drawn'
    BY <2>1, <2>2 DEF IInv, Drawn, Shows
  <2>. QED BY <2>3, <2>4 DEF IInv
<1>. QED BY <1>1, <1>2, <1>3, <1>4, <1>5 DEF Next

THEOREM Invariant == Spec => []IInv
<1>. QED BY InitEstablishes, NextPreserves, PTL DEF Spec

\* Every variable keeps its type; no more redraws are ever waiting than Pending.
THEOREM TypeCorrect == Spec => []TypeOK
<1>1. IInv => TypeOK
  BY DEF IInv
<1>. QED BY <1>1, Invariant, PTL

\* The page is never replaced inside the signal of one of its own switches
\* (settings_app.py:_apply_lan_access and report defer it to an idle).
THEOREM RedrawnFromOutside == Spec => []NeverUnderItself
<1>1. IInv => NeverUnderItself
  BY DEF IInv, CallShape, NeverUnderItself
<1>. QED BY <1>1, Invariant, PTL

\* With nothing left to run the window shows what is stored and what systemd says, unless
\* another program or a half-done form changed it since the last redraw.
THEOREM WindowIsHonest == Spec => []ShownIsStored
<1>1. IInv => ShownIsStored
  BY DEF IInv, Drawn, Shows, ShownIsStored, Quiet, Free
<1>. QED BY <1>1, Invariant, PTL
================================================================================
