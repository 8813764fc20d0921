----------------------------- MODULE AndroidViewer -----------------------------
(***************************************************************************)
(* How the qualification lab drives the RealVNC Viewer app: connect answers *)
(* the app's screens one UI dump at a time, types the credentials and reads *)
(* them back, and desktop_size visits the information screen.  The app is   *)
(* the environment: it changes its screen between a dump and the tap that   *)
(* answers it, answers a dump with nothing, drops keystrokes, ignores Back, *)
(* and shows the connecting screen, which looks like a desktop with nothing *)
(* on it, for a while.                                                      *)
(***************************************************************************)
EXTENDS Integers, Sequences

CONSTANTS
  QuietDumps,    \* QUIET_DUMPS: dumps with nothing to answer before a bare desktop counts
  Late,          \* dumps the connecting screen lasts without it being a fault of the app
  Attempts,      \* how often a field is typed before it is submitted as it is
  Backs,         \* how often Back is pressed for one keyboard
  Dumps,         \* bound: dumps one visit to the information screen waits for
  Faults,        \* bound: faults of the app or the server in one behaviour
  Paths          \* the sequences of screens an app may have to show

ASSUME NumbersAssumption ==
  /\ QuietDumps \in Nat \ {0} /\ Late \in Nat /\ Attempts \in Nat \ {0}
  /\ Backs \in Nat \ {0} /\ Dumps \in Nat \ {0} /\ Faults \in Nat

FirstRun == {"tour", "final", "help", "coach", "hint"}
Asks     == {"continue", "identity", "unencrypted"}
Sheets   == {"both", "password"}
Views    == FirstRun \cup Asks \cup Sheets \cup
            {"blank", "desktop", "invalid", "dialog", "leaving", "lost", "info", "gone"}

ASSUME PathsAssumption ==
  /\ Paths \subseteq Seq(FirstRun \cup Asks \cup Sheets \cup {"desktop", "dialog"})
  /\ \A p \in Paths : \E i \in 1 .. Len(p) :
       p[i] = "desktop" /\ \A j \in 1 .. Len(p) : p[j] \in Sheets => j < i

VARIABLES
  view, todo, reached, late,     \* the app: what is on top, what is still to come
  keyboard, service,             \* the soft keyboard, and whether its service admits it
  user, pass,                    \* what the fields of the sheet hold
  bar, ticked,                   \* toolbar shown, analytics box ticked
  faults,                        \* how many things went wrong so far
  pc, seen, quiet, entered,      \* connect: place, last dump, quiet dumps, credentials sent
  attempt, backs,                \* the typing attempt, and Back presses of one _hide_ime
  tapped, dumps, sized,          \* desktop_size: button tapped, dumps taken, size read
  outcome,                       \* what connect returned
  stray                          \* clicks this visit sent to the server by mistake

appVars == <<view, todo, reached, late, keyboard, service, user, pass, bar, ticked>>
runVars == <<pc, seen, quiet, entered, attempt, backs, tapped, dumps, outcome, sized>>
vars == <<appVars, runVars, faults, stray>>

Field == {"empty", "right", "short"}

\* One `uiautomator dump`: what the program knows until the next one.  The keyboard is
\* full-screen in landscape, so with it up the dump shows neither fields nor dialogs.
Dump == [view |-> IF keyboard THEN "blank" ELSE view, keyboard |-> keyboard,
         user |-> user, pass |-> pass, bar |-> bar, ticked |-> ticked]

\* A dump that failed, or whose hierarchy was empty for a moment, is a fault: no node is
\* in it, as if nothing were on screen.
Nothing == [view |-> "blank", keyboard |-> FALSE, user |-> "empty", pass |-> "empty",
            bar |-> FALSE, ticked |-> FALSE]
Missing == faults < Faults /\ faults' = faults + 1

Init ==
  /\ view = "gone" /\ todo = <<>> /\ reached = FALSE /\ late = 0
  /\ keyboard = FALSE /\ service = FALSE /\ user = "empty" /\ pass = "empty"
  /\ bar = FALSE /\ ticked = TRUE /\ faults = 0 /\ stray = 0
  /\ pc = "idle" /\ seen = Dump /\ quiet = 0 /\ entered = FALSE /\ attempt = 1
  /\ backs = 0 /\ tapped = FALSE /\ dumps = 0 /\ outcome = "none" /\ sized = FALSE

(* ------------------------------ the app --------------------------------- *)

Base == IF reached THEN "desktop" ELSE "blank"

\* The next screen of its path comes up: over the connecting screen, or over the desktop.
Show ==
  /\ view = Base /\ todo # <<>>
  /\ view' = Head(todo) /\ todo' = Tail(todo) /\ late' = 0
  /\ reached' = (reached \/ Head(todo) = "desktop")
  /\ bar' = (Head(todo) = "desktop")
  /\ UNCHANGED <<keyboard, service, user, pass, ticked, runVars, faults, stray>>

\* The toolbar hides itself a few seconds after it was shown; it can be called back.
Toolbar ==
  /\ view = "desktop" /\ bar' = ~bar
  /\ UNCHANGED <<view, todo, reached, late, keyboard, service, user, pass, ticked, runVars, faults, stray>>

\* A dropped connection leaves an untitled message over whatever was on top.
Drop ==
  /\ faults < Faults /\ view \in {"blank", "desktop", "continue"} \cup Sheets
  /\ faults' = faults + 1 /\ view' = "lost" /\ todo' = <<>> /\ bar' = FALSE
  /\ keyboard' = FALSE /\ service' = FALSE
  /\ UNCHANGED <<reached, late, user, pass, ticked, runVars, stray>>

\* The input method service reports the keyboard down while it is still on screen.
Deny ==
  /\ faults < Faults /\ keyboard /\ service /\ faults' = faults + 1 /\ service' = FALSE
  /\ UNCHANGED <<view, todo, reached, late, keyboard, user, pass, bar, ticked, runVars, stray>>

(* ------------------- what a tap or a key does to the app ---------------- *)

\* What a screen gives way to when its button is pressed.
Answered(v) ==
  CASE v = "invalid" -> "gone"
    [] v = "leaving" -> "gone"
    [] OTHER -> Base

\* A tap at the place where the dump showed a button: it answers the screen that was
\* dumped when that is still up, and is lost on a message that replaced it.
Tap ==
  /\ view' = IF view = seen.view /\ ~keyboard THEN Answered(view) ELSE view
  /\ UNCHANGED <<todo, reached, late, keyboard, service, user, pass, bar, ticked, stray>>

\* CONTINUE on the sheet: the server accepts what is right and refuses anything else.
TapSubmit ==
  /\ IF view \in Sheets /\ ~keyboard
     THEN /\ view' = "blank" /\ late' = 0
          /\ todo' = IF pass = "right" /\ (view = "both" => user = "right")
                     THEN todo ELSE <<"invalid">>
     ELSE UNCHANGED <<view, todo, late>>
  /\ UNCHANGED <<reached, keyboard, service, user, pass, bar, ticked, stray>>

\* Back closes the keyboard when one is up.  Without one it cancels the sheet and with
\* it the connection, closes the help and information screens, and on the bare desktop
\* asks whether to leave.
BackTaken ==
  /\ keyboard' = FALSE /\ service' = FALSE
  /\ view' = IF keyboard THEN view
             ELSE CASE view \in Sheets -> "gone"
                    [] view \in {"help", "info"} -> Base
                    [] view = "desktop" -> "leaving"
                    [] OTHER -> view
  /\ UNCHANGED <<todo, reached, late, user, pass, bar, ticked, stray, faults>>

BackIgnored == faults < Faults /\ faults' = faults + 1 /\ UNCHANGED <<appVars, stray>>

Back == BackTaken \/ BackIgnored

(* ------------------------------- connect -------------------------------- *)

ConnectKept ==       \* mutant: the typing attempts of the last connection still count
  /\ pc = "idle" /\ pc' = "look"
  /\ \E p \in Paths : todo' = p
  /\ view' = "blank" /\ reached' = FALSE /\ late' = 0 /\ bar' = FALSE
  /\ keyboard' = FALSE /\ service' = FALSE /\ user' = "empty" /\ pass' = "empty"
  /\ quiet' = 0 /\ entered' = FALSE /\ backs' = 0
  /\ outcome' = "none" /\ UNCHANGED <<ticked, faults, seen, attempt, tapped, dumps, sized, stray>>

\* force-stop, then am start: the app begins at the head of one of its paths.
Connect ==
  /\ pc = "idle" /\ pc' = "look"
  /\ \E p \in Paths : todo' = p
  /\ view' = "blank" /\ reached' = FALSE /\ late' = 0 /\ bar' = FALSE
  /\ keyboard' = FALSE /\ service' = FALSE /\ user' = "empty" /\ pass' = "empty"
  /\ quiet' = 0 /\ entered' = FALSE /\ attempt' = 1 /\ backs' = 0
  /\ outcome' = "none" /\ UNCHANGED <<ticked, faults, seen, tapped, dumps, sized, stray>>

\* A dump, or nothing.  The connecting screen gives way before it was dumped Late times;
\* each dump by which a slow app outlasts that is a fault as well.
Look ==
  /\ pc = "look" /\ pc' = "answer"
  /\ \/ /\ view = "blank" => late < Late
        /\ late' = IF view = "blank" THEN late + 1 ELSE late
        /\ seen' = Dump /\ UNCHANGED faults
     \/ Missing /\ seen' = Nothing /\ UNCHANGED late
     \/ view = "blank" /\ late = Late /\ Missing /\ seen' = Dump /\ UNCHANGED late
  /\ UNCHANGED <<view, todo, reached, keyboard, service, user, pass, bar, ticked,
                 quiet, entered, attempt, backs, tapped, dumps, outcome, sized, stray>>

\* The deadline is looked at only at the head of the loop.
Expire ==
  /\ pc = "look" /\ pc' = "idle" /\ outcome' = "timeout"
  /\ UNCHANGED <<appVars, faults, seen, quiet, entered, attempt, backs, tapped, dumps, sized, stray>>

AgainQuiet == pc' = "look" /\ UNCHANGED <<quiet, seen, entered, attempt, backs, tapped, dumps, outcome, sized>>  \* mutant: not reset
Again == pc' = "look" /\ quiet' = 0 /\ UNCHANGED <<seen, entered, attempt, backs, tapped, dumps, outcome, sized>>

ToggleFirstRun ==    \* mutant: the box is tapped whatever the dump showed
  /\ pc = "answer" /\ seen.view \in FirstRun \ {"help"} /\ Again
  /\ IF seen.view = "final" /\ view = "final"
     THEN /\ ticked' = ~ticked
          /\ view' \in IF faults < Faults THEN {Base, view} ELSE {Base}
          /\ faults' = IF view' = view THEN faults + 1 ELSE faults
          /\ UNCHANGED <<todo, reached, late, keyboard, service, user, pass, bar, stray>>
     ELSE Tap /\ UNCHANGED faults

\* _answer_first_run: Back for the help view, a button for the others; the analytics
\* box is unticked first when the dump showed it ticked.  Either tap on the final page
\* may be lost; no event of the app's comes between the two.
AnswerFirstRun ==
  /\ pc = "answer" /\ seen.view \in FirstRun \ {"help"} /\ Again
  /\ IF seen.view = "final" /\ view = "final"
     THEN /\ \E unticked \in {seen.ticked, FALSE}, accepted \in BOOLEAN :
               /\ ticked' = IF unticked THEN ~ticked ELSE ticked
               /\ view' = IF accepted THEN Base ELSE view
               /\ faults' = faults + (IF unticked = seen.ticked THEN 0 ELSE 1)
                                   + (IF accepted THEN 0 ELSE 1)
          /\ faults' <= Faults
          /\ UNCHANGED <<todo, reached, late, keyboard, service, user, pass, bar, stray>>
     ELSE Tap /\ UNCHANGED faults

AnswerHelp == pc = "answer" /\ seen.view = "help" /\ Back /\ Again

\* _answer_screen: the questions and any titled dialog are answered with their button.
AnswerDialog ==
  /\ pc = "answer" /\ seen.view \in Asks \cup {"dialog", "leaving"}
  /\ Tap /\ Again /\ UNCHANGED faults

AnswerRefusal ==
  /\ pc = "answer" /\ seen.view = "invalid" /\ Tap
  /\ pc' = "idle" /\ outcome' = "refused"
  /\ UNCHANGED <<seen, quiet, entered, attempt, backs, tapped, dumps, sized, faults>>

\* A sheet that is still, or again, up after it was submitted is only waited on.
AnswerSheet ==
  /\ pc = "answer" /\ seen.view \in Sheets
  /\ pc' = IF entered THEN "look" ELSE "hide"
  /\ quiet' = 0
  /\ UNCHANGED <<appVars, seen, entered, attempt, backs, tapped, dumps, outcome, sized, faults, stray>>

\* desktop_visible: no cover in the dump, and the desktop activity on top right now.
Covered == Asks \cup Sheets \cup {"help", "coach", "dialog", "leaving"}
DesktopActivity == Views \ {"tour", "final", "info", "gone"}

Unanswered(v) == v \in {"blank", "desktop", "lost", "gone", "info"}

\* Nothing to answer: a toolbar, or enough quiet dumps of a desktop, is a connection;
\* ensure_landscape and _home_toolbar then settle it or give it up.
AnswerNothing ==
  /\ pc = "answer" /\ Unanswered(seen.view)
  /\ IF seen.bar \/ (quiet + 1 >= QuietDumps /\ seen.view \notin Covered /\ view \in DesktopActivity)
     THEN \/ pc' = "up" /\ outcome' = "connected" /\ UNCHANGED faults
          \/ /\ faults < Faults /\ faults' = faults + 1       \* it would not turn to landscape
             /\ pc' = "idle" /\ outcome' = "portrait"
     ELSE pc' = "look" /\ UNCHANGED <<outcome, faults>>
  /\ quiet' = IF quiet < QuietDumps THEN quiet + 1 ELSE quiet
  /\ UNCHANGED <<appVars, seen, entered, attempt, backs, tapped, dumps, sized, stray>>

(* ------------- _enter_credentials and _enter_password_only -------------- *)

\* _ime_up believes either witness: the service, or the extract view in a dump.
AlwaysUp == TRUE      \* mutant: Back is pressed without asking
ImeUp == service \/ keyboard

\* _hide_ime: asked before each Back, and given up after Backs of them.  A keyboard the
\* service denies is overlooked when the dump that would show it is missing.
HideIme(from, to) ==
  /\ pc = from
  /\ \/ (~ImeUp \/ backs = Backs) /\ pc' = to /\ backs' = 0
        /\ UNCHANGED <<appVars, faults, stray>>
     \/ ~service /\ keyboard /\ backs < Backs /\ Missing /\ pc' = to /\ backs' = 0
        /\ UNCHANGED <<appVars, stray>>
     \/ ImeUp /\ backs < Backs /\ backs' = backs + 1 /\ pc' = from /\ Back
  /\ UNCHANGED <<seen, quiet, entered, attempt, tapped, dumps, outcome, sized>>

NextAttempt == IF attempt < Attempts THEN "hide" ELSE "submit"

\* The first field is looked for in a fresh dump; tapped, it opens the keyboard.
TapField ==
  /\ pc = "find" /\ backs' = 0
  /\ \/ /\ view \in Sheets /\ ~keyboard
        /\ keyboard' = TRUE /\ service' = TRUE /\ pc' = "type" /\ UNCHANGED <<attempt, faults>>
     \/ /\ IF view \in Sheets /\ ~keyboard THEN Missing ELSE UNCHANGED faults
        /\ pc' = NextAttempt /\ attempt' = attempt + 1 /\ UNCHANGED <<keyboard, service>>
  /\ UNCHANGED <<view, todo, reached, late, user, pass, bar, ticked, seen, quiet, entered,
                 tapped, dumps, outcome, sized, stray>>

\* _retype clears the field and types it; a freshly focused field may drop a keystroke.
Retype ==
  /\ pc = "type" /\ pc' = "hide2"
  /\ IF view \in Sheets /\ keyboard
     THEN \E u, p \in {"right"} \cup IF faults < Faults THEN {"short"} ELSE {} :
            /\ pass' = p /\ user' = IF view = "both" THEN u ELSE user
            /\ faults' = IF "short" \in {u, p} THEN faults + 1 ELSE faults
     ELSE UNCHANGED <<user, pass, faults>>
  /\ UNCHANGED <<view, todo, reached, late, keyboard, service, bar, ticked, seen, quiet, entered,
                 attempt, backs, tapped, dumps, outcome, sized, stray>>

\* What the fields hold is read back from a dump, which shows them only without keyboard.
ReadsAnything == TRUE   \* mutant: what was typed is not read back
ReadsBack ==
  /\ view \in Sheets /\ ~keyboard
  /\ pass = "right" /\ (view = "both" => user = "right")

ReadBack ==
  /\ pc = "read" /\ backs' = 0
  /\ \/ ReadsBack /\ pc' = "submit" /\ UNCHANGED <<attempt, faults>>
     \/ /\ IF ReadsBack THEN Missing ELSE UNCHANGED faults
        /\ pc' = NextAttempt /\ attempt' = attempt + 1
  /\ UNCHANGED <<appVars, seen, quiet, entered, tapped, dumps, outcome, sized, stray>>

\* CONTINUE is tapped where the dump from before the typing showed it.
Submit ==
  /\ pc = "submit" /\ TapSubmit
  /\ pc' = "look" /\ entered' = TRUE /\ quiet' = 0
  /\ UNCHANGED <<seen, attempt, backs, tapped, dumps, outcome, sized, faults>>

EnterCredentials ==
  HideIme("hide", "find") \/ TapField \/ Retype \/ HideIme("hide2", "read") \/ ReadBack \/ Submit

(* ----------------------------- desktop_size ----------------------------- *)

OpenInfo ==
  /\ pc = "up" /\ pc' = "info" /\ tapped' = FALSE /\ dumps' = 0 /\ sized' = FALSE /\ stray' = 0
  /\ UNCHANGED <<appVars, faults, seen, quiet, entered, attempt, backs, outcome>>

LookForever ==       \* mutant: the dumps of a visit are not limited
  /\ pc = "info"
  /\ \/ seen' = Dump /\ UNCHANGED faults
     \/ seen' = Nothing /\ Missing
  /\ sized' = (seen'.view = "info")
  /\ pc' = IF sized' THEN "close" ELSE "tapinfo"
  /\ UNCHANGED <<appVars, quiet, entered, attempt, backs, tapped, dumps, outcome, stray>>

\* _open_info_screen: one dump per round until the size field is in it.
LookInfo ==
  /\ pc = "info" /\ dumps' = dumps + 1
  /\ \/ seen' = Dump /\ UNCHANGED faults
     \/ seen' = Nothing /\ Missing
  /\ sized' = (seen'.view = "info")
  /\ pc' = IF sized' THEN "close" ELSE "tapinfo"
  /\ UNCHANGED <<appVars, quiet, entered, attempt, backs, tapped, outcome, stray>>

\* The screen was asked for and has not come up yet.
Opening == \E i \in DOMAIN todo : todo[i] = "info"

TapInfoAgain ==      \* mutant: the button is tapped in every round
  /\ pc = "tapinfo"
  /\ tapped' = (tapped \/ seen.bar)
  /\ IF seen.bar
     THEN IF view = "desktop" /\ bar
          THEN todo' = (IF Opening THEN todo ELSE <<"info">> \o todo) /\ UNCHANGED stray
          ELSE todo' = todo /\ stray' = IF view = "desktop" THEN stray + 1 ELSE stray
     ELSE UNCHANGED <<todo, stray>>
  /\ pc' = CASE dumps < Dumps -> "info" [] tapped' -> "close" [] OTHER -> "up"
  /\ UNCHANGED <<view, reached, late, keyboard, service, user, pass, bar, ticked, faults, seen, quiet,
                 entered, attempt, backs, dumps, outcome, sized>>

\* The button is tapped once, and only when the toolbar was in the dump; without it the
\* same tap is a click the app sends to the server.  A loaded emulator opens it late.
TapInfo ==
  /\ pc = "tapinfo"
  /\ tapped' = (tapped \/ seen.bar)
  /\ IF ~tapped /\ seen.bar
     THEN IF view = "desktop" /\ bar
          THEN todo' = (IF Opening THEN todo ELSE <<"info">> \o todo) /\ UNCHANGED stray
          ELSE todo' = todo /\ stray' = IF view = "desktop" THEN stray + 1 ELSE stray
     ELSE UNCHANGED <<todo, stray>>
  /\ pc' = CASE dumps < Dumps -> "info" [] tapped' -> "close" [] OTHER -> "up"
  /\ UNCHANGED <<view, reached, late, keyboard, service, user, pass, bar, ticked, faults, seen, quiet,
                 entered, attempt, backs, dumps, outcome, sized>>

CloseInfo == pc = "close" /\ pc' = "await" /\ Back /\
  UNCHANGED <<seen, quiet, entered, attempt, backs, tapped, dumps, outcome, sized>>

AwaitOnly ==         \* mutant: a Back that was swallowed is not repeated
  /\ pc = "await" /\ pc' = "up" /\ UNCHANGED <<appVars, faults, stray>>
  /\ UNCHANGED <<seen, quiet, entered, attempt, backs, tapped, dumps, outcome, sized>>

\* A field still there when _await_info gives up is sent one more Back, unwatched; a
\* missing dump reads as a field that is gone.
AwaitInfo ==
  /\ pc = "await" /\ pc' = "up"
  /\ \/ view = "info" /\ Back
     \/ /\ IF view = "info" THEN Missing ELSE UNCHANGED faults
        /\ UNCHANGED <<appVars, stray>>
  /\ UNCHANGED <<seen, quiet, entered, attempt, backs, tapped, dumps, outcome, sized>>

DesktopSize == OpenInfo \/ LookInfo \/ TapInfo \/ CloseInfo \/ AwaitInfo

\* disconnect: the app is force-stopped.
Disconnect ==
  /\ pc = "up" /\ pc' = "idle" /\ view' = "gone" /\ todo' = <<>>
  /\ bar' = FALSE /\ keyboard' = FALSE /\ service' = FALSE /\ outcome' = "none"
  /\ UNCHANGED <<reached, late, user, pass, ticked, faults, seen, quiet, entered, attempt, backs,
                 tapped, dumps, sized, stray>>

App == Show \/ Toolbar \/ Drop \/ Deny
Answer == AnswerFirstRun \/ AnswerHelp \/ AnswerDialog \/ AnswerRefusal \/ AnswerSheet \/ AnswerNothing
Program == Look \/ Expire \/ Answer \/ EnterCredentials \/ LookInfo \/ TapInfo \/ CloseInfo \/ AwaitInfo
Next == App \/ Connect \/ Program \/ OpenInfo \/ Disconnect
Spec == Init /\ [][Next]_vars

(* ------------------------------ properties ------------------------------ *)

TypeOK ==
  /\ view \in Views /\ todo \in Seq(Views) /\ reached \in BOOLEAN /\ late \in 0 .. Late
  /\ keyboard \in BOOLEAN /\ service \in BOOLEAN /\ user \in Field /\ pass \in Field
  /\ bar \in BOOLEAN /\ ticked \in BOOLEAN /\ faults \in 0 .. Faults
  /\ pc \in {"idle", "look", "answer", "hide", "find", "type", "hide2", "read", "submit",
             "up", "info", "tapinfo", "close", "await"}
  /\ seen \in [view : Views, keyboard : BOOLEAN, user : Field, pass : Field,
               bar : BOOLEAN, ticked : BOOLEAN]
  /\ quiet \in 0 .. QuietDumps /\ entered \in BOOLEAN /\ attempt \in 1 .. Attempts + 1
  /\ backs \in 0 .. Backs /\ tapped \in BOOLEAN /\ dumps \in 0 .. Dumps /\ sized \in BOOLEAN
  /\ outcome \in {"none", "connected", "refused", "timeout", "portrait"} /\ stray \in 0 .. Dumps

\* The faults it takes to leave a keyboard over the sheet: every typing attempt fails,
\* and Back is ignored as often as it is pressed, or the keyboard overlooked as well.
Kept == Attempts + (IF Backs = 1 THEN 0 ELSE 1)

\* connect says connected only when the desktop was really on screen, or when the
\* message of a dropped connection is -- which alive and transient_error then read.
\* Short of that the connecting screen, or a dialog or sheet that came up behind a missing
\* dump, passes for a desktop only after as many faults -- dumps that failed, or by which
\* the screen came late -- as QUIET_DUMPS leaves over the Late ordinary ones, and a sheet
\* under a keyboard only after the faults that keep it up.
ConnectedIsHonest ==
  outcome = "connected" =>
    reached \/ view = "lost" \/ faults >= QuietDumps - Late \/ faults >= Kept

\* The server is recorded as refusing the credentials only after as many things went
\* wrong in the app as there are typing attempts: what was read back short is retyped.
RefusalNeedsFaults == outcome = "refused" => faults >= Attempts

\* When desktop_size has returned a size the information screen no longer covers the
\* desktop, unless two things went wrong: the caller captures the desktop next.
InfoClosed == pc = "up" /\ sized /\ view = "info" => faults >= 2

\* A visit to the information screen sends the server at most one click by mistake,
\* however often the toolbar hides between the dump and the tap.
AtMostOneStray == stray <= 1

\* The final first-run page is never accepted with the analytics box ticked, also when
\* the page lingers and is answered again -- unless the tap on the box itself was lost.
AnalyticsDeclined ==
  [][pc = "answer" /\ view = "final" /\ view' # "final" /\ ticked' => faults' > faults]_vars

\* The program's own keys never cancel the sheet: Back is pressed for a keyboard only.
\* The service may deny a keyboard that is up; one it reports is taken to be up.
SheetNotCancelled ==
  [][pc = pc' \/ pc' \in {"find", "read"} => (view \in Sheets => view' # "gone")]_vars

\* connect and desktop_size come back, whatever the app does.
ComesBack == pc \notin {"idle", "up"} ~> pc \in {"idle", "up"}
================================================================================
