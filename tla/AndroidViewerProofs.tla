-------------------------- MODULE AndroidViewerProofs ---------------------------
(***************************************************************************)
(* Proofs about AndroidViewer, for every set of paths and every bound.     *)
(* The invariant IInv says what each fault has paid for: which screens can *)
(* only be up after the desktop was reached (Screens), what a failed       *)
(* typing attempt costs (Typing), and how many dumps of the connecting     *)
(* screen, or that failed, were counted as quiet (Quietly).                *)
(***************************************************************************)
EXTENDS AndroidViewer, TLAPS

\* What may still come up, and what never does by itself.
Comings == FirstRun \cup Asks \cup Sheets \cup {"desktop", "dialog", "invalid", "info"}

\* The app: a keyboard belongs to a sheet and its service to a keyboard, and the desktop's
\* own screens mean that the desktop was reached.  The information screen comes up once for
\* each time it was asked for.
Screens ==
  /\ service => keyboard
  /\ keyboard => view \in Sheets
  /\ bar \/ view \in {"desktop", "leaving", "info"} \/ (view = "gone" /\ pc # "idle") => reached
  /\ todo \in Seq(Comings)
  /\ \A i \in 1 .. Len(todo) : todo[i] = "info" => i = 1 /\ reached /\ view # "info"

\* A screen that was dumped and has to be answered is still up, or a message of a dropped
\* connection is; what the dump said of the analytics box is still so.
Answering == pc = "answer" =>
  /\ seen.view \notin {"blank", "desktop"} => view \in {seen.view, "lost"}
  /\ seen.view \in {"desktop", "leaving", "info", "gone"} \/ seen.bar => reached
  /\ seen.view = "final" => seen.ticked = ticked

Right == pass = "right" /\ (view = "both" => user = "right")
Places == {"hide", "find", "type", "hide2", "read", "submit"}

\* Every typing attempt that failed cost a fault, and one that left the keyboard up as many
\* as Back was ignored, or the keyboard denied and overlooked.
Extra == IF Backs = 1 THEN 0 ELSE 1
Denied == IF service THEN 0 ELSE 1

Typing ==
  /\ pc \in {"look", "answer"} => (~entered => attempt = 1) /\ (keyboard => faults >= Kept)
  /\ pc \notin {"hide", "hide2"} => backs = 0
  /\ pc \in Places => view \in Sheets \cup {"lost"}
  /\ pc \in Places \ {"submit"} => attempt <= Attempts /\ (view \in Sheets => faults >= attempt - 1)
  /\ pc = "hide" /\ keyboard => faults >= attempt - 1 + Extra + backs
  /\ pc \in {"type", "hide2"} /\ keyboard => faults >= attempt - 1 + Denied + backs
  /\ pc \in {"find", "read"} /\ keyboard => faults >= attempt + Extra
  /\ pc = "type" /\ view \in Sheets => keyboard
  /\ pc \in {"hide2", "read"} /\ view \in Sheets => Right \/ faults >= attempt
  /\ pc = "submit" /\ view \in Sheets => (keyboard => faults >= Kept) /\ (Right \/ faults >= Attempts)

\* The server refuses only after every attempt failed.
Refusing ==
  \/ \E i \in 1 .. Len(todo) : todo[i] = "invalid"
  \/ view = "invalid" \/ (pc = "answer" /\ seen.view = "invalid") \/ outcome = "refused"
  => faults >= Attempts

\* Not connected, and nothing went so wrong that it looks so.
Honest == ~reached /\ view # "lost" /\ faults < QuietDumps - Late /\ faults < Kept

\* As long as that is so, what was counted as quiet is the connecting screen or a fault.
Counted == (IF view = "blank" THEN late ELSE Late) + faults

Quietly ==
  /\ Honest /\ pc = "look" => quiet <= Counted
  /\ Honest /\ pc = "answer" /\ seen.view = "blank" => quiet < Counted
  /\ outcome = "connected" => ~Honest
  /\ pc \in {"up", "info", "tapinfo", "close", "await"} => outcome = "connected"

\* A visit to the information screen: one tap that counts, and a screen that is closed.
Visiting ==
  /\ pc = "info" => dumps < Dumps
  /\ stray <= 1 /\ (pc \in {"info", "tapinfo"} => ~sized /\ (tapped \/ stray = 0))
  /\ (pc = "tapinfo" /\ seen.bar) \/ (pc \in {"info", "tapinfo"} /\ tapped) \/ pc = "close" => reached
  /\ sized => \A i \in 1 .. Len(todo) : todo[i] # "info"
  /\ sized /\ view = "info" => pc = "close" \/ (pc = "await" /\ faults >= 1) \/ faults >= 2

Links == Screens /\ Answering /\ Typing /\ Refusing /\ Quietly /\ Visiting
IInv == TypeOK /\ Links

\* The numbers, as the provers need them.
LEMMA Numbers ==
  /\ QuietDumps \in Nat /\ Late \in Nat /\ Attempts \in Nat /\ Backs \in Nat /\ Dumps \in Nat /\ Faults \in Nat
  /\ QuietDumps >= 1 /\ Attempts >= 1 /\ Backs >= 1 /\ Dumps >= 1
  /\ Extra \in {0, 1} /\ Extra <= Backs - 1 /\ Kept = Attempts + Extra
  BY NumbersAssumption DEF Extra, Kept

LEMMA Kinds ==
  /\ Comings \subseteq Views /\ Sheets \subseteq Views
  /\ "blank" \notin Comings /\ "lost" \notin Comings /\ "gone" \notin Comings /\ "leaving" \notin Comings
  /\ "blank" \in Views /\ "desktop" \in Views /\ "lost" \in Views /\ "gone" \in Views /\ "leaving" \in Views
  BY DEF Comings, Views, FirstRun, Asks, Sheets

(* -------------------------------- types --------------------------------- *)

\* What each action assigns is of its type; the rest is unchanged.
LEMMA AppTyped ==
  ASSUME TypeOK, Show \/ Toolbar \/ Drop \/ Deny PROVE TypeOK'
<1> USE DEF appVars, runVars
<1>1. CASE Show
  <2>1. view' \in Views /\ todo' \in Seq(Views) /\ late' \in 0 .. Late
    BY <1>1, Numbers DEF Show, TypeOK
  <2>. QED BY <1>1, <2>1 DEF Show, TypeOK
<1>2. CASE Toolbar
  BY <1>2 DEF Toolbar, TypeOK
<1>3. CASE Drop
  <2>1. view' \in Views /\ todo' \in Seq(Views) /\ faults' \in 0 .. Faults
    BY <1>3, Numbers, Kinds DEF Drop, TypeOK
  <2>2. bar' \in BOOLEAN /\ keyboard' \in BOOLEAN /\ service' \in BOOLEAN
    BY <1>3 DEF Drop
  <2>3. UNCHANGED <<reached, late, user, pass, ticked, runVars, stray>>
    BY <1>3 DEF Drop
  <2>. QED BY <2>1, <2>2, <2>3 DEF TypeOK
<1>4. CASE Deny
  <2>1. faults' \in 0 .. Faults
    BY <1>4, Numbers DEF Deny, TypeOK
  <2>2. service' \in BOOLEAN
    BY <1>4 DEF Deny
  <2>3. UNCHANGED <<view, todo, reached, late, keyboard, user, pass, bar, ticked, runVars, stray>>
    BY <1>4 DEF Deny
  <2>. QED BY <2>1, <2>2, <2>3 DEF TypeOK
<1>. QED BY <1>1, <1>2, <1>3, <1>4

LEMMA ConnectTyped == ASSUME TypeOK, Connect PROVE TypeOK'
<1>1. todo' \in Seq(Views)
  BY PathsAssumption DEF Connect, Views
<1>2. view' \in Views /\ late' \in 0 .. Late /\ quiet' \in 0 .. QuietDumps
      /\ attempt' \in 1 .. Attempts + 1 /\ backs' \in 0 .. Backs
  BY Numbers, Kinds DEF Connect
<1>3. /\ pc' = "look" /\ outcome' = "none" /\ user' = "empty" /\ pass' = "empty"
      /\ reached' \in BOOLEAN /\ bar' \in BOOLEAN /\ keyboard' \in BOOLEAN
      /\ service' \in BOOLEAN /\ entered' \in BOOLEAN
      /\ UNCHANGED <<ticked, faults, seen, tapped, dumps, sized, stray>>
  BY DEF Connect
<1>. QED BY <1>1, <1>2, <1>3 DEF TypeOK, Field

\* A dump is of the type of what it saw.
LEMMA DumpTyped ==
  ASSUME TypeOK
  PROVE  Dump \in [view : Views, keyboard : BOOLEAN, user : Field, pass : Field,
                   bar : BOOLEAN, ticked : BOOLEAN]
  BY Kinds DEF TypeOK, Dump

LEMMA NothingTyped ==
  Nothing \in [view : Views, keyboard : BOOLEAN, user : Field, pass : Field,
               bar : BOOLEAN, ticked : BOOLEAN]
  BY Kinds DEF Nothing, Field

LEMMA LookTyped == ASSUME TypeOK, Look \/ Expire PROVE TypeOK'
<1>1. CASE Look
  <2>1. late' \in 0 .. Late /\ faults' \in 0 .. Faults
    BY <1>1, Numbers DEF Look, Missing, TypeOK
  <2>2. seen' \in {Dump, Nothing}
    BY <1>1 DEF Look
  <2>. QED BY <1>1, <2>1, <2>2, DumpTyped, NothingTyped DEF Look, TypeOK
<1>2. CASE Expire
  BY <1>2 DEF Expire, TypeOK, appVars
<1>. QED BY <1>1, <1>2

LEMMA BaseTyped == Base \in Views
  BY Kinds DEF Base

\* A tap and a Back change the screen to one there is, and the keyboard only downwards.
LEMMA TapTyped == ASSUME TypeOK, Tap PROVE view' \in Views
  BY BaseTyped, Kinds DEF Tap, Answered, TypeOK

LEMMA BackTyped ==
  ASSUME TypeOK, Back
  PROVE  /\ view' \in Views /\ keyboard' \in BOOLEAN /\ service' \in BOOLEAN
         /\ faults' \in 0 .. Faults
         /\ UNCHANGED <<todo, reached, late, user, pass, bar, ticked, stray>>
<1>1. CASE BackTaken
  BY <1>1, BaseTyped, Kinds DEF BackTaken, TypeOK
<1>2. CASE BackIgnored
  BY <1>2, Numbers DEF BackIgnored, TypeOK, appVars
<1>. QED BY <1>1, <1>2 DEF Back

\* Two taps on the final page: each of them that is lost is a fault.
LEMMA FinalTaps ==
  ASSUME TypeOK, AnswerFirstRun, seen.view = "final", view = "final"
  PROVE  /\ view' \in {view, Base} /\ ticked' \in BOOLEAN /\ faults' \in 0 .. Faults /\ faults' >= faults
         /\ UNCHANGED <<todo, reached, late, keyboard, service, user, pass, bar, stray>>
         /\ seen.ticked = ticked /\ ticked' => faults' > faults
<1>1. PICK unticked \in {seen.ticked, FALSE}, accepted \in BOOLEAN :
        /\ ticked' = IF unticked THEN ~ticked ELSE ticked
        /\ view' = IF accepted THEN Base ELSE view
        /\ faults' = faults + (IF unticked = seen.ticked THEN 0 ELSE 1) + (IF accepted THEN 0 ELSE 1)
  BY DEF AnswerFirstRun
<1>2. /\ UNCHANGED <<todo, reached, late, keyboard, service, user, pass, bar, stray>>
      /\ faults' <= Faults /\ faults \in Nat /\ Faults \in Nat /\ ticked \in BOOLEAN
  BY Numbers DEF AnswerFirstRun, TypeOK
<1>3. faults' \in Nat /\ faults' >= faults /\ (unticked # seen.ticked => faults' > faults)
  BY <1>1, <1>2
<1>4. view' \in {view, Base} /\ ticked' \in BOOLEAN
  BY <1>1, <1>2
<1>5. seen.ticked = ticked /\ ticked' => unticked # seen.ticked
  <2>1. CASE unticked = TRUE
    BY <1>1, <2>1
  <2>2. CASE unticked = FALSE
    BY <1>1, <2>2
  <2>3. unticked \in BOOLEAN \/ unticked = seen.ticked
    OBVIOUS
  <2>4. CASE seen.ticked = ticked
    BY <1>2, <2>1, <2>2, <2>3, <2>4
  <2>. QED BY <2>4
<1>. QED BY <1>2, <1>3, <1>4, <1>5

LEMMA AnswerTyped == ASSUME TypeOK, Answer PROVE TypeOK'
<1>1. 0 \in 0 .. QuietDumps
  BY Numbers
<1>2. CASE AnswerFirstRun
  <2>1. /\ pc' = "look" /\ quiet' = 0
        /\ UNCHANGED <<seen, entered, attempt, backs, tapped, dumps, outcome, sized>>
    BY <1>2 DEF AnswerFirstRun, Again
  <2>2. CASE seen.view = "final" /\ view = "final"
    <3>1. view' \in {view, Base} /\ faults' \in 0 .. Faults /\ ticked' \in BOOLEAN
          /\ UNCHANGED <<todo, reached, late, keyboard, service, user, pass, bar, stray>>
      BY <1>2, <2>2, FinalTaps
    <3>2. view' \in Views
      BY <3>1, BaseTyped DEF TypeOK
    <3>. QED BY <1>1, <2>1, <3>1, <3>2 DEF TypeOK
  <2>3. CASE ~(seen.view = "final" /\ view = "final")
    <3>1. Tap /\ UNCHANGED faults
      BY <1>2, <2>3 DEF AnswerFirstRun
    <3>2. /\ view' \in Views
          /\ UNCHANGED <<todo, reached, late, keyboard, service, user, pass, bar, ticked, stray>>
      BY <3>1, TapTyped DEF Tap
    <3>. QED BY <1>1, <2>1, <3>1, <3>2 DEF TypeOK
  <2>. QED BY <2>2, <2>3
<1>3. CASE AnswerHelp
  <2>1. /\ Back /\ pc' = "look" /\ quiet' = 0
        /\ UNCHANGED <<seen, entered, attempt, backs, tapped, dumps, outcome, sized>>
    BY <1>3 DEF AnswerHelp, Again
  <2>. QED BY <1>1, <2>1, BackTyped DEF TypeOK
<1>4. CASE AnswerDialog \/ AnswerRefusal
  <2>1. /\ Tap /\ pc' \in {"look", "idle"} /\ quiet' \in {0, quiet} /\ outcome' \in {outcome, "refused"}
        /\ UNCHANGED <<seen, entered, attempt, backs, tapped, dumps, sized, faults>>
    BY <1>4 DEF AnswerDialog, AnswerRefusal, Again
  <2>2. /\ view' \in Views
        /\ UNCHANGED <<todo, reached, late, keyboard, service, user, pass, bar, ticked, stray>>
    BY <2>1, TapTyped DEF Tap
  <2>. QED BY <1>1, <2>1, <2>2 DEF TypeOK
<1>5. CASE AnswerSheet
  BY <1>1, <1>5 DEF AnswerSheet, TypeOK, appVars
<1>6. CASE AnswerNothing
  <2>1. quiet' \in 0 .. QuietDumps /\ faults' \in 0 .. Faults
    BY <1>6, Numbers DEF AnswerNothing, TypeOK
  <2>2. pc' \in {"up", "idle", "look"} /\ outcome' \in {outcome, "connected", "portrait"}
    BY <1>6 DEF AnswerNothing
  <2>3. UNCHANGED <<appVars, seen, entered, attempt, backs, tapped, dumps, sized, stray>>
    BY <1>6 DEF AnswerNothing
  <2>. QED BY <2>1, <2>2, <2>3 DEF TypeOK, appVars
<1>. QED BY <1>2, <1>3, <1>4, <1>5, <1>6 DEF Answer

LEMMA HideTyped ==
  ASSUME TypeOK,
         \/ HideIme("hide", "find")
         \/ HideIme("hide2", "read")
  PROVE  TypeOK'
<1>1. /\ pc' \in {"hide", "find", "hide2", "read"} /\ backs' \in 0 .. Backs
      /\ UNCHANGED <<seen, quiet, entered, attempt, tapped, dumps, outcome, sized>>
  BY Numbers DEF HideIme, TypeOK
<1>2. Back \/ (UNCHANGED <<appVars, stray>> /\ (faults' = faults \/ Missing))
  BY DEF HideIme
<1>3. /\ view' \in Views /\ keyboard' \in BOOLEAN /\ service' \in BOOLEAN /\ faults' \in 0 .. Faults
      /\ UNCHANGED <<todo, reached, late, user, pass, bar, ticked, stray>>
  <2>1. CASE Back
    BY <2>1, BackTyped
  <2>2. CASE UNCHANGED <<appVars, stray>> /\ (faults' = faults \/ Missing)
    BY <2>2, Numbers DEF TypeOK, appVars, Missing
  <2>. QED BY <1>2, <2>1, <2>2
<1>. QED BY <1>1, <1>3 DEF TypeOK

LEMMA TypingTyped ==
  ASSUME TypeOK, attempt <= Attempts \/ pc = "submit", TapField \/ Retype \/ ReadBack \/ Submit
  PROVE  TypeOK'
<1>1. CASE TapField
  <2>1. /\ backs' \in 0 .. Backs /\ attempt' \in 1 .. Attempts + 1
        /\ pc' \in {"type", "hide", "submit"} /\ faults' \in 0 .. Faults
    BY <1>1, Numbers DEF TapField, NextAttempt, TypeOK, Missing
  <2>3. keyboard' \in BOOLEAN /\ service' \in BOOLEAN
    BY <1>1 DEF TapField, TypeOK
  <2>2. UNCHANGED <<view, todo, reached, late, user, pass, bar, ticked, seen, quiet, entered,
                    tapped, dumps, outcome, sized, stray>>
    BY <1>1 DEF TapField
  <2>. QED BY <2>1, <2>2, <2>3 DEF TypeOK
<1>2. CASE Retype
  <2>1. user' \in Field /\ pass' \in Field /\ faults' \in 0 .. Faults
    BY <1>2, Numbers DEF Retype, TypeOK, Field
  <2>. QED BY <1>2, <2>1 DEF Retype, TypeOK
<1>3. CASE ReadBack
  <2>1. /\ backs' \in 0 .. Backs /\ attempt' \in 1 .. Attempts + 1
        /\ pc' \in {"hide", "submit"} /\ faults' \in 0 .. Faults
    BY <1>3, Numbers DEF ReadBack, NextAttempt, TypeOK, Missing
  <2>. QED BY <1>3, <2>1 DEF ReadBack, TypeOK, appVars
<1>4. CASE Submit
  <2>1. /\ view' \in Views /\ late' \in 0 .. Late /\ todo' \in Seq(Views)
        /\ UNCHANGED <<reached, keyboard, service, user, pass, bar, ticked, stray>>
    <3>1. <<"invalid">> \in Seq(Views)
      BY DEF Views
    <3>2. CASE view \in Sheets /\ ~keyboard
      <4>1. view' = "blank" /\ late' = 0 /\ todo' \in {todo, <<"invalid">>}
        BY <1>4, <3>2 DEF Submit, TapSubmit
      <4>2. UNCHANGED <<reached, keyboard, service, user, pass, bar, ticked, stray>>
        BY <1>4 DEF Submit, TapSubmit
      <4>3. late' \in 0 .. Late
        BY <4>1, Numbers
      <4>4. todo' \in Seq(Views) /\ view' \in Views
        BY <3>1, <4>1, Kinds DEF TypeOK
      <4>. QED BY <4>2, <4>3, <4>4
    <3>3. CASE ~(view \in Sheets /\ ~keyboard)
      BY <1>4, <3>3 DEF Submit, TapSubmit, TypeOK
    <3>. QED BY <3>2, <3>3
  <2>2. /\ quiet' \in 0 .. QuietDumps /\ entered' \in BOOLEAN /\ pc' = "look"
        /\ UNCHANGED <<seen, attempt, backs, tapped, dumps, outcome, sized, faults>>
    BY <1>4, Numbers DEF Submit
  <2>. QED BY <2>1, <2>2 DEF TypeOK
<1>. QED BY <1>1, <1>2, <1>3, <1>4

LEMMA VisitTyped ==
  ASSUME TypeOK, pc = "info" => dumps < Dumps, stray' \in 0 .. 1,
         OpenInfo \/ LookInfo \/ TapInfo \/ CloseInfo \/ AwaitInfo \/ Disconnect
  PROVE  TypeOK'
<1>0. stray' \in 0 .. Dumps
  BY Numbers
<1>1. CASE OpenInfo
  <2>1. /\ dumps' = 0 /\ tapped' \in BOOLEAN /\ sized' \in BOOLEAN /\ pc' = "info"
        /\ UNCHANGED <<appVars, faults, seen, quiet, entered, attempt, backs, outcome>>
    BY <1>1 DEF OpenInfo
  <2>2. dumps' \in 0 .. Dumps
    BY <2>1, Numbers
  <2>. QED BY <1>0, <2>1, <2>2 DEF TypeOK, appVars
<1>2. CASE LookInfo
  <2>1. /\ dumps' \in 0 .. Dumps /\ seen' \in {Dump, Nothing} /\ sized' \in BOOLEAN
        /\ pc' \in {"close", "tapinfo"} /\ faults' \in 0 .. Faults
    BY <1>2, Numbers DEF LookInfo, TypeOK, Missing
  <2>. QED BY <1>2, <2>1, DumpTyped, NothingTyped DEF LookInfo, TypeOK, appVars
<1>3. CASE TapInfo
  <2>1. todo' \in Seq(Views)
    <3>1. <<"info">> \o todo \in Seq(Views)
      BY DEF TypeOK, Views
    <3>. QED BY <1>3, <3>1 DEF TapInfo, TypeOK
  <2>2. tapped' \in BOOLEAN /\ pc' \in {"info", "close", "up"}
    BY <1>3 DEF TapInfo, TypeOK
  <2>. QED BY <1>0, <1>3, <2>1, <2>2 DEF TapInfo, TypeOK
<1>4. CASE CloseInfo \/ AwaitInfo
  <2>1. /\ pc' \in {"await", "up"} /\ UNCHANGED <<seen, quiet, entered, attempt, backs, tapped, dumps, outcome, sized>>
        /\ (Back \/ (UNCHANGED <<appVars, stray>> /\ (faults' = faults \/ Missing)))
    BY <1>4 DEF CloseInfo, AwaitInfo
  <2>2. /\ view' \in Views /\ keyboard' \in BOOLEAN /\ service' \in BOOLEAN /\ faults' \in 0 .. Faults
        /\ UNCHANGED <<todo, reached, late, user, pass, bar, ticked, stray>>
    <3>1. CASE Back
      BY <3>1, BackTyped
    <3>2. CASE UNCHANGED <<appVars, stray>> /\ (faults' = faults \/ Missing)
      BY <3>2, Numbers DEF TypeOK, appVars, Missing
    <3>. QED BY <2>1, <3>1, <3>2
  <2>. QED BY <2>1, <2>2 DEF TypeOK
<1>5. CASE Disconnect
  <2>1. pc' = "idle" /\ view' \in Views /\ todo' \in Seq(Views) /\ outcome' = "none"
    BY <1>5, Kinds DEF Disconnect
  <2>2. /\ bar' \in BOOLEAN /\ keyboard' \in BOOLEAN /\ service' \in BOOLEAN
        /\ UNCHANGED <<reached, late, user, pass, ticked, faults, seen, quiet, entered, attempt, backs,
                       tapped, dumps, sized>>
    BY <1>5 DEF Disconnect
  <2>. QED BY <1>0, <2>1, <2>2 DEF TypeOK
<1>. QED BY <1>1, <1>2, <1>3, <1>4, <1>5

(* ------------------------------ what it costs --------------------------- *)

LEMMA ShowStep == ASSUME IInv, Show PROVE Links'
<1> USE Numbers DEF IInv, Links, Show, Base, appVars, runVars
<1>1. /\ Len(todo) \in Nat /\ Len(todo) >= 1 /\ Head(todo) = todo[1] /\ todo[1] \in Comings
      /\ Tail(todo) \in Seq(Comings) /\ Len(Tail(todo)) = Len(todo) - 1
      /\ \A i \in 1 .. Len(todo) - 1 : Tail(todo)[i] = todo[i + 1]
  BY DEF Screens
<1>2. view' = todo[1] /\ todo' = Tail(todo) /\ view' \in Comings /\ view \in {"blank", "desktop"}
  BY <1>1
<1>4. Screens'
  <2>1. ~keyboard /\ ~keyboard' /\ ~service'
    BY <1>2 DEF Screens, Sheets
  <2>4. view' \notin {"leaving", "gone"}
    BY <1>2, Kinds
  <2>5. view' = "info" => reached
    BY <1>1, <1>2 DEF Screens
  <2>2. /\ bar' => reached'
        /\ view' \in {"desktop", "info"} => reached'
        /\ view' \notin {"leaving", "gone"}
    BY <1>1, <2>4, <2>5
  <2>3. \A i \in 1 .. Len(todo') : todo'[i] # "info"
    BY <1>1, <1>2 DEF Screens
  <2>. QED BY <1>1, <1>2, <2>1, <2>2, <2>3 DEF Screens
<1>5. Answering'
  BY <1>2 DEF Answering, TypeOK
<1>6. Typing'
  BY <1>2 DEF Typing, TypeOK, Sheets, Places, Screens
<1>7. Refusing'
  BY <1>1, <1>2 DEF Refusing
<1>8. Quietly'
  <2>1. Counted' >= Counted /\ (Honest' => Honest)
    BY <1>2, Kinds DEF Honest, Counted, TypeOK
  <2>. QED BY <2>1 DEF Quietly, Counted, TypeOK
<1>9. Visiting'
  <2>1. sized => \A i \in 1 .. Len(todo') : todo'[i] # "info"
    BY <1>1, <1>2 DEF Visiting
  <2>2. sized => view' # "info"
    BY <1>1, <1>2 DEF Visiting
  <2>3. /\ UNCHANGED <<pc, dumps, stray, sized, tapped, seen>> /\ (reached => reached')
    BY <1>1
  <2>. QED BY <2>1, <2>2, <2>3 DEF Visiting
<1>. QED BY <1>4, <1>5, <1>6, <1>7, <1>8, <1>9

LEMMA AppStep == ASSUME IInv, Toolbar \/ Drop \/ Deny PROVE Links'
<1> USE Numbers DEF IInv, Links, appVars, runVars
<1>1. CASE Toolbar
  <2> USE <1>1 DEF Toolbar
  <2>1. Answering' /\ Typing' /\ Refusing' /\ Quietly' /\ Visiting'
    BY DEF TypeOK, Answering, Typing, Right, Refusing, Quietly, Honest, Visiting,
           Denied, Counted
  <2>2. Screens'
    BY DEF Screens, TypeOK
  <2>. QED BY <2>1, <2>2
<1>2. CASE Drop
  <2> USE <1>2 DEF Drop
  <2>2. Screens'
    BY DEF Screens, Sheets
  <2>3. Answering'
    BY DEF Answering, TypeOK
  <2>4. Typing'
    BY DEF Typing, Sheets, TypeOK
  <2>5. Refusing'
    BY DEF Refusing, TypeOK
  <2>6. Quietly' /\ Visiting'
    BY DEF Quietly, Honest, Visiting, TypeOK
  <2>. QED BY <2>2, <2>3, <2>4, <2>5, <2>6
<1>3. CASE Deny
  <2> USE <1>3 DEF Deny
  <2>4. Answering'
    BY DEF TypeOK, Answering
  <2>5. Screens'
    BY DEF Screens
  <2>2. Typing'
    BY DEF Typing, TypeOK, Right, Denied, Places
  <2>3. Refusing' /\ Quietly' /\ Visiting'
    BY DEF Refusing, Quietly, Honest, Counted, Visiting, TypeOK
  <2>. QED BY <2>2, <2>3, <2>4, <2>5
<1>. QED BY <1>1, <1>2, <1>3

\* A path holds no screen of the information button and no refusal.
LEMMA ConnectStep == ASSUME IInv, Connect PROVE Links'
<1> USE Numbers DEF IInv, Links, Connect
<1>1. /\ todo' \in Seq(Comings)
      /\ \A i \in 1 .. Len(todo') : todo'[i] \notin {"info", "invalid"}
  BY PathsAssumption DEF Comings, FirstRun, Asks, Sheets
<1>3. Screens' /\ Answering'
  BY <1>1 DEF Screens, Answering
<1>4. Typing'
  BY DEF Typing, TypeOK, Places
<1>5. Refusing'
  BY <1>1 DEF Refusing
<1>6. Quietly'
  BY DEF Quietly, Honest, Counted, TypeOK
<1>7. Visiting'
  BY <1>1 DEF Visiting
<1>. QED BY <1>3, <1>4, <1>5, <1>6, <1>7

\* The dump counts once more the connecting screen, or shows what has to be answered, or
\* is missing, which is a fault.
LEMMA LookStep == ASSUME IInv, Look PROVE Links'
<1> USE Numbers DEF IInv, Links
<1>1. /\ pc = "look" /\ pc' = "answer"
      /\ UNCHANGED <<view, todo, reached, keyboard, service, user, pass, bar, ticked,
                     quiet, entered, attempt, backs, tapped, dumps, outcome, sized, stray>>
      /\ faults \in Nat /\ late \in Nat /\ quiet \in Nat
  BY DEF Look, TypeOK
<1>2. \/ /\ seen'.view = (IF keyboard THEN "blank" ELSE view) /\ seen'.bar = bar /\ seen'.ticked = ticked
         /\ faults' = faults /\ late' = IF view = "blank" THEN late + 1 ELSE late
      \/ seen'.view = "blank" /\ ~seen'.bar /\ faults' = faults + 1 /\ late' = late
      \/ /\ seen'.view = (IF keyboard THEN "blank" ELSE view) /\ seen'.bar = bar /\ seen'.ticked = ticked
         /\ view = "blank" /\ faults' = faults + 1 /\ late' = late
  BY DEF Look, Dump, Nothing, Missing
<1>3. Screens' /\ Visiting'
  BY <1>1, <1>2 DEF Screens, Visiting
<1>4. Answering'
  BY <1>1, <1>2 DEF Answering, Screens
<1>5. Typing'
  BY <1>1, <1>2 DEF Typing, Right, Places
<1>6. Refusing'
  BY <1>1, <1>2 DEF Refusing
<1>7. Quietly'
  <2>1. Honest' => Honest /\ ~keyboard
    BY <1>1, <1>2 DEF Honest, Typing
  <2>2. Honest' /\ seen'.view = "blank" => quiet' < Counted'
    BY <1>1, <1>2, <2>1 DEF Quietly, Counted
  <2>3. outcome' = "connected" => ~Honest'
    BY <1>1, <2>1 DEF Quietly
  <2>. QED BY <1>1, <2>2, <2>3 DEF Quietly
<1>. QED BY <1>3, <1>4, <1>5, <1>6, <1>7

LEMMA ExpireStep == ASSUME IInv, Expire PROVE Links'
<1> USE Numbers DEF IInv, Links, Expire, appVars
<1>1. Screens' /\ Answering' /\ Refusing'
  BY DEF TypeOK, Screens, Answering, Refusing
<1>2. Typing' /\ Quietly' /\ Visiting'
  BY DEF Typing, Quietly, Honest, Visiting, Places
<1>. QED BY <1>1, <1>2

\* Answering a screen brings back what is under it, and a screen that is not up is left.
LEMMA TapEffect ==
  ASSUME IInv, Tap, pc = "answer"
  PROVE  /\ UNCHANGED <<todo, reached, late, keyboard, service, user, pass, bar, ticked, stray>>
         /\ view' # view => view = seen.view /\ ~keyboard
         /\ view' \in {view, Base, "gone"}
         /\ view' = "gone" /\ view # "gone" => view \in {"invalid", "leaving"}
<1>1. /\ UNCHANGED <<todo, reached, late, keyboard, service, user, pass, bar, ticked, stray>>
      /\ view' = IF view = seen.view /\ ~keyboard THEN Answered(view) ELSE view
  BY DEF Tap
<1>2. Answered(view) = IF view \in {"invalid", "leaving"} THEN "gone" ELSE Base
  BY DEF Answered
<1>3. Base # "gone"
  BY DEF Base
<1>. QED BY <1>1, <1>2, <1>3

\* Going round again without having waited for anything.
LEMMA AgainLinks ==
  ASSUME IInv, pc = "answer", Again, view' \in {view, Base, "gone"},
         view' # view => view # "lost",
         view' = "gone" => view \in {"gone", "leaving"},
         keyboard' = keyboard, service' = service, ticked' \in BOOLEAN,
         faults' \in Nat, faults' >= faults, view' # view => ~keyboard,
         UNCHANGED <<todo, reached, late, user, pass, bar, stray>>
  PROVE  Links'
<1> USE Numbers DEF IInv, Links, Again, Base
<1>1. Screens'
  BY DEF Screens, TypeOK
<1>2. Answering'
  BY DEF Answering
<1>3. Typing'
  BY DEF Typing, Places, TypeOK
<1>4. Refusing'
  BY DEF Refusing, TypeOK
<1>5. Quietly'
  <2>1. Honest' => Honest
    BY DEF Honest, TypeOK
  <2>2. late' \in Nat /\ faults' \in Nat /\ Late \in Nat
    BY DEF TypeOK
  <2>4. Counted' = late' + faults' \/ Counted' = Late + faults'
    BY DEF Counted
  <2>3. quiet' <= Counted'
    BY <2>2, <2>4
  <2>. QED BY <2>1, <2>3 DEF Quietly
<1>6. Visiting'
  BY DEF Visiting, TypeOK
<1>. QED BY <1>1, <1>2, <1>3, <1>4, <1>5, <1>6

LEMMA AnswerStep == ASSUME IInv, AnswerFirstRun \/ AnswerDialog \/ AnswerHelp PROVE Links'
<1>1. CASE AnswerFirstRun
  <2>1. pc = "answer" /\ Again /\ seen.view \in FirstRun
    BY <1>1 DEF AnswerFirstRun
  <2>2. CASE seen.view = "final" /\ view = "final"
    <3>1. /\ UNCHANGED <<todo, reached, late, keyboard, service, user, pass, bar, stray>>
          /\ view' \in {view, Base} /\ ticked' \in BOOLEAN
          /\ faults' \in 0 .. Faults /\ faults' >= faults
      BY <1>1, <2>2, FinalTaps DEF IInv
    <3>2. faults' \in Nat /\ faults' >= faults
      BY <3>1
    <3>3. ticked' \in BOOLEAN /\ ~keyboard
      BY <2>2, <3>1 DEF IInv, Links, Screens, Sheets
    <3>4. view' # "gone" /\ view # "lost"
      BY <2>2, <3>1 DEF Base
    <3>. QED BY <2>1, <3>1, <3>2, <3>3, <3>4, AgainLinks
  <2>3. CASE ~(seen.view = "final" /\ view = "final")
    <3>1. Tap /\ UNCHANGED faults
      BY <1>1, <2>3 DEF AnswerFirstRun
    <3>2. seen.view \notin {"lost", "invalid", "leaving", "gone"}
      BY <2>1 DEF FirstRun
    <3>3. faults \in Nat /\ ticked \in BOOLEAN
      BY DEF IInv, TypeOK
    <3>. QED BY <2>1, <3>1, <3>2, <3>3, TapEffect, AgainLinks
  <2>. QED BY <2>2, <2>3
<1>2. CASE AnswerDialog
  <2>1. pc = "answer" /\ Again /\ Tap /\ UNCHANGED faults
    BY <1>2 DEF AnswerDialog
  <2>2. seen.view \notin {"lost", "invalid", "gone"}
    BY <1>2 DEF AnswerDialog, Asks
  <2>3. faults \in Nat /\ ticked \in BOOLEAN
    BY DEF IInv, TypeOK
  <2>. QED BY <2>1, <2>2, <2>3, TapEffect, AgainLinks
<1>3. CASE AnswerHelp
  <2>1. pc = "answer" /\ Again /\ Back /\ seen.view = "help"
    BY <1>3 DEF AnswerHelp
  <2>2. view \in {"help", "lost"} /\ ~keyboard /\ ~service
    BY <2>1 DEF IInv, Links, Answering, Screens, Sheets
  <2>3. CASE BackTaken
    <3>1. /\ keyboard' = keyboard /\ service' = service /\ view' = IF view = "help" THEN Base ELSE view
          /\ UNCHANGED <<todo, reached, late, user, pass, bar, ticked, stray, faults>>
      BY <2>2, <2>3 DEF BackTaken, Sheets, IInv, TypeOK
    <3>2. faults \in Nat /\ ticked \in BOOLEAN
      BY DEF IInv, TypeOK
    <3>3. Base # "gone"
      BY DEF Base
    <3>. QED BY <2>1, <2>2, <3>1, <3>2, <3>3, AgainLinks
  <2>4. CASE BackIgnored
    <3>1. faults' \in Nat /\ faults' >= faults /\ ticked \in BOOLEAN
      BY <2>4, Numbers DEF BackIgnored, IInv, TypeOK
    <3>2. UNCHANGED <<view, todo, reached, late, keyboard, service, user, pass, bar, ticked, stray>>
      BY <2>4 DEF BackIgnored, appVars
    <3>. QED BY <2>1, <2>2, <3>1, <3>2, AgainLinks
  <2>. QED BY <2>1, <2>3, <2>4 DEF Back
<1>. QED BY <1>1, <1>2, <1>3

\* The refusal that was dumped was paid for, and the program is idle with it.
LEMMA RefusalStep == ASSUME IInv, AnswerRefusal PROVE Links'
<1> USE Numbers DEF IInv, Links, AnswerRefusal
<1>1. /\ UNCHANGED <<todo, reached, late, keyboard, service, user, pass, bar, ticked, stray>>
      /\ view' # view => ~keyboard
      /\ view' \in {view, Base, "gone"} /\ pc' = "idle"
  BY TapEffect
<1>2. Screens'
  BY <1>1 DEF Screens, TypeOK, Base
<1>3. Answering' /\ Typing'
  BY <1>1 DEF Answering, Typing, Places
<1>4. Refusing'
  BY <1>1 DEF Refusing
<1>5. Quietly'
  BY DEF Quietly
<1>6. Visiting'
  BY <1>1 DEF Visiting, Base
<1>. QED BY <1>2, <1>3, <1>4, <1>5, <1>6

LEMMA SheetStep == ASSUME IInv, AnswerSheet PROVE Links'
<1> USE Numbers DEF IInv, Links, AnswerSheet, appVars
<1>1. Screens' /\ Answering'
  BY DEF Screens, Answering
<1>2. Typing'
  BY DEF Typing, Answering, Places, TypeOK, Sheets, Right
<1>3. Refusing' /\ Visiting'
  BY DEF Refusing, Visiting
<1>4. Quietly'
  BY DEF Quietly, Honest, Counted, TypeOK
<1>. QED BY <1>1, <1>2, <1>3, <1>4

\* An honest connect has only counted the connecting screen, and not often enough.
LEMMA NothingStep == ASSUME IInv, AnswerNothing PROVE Links'
<1> USE Numbers DEF IInv, Links, AnswerNothing
<1>1. /\ pc = "answer" /\ pc' \in {"up", "idle", "look"}
      /\ UNCHANGED <<view, todo, reached, late, keyboard, service, user, pass, bar, ticked>>
      /\ UNCHANGED <<seen, entered, attempt, backs, tapped, dumps, sized, stray>>
  BY DEF appVars
<1>2. faults' \in Nat /\ faults' >= faults /\ (pc' = "look" => faults' = faults)
  BY DEF TypeOK
<1>3. Screens'
  BY <1>1 DEF Screens, TypeOK
<1>4. Answering'
  BY <1>1 DEF Answering
<1>5. Typing'
  BY <1>1, <1>2 DEF Typing, Places
<1>6. Refusing'
  BY <1>1, <1>2 DEF Refusing, TypeOK
<1>7. ASSUME Honest PROVE seen.view = "blank" /\ ~seen.bar /\ quiet < Counted /\ Counted < QuietDumps
  <2>1. seen.view = "blank" /\ ~seen.bar /\ quiet < Counted
    BY <1>1, <1>7 DEF Honest, Answering, Unanswered, Quietly
  <2>2. Counted < QuietDumps
    BY <1>7 DEF Honest, Counted, TypeOK
  <2>. QED BY <2>1, <2>2
<1>8. Quietly'
  <2>1. Honest' => Honest
    BY <1>1, <1>2 DEF Honest, TypeOK
  <2>2. ASSUME Honest PROVE pc' = "look" /\ quiet' = quiet + 1 /\ outcome' = outcome
    <3>1. quiet \in Nat /\ Counted \in Nat
      BY DEF TypeOK, Counted
    <3>. QED BY <1>7, <2>2, <3>1
  <2>3. pc' = "up" => outcome' = "connected"
    OBVIOUS
  <2>4. outcome' = "connected" => ~Honest'
    BY <2>1, <2>2 DEF Quietly
  <2>5. Honest' /\ pc' = "look" => quiet' <= Counted'
    <3>2. late \in Nat /\ faults \in Nat /\ Late \in Nat
      BY DEF TypeOK
    <3>3. Counted = late + faults \/ Counted = Late + faults
      BY DEF Counted
    <3>4. pc' = "look" => Counted' = Counted
      BY <1>1, <1>2 DEF Counted
    <3>1. quiet \in Nat /\ Counted \in Nat /\ (pc' = "look" => Counted' = Counted)
      BY <3>2, <3>3, <3>4 DEF TypeOK
    <3>. QED BY <1>7, <2>1, <2>2, <3>1
  <2>. QED BY <1>1, <2>3, <2>4, <2>5 DEF Quietly
<1>9. Visiting'
  BY <1>1, <1>2 DEF Visiting, TypeOK
<1>. QED BY <1>3, <1>4, <1>5, <1>6, <1>8, <1>9

(* ----------------------------- the typing ------------------------------- *)

\* A Back that is pressed for a keyboard brings it down, or costs a fault and leaves it.
LEMMA BackEffect ==
  ASSUME IInv, Back, keyboard
  PROVE  /\ UNCHANGED <<view, todo, reached, late, user, pass, bar, ticked, stray>>
         /\ \/ ~keyboard' /\ ~service' /\ faults' = faults
            \/ keyboard' = keyboard /\ service' = service /\ faults' = faults + 1
<1>1. CASE BackTaken
  BY <1>1 DEF BackTaken
<1>2. CASE BackIgnored
  BY <1>2 DEF BackIgnored, appVars
<1>. QED BY <1>1, <1>2 DEF Back

\* Typing touches neither what the app still has to show nor the visits.
LEMMA TypingLinks ==
  ASSUME IInv, pc \in Places, pc' \in Places, Typing',
         UNCHANGED <<view, todo, reached, late, bar, ticked>>,
         UNCHANGED <<seen, quiet, entered, tapped, dumps, outcome, sized, stray>>,
         service' => keyboard', keyboard' => view \in Sheets,
         faults' \in Nat, faults' >= faults
  PROVE  Links'
<1> USE Numbers DEF IInv, Links, Places
<1>1. Screens'
  BY DEF Screens
<1>2. Answering' /\ Quietly'
  BY DEF Answering, Quietly, Honest, TypeOK
<1>3. Refusing'
  BY DEF Refusing, TypeOK
<1>4. Visiting'
  BY DEF Visiting, TypeOK
<1>. QED BY <1>1, <1>2, <1>3, <1>4

LEMMA HideStep ==
  ASSUME IInv, NEW from, NEW to,
         <<from, to>> \in {<<"hide", "find">>, <<"hide2", "read">>}, HideIme(from, to)
  PROVE  Links'
<1> USE Numbers
<1>1. /\ from \in {"hide", "hide2"} /\ to = (IF from = "hide" THEN "find" ELSE "read")
      /\ pc = from /\ pc' \in {from, to} /\ backs \in Nat /\ faults \in Nat /\ attempt \in Nat
      /\ UNCHANGED <<seen, quiet, entered, attempt, tapped, dumps, outcome, sized>>
  BY DEF HideIme, IInv, TypeOK
<1>2. service => keyboard
  BY DEF IInv, Links, Screens
<1>3. CASE /\ pc' = to /\ backs' = 0 /\ UNCHANGED <<appVars, stray>>
            /\ \/ (~ImeUp \/ backs = Backs) /\ faults' = faults
               \/ ~service /\ keyboard /\ faults' = faults + 1
  <2>1. /\ UNCHANGED <<view, todo, reached, late, keyboard, service, user, pass, bar, ticked, stray>>
        /\ faults' \in {faults, faults + 1}
    BY <1>3 DEF appVars
  <2>2. keyboard => backs = Backs \/ (~service /\ faults' = faults + 1)
    BY <1>3 DEF ImeUp
  <2>4. keyboard => faults' >= attempt + Extra
    <3>1. keyboard /\ from = "hide" => faults >= attempt - 1 + Extra + backs
      BY <1>1 DEF IInv, Links, Typing
    <3>2. keyboard /\ from = "hide2" => faults >= attempt - 1 + Denied + backs
      BY <1>1 DEF IInv, Links, Typing
    <3>. QED BY <1>1, <2>1, <2>2, <3>1, <3>2 DEF Denied
  <2>3. Typing'
    BY <1>1, <1>3, <2>1, <2>4 DEF IInv, Links, Typing, Places, Right
  <2>. QED BY <1>1, <1>3, <2>1, <2>3, TypingLinks DEF IInv, Links, Screens, Places
<1>4. CASE ImeUp /\ backs < Backs /\ backs' = backs + 1 /\ pc' = from /\ Back
  <2>1. keyboard
    BY <1>2, <1>4 DEF ImeUp
  <2>2. /\ UNCHANGED <<view, todo, reached, late, user, pass, bar, ticked, stray>>
        /\ \/ ~keyboard' /\ ~service' /\ faults' = faults
           \/ keyboard' = keyboard /\ service' = service /\ faults' = faults + 1
    BY <1>4, <2>1, BackEffect
  <2>3. Typing'
    <3>1. CASE ~keyboard' /\ faults' = faults
      BY <1>1, <1>4, <2>2, <3>1 DEF IInv, Links, Typing, Places, Right
    <3>2. CASE keyboard' = keyboard /\ service' = service /\ faults' = faults + 1
      <4>1. /\ from = "hide" => faults >= attempt - 1 + Extra + backs
            /\ from = "hide2" => faults >= attempt - 1 + Denied + backs
            /\ Denied' = Denied /\ Denied \in {0, 1} /\ faults >= attempt - 1
        BY <1>1, <2>1, <2>2, <3>2 DEF IInv, Links, Typing, Denied, Screens, Places
      <4>2. view \in Sheets /\ attempt <= Attempts
        BY <1>1, <2>1 DEF IInv, Links, Typing, Screens, Places
      <4>3. pc = "hide2" => Right \/ faults >= attempt
        BY <4>2 DEF IInv, Links, Typing
      <4>. QED BY <1>1, <1>4, <2>2, <3>2, <4>1, <4>2, <4>3 DEF Typing, Places, Right
    <3>. QED BY <2>2, <3>1, <3>2
  <2>4. faults' \in Nat /\ faults' >= faults
    BY <1>1, <2>2
  <2>5. (service' => keyboard') /\ (keyboard' => view \in Sheets)
    BY <1>2, <2>1, <2>2 DEF IInv, Links, Screens
  <2>. QED BY <1>1, <1>4, <2>2, <2>3, <2>4, <2>5, TypingLinks DEF Places
<1>. QED BY <1>1, <1>3, <1>4 DEF HideIme, Missing

LEMMA TapFieldStep == ASSUME IInv, TapField PROVE Links'
<1> USE Numbers
<1>1. /\ pc = "find" /\ backs' = 0 /\ backs = 0
      /\ UNCHANGED <<view, todo, reached, late, user, pass, bar, ticked, seen, quiet, entered,
                     tapped, dumps, outcome, sized, stray>>
      /\ faults \in Nat /\ attempt \in Nat
  BY DEF TapField, IInv, TypeOK, Links, Typing
<1>2. CASE /\ view \in Sheets /\ ~keyboard /\ keyboard' = TRUE /\ service' = TRUE
           /\ pc' = "type" /\ UNCHANGED <<attempt, faults>>
  <2>1. Typing'
    BY <1>1, <1>2 DEF IInv, Links, Typing, Places, Right, Denied
  <2>. QED BY <1>1, <1>2, <2>1, TypingLinks DEF Places
<1>3. CASE /\ IF view \in Sheets /\ ~keyboard THEN Missing ELSE UNCHANGED faults
           /\ pc' = NextAttempt /\ attempt' = attempt + 1 /\ UNCHANGED <<keyboard, service>>
  <2>1. /\ pc' = (IF attempt < Attempts THEN "hide" ELSE "submit") /\ faults' \in {faults, faults + 1}
        /\ view \in Sheets /\ ~keyboard => faults' = faults + 1
    BY <1>3 DEF NextAttempt, Missing
  <2>2. /\ attempt <= Attempts /\ (view \in Sheets => faults >= attempt - 1)
        /\ (keyboard => faults >= attempt + Extra) /\ view \in Sheets \cup {"lost"}
    BY <1>1 DEF IInv, Links, Typing, Places
  <2>3. Typing'
    BY <1>1, <1>3, <2>1, <2>2 DEF Typing, Places, Right
  <2>. QED BY <1>1, <1>3, <2>1, <2>3, TypingLinks DEF Places, IInv, Links, Screens
<1>. QED BY <1>2, <1>3 DEF TapField

LEMMA RetypeStep == ASSUME IInv, Retype PROVE Links'
<1> USE Numbers
<1>1. /\ pc = "type" /\ pc' = "hide2" /\ faults \in Nat /\ attempt \in Nat
      /\ UNCHANGED <<view, todo, reached, late, keyboard, service, bar, ticked, seen, quiet, entered,
                     attempt, backs, tapped, dumps, outcome, sized, stray>>
  BY DEF Retype, IInv, TypeOK
<1>2. faults' \in {faults, faults + 1} /\ (view \in Sheets => Right' \/ faults' = faults + 1)
  BY <1>1 DEF Retype, Right, IInv, Links, Typing
<1>3. Typing'
  <2>1. keyboard' => faults' >= attempt' - 1 + Denied' + backs'
    BY <1>1, <1>2 DEF IInv, Links, Typing, Denied, TypeOK
  <2>. QED BY <1>1, <1>2, <2>1 DEF IInv, Links, Typing, Places, Screens
<1>. QED BY <1>1, <1>2, <1>3, TypingLinks DEF Places, IInv, Links, Screens

LEMMA ReadBackStep == ASSUME IInv, ReadBack PROVE Links'
<1> USE Numbers
<1>1. /\ pc = "read" /\ backs' = 0 /\ faults \in Nat /\ attempt \in Nat
      /\ UNCHANGED <<view, todo, reached, late, keyboard, service, user, pass, bar, ticked, stray>>
      /\ UNCHANGED <<seen, quiet, entered, tapped, dumps, outcome, sized>>
  BY DEF ReadBack, IInv, TypeOK, appVars
<1>2. CASE ReadsBack /\ pc' = "submit" /\ UNCHANGED <<attempt, faults>>
  <2>1. ~keyboard /\ Right
    BY <1>2 DEF ReadsBack, Right
  <2>2. Typing'
    BY <1>1, <1>2, <2>1 DEF IInv, Links, Typing, Places, Right
  <2>. QED BY <1>1, <1>2, <2>1, <2>2, TypingLinks DEF Places, IInv, Links, Screens
<1>3. CASE /\ IF ReadsBack THEN Missing ELSE UNCHANGED faults
           /\ pc' = NextAttempt /\ attempt' = attempt + 1
  <2>1. /\ pc' = (IF attempt < Attempts THEN "hide" ELSE "submit") /\ faults' \in {faults, faults + 1}
        /\ ReadsBack => faults' = faults + 1
    BY <1>3 DEF NextAttempt, Missing
  <2>2. /\ attempt <= Attempts /\ (view \in Sheets => faults >= attempt - 1)
        /\ (keyboard => faults >= attempt + Extra) /\ view \in Sheets \cup {"lost"}
        /\ view \in Sheets => Right \/ faults >= attempt
    BY <1>1 DEF IInv, Links, Typing, Places
  <2>4. view \in Sheets => keyboard \/ ~Right \/ faults' = faults + 1
    BY <2>1 DEF ReadsBack, Right
  <2>3. Typing'
    BY <1>1, <1>3, <2>1, <2>2, <2>4 DEF Typing, Places, Right
  <2>. QED BY <1>1, <1>3, <2>1, <2>3, TypingLinks DEF Places, IInv, Links, Screens
<1>. QED BY <1>2, <1>3 DEF ReadBack

\* Only what was typed wrong after the last attempt is refused.
LEMMA SubmitStep == ASSUME IInv, Submit PROVE Links'
<1> USE Numbers DEF IInv
<1>1. /\ pc = "submit" /\ pc' = "look" /\ quiet' = 0 /\ entered' = TRUE
      /\ UNCHANGED <<reached, keyboard, service, user, pass, bar, ticked, stray>>
      /\ UNCHANGED <<seen, attempt, backs, tapped, dumps, outcome, sized, faults>>
  BY DEF Submit, TapSubmit
<1>2. CASE view \in Sheets /\ ~keyboard
  <2>1. /\ view' = "blank" /\ late' = 0
        /\ todo' = IF Right THEN todo ELSE <<"invalid">>
    BY <1>2 DEF Submit, TapSubmit, Right
  <2>2. ~Right => faults >= Attempts
    BY <1>1, <1>2 DEF Links, Typing
  <2>3. <<"invalid">> \in Seq(Comings)
    BY DEF Comings
  <2>4. Screens'
    BY <1>1, <1>2, <2>1, <2>3 DEF Links, Screens
  <2>5. Answering' /\ Quietly'
    BY <1>1, <1>2, <2>1 DEF Answering, Quietly, Links, Honest, Counted, Sheets, TypeOK
  <2>6. Typing'
    BY <1>1, <1>2, <2>1 DEF Links, Typing, Places
  <2>7. Refusing'
    BY <1>1, <2>1, <2>2 DEF Links, Refusing
  <2>8. Visiting'
    BY <1>1, <2>1 DEF Links, Visiting
  <2>. QED BY <2>4, <2>5, <2>6, <2>7, <2>8 DEF Links
<1>3. CASE ~(view \in Sheets /\ ~keyboard)
  <2>1. UNCHANGED <<view, late, todo>>
    BY <1>3 DEF Submit, TapSubmit
  <2>2. view = "lost" \/ keyboard
    BY <1>1, <1>3 DEF Links, Typing, Places
  <2>3. Screens' /\ Answering' /\ Refusing' /\ Visiting'
    BY <1>1, <2>1 DEF Links, Screens, Answering, Refusing, Visiting
  <2>4. Typing'
    BY <1>1, <2>1, <2>2 DEF Links, Typing, Places, Screens
  <2>5. Quietly'
    BY <1>1, <2>1, <2>2 DEF Links, Quietly, Honest, Counted, Typing, TypeOK
  <2>. QED BY <2>3, <2>4, <2>5 DEF Links
<1>. QED BY <1>2, <1>3

(* ------------------------------ the visits ------------------------------ *)

\* A step of a visit or its end: what it may change besides the visit itself.
LEMMA VisitLinks ==
  ASSUME IInv, pc \in {"up", "info", "tapinfo", "close", "await"},
         pc' \in {"up", "info", "tapinfo", "close", "await"}, Screens', Refusing', Visiting',
         Honest' => Honest, UNCHANGED <<outcome, backs>>
  PROVE  Links'
<1> USE Numbers DEF IInv, Links
<1>1. Answering' /\ Typing'
  BY DEF Answering, Typing, Places
<1>2. Quietly'
  BY DEF Quietly
<1>. QED BY <1>1, <1>2

LEMMA OpenStep == ASSUME IInv, OpenInfo PROVE Links'
<1> USE Numbers DEF IInv, OpenInfo, appVars
<1>1. Screens' /\ Refusing'
  BY DEF Links, Screens, Refusing
<1>2. Visiting'
  BY DEF Links, Visiting
<1>3. Honest' => Honest
  BY DEF Honest
<1>. QED BY <1>1, <1>2, <1>3, VisitLinks

LEMMA LookInfoStep == ASSUME IInv, LookInfo PROVE Links'
<1> USE Numbers DEF IInv, LookInfo, appVars
<1>2. /\ seen'.bar => bar
      /\ seen'.view = "info" => view = "info"
      /\ faults' \in {faults, faults + 1} /\ faults \in Nat
  BY DEF Dump, Nothing, Missing, TypeOK
<1>1. Screens' /\ Refusing'
  BY <1>2 DEF Links, Screens, Refusing, TypeOK
<1>3. Visiting'
  <2>1. pc' = "close" => view = "info" /\ reached
    BY <1>2 DEF Links, Screens
  <2>2. sized' => pc' = "close" /\ \A i \in 1 .. Len(todo') : todo'[i] # "info"
    BY <1>2 DEF Links, Screens
  <2>3. (pc' = "tapinfo" /\ seen'.bar) \/ (pc' = "tapinfo" /\ tapped') => reached'
    BY <1>2 DEF Links, Visiting, Screens
  <2>4. stray' <= 1 /\ (pc' = "tapinfo" => ~sized' /\ (tapped' \/ stray' = 0))
    BY DEF Links, Visiting
  <2>. QED BY <2>1, <2>2, <2>3, <2>4 DEF Visiting
<1>4. Honest' => Honest
  BY <1>2 DEF Honest
<1>. QED BY <1>1, <1>3, <1>4, VisitLinks

\* The one tap that counts asks for one information screen, or is the one stray click.
LEMMA TapInfoStep == ASSUME IInv, TapInfo PROVE Links'
<1> USE Numbers DEF IInv
<1>1. /\ pc = "tapinfo" /\ tapped' = (tapped \/ seen.bar)
      /\ pc' = CASE dumps < Dumps -> "info" [] tapped' -> "close" [] OTHER -> "up"
      /\ UNCHANGED <<view, reached, late, keyboard, service, user, pass, bar, ticked, faults, seen, quiet,
                     entered, attempt, backs, dumps, outcome, sized>>
  BY DEF TapInfo
<1>2. \/ UNCHANGED <<todo, stray>>
      \/ todo' = <<"info">> \o todo /\ ~Opening /\ view = "desktop" /\ stray' = stray
      \/ todo' = todo /\ stray' = stray + 1 /\ ~tapped /\ seen.bar
  BY DEF TapInfo
<1>3. pc' \in {"info", "close", "up"} /\ (pc' = "info" => dumps < Dumps) /\ (pc' = "close" => tapped')
  BY <1>1
<1>4. ~sized /\ (tapped => reached) /\ (seen.bar => reached) /\ (tapped \/ stray = 0) /\ stray <= 1
  BY <1>1 DEF Links, Visiting
<1>5. CASE todo' = <<"info">> \o todo /\ ~Opening /\ view = "desktop" /\ stray' = stray
  <2>1. reached /\ todo \in Seq(Comings)
    BY <1>5 DEF Links, Screens
  <2>2. /\ todo' \in Seq(Comings) /\ Len(todo') = Len(todo) + 1 /\ todo'[1] = "info"
        /\ \A i \in 2 .. Len(todo') : todo'[i] = todo[i - 1]
    BY <1>5, <2>1 DEF Comings
  <2>3. \A i \in 1 .. Len(todo) : todo[i] # "info"
    BY <1>5, <2>1 DEF Opening
  <2>7. \A i \in 1 .. Len(todo') : i = 1 \/ (i - 1 \in 1 .. Len(todo) /\ todo'[i] = todo[i - 1])
    BY <2>1, <2>2
  <2>4. Screens'
    <3>1. \A i \in 1 .. Len(todo') : todo'[i] = "info" => i = 1
      BY <2>3, <2>7
    <3>2. view' # "info" /\ view' # "gone"
      BY <1>1, <1>5
    <3>. QED BY <1>1, <2>1, <2>2, <3>1, <3>2 DEF Links, Screens
  <2>5. Refusing'
    <3>1. ASSUME NEW i \in 1 .. Len(todo'), todo'[i] = "invalid" PROVE \E j \in 1 .. Len(todo) : todo[j] = "invalid"
      BY <2>2, <2>7, <3>1
    <3>. QED BY <1>1, <1>3, <3>1 DEF Links, Refusing
  <2>6. Visiting'
    BY <1>1, <1>3, <1>4, <1>5, <2>1 DEF Visiting
  <2>. QED BY <1>1, <1>3, <2>4, <2>5, <2>6, VisitLinks DEF Honest
<1>6. CASE todo' = todo
  <2>1. Screens' /\ Refusing'
    BY <1>1, <1>3, <1>6 DEF Links, Screens, Refusing
  <2>2. stray' <= 1 /\ (tapped' \/ stray' = 0)
    BY <1>1, <1>2, <1>4 DEF TypeOK
  <2>3. Visiting'
    BY <1>1, <1>3, <1>4, <1>6, <2>2 DEF Visiting
  <2>. QED BY <1>1, <1>3, <2>1, <2>3, VisitLinks DEF Honest
<1>. QED BY <1>2, <1>5, <1>6

\* The screen is closed by a Back, or the Back is a fault and it stays.
LEMMA CloseStep == ASSUME IInv, CloseInfo PROVE Links'
<1> USE Numbers DEF IInv
<1>1. /\ pc = "close" /\ pc' = "await" /\ Back /\ reached
      /\ UNCHANGED <<seen, quiet, entered, attempt, backs, tapped, dumps, outcome, sized>>
  BY DEF CloseInfo, Links, Visiting
<1>2. CASE BackTaken
  <2>1. /\ ~keyboard' /\ ~service' /\ view' # "info" /\ view' \in {view, "gone", "leaving", Base}
        /\ UNCHANGED <<todo, reached, late, user, pass, bar, ticked, stray, faults>>
    BY <1>2 DEF BackTaken, Base, Links, Screens, Sheets
  <2>2. Screens'
    BY <1>1, <2>1 DEF Links, Screens
  <2>3. Refusing'
    BY <1>1, <2>1 DEF Links, Refusing, Base
  <2>4. Visiting'
    BY <1>1, <2>1 DEF Links, Visiting
  <2>. QED BY <1>1, <2>1, <2>2, <2>3, <2>4, VisitLinks DEF Honest
<1>3. CASE BackIgnored
  <2>1. /\ faults' = faults + 1
        /\ UNCHANGED <<view, todo, reached, late, keyboard, service, user, pass, bar, ticked, stray>>
    BY <1>3 DEF BackIgnored, appVars
  <2>2. Screens'
    BY <1>1, <2>1 DEF Links, Screens
  <2>3. Refusing'
    BY <1>1, <2>1 DEF Links, Refusing, TypeOK
  <2>4. Visiting'
    BY <1>1, <2>1 DEF Links, Visiting, TypeOK
  <2>. QED BY <1>1, <2>1, <2>2, <2>3, <2>4, VisitLinks DEF Honest
<1>. QED BY <1>1, <1>2, <1>3 DEF Back

LEMMA AwaitStep == ASSUME IInv, AwaitInfo PROVE Links'
<1> USE Numbers DEF IInv
<1>1. /\ pc = "await" /\ pc' = "up"
      /\ UNCHANGED <<seen, quiet, entered, attempt, backs, tapped, dumps, outcome, sized>>
  BY DEF AwaitInfo
<1>2. CASE /\ IF view = "info" THEN Missing ELSE UNCHANGED faults
           /\ UNCHANGED <<appVars, stray>>
  <2>1. /\ UNCHANGED <<view, todo, reached, late, keyboard, service, user, pass, bar, ticked, stray>>
        /\ faults \in Nat /\ faults' \in {faults, faults + 1} /\ (view = "info" => faults' = faults + 1)
    BY <1>2 DEF appVars, Missing, TypeOK
  <2>2. Screens' /\ Refusing' /\ Visiting'
    BY <1>1, <2>1 DEF Links, Screens, Refusing, Visiting
  <2>. QED BY <1>1, <2>1, <2>2, VisitLinks DEF Honest
<1>3. CASE view = "info" /\ Back
  <2>3. reached /\ Back /\ ~keyboard
    BY <1>1, <1>3 DEF Links, Screens, Sheets
  <2>4. sized => faults >= 1
    BY <1>1, <1>3 DEF Links, Visiting, TypeOK
  <2>0. reached /\ Back /\ ~keyboard /\ (sized => faults >= 1)
    BY <2>3, <2>4
  <2>1. CASE BackTaken
    <3>1. /\ ~keyboard' /\ ~service' /\ view' = Base
          /\ UNCHANGED <<todo, reached, late, user, pass, bar, ticked, stray, faults>>
      BY <1>3, <2>0, <2>1 DEF BackTaken, Sheets
    <3>2. Screens' /\ Refusing' /\ Visiting'
      BY <1>1, <2>0, <3>1 DEF Links, Screens, Refusing, Visiting, Base
    <3>. QED BY <1>1, <2>0, <3>1, <3>2, VisitLinks DEF Honest
  <2>2. CASE BackIgnored
    <3>1. /\ faults' = faults + 1
          /\ UNCHANGED <<view, todo, reached, late, keyboard, service, user, pass, bar, ticked, stray>>
      BY <2>2 DEF BackIgnored, appVars
    <3>2. Screens' /\ Refusing'
      BY <1>1, <3>1 DEF Links, Screens, Refusing, TypeOK
    <3>3. Visiting'
      BY <1>1, <2>0, <3>1 DEF Links, Visiting, TypeOK
    <3>. QED BY <1>1, <2>0, <3>1, <3>2, <3>3, VisitLinks DEF Honest
  <2>. QED BY <2>0, <2>1, <2>2 DEF Back
<1>. QED BY <1>2, <1>3 DEF AwaitInfo

LEMMA DisconnectStep == ASSUME IInv, Disconnect PROVE Links'
<1> USE Numbers DEF IInv, Links, Disconnect
<1>1. Screens'
  BY DEF Screens
<1>2. Answering' /\ Typing' /\ Quietly'
  BY DEF Answering, Typing, Quietly, Places
<1>3. Refusing' /\ Visiting'
  BY DEF Refusing, Visiting
<1>. QED BY <1>1, <1>2, <1>3

(* ------------------------- the invariant holds -------------------------- *)

THEOREM InitEstablishes == Init => IInv
<1> SUFFICES ASSUME Init PROVE IInv
  OBVIOUS
<1> USE DEF Init
<1>1. TypeOK
  <2>1. /\ late \in 0 .. Late /\ faults \in 0 .. Faults /\ quiet \in 0 .. QuietDumps
        /\ attempt \in 1 .. Attempts + 1 /\ backs \in 0 .. Backs /\ dumps \in 0 .. Dumps
        /\ stray \in 0 .. Dumps
    BY Numbers
  <2>2. /\ reached \in BOOLEAN /\ keyboard \in BOOLEAN /\ service \in BOOLEAN /\ bar \in BOOLEAN
        /\ ticked \in BOOLEAN /\ entered \in BOOLEAN /\ tapped \in BOOLEAN /\ sized \in BOOLEAN
    OBVIOUS
  <2>3. /\ view \in Views /\ todo \in Seq(Views) /\ user \in Field /\ pass \in Field
        /\ pc = "idle" /\ outcome = "none"
    BY Kinds DEF Field
  <2>4. seen \in [view : Views, keyboard : BOOLEAN, user : Field, pass : Field, bar : BOOLEAN, ticked : BOOLEAN]
    BY <2>2, <2>3 DEF Dump
  <2>. QED BY <2>1, <2>2, <2>3, <2>4 DEF TypeOK
<1>2. Screens /\ Answering /\ Refusing
  BY DEF Screens, Answering, Refusing
<1>3. Typing /\ Quietly /\ Visiting
  BY Numbers DEF Typing, Quietly, Visiting, Places
<1>. QED BY <1>1, <1>2, <1>3 DEF IInv, Links

THEOREM NextPreserves == IInv /\ [Next]_vars => IInv'
<1> SUFFICES ASSUME IInv, [Next]_vars PROVE IInv'
  OBVIOUS
<1> USE DEF IInv
<1>1. CASE App
  BY <1>1, AppTyped, ShowStep, AppStep DEF App
<1>2. CASE Connect
  BY <1>2, ConnectTyped, ConnectStep
<1>3. CASE Look \/ Expire
  BY <1>3, LookTyped, LookStep, ExpireStep
<1>4. CASE Answer
  BY <1>4, AnswerTyped, AnswerStep, RefusalStep, SheetStep, NothingStep DEF Answer
<1>5. CASE EnterCredentials
  <2>1. CASE HideIme("hide", "find") \/ HideIme("hide2", "read")
    BY <2>1, HideTyped, HideStep
  <2>2. CASE TapField \/ Retype \/ ReadBack \/ Submit
    <3>1. attempt <= Attempts \/ pc = "submit"
      BY <2>2 DEF TapField, Retype, ReadBack, Submit, Links, Typing, Places
    <3>. QED BY <2>2, <3>1, TypingTyped, TapFieldStep, RetypeStep, ReadBackStep, SubmitStep
  <2>. QED BY <1>5, <2>1, <2>2 DEF EnterCredentials
<1>6. CASE OpenInfo \/ LookInfo \/ TapInfo \/ CloseInfo \/ AwaitInfo \/ Disconnect
  <2>1. Links'
    BY <1>6, OpenStep, LookInfoStep, TapInfoStep, CloseStep, AwaitStep, DisconnectStep
  <2>2. stray' \in 0 .. 1
    <3>1. stray' \in Nat
      BY <1>6 DEF OpenInfo, LookInfo, TapInfo, CloseInfo, AwaitInfo, Back, BackTaken, BackIgnored,
                  Disconnect, appVars, TypeOK
    <3>. QED BY <2>1, <3>1 DEF Links, Visiting
  <2>3. pc = "info" => dumps < Dumps
    BY DEF Links, Visiting
  <2>. QED BY <1>6, <2>1, <2>2, <2>3, VisitTyped
<1>7. CASE UNCHANGED vars
  BY <1>7 DEF vars, appVars, runVars, TypeOK, Links, Screens, Answering, Typing, Refusing, Quietly,
              Visiting, Right, Honest, Denied, Counted
<1>. QED BY <1>1, <1>2, <1>3, <1>4, <1>5, <1>6, <1>7 DEF Next, Program

THEOREM Invariant == Spec => []IInv
<1>. QED BY InitEstablishes, NextPreserves, PTL DEF Spec

\* Every variable keeps its type.
THEOREM TypeCorrect == Spec => []TypeOK
<1>1. IInv => TypeOK
  BY DEF IInv
<1>. QED BY <1>1, Invariant, PTL

\* connect (android_viewer.py) calls nothing connected that did not reach the desktop, unless
\* the connection was dropped, or as many dumps failed or came late as QUIET_DUMPS leaves
\* over, or every attempt to type failed and left the keyboard up.
THEOREM ConnectIsHonest == Spec => []ConnectedIsHonest
<1>1. IInv => ConnectedIsHonest
  BY Numbers DEF IInv, Links, Quietly, Honest, ConnectedIsHonest, TypeOK
<1>. QED BY <1>1, Invariant, PTL

\* The server is called refusing only after every typing attempt failed.
THEOREM RefusalIsPaid == Spec => []RefusalNeedsFaults
<1>1. IInv => RefusalNeedsFaults
  BY DEF IInv, Links, Refusing, RefusalNeedsFaults
<1>. QED BY <1>1, Invariant, PTL

\* desktop_size leaves the information screen behind when it returned a size.
THEOREM InfoIsClosed == Spec => []InfoClosed
<1>1. IInv => InfoClosed
  BY DEF IInv, Links, Visiting, InfoClosed
<1>. QED BY <1>1, Invariant, PTL

\* _open_info_screen sends the server one click at most.
THEOREM OneStray == Spec => []AtMostOneStray
<1>1. IInv => AtMostOneStray
  BY DEF IInv, Links, Visiting, AtMostOneStray
<1>. QED BY <1>1, Invariant, PTL

\* _answer_first_run accepts the last page with the analytics box ticked only when its tap on
\* the box was lost.
THEOREM AnalyticsOff == Spec => AnalyticsDeclined
<1>1. ASSUME IInv, [Next]_vars, pc = "answer", view = "final", view' # "final", ticked'
      PROVE  faults' > faults
  <2>1. ~keyboard /\ ~service
    BY <1>1 DEF IInv, Links, Screens, Sheets
  <2>2. AnswerFirstRun
    <3>1. ASSUME Tap, seen.view # "final" PROVE FALSE
      BY <1>1, <3>1 DEF Tap
    <3>2. ASSUME Back PROVE FALSE
      BY <1>1, <2>1, <3>2 DEF Back, BackTaken, BackIgnored, appVars, Sheets
    <3>3. ~App
      BY <1>1 DEF App, Show, Toolbar, Drop, Deny, Base, Sheets
    <3>. QED BY <1>1, <3>1, <3>2, <3>3 DEF Next, vars, appVars, Connect, Program, Look, Expire, Answer,
         AnswerHelp, AnswerDialog, AnswerRefusal, AnswerSheet, AnswerNothing, EnterCredentials, HideIme,
         TapField, Retype, ReadBack, Submit, OpenInfo, LookInfo, TapInfo, CloseInfo, AwaitInfo, Disconnect, Asks
  <2>3. seen.view = "final"
    BY <1>1, <2>2 DEF AnswerFirstRun, Tap
  <2>4. seen.ticked = ticked
    BY <1>1, <2>3 DEF IInv, Links, Answering
  <2>. QED BY <1>1, <2>2, <2>3, <2>4, FinalTaps DEF IInv
<1>2. IInv /\ [Next]_vars =>
        [pc = "answer" /\ view = "final" /\ view' # "final" /\ ticked' => faults' > faults]_vars
  BY <1>1
<1>. QED BY <1>2, Invariant, PTL DEF Spec, AnalyticsDeclined

\* _hide_ime presses Back for a keyboard only: it never cancels the sheet.
THEOREM SheetIsKept == Spec => SheetNotCancelled
<1>1. ASSUME IInv, [Next]_vars, pc = pc' \/ pc' \in {"find", "read"}, view \in Sheets
      PROVE  view' # "gone"
  <2>1. service => keyboard
    BY <1>1 DEF IInv, Links, Screens
  <2>2. ASSUME HideIme("hide", "find") \/ HideIme("hide2", "read") PROVE view' # "gone"
    <3>1. UNCHANGED view \/ (Back /\ keyboard)
      BY <2>1, <2>2 DEF HideIme, ImeUp, appVars
    <3>. QED BY <1>1, <3>1 DEF Back, BackTaken, BackIgnored, appVars, Sheets
  <2>3. ASSUME App PROVE view' # "gone"
    BY <1>1, <2>3 DEF App, Show, Toolbar, Drop, Deny, Base, Sheets
  <2>. QED BY <1>1, <2>2, <2>3 DEF Next, vars, appVars, Connect, Program, Look, Expire, Answer, AnswerFirstRun,
       AnswerHelp, AnswerDialog, AnswerRefusal, AnswerSheet, AnswerNothing, EnterCredentials, Again,
       TapField, Retype, ReadBack, Submit, OpenInfo, LookInfo, TapInfo, CloseInfo, AwaitInfo, Disconnect,
       NextAttempt, Sheets
<1>2. IInv /\ [Next]_vars =>
        [pc = pc' \/ pc' \in {"find", "read"} => (view \in Sheets => view' # "gone")]_vars
  BY <1>1
<1>. QED BY <1>2, Invariant, PTL DEF Spec, SheetNotCancelled
================================================================================
