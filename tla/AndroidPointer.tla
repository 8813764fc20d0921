----------------------------- MODULE AndroidPointer -----------------------------
(***************************************************************************)
(* Input through the Android app in a session that AndroidViewer connected: *)
(* the app has a relative, accelerated pointer, so move_cursor_to swipes,   *)
(* reads where the fixture saw the pointer land, learns the gain of the     *)
(* speed class it used, and swipes again; click, scroll and drag follow a   *)
(* placement.  The fixture's report may come late, and reading it may fail. *)
(* Numbers are the program's own; gains are fractions <<n, d>>.             *)
(***************************************************************************)
EXTENDS AndroidViewer

CONSTANTS
  Screen,                \* SCREEN: the 1:1 desktop, in pixels
  SafeLow, SafeHigh,     \* SAFE_LEFT, SAFE_TOP and SAFE_RIGHT, SAFE_BOTTOM
  Tolerance, FastAbove, SlowMin, Tries,
  GainLow, GainHigh,     \* the clamp of a learnt gain
  FirstGain,             \* the gains before anything was learnt
  AppGains,              \* what the app may really do: a pair of gains per speed
  Starts, Goals,         \* where the pointer may be, and where it may be wanted
  Drags,                 \* from where to where the scenarios drag
  Placements,            \* bound: placements in one session
  Blurs                  \* bound: late reports and failed reads in one session

Speeds == {"fast", "slow"}
Point == Int \X Int
Fraction == (Nat \ {0}) \X (Nat \ {0})

ASSUME ZoneAssumption ==
  /\ SlowMin \in Nat \ {0} /\ Tolerance \in Nat /\ FastAbove \in Nat /\ Tries \in Nat
  /\ \A i \in 1 .. 2 : /\ SafeLow[i] \in Nat /\ SafeHigh[i] \in Nat
                       /\ SafeHigh[i] - SafeLow[i] >= SlowMin
  /\ Starts \cup Goals \cup {Screen} \subseteq Point /\ Drags \subseteq [from : Point, to : Point]
  /\ {GainLow, GainHigh} \subseteq Fraction /\ {FirstGain} \cup AppGains \subseteq [Speeds -> Fraction]

Between(g, low, high) == low[1] * g[2] <= g[1] * low[2] /\ g[1] * high[2] <= high[1] * g[2]

\* The program's numbers, and the devices the placement is claimed for: the clamp of a
\* learnt gain allows 1/5 to 4 at both speeds; a fast gain of 1/2 to 5/2 and a slow one of
\* 1/4 to 1 are assumed, and targets well inside the screen, as the scenarios' are.
ASSUME DeviceAssumption ==
  /\ Screen = <<1920, 1080>> /\ SafeLow = <<160, 230>> /\ SafeHigh = <<1760, 900>>
  /\ Tolerance = 6 /\ FastAbove = 120 /\ SlowMin = 40 /\ Tries >= 10
  /\ GainLow = <<1, 5>> /\ GainHigh = <<4, 1>> /\ FirstGain = [fast |-> <<6, 5>>, slow |-> <<3, 5>>]
  /\ \A g \in AppGains : /\ Between(g.fast, <<1, 2>>, <<5, 2>>)
                          /\ Between(g.slow, <<1, 4>>, <<1, 1>>)
  /\ Starts \subseteq (0 .. 1919) \X (0 .. 1079) /\ Goals \subseteq (460 .. 1460) \X (250 .. 626)

VARIABLES
  at,                    \* "off", "idle", "move", "back", "placed", "failed"
  placements,            \* placements begun
  pointer, sight,        \* where the pointer is, and where the fixture's file has it
  blurs,                 \* late reports and failed reads so far
  goal, left, gain,      \* move_cursor_to: the target, attempts left, the learnt gains
  current,               \* the position read before the first swipe of a finer move
  rest,                  \* the second swipe of a move finer than one swipe
  swipe,                 \* the last swipe sent: its speed and delta
  real,                  \* the app's own gains in this behaviour
  clicked                \* where the last tap landed on the desktop

ptrVars == <<at, placements, pointer, sight, blurs, goal, left, gain, current, rest, swipe, real, clicked>>
None == <<>>

Abs(n) == IF n < 0 THEN -n ELSE n
Length(d) == IF Abs(d[1]) > Abs(d[2]) THEN Abs(d[1]) ELSE Abs(d[2])
Clamp(low, high, n) == IF n < low THEN low ELSE IF n > high THEN high ELSE n
Pair(F(_)) == <<F(1), F(2)>>

\* Python's round of a fraction: to the nearest integer, a tie to the even one.
Round(n, d) ==
  LET q == n \div d
      r == 2 * (n % d)
  IN IF r > d \/ (r = d /\ q % 2 = 1) THEN q + 1 ELSE q

Scaled(d, g) == Pair(LAMBDA i : Round(d[i] * g[1], g[2]))

\* A gain as learnt from a move, clamped.
Learnt(moved, asked) ==
  IF moved * GainLow[2] < GainLow[1] * asked THEN GainLow
  ELSE IF moved * GainHigh[2] > GainHigh[1] * asked THEN GainHigh
  ELSE <<moved, asked>>

(* ------------------------------- swipes --------------------------------- *)

\* _swipe: clamped to the safe zone, and stretched to SLOW_MIN_PX when it is slow.
Commanded(d, speed) ==
  LET c == Pair(LAMBDA i : Clamp(SafeLow[i] - SafeHigh[i], SafeHigh[i] - SafeLow[i], d[i]))
      n == Length(c)
  IN IF n > 0 /\ speed = "slow" /\ n < SlowMin
     THEN Pair(LAMBDA i : Round(c[i] * SlowMin, n)) ELSE c

StartLow(d) == SafeLow        \* mutant: every swipe starts from one corner
\* _start_for: the corner of the safe zone a swipe of this direction starts from.
StartFor(d) == Pair(LAMBDA i : IF d[i] >= 0 THEN SafeLow[i] ELSE SafeHigh[i])

InZone(p) == \A i \in 1 .. 2 : p[i] \in SafeLow[i] .. SafeHigh[i]

\* What a swipe does: the pointer moves by the app's gain and stops at the screen's
\* edge.  Nothing moves when something covers the desktop or the session is over.
Swipe(d, speed) ==
  LET c == Commanded(d, speed) IN
  /\ swipe' = [speed |-> speed, delta |-> c]
  /\ pointer' = IF view # "desktop" THEN pointer
                ELSE Pair(LAMBDA i : Clamp(0, Screen[i] - 1, pointer[i] + Scaled(c, real[speed])[i]))

\* The fixture's file follows the pointer when it moves, or still holds what it held.
Blur(n) == blurs' = blurs + n /\ blurs' <= Blurs
Fresh == sight' = IF pointer' = pointer THEN sight ELSE pointer'
Stale == sight' = sight /\ pointer' # pointer
Follow(missed) == (Fresh /\ Blur(missed)) \/ (Stale /\ Blur(missed + 1))

\* Where the file comes to hold what it should have held before.
Report ==
  /\ blurs > 0 /\ sight # pointer /\ sight' = pointer
  /\ UNCHANGED <<at, placements, pointer, blurs, goal, left, gain, current, rest, swipe, real, clicked>>

LearnNothing(speed, from) == gain' = gain   \* mutant: the first gains are kept
\* move_cursor_to learns from a swipe that was sent and that is seen to have moved the pointer.
Learn(speed, from) ==
  LET moved == Length(Pair(LAMBDA i : sight'[i] - from[i]))
      asked == Length(swipe'.delta)
  IN gain' = IF asked > 0 /\ moved > 0 THEN [gain EXCEPT ![speed] = Learnt(moved, asked)] ELSE gain

\* `after` is what the file holds after the swipe, in time or late, or the read fails.
After(speed, from, missed) ==
  \/ Fresh /\ Learn(speed, from) /\ Blur(missed)
  \/ Stale /\ Learn(speed, from) /\ Blur(missed + 1)
  \/ Fresh /\ UNCHANGED gain /\ Blur(missed + 1)

(* ---------------------------- move_cursor_to ---------------------------- *)

Delta == Pair(LAMBDA i : goal[i] - sight[i])
There == sight # None /\ Length(Delta) <= Tolerance
Speed == IF Length(Delta) > FastAbove THEN "fast" ELSE "slow"
Wanted == Scaled(Delta, <<gain[Speed][2], gain[Speed][1]>>)

\* The minimal swipe pointing away from where the move is headed.
Away(w) == Pair(LAMBDA i : IF w[i] = 0 THEN 0 ELSE IF w[i] > 0 THEN -SlowMin ELSE SlowMin)
Fine == Speed = "slow" /\ Length(Wanted) \in 1 .. SlowMin - 1

Place ==
  /\ pc = "up" /\ at = "idle" /\ placements < Placements
  /\ at' = "move" /\ left' = Tries /\ goal' \in Goals /\ placements' = placements + 1
  /\ UNCHANGED <<pointer, sight, blurs, gain, current, rest, swipe, real, clicked>>

\* Not there after the last attempt, or not seen there: click, scroll and drag raise.
GiveUp ==
  /\ at = "move" /\ left = 0 /\ at' = "failed"
  /\ Blur(IF There THEN 1 ELSE 0)
  /\ UNCHANGED <<placements, pointer, sight, goal, left, gain, current, rest, swipe, real, clicked>>

Arrive ==
  /\ at = "move" /\ There /\ at' = "placed"
  /\ UNCHANGED <<placements, pointer, sight, blurs, goal, left, gain, current, rest, swipe, real, clicked>>

\* No report: a short swipe provokes one, also when it is the read that failed.
Provoke ==
  /\ at = "move" /\ left > 0 /\ left' = left - 1
  /\ Swipe(<<SlowMin, SlowMin>>, "slow")
  /\ Follow(IF sight = None THEN 0 ELSE 1)
  /\ UNCHANGED <<at, placements, goal, gain, current, rest, real, clicked>>

\* _step_toward: one swipe for what is wanted ...
StepToward ==
  /\ at = "move" /\ left > 0 /\ sight # None /\ ~There /\ ~Fine
  /\ Swipe(Wanted, Speed) /\ After(Speed, sight, 0) /\ left' = left - 1
  /\ UNCHANGED <<at, placements, goal, current, rest, real, clicked>>

\* ... or, for a move finer than one swipe can make, a swipe away ...
StepAway ==
  /\ at = "move" /\ left > 0 /\ sight # None /\ ~There /\ Fine
  /\ Swipe(Away(Wanted), "slow") /\ Follow(0)
  /\ rest' = Pair(LAMBDA i : Wanted[i] - Away(Wanted)[i]) /\ current' = sight /\ at' = "back"
  /\ UNCHANGED <<placements, goal, left, gain, real, clicked>>

\* ... and one back by as much plus what was wanted, from where the pointer is read, or from
\* where it was when that read fails.
StepBack ==
  /\ at = "back" /\ Swipe(rest, "slow")
  /\ After("slow", sight, 0) \/ After("slow", current, 1)
  /\ at' = "move" /\ left' = left - 1 /\ rest' = None /\ current' = None
  /\ UNCHANGED <<placements, goal, real, clicked>>

\* click and scroll act where the pointer is: a tap, or two fingers, on the desktop.
Click ==
  /\ at = "placed" /\ at' = "idle"
  /\ clicked' = IF view = "desktop" THEN pointer ELSE clicked
  /\ UNCHANGED <<placements, pointer, sight, blurs, goal, left, gain, current, rest, swipe, real>>

\* drag sends press, hold, move and release as one gesture, scaled by the fast gain.
Drag ==
  /\ at = "placed" /\ at' = "idle"
  /\ \E d \in Drags : d.from = goal /\
       swipe' = [speed |-> "drag",
                 delta |-> Scaled(Pair(LAMBDA i : d.to[i] - goal[i]), <<gain.fast[2], gain.fast[1]>>)]
  /\ UNCHANGED <<placements, pointer, sight, blurs, goal, left, gain, current, rest, real, clicked>>

\* A session that has just been connected, with the toolbar still showing.
Session ==
  /\ view = "desktop" /\ todo \in {<<>>, <<"coach">>} /\ reached = TRUE /\ late = 0
  /\ keyboard = FALSE /\ service = FALSE /\ user = "right" /\ pass = "right"
  /\ bar = TRUE /\ ticked = FALSE /\ faults = 0 /\ stray = 0
  /\ pc = "up" /\ seen = Dump /\ quiet = 1 /\ entered = TRUE /\ attempt = 1
  /\ backs = 0 /\ tapped = FALSE /\ dumps = 0 /\ outcome = "connected" /\ sized = FALSE

Untouched ==
  /\ placements = 0 /\ goal = None /\ left = 0 /\ gain = FirstGain /\ blurs = 0
  /\ current = None /\ rest = None /\ swipe = None /\ clicked = None

\* No report yet: no event reached the fixture.  In the far corner the swipe that is to
\* provoke one cannot move the pointer.
Unseen == sight = None /\ pointer # <<Screen[1] - 1, Screen[2] - 1>>

PtrNext == Place \/ GiveUp \/ Arrive \/ Provoke \/ StepToward \/ StepAway \/ StepBack \/ Click \/ Drag \/ Report

\* Either the app is connected and left without any input ("off"), or a session that is
\* up is used for input only.  While a pointer is being placed only the app moves too.
LabInit ==
  /\ Untouched
  /\ \/ Init /\ at = "off" /\ pointer = None /\ sight = None /\ real = None
     \/ Session /\ at = "idle" /\ pointer \in Starts /\ (sight = pointer \/ Unseen) /\ real \in AppGains

LabNext ==
  \/ at = "off" /\ Next /\ UNCHANGED ptrVars
  \/ at # "off" /\ PtrNext /\ UNCHANGED vars
  \/ at # "off" /\ App /\ UNCHANGED ptrVars

lab == <<vars, ptrVars>>
LabSpec == LabInit /\ [][LabNext]_lab

\* The program runs on, and the deadline, which connect only looks at between two dumps,
\* comes at last.
LabFairness ==
  /\ WF_lab(at = "off" /\ Program /\ UNCHANGED ptrVars)
  /\ SF_lab(at = "off" /\ Expire /\ UNCHANGED ptrVars)

LabFairSpec == LabSpec /\ LabFairness

(* ------------------------------ properties ------------------------------ *)

\* Every swipe stays clear of the system's gestures and of the app's toolbar from its
\* first point to its last.
SwipeInZone ==
  swipe # None /\ swipe.speed # "drag" =>
    InZone(Pair(LAMBDA i : StartFor(swipe.delta)[i] + swipe.delta[i]))

\* A placement only fails under something else than the desktop, or in a session in which a
\* report came late or could not be read.  Otherwise it succeeds within its attempts,
\* wherever the pointer starts, whatever an earlier placement learnt, and whatever gains
\* the app has among those of DeviceAssumption, which are narrower than the clamp.
PlacementConverges == at = "failed" => view # "desktop" \/ blurs > 0
=================================================================================
