-------------------------- MODULE AndroidPointerProofs --------------------------
(***************************************************************************)
(* Proofs about AndroidPointer.  No swipe of a placement ever leaves the    *)
(* safe zone, for every screen, safe zone and gain the app may have.  And   *)
(* no placement fails while the desktop is in front and every report is     *)
(* read in time, with the program's own numbers and any app, start and      *)
(* target within DeviceAssumption: a fast swipe that the screen's edge      *)
(* stops teaches a larger gain, and at most two are stopped; one that is    *)
(* not teaches the app's gain; with it each swipe takes half the safe zone  *)
(* off the distance or comes within 41 pixels; then a slow move teaches the *)
(* slow gain, the next comes within seven pixels and one more within one.   *)
(***************************************************************************)
EXTENDS AndroidPointer, TLAPS

\* What the placement computes with are points and fractions wherever it computes.
PtrTyped ==
  /\ gain \in [Speeds -> Fraction] /\ blurs \in Nat
  /\ at # "off" => pointer \in Point /\ sight \in Point \cup {None} /\ real \in AppGains
  /\ at \in {"move", "back", "placed"} => goal \in Point
  /\ at = "back" => rest \in Point /\ current \in Point /\ sight \in Point

PtrInv == PtrTyped /\ SwipeInZone

(* ------------------------------ arithmetic ------------------------------ *)

LEMMA RoundTyped == ASSUME NEW n \in Int, NEW d \in Nat \ {0} PROVE Round(n, d) \in Int
BY DEF Round

\* A fraction between -m and m is rounded to a number between -m and m.
LEMMA RoundBound ==
  ASSUME NEW n \in Int, NEW d \in Nat \ {0}, NEW m \in Nat, -(m * d) <= n, n <= m * d
  PROVE  Round(n, d) \in -m .. m
<1> DEFINE q == n \div d
           r == n % d
<1>1. q \in Int /\ r \in Int /\ n = d * q + r /\ 0 <= r /\ r < d
  OBVIOUS
<1>2. Round(n, d) \in {q, q + 1} /\ (r = 0 => Round(n, d) = q)
  BY <1>1 DEF Round
<1> HIDE DEF q, r
<1>3. q >= -m
  <2> SUFFICES ASSUME q + 1 <= -m PROVE FALSE
    BY <1>1
  <2>1. d * (q + 1) <= d * (-m)
    BY <1>1
  <2>2. d * (q + 1) = d * q + d /\ d * (-m) = -(m * d)
    BY <1>1
  <2>. QED BY <1>1, <2>1, <2>2
<1>4. q <= m /\ (q = m => r = 0)
  <2>1. q = m => r = 0
    BY <1>1
  <2>2. q <= m
    <3> SUFFICES ASSUME q >= m + 1 PROVE FALSE
      BY <1>1
    <3>1. d * q >= d * (m + 1)
      BY <1>1
    <3>2. d * (m + 1) = m * d + d
      OBVIOUS
    <3>. QED BY <1>1, <3>1, <3>2
  <2>. QED BY <2>1, <2>2
<1>. QED BY <1>1, <1>2, <1>3, <1>4

LEMMA PointNotNone == ASSUME NEW p \in Point PROVE p # None
<1>1. PICK a \in Int, b \in Int : p = <<a, b>>
  BY DEF Point
<1>2. Len(p) = 2
  BY <1>1
<1>3. Len(None) = 0
  BY DEF None
<1>. QED BY <1>2, <1>3

LEMMA ScaledTyped == ASSUME NEW p \in Point, NEW g \in Fraction PROVE Scaled(p, g) \in Point
<1>1. p[1] \in Int /\ p[2] \in Int /\ g[1] \in Nat \ {0} /\ g[2] \in Nat \ {0}
  BY DEF Point, Fraction
<1>2. p[1] * g[1] \in Int /\ p[2] * g[1] \in Int
  BY <1>1
<1>3. Round(p[1] * g[1], g[2]) \in Int /\ Round(p[2] * g[1], g[2]) \in Int
  BY <1>1, <1>2, RoundTyped
<1>. QED BY <1>3 DEF Scaled, Pair, Point

\* What is sent of any swipe, clamped and stretched, fits the safe zone.
LEMMA CommandedFits ==
  ASSUME NEW p \in Point, NEW speed \in Speeds
  PROVE  /\ Commanded(p, speed) \in Point
         /\ \A i \in 1 .. 2 : /\ SafeLow[i] - SafeHigh[i] <= Commanded(p, speed)[i]
                              /\ Commanded(p, speed)[i] <= SafeHigh[i] - SafeLow[i]
<1> DEFINE c == Pair(LAMBDA i : Clamp(SafeLow[i] - SafeHigh[i], SafeHigh[i] - SafeLow[i], p[i]))
           n == Length(c)
<1>1. /\ p[1] \in Int /\ p[2] \in Int /\ SlowMin \in Nat \ {0}
      /\ \A i \in 1 .. 2 : SafeLow[i] \in Nat /\ SafeHigh[i] \in Nat /\ SafeHigh[i] - SafeLow[i] >= SlowMin
  BY ZoneAssumption DEF Point
<1>2. /\ c \in Point
      /\ \A i \in 1 .. 2 : SafeLow[i] - SafeHigh[i] <= c[i] /\ c[i] <= SafeHigh[i] - SafeLow[i]
  BY <1>1 DEF Pair, Clamp, Point
<1>3. Commanded(p, speed) = IF n > 0 /\ speed = "slow" /\ n < SlowMin
                            THEN Pair(LAMBDA i : Round(c[i] * SlowMin, n)) ELSE c
  BY DEF Commanded
<1> HIDE DEF c
<1>4. n \in Nat /\ \A i \in 1 .. 2 : c[i] \in Int /\ -n <= c[i] /\ c[i] <= n
  BY <1>2 DEF Length, Abs, Point
<1> HIDE DEF n
<1>5. CASE n > 0 /\ n < SlowMin
  <2>1. ASSUME NEW i \in 1 .. 2 PROVE Round(c[i] * SlowMin, n) \in -SlowMin .. SlowMin
    <3>1. c[i] * SlowMin <= n * SlowMin /\ (-n) * SlowMin <= c[i] * SlowMin
      BY <1>1, <1>4
    <3>2. n * SlowMin = SlowMin * n /\ (-n) * SlowMin = -(SlowMin * n) /\ c[i] * SlowMin \in Int
      BY <1>1, <1>4
    <3>3. -(SlowMin * n) <= c[i] * SlowMin /\ c[i] * SlowMin <= SlowMin * n
      <4> DEFINE x == c[i] * SlowMin
                 y == n * SlowMin
                 z == SlowMin * n
                 w == (-n) * SlowMin
      <4>1. x <= y /\ w <= x /\ y = z /\ w = -z
        BY <3>1, <3>2
      <4> HIDE DEF x, y, z, w
      <4>2. -z <= x /\ x <= z
        BY <4>1
      <4>. QED BY <4>2 DEF x, z
    <3>4. n \in Nat \ {0} /\ SlowMin \in Nat
      BY <1>1, <1>4, <1>5
    <3>. QED BY <3>2, <3>3, <3>4, RoundBound
  <2>2. /\ Round(c[1] * SlowMin, n) \in -SlowMin .. SlowMin
        /\ Round(c[2] * SlowMin, n) \in -SlowMin .. SlowMin
    BY <2>1
  <2>. QED BY <1>1, <1>2, <1>3, <2>2 DEF Pair, Point
<1>. QED BY <1>2, <1>3, <1>5

\* A swipe that fits, from the corner of its direction, stays in the zone.
LEMMA SwipeFits ==
  ASSUME NEW p \in Point, NEW speed \in Speeds, Swipe(p, speed)
  PROVE  /\ SwipeInZone'
         /\ swipe'.speed = speed /\ swipe'.delta \in Point
         /\ pointer \in Point /\ real \in AppGains => pointer' \in Point
<1> DEFINE c == Commanded(p, speed)
<1>1. /\ c \in Point
      /\ \A i \in 1 .. 2 : SafeLow[i] - SafeHigh[i] <= c[i] /\ c[i] <= SafeHigh[i] - SafeLow[i]
  BY CommandedFits
<1>2. swipe' = [speed |-> speed, delta |-> c]
  BY DEF Swipe
<1> HIDE DEF c
<1>3. \A i \in 1 .. 2 : StartFor(c)[i] + c[i] \in SafeLow[i] .. SafeHigh[i]
  BY <1>1, ZoneAssumption DEF StartFor, Pair, Point
<1>4. SwipeInZone'
  BY <1>2, <1>3 DEF SwipeInZone, InZone, Pair
<1>5. ASSUME pointer \in Point, real \in AppGains PROVE pointer' \in Point
  <2>1. real[speed] \in Fraction
    BY <1>5, ZoneAssumption
  <2>2. Scaled(c, real[speed]) \in Point
    BY <1>1, <2>1, ScaledTyped
  <2>3. \/ pointer' = pointer
        \/ pointer' = Pair(LAMBDA i :
             Clamp(0, Screen[i] - 1, pointer[i] + Scaled(c, real[speed])[i]))
    BY DEF Swipe, c
  <2>4. Screen \in Point
    BY ZoneAssumption
  <2>. QED BY <1>5, <2>2, <2>3, <2>4 DEF Pair, Clamp, Point
<1>. QED BY <1>1, <1>2, <1>4, <1>5

\* What the file holds after a swipe is a point, or still nothing.
LEMMA SightTyped ==
  ASSUME Fresh \/ Stale, pointer' \in Point, sight \in Point \cup {None}
  PROVE  sight' \in Point \cup {None} /\ (sight \in Point => sight' \in Point)
BY DEF Fresh, Stale

\* A learnt gain is a fraction.
LEMMA LearnTyped ==
  ASSUME NEW speed \in Speeds, NEW from \in Point, NEW missed, After(speed, from, missed),
         gain \in [Speeds -> Fraction], sight' \in Point, swipe'.delta \in Point
  PROVE  gain' \in [Speeds -> Fraction]
<1> DEFINE moved == Length(Pair(LAMBDA i : sight'[i] - from[i]))
           asked == Length(swipe'.delta)
<1>1. moved \in Nat /\ asked \in Nat
  BY DEF Length, Abs, Pair, Point
<1>2. \/ gain' = IF asked > 0 /\ moved > 0 THEN [gain EXCEPT ![speed] = Learnt(moved, asked)] ELSE gain
      \/ gain' = gain
  BY DEF After, Learn
<1> HIDE DEF moved, asked
<1>3. asked > 0 /\ moved > 0 => Learnt(moved, asked) \in Fraction
  <2>1. {GainLow, GainHigh} \subseteq Fraction
    BY ZoneAssumption
  <2>2. asked > 0 /\ moved > 0 => <<moved, asked>> \in Fraction
    BY <1>1 DEF Fraction
  <2>. QED BY <2>1, <2>2 DEF Learnt
<1>. QED BY <1>2, <1>3

\* What a placement wants to swipe, and the two swipes of a fine move, are points.
LEMMA WantedTyped ==
  ASSUME goal \in Point, sight \in Point, gain \in [Speeds -> Fraction]
  PROVE  /\ Speed \in Speeds /\ Wanted \in Point /\ Away(Wanted) \in Point
         /\ Pair(LAMBDA i : Wanted[i] - Away(Wanted)[i]) \in Point
<1>1. Delta \in Point
  BY DEF Delta, Pair, Point
<1>2. Speed \in Speeds
  BY DEF Speed, Speeds
<1>3. <<gain[Speed][2], gain[Speed][1]>> \in Fraction
  BY <1>2 DEF Fraction
<1>4. Wanted \in Point
  BY <1>1, <1>3, ScaledTyped DEF Wanted
<1>5. Away(Wanted) \in Point
  BY <1>4, ZoneAssumption DEF Away, Pair, Point
<1>6. Pair(LAMBDA i : Wanted[i] - Away(Wanted)[i]) \in Point
  BY <1>4, <1>5 DEF Pair, Point
<1>. QED BY <1>2, <1>4, <1>5, <1>6

(* ---------------------------- the invariant ----------------------------- *)

LEMMA LabInitEstablishes == LabInit => PtrInv
<1> SUFFICES ASSUME LabInit PROVE PtrInv
  OBVIOUS
<1>1. gain \in [Speeds -> Fraction] /\ blurs \in Nat
  BY ZoneAssumption DEF LabInit, Untouched
<1>2. at # "off" => pointer \in Point /\ sight \in Point \cup {None} /\ real \in AppGains
  BY ZoneAssumption DEF LabInit, Unseen
<1>3. at \in {"off", "idle"} /\ swipe = None
  BY DEF LabInit, Untouched
<1>. QED BY <1>1, <1>2, <1>3 DEF PtrInv, PtrTyped, SwipeInZone

\* Late reports and failed reads are counted.
LEMMA BlursTyped ==
  ASSUME blurs \in Nat, PtrNext \/ UNCHANGED blurs PROVE blurs' \in Nat /\ blurs' >= blurs
<1>1. ASSUME NEW n \in 0 .. 2, Blur(n) PROVE blurs' \in Nat /\ blurs' >= blurs
  BY <1>1 DEF Blur
<1>2. ASSUME NEW m \in 0 .. 1, Follow(m) PROVE blurs' \in Nat /\ blurs' >= blurs
  BY <1>1, <1>2 DEF Follow
<1>3. ASSUME NEW m \in 0 .. 1, NEW speed, NEW from, After(speed, from, m)
      PROVE  blurs' \in Nat /\ blurs' >= blurs
  BY <1>1, <1>3 DEF After
<1>4. CASE GiveUp
  BY <1>1, <1>4 DEF GiveUp
<1>5. CASE Provoke \/ StepAway
  <2>1. \E m \in 0 .. 1 : Follow(m)
    <3>1. CASE Provoke
      <4>1. Follow(IF sight = None THEN 0 ELSE 1)
        BY <3>1 DEF Provoke
      <4>2. CASE sight = None
        BY <4>1, <4>2
      <4>3. CASE sight # None
        BY <4>1, <4>3
      <4>. QED BY <4>2, <4>3
    <3>2. CASE StepAway
      <4>1. Follow(0)
        BY <3>2 DEF StepAway
      <4>2. 0 \in 0 .. 1
        OBVIOUS
      <4>. QED BY <4>1, <4>2
    <3>. QED BY <1>5, <3>1, <3>2
  <2>. QED BY <1>2, <2>1
<1>6. CASE StepToward \/ StepBack
  BY <1>3, <1>6 DEF StepToward, StepBack
<1>7. CASE UNCHANGED blurs
  BY <1>7
<1>8. Place \/ Arrive \/ Click \/ Drag \/ Report => UNCHANGED blurs
  BY DEF Place, Arrive, Click, Drag, Report
<1>. QED BY <1>4, <1>5, <1>6, <1>7, <1>8 DEF PtrNext

\* The steps of a placement that swipe.
LEMMA SwipeStep ==
  ASSUME PtrInv, Provoke \/ StepToward \/ StepAway \/ StepBack PROVE PtrInv'
<1>1. /\ gain \in [Speeds -> Fraction] /\ pointer \in Point /\ real \in AppGains /\ goal \in Point
      /\ sight \in Point \cup {None}
      /\ UNCHANGED <<goal, real>>
      /\ "slow" \in Speeds
  BY DEF PtrInv, PtrTyped, Provoke, StepToward, StepAway, StepBack, Speeds
<1>0. blurs' \in Nat
  BY BlursTyped DEF PtrInv, PtrTyped, PtrNext
<1>2. CASE Provoke
  <2>1. <<SlowMin, SlowMin>> \in Point
    BY ZoneAssumption DEF Point
  <2>2. SwipeInZone' /\ pointer' \in Point
    BY <1>1, <1>2, <2>1, SwipeFits DEF Provoke
  <2>3. sight' \in Point \cup {None}
    BY <1>1, <1>2, <2>2, SightTyped DEF Provoke, Follow
  <2>4. at' = "move" /\ UNCHANGED <<gain, goal, real>>
    BY <1>2 DEF Provoke
  <2>. QED BY <1>0, <1>1, <2>2, <2>3, <2>4 DEF PtrInv, PtrTyped
<1>3. CASE StepToward
  <2>0. sight \in Point /\ at' = "move"
    BY <1>1, <1>3 DEF StepToward
  <2>1. Speed \in Speeds /\ Wanted \in Point
    BY <1>1, <2>0, WantedTyped
  <2>2. SwipeInZone' /\ pointer' \in Point /\ swipe'.delta \in Point
    BY <1>1, <1>3, <2>1, SwipeFits DEF StepToward
  <2>4. After(Speed, sight, 0)
    BY <1>3 DEF StepToward
  <2>5. sight' \in Point
    BY <2>0, <2>2, <2>4, SightTyped DEF After
  <2>3. gain' \in [Speeds -> Fraction]
    BY <1>1, <2>0, <2>1, <2>2, <2>4, <2>5, LearnTyped
  <2>. QED BY <1>0, <1>1, <2>0, <2>2, <2>3, <2>5 DEF PtrInv, PtrTyped
<1>4. CASE StepAway
  <2>0. sight \in Point
    BY <1>1, <1>4 DEF StepAway
  <2>1. Away(Wanted) \in Point /\ Pair(LAMBDA i : Wanted[i] - Away(Wanted)[i]) \in Point
    BY <1>1, <2>0, WantedTyped
  <2>2. SwipeInZone' /\ pointer' \in Point
    BY <1>1, <1>4, <2>1, SwipeFits DEF StepAway
  <2>3. rest' \in Point /\ UNCHANGED gain /\ current' = sight
    BY <1>4, <2>1 DEF StepAway
  <2>4. sight' \in Point
    BY <1>4, <2>0, <2>2, SightTyped DEF StepAway, Follow
  <2>. QED BY <1>0, <1>1, <2>0, <2>2, <2>3, <2>4 DEF PtrInv, PtrTyped
<1>5. CASE StepBack
  <2>1. rest \in Point /\ current \in Point /\ sight \in Point /\ at' = "move"
    BY <1>5 DEF StepBack, PtrInv, PtrTyped
  <2>2. SwipeInZone' /\ pointer' \in Point /\ swipe'.delta \in Point
    BY <1>1, <1>5, <2>1, SwipeFits DEF StepBack
  <2>4. After("slow", sight, 0) \/ After("slow", current, 1)
    BY <1>5 DEF StepBack
  <2>5. sight' \in Point
    BY <2>1, <2>2, <2>4, SightTyped DEF After
  <2>3. gain' \in [Speeds -> Fraction]
    BY <1>1, <2>1, <2>2, <2>4, <2>5, LearnTyped
  <2>. QED BY <1>0, <1>1, <2>1, <2>2, <2>3, <2>5 DEF PtrInv, PtrTyped
<1>. QED BY <1>2, <1>3, <1>4, <1>5

LEMMA LabNextPreserves == PtrInv /\ [LabNext]_lab => PtrInv'
<1> SUFFICES ASSUME PtrInv, [LabNext]_lab PROVE PtrInv'
  OBVIOUS
<1>6. swipe' = swipe => SwipeInZone'
  BY DEF PtrInv, SwipeInZone, InZone, Pair, StartFor
<1>1. CASE UNCHANGED ptrVars
  BY <1>1, <1>6 DEF ptrVars, PtrInv, PtrTyped
<1>2. CASE Place
  <2>1. Goals \subseteq Point
    BY ZoneAssumption
  <2>. QED BY <1>2, <1>6, <2>1 DEF Place, PtrInv, PtrTyped
<1>7. PtrNext => blurs' \in Nat
  BY BlursTyped DEF PtrInv, PtrTyped
<1>3. CASE GiveUp \/ Arrive \/ Click
  BY <1>3, <1>6, <1>7 DEF PtrNext, GiveUp, Arrive, Click, PtrInv, PtrTyped
<1>8. CASE Report
  BY <1>8, <1>6 DEF Report, PtrInv, PtrTyped
<1>4. CASE Drag
  <2>1. SwipeInZone'
    <3>1. swipe'.speed = "drag"
      BY <1>4 DEF Drag, Pair
    <3>. QED BY <3>1 DEF SwipeInZone
  <2>. QED BY <1>4, <2>1 DEF Drag, PtrInv, PtrTyped
<1>5. CASE Provoke \/ StepToward \/ StepAway \/ StepBack
  BY <1>5, SwipeStep
<1>. QED BY <1>1, <1>2, <1>3, <1>4, <1>5, <1>8 DEF LabNext, PtrNext, lab

\* Every swipe of a placement (android_viewer.py: _swipe, _start_for), whatever gain was learnt
\* and whatever the app does with it, stays clear of the system's gestures and the toolbar.
THEOREM SwipesStayInZone == LabSpec => []SwipeInZone
<1>1. PtrInv => SwipeInZone
  BY DEF PtrInv
<1>. QED BY <1>1, LabInitEstablishes, LabNextPreserves, PTL DEF LabSpec

(* ------------------------ why a placement converges ---------------------- *)

\* k is the fraction n / d, rounded to one of its nearest integers.
Near(k, n, d) == -d <= 2 * (k * d) - 2 * n /\ 2 * (k * d) - 2 * n <= d

\* How well the fast gain is known: not at all, after one or two swipes that ended at the
\* screen's edge, and from a swipe that did not.  Each of the first three costs an attempt.
FastKnown(f, g, r) ==
  /\ g[1] <= 3 * g[2]
  /\ f = 3 => g = <<6, 5>>
  /\ f = 2 => 25 * g[1] >= 39 * g[2]
  /\ f = 1 => 50 * g[1] >= 101 * g[2]
  /\ f = 0 => g[1] >= 19 /\ Near(g[1], g[2] * r[1], r[2])
SlowKnown(g, r) == g[1] >= 10 /\ Near(g[1], g[2] * r[1], r[2])

From(p) == Pair(LAMBDA i : goal[i] - p[i])
\* A known gain comes within FAST_ABOVE_PX in k swipes: the safe zone limits each.
Within(k, p) == Abs(From(p)[1]) <= 120 + 800 * k /\ Abs(From(p)[2]) <= 120 + 335 * k

\* The attempts left are enough for a pointer at p.
Enough(p) ==
  \/ \E f \in 0 .. 3, k \in 0 .. 3 :
       FastKnown(f, gain.fast, real.fast) /\ Within(k, p) /\ (f = 0 \/ k = 3) /\ left >= f + k + 3
  \/ Length(From(p)) <= 120 /\ (left >= 3 \/ (SlowKnown(gain.slow, real.slow) /\ left >= 2))
  \/ Length(From(p)) <= 7 /\ SlowKnown(gain.slow, real.slow) /\ left >= 1
  \/ Length(From(p)) <= 6

OnScreen(p) == p \in (0 .. 1919) \X (0 .. 1079)

\* Between the two swipes of a fine move: where it began, and what it wants.
Origin == Pair(LAMBDA i : pointer[i] - Scaled(Away(rest), real.slow)[i])
Turned == Pair(LAMBDA i : rest[i] + Away(rest)[i])
Halfway ==
  /\ OnScreen(Origin) /\ Enough(Origin) /\ Length(From(Origin)) \in 7 .. 120
  /\ Turned = Scaled(From(Origin), <<gain.slow[2], gain.slow[1]>>) /\ Length(Turned) \in 1 .. 39
  /\ Length(rest) >= 40

Converging ==
  /\ at # "failed" /\ OnScreen(pointer)
  /\ \E f \in 0 .. 3 : FastKnown(f, gain.fast, real.fast)
  /\ gain.slow = <<3, 5>> \/ SlowKnown(gain.slow, real.slow)
  /\ at \in {"move", "back"} => goal \in Goals /\ left \in Nat
  /\ sight = pointer \/ Unseen
  /\ at = "move" => IF sight = pointer THEN Enough(pointer) ELSE left >= 10
  /\ at = "back" => sight = pointer /\ Halfway
InFront == at # "off" => reached /\ (view = "desktop" /\ blurs = 0 => Converging)

\* What a swipe teaches when the file shows where it took the pointer.
Gained(speed) ==
  LET moved == Length(Pair(LAMBDA i : pointer'[i] - pointer[i]))
      asked == Length(swipe'.delta)
  IN gain' = IF asked > 0 /\ moved > 0 THEN [gain EXCEPT ![speed] = Learnt(moved, asked)] ELSE gain
Shows(speed) == sight' = pointer' /\ Gained(speed)
Clear == blurs = 0 /\ blurs' = 0

\* While no report is late and no read fails, the file shows every swipe.
LEMMA ClearFollow ==
  ASSUME Clear, NEW m \in 0 .. 1, Follow(m)
  PROVE  m = 0 /\ Fresh
<1>1. \A n \in 1 .. 2 : ~Blur(n)
  BY DEF Blur, Clear
<1>2. ~(m + 1 \in 1 .. 2 /\ Blur(m + 1)) /\ (m = 1 => ~Blur(m))
  BY <1>1
<1>. QED BY <1>2 DEF Follow

LEMMA ClearAfter ==
  ASSUME Clear, NEW speed, NEW from, NEW m \in 0 .. 1, After(speed, from, m)
  PROVE  m = 0 /\ (from = pointer /\ sight = pointer => Shows(speed))
<1>1. \A n \in 1 .. 2 : ~Blur(n)
  BY DEF Blur, Clear
<1>2. ~(m + 1 \in 1 .. 2 /\ Blur(m + 1)) /\ (m = 1 => ~Blur(m))
  BY <1>1
<1>3. m = 0 /\ Fresh /\ Learn(speed, from)
  BY <1>2 DEF After
<1>4. ASSUME from = pointer, sight = pointer PROVE Shows(speed)
  <2>1. sight' = pointer'
    BY <1>3, <1>4 DEF Fresh
  <2>2. Pair(LAMBDA i : sight'[i] - from[i]) = Pair(LAMBDA i : pointer'[i] - pointer[i])
    BY <1>4, <2>1 DEF Pair
  <2>3. Gained(speed)
    BY <1>3, <2>2 DEF Learn, Gained
  <2>. QED BY <2>1, <2>3 DEF Shows
<1>. QED BY <1>3, <1>4

(* -------------------------- rounded fractions ---------------------------- *)

LEMMA Cancel ==
  ASSUME NEW k \in Int, NEW l \in Int, NEW m \in Nat \ {0}, k * m <= l * m PROVE k <= l
<1> SUFFICES ASSUME k >= l + 1 PROVE FALSE
  OBVIOUS
<1>1. k * m >= (l + 1) * m
  OBVIOUS
<1>2. (l + 1) * m = l * m + m
  OBVIOUS
<1>. QED BY <1>1, <1>2

LEMMA Widen ==
  ASSUME NEW k \in Int, NEW l \in Int, NEW m \in Nat, k <= l PROVE k * m <= l * m
OBVIOUS

\* Round gives a nearest integer.
LEMMA RoundNear == ASSUME NEW n \in Int, NEW d \in Nat \ {0} PROVE Round(n, d) \in Int /\ Near(Round(n, d), n, d)
<1> DEFINE q == n \div d
           r == n % d
<1>1. q \in Int /\ r \in Int /\ n = d * q + r /\ 0 <= r /\ r < d
  OBVIOUS
<1>2. \/ Round(n, d) = q /\ 2 * r <= d
      \/ Round(n, d) = q + 1 /\ 2 * r >= d
  BY <1>1 DEF Round
<1> HIDE DEF q, r
<1>3. q * d = n - r /\ (q + 1) * d = n - r + d
  BY <1>1
<1>. QED BY <1>1, <1>2, <1>3 DEF Near

LEMMA NearMinus ==
  ASSUME NEW k \in Int, NEW n \in Int, NEW d \in Nat \ {0}, Near(k, n, d) PROVE Near(-k, -n, d)
<1>1. (-k) * d = -(k * d)
  OBVIOUS
<1>. QED BY <1>1 DEF Near

\* A rounded fraction has the fraction's sign, and hardly more than its size.
LEMMA NearSign ==
  ASSUME NEW k \in Int, NEW n \in Int, NEW d \in Nat \ {0}, Near(k, n, d)
  PROVE  (n >= 0 => k >= 0) /\ (n <= 0 => k <= 0)
<1>1. k * d \in Int
  OBVIOUS
<1>2. ASSUME n >= 0 PROVE k >= 0
  <2> SUFFICES ASSUME k <= -1 PROVE FALSE
    OBVIOUS
  <2>1. k * d <= (-1) * d
    BY Widen
  <2>. QED BY <1>1, <1>2, <2>1 DEF Near
<1>3. ASSUME n <= 0 PROVE k <= 0
  <2> SUFFICES ASSUME 1 <= k PROVE FALSE
    OBVIOUS
  <2>1. 1 * d <= k * d
    BY Widen
  <2>. QED BY <1>1, <1>3, <2>1 DEF Near
<1>. QED BY <1>2, <1>3

\* The same for the product of a size and a gain, without the signs.
LEMMA NearAbs ==
  ASSUME NEW k \in Int, NEW x \in Int, NEW a \in Nat, NEW d \in Nat \ {0}, Near(k, x * a, d)
  PROVE  /\ Abs(k) \in Nat /\ Abs(x) \in Nat
         /\ Near(Abs(k), Abs(x) * a, d)
<1>1. x * a \in Int /\ (-x) * a = -(x * a)
  OBVIOUS
<1>2. (x >= 0 => x * a >= 0) /\ (x <= 0 => x * a <= 0)
  OBVIOUS
<1>3. (x >= 0 => k >= 0) /\ (x <= 0 => k <= 0)
  BY <1>1, <1>2, NearSign
<1>4. CASE x >= 0
  BY <1>3, <1>4 DEF Abs
<1>5. CASE x < 0
  <2>1. Near(-k, (-x) * a, d)
    BY <1>1, NearMinus
  <2>. QED BY <1>3, <1>5, <2>1 DEF Abs
<1>. QED BY <1>4, <1>5

\* What a swipe misses when the gain is known: x is wanted, x * a / m is asked for, and the
\* pointer moves by t, which differs from what the app makes of it by e / 2 pixels at most.
LEMMA KnownGain ==
  ASSUME NEW m \in Nat \ {0}, NEW a \in Nat \ {0}, NEW n \in Nat \ {0}, NEW d \in Nat \ {0},
         NEW x \in Int, NEW w \in Int, NEW t \in Int, NEW e \in Nat,
         Near(w, x * a, m), Near(m, a * n, d),
         -(e * d) <= 2 * (t * d) - 2 * (w * n), 2 * (t * d) - 2 * (w * n) <= e * d
  PROVE  /\ (2 * (t - x)) * (m * d) <= e * (m * d) + m * n + Abs(x) * d
         /\ -(e * (m * d) + m * n + Abs(x) * d) <= (2 * (t - x)) * (m * d)
<1> DEFINE T == t * (m * d)
           X == x * (m * d)
           K == (w * n) * m
           L == (x * a) * n
<1>0. T \in Int /\ X \in Int /\ K \in Int /\ L \in Int /\ m * d \in Int /\ m * n \in Int
      /\ e * (m * d) \in Int /\ Abs(x) \in Nat /\ Abs(x) * d \in Int
  BY DEF Abs
<1>1. -(e * (m * d)) <= 2 * T - 2 * K /\ 2 * T - 2 * K <= e * (m * d)
  <2> DEFINE y == 2 * (t * d) - 2 * (w * n)
  <2>1. y \in Int /\ e * d \in Int /\ -(e * d) <= y /\ y <= e * d
    OBVIOUS
  <2>2. y * m = 2 * T - 2 * K
    OBVIOUS
  <2>3. (e * d) * m = e * (m * d) /\ (-(e * d)) * m = -(e * (m * d))
    OBVIOUS
  <2> HIDE DEF y
  <2>4. (-(e * d)) * m <= y * m /\ y * m <= (e * d) * m
    BY <2>1, Widen
  <2> HIDE DEF T, K
  <2>. QED BY <2>2, <2>3, <2>4
<1>2. -(m * n) <= 2 * K - 2 * L /\ 2 * K - 2 * L <= m * n
  <2> DEFINE y == 2 * (w * m) - 2 * (x * a)
  <2>1. y \in Int /\ -m <= y /\ y <= m
    BY DEF Near
  <2>2. y * n = 2 * K - 2 * L
    OBVIOUS
  <2> HIDE DEF y
  <2>3. (-m) * n <= y * n /\ y * n <= m * n
    BY <2>1, Widen
  <2>4. (-m) * n = -(m * n)
    OBVIOUS
  <2> HIDE DEF K, L
  <2>. QED BY <2>2, <2>3, <2>4
<1>3. -(Abs(x) * d) <= 2 * X - 2 * L /\ 2 * X - 2 * L <= Abs(x) * d
  <2> DEFINE y == 2 * (m * d) - 2 * (a * n)
  <2>1. y \in Int /\ -d <= y /\ y <= d
    BY DEF Near
  <2>2. y * x = 2 * X - 2 * L
    OBVIOUS
  <2> HIDE DEF y, X, L
  <2>3. CASE x >= 0
    <3>1. (-d) * x <= y * x /\ y * x <= d * x /\ (-d) * x = -(x * d) /\ d * x = x * d
      BY <2>1, <2>3, Widen
    <3>. QED BY <2>2, <2>3, <3>1 DEF Abs
  <2>4. CASE x < 0
    <3>1. -x \in Nat
      BY <2>4
    <3>2. (-d) * (-x) <= y * (-x) /\ y * (-x) <= d * (-x)
      BY <2>1, <3>1, Widen
    <3>3. y * (-x) = -(y * x) /\ (-d) * (-x) = -((-x) * d) /\ d * (-x) = (-x) * d
      BY <2>1
    <3>. QED BY <2>1, <2>2, <2>4, <3>2, <3>3 DEF Abs
  <2>. QED BY <2>3, <2>4
<1>4. (2 * (t - x)) * (m * d) = 2 * T - 2 * X
  OBVIOUS
<1> HIDE DEF T, X, K, L
<1>. QED BY <1>0, <1>1, <1>2, <1>3, <1>4

\* A factor of the size of a product: k pixels are less than l when k * q is at most p, and
\* p less than (l + 1) * q.
LEMMA Within2 ==
  ASSUME NEW k \in Int, NEW l \in Int, NEW q \in Nat \ {0}, k * q < (l + 1) * q PROVE k <= l
<1> SUFFICES ASSUME l + 1 <= k PROVE FALSE
  OBVIOUS
<1>. QED BY Widen

\* A fast move with a known gain m / a, of an app whose gain is n / d: x is wanted, w is
\* asked for, c is sent, and the pointer moves by t.
FastMove(m, a, n, d, x, w, c, t) ==
  /\ m \in Nat \ {0} /\ a \in Nat \ {0} /\ n \in Nat \ {0} /\ d \in Nat \ {0}
  /\ x \in Int /\ -1460 <= x /\ x <= 1460 /\ w \in Int /\ c \in Int /\ t \in Int
  /\ Near(w, x * a, m) /\ Near(t, c * n, d)
  /\ Near(m, a * n, d) /\ m >= 19 /\ d <= 2 * n /\ 2 * n <= 5 * d

\* A fast swipe with a known gain misses by 40 pixels at most.
LEMMA FastMiss ==
  ASSUME NEW m, NEW a, NEW n, NEW d, NEW x, NEW w, NEW t, FastMove(m, a, n, d, x, w, w, t)
  PROVE  t - x <= 40 /\ x - t <= 40
<1>. m \in Nat \ {0} /\ a \in Nat \ {0} /\ n \in Nat \ {0} /\ d \in Nat \ {0}
     /\ x \in Int /\ -1460 <= x /\ x <= 1460 /\ w \in Int /\ t \in Int
     /\ Near(w, x * a, m) /\ Near(m, a * n, d) /\ Near(t, w * n, d) /\ m >= 19 /\ 2 * n <= 5 * d
  BY DEF FastMove
<1> DEFINE q == m * d
<1>0. x \in Int /\ 1 \in Nat /\ -(1 * d) <= 2 * (t * d) - 2 * (w * n) /\ 2 * (t * d) - 2 * (w * n) <= 1 * d
  BY DEF Near
<1>1. /\ (2 * (t - x)) * q <= 1 * q + m * n + Abs(x) * d
      /\ -(1 * q + m * n + Abs(x) * d) <= (2 * (t - x)) * q
  BY <1>0, KnownGain, ZenonT(60)
<1>8. Abs(x) \in 0 .. 1460
  BY DEF Abs
<1>2. q \in Nat \ {0} /\ m * n \in Int
  OBVIOUS
<1>9. Abs(x) * d \in Int
  BY DEF Abs
<1>3. 19 * d <= q
  BY Widen
<1>4. 2 * (m * n) <= 5 * q
  <2>1. (2 * n) * m <= (5 * d) * m
    BY Widen
  <2>2. (2 * n) * m = 2 * (m * n) /\ (5 * d) * m = 5 * q
    OBVIOUS
  <2>. QED BY <2>1, <2>2
<1>5. Abs(x) * d <= 1460 * d
  <2>1. Abs(x) \in Int /\ 1460 \in Int /\ d \in Nat /\ Abs(x) <= 1460
    BY <1>8
  <2>. QED BY <2>1, Widen, SMTT(30)
<1>6. /\ (t - x) * q \in Int /\ (2 * (t - x)) * q = 2 * ((t - x) * q) /\ (x - t) * q = -((t - x) * q)
      /\ (40 + 1) * q = 41 * q
  BY <1>2
<1> HIDE DEF q
<1>7. (t - x) * q < (40 + 1) * q /\ (x - t) * q < (40 + 1) * q
  BY <1>1, <1>2, <1>3, <1>4, <1>5, <1>6, <1>9
<1>. QED BY <1>2, <1>7, Within2

\* A slow one, or the two of a fine move, by 7, and by one when 7 were left.
LEMMA SlowMiss ==
  ASSUME NEW m \in Nat \ {0}, NEW a \in Nat \ {0}, NEW n \in Nat \ {0}, NEW d \in Nat \ {0},
         NEW x \in -120 .. 120, NEW w \in Int, NEW t \in Int,
         Near(w, x * a, m), Near(m, a * n, d), m >= 10, n <= d,
         -(2 * d) <= 2 * (t * d) - 2 * (w * n), 2 * (t * d) - 2 * (w * n) <= 2 * d
  PROVE  /\ t - x <= 7 /\ x - t <= 7
         /\ x \in -7 .. 7 => t - x <= 1 /\ x - t <= 1
<1> DEFINE q == m * d
<1>0. x \in Int /\ 2 \in Nat
  OBVIOUS
<1>1. /\ (2 * (t - x)) * q <= 2 * q + m * n + Abs(x) * d
      /\ -(2 * q + m * n + Abs(x) * d) <= (2 * (t - x)) * q
  BY <1>0, KnownGain, Zenon
<1>2. /\ q \in Nat \ {0} /\ Abs(x) \in 0 .. 120 /\ (x \in -7 .. 7 => Abs(x) <= 7)
      /\ m * n \in Int /\ Abs(x) * d \in Int
  BY DEF Abs
<1>3. 10 * d <= q
  BY Widen
<1>4. m * n <= q
  <2>1. n * m <= d * m
    BY Widen
  <2>. QED BY <2>1
<1>5. Abs(x) * d <= 120 * d /\ (Abs(x) <= 7 => Abs(x) * d <= 7 * d)
  BY <1>2, Widen
<1>6. /\ (t - x) * q \in Int /\ (2 * (t - x)) * q = 2 * ((t - x) * q) /\ (x - t) * q = -((t - x) * q)
      /\ (7 + 1) * q = 8 * q /\ (1 + 1) * q = 2 * q
  BY <1>2
<1> HIDE DEF q
<1>7. (t - x) * q < (7 + 1) * q /\ (x - t) * q < (7 + 1) * q
  BY <1>1, <1>2, <1>3, <1>4, <1>5, <1>6
<1>8. x \in -7 .. 7 => (t - x) * q < (1 + 1) * q /\ (x - t) * q < (1 + 1) * q
  BY <1>1, <1>2, <1>3, <1>4, <1>5, <1>6
<1>. QED BY <1>2, <1>7, <1>8, Within2

\* With the safe zone's limit z on the swipe: it comes as near as that, or moves by at
\* least z / 2, and in neither case beyond the target by more.
LEMMA FastTravelUp ==
  ASSUME NEW m, NEW a, NEW n, NEW d, NEW x, NEW w, NEW c, NEW t, NEW z \in {1600, 670},
         FastMove(m, a, n, d, x, w, c, t), x >= 0, c = Clamp(-z, z, w)
  PROVE  t <= x + 41 /\ (x - t <= 41 \/ 2 * t >= z)
<1>0. m \in Nat \ {0} /\ a \in Nat \ {0} /\ n \in Nat \ {0} /\ d \in Nat \ {0}
      /\ x \in Int /\ w \in Int /\ c \in Int /\ t \in Int
      /\ Near(w, x * a, m) /\ Near(t, c * n, d) /\ d <= 2 * n
  BY DEF FastMove
<1>1. x * a >= 0 /\ x * a \in Int
  BY <1>0
<1>2. w >= 0
  BY <1>0, <1>1, NearSign
<1>3. CASE c = w
  <2>0. FastMove(m, a, n, d, x, w, w, t)
    BY <1>3
  <2>1. t - x <= 40 /\ x - t <= 40
    BY <2>0, FastMiss
  <2>. QED BY <1>0, <2>1
<1>4. CASE c # w
  <2>1. c = z /\ z <= w
    BY <1>0, <1>2, <1>4 DEF Clamp
  <2>2. PICK u \in Int : Near(u, w * n, d)
    <3>1. w * n \in Int
      BY <1>0
    <3>. QED BY <1>0, <3>1, RoundNear
  <2>3. u - x <= 40
    <3>1. FastMove(m, a, n, d, x, w, w, u)
      BY <2>2 DEF FastMove
    <3>. QED BY <3>1, FastMiss
  <2>4. t <= u + 1
    <3>1. c * n <= w * n /\ c * n \in Int /\ w * n \in Int /\ t * d \in Int /\ u * d \in Int
      BY <1>0, <2>1, Widen
    <3>2. (u + 1) * d = u * d + d
      BY <1>0
    <3>3. t * d <= (u + 1) * d
      BY <1>0, <2>2, <3>1, <3>2 DEF Near
    <3>. QED BY <1>0, <3>3, Cancel
  <2>5. 2 * t >= z
    <3>1. z * d <= z * (2 * n) /\ z * (2 * n) = 2 * (c * n) /\ z * d \in Int /\ c * n \in Int /\ t * d \in Int
      BY <1>0, <2>1
    <3>2. (z - 1) * d = z * d - d /\ (2 * t) * d = 2 * (t * d)
      BY <1>0, <2>1
    <3>3. (z - 1) * d <= (2 * t) * d
      BY <1>0, <3>1, <3>2 DEF Near
    <3>4. z - 1 <= 2 * t
      BY <1>0, <3>3, Cancel
    <3>. QED BY <1>0, <3>4
  <2>. QED BY <1>0, <2>3, <2>4, <2>5
<1>. QED BY <1>3, <1>4

LEMMA FastTravel ==
  ASSUME NEW m, NEW a, NEW n, NEW d, NEW x, NEW w, NEW c, NEW t, NEW z \in {1600, 670},
         FastMove(m, a, n, d, x, w, c, t), c = Clamp(-z, z, w)
  PROVE  /\ t >= x - 41 \/ t >= 0
         /\ t <= x + 41 \/ t <= 0
         /\ Abs(x - t) <= 41 \/ 2 * Abs(x - t) <= 2 * Abs(x) - z
<1>0. m \in Nat \ {0} /\ a \in Nat \ {0} /\ n \in Nat \ {0} /\ d \in Nat \ {0}
      /\ x \in Int /\ w \in Int /\ c \in Int /\ t \in Int
      /\ Near(w, x * a, m) /\ Near(t, c * n, d)
  BY DEF FastMove
<1>1. CASE x >= 0
  <2>1. t <= x + 41 /\ (x - t <= 41 \/ 2 * t >= z)
    BY <1>1, FastTravelUp
  <2>. QED BY <1>0, <1>1, <2>1 DEF Abs
<1>2. CASE x < 0
  <2>1. x * a \in Int /\ c * n \in Int /\ (-x) * a = -(x * a) /\ (-c) * n = -(c * n)
    BY <1>0
  <2>2. Near(-w, (-x) * a, m) /\ Near(-t, (-c) * n, d)
    BY <1>0, <2>1, NearMinus
  <2>3. FastMove(m, a, n, d, -x, -w, -c, -t)
    BY <1>0, <2>2 DEF FastMove
  <2>4. -c = Clamp(-z, z, -w)
    BY <1>0 DEF Clamp
  <2>5. -x >= 0
    BY <1>0, <1>2
  <2>6. -t <= -x + 41 /\ (-x - (-t) <= 41 \/ 2 * (-t) >= z)
    BY <2>3, <2>4, <2>5, FastTravelUp
  <2>. QED BY <1>0, <1>2, <2>6 DEF Abs
<1>. QED BY <1>0, <1>1, <1>2

\* How far a first slow move misses, whatever the app's slow gain is: its target stays
\* within reach of the slow moves.
LEMMA FirstSlowMiss ==
  ASSUME NEW n \in Nat \ {0}, NEW d \in Nat \ {0}, NEW x \in -120 .. 120, NEW w \in Int, NEW t \in Int,
         Near(w, x * 5, 3), d <= 4 * n, n <= d,
         -(2 * d) <= 2 * (t * d) - 2 * (w * n), 2 * (t * d) - 2 * (w * n) <= 2 * d
  PROVE  x - t \in -120 .. 120
<1>1. t * d \in Int /\ w * n \in Int /\ w * d \in Int /\ (w + 1) * d = w * d + d /\ (w - 1) * d = w * d - d
  OBVIOUS
<1>2. CASE w >= 4
  <2>1. w * n <= w * d /\ 4 * n <= w * n
    BY <1>2
  <2>2. t * d <= (w + 1) * d /\ 0 * d <= t * d
    BY <1>1, <2>1
  <2>3. t <= w + 1 /\ 0 <= t
    BY <2>2, Cancel
  <2>. QED BY <1>2, <2>3 DEF Near
<1>3. CASE w <= -4
  <2>1. w * d <= w * n /\ w * n <= (-4) * n /\ (-4) * n = -(4 * n)
    BY <1>3
  <2>2. (w - 1) * d <= t * d /\ t * d <= 0 * d
    BY <1>1, <2>1
  <2>3. w - 1 <= t /\ t <= 0
    BY <2>2, Cancel
  <2>. QED BY <1>3, <2>3 DEF Near
<1>4. CASE w \in -3 .. 3
  <2>1. w * n <= 3 * d /\ -(3 * d) <= w * n
    <3>1. w * n <= 3 * n /\ (-3) * n <= w * n /\ (-3) * n = -(3 * n)
      BY <1>4
    <3>. QED BY <3>1
  <2>2. t * d <= 4 * d /\ (-4) * d <= t * d
    BY <1>1, <2>1
  <2>3. t <= 4 /\ -4 <= t
    BY <2>2, Cancel
  <2>. QED BY <1>4, <2>3 DEF Near
<1>. QED BY <1>2, <1>3, <1>4
(* ------------------------------ what is learnt --------------------------- *)

\* The longer side of a swipe is the longer side of the movement it makes.
LEMMA LongestNear ==
  ASSUME NEW c \in Point, NEW p \in Point, NEW n \in Nat \ {0}, NEW d \in Nat \ {0},
         Near(p[1], c[1] * n, d), Near(p[2], c[2] * n, d)
  PROVE  Near(Length(p), Length(c) * n, d)
<1>1. c[1] \in Int /\ c[2] \in Int /\ p[1] \in Int /\ p[2] \in Int
  BY DEF Point
<1> DEFINE k == Abs(p[1])
           l == Abs(p[2])
           x == Abs(c[1])
           y == Abs(c[2])
<1>2. /\ k \in Nat /\ l \in Nat /\ x \in Nat /\ y \in Nat
      /\ Near(k, x * n, d) /\ Near(l, y * n, d)
  BY <1>1, NearAbs
<1>3. Length(p) = (IF k > l THEN k ELSE l) /\ Length(c) = (IF x > y THEN x ELSE y)
  BY DEF Length
<1> HIDE DEF k, l, x, y
<1>4. k * d \in Int /\ l * d \in Int /\ x * n \in Int /\ y * n \in Int
  BY <1>2
<1>5. k <= l => k * d <= l * d
  BY <1>2, Widen
<1>6. l <= k => l * d <= k * d
  BY <1>2, Widen
<1>7. x <= y => x * n <= y * n
  BY <1>2, Widen
<1>8. y <= x => y * n <= x * n
  BY <1>2, Widen
<1>. QED BY <1>2, <1>3, <1>4, <1>5, <1>6, <1>7, <1>8 DEF Near

\* What is learnt from such a movement is its ratio, whether the app is fast ...
LEMMA LearntFast ==
  ASSUME NEW k \in Nat, NEW l \in Nat, NEW n \in Nat \ {0}, NEW d \in Nat \ {0},
         2 * (k * d) <= 2 * (l * n) + d, 2 * n <= 5 * d, l >= 40, 5 * k >= l
  PROVE  Learnt(k, l) = <<k, l>> /\ k <= 3 * l /\ k > 0
<1>1. k <= 3 * l
  <2>1. l * (2 * n) <= l * (5 * d) /\ l * (2 * n) = 2 * (l * n) /\ l * (5 * d) = 5 * (l * d)
    OBVIOUS
  <2>2. k * d \in Int /\ l * n \in Int /\ l * d \in Int /\ d <= l * d /\ (3 * l) * d = 3 * (l * d)
    OBVIOUS
  <2>3. k * d <= (3 * l) * d
    BY <2>1, <2>2
  <2>. QED BY <2>3, Cancel
<1>. QED BY <1>1, DeviceAssumption DEF Learnt

LEMMA KnownFast ==
  ASSUME NEW k \in Nat, NEW l \in Nat, NEW n \in Nat \ {0}, NEW d \in Nat \ {0},
         Near(k, l * n, d), d <= 2 * n, 2 * n <= 5 * d, l >= 40
  PROVE  Learnt(k, l) = <<k, l>> /\ k <= 3 * l /\ k >= 19
<1>1. k * d \in Int /\ l * n \in Int /\ l * d \in Int
  OBVIOUS
<1>2. l * d <= 2 * (l * n)
  <2>1. l * d <= l * (2 * n) /\ l * (2 * n) = 2 * (l * n)
    OBVIOUS
  <2>. QED BY <2>1
<1>3. l - 1 <= 2 * k
  <2>1. (l - 1) * d = l * d - d /\ (2 * k) * d = 2 * (k * d)
    OBVIOUS
  <2>2. (l - 1) * d <= (2 * k) * d
    BY <1>1, <1>2, <2>1 DEF Near
  <2>. QED BY <2>2, Cancel
<1>4. 2 * (k * d) <= 2 * (l * n) + d
  BY <1>1 DEF Near
<1>5. 5 * k >= l /\ k >= 19
  BY <1>3
<1>. QED BY <1>4, <1>5, LearntFast

\* ... or slow.
LEMMA KnownSlow ==
  ASSUME NEW k \in Nat, NEW l \in Nat, NEW n \in Nat \ {0}, NEW d \in Nat \ {0},
         Near(k, l * n, d), d <= 4 * n, n <= d, l >= 40
  PROVE  Learnt(k, l) = <<k, l>> /\ k >= 10
<1>1. k * d \in Int /\ l * n \in Int /\ l * d \in Int
  OBVIOUS
<1>2. l * d <= 4 * (l * n) /\ l * n <= l * d
  <2>1. l * d <= l * (4 * n) /\ l * (4 * n) = 4 * (l * n) /\ l * n <= l * d
    OBVIOUS
  <2>. QED BY <2>1
<1>3. l - 2 <= 4 * k
  <2>1. (l - 2) * d = l * d - 2 * d /\ (4 * k) * d = 4 * (k * d)
    OBVIOUS
  <2>2. (l - 2) * d <= (4 * k) * d
    BY <1>1, <1>2, <2>1 DEF Near
  <2>. QED BY <2>2, Cancel
<1>4. k <= l + 1
  <2>1. (l + 1) * d = l * d + d
    OBVIOUS
  <2>2. k * d <= (l + 1) * d
    BY <1>1, <1>2, <2>1 DEF Near
  <2>. QED BY <2>2, Cancel
<1>. QED BY <1>3, <1>4, DeviceAssumption DEF Learnt
(* --------------------------- slow moves of a placement ------------------- *)

\* Where the pointer is, where it should be, and how far that is.
Ranges(p) ==
  /\ p[1] \in Int /\ 0 <= p[1] /\ p[1] <= 1919 /\ p[2] \in Int /\ 0 <= p[2] /\ p[2] <= 1079
  /\ goal[1] \in Int /\ 460 <= goal[1] /\ goal[1] <= 1460
  /\ goal[2] \in Int /\ 250 <= goal[2] /\ goal[2] <= 626
  /\ From(p)[1] = goal[1] - p[1] /\ From(p)[2] = goal[2] - p[2]

LEMMA Distances == ASSUME NEW p, OnScreen(p), goal \in Goals PROVE Ranges(p)
<1>1. goal \in (460 .. 1460) \X (250 .. 626)
  BY DeviceAssumption
<1>2. p[1] \in Int /\ 0 <= p[1] /\ p[1] <= 1919
  <2> DEFINE x == p[1]
  <2>1. x \in 0 .. 1919
    BY DEF OnScreen
  <2> HIDE DEF x
  <2>2. x \in Int /\ 0 <= x /\ x <= 1919
    BY <2>1
  <2>. QED BY <2>2 DEF x
<1>3. p[2] \in Int /\ 0 <= p[2] /\ p[2] <= 1079
  BY DEF OnScreen
<1>4. goal[1] \in Int /\ 460 <= goal[1] /\ goal[1] <= 1460
  BY <1>1
<1>5. goal[2] \in Int /\ 250 <= goal[2] /\ goal[2] <= 626
  BY <1>1
<1>6. From(p)[1] = goal[1] - p[1] /\ From(p)[2] = goal[2] - p[2]
  BY DEF From, Pair
<1>. QED BY <1>2, <1>3, <1>4, <1>5, <1>6 DEF Ranges

LEMMA AppGain ==
  ASSUME real \in AppGains
  PROVE  /\ real.fast[1] \in Nat \ {0} /\ real.fast[2] \in Nat \ {0}
         /\ real.fast[2] <= 2 * real.fast[1] /\ 2 * real.fast[1] <= 5 * real.fast[2]
         /\ real.slow[1] \in Nat \ {0} /\ real.slow[2] \in Nat \ {0}
         /\ real.slow[2] <= 4 * real.slow[1] /\ real.slow[1] <= real.slow[2]
<1>1. real.fast \in Fraction /\ real.slow \in Fraction
  BY ZoneAssumption DEF Speeds
<1>2. Between(real.fast, <<1, 2>>, <<5, 2>>) /\ Between(real.slow, <<1, 4>>, <<1, 1>>)
  BY DeviceAssumption
<1>. QED BY <1>1, <1>2 DEF Between, Fraction

\* The slow gain is the first one or one that was learnt: what it asks for is then neither
\* nothing nor more than the safe zone allows.
SlowMove(m, a, n, d, x, w) ==
  /\ m \in Nat \ {0} /\ a \in Nat \ {0} /\ n \in Nat \ {0} /\ d \in Nat \ {0}
  /\ d <= 4 * n /\ n <= d /\ x \in -120 .. 120 /\ w \in Int /\ Near(w, x * a, m)
  /\ (m = 3 /\ a = 5) \/ (m >= 10 /\ Near(m, a * n, d))

LEMMA SlowAsks ==
  ASSUME NEW m, NEW a, NEW n, NEW d, NEW x, NEW w, SlowMove(m, a, n, d, x, w)
  PROVE  w \in -510 .. 510 /\ (Abs(x) >= 7 => w # 0)
<1>0. /\ m \in Nat \ {0} /\ a \in Nat \ {0} /\ n \in Nat \ {0} /\ d \in Nat \ {0}
      /\ d <= 4 * n /\ n <= d /\ x \in -120 .. 120 /\ w \in Int /\ Near(w, x * a, m)
  BY DEF SlowMove
<1>1. m <= a /\ a <= 4 * m + 2 /\ ((m = 3 /\ a = 5) \/ m >= 10)
  <2>1. CASE m = 3 /\ a = 5
    BY <2>1
  <2>2. CASE m >= 10 /\ Near(m, a * n, d)
    <3>1. m * d \in Int /\ a * n \in Int /\ a * d \in Int
      BY <1>0
    <3>2. a * d <= 4 * (a * n) /\ a * n <= a * d
      <4>1. a * d <= a * (4 * n) /\ a * (4 * n) = 4 * (a * n) /\ a * n <= a * d
        BY <1>0
      <4>. QED BY <4>1
    <3>3. 2 * (m * d) <= 2 * (a * d) + d
      BY <1>0, <2>2, <3>1, <3>2 DEF Near
    <3>4. m <= a
      <4> SUFFICES ASSUME a + 1 <= m PROVE FALSE
        BY <1>0
      <4>1. (a + 1) * d <= m * d /\ (a + 1) * d = a * d + d
        BY <1>0, Widen
      <4>. QED BY <1>0, <3>1, <3>3, <4>1
    <3>5. (a - 2) * d <= (4 * m) * d
      <4>1. (a - 2) * d = a * d - 2 * d /\ (4 * m) * d = 4 * (m * d)
        BY <1>0
      <4>. QED BY <1>0, <2>2, <3>1, <3>2, <4>1 DEF Near
    <3>6. a - 2 <= 4 * m
      BY <1>0, <3>5, Cancel
    <3>. QED BY <1>0, <2>2, <3>4, <3>6
  <2>. QED BY <2>1, <2>2 DEF SlowMove
<1>2. Near(Abs(w), Abs(x) * a, m) /\ Abs(w) \in Nat /\ Abs(x) \in 0 .. 120
  <2>1. x \in Int /\ a \in Nat
    BY <1>0
  <2>2. Near(Abs(w), Abs(x) * a, m) /\ Abs(w) \in Nat
    BY <1>0, <2>1, NearAbs
  <2>. QED BY <1>0, <2>2 DEF Abs
<1> DEFINE v == Abs(w)
           y == Abs(x)
<1>3. v \in Nat /\ y \in 0 .. 120 /\ Near(v, y * a, m)
  BY <1>2
<1>4. (v <= 510 => w \in -510 .. 510) /\ (v > 0 => w # 0)
  BY <1>0 DEF Abs
<1> HIDE DEF v, y
<1>5. v * m \in Int /\ y * a \in Int
  BY <1>0, <1>3
<1>6. v <= 510
  <2>1. y * a <= 120 * a
    BY <1>0, <1>3
  <2>2. 2 * (v * m) <= 240 * (4 * m + 2) + m
    BY <1>0, <1>1, <1>3, <1>5, <2>1 DEF Near
  <2>3. CASE m >= 10
    <3>1. v * m <= 510 * m
      BY <1>0, <1>5, <2>2, <2>3
    <3>. QED BY <1>0, <1>3, <3>1, Cancel
  <2>4. CASE m = 3 /\ a = 5
    BY <1>3, <2>4 DEF Near
  <2>. QED BY <1>1, <2>3, <2>4
<1>7. y >= 7 => v > 0
  <2> SUFFICES ASSUME y >= 7, v <= 0 PROVE FALSE
    BY <1>3
  <2>1. v * m = 0
    BY <1>0, <1>3
  <2>2. 7 * a <= y * a
    BY <1>0, <1>3
  <2>. QED BY <1>0, <1>1, <1>3, <1>5, <2>1, <2>2 DEF Near
<1>. QED BY <1>3, <1>4, <1>6, <1>7 DEF v, y
\* Where one axis of a slow move ends, in one swipe or in the two of a fine move.
LEMMA SlowAxis ==
  ASSUME NEW m, NEW a, NEW n, NEW d, NEW x, NEW w, NEW t \in Int, SlowMove(m, a, n, d, x, w),
         -(2 * d) <= 2 * (t * d) - 2 * (w * n), 2 * (t * d) - 2 * (w * n) <= 2 * d
  PROVE  /\ x - t \in -120 .. 120
         /\ m >= 10 => x - t \in -7 .. 7
         /\ m >= 10 /\ x \in -7 .. 7 => x - t \in -1 .. 1
<1>0. /\ m \in Nat \ {0} /\ a \in Nat \ {0} /\ n \in Nat \ {0} /\ d \in Nat \ {0}
      /\ d <= 4 * n /\ n <= d /\ x \in -120 .. 120 /\ w \in Int /\ Near(w, x * a, m)
  BY DEF SlowMove
<1>1. CASE m = 3 /\ a = 5
  <2>1. Near(w, x * 5, 3)
    BY <1>0, <1>1
  <2>2. x - t \in -120 .. 120
    BY <1>0, <2>1, FirstSlowMiss, ZenonT(60)
  <2>. QED BY <1>1, <2>2
<1>2. CASE m >= 10 /\ Near(m, a * n, d)
  <2>1. /\ t - x <= 7 /\ x - t <= 7
        /\ x \in -7 .. 7 => t - x <= 1 /\ x - t <= 1
    BY <1>0, <1>2, SlowMiss, ZenonT(60)
  <2>. QED BY <1>0, <2>1
<1>. QED BY <1>1, <1>2 DEF SlowMove

\* The slow gain is the first one, or one that was learnt.
SlowGain == gain.slow = <<3, 5>> \/ SlowKnown(gain.slow, real.slow)

\* t is what the slow swipes of a move wanted at p make of it, a pixel more or less.
SlowTurn(p, t) ==
  \A i \in 1 .. 2 :
    LET w == Scaled(From(p), <<gain.slow[2], gain.slow[1]>>)[i] IN
    /\ t[i] \in Int
    /\ -(2 * real.slow[2]) <= 2 * (t[i] * real.slow[2]) - 2 * (w * real.slow[1])
    /\ 2 * (t[i] * real.slow[2]) - 2 * (w * real.slow[1]) <= 2 * real.slow[2]

Targeting(p) ==
  /\ gain \in [Speeds -> Fraction] /\ real \in AppGains /\ goal \in Goals /\ OnScreen(p)
  /\ Length(From(p)) <= 120 /\ SlowGain

\* What such a move wants of the app, axis by axis.
LEMMA SlowWanted ==
  ASSUME NEW p, Targeting(p), NEW i \in 1 .. 2
  PROVE  /\ From(p)[i] \in Int /\ p[i] \in Int /\ goal[i] \in Int /\ From(p)[i] = goal[i] - p[i]
         /\ SlowMove(gain.slow[1], gain.slow[2], real.slow[1], real.slow[2], From(p)[i],
                     Scaled(From(p), <<gain.slow[2], gain.slow[1]>>)[i])
<1> DEFINE m == gain.slow[1]
           a == gain.slow[2]
           x == From(p)[i]
           w == Scaled(From(p), <<a, m>>)[i]
<1>1. m \in Nat \ {0} /\ a \in Nat \ {0}
  BY DEF Targeting, Speeds, Fraction
<1>2. Ranges(p)
  BY Distances DEF Targeting
<1>3. p[i] \in Int /\ goal[i] \in Int /\ x = goal[i] - p[i] /\ x \in Int
  <2>1. i = 1 \/ i = 2
    OBVIOUS
  <2>. QED BY <1>2, <2>1 DEF Ranges
<1>4. x \in -120 .. 120
  <2>1. From(p)[1] \in Int /\ From(p)[2] \in Int
    BY <1>2 DEF Ranges
  <2>2. Abs(From(p)[1]) <= 120 /\ Abs(From(p)[2]) <= 120
    BY <2>1 DEF Targeting, Length, Abs
  <2>. QED BY <2>1, <2>2 DEF Abs
<1>5. w = Round(x * a, m)
  BY DEF Scaled, Pair
<1>6. w \in Int /\ Near(w, x * a, m)
  <2>1. x * a \in Int
    BY <1>1, <1>3
  <2>. QED BY <1>1, <1>5, <2>1, RoundNear
<1>7. (m = 3 /\ a = 5) \/ (m >= 10 /\ Near(m, a * real.slow[1], real.slow[2]))
  <2>1. gain.slow = <<3, 5>> \/ SlowKnown(gain.slow, real.slow)
    BY DEF Targeting, SlowGain
  <2>2. CASE gain.slow = <<3, 5>>
    BY <2>2
  <2>3. CASE SlowKnown(gain.slow, real.slow)
    BY <2>3 DEF SlowKnown
  <2>. QED BY <2>1, <2>2, <2>3
<1>8. /\ real.slow[1] \in Nat \ {0} /\ real.slow[2] \in Nat \ {0}
      /\ real.slow[2] <= 4 * real.slow[1] /\ real.slow[1] <= real.slow[2]
  BY AppGain DEF Targeting
<1> HIDE DEF m, a, x, w
<1>9. SlowMove(m, a, real.slow[1], real.slow[2], x, w)
  BY <1>1, <1>4, <1>6, <1>7, <1>8 DEF SlowMove
<1>. QED BY <1>3, <1>9 DEF m, a, x, w

LEMMA SlowLands ==
  ASSUME NEW p, NEW t, Targeting(p), SlowTurn(p, t), NEW i \in 1 .. 2
  PROVE  /\ From(p)[i] - t[i] \in -120 .. 120
         /\ SlowKnown(gain.slow, real.slow) => From(p)[i] - t[i] \in -7 .. 7
         /\ SlowKnown(gain.slow, real.slow) /\ From(p)[i] \in -7 .. 7 => From(p)[i] - t[i] \in -1 .. 1
<1> DEFINE w == Scaled(From(p), <<gain.slow[2], gain.slow[1]>>)[i]
<1>1. SlowMove(gain.slow[1], gain.slow[2], real.slow[1], real.slow[2], From(p)[i], w)
  BY SlowWanted
<1>2. /\ t[i] \in Int
      /\ -(2 * real.slow[2]) <= 2 * (t[i] * real.slow[2]) - 2 * (w * real.slow[1])
      /\ 2 * (t[i] * real.slow[2]) - 2 * (w * real.slow[1]) <= 2 * real.slow[2]
  BY DEF SlowTurn
<1>3. SlowKnown(gain.slow, real.slow) => gain.slow[1] >= 10
  BY DEF SlowKnown
<1> HIDE DEF w
<1>. QED BY <1>1, <1>2, <1>3, SlowAxis
LEMMA LengthIs ==
  ASSUME NEW c, c[1] \in Int, c[2] \in Int, NEW b \in Nat
  PROVE  /\ Length(c) \in Nat
         /\ Length(c) <= b <=> -b <= c[1] /\ c[1] <= b /\ -b <= c[2] /\ c[2] <= b
BY DEF Length, Abs

\* Such a move ends on the screen, short of its edges ...
LEMMA SlowStays ==
  ASSUME NEW p, NEW t, Targeting(p), SlowTurn(p, t)
  PROVE  /\ t[1] \in Int /\ 0 <= p[1] + t[1] /\ p[1] + t[1] <= 1919
         /\ t[2] \in Int /\ 0 <= p[2] + t[2] /\ p[2] + t[2] <= 1079
<1>1. Ranges(p)
  BY Distances DEF Targeting
<1>2. t[1] \in Int /\ t[2] \in Int
  BY DEF SlowTurn
<1>3. From(p)[1] - t[1] \in -120 .. 120 /\ From(p)[2] - t[2] \in -120 .. 120
  BY SlowLands
<1>. QED BY <1>1, <1>2, <1>3 DEF Ranges

\* ... and the attempts that are left after it are enough there.
LEMMA SlowEnds ==
  ASSUME NEW p, NEW t, Targeting(p), SlowTurn(p, t), Enough(p), Length(From(p)) > 6, left \in Nat,
         pointer' = <<p[1] + t[1], p[2] + t[2]>>, goal' = goal, real' = real, left' = left - 1,
         SlowKnown(gain'.slow, real.slow)
  PROVE  OnScreen(pointer)' /\ left' \in Nat /\ Enough(pointer)'
<1> DEFINE D == From(p)
           E == From(pointer)'
<1>1. Ranges(p)
  BY Distances DEF Targeting
<1>2. t[1] \in Int /\ t[2] \in Int
  BY DEF SlowTurn
<1>3. D[1] \in Int /\ D[2] \in Int
  BY <1>1 DEF Ranges
<1>4. E[1] = D[1] - t[1] /\ E[2] = D[2] - t[2]
  <2>1. E = <<goal[1] - pointer'[1], goal[2] - pointer'[2]>>
    BY DEF From, Pair
  <2>2. pointer'[1] = p[1] + t[1] /\ pointer'[2] = p[2] + t[2]
    OBVIOUS
  <2>3. E[1] = goal[1] - (p[1] + t[1]) /\ E[2] = goal[2] - (p[2] + t[2])
    BY <2>1, <2>2
  <2> HIDE DEF D, E
  <2>4. D[1] = goal[1] - p[1] /\ D[2] = goal[2] - p[2]
    BY <1>1 DEF Ranges, D
  <2>. QED BY <1>1, <1>2, <2>3, <2>4 DEF Ranges
<1> DEFINE known == SlowKnown(gain.slow, real.slow)
<1>5. ASSUME NEW i \in 1 .. 2
      PROVE  /\ E[i] \in -120 .. 120
             /\ known => E[i] \in -7 .. 7
             /\ known /\ D[i] \in -7 .. 7 => E[i] \in -1 .. 1
  <2>1. E[i] = D[i] - t[i]
    BY <1>4
  <2>. QED BY <2>1, SlowLands
<1>6. \/ left >= 3
      \/ known /\ left >= 2
      \/ Length(D) <= 7 /\ known /\ left >= 1
  <2>1. CASE \E f \in 0 .. 3, k \in 0 .. 3 : left >= f + k + 3
    BY <2>1
  <2>2. Length(D) \in Nat
    BY <1>3, LengthIs
  <2>3. ~(Length(D) <= 6)
    BY <2>2
  <2>4. \/ \E f \in 0 .. 3, k \in 0 .. 3 : left >= f + k + 3
        \/ left >= 3
        \/ known /\ left >= 2
        \/ Length(D) <= 7 /\ known /\ left >= 1
        \/ Length(D) <= 6
    BY Zenon DEF Enough
  <2> HIDE DEF D, known
  <2>. QED BY <2>1, <2>3, <2>4
<1> HIDE DEF D, E, known
<1>7. OnScreen(pointer)'
  <2>1. pointer'[1] = p[1] + t[1] /\ pointer'[2] = p[2] + t[2]
    OBVIOUS
  <2>2. p[1] + t[1] \in 0 .. 1919 /\ p[2] + t[2] \in 0 .. 1079
    <3> DEFINE k == p[1] + t[1]
               l == p[2] + t[2]
    <3>1. k \in Int /\ l \in Int
      BY <1>1, <1>2 DEF Ranges
    <3>2. 0 <= k /\ k <= 1919 /\ 0 <= l /\ l <= 1079
      BY SlowStays
    <3> HIDE DEF k, l
    <3>3. k \in 0 .. 1919 /\ l \in 0 .. 1079
      BY <3>1, <3>2
    <3>. QED BY <3>3 DEF k, l
  <2>3. <<p[1] + t[1], p[2] + t[2]>> \in (0 .. 1919) \X (0 .. 1079)
    BY <2>2
  <2>. QED BY <2>3 DEF OnScreen
<1>8. E[1] \in Int /\ E[2] \in Int
  BY <1>5
<1>9. /\ left' \in Nat
      /\ \/ Length(E) <= 120 /\ left' >= 2
         \/ Length(E) <= 7 /\ left' >= 1
         \/ Length(E) <= 6
  <2>1. CASE left >= 3
    <3>1. Length(E) <= 120
      BY <1>5, <1>8, LengthIs
    <3>. QED BY <2>1, <3>1
  <2>2. CASE known /\ left >= 2
    <3>1. Length(E) <= 7
      BY <1>5, <1>8, <2>2, LengthIs
    <3>. QED BY <2>2, <3>1
  <2>3. CASE Length(D) <= 7 /\ known /\ left >= 1
    <3>1. D[1] \in -7 .. 7 /\ D[2] \in -7 .. 7
      BY <1>3, <2>3, LengthIs
    <3>2. E[1] \in -1 .. 1 /\ E[2] \in -1 .. 1
      BY <1>5, <2>3, <3>1
    <3>3. Length(E) <= 6
      BY <1>8, <3>2, LengthIs
    <3>. QED BY <2>3, <3>3
  <2>. QED BY <1>6, <2>1, <2>2, <2>3
<1>10. ASSUME \/ Length(E) <= 120 /\ SlowKnown(gain.slow, real.slow)' /\ left' >= 2
              \/ Length(E) <= 7 /\ SlowKnown(gain.slow, real.slow)' /\ left' >= 1
              \/ Length(E) <= 6
       PROVE  Enough(pointer)'
  BY <1>10 DEF Enough, E
<1>11. SlowKnown(gain.slow, real.slow)'
  BY DEF SlowKnown, Near
<1>. QED BY <1>7, <1>9, <1>10, <1>11
LEMMA PointIs == ASSUME NEW c \in Point PROVE c[1] \in Int /\ c[2] \in Int /\ c = <<c[1], c[2]>>
BY DEF Point

\* A swipe that is neither too long for the safe zone nor too short to be seen is sent as
\* it is.
LEMMA Unstretched ==
  ASSUME NEW c \in Point, NEW speed, Length(c) <= 670, speed = "slow" => Length(c) >= 40
  PROVE  Commanded(c, speed) = c
<1>1. c[1] \in Int /\ c[2] \in Int /\ c = <<c[1], c[2]>>
  BY PointIs
<1>2. -670 <= c[1] /\ c[1] <= 670 /\ -670 <= c[2] /\ c[2] <= 670
  BY <1>1, LengthIs
<1>3. SafeLow = <<160, 230>> /\ SafeHigh = <<1760, 900>> /\ SlowMin = 40
  BY DeviceAssumption
<1> DEFINE b == Pair(LAMBDA i : Clamp(SafeLow[i] - SafeHigh[i], SafeHigh[i] - SafeLow[i], c[i]))
<1>4. b = c
  <2>1. Clamp(-1600, 1600, c[1]) = c[1] /\ Clamp(-670, 670, c[2]) = c[2]
    BY <1>1, <1>2 DEF Clamp
  <2>2. b = <<Clamp(SafeLow[1] - SafeHigh[1], SafeHigh[1] - SafeLow[1], c[1]),
              Clamp(SafeLow[2] - SafeHigh[2], SafeHigh[2] - SafeLow[2], c[2])>>
    BY DEF Pair
  <2>3. /\ SafeLow[1] - SafeHigh[1] = -1600 /\ SafeHigh[1] - SafeLow[1] = 1600
        /\ SafeLow[2] - SafeHigh[2] = -670 /\ SafeHigh[2] - SafeLow[2] = 670
    BY <1>3
  <2>4. b = <<c[1], c[2]>>
    BY <2>1, <2>2, <2>3
  <2>. QED BY <1>1, <2>4
<1>5. Commanded(c, speed) = IF Length(b) > 0 /\ speed = "slow" /\ Length(b) < SlowMin
                            THEN Pair(LAMBDA i : Round(b[i] * SlowMin, Length(b))) ELSE b
  BY DEF Commanded
<1>6. Length(c) \in Nat
  BY <1>1, LengthIs
<1> HIDE DEF b
<1>. QED BY <1>3, <1>4, <1>5, <1>6

\* What the app makes of a swipe is near its gain.
LEMMA AppMoves ==
  ASSUME NEW c \in Point, NEW speed \in Speeds, real \in AppGains
  PROVE  /\ Scaled(c, real[speed]) \in Point
         /\ Near(Scaled(c, real[speed])[1], c[1] * real[speed][1], real[speed][2])
         /\ Near(Scaled(c, real[speed])[2], c[2] * real[speed][1], real[speed][2])
<1>1. real[speed] \in Fraction
  BY ZoneAssumption
<1>2. real[speed][1] \in Nat \ {0} /\ real[speed][2] \in Nat \ {0}
  BY <1>1 DEF Fraction
<1>3. c[1] \in Int /\ c[2] \in Int
  BY PointIs
<1>4. c[1] * real[speed][1] \in Int /\ c[2] * real[speed][1] \in Int
  BY <1>2, <1>3
<1>5. /\ Scaled(c, real[speed])[1] = Round(c[1] * real[speed][1], real[speed][2])
      /\ Scaled(c, real[speed])[2] = Round(c[2] * real[speed][1], real[speed][2])
  BY DEF Scaled, Pair
<1>. QED BY <1>1, <1>2, <1>4, <1>5, RoundNear, ScaledTyped

\* A slow swipe that ends short of the screen's edges teaches the slow gain.
LEMMA SlowLearns ==
  ASSUME NEW c \in Point, real \in AppGains, gain \in [Speeds -> Fraction], pointer \in Point,
         swipe'.delta = c, Length(c) >= 40, Gained("slow"),
         pointer' = <<pointer[1] + Scaled(c, real.slow)[1], pointer[2] + Scaled(c, real.slow)[2]>>
  PROVE  SlowKnown(gain'.slow, real.slow) /\ gain'.fast = gain.fast
<1> DEFINE p == Scaled(c, real.slow)
           m == Pair(LAMBDA i : pointer'[i] - pointer[i])
           n == real.slow[1]
           d == real.slow[2]
<1>1. "slow" \in Speeds
  BY DEF Speeds
<1>2. p \in Point /\ Near(p[1], c[1] * n, d) /\ Near(p[2], c[2] * n, d)
  BY <1>1, AppMoves
<1>3. n \in Nat \ {0} /\ d \in Nat \ {0} /\ d <= 4 * n /\ n <= d
  BY AppGain
<1>4. m = p
  <2>1. m = <<pointer'[1] - pointer[1], pointer'[2] - pointer[2]>>
    BY DEF Pair
  <2>2. pointer[1] \in Int /\ pointer[2] \in Int /\ p[1] \in Int /\ p[2] \in Int /\ p = <<p[1], p[2]>>
    BY <1>2, PointIs
  <2>3. pointer'[1] = pointer[1] + p[1] /\ pointer'[2] = pointer[2] + p[2]
    OBVIOUS
  <2> HIDE DEF p, m
  <2>4. pointer'[1] - pointer[1] = p[1] /\ pointer'[2] - pointer[2] = p[2]
    BY <2>2, <2>3
  <2>. QED BY <2>1, <2>2, <2>4
<1>5. gain' = IF Length(c) > 0 /\ Length(m) > 0
              THEN [gain EXCEPT !["slow"] = Learnt(Length(m), Length(c))] ELSE gain
  BY DEF Gained
<1> HIDE DEF p, m, n, d
<1>6. Near(Length(p), Length(c) * n, d)
  BY <1>2, <1>3, LongestNear
<1>7. Length(c) \in Nat /\ Length(p) \in Nat
  BY <1>2, PointIs, LengthIs
<1>8. Learnt(Length(p), Length(c)) = <<Length(p), Length(c)>> /\ Length(p) >= 10
  BY <1>3, <1>6, <1>7, KnownSlow
<1>9. gain' = [gain EXCEPT !["slow"] = <<Length(p), Length(c)>>]
  BY <1>4, <1>5, <1>7, <1>8
<1>10. gain'.slow = <<Length(p), Length(c)>> /\ gain'.fast = gain.fast
  BY <1>1, <1>9 DEF Speeds
<1>. QED BY <1>6, <1>8, <1>10 DEF SlowKnown, n, d
\* What a swipe of c does to the pointer while the desktop is in front.
LEMMA SwipeMoves ==
  ASSUME NEW c \in Point, NEW b, NEW speed, Swipe(b, speed), Commanded(b, speed) = c, view = "desktop",
         pointer \in Point, NEW t \in Point, t = Scaled(c, real[speed])
  PROVE  /\ swipe'.delta = c
         /\ pointer' = <<Clamp(0, 1919, pointer[1] + t[1]), Clamp(0, 1079, pointer[2] + t[2])>>
         /\ 0 <= pointer[1] + t[1] /\ pointer[1] + t[1] <= 1919
            /\ 0 <= pointer[2] + t[2] /\ pointer[2] + t[2] <= 1079
            => pointer' = <<pointer[1] + t[1], pointer[2] + t[2]>>
<1>1. Screen[1] - 1 = 1919 /\ Screen[2] - 1 = 1079
  BY DeviceAssumption
<1>2. swipe'.delta = c
  BY DEF Swipe
<1>3. pointer' = <<Clamp(0, Screen[1] - 1, pointer[1] + t[1]), Clamp(0, Screen[2] - 1, pointer[2] + t[2])>>
  BY DEF Swipe, Pair
<1>4. pointer[1] + t[1] \in Int /\ pointer[2] + t[2] \in Int
  BY PointIs
<1>5. /\ pointer' = <<Clamp(0, 1919, pointer[1] + t[1]), Clamp(0, 1079, pointer[2] + t[2])>>
  BY <1>1, <1>3
<1>6. ASSUME 0 <= pointer[1] + t[1], pointer[1] + t[1] <= 1919,
             0 <= pointer[2] + t[2], pointer[2] + t[2] <= 1079
      PROVE  pointer' = <<pointer[1] + t[1], pointer[2] + t[2]>>
  <2>1. Clamp(0, 1919, pointer[1] + t[1]) = pointer[1] + t[1]
    BY <1>4, <1>6 DEF Clamp
  <2>2. Clamp(0, 1079, pointer[2] + t[2]) = pointer[2] + t[2]
    BY <1>4, <1>6 DEF Clamp
  <2>. QED BY <1>5, <2>1, <2>2
<1>. QED BY <1>2, <1>5, <1>6

\* What holds when a pointer that the file shows is being moved under the desktop.
Moving ==
  /\ PtrInv /\ Converging /\ view = "desktop" /\ at = "move" /\ sight = pointer /\ ~There

\* With no more than FAST_ABOVE_PX to go it is a slow move.
LEMMA SlowHere ==
  ASSUME Moving, Speed = "slow"
  PROVE  /\ Targeting(pointer) /\ Enough(pointer) /\ Length(From(pointer)) > 6 /\ Delta = From(pointer)
         /\ Wanted = Scaled(From(pointer), <<gain.slow[2], gain.slow[1]>>)
         /\ Wanted \in Point /\ Length(Wanted) \in 1 .. 510
<1>1. /\ gain \in [Speeds -> Fraction] /\ real \in AppGains /\ goal \in Point /\ pointer \in Point
      /\ goal \in Goals /\ OnScreen(pointer) /\ SlowGain /\ Enough(pointer)
  BY DEF Moving, PtrInv, PtrTyped, Converging, SlowGain
<1>2. Delta = From(pointer)
  BY DEF Delta, From, Moving, Pair
<1>3. Length(From(pointer)) <= 120 /\ Length(From(pointer)) > 6
  <2>1. Ranges(pointer)
    BY <1>1, Distances
  <2>2. From(pointer)[1] \in Int /\ From(pointer)[2] \in Int
    BY <2>1 DEF Ranges
  <2>3. Length(From(pointer)) \in Nat
    BY <2>2, LengthIs
  <2>4. FastAbove = 120 /\ Tolerance = 6
    BY DeviceAssumption
  <2>5. ~(Length(From(pointer)) > 120)
    BY <1>2, <2>4 DEF Speed
  <2>6. ~(Length(From(pointer)) <= 6)
    <3>1. sight # None
      BY <1>1, PointNotNone DEF Moving
    <3>. QED BY <1>2, <2>4, <3>1 DEF There, Moving
  <2>. QED BY <2>3, <2>5, <2>6
<1>4. Targeting(pointer)
  BY <1>1, <1>3 DEF Targeting
<1>5. Wanted = Scaled(From(pointer), <<gain.slow[2], gain.slow[1]>>)
  BY <1>2 DEF Wanted
<1>6. Wanted \in Point
  BY <1>1, WantedTyped DEF Moving
<1>7. ASSUME NEW i \in 1 .. 2
      PROVE  -510 <= Wanted[i] /\ Wanted[i] <= 510 /\ (Abs(From(pointer)[i]) >= 7 => Wanted[i] # 0)
  <2> DEFINE w == Wanted[i]
  <2>1. w \in -510 .. 510 /\ (Abs(From(pointer)[i]) >= 7 => w # 0)
    BY <1>4, <1>5, SlowWanted, SlowAsks
  <2> HIDE DEF w
  <2>2. -510 <= w /\ w <= 510
    BY <2>1
  <2>. QED BY <2>1, <2>2 DEF w
<1>8. Length(Wanted) \in 1 .. 510
  <2>1. Wanted[1] \in Int /\ Wanted[2] \in Int
    BY <1>6, PointIs
  <2>2. Length(Wanted) <= 510 /\ Length(Wanted) \in Nat
    <3>1. -510 <= Wanted[1] /\ Wanted[1] <= 510
      BY <1>7
    <3>2. -510 <= Wanted[2] /\ Wanted[2] <= 510
      BY <1>7
    <3>. QED BY <2>1, <3>1, <3>2, LengthIs
  <2>3. Length(Wanted) # 0
    <3>1. From(pointer)[1] \in Int /\ From(pointer)[2] \in Int
      BY <1>4, SlowWanted
    <3>2. Abs(From(pointer)[1]) >= 7 \/ Abs(From(pointer)[2]) >= 7
      BY <1>3, <3>1 DEF Length, Abs
    <3>3. Wanted[1] # 0 \/ Wanted[2] # 0
      BY <1>7, <3>2
    <3>. QED BY <2>1, <3>3 DEF Length, Abs
  <2>. QED BY <2>2, <2>3
<1>. QED BY <1>1, <1>2, <1>3, <1>4, <1>5, <1>6, <1>8

\* The slow gain, when it is learnt, does not touch what is known of the fast one.
LEMMA Settled ==
  ASSUME Converging, OnScreen(pointer)', Enough(pointer)', left' \in Nat, sight' = pointer', at' = "move",
         UNCHANGED <<goal, real>>, SlowKnown(gain'.slow, real.slow), gain'.fast = gain.fast,
         at \in {"move", "back"}
  PROVE  Converging'
<1>1. (\E f \in 0 .. 3 : FastKnown(f, gain.fast, real.fast))'
  BY DEF Converging, FastKnown, Near
<1>2. SlowKnown(gain.slow, real.slow)'
  BY DEF SlowKnown, Near
<1>. QED BY <1>1, <1>2 DEF Converging

LEMMA SlowStep ==
  ASSUME Moving, StepToward, Speed = "slow", Shows("slow") PROVE Converging'
<1> DEFINE t == Scaled(Wanted, real.slow)
           n == real.slow[1]
           d == real.slow[2]
<1>1. /\ Targeting(pointer) /\ Enough(pointer) /\ Length(From(pointer)) > 6
      /\ Wanted = Scaled(From(pointer), <<gain.slow[2], gain.slow[1]>>)
      /\ Wanted \in Point /\ Length(Wanted) \in 1 .. 510
  BY SlowHere
<1>2. /\ gain \in [Speeds -> Fraction] /\ real \in AppGains /\ pointer \in Point /\ "slow" \in Speeds
  BY DEF Moving, PtrInv, PtrTyped, Speeds
<1>3. Length(Wanted) >= 40
  <2>1. ~(Length(Wanted) \in 1 .. SlowMin - 1) /\ SlowMin = 40
    BY DeviceAssumption DEF StepToward, Fine
  <2>. QED BY <1>1, <2>1
<1>4. Commanded(Wanted, "slow") = Wanted
  BY <1>1, <1>3, Unstretched
<1>5. t \in Point /\ Near(t[1], Wanted[1] * n, d) /\ Near(t[2], Wanted[2] * n, d)
  BY <1>1, <1>2, AppMoves
<1>6. SlowTurn(pointer, t)
  <2>1. n \in Nat \ {0} /\ d \in Nat \ {0}
    BY <1>2, AppGain
  <2>2. ASSUME NEW i \in 1 .. 2
        PROVE  /\ t[i] \in Int
               /\ -(2 * d) <= 2 * (t[i] * d) - 2 * (Wanted[i] * n)
               /\ 2 * (t[i] * d) - 2 * (Wanted[i] * n) <= 2 * d
    <3> DEFINE k == t[i]
               w == Wanted[i]
    <3>1. k \in Int /\ w \in Int
      BY <1>1, <1>5, PointIs
    <3>2. Near(k, w * n, d)
      BY <1>5
    <3> HIDE DEF k, w, n, d
    <3>3. k * d \in Int /\ w * n \in Int
      BY <2>1, <3>1
    <3>4. -(2 * d) <= 2 * (k * d) - 2 * (w * n) /\ 2 * (k * d) - 2 * (w * n) <= 2 * d
      BY <2>1, <3>2, <3>3 DEF Near
    <3>. QED BY <3>1, <3>4 DEF k, w
  <2>. QED BY <1>1, <2>2 DEF SlowTurn
<1>7. swipe'.delta = Wanted /\ pointer' = <<pointer[1] + t[1], pointer[2] + t[2]>>
  <2>1. /\ 0 <= pointer[1] + t[1] /\ pointer[1] + t[1] <= 1919
        /\ 0 <= pointer[2] + t[2] /\ pointer[2] + t[2] <= 1079
    BY <1>1, <1>6, SlowStays
  <2>2. Swipe(Wanted, "slow") /\ view = "desktop" /\ t = Scaled(Wanted, real["slow"])
    BY DEF StepToward, Moving
  <2> HIDE DEF t
  <2>. QED BY <1>1, <1>2, <1>4, <1>5, <2>1, <2>2, SwipeMoves
<1> HIDE DEF t
<1>8. SlowKnown(gain'.slow, real.slow) /\ gain'.fast = gain.fast
  BY <1>1, <1>2, <1>3, <1>7, SlowLearns DEF Shows, t
<1>9. OnScreen(pointer)' /\ left' \in Nat /\ Enough(pointer)'
  <2>1. left \in Nat /\ left' = left - 1 /\ goal' = goal /\ real' = real
    BY DEF StepToward, Moving, Converging
  <2>. QED BY <1>1, <1>6, <1>7, <1>8, <2>1, SlowEnds
<1>. QED BY <1>8, <1>9, Settled DEF StepToward, Moving, Shows
\* The swipe away and back, on one axis and on both.
Opposite(x) == IF x = 0 THEN 0 ELSE IF x > 0 THEN -40 ELSE 40
Remainder(w) == Pair(LAMBDA i : w[i] - Away(w)[i])

LEMMA AwayAxis ==
  ASSUME NEW x \in Int
  PROVE  /\ Opposite(x) \in Int /\ Opposite(x - Opposite(x)) = Opposite(x)
         /\ -40 <= Opposite(x) /\ Opposite(x) <= 40
         /\ x - Opposite(x) \in Int /\ (x - Opposite(x)) + Opposite(x) = x
         /\ x # 0 => Abs(Opposite(x)) = 40 /\ Abs(x - Opposite(x)) >= 40
<1>1. CASE x > 0
  <2>1. Opposite(x) = -40 /\ Opposite(x + 40) = -40
    BY <1>1 DEF Opposite
  <2>2. Abs(-40) = 40 /\ Abs(x + 40) = x + 40
    <3>1. \A k \in Int : Abs(k) = IF k < 0 THEN 0 - k ELSE k
      BY DEF Abs
    <3>. QED BY <1>1, <3>1
  <2>3. x - (-40) = x + 40
    OBVIOUS
  <2>. QED BY <1>1, <2>1, <2>2, <2>3
<1>2. CASE x < 0
  BY <1>2 DEF Opposite, Abs
<1>3. CASE x = 0
  BY <1>3 DEF Opposite, Abs
<1>. QED BY <1>1, <1>2, <1>3

LEMMA LengthAtLeast ==
  ASSUME NEW c, c[1] \in Int, c[2] \in Int, NEW b \in Nat, Abs(c[1]) >= b \/ Abs(c[2]) >= b
  PROVE  Length(c) >= b
BY DEF Length, Abs

LEMMA AwayIs ==
  ASSUME NEW w \in Point, Length(w) \in 1 .. 39
  PROVE  /\ Away(w) \in Point /\ Length(Away(w)) = 40 /\ Remainder(w) \in Point /\ Length(Remainder(w)) >= 40
         /\ Away(Remainder(w)) = Away(w) /\ <<Remainder(w)[1] + Away(w)[1], Remainder(w)[2] + Away(w)[2]>> = w
<1> DEFINE x == w[1]
           y == w[2]
           a == Opposite(x)
           b == Opposite(y)
<1>1. \A z : Away(z) = <<Opposite(z[1]), Opposite(z[2])>>
  BY DeviceAssumption DEF Away, Pair, Opposite
<1>2. x \in Int /\ y \in Int /\ w = <<x, y>>
  BY PointIs
<1>3. x # 0 \/ y # 0
  <2>1. x \in Int /\ y \in Int
    BY <1>2
  <2>. QED BY <2>1 DEF Length, Abs
<1>4. Away(w) = <<a, b>>
  BY <1>1
<1>5. Remainder(w) = <<x - a, y - b>>
  <2>1. Remainder(w) = <<x - Away(w)[1], y - Away(w)[2]>>
    BY DEF Remainder, Pair
  <2>2. Away(w)[1] = a /\ Away(w)[2] = b
    BY <1>4
  <2>. QED BY <2>1, <2>2
<1>6. /\ a \in Int /\ Opposite(x - a) = a /\ -40 <= a /\ a <= 40 /\ x - a \in Int /\ (x - a) + a = x
      /\ x # 0 => Abs(a) = 40 /\ Abs(x - a) >= 40
  <2>1. x \in Int
    BY <1>2
  <2> HIDE DEF x
  <2>. QED BY <2>1, AwayAxis
<1>7. /\ b \in Int /\ Opposite(y - b) = b /\ -40 <= b /\ b <= 40 /\ y - b \in Int /\ (y - b) + b = y
      /\ y # 0 => Abs(b) = 40 /\ Abs(y - b) >= 40
  <2>1. y \in Int
    BY <1>2
  <2> HIDE DEF y
  <2>. QED BY <2>1, AwayAxis
<1> HIDE DEF x, y, a, b
<1>8. Away(w) \in Point /\ Remainder(w) \in Point
  BY <1>4, <1>5, <1>6, <1>7 DEF Point
<1>9. Length(<<a, b>>) <= 40 /\ Length(<<a, b>>) >= 40
  <2>1. <<a, b>>[1] = a /\ <<a, b>>[2] = b
    OBVIOUS
  <2>2. Length(<<a, b>>) <= 40
    BY <1>6, <1>7, <2>1, LengthIs
  <2>3. Length(<<a, b>>) >= 40
    BY <1>3, <1>6, <1>7, <2>1, LengthAtLeast
  <2>. QED BY <2>2, <2>3
<1>10. Length(<<x - a, y - b>>) >= 40
  <2>1. <<x - a, y - b>>[1] = x - a /\ <<x - a, y - b>>[2] = y - b
    OBVIOUS
  <2>. QED BY <1>3, <1>6, <1>7, <2>1, LengthAtLeast
<1>11. Length(<<a, b>>) = 40
  <2>1. Length(<<a, b>>) \in Nat
    BY <1>6, <1>7, LengthIs
  <2>. QED BY <1>9, <2>1
<1>12. Away(Remainder(w)) = <<Opposite(x - a), Opposite(y - b)>>
  BY <1>1, <1>5
<1>13. Remainder(w)[1] = x - a /\ Remainder(w)[2] = y - b /\ Away(w)[1] = a /\ Away(w)[2] = b
  BY <1>4, <1>5
<1>14. <<Remainder(w)[1] + Away(w)[1], Remainder(w)[2] + Away(w)[2]>> = w
  BY <1>2, <1>6, <1>7, <1>13
<1>. QED BY <1>4, <1>5, <1>6, <1>7, <1>8, <1>10, <1>11, <1>12, <1>14

LEMMA AwayStep == ASSUME Moving, StepAway, sight' = pointer' PROVE Converging'
<1> DEFINE W == Wanted
           A == Away(W)
           t == Scaled(A, real.slow)
           n == real.slow[1]
           d == real.slow[2]
<1>1. Speed = "slow" /\ Length(W) \in 1 .. 39
  <2>1. SlowMin = 40
    BY DeviceAssumption
  <2>2. Speed = "slow" /\ Length(Wanted) \in 1 .. SlowMin - 1
    BY DEF StepAway, Fine
  <2>. QED BY <2>1, <2>2
<1>2. /\ Targeting(pointer) /\ Enough(pointer) /\ Length(From(pointer)) > 6
      /\ W = Scaled(From(pointer), <<gain.slow[2], gain.slow[1]>>) /\ W \in Point
  BY <1>1, SlowHere
<1>3. /\ gain \in [Speeds -> Fraction] /\ real \in AppGains /\ pointer \in Point /\ "slow" \in Speeds
      /\ goal \in Goals /\ OnScreen(pointer) /\ left \in Nat
  BY DEF Moving, PtrInv, PtrTyped, Speeds, Converging
<1>4. /\ A \in Point /\ Length(A) = 40 /\ rest' \in Point /\ Length(rest') >= 40
      /\ Away(rest') = A /\ <<rest'[1] + A[1], rest'[2] + A[2]>> = W
  <2>1. rest' = Remainder(W)
    BY DEF StepAway, Remainder
  <2> HIDE DEF W
  <2>. QED BY <1>1, <1>2, <2>1, AwayIs
<1>5. Commanded(A, "slow") = A
  <2> HIDE DEF A
  <2>. QED BY <1>4, Unstretched
<1>6. t \in Point /\ Near(t[1], A[1] * n, d) /\ Near(t[2], A[2] * n, d)
  BY <1>3, <1>4, AppMoves
<1>7. n \in Nat \ {0} /\ d \in Nat \ {0} /\ n <= d
  BY <1>3, AppGain
<1>8. Ranges(pointer)
  BY <1>3, Distances
<1> HIDE DEF t, A, W, n, d
<1>9. t[1] \in Int /\ t[2] \in Int /\ A[1] \in Int /\ A[2] \in Int
  BY <1>4, <1>6, PointIs
<1>10. Length(t) <= 40
  <2>1. Near(Length(t), 40 * n, d) /\ Length(t) \in Nat
    BY <1>4, <1>6, <1>7, <1>9, LongestNear, LengthIs
  <2>2. Length(t) * d \in Int /\ 40 * n <= 40 * d /\ (40 + 1) * d = 40 * d + d
    BY <1>7, <2>1
  <2>3. Length(t) * d < (40 + 1) * d
    BY <1>7, <2>1, <2>2 DEF Near
  <2>. QED BY <1>7, <2>1, <2>3, Within2
<1>11. /\ 0 <= pointer[1] + t[1] /\ pointer[1] + t[1] <= 1919
       /\ 0 <= pointer[2] + t[2] /\ pointer[2] + t[2] <= 1079
  <2>1. -40 <= t[1] /\ t[1] <= 40 /\ -40 <= t[2] /\ t[2] <= 40
    BY <1>9, <1>10, LengthIs
  <2>2. /\ From(pointer)[1] \in Int /\ From(pointer)[2] \in Int
        /\ Length(From(pointer)) <= 120
    BY <1>2, <1>8 DEF Targeting, Ranges
  <2>3. /\ -120 <= From(pointer)[1] /\ From(pointer)[1] <= 120
        /\ -120 <= From(pointer)[2] /\ From(pointer)[2] <= 120
    BY <2>2, LengthIs
  <2>. QED BY <1>8, <1>9, <2>1, <2>2, <2>3 DEF Ranges
<1>12. pointer' = <<pointer[1] + t[1], pointer[2] + t[2]>>
  <2>1. Swipe(A, "slow") /\ view = "desktop" /\ t = Scaled(A, real["slow"])
    BY DEF StepAway, Moving, A, t, W
  <2>2. A \in Point /\ t \in Point /\ pointer \in Point /\ Commanded(A, "slow") = A
    BY <1>3, <1>4, <1>5, <1>6
  <2>. QED BY <1>11, <2>1, <2>2, SwipeMoves
<1>13. /\ at' = "back" /\ UNCHANGED <<goal, left, gain, real>>
  BY DEF StepAway
<1>14. Origin' = pointer
  <2>1. Origin' = <<pointer'[1] - t[1], pointer'[2] - t[2]>>
    BY <1>4, <1>13 DEF Origin, Pair, t
  <2>2. pointer[1] \in Int /\ pointer[2] \in Int /\ pointer = <<pointer[1], pointer[2]>>
    BY <1>3, PointIs
  <2>3. pointer'[1] - t[1] = pointer[1] /\ pointer'[2] - t[2] = pointer[2]
    BY <1>9, <1>12, <2>2
  <2>. QED BY <2>1, <2>2, <2>3
<1>15. Turned' = W
  <2>1. Turned' = <<rest'[1] + Away(rest')[1], rest'[2] + Away(rest')[2]>>
    BY DEF Turned, Pair, Away
  <2>. QED BY <1>4, <2>1
<1>16. From(Origin)' = From(pointer)
  <2>1. From(Origin)' = <<goal'[1] - Origin'[1], goal'[2] - Origin'[2]>>
    BY DEF From, Pair
  <2>2. From(pointer) = <<goal[1] - pointer[1], goal[2] - pointer[2]>>
    BY DEF From, Pair
  <2>. QED BY <1>13, <1>14, <2>1, <2>2
<1>17. Enough(Origin)'
  BY <1>2, <1>13, <1>16 DEF Enough, Within, FastKnown, SlowKnown, Near
<1>18. Halfway'
  <2>1. OnScreen(Origin)'
    BY <1>3, <1>14 DEF OnScreen
  <2>2. (Length(From(Origin)) \in 7 .. 120)'
    <3>1. From(pointer)[1] \in Int /\ From(pointer)[2] \in Int
      BY <1>8 DEF Ranges
    <3>2. Length(From(pointer)) \in Nat
      BY <3>1, LengthIs
    <3>3. Length(From(pointer)) \in 7 .. 120
      BY <1>2, <3>2 DEF Targeting
    <3>. QED BY <1>16, <3>3 DEF Length
  <2>3. (Turned = Scaled(From(Origin), <<gain.slow[2], gain.slow[1]>>))'
    <3>1. Scaled(From(Origin), <<gain.slow[2], gain.slow[1]>>)'
            = Scaled(From(pointer), <<gain.slow[2], gain.slow[1]>>)
      BY <1>13, <1>16 DEF Scaled, Pair
    <3>. QED BY <1>2, <1>15, <3>1
  <2>4. (Length(Turned) \in 1 .. 39 /\ Length(rest) >= 40)'
    BY <1>1, <1>4, <1>15 DEF Length, W
  <2>. QED BY <1>17, <2>1, <2>2, <2>3, <2>4 DEF Halfway
<1>19. OnScreen(pointer)'
  <2>1. pointer[1] + t[1] \in 0 .. 1919 /\ pointer[2] + t[2] \in 0 .. 1079
    <3> DEFINE k == pointer[1] + t[1]
               l == pointer[2] + t[2]
    <3>1. k \in Int /\ l \in Int
      BY <1>8, <1>9 DEF Ranges
    <3>2. 0 <= k /\ k <= 1919 /\ 0 <= l /\ l <= 1079
      BY <1>11
    <3> HIDE DEF k, l
    <3>3. k \in 0 .. 1919 /\ l \in 0 .. 1079
      BY <3>1, <3>2
    <3>. QED BY <3>3 DEF k, l
  <2>2. <<pointer[1] + t[1], pointer[2] + t[2]>> \in (0 .. 1919) \X (0 .. 1079)
    BY <2>1
  <2>. QED BY <1>12, <2>2 DEF OnScreen
<1>. QED BY <1>3, <1>13, <1>18, <1>19 DEF Converging, Moving, FastKnown, SlowKnown, Near
\* The two swipes of a fine move, on one axis, make of w what one swipe of w would, give or
\* take one more rounding.
LEMMA TwoSwipes ==
  ASSUME NEW k \in Int, NEW l \in Int, NEW a \in Int, NEW r \in Int, NEW w \in Int, w = r + a,
         NEW n \in Nat \ {0}, NEW d \in Nat \ {0}, Near(k, a * n, d), Near(l, r * n, d)
  PROVE  /\ -(2 * d) <= 2 * ((k + l) * d) - 2 * (w * n)
         /\ 2 * ((k + l) * d) - 2 * (w * n) <= 2 * d
<1>1. k * d \in Int /\ l * d \in Int /\ a * n \in Int /\ r * n \in Int
  OBVIOUS
<1>2. (k + l) * d = k * d + l * d /\ w * n = r * n + a * n
  OBVIOUS
<1>. QED BY <1>1, <1>2 DEF Near

LEMMA BackStep ==
  ASSUME PtrInv, Converging, view = "desktop", StepBack, Shows("slow") PROVE Converging'
<1> DEFINE W == Turned
           A == Away(rest)
           p == Origin
           t1 == Scaled(A, real.slow)
           t2 == Scaled(rest, real.slow)
           T == <<t1[1] + t2[1], t1[2] + t2[2]>>
           n == real.slow[1]
           d == real.slow[2]
<1>1. /\ gain \in [Speeds -> Fraction] /\ real \in AppGains /\ pointer \in Point /\ "slow" \in Speeds
      /\ rest \in Point /\ goal \in Goals /\ left \in Nat /\ SlowGain /\ Halfway /\ at = "back"
  BY DEF StepBack, PtrInv, PtrTyped, Speeds, Converging, SlowGain
<1>2. /\ OnScreen(p) /\ Enough(p) /\ Length(From(p)) \in 7 .. 120
      /\ W = Scaled(From(p), <<gain.slow[2], gain.slow[1]>>) /\ Length(W) \in 1 .. 39 /\ Length(rest) >= 40
  BY <1>1 DEF Halfway
<1>3. Targeting(p) /\ Length(From(p)) > 6
  BY <1>1, <1>2 DEF Targeting
<1>4. n \in Nat \ {0} /\ d \in Nat \ {0}
  BY <1>1, AppGain
<1>5. A \in Point
  BY <1>1, ZoneAssumption DEF Away, Pair, Point
<1>6. t1 \in Point /\ Near(t1[1], A[1] * n, d) /\ Near(t1[2], A[2] * n, d)
  BY <1>1, <1>5, AppMoves
<1>7. t2 \in Point /\ Near(t2[1], rest[1] * n, d) /\ Near(t2[2], rest[2] * n, d)
  BY <1>1, AppMoves
<1>8. W = <<rest[1] + A[1], rest[2] + A[2]>> /\ p = <<pointer[1] - t1[1], pointer[2] - t1[2]>>
  BY DEF Turned, Origin, Pair
<1>9. W[1] = rest[1] + A[1] /\ W[2] = rest[2] + A[2]
  BY <1>8
<1>10. p[1] = pointer[1] - t1[1] /\ p[2] = pointer[2] - t1[2]
  BY <1>8
<1>11. T[1] = t1[1] + t2[1] /\ T[2] = t1[2] + t2[2]
  OBVIOUS
<1>12. A = Away(rest)
  OBVIOUS
<1>13. t2 = Scaled(rest, real["slow"])
  OBVIOUS
<1>14. T = <<t1[1] + t2[1], t1[2] + t2[2]>>
  OBVIOUS
<1> HIDE DEF W, A, p, t1, t2, T, n, d
<1>15. /\ rest[1] \in Int /\ rest[2] \in Int /\ A[1] \in Int /\ A[2] \in Int
       /\ t1[1] \in Int /\ t1[2] \in Int /\ t2[1] \in Int /\ t2[2] \in Int
       /\ pointer[1] \in Int /\ pointer[2] \in Int
  BY <1>1, <1>5, <1>6, <1>7, PointIs
<1>16. Length(rest) <= 79
  <2>1. \A i \in 1 .. 2 : A[i] \in {-40, 0, 40}
    BY <1>12, DeviceAssumption DEF Away, Pair
  <2>2. A[1] \in {-40, 0, 40} /\ A[2] \in {-40, 0, 40}
    BY <2>1
  <2>3. W[1] \in Int /\ W[2] \in Int /\ Length(W) <= 39
    BY <1>2, <1>9, <1>15
  <2>4. -39 <= W[1] /\ W[1] <= 39 /\ -39 <= W[2] /\ W[2] <= 39
    BY <2>3, LengthIs
  <2>5. -79 <= rest[1] /\ rest[1] <= 79
    BY <1>9, <1>15, <2>2, <2>4
  <2>6. -79 <= rest[2] /\ rest[2] <= 79
    BY <1>9, <1>15, <2>2, <2>4
  <2>. QED BY <1>15, <2>5, <2>6, LengthIs
<1>17. Commanded(rest, "slow") = rest
  <2>1. Length(rest) \in Nat
    BY <1>15, LengthIs
  <2>. QED BY <1>1, <1>2, <1>16, <2>1, Unstretched
<1>18. SlowTurn(p, T)
  <2>1. ASSUME NEW i \in 1 .. 2
        PROVE  /\ T[i] \in Int
               /\ -(2 * d) <= 2 * (T[i] * d) - 2 * (W[i] * n)
               /\ 2 * (T[i] * d) - 2 * (W[i] * n) <= 2 * d
    <3>1. CASE i = 1
      <4>1. W[1] \in Int /\ t1[1] + t2[1] \in Int
        BY <1>9, <1>15
      <4>2. /\ -(2 * d) <= 2 * ((t1[1] + t2[1]) * d) - 2 * (W[1] * n)
            /\ 2 * ((t1[1] + t2[1]) * d) - 2 * (W[1] * n) <= 2 * d
        BY <1>4, <1>6, <1>7, <1>9, <1>15, <4>1, TwoSwipes
      <4>. QED BY <1>11, <3>1, <4>1, <4>2
    <3>2. CASE i = 2
      <4>1. W[2] \in Int /\ t1[2] + t2[2] \in Int
        BY <1>9, <1>15
      <4>2. /\ -(2 * d) <= 2 * ((t1[2] + t2[2]) * d) - 2 * (W[2] * n)
            /\ 2 * ((t1[2] + t2[2]) * d) - 2 * (W[2] * n) <= 2 * d
        BY <1>4, <1>6, <1>7, <1>9, <1>15, <4>1, TwoSwipes
      <4>. QED BY <1>11, <3>2, <4>1, <4>2
    <3>. QED BY <3>1, <3>2
  <2>. QED BY <1>2, <2>1 DEF SlowTurn, n, d
<1>19. pointer' = <<pointer[1] + t2[1], pointer[2] + t2[2]>> /\ swipe'.delta = rest
  <2>1. /\ 0 <= p[1] + T[1] /\ p[1] + T[1] <= 1919
        /\ 0 <= p[2] + T[2] /\ p[2] + T[2] <= 1079
    BY <1>3, <1>18, SlowStays
  <2>2. p[1] + T[1] = pointer[1] + t2[1] /\ p[2] + T[2] = pointer[2] + t2[2]
    BY <1>10, <1>11, <1>15
  <2>3. Swipe(rest, "slow") /\ view = "desktop"
    BY DEF StepBack
  <2>4. /\ 0 <= pointer[1] + t2[1] /\ pointer[1] + t2[1] <= 1919
        /\ 0 <= pointer[2] + t2[2] /\ pointer[2] + t2[2] <= 1079
    BY <2>1, <2>2
  <2>. QED BY <1>1, <1>7, <1>13, <1>17, <2>3, <2>4, SwipeMoves
<1>20. SlowKnown(gain'.slow, real.slow) /\ gain'.fast = gain.fast
  BY <1>1, <1>2, <1>19, SlowLearns DEF Shows, t2
<1>21. pointer' = <<p[1] + T[1], p[2] + T[2]>>
  <2>1. p[1] + T[1] = pointer[1] + t2[1] /\ p[2] + T[2] = pointer[2] + t2[2]
    BY <1>10, <1>11, <1>15
  <2>. QED BY <1>19, <2>1
<1>22. OnScreen(pointer)' /\ left' \in Nat /\ Enough(pointer)'
  <2>1. left' = left - 1 /\ goal' = goal /\ real' = real
    BY DEF StepBack
  <2>. QED BY <1>1, <1>2, <1>3, <1>18, <1>20, <1>21, <2>1, SlowEnds
<1>. QED BY <1>1, <1>20, <1>22, Settled DEF StepBack, Shows
(* --------------------------- fast moves of a placement ------------------- *)

\* A swipe that the screen's edge stops has moved the pointer beyond its target, from
\* which the edge is at least M away.
LEMMA ClipAxis ==
  ASSUME NEW p \in Int, NEW g \in Int, NEW t \in Int, NEW S \in Int, NEW M \in Nat,
         0 <= p, p <= S, M <= g, g <= S - M, g - p >= 0 => t >= 0, g - p <= 0 => t <= 0
  PROVE  LET A == Clamp(0, S, p + t) - p IN
         /\ Abs(A) <= Abs(t) /\ A \in Int
         /\ A = t \/ Abs(A) >= Abs(g - p) + M
<1>1. CASE p + t < 0
  BY <1>1 DEF Clamp, Abs
<1>2. CASE p + t > S
  BY <1>2 DEF Clamp, Abs
<1>3. CASE 0 <= p + t /\ p + t <= S
  BY <1>3 DEF Clamp, Abs
<1>. QED BY <1>1, <1>2, <1>3

\* A swipe that the edge has stopped: the gain m / a was taken for less than it is, x pixels
\* were wanted, l were sent, and the pointer moved by k.
Stopped(m, a, n, d, x, w, l, k, M) ==
  /\ m \in Nat \ {0} /\ a \in Nat \ {0} /\ n \in Nat \ {0} /\ d \in Nat \ {0}
  /\ x \in Nat /\ w \in Nat /\ l \in Nat /\ k \in Nat /\ Near(w, x * a, m) /\ l <= w
  /\ (M = 459 /\ x <= 1460) \/ (M = 250 /\ x <= 829)
  /\ k >= x + M /\ 2 * (k * d) <= 2 * (l * n) + d /\ 2 * n <= 5 * d

\* What is learnt from it is less than the app's gain still, but more than was known.
LEMMA RiseAxis ==
  ASSUME NEW m, NEW a, NEW n, NEW d, NEW x, NEW w, NEW l, NEW k, NEW M, Stopped(m, a, n, d, x, w, l, k, M)
  PROVE  /\ m = 6 /\ a = 5 => 25 * k >= 39 * l /\ 5 * k >= l
         /\ 25 * m >= 39 * a => 50 * k >= 101 * l /\ 5 * k >= l
         /\ ~(50 * m >= 101 * a)
<1>0. /\ m \in Nat \ {0} /\ a \in Nat \ {0} /\ n \in Nat \ {0} /\ d \in Nat \ {0}
      /\ x \in Nat /\ w \in Nat /\ l \in Nat /\ k \in Nat /\ Near(w, x * a, m) /\ l <= w
      /\ k >= x + M /\ 2 * (k * d) <= 2 * (l * n) + d /\ 2 * n <= 5 * d
  BY DEF Stopped
<1>1. (M = 459 /\ x <= 1460) \/ (M = 250 /\ x <= 829)
  BY DEF Stopped
<1>2. w * m \in Int /\ x * a \in Int /\ x * m \in Int
  BY <1>0
<1>3. 2 * (w * m) <= 2 * (x * a) + m
  BY <1>0, <1>2 DEF Near
<1>4. ASSUME m = 6, a = 5 PROVE 25 * k >= 39 * l /\ 5 * k >= l
  BY <1>0, <1>1, <1>3, <1>4
<1>5. ASSUME 25 * m >= 39 * a PROVE 50 * k >= 101 * l /\ 5 * k >= l
  <2>1. 39 * (x * a) <= 25 * (x * m)
    <3>1. x * (39 * a) <= x * (25 * m) /\ x * (39 * a) = 39 * (x * a) /\ x * (25 * m) = 25 * (x * m)
      BY <1>0, <1>5
    <3>. QED BY <3>1
  <2>2. (78 * w) * m <= (50 * x + 39) * m
    <3>1. (78 * w) * m = 78 * (w * m) /\ (50 * x + 39) * m = 50 * (x * m) + 39 * m
      BY <1>0
    <3>. QED BY <1>0, <1>2, <1>3, <2>1, <3>1
  <2>3. 78 * w <= 50 * x + 39
    <3>1. 78 * w \in Int /\ 50 * x + 39 \in Int
      BY <1>0
    <3>. QED BY <1>0, <2>2, <3>1, Cancel
  <2>. QED BY <1>0, <1>1, <2>3
<1>6. ASSUME 50 * m >= 101 * a PROVE FALSE
  <2>1. 101 * (x * a) <= 50 * (x * m)
    <3>1. x * (101 * a) <= x * (50 * m) /\ x * (101 * a) = 101 * (x * a) /\ x * (50 * m) = 50 * (x * m)
      BY <1>0, <1>6
    <3>. QED BY <3>1
  <2>2. (202 * w) * m <= (100 * x + 101) * m
    <3>1. (202 * w) * m = 202 * (w * m) /\ (100 * x + 101) * m = 100 * (x * m) + 101 * m
      BY <1>0
    <3>. QED BY <1>0, <1>2, <1>3, <2>1, <3>1
  <2>3. 202 * w <= 100 * x + 101
    <3>1. 202 * w \in Int /\ 100 * x + 101 \in Int
      BY <1>0
    <3>. QED BY <1>0, <2>2, <3>1, Cancel
  <2>4. 2 * k <= 5 * l + 1
    <3>1. l * (2 * n) <= l * (5 * d) /\ l * (2 * n) = 2 * (l * n) /\ l * (5 * d) = 5 * (l * d)
      BY <1>0
    <3>2. (2 * k) * d = 2 * (k * d) /\ (5 * l + 1) * d = 5 * (l * d) + d
      BY <1>0
    <3>3. (2 * k) * d <= (5 * l + 1) * d
      BY <1>0, <3>1, <3>2
    <3>4. 2 * k \in Int /\ 5 * l + 1 \in Int
      BY <1>0
    <3>. QED BY <1>0, <3>3, <3>4, Cancel
  <2>. QED BY <1>0, <1>1, <2>3, <2>4
<1>. QED BY <1>4, <1>5, <1>6
\* What a fast move sends, and what the app makes of it.
Sent == Commanded(Wanted, "fast")
Shift == Scaled(Sent, real.fast)

LEMMA FastHere ==
  ASSUME Moving, StepToward, Speed = "fast"
  PROVE  /\ Ranges(pointer) /\ Delta = From(pointer) /\ Wanted \in Point
         /\ gain.fast[1] \in Nat \ {0} /\ gain.fast[2] \in Nat \ {0}
         /\ Near(Wanted[1], From(pointer)[1] * gain.fast[2], gain.fast[1])
         /\ Near(Wanted[2], From(pointer)[2] * gain.fast[2], gain.fast[1])
         /\ \E f \in 0 .. 3, k \in 0 .. 3 :
              /\ FastKnown(f, gain.fast, real.fast) /\ Within(k, pointer) /\ (f = 0 \/ k = 3) /\ left >= f + k + 3
         /\ Abs(From(pointer)[1]) > 120 \/ Abs(From(pointer)[2]) > 120
<1>1. /\ gain \in [Speeds -> Fraction] /\ real \in AppGains /\ goal \in Point /\ pointer \in Point
      /\ goal \in Goals /\ OnScreen(pointer) /\ Enough(pointer) /\ "fast" \in Speeds
  BY DEF Moving, PtrInv, PtrTyped, Converging, Speeds
<1>2. Delta = From(pointer)
  BY DEF Delta, From, Moving, Pair
<1>3. Ranges(pointer)
  BY <1>1, Distances
<1>4. From(pointer)[1] \in Int /\ From(pointer)[2] \in Int
  BY <1>3 DEF Ranges
<1>5. Length(From(pointer)) \in Nat /\ Length(From(pointer)) > 120
  <2>1. FastAbove = 120
    BY DeviceAssumption
  <2>2. Length(From(pointer)) > 120
    BY <1>2, <2>1 DEF Speed
  <2>. QED BY <1>4, <2>2, LengthIs
<1>6. Abs(From(pointer)[1]) > 120 \/ Abs(From(pointer)[2]) > 120
  BY <1>5 DEF Length
<1>7. \E f \in 0 .. 3, k \in 0 .. 3 :
        /\ FastKnown(f, gain.fast, real.fast) /\ Within(k, pointer) /\ (f = 0 \/ k = 3) /\ left >= f + k + 3
  <2>1. ~(Length(From(pointer)) <= 120) /\ ~(Length(From(pointer)) <= 7) /\ ~(Length(From(pointer)) <= 6)
    BY <1>5
  <2>. QED BY <1>1, <2>1, Zenon DEF Enough
<1>8. gain.fast[1] \in Nat \ {0} /\ gain.fast[2] \in Nat \ {0}
  BY <1>1 DEF Fraction
<1>9. Wanted \in Point
  BY <1>1, WantedTyped DEF Moving
<1>10. /\ Wanted[1] = Round(From(pointer)[1] * gain.fast[2], gain.fast[1])
       /\ Wanted[2] = Round(From(pointer)[2] * gain.fast[2], gain.fast[1])
  BY <1>2 DEF Wanted, Scaled, Pair
<1>11. /\ From(pointer)[1] * gain.fast[2] \in Int
       /\ From(pointer)[2] * gain.fast[2] \in Int
  BY <1>4, <1>8
<1>12. /\ Near(Wanted[1], From(pointer)[1] * gain.fast[2], gain.fast[1])
       /\ Near(Wanted[2], From(pointer)[2] * gain.fast[2], gain.fast[1])
  BY <1>8, <1>10, <1>11, RoundNear
<1>. QED BY <1>2, <1>3, <1>6, <1>7, <1>8, <1>9, <1>12

LEMMA FastSends ==
  ASSUME Moving, StepToward, Speed = "fast"
  PROVE  /\ Sent \in Point /\ Sent[1] = Clamp(-1600, 1600, Wanted[1]) /\ Sent[2] = Clamp(-670, 670, Wanted[2])
         /\ Shift \in Point
         /\ Near(Shift[1], Sent[1] * real.fast[1], real.fast[2])
         /\ Near(Shift[2], Sent[2] * real.fast[1], real.fast[2])
         /\ swipe'.delta = Sent
         /\ pointer' = <<Clamp(0, 1919, pointer[1] + Shift[1]), Clamp(0, 1079, pointer[2] + Shift[2])>>
<1>1. /\ real \in AppGains /\ pointer \in Point /\ "fast" \in Speeds /\ Wanted \in Point
  BY FastHere DEF Moving, PtrInv, PtrTyped, Speeds
<1>2. Sent \in Point
  BY <1>1, CommandedFits DEF Sent
<1>3. /\ Shift \in Point
      /\ Near(Shift[1], Sent[1] * real.fast[1], real.fast[2])
      /\ Near(Shift[2], Sent[2] * real.fast[1], real.fast[2])
  BY <1>1, <1>2, AppMoves DEF Shift
<1>4. Sent[1] = Clamp(-1600, 1600, Wanted[1]) /\ Sent[2] = Clamp(-670, 670, Wanted[2])
  <2>1. /\ SafeLow[1] - SafeHigh[1] = -1600 /\ SafeHigh[1] - SafeLow[1] = 1600
        /\ SafeLow[2] - SafeHigh[2] = -670 /\ SafeHigh[2] - SafeLow[2] = 670
    BY DeviceAssumption
  <2>2. Sent = <<Clamp(SafeLow[1] - SafeHigh[1], SafeHigh[1] - SafeLow[1], Wanted[1]),
                 Clamp(SafeLow[2] - SafeHigh[2], SafeHigh[2] - SafeLow[2], Wanted[2])>>
    BY DEF Sent, Commanded, Pair
  <2>. QED BY <2>1, <2>2
<1>5. Swipe(Wanted, "fast") /\ Commanded(Wanted, "fast") = Sent /\ view = "desktop" /\ Shift = Scaled(Sent, real["fast"])
  BY DEF StepToward, Moving, Sent, Shift
<1>. QED BY <1>1, <1>2, <1>3, <1>4, <1>5, SwipeMoves

\* How far it moves the pointer, and how long it is.
Moved == Pair(LAMBDA i : pointer'[i] - pointer[i])

FastLeg(m, a, n, d, x, w, c, t, z) ==
  /\ m \in Nat \ {0} /\ a \in Nat \ {0} /\ n \in Nat \ {0} /\ d \in Nat \ {0}
  /\ x \in Int /\ w \in Int /\ c \in Int /\ t \in Int /\ z \in {1600, 670} /\ c = Clamp(-z, z, w)
  /\ Near(w, x * a, m) /\ Near(t, c * n, d) /\ m <= 3 * a

LEMMA FastAxis ==
  ASSUME NEW m, NEW a, NEW n, NEW d, NEW x, NEW w, NEW c, NEW t, NEW z, FastLeg(m, a, n, d, x, w, c, t, z)
  PROVE  /\ (x >= 0 => t >= 0) /\ (x <= 0 => t <= 0)
         /\ Abs(x) \in Nat /\ Abs(w) \in Nat /\ Abs(c) \in Nat /\ Abs(c) <= Abs(w) /\ Near(Abs(w), Abs(x) * a, m)
         /\ Abs(t) \in Nat /\ Near(Abs(t), Abs(c) * n, d)
         /\ Abs(x) > 120 => Abs(c) >= 40
<1>0. /\ m \in Nat \ {0} /\ a \in Nat \ {0} /\ n \in Nat \ {0} /\ d \in Nat \ {0}
      /\ x \in Int /\ w \in Int /\ c \in Int /\ t \in Int /\ z \in {1600, 670} /\ c = Clamp(-z, z, w)
      /\ Near(w, x * a, m) /\ Near(t, c * n, d) /\ m <= 3 * a
  BY DEF FastLeg
<1>1. x * a \in Int /\ (x >= 0 => x * a >= 0) /\ (x <= 0 => x * a <= 0)
  BY <1>0
<1>2. (x >= 0 => w >= 0) /\ (x <= 0 => w <= 0)
  BY <1>0, <1>1, NearSign
<1>3. (w >= 0 => c >= 0) /\ (w <= 0 => c <= 0)
  BY <1>0 DEF Clamp
<1>4. c * n \in Int /\ (c >= 0 => c * n >= 0) /\ (c <= 0 => c * n <= 0)
  BY <1>0
<1>5. (c >= 0 => t >= 0) /\ (c <= 0 => t <= 0)
  BY <1>0, <1>4, NearSign
<1>6. Abs(w) \in Nat /\ Abs(x) \in Nat /\ Near(Abs(w), Abs(x) * a, m)
  <2>1. a \in Nat
    BY <1>0
  <2>. QED BY <1>0, <2>1, NearAbs
<1>7. Abs(t) \in Nat /\ Abs(c) \in Nat /\ Near(Abs(t), Abs(c) * n, d)
  <2>1. n \in Nat
    BY <1>0
  <2>. QED BY <1>0, <2>1, NearAbs
<1>8. Abs(c) <= Abs(w) /\ (Abs(w) >= 40 => Abs(c) >= 40)
  BY <1>0 DEF Clamp, Abs
<1>9. Abs(x) > 120 => Abs(w) >= 40
  <2> SUFFICES ASSUME Abs(x) > 120 PROVE Abs(w) >= 40
    OBVIOUS
  <2> DEFINE y == Abs(x)
             v == Abs(w)
  <2>1. y \in Nat /\ v \in Nat /\ Near(v, y * a, m) /\ y > 120
    BY <1>6
  <2> HIDE DEF y, v
  <2>2. v * m \in Int /\ y * a \in Int /\ 121 * a <= y * a
    BY <1>0, <2>1, Widen
  <2>3. v >= 40
    <3>1. (2 * v) * m = 2 * (v * m)
      BY <1>0, <2>1
    <3>2. 79 * m <= (2 * v) * m
      BY <1>0, <2>1, <2>2, <3>1 DEF Near
    <3>3. 79 <= 2 * v
      BY <1>0, <2>1, <3>2, Cancel
    <3>. QED BY <2>1, <3>3
  <2>. QED BY <2>3 DEF v
<1>. QED BY <1>2, <1>3, <1>5, <1>6, <1>7, <1>8, <1>9

\* The move as a whole: k is how far the pointer moved, l is what was sent, T what the app
\* would have made of it on an endless screen; t and y are T's and k's on the longer axis.
Longer(k, l, T, t, y, x, M, n, d) ==
  /\ k \in Nat /\ l \in Nat /\ T \in Nat /\ t \in Nat /\ y \in Nat /\ n \in Nat \ {0} /\ d \in Nat \ {0}
  /\ y <= k /\ k <= T /\ Near(T, l * n, d) /\ Near(t, l * n, d) /\ (y = t \/ y >= x + M)
  /\ x \in Nat /\ M \in Nat

LEMMA LongerAxis ==
  ASSUME NEW k, NEW l, NEW T, NEW t, NEW y, NEW x, NEW M, NEW n, NEW d, Longer(k, l, T, t, y, x, M, n, d)
  PROVE  2 * (k * d) <= 2 * (l * n) + d /\ (Near(k, l * n, d) \/ k >= x + M)
<1>0. /\ k \in Nat /\ l \in Nat /\ T \in Nat /\ t \in Nat /\ y \in Nat /\ n \in Nat \ {0} /\ d \in Nat \ {0}
      /\ y <= k /\ k <= T /\ Near(T, l * n, d) /\ Near(t, l * n, d) /\ (y = t \/ y >= x + M)
      /\ x \in Nat /\ M \in Nat
  BY DEF Longer
<1>1. k * d \in Int /\ T * d \in Int /\ t * d \in Int /\ l * n \in Int
  BY <1>0
<1>2. k * d <= T * d
  BY <1>0, Widen
<1>3. 2 * (k * d) <= 2 * (l * n) + d
  BY <1>0, <1>1, <1>2 DEF Near
<1>4. CASE y = t
  <2>1. t * d <= k * d
    BY <1>0, <1>4, Widen
  <2>. QED BY <1>0, <1>1, <1>3, <2>1 DEF Near
<1>5. CASE y >= x + M
  BY <1>0, <1>3, <1>5
<1>. QED BY <1>0, <1>4, <1>5

\* What is learnt from a fast move: the app's gain, or more of it than was known.
LEMMA FastLearns ==
  ASSUME gain \in [Speeds -> Fraction], Gained("fast"), swipe'.delta = Sent,
         Length(Moved) \in Nat, Length(Moved) > 0, Length(Sent) \in Nat, Length(Sent) > 0,
         Learnt(Length(Moved), Length(Sent)) = <<Length(Moved), Length(Sent)>>
  PROVE  gain'.fast = <<Length(Moved), Length(Sent)>> /\ gain'.slow = gain.slow
<1>1. gain' = [gain EXCEPT !["fast"] = <<Length(Moved), Length(Sent)>>]
  BY DEF Gained, Moved
<1>. QED BY <1>1 DEF Speeds

\* Both axes of it.
LEMMA FastLegs ==
  ASSUME Moving, StepToward, Speed = "fast"
  PROVE  /\ FastLeg(gain.fast[1], gain.fast[2], real.fast[1], real.fast[2],
                    From(pointer)[1], Wanted[1], Sent[1], Shift[1], 1600)
         /\ FastLeg(gain.fast[1], gain.fast[2], real.fast[1], real.fast[2],
                    From(pointer)[2], Wanted[2], Sent[2], Shift[2], 670)
<1>1. /\ gain.fast[1] \in Nat \ {0} /\ gain.fast[2] \in Nat \ {0}
      /\ Near(Wanted[1], From(pointer)[1] * gain.fast[2], gain.fast[1])
      /\ Near(Wanted[2], From(pointer)[2] * gain.fast[2], gain.fast[1])
      /\ Wanted \in Point
  BY FastHere
<1>2. gain.fast[1] <= 3 * gain.fast[2]
  BY FastHere DEF FastKnown
<1>3. real.fast[1] \in Nat \ {0} /\ real.fast[2] \in Nat \ {0}
  BY AppGain DEF Moving, PtrInv, PtrTyped, Converging, StepToward
<1>4. /\ Sent \in Point /\ Sent[1] = Clamp(-1600, 1600, Wanted[1]) /\ Sent[2] = Clamp(-670, 670, Wanted[2])
      /\ Shift \in Point
      /\ Near(Shift[1], Sent[1] * real.fast[1], real.fast[2])
      /\ Near(Shift[2], Sent[2] * real.fast[1], real.fast[2])
  BY FastSends
<1>5. /\ Wanted[1] \in Int /\ Wanted[2] \in Int /\ Sent[1] \in Int /\ Sent[2] \in Int
      /\ Shift[1] \in Int /\ Shift[2] \in Int
  BY <1>1, <1>4, PointIs
<1>6. From(pointer)[1] \in Int /\ From(pointer)[2] \in Int
  BY FastHere DEF Ranges
<1>. QED BY <1>1, <1>2, <1>3, <1>4, <1>5, <1>6 DEF FastLeg

\* How far it moves the pointer on each axis.
LEMMA FastMoved ==
  ASSUME Moving, StepToward, Speed = "fast"
  PROVE  /\ Moved[1] \in Int /\ Moved[2] \in Int
         /\ Moved[1] = Clamp(0, 1919, pointer[1] + Shift[1]) - pointer[1]
         /\ Moved[2] = Clamp(0, 1079, pointer[2] + Shift[2]) - pointer[2]
         /\ Abs(Moved[1]) <= Abs(Shift[1]) /\ Abs(Moved[2]) <= Abs(Shift[2])
         /\ Moved[1] = Shift[1] \/ Abs(Moved[1]) >= Abs(From(pointer)[1]) + 459
         /\ Moved[2] = Shift[2] \/ Abs(Moved[2]) >= Abs(From(pointer)[2]) + 250
<1> DEFINE p1 == pointer[1]
           p2 == pointer[2]
           g1 == goal[1]
           g2 == goal[2]
           t1 == Shift[1]
           t2 == Shift[2]
<1>1. Moved = <<pointer'[1] - pointer[1], pointer'[2] - pointer[2]>>
  BY DEF Moved, Pair
<1>2. pointer' = <<Clamp(0, 1919, pointer[1] + Shift[1]), Clamp(0, 1079, pointer[2] + Shift[2])>>
  BY FastSends
<1>3. /\ Moved[1] = Clamp(0, 1919, p1 + t1) - p1
      /\ Moved[2] = Clamp(0, 1079, p2 + t2) - p2
  BY <1>1, <1>2
<1>4. /\ p1 \in Int /\ 0 <= p1 /\ p1 <= 1919 /\ p2 \in Int /\ 0 <= p2 /\ p2 <= 1079
      /\ g1 \in Int /\ 460 <= g1 /\ g1 <= 1460 /\ g2 \in Int /\ 250 <= g2 /\ g2 <= 626
      /\ From(pointer)[1] = g1 - p1 /\ From(pointer)[2] = g2 - p2
  BY FastHere DEF Ranges
<1>5. /\ t1 \in Int /\ t2 \in Int
      /\ (From(pointer)[1] >= 0 => t1 >= 0) /\ (From(pointer)[1] <= 0 => t1 <= 0)
      /\ (From(pointer)[2] >= 0 => t2 >= 0) /\ (From(pointer)[2] <= 0 => t2 <= 0)
  <2>1. t1 \in Int /\ t2 \in Int
    BY FastLegs DEF FastLeg
  <2>2. (From(pointer)[1] >= 0 => t1 >= 0) /\ (From(pointer)[1] <= 0 => t1 <= 0)
    BY FastLegs, FastAxis
  <2>3. (From(pointer)[2] >= 0 => t2 >= 0) /\ (From(pointer)[2] <= 0 => t2 <= 0)
    BY FastLegs, FastAxis
  <2>. QED BY <2>1, <2>2, <2>3
<1> HIDE DEF p1, p2, g1, g2, t1, t2
<1>6. /\ Abs(Moved[1]) <= Abs(t1) /\ Moved[1] \in Int
      /\ Moved[1] = t1 \/ Abs(Moved[1]) >= Abs(g1 - p1) + 459
  <2>1. (g1 - p1 >= 0 => t1 >= 0) /\ (g1 - p1 <= 0 => t1 <= 0)
    BY <1>4, <1>5
  <2>2. 459 <= g1 /\ g1 <= 1919 - 459
    BY <1>4
  <2>. QED BY <1>3, <1>4, <1>5, <2>1, <2>2, ClipAxis
<1>7. /\ Abs(Moved[2]) <= Abs(t2) /\ Moved[2] \in Int
      /\ Moved[2] = t2 \/ Abs(Moved[2]) >= Abs(g2 - p2) + 250
  <2>1. (g2 - p2 >= 0 => t2 >= 0) /\ (g2 - p2 <= 0 => t2 <= 0)
    BY <1>4, <1>5
  <2>2. 250 <= g2 /\ g2 <= 1079 - 250
    BY <1>4
  <2>. QED BY <1>3, <1>4, <1>5, <2>1, <2>2, ClipAxis
<1>. QED BY <1>3, <1>4, <1>6, <1>7 DEF p1, p2, t1, t2
LEMMA LengthOf ==
  ASSUME NEW c, c[1] \in Int, c[2] \in Int
  PROVE  /\ Length(c) \in Nat /\ Abs(c[1]) \in Nat /\ Abs(c[2]) \in Nat
         /\ Abs(c[1]) <= Length(c) /\ Abs(c[2]) <= Length(c)
         /\ Length(c) = Abs(c[1]) \/ Length(c) = Abs(c[2])
BY DEF Length, Abs

\* How long a fast move is, and what it shows of the app's gain: the gain itself, unless the
\* screen's edge stopped the axis that was to move most.
LEMMA FastLong ==
  ASSUME Moving, StepToward, Speed = "fast"
  PROVE  LET k == Length(Moved)
             l == Length(Sent)
             n == real.fast[1]
             d == real.fast[2]
             m == gain.fast[1]
             a == gain.fast[2]
         IN /\ k \in Nat /\ l \in Nat /\ l >= 40 /\ 2 * (k * d) <= 2 * (l * n) + d
            /\ \/ Near(k, l * n, d)
               \/ Stopped(m, a, n, d, Abs(From(pointer)[1]), Abs(Wanted[1]), l, k, 459)
               \/ Stopped(m, a, n, d, Abs(From(pointer)[2]), Abs(Wanted[2]), l, k, 250)
<1> DEFINE k == Length(Moved)
           l == Length(Sent)
           T == Length(Shift)
           n == real.fast[1]
           d == real.fast[2]
           m == gain.fast[1]
           a == gain.fast[2]
           x1 == Abs(From(pointer)[1])
           x2 == Abs(From(pointer)[2])
           w1 == Abs(Wanted[1])
           w2 == Abs(Wanted[2])
           y1 == Abs(Moved[1])
           y2 == Abs(Moved[2])
           t1 == Abs(Shift[1])
           t2 == Abs(Shift[2])
           c1 == Abs(Sent[1])
           c2 == Abs(Sent[2])
<1>1. /\ m \in Nat \ {0} /\ a \in Nat \ {0} /\ n \in Nat \ {0} /\ d \in Nat \ {0}
      /\ Sent[1] \in Int /\ Sent[2] \in Int /\ Shift[1] \in Int /\ Shift[2] \in Int
  BY FastLegs DEF FastLeg
<1>2. /\ x1 \in Nat /\ w1 \in Nat /\ c1 \in Nat /\ c1 <= w1 /\ Near(w1, x1 * a, m)
      /\ t1 \in Nat /\ Near(t1, c1 * n, d) /\ (x1 > 120 => c1 >= 40)
  BY FastLegs, FastAxis
<1>3. /\ x2 \in Nat /\ w2 \in Nat /\ c2 \in Nat /\ c2 <= w2 /\ Near(w2, x2 * a, m)
      /\ t2 \in Nat /\ Near(t2, c2 * n, d) /\ (x2 > 120 => c2 >= 40)
  BY FastLegs, FastAxis
<1>4. /\ Moved[1] \in Int /\ Moved[2] \in Int /\ y1 <= t1 /\ y2 <= t2
      /\ y1 = t1 \/ y1 >= x1 + 459
      /\ y2 = t2 \/ y2 >= x2 + 250
  BY FastMoved
<1>5. x1 <= 1460 /\ x2 <= 829
  BY FastHere DEF Ranges, Abs
<1>6. x1 > 120 \/ x2 > 120
  BY FastHere
<1>7. k \in Nat /\ y1 \in Nat /\ y2 \in Nat /\ y1 <= k /\ y2 <= k /\ (k = y1 \/ k = y2)
  BY <1>4, LengthOf
<1>8. l \in Nat /\ c1 <= l /\ c2 <= l /\ (l = c1 \/ l = c2)
  BY <1>1, LengthOf
<1>9. T \in Nat /\ t1 <= T /\ t2 <= T
  BY <1>1, LengthOf
<1>10. Near(T, l * n, d)
  BY <1>1, <1>2, <1>3, LongestNear, FastSends
<1>11. 2 * n <= 5 * d
  BY AppGain DEF Moving, PtrInv, PtrTyped, StepToward
<1> HIDE DEF k, l, T, n, d, m, a, x1, x2, w1, w2, y1, y2, t1, t2, c1, c2
<1>12. k <= T /\ l >= 40
  BY <1>2, <1>3, <1>4, <1>6, <1>7, <1>8, <1>9
<1>13. CASE l = c1
  <2>1. Near(t1, l * n, d)
    BY <1>2, <1>13
  <2>2. 459 \in Nat
    OBVIOUS
  <2>3. Longer(k, l, T, t1, y1, x1, 459, n, d)
    BY <1>1, <1>2, <1>4, <1>7, <1>8, <1>9, <1>10, <1>12, <2>1, <2>2 DEF Longer
  <2>4. 2 * (k * d) <= 2 * (l * n) + d /\ (Near(k, l * n, d) \/ k >= x1 + 459)
    BY <2>3, LongerAxis
  <2>5. k >= x1 + 459 => Stopped(m, a, n, d, x1, w1, l, k, 459)
    BY <1>1, <1>2, <1>5, <1>7, <1>8, <1>11, <1>13, <2>4 DEF Stopped
  <2>. QED BY <1>7, <1>8, <1>12, <2>4, <2>5 DEF k, l, n, d, m, a, x1, w1
<1>14. CASE l = c2
  <2>1. Near(t2, l * n, d)
    BY <1>3, <1>14
  <2>2. 250 \in Nat
    OBVIOUS
  <2>3. Longer(k, l, T, t2, y2, x2, 250, n, d)
    BY <1>1, <1>3, <1>4, <1>7, <1>8, <1>9, <1>10, <1>12, <2>1, <2>2 DEF Longer
  <2>4. 2 * (k * d) <= 2 * (l * n) + d /\ (Near(k, l * n, d) \/ k >= x2 + 250)
    BY <2>3, LongerAxis
  <2>5. k >= x2 + 250 => Stopped(m, a, n, d, x2, w2, l, k, 250)
    BY <1>1, <1>3, <1>5, <1>7, <1>8, <1>11, <1>14, <2>4 DEF Stopped
  <2>. QED BY <1>7, <1>8, <1>12, <2>4, <2>5 DEF k, l, n, d, m, a, x2, w2
<1>. QED BY <1>8, <1>13, <1>14

LEMMA FastSettled ==
  ASSUME Moving, StepToward, NEW f \in 0 .. 3, NEW k \in 0 .. 3,
         FastKnown(f, gain'.fast, real.fast), gain'.slow = gain.slow, Within(k, pointer)', f = 0 \/ k = 3,
         left' >= f + k + 3, OnScreen(pointer)', sight' = pointer'
  PROVE  Converging'
<1>1. /\ at' = "move" /\ goal' = goal /\ real' = real /\ goal \in Goals /\ left' \in Nat
  BY DEF StepToward, Moving, Converging
<1>3. FastKnown(f, gain.fast, real.fast)'
  BY <1>1 DEF FastKnown, Near
<1>4. (gain.slow = <<3, 5>> \/ SlowKnown(gain.slow, real.slow))'
  BY <1>1 DEF SlowKnown, Near, Moving, Converging
<1>5. Enough(pointer)'
  BY <1>3 DEF Enough
<1>. QED BY <1>1, <1>3, <1>4, <1>5 DEF Converging
\* No target is further away than three known swipes.
LEMMA Everywhere == ASSUME OnScreen(pointer)', (goal \in Goals)' PROVE Within(3, pointer)'
<1>1. pointer' \in (0 .. 1919) \X (0 .. 1079)
  BY DEF OnScreen
<1>2. goal' \in (460 .. 1460) \X (250 .. 626)
  BY DeviceAssumption
<1> DEFINE p1 == pointer'[1]
           p2 == pointer'[2]
           g1 == goal'[1]
           g2 == goal'[2]
<1>3. p1 \in 0 .. 1919 /\ p2 \in 0 .. 1079
  BY <1>1
<1>4. g1 \in 460 .. 1460 /\ g2 \in 250 .. 626
  BY <1>2
<1>5. From(pointer)'[1] = g1 - p1 /\ From(pointer)'[2] = g2 - p2
  BY DEF From, Pair
<1> HIDE DEF p1, p2, g1, g2
<1>6. Abs(g1 - p1) <= 120 + 800 * 3 /\ Abs(g2 - p2) <= 120 + 335 * 3
  BY <1>3, <1>4 DEF Abs
<1>. QED BY <1>5, <1>6 DEF Within, Abs

\* A fast swipe ends on the screen, whatever the app makes of it.
LEMMA FastOnScreen == ASSUME Moving, StepToward, Speed = "fast" PROVE OnScreen(pointer)'
<1> DEFINE k == Clamp(0, 1919, pointer[1] + Shift[1])
           l == Clamp(0, 1079, pointer[2] + Shift[2])
<1>1. pointer' = <<k, l>>
  BY FastSends
<1>2. pointer[1] \in Int /\ pointer[2] \in Int /\ Shift[1] \in Int /\ Shift[2] \in Int
  BY FastHere, FastLegs DEF Ranges, FastLeg
<1>3. Clamp(0, 1919, pointer[1] + Shift[1]) \in 0 .. 1919 /\ Clamp(0, 1079, pointer[2] + Shift[2]) \in 0 .. 1079
  <2> DEFINE u == pointer[1] + Shift[1]
             v == pointer[2] + Shift[2]
  <2>1. u \in Int /\ v \in Int
    BY <1>2
  <2> HIDE DEF u, v
  <2>2. Clamp(0, 1919, u) \in 0 .. 1919 /\ Clamp(0, 1079, v) \in 0 .. 1079
    BY <2>1 DEF Clamp
  <2>. QED BY <2>2 DEF u, v
<1>4. <<k, l>> \in (0 .. 1919) \X (0 .. 1079)
  BY <1>3
<1>. QED BY <1>1, <1>4 DEF OnScreen

\* What is learnt when the gain shows.
LEMMA FastShown ==
  ASSUME Moving, StepToward, Speed = "fast", Shows("fast"),
         Near(Length(Moved), Length(Sent) * real.fast[1], real.fast[2])
  PROVE  FastKnown(0, gain'.fast, real.fast) /\ gain'.slow = gain.slow
<1> DEFINE k == Length(Moved)
           l == Length(Sent)
           n == real.fast[1]
           d == real.fast[2]
<1>1. k \in Nat /\ l \in Nat /\ l >= 40
  BY FastLong
<1>2. n \in Nat \ {0} /\ d \in Nat \ {0} /\ d <= 2 * n /\ 2 * n <= 5 * d
  BY AppGain DEF Moving, PtrInv, PtrTyped, StepToward
<1>3. Near(k, l * n, d)
  OBVIOUS
<1>4. gain \in [Speeds -> Fraction] /\ Gained("fast") /\ swipe'.delta = Sent
  BY FastSends DEF Shows, Moving, PtrInv, PtrTyped
<1> HIDE DEF k, l, n, d
<1>5. Learnt(k, l) = <<k, l>> /\ k <= 3 * l /\ k >= 19
  BY <1>1, <1>2, <1>3, KnownFast
<1>6. gain'.fast = <<k, l>> /\ gain'.slow = gain.slow
  <2>1. k > 0 /\ l > 0
    BY <1>1, <1>5
  <2>. QED BY <1>1, <1>4, <1>5, <2>1, FastLearns DEF k, l
<1>. QED BY <1>3, <1>5, <1>6 DEF FastKnown, n, d

\* With a known gain the pointer comes one swipe nearer.
LEMMA FastKnownStep ==
  ASSUME Moving, StepToward, Speed = "fast", Shows("fast"), NEW k \in 0 .. 3,
         FastKnown(0, gain.fast, real.fast), Within(k, pointer), left >= k + 3
  PROVE  Converging'
<1> DEFINE D1 == From(pointer)[1]
           D2 == From(pointer)[2]
           t1 == Shift[1]
           t2 == Shift[2]
           m == gain.fast[1]
           a == gain.fast[2]
           n == real.fast[1]
           d == real.fast[2]
<1>1. /\ pointer[1] \in Int /\ 0 <= pointer[1] /\ pointer[1] <= 1919
      /\ pointer[2] \in Int /\ 0 <= pointer[2] /\ pointer[2] <= 1079
      /\ goal[1] \in Int /\ 460 <= goal[1] /\ goal[1] <= 1460
      /\ goal[2] \in Int /\ 250 <= goal[2] /\ goal[2] <= 626
      /\ D1 = goal[1] - pointer[1] /\ D2 = goal[2] - pointer[2]
  BY FastHere DEF Ranges
<1>2. m >= 19 /\ Near(m, a * n, d) /\ m <= 3 * a
  BY DEF FastKnown
<1>3. d <= 2 * n /\ 2 * n <= 5 * d
  BY AppGain DEF Moving, PtrInv, PtrTyped, StepToward
<1>4. FastMove(m, a, n, d, D1, Wanted[1], Sent[1], t1) /\ Sent[1] = Clamp(-1600, 1600, Wanted[1])
  <2>1. FastLeg(m, a, n, d, D1, Wanted[1], Sent[1], t1, 1600)
    BY FastLegs
  <2>. QED BY <1>1, <1>2, <1>3, <2>1 DEF FastMove, FastLeg
<1>5. FastMove(m, a, n, d, D2, Wanted[2], Sent[2], t2) /\ Sent[2] = Clamp(-670, 670, Wanted[2])
  <2>1. FastLeg(m, a, n, d, D2, Wanted[2], Sent[2], t2, 670)
    BY FastLegs
  <2>. QED BY <1>1, <1>2, <1>3, <2>1 DEF FastMove, FastLeg
<1>6. /\ t1 >= D1 - 41 \/ t1 >= 0
      /\ t1 <= D1 + 41 \/ t1 <= 0
      /\ Abs(D1 - t1) <= 41 \/ 2 * Abs(D1 - t1) <= 2 * Abs(D1) - 1600
  <2>1. 1600 \in {1600, 670}
    OBVIOUS
  <2>. QED BY <1>4, <2>1, FastTravel
<1>7. /\ t2 >= D2 - 41 \/ t2 >= 0
      /\ t2 <= D2 + 41 \/ t2 <= 0
      /\ Abs(D2 - t2) <= 41 \/ 2 * Abs(D2 - t2) <= 2 * Abs(D2) - 670
  <2>1. 670 \in {1600, 670}
    OBVIOUS
  <2>. QED BY <1>5, <2>1, FastTravel
<1>8. t1 \in Int /\ t2 \in Int
  BY <1>4, <1>5 DEF FastMove
<1>9. Abs(D1) > 120 \/ Abs(D2) > 120
  BY FastHere
<1>10. Abs(D1) <= 120 + 800 * k /\ Abs(D2) <= 120 + 335 * k
  BY DEF Within
<1>11. Moved[1] = Clamp(0, 1919, pointer[1] + t1) - pointer[1] /\ Moved[2] = Clamp(0, 1079, pointer[2] + t2) - pointer[2]
  BY FastMoved
<1>12. pointer' = <<Clamp(0, 1919, pointer[1] + t1), Clamp(0, 1079, pointer[2] + t2)>>
  BY FastSends
<1>13. Abs(D1) \in Nat /\ Abs(D2) \in Nat /\ Abs(D1 - t1) \in Nat /\ Abs(D2 - t2) \in Nat
  <2> HIDE DEF t1, t2, D1, D2
  <2>. QED BY <1>1, <1>8 DEF Abs
<1>14. k >= 1
  BY <1>9, <1>10, <1>13
<1> HIDE DEF D1, D2, t1, t2, m, a, n, d
<1>15. Clamp(0, 1919, pointer[1] + t1) = pointer[1] + t1
  <2>1. 0 <= pointer[1] + t1 /\ pointer[1] + t1 <= 1919 /\ pointer[1] + t1 \in Int
    BY <1>1, <1>6, <1>8
  <2>. QED BY <2>1 DEF Clamp
<1>16. Clamp(0, 1079, pointer[2] + t2) = pointer[2] + t2
  <2>1. 0 <= pointer[2] + t2 /\ pointer[2] + t2 <= 1079 /\ pointer[2] + t2 \in Int
    BY <1>1, <1>7, <1>8
  <2>. QED BY <2>1 DEF Clamp
<1>17. From(pointer)'[1] = D1 - t1 /\ From(pointer)'[2] = D2 - t2
  <2>1. From(pointer)' = <<goal'[1] - pointer'[1], goal'[2] - pointer'[2]>>
    BY DEF From, Pair
  <2>2. pointer'[1] = pointer[1] + t1 /\ pointer'[2] = pointer[2] + t2 /\ goal' = goal
    BY <1>12, <1>15, <1>16 DEF StepToward
  <2>3. From(pointer)'[1] = goal[1] - (pointer[1] + t1) /\ From(pointer)'[2] = goal[2] - (pointer[2] + t2)
    BY <2>1, <2>2
  <2>4. goal[1] - (pointer[1] + t1) = D1 - t1 /\ goal[2] - (pointer[2] + t2) = D2 - t2
    BY <1>1, <1>8
  <2>. QED BY <2>3, <2>4
<1>18. Within(k - 1, pointer)'
  <2>1. Abs(D1 - t1) <= 120 + 800 * (k - 1) /\ Abs(D2 - t2) <= 120 + 335 * (k - 1)
    BY <1>6, <1>7, <1>10, <1>13, <1>14
  <2>. QED BY <1>17, <2>1 DEF Within, Abs
<1>19. Near(Length(Moved), Length(Sent) * real.fast[1], real.fast[2])
  <2>1. Moved[1] = t1 /\ Moved[2] = t2
    BY <1>1, <1>8, <1>11, <1>15, <1>16
  <2>2. Length(Moved) = Length(Shift)
    BY <2>1 DEF Length, t1, t2
  <2>3. Near(Length(Shift), Length(Sent) * real.fast[1], real.fast[2])
    <3>1. real.fast[1] \in Nat \ {0} /\ real.fast[2] \in Nat \ {0}
      BY FastLegs DEF FastLeg
    <3>. QED BY <3>1, FastSends, LongestNear
  <2>. QED BY <2>2, <2>3
<1>20. FastKnown(0, gain'.fast, real.fast) /\ gain'.slow = gain.slow
  BY <1>19, FastShown
<1>21. k - 1 \in 0 .. 3 /\ 0 \in 0 .. 3 /\ left' >= 0 + (k - 1) + 3
  BY <1>14 DEF StepToward, Moving, Converging
<1>22. OnScreen(pointer)'
  BY FastOnScreen
<1>. QED BY <1>18, <1>20, <1>21, <1>22, FastSettled DEF Shows

\* With an unknown one it is known better, wherever the pointer ends.
LEMMA FastUnknownStep ==
  ASSUME Moving, StepToward, Speed = "fast", Shows("fast"), NEW f \in 1 .. 3,
         FastKnown(f, gain.fast, real.fast), left >= f + 6
  PROVE  Converging'
<1> DEFINE k == Length(Moved)
           l == Length(Sent)
           n == real.fast[1]
           d == real.fast[2]
           m == gain.fast[1]
           a == gain.fast[2]
<1>1. OnScreen(pointer)' /\ Within(3, pointer)'
  <2>1. OnScreen(pointer)' /\ (goal \in Goals)'
    BY FastOnScreen DEF Moving, Converging, StepToward
  <2>. QED BY <2>1, Everywhere
<1>2. left \in Nat /\ left' = left - 1
  BY DEF StepToward, Moving, Converging
<1>3. CASE Near(k, l * n, d)
  <2>1. FastKnown(0, gain'.fast, real.fast) /\ gain'.slow = gain.slow
    BY <1>3, FastShown
  <2>2. 0 \in 0 .. 3 /\ 3 \in 0 .. 3 /\ left' >= 0 + 3 + 3
    BY <1>2
  <2>. QED BY <1>1, <2>1, <2>2, FastSettled DEF Shows
<1>4. ASSUME NEW x, NEW w, NEW M, Stopped(m, a, n, d, x, w, l, k, M) PROVE Converging'
  <2>1. k \in Nat /\ l \in Nat /\ l >= 40 /\ 2 * (k * d) <= 2 * (l * n) + d
    BY FastLong
  <2>2. n \in Nat \ {0} /\ d \in Nat \ {0} /\ 2 * n <= 5 * d
    BY AppGain DEF Moving, PtrInv, PtrTyped, StepToward
  <2>3. gain \in [Speeds -> Fraction] /\ Gained("fast") /\ swipe'.delta = Sent
    BY FastSends DEF Shows, Moving, PtrInv, PtrTyped
  <2>4. /\ f = 3 => m = 6 /\ a = 5
        /\ f = 2 => 25 * m >= 39 * a
        /\ f = 1 => 50 * m >= 101 * a
    BY DEF FastKnown
  <2> HIDE DEF k, l, n, d, m, a
  <2>5. /\ m = 6 /\ a = 5 => 25 * k >= 39 * l /\ 5 * k >= l
        /\ 25 * m >= 39 * a => 50 * k >= 101 * l /\ 5 * k >= l
        /\ ~(50 * m >= 101 * a)
    BY <1>4, RiseAxis
  <2>6. f # 1 /\ 5 * k >= l /\ (f = 3 => 25 * k >= 39 * l) /\ (f = 2 => 50 * k >= 101 * l)
    BY <2>4, <2>5
  <2>7. Learnt(k, l) = <<k, l>> /\ k <= 3 * l /\ k > 0
    BY <2>1, <2>2, <2>6, LearntFast
  <2>8. gain'.fast = <<k, l>> /\ gain'.slow = gain.slow
    <3>1. l > 0
      BY <2>1
    <3>. QED BY <2>1, <2>3, <2>7, <3>1, FastLearns DEF k, l
  <2>9. FastKnown(f - 1, gain'.fast, real.fast)
    BY <2>6, <2>7, <2>8 DEF FastKnown
  <2>10. f - 1 \in 0 .. 3 /\ 3 \in 0 .. 3 /\ left' >= (f - 1) + 3 + 3
    BY <1>2
  <2>. QED BY <1>1, <2>8, <2>9, <2>10, FastSettled DEF Shows
<1>. QED BY <1>3, <1>4, FastLong

LEMMA FastStep == ASSUME Moving, StepToward, Speed = "fast", Shows("fast") PROVE Converging'
<1>1. PICK f \in 0 .. 3, k \in 0 .. 3 :
        /\ FastKnown(f, gain.fast, real.fast) /\ Within(k, pointer) /\ (f = 0 \/ k = 3) /\ left >= f + k + 3
  BY FastHere
<1>2. CASE f = 0
  BY <1>1, <1>2, FastKnownStep
<1>3. CASE f # 0
  BY <1>1, <1>3, FastUnknownStep
<1>. QED BY <1>2, <1>3
(* --------------------------- the other steps ----------------------------- *)

\* What a placement starts from: attempts for every gain that may be known.
LEMMA Starting ==
  ASSUME Converging, OnScreen(pointer)', (goal \in Goals)', left' \in Nat, left' >= 9, sight' = pointer',
         at' = "move", UNCHANGED <<gain, real>>
  PROVE  Converging'
<1>1. PICK f \in 0 .. 3 : FastKnown(f, gain.fast, real.fast)
  BY DEF Converging
<1>2. FastKnown(f, gain.fast, real.fast)'
  BY <1>1 DEF FastKnown, Near
<1>3. Within(3, pointer)'
  BY Everywhere
<1>4. Enough(pointer)'
  <2>1. 3 \in 0 .. 3 /\ left' >= f + 3 + 3
    OBVIOUS
  <2>. QED BY <1>2, <1>3, <2>1 DEF Enough
<1>5. (gain.slow = <<3, 5>> \/ SlowKnown(gain.slow, real.slow))'
  BY DEF Converging, SlowKnown, Near
<1>. QED BY <1>2, <1>4, <1>5 DEF Converging

LEMMA PlaceStep == ASSUME PtrInv, Converging, Place PROVE Converging'
<1>1. /\ OnScreen(pointer)' /\ (goal \in Goals)' /\ at' = "move" /\ left' = Tries
      /\ UNCHANGED <<gain, real, sight, pointer>>
  BY DEF Place, Converging, OnScreen
<1>2. Tries \in Nat /\ Tries >= 10
  BY ZoneAssumption, DeviceAssumption
<1>3. CASE sight = pointer
  BY <1>1, <1>2, <1>3, Starting
<1>4. CASE sight # pointer
  <2>1. (\E f \in 0 .. 3 : FastKnown(f, gain.fast, real.fast))'
    BY <1>1 DEF Converging, FastKnown, Near
  <2>2. (gain.slow = <<3, 5>> \/ SlowKnown(gain.slow, real.slow))'
    BY <1>1 DEF Converging, SlowKnown, Near
  <2>3. Unseen'
    BY <1>1, <1>4 DEF Converging, Unseen
  <2>. QED BY <1>1, <1>2, <1>4, <2>1, <2>2, <2>3 DEF Converging
<1>. QED BY <1>3, <1>4

LEMMA ProvokeStep == ASSUME PtrInv, Converging, view = "desktop", Provoke, Clear PROVE Converging'
<1> DEFINE c == <<40, 40>>
           t == Scaled(c, real.slow)
<1>0. /\ sight = None /\ Fresh
  <2>1. Follow(IF sight = None THEN 0 ELSE 1)
    BY DEF Provoke
  <2>2. CASE sight = None
    BY <2>1, <2>2, ClearFollow
  <2>3. CASE sight # None
    BY <2>1, <2>3, ClearFollow
  <2>. QED BY <2>2, <2>3
<1>2. /\ real \in AppGains /\ pointer \in Point /\ "slow" \in Speeds
  BY DEF Provoke, PtrInv, PtrTyped, Speeds
<1>1. /\ at = "move" /\ sight # pointer /\ Unseen /\ left \in Nat /\ left >= 10 /\ left' = left - 1
      /\ at' = "move" /\ UNCHANGED <<goal, gain, real>> /\ goal \in Goals
  <2>1. sight # pointer
    BY <1>0, <1>2, PointNotNone
  <2>. QED BY <2>1 DEF Provoke, Converging
<1>3. c \in Point /\ Length(c) = 40
  BY DEF Point, Length, Abs
<1>4. Commanded(c, "slow") = c
  BY <1>3, Unstretched
<1>5. t \in Point /\ t[1] >= 1 /\ t[2] >= 1
  <2> DEFINE n == real.slow[1]
             d == real.slow[2]
  <2>1. t \in Point /\ Near(t[1], 40 * n, d) /\ Near(t[2], 40 * n, d)
    BY <1>2, <1>3, AppMoves
  <2>2. n \in Nat \ {0} /\ d \in Nat \ {0} /\ d <= 4 * n
    BY <1>2, AppGain
  <2> HIDE DEF t, n, d
  <2>3. t[1] \in Int /\ t[2] \in Int
    BY <2>1, PointIs
  <2>4. \A x \in Int : Near(x, 40 * n, d) => x >= 1
    <3> SUFFICES ASSUME NEW x \in Int, Near(x, 40 * n, d), x <= 0 PROVE FALSE
      OBVIOUS
    <3>1. x * d <= 0 * d /\ x * d \in Int
      BY <2>2, Widen
    <3>. QED BY <2>2, <3>1 DEF Near
  <2>. QED BY <2>1, <2>3, <2>4
<1>6. Swipe(c, "slow")
  BY DeviceAssumption DEF Provoke
<1>8. pointer' = <<Clamp(0, 1919, pointer[1] + t[1]), Clamp(0, 1079, pointer[2] + t[2])>>
  <2>1. t = Scaled(c, real["slow"])
    OBVIOUS
  <2> HIDE DEF c, t
  <2>. QED BY <1>2, <1>3, <1>4, <1>5, <1>6, <2>1, SwipeMoves
<1>9. OnScreen(pointer)'
  <2> DEFINE u == pointer[1] + t[1]
             v == pointer[2] + t[2]
  <2>1. u \in Int /\ v \in Int
    <3> HIDE DEF t
    <3>. QED BY <1>2, <1>5, PointIs
  <2>2. pointer' = <<Clamp(0, 1919, u), Clamp(0, 1079, v)>>
    BY <1>8
  <2> HIDE DEF u, v
  <2>3. Clamp(0, 1919, u) \in 0 .. 1919 /\ Clamp(0, 1079, v) \in 0 .. 1079
    BY <2>1 DEF Clamp
  <2>4. <<Clamp(0, 1919, u), Clamp(0, 1079, v)>> \in (0 .. 1919) \X (0 .. 1079)
    BY <2>3
  <2>. QED BY <2>2, <2>4 DEF OnScreen
<1>7. pointer' # pointer
  <2> DEFINE u == pointer[1] + t[1]
             v == pointer[2] + t[2]
  <2>1. /\ pointer[1] \in 0 .. 1919 /\ pointer[2] \in 0 .. 1079 /\ t[1] \in Int /\ t[2] \in Int
        /\ pointer = <<pointer[1], pointer[2]>>
    <3> HIDE DEF t
    <3>. QED BY <1>2, <1>5, PointIs DEF Converging, OnScreen
  <2>2. pointer # <<1919, 1079>>
    BY <1>1, DeviceAssumption DEF Unseen
  <2>3. pointer' = <<Clamp(0, 1919, u), Clamp(0, 1079, v)>>
    BY <1>8
  <2>4. t[1] >= 1 /\ t[2] >= 1
    BY <1>5
  <2> HIDE DEF t
  <2>8. \A a \in Int, b \in Int : b >= 1 => a + b \in Int /\ a + b >= a + 1
    OBVIOUS
  <2>9. pointer[1] \in Int /\ pointer[2] \in Int /\ t[1] \in Int /\ t[2] \in Int
    BY <1>2, <1>5, PointIs
  <2>5. u \in Int /\ v \in Int /\ u >= pointer[1] + 1 /\ v >= pointer[2] + 1
    BY <2>4, <2>8, <2>9
  <2> HIDE DEF u, v
  <2>6. CASE pointer[1] < 1919
    <3>1. Clamp(0, 1919, u) # pointer[1]
      BY <2>1, <2>5, <2>6 DEF Clamp
    <3>2. pointer'[1] = Clamp(0, 1919, u)
      BY <2>3
    <3>. QED BY <3>1, <3>2
  <2>7. CASE pointer[2] < 1079
    <3>1. Clamp(0, 1079, v) # pointer[2]
      BY <2>1, <2>5, <2>7 DEF Clamp
    <3>2. pointer'[2] = Clamp(0, 1079, v)
      BY <2>3
    <3>. QED BY <3>1, <3>2
  <2>. QED BY <2>1, <2>2, <2>6, <2>7
<1>10. sight' = pointer'
  BY <1>0, <1>7 DEF Fresh
<1>11. left' \in Nat /\ left' >= 9 /\ (goal \in Goals)'
  BY <1>1
<1>. QED BY <1>1, <1>9, <1>10, <1>11, Starting

\* While the attempts are enough there is one left, or the pointer is there.
LEMMA NoGivingUp == ASSUME PtrInv, Converging, GiveUp, Clear PROVE FALSE
<1>1. at = "move" /\ left = 0 /\ ~There
  BY DEF GiveUp, Blur, Clear
<1>2. sight = pointer /\ Enough(pointer) /\ sight # None
  <2>1. sight = pointer /\ Enough(pointer) /\ pointer \in Point
    BY <1>1 DEF Converging, PtrInv, PtrTyped
  <2>. QED BY <2>1, PointNotNone
<1>3. Length(From(pointer)) <= 6
  <2>1. ~\E f \in 0 .. 3, k \in 0 .. 3 : left >= f + k + 3
    BY <1>1
  <2>2. ~(left >= 3) /\ ~(left >= 2) /\ ~(left >= 1)
    BY <1>1
  <2>. QED BY <1>2, <2>1, <2>2, Zenon DEF Enough
<1>4. Tolerance = 6 /\ Delta = From(pointer)
  BY <1>2, DeviceAssumption DEF Delta, From, Pair
<1>. QED BY <1>1, <1>2, <1>3, <1>4 DEF There

\* The steps that leave the placement's own state alone.
LEMMA KeepsConverging ==
  ASSUME Converging, UNCHANGED <<pointer, sight, goal, left, gain, real, rest>>,
         at' = at \/ at' \in {"idle", "placed"}
  PROVE  Converging'
<1>1. (\E f \in 0 .. 3 : FastKnown(f, gain.fast, real.fast))'
  BY DEF Converging, FastKnown, Near
<1>2. (gain.slow = <<3, 5>> \/ SlowKnown(gain.slow, real.slow))'
  BY DEF Converging, SlowKnown, Near
<1>3. at' # "failed" /\ OnScreen(pointer)' /\ (sight = pointer \/ Unseen)'
  BY DEF Converging, OnScreen, Unseen
<1>4. CASE at' \in {"idle", "placed"}
  BY <1>1, <1>2, <1>3, <1>4 DEF Converging
<1>5. CASE at' = at
  <2>1. Enough(pointer) => Enough(pointer)'
    BY DEF Enough, Within, FastKnown, SlowKnown, Near, From, Pair
  <2>2. Halfway => Halfway'
    <3>1. Origin' = Origin /\ Turned' = Turned
      BY DEF Origin, Turned, Pair, Scaled, Away
    <3>2. From(Origin)' = From(Origin)
      BY <3>1 DEF From, Pair
    <3>3. Enough(Origin) => Enough(Origin)'
      BY <3>1, <3>2 DEF Enough, Within, FastKnown, SlowKnown, Near
    <3>4. Scaled(From(Origin), <<gain.slow[2], gain.slow[1]>>)' = Scaled(From(Origin), <<gain.slow[2], gain.slow[1]>>)
      BY <3>2 DEF Scaled, Pair
    <3>5. OnScreen(Origin) => OnScreen(Origin)'
      BY <3>1 DEF OnScreen
    <3>6. Length(From(Origin))' = Length(From(Origin)) /\ Length(Turned)' = Length(Turned) /\ Length(rest)' = Length(rest)
      BY <3>1, <3>2 DEF Length
    <3>. QED BY <3>1, <3>3, <3>4, <3>5, <3>6 DEF Halfway
  <2>. QED BY <1>1, <1>2, <1>3, <1>5, <2>1, <2>2 DEF Converging
<1>. QED BY <1>4, <1>5

LEMMA StepConverges ==
  ASSUME PtrInv, Converging, view = "desktop", PtrNext, UNCHANGED vars, Clear PROVE Converging'
<1>0. at = "move" => pointer \in Point
  BY DEF PtrInv, PtrTyped
<1>1. CASE Place
  BY <1>1, PlaceStep
<1>2. CASE GiveUp
  BY <1>2, NoGivingUp
<1>3. CASE Arrive \/ Click \/ Drag
  BY <1>3, KeepsConverging DEF Arrive, Click, Drag
<1>4. CASE Provoke
  BY <1>4, ProvokeStep
<1>5. CASE StepToward
  <2>1. Moving
    BY <1>5 DEF Moving, StepToward, Converging, Unseen
  <2>2. Speed = "fast" \/ Speed = "slow"
    BY DEF Speed
  <2>3. Shows(Speed)
    <3>1. After(Speed, sight, 0) /\ sight = pointer
      BY <1>5, <2>1 DEF StepToward, Moving
    <3>. QED BY <3>1, ClearAfter
  <2>. QED BY <1>5, <2>1, <2>2, <2>3, FastStep, SlowStep
<1>6. CASE StepAway
  <2>1. Moving
    BY <1>6 DEF Moving, StepAway, Converging, Unseen
  <2>2. Fresh
    <3>1. Follow(0)
      BY <1>6 DEF StepAway
    <3>2. 0 \in 0 .. 1
      OBVIOUS
    <3>. QED BY <3>1, <3>2, ClearFollow
  <2>3. sight' = pointer'
    BY <2>1, <2>2 DEF Fresh, Moving
  <2>. QED BY <1>6, <2>1, <2>3, AwayStep
<1>7. CASE StepBack
  <2>1. sight = pointer
    BY <1>7 DEF StepBack, Converging
  <2>2. ~After("slow", current, 1)
    BY ClearAfter
  <2>3. After("slow", sight, 0)
    BY <1>7, <2>2 DEF StepBack
  <2>4. Shows("slow")
    BY <2>1, <2>3, ClearAfter
  <2>. QED BY <1>7, <2>4, BackStep
<1>8. ~Report
  BY DEF Report, Clear
<1>. QED BY <1>1, <1>2, <1>3, <1>4, <1>5, <1>6, <1>7, <1>8 DEF PtrNext
\* The desktop is never in front again once something else has been: the app's own steps
\* only take it away.
LEMMA AppStep == ASSUME reached, App PROVE reached' /\ (view' = "desktop" => view = "desktop")
BY DEF App, Show, Toolbar, Drop, Deny, Base

LEMMA InFrontInit == LabInit => InFront
<1> SUFFICES ASSUME LabInit, at # "off" PROVE reached /\ Converging
  BY DEF InFront
<1>1. Session /\ at = "idle" /\ pointer \in Starts /\ gain = FirstGain
  BY DEF LabInit, Untouched
<1>2. gain.fast = <<6, 5>> /\ gain.slow = <<3, 5>>
  BY <1>1, DeviceAssumption
<1>3. FastKnown(3, gain.fast, real.fast)
  BY <1>2 DEF FastKnown
<1>4. OnScreen(pointer)
  BY <1>1, DeviceAssumption DEF OnScreen
<1>5. sight = pointer \/ Unseen
  BY <1>1 DEF LabInit
<1>. QED BY <1>1, <1>2, <1>3, <1>4, <1>5 DEF Session, Converging

LEMMA InFrontStep == PtrInv /\ InFront /\ [LabNext]_lab => InFront'
<1> SUFFICES ASSUME PtrInv, InFront, [LabNext]_lab PROVE InFront'
  OBVIOUS
<1>1. CASE UNCHANGED ptrVars /\ at = "off"
  BY <1>1 DEF InFront, ptrVars
<1>2. CASE UNCHANGED ptrVars /\ at # "off" /\ (App \/ UNCHANGED vars)
  <2>1. reached' /\ (view' = "desktop" => view = "desktop")
    <3>1. CASE App
      BY <1>2, <3>1, AppStep DEF InFront
    <3>2. CASE UNCHANGED vars
      BY <1>2, <3>2 DEF InFront, vars, appVars
    <3>. QED BY <1>2, <3>1, <3>2
  <2>2. Converging => Converging'
    BY <1>2, KeepsConverging DEF ptrVars
  <2>. QED BY <1>2, <2>1, <2>2 DEF InFront, ptrVars
<1>3. CASE at # "off" /\ PtrNext /\ UNCHANGED vars
  <2>1. reached' = reached /\ view' = view
    BY <1>3 DEF vars, appVars
  <2>2. blurs' = 0 => blurs = 0
    BY <1>3, BlursTyped DEF PtrInv, PtrTyped
  <2>3. view = "desktop" /\ blurs' = 0 => Converging'
    BY <1>3, <2>2, StepConverges DEF InFront, Clear
  <2>. QED BY <1>3, <2>1, <2>3 DEF InFront
<1>. QED BY <1>1, <1>2, <1>3 DEF LabNext, lab

\* move_cursor_to (android_viewer.py) never gives up while the desktop is in front and every
\* report comes in time and can be read: its ten attempts bring the pointer to any target,
\* from anywhere on the screen, whatever earlier placements learnt, and whatever gains the
\* app has within those DeviceAssumption assumes, which are narrower than the clamp.
THEOREM PlacementsConverge == LabSpec => []PlacementConverges
<1>1. PtrInv /\ InFront => PlacementConverges
  BY DEF InFront, PlacementConverges, Converging, PtrInv, PtrTyped
<1>. QED BY <1>1, LabInitEstablishes, LabNextPreserves, InFrontInit, InFrontStep, PTL DEF LabSpec
=================================================================================
