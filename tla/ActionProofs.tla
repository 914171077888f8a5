----------------------------- MODULE ActionProofs -----------------------------
(***************************************************************************)
(* Theorems about the way of an action: Teleop, where the operator gives   *)
(* it; RealBackend, which hands it to a plant; MotionLaw, which makes a    *)
(* motor's speed of it.  For all scales, rates and limits, any buttons and *)
(* devices, lengths of episodes, and numbers of processes.                 *)
(***************************************************************************)
EXTENDS Teleop, RealBackend, MotionLaw, SequenceTheorems, TLAPS

-----------------------------------------------------------------------------
(* Numbers *)

LEMMA ClampBetween ==
    ASSUME NEW v \in Int, NEW low \in Int, NEW high \in Int, low <= high
    PROVE  /\ Clamp(v, low, high) \in Int
           /\ low <= Clamp(v, low, high) /\ Clamp(v, low, high) <= high
           /\ low <= v /\ v <= high => Clamp(v, low, high) = v
BY DEF Clamp

\* Clamping to a range around zero does not increase the distance from it.
LEMMA ClampShrinks ==
    ASSUME NEW v \in Int, NEW high \in Nat
    PROVE  Magnitude(Clamp(v, -high, high)) <= Magnitude(v)
BY DEF Clamp, Magnitude

LEMMA ClampFull ==
    ASSUME NEW v \in Int
    PROVE  /\ Clamp(v, -Full, Full) \in Int
           /\ v = 0 => Clamp(v, -Full, Full) = 0
<1>1. Full \in Nat \ {0}
  BY FullAssumption
<1> QED
  BY <1>1 DEF Clamp

LEMMA ProportionZero ==
    ASSUME NEW num \in Int, NEW den \in Nat \ {0}
    PROVE  Proportion(0, num, den) = 0
BY DEF Proportion, SignOf, Magnitude

LEMMA QuotientInt ==
    ASSUME NEW a \in Int, NEW den \in Nat \ {0}
    PROVE  a \div den \in Int
OBVIOUS

LEMMA MagnitudeNat == ASSUME NEW v \in Int PROVE Magnitude(v) \in Nat /\ SignOf(v) \in Int
BY DEF Magnitude, SignOf

LEMMA ProportionInt ==
    ASSUME NEW v \in Int, NEW num \in Int, NEW den \in Nat \ {0}
    PROVE  Proportion(v, num, den) \in Int
<1>1. Magnitude(v) * num \in Int /\ SignOf(v) \in Int
  BY MagnitudeNat
<1>2. (Magnitude(v) * num) \div den \in Int
  BY <1>1, QuotientInt
<1> QED
  BY <1>1, <1>2 DEF Proportion
-----------------------------------------------------------------------------
(* Teleop: the buttons *)

(***************************************************************************)
(* No step is recorded while a control button is down.  The edge detection *)
(* compares a poll with the poll before; what makes it enough is that      *)
(* within an episode that poll has seen no button down, and that reset     *)
(* forgets what an earlier episode saw.                                    *)
(***************************************************************************)

\* Nothing is connected but what a joystick's source has found.
DevicesInv == devices \in Nat /\ (input # "joystick" => devices = 0) /\ input \in Inputs

\* As long as an episode goes on no poll has seen a button down.
EdgeInv == pc = "loop" => pressed = {}

RowsInv == rows \in Seq({{}})

ButtonsInv == DevicesInv /\ EdgeInv /\ RowsInv

\* A poll that ends nothing has seen no button, and finds what it compares with empty.
LEMMA QuietPoll ==
    ASSUME DevicesInv, EdgeInv, pc = "loop",
           NEW held \in HeldSets, Requests(held) = {}
    PROVE  /\ input = "joystick" => Down(held) = {}
           /\ input # "joystick" => held = {}
<1>1. CASE input = "joystick"
  <2>1. Down(held) \ pressed = {}
    BY <1>1 DEF Requests, Edges
  <2> QED
    BY <1>1, <2>1 DEF EdgeInv
<1>2. CASE input = "oem_remote"
  BY <1>2 DEF Requests
<1>3. CASE input \notin {"joystick", "oem_remote"}
  <2>1. 0 .. devices - 1 = {}
    BY <1>3 DEF DevicesInv
  <2> QED
    BY <1>3, <2>1 DEF HeldSets
<1> QED
  BY <1>1, <1>2, <1>3

LEMMA ButtonsInit == InitTeleop => ButtonsInv
<1> SUFFICES ASSUME InitTeleop PROVE ButtonsInv
  OBVIOUS
<1>1. DevicesInv
  BY DEF InitTeleop, DevicesInv
<1>2. EdgeInv /\ RowsInv
  BY DEF InitTeleop, EdgeInv, RowsInv
<1> QED
  BY <1>1, <1>2 DEF ButtonsInv

LEMMA ButtonsStep == ButtonsInv /\ [NextTeleop]_teleopVars => ButtonsInv'
<1> SUFFICES ASSUME ButtonsInv, [NextTeleop]_teleopVars PROVE ButtonsInv'
  OBVIOUS
<1> USE DEF ButtonsInv
<1>1. DevicesInv'
  <2>1. UNCHANGED deviceVars
    BY DEF NextTeleop, BeginEpisode, EndSession, Interrupt, LeaveLoop, SeeWindow, Finish,
           Poll, RemoteFails, teleopVars
  <2> QED
    BY <2>1 DEF DevicesInv, deviceVars
<1>2. CASE BeginEpisode
  BY <1>1, <1>2 DEF BeginEpisode, ResetSource, EdgeInv, RowsInv
<1>3. CASE Poll
  <2>1. PICK wish \in Wishes, held \in HeldSets :
          /\ pressed' = IF input = "joystick" THEN Down(held) ELSE pressed
          /\ \/ pc' # "loop" /\ rows' = rows
             \/ /\ Requests(held) = {}
                /\ rows' = Append(rows, IF input = "joystick" THEN Down(held) ELSE held)
                /\ pc' = pc
    BY <1>3 DEF Poll
  <2>2. CASE pc' # "loop" /\ rows' = rows
    BY <1>1, <2>2 DEF EdgeInv, RowsInv
  <2>3. CASE /\ Requests(held) = {}
             /\ rows' = Append(rows, IF input = "joystick" THEN Down(held) ELSE held)
    <3>1. pc = "loop"
      BY <1>3 DEF Poll
    <3>2. /\ input = "joystick" => Down(held) = {}
          /\ input # "joystick" => held = {}
      BY <2>3, <3>1, QuietPoll
    <3>3. rows' = Append(rows, {})
      BY <2>3, <3>2
    <3>4. EdgeInv'
      BY <2>1, <3>1, <3>2 DEF EdgeInv
    <3> QED
      BY <1>1, <3>3, <3>4 DEF RowsInv
  <2> QED
    BY <2>1, <2>2, <2>3
<1>4. CASE UNCHANGED <<rows, pressed>> /\ (pc' = "loop" => pc = "loop")
  BY <1>1, <1>4 DEF EdgeInv, RowsInv
<1>5. CASE EndSession \/ Interrupt \/ LeaveLoop \/ SeeWindow \/ Finish \/ RemoteFails
           \/ UNCHANGED teleopVars
  BY <1>4, <1>5 DEF EndSession, Interrupt, LeaveLoop, SeeWindow, Finish, RemoteFails,
                    teleopVars, sourceVars
<1> QED
  BY <1>2, <1>3, <1>5 DEF NextTeleop

(***************************************************************************)
(* No row is recorded while a configured control button is down, for any   *)
(* devices, buttons, smoothing and lengths of episodes.                    *)
(***************************************************************************)
THEOREM ButtonsEndEpisodes == SpecTeleop => []RowsWithoutButtons
<1>1. ButtonsInv => RowsWithoutButtons
  BY DEF ButtonsInv, RowsInv, RowsWithoutButtons
<1> QED
  BY <1>1, ButtonsInit, ButtonsStep, PTL DEF SpecTeleop
-----------------------------------------------------------------------------
(* Teleop: the released stick *)

(***************************************************************************)
(* Every poll at rest takes Recenter from what the smoother still gives,   *)
(* so that after the first of the two times of Settled it gives nothing;   *)
(* from then on every poll takes Delta from what the guard remembers.      *)
(* Steps that take longer, and reasons to stop, only make it faster.       *)
(***************************************************************************)

\* A difference, but never less than nothing.
Positive(v) == IF v < 0 THEN 0 ELSE v

\* In how many polls the smoother is at neutral, and how many more the guard needs.
SmootherRests == (Full + Recenter - 1) \div Recenter
GuardRests == (Clip + Delta - 1) \div Delta

StickTypes ==
    /\ DevicesInv /\ profile \in Profiles /\ (input # "joystick" => profile = "none")
    /\ current \in Int /\ last \in Int /\ still \in Nat

\* Without a device or a profile nothing is ever smoothed.
UnusedIsNeutral == profile = "none" \/ devices = 0 => current = 0

SmootherInv ==
    pc = "loop" => Magnitude(current) <= Positive(Full - still * Recenter)

GuardInv ==
    /\ Magnitude(last) <= Clip
    /\ still >= SmootherRests =>
         Magnitude(last) <= Positive(Clip - (still - SmootherRests) * Delta)

StickInv == StickTypes /\ UnusedIsNeutral /\ SmootherInv /\ GuardInv

LEMMA MoveToZero ==
    ASSUME NEW from \in Int, NEW far \in Nat
    PROVE  /\ Clamp(0, from - far, from + far) \in Int
           /\ Magnitude(Clamp(0, from - far, from + far))
                = Positive(Magnitude(from) - far)
BY DEF Clamp, Magnitude, Positive

LEMMA MoveBounded ==
    ASSUME NEW from \in Int, NEW target \in Int, NEW far \in Nat, NEW bound \in Nat,
           Magnitude(from) <= bound, Magnitude(target) <= bound
    PROVE  /\ Clamp(target, from - far, from + far) \in Int
           /\ Magnitude(Clamp(target, from - far, from + far)) <= bound
BY DEF Clamp, Magnitude

\* The products of a number of polls and a rate.
LEMMA ProductNext ==
    ASSUME NEW n \in Nat, NEW rate \in Nat
    PROVE  n * rate \in Nat /\ (n + 1) * rate = n * rate + rate
OBVIOUS

LEMMA ProductGrows ==
    ASSUME NEW m \in Nat, NEW n \in Nat, NEW rate \in Nat, m <= n
    PROVE  m * rate <= n * rate
<1>1. PICK k \in Nat : n = m + k
  <2> WITNESS n - m \in Nat
  <2> QED
    OBVIOUS
<1>2. n * rate = m * rate + k * rate /\ k * rate \in Nat /\ m * rate \in Nat
  BY <1>1
<1> QED
  BY <1>2

LEMMA QuotientBounds ==
    ASSUME NEW a \in Nat, NEW den \in Nat \ {0}
    PROVE  /\ a \div den \in Nat
           /\ (a \div den) * den <= a /\ a < (a \div den) * den + den
OBVIOUS

LEMMA RoundedUp ==
    ASSUME NEW a \in Nat, NEW den \in Nat \ {0}
    PROVE  /\ (a + den - 1) \div den \in Nat
           /\ ((a + den - 1) \div den) * den >= a
<1>1. a + den - 1 \in Nat
  OBVIOUS
<1> DEFINE q == (a + den - 1) \div den
           p == q * den
<1>2. q \in Nat /\ p <= a + den - 1 /\ a + den - 1 < p + den
  BY <1>1, QuotientBounds
<1>3. p \in Nat
  BY <1>2, ProductNext
<1> HIDE DEF p
<1>4. p >= a
  BY <1>2, <1>3
<1> QED
  BY <1>2, <1>4 DEF p

\* The rounded command never exceeds the full one.
LEMMA RemapBounded ==
    ASSUME NEW lever \in -Travel .. Travel
    PROVE  Remap(lever) \in Int /\ Magnitude(Remap(lever)) <= Full
<1>1. Full \in Nat /\ Travel \in Nat /\ Deadzone \in Nat /\ Deadzone < Travel
  BY FullAssumption, TeleopAssumption
<1> DEFINE m == Magnitude(lever - SignOf(lever) * Deadzone)
           den == Travel - Deadzone
           q == (m * Full) \div den
<1>2. CASE Magnitude(lever) <= Deadzone
  BY <1>1, <1>2 DEF Remap, Magnitude
<1>3. CASE ~(Magnitude(lever) <= Deadzone)
  <2>1. m \in Nat /\ den \in Nat \ {0} /\ m <= den
    BY <1>1, <1>3 DEF Magnitude, SignOf
  <2> HIDE DEF m, den
  <2>2. m * Full \in Nat /\ m * Full <= den * Full
    BY <1>1, <2>1, ProductNext, ProductGrows
  <2>3. q \in Nat /\ q * den <= m * Full
    BY <2>1, <2>2, QuotientBounds
  <2> HIDE DEF q
  <2>4. q <= Full
    <3>1. SUFFICES ASSUME Full + 1 <= q PROVE FALSE
      BY <1>1, <2>3
    <3>2. (Full + 1) * den <= q * den
      BY <1>1, <2>1, <2>3, <3>1, ProductGrows
    <3>3. (Full + 1) * den = Full * den + den /\ Full * den \in Nat
      BY <1>1, <2>1, ProductNext
    <3>4. Full * den = den * Full
      BY <1>1, <2>1
    <3>5. q * den \in Nat
      BY <2>1, <2>3, ProductNext
    <3> QED
      BY <1>1, <2>1, <2>2, <2>3, <3>2, <3>3, <3>4, <3>5
  <2>5. Remap(lever) = SignOf(lever - SignOf(lever) * Deadzone) * q
    BY <1>3 DEF Remap, Proportion, q, m, den
  <2>6. SignOf(lever - SignOf(lever) * Deadzone) \in {-1, 0, 1}
    BY DEF SignOf
  <2> QED
    BY <1>1, <2>3, <2>4, <2>5, <2>6 DEF Magnitude
<1> QED
  BY <1>2, <1>3

LEMMA ScaledZero == Scaled(0) = 0
<1>1. SourceClip \in Nat /\ ScaleNum \in Int /\ ScaleDen \in Nat \ {0}
  BY TeleopAssumption
<1>2. Proportion(0, ScaleNum, ScaleDen) = 0
  BY <1>1, ProportionZero
<1> QED
  BY <1>1, <1>2 DEF Scaled, Clamp

LEMMA ScaledInt == ASSUME NEW v \in Int PROVE Scaled(v) \in Int
<1>1. SourceClip \in Nat /\ ScaleNum \in Int /\ ScaleDen \in Nat \ {0}
  BY TeleopAssumption
<1>2. Proportion(v, ScaleNum, ScaleDen) \in Int
  BY <1>1, ProportionInt
<1> QED
  BY <1>1, <1>2 DEF Scaled, Clamp

\* What the operator asks for is an action that the guard can be given.
LEMMA NextActionInt ==
    ASSUME StickTypes, NEW wish \in Wishes, current' \in Int
    PROVE  NextAction(wish) \in Int
<1>1. /\ Full \in Nat \ {0} /\ Travel \in Nat /\ KeySpeed \in Nat
  BY FullAssumption, TeleopAssumption
<1>2. CASE input = "joystick"
  <2>1. wish \in -Travel .. Travel
    BY <1>1, <1>2 DEF Wishes
  <2>2. Remap(wish) \in Int
    BY <2>1, RemapBounded
  <2> QED
    BY <1>2, <2>2, ScaledInt DEF NextAction
<1>3. CASE input = "keyboard"
  BY <1>1, <1>3 DEF NextAction, KeyAction, Clamp
<1>4. CASE input = "oem_remote"
  BY <1>1, <1>4 DEF NextAction, RemoteAction, AsRealAction, Clamp, Wishes
<1>5. CASE input \notin {"joystick", "keyboard", "oem_remote"}
  BY <1>5 DEF NextAction
<1> QED
  BY <1>2, <1>3, <1>4, <1>5

\* A wish at rest asks for nothing, once the smoother is at neutral.
LEMMA RestAsksNothing ==
    ASSUME StickTypes, NEW wish \in Wishes, AtRest(wish),
           profile # "none" => current' = 0
    PROVE  NextAction(wish) = 0
<1>1. CASE input = "joystick"
  BY <1>1, ScaledZero DEF AtRest, NextAction
<1>2. CASE input = "keyboard"
  BY <1>2 DEF AtRest, NextAction
<1>3. CASE input = "oem_remote"
  <2>1. wish = 0 /\ Full \in Nat \ {0}
    BY <1>3, FullAssumption DEF AtRest
  <2> QED
    BY <1>3, <2>1 DEF NextAction, RemoteAction, AsRealAction, Clamp
<1>4. CASE input \notin {"joystick", "keyboard", "oem_remote"}
  BY <1>4 DEF NextAction
<1> QED
  BY <1>1, <1>2, <1>3, <1>4

\* What one poll makes of the smoother's state.
LEMMA SmoothStep ==
    ASSUME StickInv, pc = "loop", NEW wish \in Wishes, Smooth(wish)
    PROVE  /\ current' \in Int
           /\ profile = "none" \/ devices = 0 => current' = 0
           /\ Magnitude(current') <= Full
           /\ AtRest(wish) =>
                Magnitude(current') <= Positive(Full - (still + 1) * Recenter)
<1> USE DEF StickInv
<1>1. /\ Full \in Nat \ {0} /\ Travel \in Nat /\ MaxLag \in Nat
      /\ Attack \in Nat \ {0} /\ Release \in Nat \ {0} /\ Recenter \in Nat \ {0}
  BY FullAssumption, TeleopAssumption
<1> DEFINE p == still * Recenter
           next == (still + 1) * Recenter
<1>2. p \in Nat /\ next = p + Recenter
  BY <1>1, ProductNext DEF StickTypes
<1>3. /\ current \in Int /\ Magnitude(current) \in Nat
      /\ Magnitude(current) <= Positive(Full - p)
  BY MagnitudeNat DEF StickTypes, SmootherInv
<1> HIDE DEF p, next
<1>4. CASE ~(profile # "none" /\ devices > 0)
  <2>1. current = 0 /\ current' = current
    BY <1>4 DEF Smooth, UnusedIsNeutral, StickTypes, DevicesInv
  <2>2. Magnitude(current') <= Positive(Full - next)
    BY <1>1, <1>2, <2>1 DEF Magnitude, Positive
  <2> QED
    BY <1>1, <2>1, <2>2 DEF Magnitude, next
<1>5. CASE profile # "none" /\ devices > 0
  <2>1. PICK dt \in StepTimes : current' = Smoothed(wish, current, dt)
    BY <1>5 DEF Smooth
  <2>2. dt \in Nat \ {0}
    BY <1>1 DEF StepTimes
  <2>3. input = "joystick"
    BY <1>5 DEF StickTypes
  <2>4. wish \in -Travel .. Travel
    BY <1>5, <2>3 DEF Wishes
  <2>5. Remap(wish) \in Int /\ Magnitude(Remap(wish)) <= Full
    BY <2>4, RemapBounded
  <2> DEFINE rate == Rate(Remap(wish), current)
             far == rate * dt
  <2>6. rate \in Nat
    BY <1>1 DEF Rate
  <2>7. far \in Nat /\ rate <= far
    <3>1. far = dt * rate /\ 1 * rate = rate
      BY <2>2, <2>6
    <3>2. dt * rate \in Nat /\ 1 * rate <= dt * rate
      BY <2>2, <2>6, ProductNext, ProductGrows
    <3> QED
      BY <3>1, <3>2
  <2>8. current' = Clamp(Remap(wish), current - far, current + far)
    BY <2>1 DEF Smoothed, MoveTowards
  <2> HIDE DEF far
  <2>9. Magnitude(current) <= Full
    BY <1>1, <1>2, <1>3 DEF Positive
  <2>10. current' \in Int /\ Magnitude(current') <= Full
    BY <1>1, <1>3, <2>5, <2>7, <2>8, <2>9, MoveBounded
  <2>11. ASSUME AtRest(wish) PROVE Magnitude(current') <= Positive(Full - next)
    <3>1. Remap(wish) = 0
      BY <2>3, <2>11 DEF AtRest
    <3>2. Recenter <= far
      BY <2>7, <3>1 DEF Rate, rate
    <3>3. Magnitude(current') = Positive(Magnitude(current) - far)
      BY <1>3, <2>7, <2>8, <3>1, MoveToZero
    <3> QED
      BY <1>1, <1>2, <1>3, <2>7, <3>2, <3>3 DEF Positive
  <2> QED
    BY <1>5, <2>10, <2>11 DEF next, StickTypes, DevicesInv
<1> QED
  BY <1>4, <1>5

\* The guard's output for any action, and for none.
LEMMA GuardedBounds ==
    ASSUME NEW raw \in Int, NEW stop \in BOOLEAN, last \in Int, Magnitude(last) <= Clip
    PROVE  /\ Guarded(raw, stop) \in Int /\ Magnitude(Guarded(raw, stop)) <= Clip
           /\ raw = 0 =>
                Magnitude(Guarded(raw, stop)) <= Positive(Magnitude(last) - Delta)
<1>1. Clip \in Nat /\ Delta \in Nat
  BY TeleopAssumption
<1>2. Clamp(raw, -Clip, Clip) \in Int /\ Magnitude(Clamp(raw, -Clip, Clip)) <= Clip
  BY <1>1 DEF Clamp, Magnitude
<1>3. raw = 0 => Clamp(raw, -Clip, Clip) = 0
  BY <1>1 DEF Clamp
<1>4. CASE stop
  BY <1>1, <1>4 DEF Guarded, Magnitude, Positive
<1>5. CASE ~stop
  <2>1. Guarded(raw, stop) = Clamp(Clamp(raw, -Clip, Clip), last - Delta, last + Delta)
    BY <1>5 DEF Guarded
  <2>2. Guarded(raw, stop) \in Int /\ Magnitude(Guarded(raw, stop)) <= Clip
    BY <1>1, <1>2, <2>1, MoveBounded
  <2>3. raw = 0 => Magnitude(Guarded(raw, stop)) = Positive(Magnitude(last) - Delta)
    BY <1>1, <1>3, <2>1, MoveToZero
  <2>4. Magnitude(Guarded(raw, stop)) \in Nat
    BY <2>2, MagnitudeNat
  <2> QED
    BY <2>2, <2>3, <2>4
<1> QED
  BY <1>4, <1>5

\* The polls at neutral, of the smoother.
LEMMA SmootherNeutral ==
    ASSUME NEW n \in Nat, n >= SmootherRests
    PROVE  Positive(Full - n * Recenter) = 0
<1>1. Full \in Nat /\ Recenter \in Nat \ {0}
  BY FullAssumption, TeleopAssumption
<1>2. SmootherRests \in Nat /\ SmootherRests * Recenter >= Full
  BY <1>1, RoundedUp DEF SmootherRests
<1>3. SmootherRests * Recenter <= n * Recenter
  BY <1>1, <1>2, ProductGrows
<1>4. SmootherRests * Recenter \in Nat /\ n * Recenter \in Nat
  BY <1>1, <1>2, ProductNext
<1> QED
  BY <1>1, <1>2, <1>3, <1>4 DEF Positive

LEMMA GuardStep ==
    ASSUME StickInv, NEW raw \in Int, NEW stop \in BOOLEAN,
           last' = Guarded(raw, stop), still' \in {0, still + 1},
           still' = still + 1 /\ still' >= SmootherRests => raw = 0
    PROVE  last' \in Int /\ GuardInv'
<1> USE DEF StickInv
<1>1. Clip \in Nat /\ Delta \in Nat /\ SmootherRests \in Nat
  <2>1. Full \in Nat /\ Recenter \in Nat \ {0}
    BY FullAssumption, TeleopAssumption
  <2> QED
    BY <2>1, RoundedUp, TeleopAssumption DEF SmootherRests
<1>2. last \in Int /\ still \in Nat /\ Magnitude(last) <= Clip /\ Magnitude(last) \in Nat
  BY MagnitudeNat DEF StickTypes, GuardInv
<1>3. /\ last' \in Int /\ Magnitude(last') <= Clip
      /\ raw = 0 => Magnitude(last') <= Positive(Magnitude(last) - Delta)
  BY <1>2, GuardedBounds
<1>4. Magnitude(last') \in Nat
  BY <1>3, MagnitudeNat
<1>5. ASSUME still' >= SmootherRests
      PROVE  Magnitude(last') <= Positive(Clip - (still' - SmootherRests) * Delta)
  <2>1. CASE still' = SmootherRests
    <3>1. (still' - SmootherRests) * Delta = 0
      BY <1>1, <2>1
    <3>2. Positive(Clip - 0) = Clip
      BY <1>1 DEF Positive
    <3> QED
      BY <1>3, <3>1, <3>2
  <2>2. CASE still' # SmootherRests
    <3>1. still' = still + 1 /\ still >= SmootherRests
      BY <1>1, <1>2, <1>5, <2>2
    <3> DEFINE k == still - SmootherRests
               p == k * Delta
               next == (k + 1) * Delta
    <3>2. still' - SmootherRests = k + 1 /\ k \in Nat
      BY <1>1, <1>2, <3>1
    <3>3. p \in Nat /\ next = p + Delta
      BY <1>1, <3>2, ProductNext
    <3>4. Magnitude(last) <= Positive(Clip - p)
      BY <3>1 DEF GuardInv
    <3> HIDE DEF k, p, next
    <3>5. Magnitude(last') <= Positive(Magnitude(last) - Delta)
      BY <1>3, <1>5, <3>1
    <3>6. Magnitude(last') <= Positive(Clip - next)
      BY <1>1, <1>2, <1>4, <3>3, <3>4, <3>5 DEF Positive
    <3> QED
      BY <3>2, <3>6 DEF next
  <2> QED
    BY <2>1, <2>2
<1> QED
  BY <1>3, <1>5 DEF GuardInv

LEMMA StickInit == InitTeleop => StickInv
<1> SUFFICES ASSUME InitTeleop PROVE StickInv
  OBVIOUS
<1>1. /\ profile \in IF input = "joystick" THEN Profiles ELSE {"none"}
      /\ pc = "episodes" /\ current = 0 /\ last = 0 /\ still = 0
  BY DEF InitTeleop
<1>2. DevicesInv
  BY ButtonsInit DEF ButtonsInv
<1>3. StickTypes /\ UnusedIsNeutral /\ SmootherInv
  BY <1>1, <1>2 DEF StickTypes, UnusedIsNeutral, SmootherInv, Profiles
<1>4. GuardInv
  <2>1. Clip \in Nat /\ Delta \in Nat /\ SmootherRests \in Int
    <3>1. Full \in Nat /\ Recenter \in Nat \ {0}
      BY FullAssumption, TeleopAssumption
    <3> QED
      BY <3>1, RoundedUp, TeleopAssumption DEF SmootherRests
  <2>2. Magnitude(last) = 0
    BY <1>1 DEF Magnitude
  <2>3. (still - SmootherRests) * Delta \in Int
    BY <1>1, <2>1
  <2> QED
    BY <2>1, <2>2, <2>3 DEF GuardInv, Positive
<1> QED
  BY <1>3, <1>4 DEF StickInv

LEMMA StickStep == StickInv /\ [NextTeleop]_teleopVars => StickInv'
<1> SUFFICES ASSUME StickInv, [NextTeleop]_teleopVars PROVE StickInv'
  OBVIOUS
<1>1. /\ UNCHANGED deviceVars
      /\ DevicesInv' /\ profile' \in Profiles /\ (input' # "joystick" => profile' = "none")
  <2>1. UNCHANGED deviceVars
    BY DEF NextTeleop, BeginEpisode, EndSession, Interrupt, LeaveLoop, SeeWindow, Finish,
           Poll, RemoteFails, teleopVars
  <2> QED
    BY <2>1 DEF DevicesInv, deviceVars, StickInv, StickTypes
<1>2. Full \in Nat \ {0} /\ Clip \in Nat /\ Delta \in Nat /\ SmootherRests \in Nat
  <2>1. Full \in Nat \ {0} /\ Recenter \in Nat \ {0}
    BY FullAssumption, TeleopAssumption
  <2> QED
    BY <2>1, RoundedUp, TeleopAssumption DEF SmootherRests
<1>3. CASE BeginEpisode
  <2>1. current' = 0 /\ last' = 0 /\ still' = 0
    BY <1>3 DEF BeginEpisode, ResetSource
  <2>2. StickTypes' /\ UnusedIsNeutral'
    BY <1>1, <2>1 DEF StickTypes, UnusedIsNeutral
  <2>3. Magnitude(current') = 0 /\ Magnitude(last') = 0
    BY <2>1 DEF Magnitude
  <2>4. Recenter \in Nat
    BY TeleopAssumption
  <2>5. still' * Recenter \in Int /\ (still' - SmootherRests) * Delta \in Int
    BY <1>2, <2>1, <2>4
  <2>6. SmootherInv' /\ GuardInv'
    BY <1>2, <2>3, <2>5 DEF SmootherInv, GuardInv, Positive
  <2> QED
    BY <2>2, <2>6 DEF StickInv
<1>4. CASE Poll
  <2>1. PICK wish \in Wishes, held \in HeldSets :
          /\ Smooth(wish)
          /\ \/ pc' # "loop" /\ UNCHANGED <<last, still>>
             \/ /\ \E stop \in BOOLEAN : last' = Guarded(NextAction(wish), stop)
                /\ still' = IF AtRest(wish) THEN still + 1 ELSE 0
                /\ pc' = pc
    BY <1>4 DEF Poll
  <2>2. pc = "loop"
    BY <1>4 DEF Poll
  <2>3. /\ current' \in Int
        /\ profile = "none" \/ devices = 0 => current' = 0
        /\ Magnitude(current') <= Full
        /\ AtRest(wish) => Magnitude(current') <= Positive(Full - (still + 1) * Recenter)
    BY <2>1, <2>2, SmoothStep
  <2>4. UnusedIsNeutral'
    BY <1>1, <2>3 DEF UnusedIsNeutral, deviceVars
  <2>5. CASE pc' # "loop" /\ UNCHANGED <<last, still>>
    <3>1. StickTypes'
      BY <1>1, <2>3, <2>5 DEF StickInv, StickTypes
    <3>2. SmootherInv' /\ GuardInv'
      BY <2>5 DEF StickInv, SmootherInv, GuardInv
    <3> QED
      BY <2>4, <3>1, <3>2 DEF StickInv
  <2>6. CASE /\ \E stop \in BOOLEAN : last' = Guarded(NextAction(wish), stop)
             /\ still' = IF AtRest(wish) THEN still + 1 ELSE 0
    <3>1. PICK stop \in BOOLEAN : last' = Guarded(NextAction(wish), stop)
      BY <2>6
    <3>2. NextAction(wish) \in Int
      BY <2>3, NextActionInt DEF StickInv
    <3>3. still \in Nat /\ still' \in Nat /\ still' \in {0, still + 1}
      BY <2>6 DEF StickInv, StickTypes
    <3>4. ASSUME still' = still + 1, still' >= SmootherRests PROVE NextAction(wish) = 0
      <4>1. AtRest(wish)
        BY <2>6, <3>3, <3>4
      <4>2. Magnitude(current') <= Positive(Full - still' * Recenter)
        BY <2>3, <3>4, <4>1
      <4>3. Positive(Full - still' * Recenter) = 0
        BY <3>3, <3>4, SmootherNeutral
      <4>4. current' = 0
        BY <2>3, <4>2, <4>3 DEF Magnitude
      <4> QED
        BY <4>1, <4>4, RestAsksNothing DEF StickInv
    <3>5. last' \in Int /\ GuardInv'
      BY <3>1, <3>2, <3>3, <3>4, GuardStep
    <3>6. StickTypes'
      BY <1>1, <2>3, <3>3, <3>5 DEF StickTypes
    <3>7. SmootherInv'
      <4>1. CASE AtRest(wish)
        BY <2>3, <2>6, <4>1 DEF SmootherInv
      <4>2. CASE ~AtRest(wish)
        <5>1. still' * Recenter = 0
          BY <2>6, <4>2, TeleopAssumption
        <5> QED
          BY <1>2, <2>3, <5>1 DEF SmootherInv, Positive
      <4> QED
        BY <4>1, <4>2
    <3> QED
      BY <2>4, <3>5, <3>6, <3>7 DEF StickInv
  <2> QED
    BY <2>1, <2>5, <2>6
<1>5. CASE UNCHANGED <<current, last, still>> /\ (pc' = "loop" => pc = "loop")
  <2>1. StickTypes' /\ UnusedIsNeutral'
    BY <1>1, <1>5 DEF StickInv, StickTypes, UnusedIsNeutral, deviceVars
  <2>2. SmootherInv' /\ GuardInv'
    BY <1>5 DEF StickInv, SmootherInv, GuardInv
  <2> QED
    BY <2>1, <2>2 DEF StickInv
<1>6. CASE EndSession \/ Interrupt \/ LeaveLoop \/ SeeWindow \/ Finish \/ RemoteFails
           \/ UNCHANGED teleopVars
  BY <1>5, <1>6 DEF EndSession, Interrupt, LeaveLoop, SeeWindow, Finish, RemoteFails,
                    teleopVars, sourceVars
<1> QED
  BY <1>3, <1>4, <1>6 DEF NextTeleop

LEMMA StickRests == StickInv => ReleasedStickStops
<1> SUFFICES ASSUME StickInv, still >= Settled PROVE last = 0
  BY DEF ReleasedStickStops
<1>1. /\ Full \in Nat \ {0} /\ Recenter \in Nat \ {0}
      /\ Clip \in Nat /\ Delta \in Nat \ {0}
  BY FullAssumption, TeleopAssumption
<1>2. SmootherRests \in Nat /\ GuardRests \in Nat /\ GuardRests * Delta >= Clip
  BY <1>1, RoundedUp DEF SmootherRests, GuardRests
<1>3. last \in Int /\ still \in Nat /\ still >= SmootherRests + GuardRests
  BY DEF StickInv, StickTypes, Settled, SmootherRests, GuardRests
<1> DEFINE k == still - SmootherRests
<1>4. k \in Nat /\ GuardRests <= k /\ still >= SmootherRests
  BY <1>2, <1>3
<1>5. Magnitude(last) <= Positive(Clip - k * Delta)
  BY <1>4 DEF StickInv, GuardInv
<1> HIDE DEF k
<1>6. GuardRests * Delta <= k * Delta /\ GuardRests * Delta \in Nat /\ k * Delta \in Nat
  BY <1>1, <1>2, <1>4, ProductGrows, ProductNext
<1>7. Positive(Clip - k * Delta) = 0
  BY <1>1, <1>2, <1>6 DEF Positive
<1> QED
  BY <1>3, <1>5, <1>7 DEF Magnitude

(***************************************************************************)
(* Whoever lets go of the stick stops the machine within Settled polls,    *)
(* for all rates of the response profile and the guard, all scales, and    *)
(* steps of any length.                                                    *)
(***************************************************************************)
THEOREM StickCorrect == SpecTeleop => []ReleasedStickStops
<1> QED
  BY StickInit, StickStep, StickRests, PTL DEF SpecTeleop
-----------------------------------------------------------------------------
(* RealBackend *)

(***************************************************************************)
(* At most one request is under way, so that an answer can only be that of *)
(* the request the process waits for.  The server takes its connections in *)
(* their order: once it has answered the reset there is no other, and from *)
(* then on only this process moves its joints.                             *)
(***************************************************************************)
Kinds == {"reset", "read_state", "send_action", "close", "shutdown"} \cup Rejected
Wires == [kind : Kinds, act : Int]
Connections == [lines : Seq(Wires), open : BOOLEAN]
Replies == [type : Kinds \cup {"none", "error"}, ok : BOOLEAN, qpos : Int,
            act : -Full .. Full]

Mine == conns[Len(conns)].lines

BackendTypes ==
    /\ local \in Int /\ inner \in Int /\ remote \in Int /\ commanded \in Int
    /\ stepId \in Nat /\ result \in -Full .. Full
    /\ conns \in Seq(Connections) /\ reply \in Replies /\ accepted \in BOOLEAN
    /\ link \in {"none", "up", "lost"}

LinkInv ==
    /\ link = "up" => conns # <<>>
    /\ accepted => conns # <<>>
    /\ at = "off" => link = "none"

Awaits == [resetting |-> "reset", reading |-> "read_state", sending |-> "send_action"]

\* The request that is waited for is the only one of the process, or has been answered.
WireInv ==
    /\ at \in {"idle", "read", "apply"} => reply = NoReply /\ (link = "up" => Mine = <<>>)
    /\ at \in DOMAIN Awaits /\ link = "up" =>
           \/ reply # NoReply /\ Mine = <<>>
           \/ reply = NoReply /\ \E a \in -Full .. Full : Mine = <<Line(Awaits[at], a)>>

ModeInv ==
    /\ at \in {"resetting", "reading"} => ReaderIs = "tcp"
    /\ at = "sending" => ControllerIs = "tcp"
    /\ at = "apply" /\ ControllerIs = "noop" => result = 0

\* The joints of a reader in the process.
PlantInv ==
    /\ ReaderIs = "mock" => local = commanded
    /\ ReaderIs = "inner" => inner = commanded

\* Nobody else is connected, and the server's joints have moved so far.
Shown(moved) ==
    /\ link # "none"
    /\ link = "up" => Len(conns) = 1 /\ (ControllerIs # "mock" => remote = moved)

RemoteInv ==
    ReaderIs = "tcp" =>
      /\ at = "resetting" => commanded = 0 /\ (reply # NoReply => Shown(0))
      /\ at \in {"read", "reading"} => Shown(commanded)
      /\ at = "reading" /\ reply # NoReply /\ ControllerIs # "mock" =>
           reply.qpos = commanded
      /\ at = "idle" /\ seen # Nothing => Shown(commanded)
      /\ at = "sending" =>
           Shown(IF reply = NoReply THEN commanded ELSE commanded + reply.act)
      /\ at = "apply" => Shown(commanded + result)

BackendInv ==
    BackendTypes /\ LinkInv /\ WireInv /\ ModeInv /\ PlantInv /\ RemoteInv /\ AppliedOnce
-----------------------------------------------------------------------------
(* What the steps do with the connections *)

LEMMA RealActionBound ==
    ASSUME NEW v \in Int
    PROVE  AsRealAction(v) \in -Full .. Full /\ AsRealAction(v) \in Int
<1>1. Full \in Nat
  BY FullAssumption
<1> QED
  BY <1>1 DEF AsRealAction, Clamp

LEMMA ModesSame ==
    ASSUME UNCHANGED <<controller, reader>>
    PROVE  ReaderIs' = ReaderIs /\ ControllerIs' = ControllerIs
BY DEF ReaderIs, ControllerIs, Client

\* The connections, one of them replaced.
LEMMA ConnectionAt ==
    ASSUME NEW cs \in Seq(Connections), NEW i \in 1 .. Len(cs)
    PROVE  cs[i] \in Connections /\ cs[i].lines \in Seq(Wires) /\ cs[i].open \in BOOLEAN
<1>1. cs[i] \in Connections
  OBVIOUS
<1> QED
  BY <1>1 DEF Connections

LEMMA LastConnection ==
    ASSUME NEW cs \in Seq(Connections), cs # <<>>
    PROVE  Len(cs) \in Nat \ {0} /\ Len(cs) \in 1 .. Len(cs) /\ 1 \in 1 .. Len(cs)
<1>1. Len(cs) \in Nat /\ Len(cs) # 0
  BY EmptySeq
<1> QED
  BY <1>1

WithLines(cs, i, ls) == [cs EXCEPT ![i].lines = ls]

LEMMA LinesReplaced ==
    ASSUME NEW cs \in Seq(Connections), NEW i \in 1 .. Len(cs), NEW ls \in Seq(Wires)
    PROVE  /\ WithLines(cs, i, ls) \in Seq(Connections)
           /\ Len(WithLines(cs, i, ls)) = Len(cs)
           /\ WithLines(cs, i, ls)[i].lines = ls
           /\ \A j \in 1 .. Len(cs) : j # i => WithLines(cs, i, ls)[j] = cs[j]
<1> DEFINE c == [cs[i] EXCEPT !.lines = ls]
           ds == [cs EXCEPT ![i] = c]
<1>1. cs[i] \in Connections
  BY ConnectionAt
<1>2. c \in Connections /\ c.lines = ls
  BY <1>1 DEF Connections
<1>3. WithLines(cs, i, ls) = ds
  BY DEF WithLines
<1> HIDE DEF c
<1>4. /\ ds \in Seq(Connections) /\ Len(ds) = Len(cs)
      /\ \A j \in 1 .. Len(cs) : ds[j] = IF j = i THEN c ELSE cs[j]
  BY <1>2, ExceptSeq
<1> HIDE DEF ds
<1> QED
  BY <1>2, <1>3, <1>4

LEMMA TailConnections ==
    ASSUME NEW cs \in Seq(Connections), cs # <<>>
    PROVE  /\ Tail(cs) \in Seq(Connections) /\ Len(Tail(cs)) = Len(cs) - 1
           /\ Len(cs) # 1 => Tail(cs) # <<>> /\ Tail(cs)[Len(Tail(cs))] = cs[Len(cs)]
<1>1. /\ Tail(cs) \in Seq(Connections) /\ Len(Tail(cs)) = Len(cs) - 1
      /\ \A i \in 1 .. Len(Tail(cs)) : Tail(cs)[i] = cs[i + 1]
  BY HeadTailProperties
<1>2. Len(cs) \in Nat \ {0}
  BY LastConnection
<1>3. ASSUME Len(cs) # 1
      PROVE  Tail(cs) # <<>> /\ Tail(cs)[Len(Tail(cs))] = cs[Len(cs)]
  <2>1. Len(Tail(cs)) \in 1 .. Len(Tail(cs)) /\ Len(Tail(cs)) # 0
    BY <1>1, <1>2, <1>3
  <2>2. Len(<<>>) = 0
    OBVIOUS
  <2>3. Len(Tail(cs)) + 1 = Len(cs)
    BY <1>1, <1>2
  <2> QED
    BY <1>1, <2>1, <2>2, <2>3
<1> QED
  BY <1>1, <1>3

LEMMA LineType ==
    ASSUME NEW kind \in Kinds, NEW act \in Int
    PROVE  Line(kind, act) \in Wires
BY DEF Line, Wires

\* A request of a process that waits for nothing.
LEMMA RequestStep ==
    ASSUME BackendTypes, LinkInv, NEW kind \in Kinds, NEW act \in Int, Request(kind, act)
    PROVE  /\ conns' \in Seq(Connections) /\ link' \in {"up", "lost"} /\ reply' = reply
           /\ link' = "up" => conns' # <<>>
           /\ conns # <<>> => conns' # <<>>
           /\ link # "none" => link' = link /\ Len(conns') = Len(conns)
           /\ (link = "up" => Mine = <<>>) /\ link' = "up" => Mine' = <<Line(kind, act)>>
<1> USE DEF BackendTypes
<1> DEFINE line == Line(kind, act)
<1>1. line \in Wires
  BY LineType
<1> HIDE DEF line
<1>2. CASE link = "up"
  <2>1. conns # <<>>
    BY <1>2 DEF LinkInv
  <2>2. Len(conns) \in Nat \ {0} /\ Len(conns) \in 1 .. Len(conns)
    BY <2>1, LastConnection
  <2>3. Mine \in Seq(Wires)
    BY <2>2, ConnectionAt DEF Mine
  <2>4. Append(Mine, line) \in Seq(Wires)
    BY <1>1, <2>3, AppendProperties
  <2>5. /\ conns' = WithLines(conns, Len(conns), Append(Mine, line))
        /\ link' = "up" /\ reply' = reply
    BY <1>2 DEF Request, Mine, WithLines, line
  <2>6. /\ conns' \in Seq(Connections) /\ Len(conns') = Len(conns)
        /\ conns'[Len(conns)].lines = Append(Mine, line)
    BY <2>2, <2>4, <2>5, LinesReplaced
  <2>7. Mine' = Append(Mine, line)
    BY <2>6 DEF Mine
  <2>8. Mine = <<>> => Mine' = <<line>>
    BY <2>7
  <2>9. conns' # <<>>
    BY <2>2, <2>6
  <2> QED
    BY <1>2, <2>5, <2>6, <2>8, <2>9 DEF line
<1>3. CASE link = "none" /\ server # "stopped"
  <2> DEFINE c == [lines |-> <<line>>, open |-> TRUE]
  <2>1. c \in Connections /\ c.lines = <<line>>
    BY <1>1 DEF Connections
  <2>2. conns' = Append(conns, c) /\ link' = "up" /\ reply' = reply
    BY <1>3 DEF Request, line
  <2> HIDE DEF c
  <2>3. /\ conns' \in Seq(Connections) /\ conns' # <<>> /\ Len(conns') = Len(conns) + 1
        /\ conns'[Len(conns) + 1] = c
    BY <2>1, <2>2, AppendProperties
  <2>4. Mine' = <<line>>
    BY <2>1, <2>3 DEF Mine
  <2> QED
    BY <1>3, <2>2, <2>3, <2>4 DEF line
<1>4. CASE link = "lost" \/ (link = "none" /\ server = "stopped")
  <2>1. conns' = conns /\ link' = "lost" /\ reply' = reply
    BY <1>4 DEF Request
  <2> QED
    BY <1>4, <2>1
<1> QED
  BY <1>2, <1>3, <1>4

\* What a step of the server does with a connection it is done with.
LEMMA EndConnectionStep ==
    ASSUME BackendTypes, LinkInv, conns # <<>>, EndConnection
    PROVE  /\ conns' \in Seq(Connections) /\ accepted' = FALSE
           /\ link' = link \/ (link = "up" /\ link' = "lost")
           /\ link' = "up" =>
                link = "up" /\ Len(conns) # 1 /\ conns' # <<>> /\ Mine' = Mine
<1> USE DEF BackendTypes
<1>3. /\ conns' = Tail(conns) /\ accepted' = FALSE
      /\ link' = IF Len(conns) = 1 /\ link = "up" THEN "lost" ELSE link
  BY DEF EndConnection
<1>1. /\ conns' \in Seq(Connections)
      /\ Len(conns) # 1 => conns' # <<>> /\ conns'[Len(conns')] = conns[Len(conns)]
  BY <1>3, TailConnections
<1>2. Len(conns) # 1 => Mine' = Mine
  BY <1>1 DEF Mine
<1>4. ASSUME link' = "up" PROVE link = "up" /\ Len(conns) # 1
  BY <1>3, <1>4
<1>5. link' = link \/ (link = "up" /\ link' = "lost")
  BY <1>3
<1> QED
  BY <1>1, <1>2, <1>3, <1>4, <1>5

\* The line that is handled is that of the process only if nobody else is connected.
LEMMA HandleFrameStep ==
    ASSUME BackendTypes, LinkInv, HandleFrame
    PROVE  \E line \in Wires :
             /\ remote' = Moved(line)
             /\ conns' \in Seq(Connections) /\ accepted' \in BOOLEAN
             /\ accepted' => conns' # <<>>
             /\ link' = link \/ (link = "up" /\ link' = "lost")
             /\ link' = "up" => conns' # <<>>
             /\ \/ /\ ~(Len(conns) = 1 /\ link = "up")
                   /\ reply' = reply
                   /\ link' = "up" => Mine' = Mine /\ Len(conns) # 1
                \/ /\ Len(conns) = 1 /\ link = "up" /\ Mine # <<>> /\ line = Head(Mine)
                   /\ reply' = Answer(line, remote')
                   /\ link' = "up" => Mine' = Tail(Mine) /\ Len(conns') = 1
<1> USE DEF BackendTypes
<1>1. conns # <<>> /\ Head(conns).lines # <<>> /\ accepted
  BY DEF HandleFrame, LinkInv
<1>2. Len(conns) \in Nat \ {0} /\ Len(conns) \in 1 .. Len(conns) /\ 1 \in 1 .. Len(conns)
  BY <1>1, LastConnection
<1> DEFINE first == conns[1].lines
           line == Head(first)
<1>3. Head(conns) = conns[1]
  BY <1>1
<1>4. first \in Seq(Wires) /\ first # <<>>
  BY <1>1, <1>2, <1>3, ConnectionAt
<1> HIDE DEF first
<1>5. line \in Wires /\ Tail(first) \in Seq(Wires)
  BY <1>4, HeadTailProperties
<1>6. /\ remote' = Moved(line)
      /\ reply' = IF Len(conns) = 1 /\ link = "up" THEN Answer(line, remote') ELSE reply
      /\ IF line.kind \in {"close", "shutdown"} \/ server = "stopping"
           THEN EndConnection
           ELSE /\ conns' = WithLines(conns, 1, Tail(first))
                /\ UNCHANGED <<accepted, link>>
  BY <1>3 DEF HandleFrame, WithLines, first
<1>7. Len(conns) = 1 => Mine = first
  BY DEF Mine, first
<1> HIDE DEF line
<1>8. CASE line.kind \in {"close", "shutdown"} \/ server = "stopping"
  <2>1. /\ conns' \in Seq(Connections) /\ accepted' = FALSE
        /\ link' = link \/ (link = "up" /\ link' = "lost")
        /\ link' = "up" => link = "up" /\ Len(conns) # 1 /\ conns' # <<>> /\ Mine' = Mine
    BY <1>1, <1>6, <1>8, EndConnectionStep
  <2> QED
    BY <1>4, <1>5, <1>6, <1>7, <2>1 DEF line
<1>9. CASE ~(line.kind \in {"close", "shutdown"} \/ server = "stopping")
  <2>1. conns' = WithLines(conns, 1, Tail(first)) /\ accepted' = accepted /\ link' = link
    BY <1>6, <1>9
  <2>2. /\ conns' \in Seq(Connections) /\ Len(conns') = Len(conns)
        /\ conns'[1].lines = Tail(first)
        /\ \A j \in 1 .. Len(conns) : j # 1 => conns'[j] = conns[j]
    <3> DEFINE cs == conns
    <3>1. cs \in Seq(Connections) /\ 1 \in 1 .. Len(cs)
      BY <1>2
    <3> HIDE DEF cs
    <3>2. /\ WithLines(cs, 1, Tail(first)) \in Seq(Connections)
          /\ Len(WithLines(cs, 1, Tail(first))) = Len(cs)
          /\ WithLines(cs, 1, Tail(first))[1].lines = Tail(first)
          /\ \A j \in 1 .. Len(cs) : j # 1 => WithLines(cs, 1, Tail(first))[j] = cs[j]
      BY <1>5, <3>1, LinesReplaced
    <3> QED
      BY <2>1, <3>2 DEF cs
  <2>3. conns' # <<>>
    BY <1>2, <2>2
  <2>4. Len(conns) = 1 => Mine' = Tail(first)
    BY <2>2 DEF Mine
  <2>5. Len(conns) # 1 => Mine' = Mine
    BY <1>2, <2>2 DEF Mine
  <2> QED
    BY <1>4, <1>5, <1>6, <1>7, <2>1, <2>2, <2>3, <2>4, <2>5 DEF line
<1> QED
  BY <1>8, <1>9
-----------------------------------------------------------------------------
(* The invariant of RealBackend *)

Waiting == {"idle", "read", "apply", "resetting", "reading", "sending"}

LEMMA BackendInit == InitBackend => BackendInv
<1> SUFFICES ASSUME InitBackend PROVE BackendInv
  OBVIOUS
<1>1. /\ controller = "mock" /\ reader = "mock" /\ at = "off" /\ stepId = 0 /\ result = 0
      /\ local = 0 /\ inner = 0 /\ link = "none" /\ reply = NoReply /\ conns = <<>>
      /\ accepted = FALSE /\ remote = 0 /\ commanded = 0
  BY DEF InitBackend
<1>2. Full \in Nat
  BY FullAssumption
<1>3. NoReply \in Replies
  BY <1>2 DEF NoReply, Replies
<1>4. BackendTypes
  <2>1. 0 \in -Full .. Full /\ <<>> \in Seq(Connections)
    BY <1>2
  <2>2. accepted \in BOOLEAN
    BY <1>1
  <2> QED
    BY <1>1, <1>3, <2>1, <2>2 DEF BackendTypes
<1>5. LinkInv /\ WireInv /\ ModeInv
  BY <1>1 DEF LinkInv, WireInv, ModeInv, Awaits
<1>6. PlantInv /\ RemoteInv /\ AppliedOnce
  BY <1>1 DEF PlantInv, RemoteInv, AppliedOnce, ReaderIs
<1> QED
  BY <1>4, <1>5, <1>6 DEF BackendInv

\* A process that has begun no episode, or has ended, owes nothing.
LEMMA Elsewhere ==
    ASSUME BackendTypes', LinkInv', PlantInv', at' \notin Waiting
    PROVE  BackendInv'
<1>1. WireInv' /\ ModeInv' /\ RemoteInv' /\ AppliedOnce'
  BY DEF Waiting, WireInv, ModeInv, RemoteInv, AppliedOnce, Awaits
<1> QED
  BY <1>1 DEF BackendInv

\* Nothing is moved in the process.
LEMMA PlantStays ==
    ASSUME PlantInv, UNCHANGED <<controller, reader>>, UNCHANGED <<local, inner, commanded>>
    PROVE  PlantInv'
BY ModesSame DEF PlantInv

LEMMA StartProcessStep == ASSUME BackendInv, StartProcess PROVE BackendInv'
<1> USE DEF BackendInv
<1>1. /\ at = "off" /\ at' \in {"idle", "script"}
      /\ local' = 0 /\ inner' = 0 /\ stepId' = 0 /\ result' = 0 /\ commanded' = 0
      /\ seen' = Nothing /\ reply' = NoReply
      /\ link' = link /\ conns' = conns /\ accepted' = accepted /\ remote' = remote
  BY DEF StartProcess, serverVars
<1>2. Full \in Nat
  BY FullAssumption
<1>3. NoReply \in Replies
  BY <1>2 DEF NoReply, Replies
<1>4. BackendTypes'
  BY <1>1, <1>2, <1>3 DEF BackendTypes
<1>5. LinkInv' /\ WireInv' /\ ModeInv'
  BY <1>1 DEF LinkInv, WireInv, ModeInv, Awaits
<1>6. PlantInv' /\ AppliedOnce'
  BY <1>1 DEF PlantInv, AppliedOnce
<1>7. RemoteInv'
  BY <1>1 DEF RemoteInv
<1> QED
  BY <1>4, <1>5, <1>6, <1>7

\* Hanging up, and saying so before.
LEMMA HungUp ==
    ASSUME BackendTypes, LinkInv,
           \/ conns' = HangUp
           \/ conns' = IF link = "up"
                         THEN [conns EXCEPT ![Len(conns)] =
                                 [lines |-> Append(@.lines, Line("close", 0)), open |-> FALSE]]
                         ELSE conns
    PROVE  conns' \in Seq(Connections) /\ (conns # <<>> => conns' # <<>>)
<1> USE DEF BackendTypes
<1>1. CASE link # "up"
  BY <1>1 DEF HangUp
<1>2. CASE link = "up"
  <2> DEFINE n == Len(conns)
             hung == [conns[n] EXCEPT !.open = FALSE]
             closed == [lines |-> Append(conns[n].lines, Line("close", 0)), open |-> FALSE]
  <2>1. n \in Nat \ {0} /\ n \in 1 .. Len(conns)
    BY <1>2, LastConnection DEF LinkInv
  <2>2. conns[n] \in Connections /\ conns[n].lines \in Seq(Wires)
    BY <2>1, ConnectionAt
  <2>3. hung \in Connections
    BY <2>2 DEF Connections
  <2>4. closed \in Connections
    <3>1. Line("close", 0) \in Wires
      BY LineType DEF Kinds
    <3>2. Append(conns[n].lines, Line("close", 0)) \in Seq(Wires)
      BY <2>2, <3>1, AppendProperties
    <3> QED
      BY <3>2 DEF Connections
  <2>5. conns' = [conns EXCEPT ![n] = hung] \/ conns' = [conns EXCEPT ![n] = closed]
    BY <1>2 DEF HangUp
  <2> HIDE DEF hung, closed, n
  <2>6. /\ [conns EXCEPT ![n] = hung] \in Seq(Connections)
        /\ Len([conns EXCEPT ![n] = hung]) = Len(conns)
    BY <2>1, <2>3, ExceptSeq
  <2>7. /\ [conns EXCEPT ![n] = closed] \in Seq(Connections)
        /\ Len([conns EXCEPT ![n] = closed]) = Len(conns)
    BY <2>1, <2>4, ExceptSeq
  <2>8. conns' \in Seq(Connections) /\ Len(conns') = Len(conns)
    BY <2>5, <2>6, <2>7
  <2>9. Len(conns) # 0
    BY <2>1 DEF n
  <2> QED
    BY <2>8, <2>9
<1> QED
  BY <1>1, <1>2

LEMMA LeaveStep ==
    ASSUME BackendInv, Fail \/ Close \/ Kill \/ ScriptEnds
    PROVE  BackendInv'
<1> USE DEF BackendInv
<1>1. /\ UNCHANGED <<controller, reader, local, inner, commanded, remote, result, accepted>>
      /\ stepId' = stepId
  BY DEF Fail, Close, Kill, ScriptEnds, modeVars, progressVars, plantVars, serverVars
<1>2. PlantInv'
  BY <1>1, PlantStays
<1>3. Full \in Nat
  BY FullAssumption
<1>4. NoReply \in Replies
  BY <1>3 DEF NoReply, Replies
<1>5. CASE Fail
  <2>1. at' = "closing" /\ link' = link /\ conns' = conns /\ reply' = reply
    BY <1>5 DEF Fail, wireVars
  <2>2. BackendTypes'
    BY <1>1, <2>1 DEF BackendTypes
  <2>3. LinkInv' /\ at' \notin Waiting
    BY <1>1, <2>1 DEF LinkInv, Waiting
  <2> QED
    BY <1>2, <2>2, <2>3, Elsewhere
<1>6. CASE Close \/ Kill \/ ScriptEnds
  <2>1. at' = "off" /\ link' = "none" /\ reply' = NoReply
    BY <1>6 DEF Close, Kill, ScriptEnds
  <2>2. conns' \in Seq(Connections) /\ (conns # <<>> => conns' # <<>>)
    BY <1>6, HungUp DEF Close, Kill, ScriptEnds
  <2>3. BackendTypes'
    BY <1>1, <1>4, <2>1, <2>2 DEF BackendTypes
  <2>4. LinkInv' /\ at' \notin Waiting
    BY <1>1, <2>1, <2>2 DEF LinkInv, Waiting
  <2> QED
    BY <1>2, <2>3, <2>4, Elsewhere
<1> QED
  BY <1>5, <1>6

LEMMA ScriptLines == Script \in Seq(Wires)
<1>1. \A kind \in Kinds, act \in Int : Line(kind, act) \in Wires
  BY LineType
<1>2. SmokeScript \in Seq(Wires)
  BY <1>1 DEF SmokeScript, Kinds, Rejected
<1>3. \A v \in Int : OneDirection(v) \in Seq(Wires)
  BY <1>1 DEF OneDirection, Kinds, Rejected
<1>4. <<Line("send_action", 0), Line("read_state", 0)>> \in Seq(Wires)
  BY <1>1 DEF Kinds
<1>5. -1 \in Int /\ 1 \in Int
  OBVIOUS
<1>6. OneDirection(1) \in Seq(Wires) /\ OneDirection(-1) \in Seq(Wires)
  BY <1>3, <1>5
<1>7. BringUpScript \in Seq(Wires)
  BY <1>4, <1>6, ConcatProperties DEF BringUpScript
<1> QED
  BY <1>2, <1>7 DEF Script

LEMMA ScriptStep ==
    ASSUME BackendInv, ScriptRequest \/ ScriptReply
    PROVE  BackendInv'
<1> USE DEF BackendInv
<1>1. CASE ScriptRequest
  <2>1. PICK kind \in Kinds, act \in Int :
          Request(kind, act) /\ at' \in {"scripted", "ending"}
    <3>1. CASE /\ stepId < Len(Script) /\ at' = "scripted"
               /\ Request(Script[stepId + 1].kind, Script[stepId + 1].act)
      <4>1. stepId + 1 \in 1 .. Len(Script)
        BY <3>1, ScriptLines DEF BackendTypes
      <4>2. Script[stepId + 1] \in Wires
        BY <4>1, ScriptLines
      <4> QED
        BY <3>1, <4>2 DEF Wires
    <3>2. CASE at' = "ending" /\ \E kind \in {"close", "shutdown"} : Request(kind, 0)
      BY <3>2 DEF Kinds
    <3> QED
      BY <1>1, <3>1, <3>2 DEF ScriptRequest
  <2>2. /\ UNCHANGED <<controller, reader, local, inner, commanded, remote, result, accepted>>
        /\ stepId' = stepId
    BY <1>1 DEF ScriptRequest, modeVars, progressVars, plantVars, serverVars
  <2>3. /\ conns' \in Seq(Connections) /\ link' \in {"up", "lost"} /\ reply' = reply
        /\ link' = "up" => conns' # <<>>
        /\ conns # <<>> => conns' # <<>>
    BY <2>1, RequestStep
  <2>4. BackendTypes'
    BY <2>2, <2>3 DEF BackendTypes
  <2>5. LinkInv' /\ at' \notin Waiting
    BY <2>1, <2>2, <2>3 DEF LinkInv, Waiting
  <2> QED
    BY <2>2, <2>4, <2>5, PlantStays, Elsewhere
<1>2. CASE ScriptReply
  <2>1. /\ UNCHANGED <<controller, reader, local, inner, commanded, remote, result, accepted>>
        /\ stepId' = stepId + 1 /\ at' = "script" /\ reply' = NoReply
        /\ link' = link /\ conns' = conns
    BY <1>2 DEF ScriptReply, modeVars, progressVars, plantVars, serverVars
  <2>2. Full \in Nat
    BY FullAssumption
  <2>3. NoReply \in Replies
    BY <2>2 DEF NoReply, Replies
  <2>4. BackendTypes'
    BY <2>1, <2>3 DEF BackendTypes
  <2>5. LinkInv' /\ at' \notin Waiting
    BY <2>1 DEF LinkInv, Waiting
  <2> QED
    BY <2>1, <2>4, <2>5, PlantStays, Elsewhere
<1> QED
  BY <1>1, <1>2

LEMMA StartEpisodeStep == ASSUME BackendInv, StartEpisode PROVE BackendInv'
<1> USE DEF BackendInv
<1>1. /\ at = "idle" /\ stepId' = 0 /\ commanded' = 0 /\ seen' = Nothing
      /\ local' = IF ReaderIs = "mock" THEN 0 ELSE local
      /\ inner' = IF ReaderIs = "inner" THEN 0 ELSE inner
      /\ UNCHANGED <<controller, reader, remote, result, accepted>>
  BY DEF StartEpisode, modeVars, serverVars
<1>2. ReaderIs' = ReaderIs /\ ControllerIs' = ControllerIs
  BY <1>1, ModesSame
<1>3. PlantInv'
  BY <1>1, <1>2 DEF PlantInv
<1>4. reply = NoReply /\ (link = "up" => Mine = <<>>)
  BY <1>1 DEF WireInv
<1>5. CASE ReaderIs = "tcp"
  <2>1. Request("reset", 0) /\ at' = "resetting"
    BY <1>5 DEF StartEpisode
  <2>2. /\ conns' \in Seq(Connections) /\ link' \in {"up", "lost"} /\ reply' = reply
        /\ link' = "up" => conns' # <<>>
        /\ conns # <<>> => conns' # <<>>
        /\ link' = "up" => Mine' = <<Line("reset", 0)>>
    <3>1. "reset" \in Kinds /\ 0 \in Int
      BY DEF Kinds
    <3> QED
      BY <1>4, <2>1, <3>1, RequestStep
  <2>3. BackendTypes' /\ LinkInv'
    BY <1>1, <2>1, <2>2 DEF BackendTypes, LinkInv
  <2>4. 0 \in -Full .. Full
    BY FullAssumption
  <2>5. WireInv' /\ ModeInv'
    BY <1>2, <1>4, <1>5, <2>1, <2>2, <2>4 DEF WireInv, ModeInv, Awaits
  <2>6. RemoteInv' /\ AppliedOnce'
    BY <1>1, <1>4, <2>1, <2>2 DEF RemoteInv, AppliedOnce
  <2> QED
    BY <1>3, <2>3, <2>5, <2>6
<1>6. CASE ReaderIs # "tcp"
  <2>1. at' = "read" /\ link' = link /\ reply' = reply /\ conns' = conns
    BY <1>6 DEF StartEpisode, wireVars
  <2>2. BackendTypes' /\ LinkInv'
    BY <1>1, <2>1 DEF BackendTypes, LinkInv
  <2>3. WireInv' /\ ModeInv'
    BY <1>4, <2>1 DEF WireInv, ModeInv, Awaits, Mine
  <2>4. RemoteInv' /\ AppliedOnce'
    BY <1>2, <1>6, <2>1 DEF RemoteInv, AppliedOnce
  <2> QED
    BY <1>3, <2>2, <2>3, <2>4
<1> QED
  BY <1>5, <1>6

LEMMA ResetReplyStep == ASSUME BackendInv, ResetReply PROVE BackendInv'
<1> USE DEF BackendInv
<1>1. /\ at = "resetting" /\ reply.type = "reset" /\ reply' = NoReply /\ at' = "read"
      /\ UNCHANGED <<controller, reader, stepId, result, seen, commanded, local, inner>>
      /\ UNCHANGED <<link, conns, remote, accepted>>
  BY DEF ResetReply, Answered, modeVars, progressVars, plantVars, serverVars
<1>2. ReaderIs' = ReaderIs /\ ControllerIs' = ControllerIs
  BY <1>1, ModesSame
<1>3. PlantInv'
  BY <1>1, PlantStays
<1>4. reply # NoReply
  BY <1>1 DEF NoReply
<1>5. NoReply \in Replies
  BY FullAssumption DEF NoReply, Replies
<1>6. BackendTypes' /\ LinkInv'
  BY <1>1, <1>5 DEF BackendTypes, LinkInv
<1>7. link = "up" => Mine = <<>>
  BY <1>1, <1>4 DEF WireInv, Awaits
<1>8. WireInv' /\ ModeInv'
  BY <1>1, <1>7 DEF WireInv, ModeInv, Awaits, Mine
<1>9. ReaderIs = "tcp" => commanded = 0 /\ Shown(0)
  BY <1>1, <1>4 DEF RemoteInv
<1>10. RemoteInv' /\ AppliedOnce'
  BY <1>1, <1>2, <1>9 DEF RemoteInv, AppliedOnce, Shown
<1> QED
  BY <1>3, <1>6, <1>8, <1>10

\* What is observed is where the commands have taken the joints.
LEMMA ObserveStep ==
    ASSUME BackendInv, at \in {"read", "reading"}, NEW sample, Observe(sample),
           ~(ControllerIs = "mock" /\ ReaderIs = "tcp") => sample.qpos = commanded,
           reply' = NoReply, link = "up" => Mine = <<>>,
           UNCHANGED <<controller, reader, stepId, result, commanded, local, inner>>,
           UNCHANGED <<link, conns, remote, accepted>>
    PROVE  BackendInv'
<1> USE DEF BackendInv
<1>1. at' = "idle" /\ seen' = [qpos |-> sample.qpos, id |-> stepId]
  BY DEF Observe
<1>2. ReaderIs' = ReaderIs /\ ControllerIs' = ControllerIs
  BY ModesSame
<1>3. PlantInv'
  BY PlantStays
<1>4. NoReply \in Replies
  BY FullAssumption DEF NoReply, Replies
<1>5. BackendTypes' /\ LinkInv'
  BY <1>1, <1>4 DEF BackendTypes, LinkInv
<1>6. WireInv' /\ ModeInv'
  BY <1>1 DEF WireInv, ModeInv, Awaits, Mine
<1>7. AppliedOnce'
  BY <1>1, <1>2 DEF AppliedOnce
<1>8. ReaderIs = "tcp" => Shown(commanded)
  BY DEF RemoteInv
<1>9. RemoteInv'
  BY <1>1, <1>2, <1>8 DEF RemoteInv, Shown
<1> QED
  BY <1>3, <1>5, <1>6, <1>7, <1>9

LEMMA ReadStateStep == ASSUME BackendInv, ReadState PROVE BackendInv'
<1> USE DEF BackendInv
<1>1. /\ at = "read"
      /\ UNCHANGED <<controller, reader, stepId, result, commanded, local, inner>>
      /\ UNCHANGED <<remote, accepted>>
  BY DEF ReadState, modeVars, plantVars, serverVars
<1>2. ReaderIs' = ReaderIs /\ ControllerIs' = ControllerIs
  BY <1>1, ModesSame
<1>3. reply = NoReply /\ (link = "up" => Mine = <<>>)
  BY <1>1 DEF WireInv
<1>4. ReaderIs \in {"mock", "inner", "tcp"}
  BY DEF ReaderIs, Client
<1>5. CASE ReaderIs = "mock"
  <2>1. Observe(Sample(local)) /\ UNCHANGED <<link, reply, conns>>
    BY <1>5 DEF ReadState, wireVars
  <2>2. Sample(local).qpos = commanded
    BY <1>5 DEF Sample, PlantInv
  <2> QED
    BY <1>1, <1>3, <2>1, <2>2, ObserveStep
<1>6. CASE ReaderIs = "inner"
  <2>1. Observe(Sample(inner)) /\ UNCHANGED <<link, reply, conns>>
    BY <1>6 DEF ReadState, wireVars
  <2>2. Sample(inner).qpos = commanded
    BY <1>6 DEF Sample, PlantInv
  <2> QED
    BY <1>1, <1>3, <2>1, <2>2, ObserveStep
<1>7. CASE ReaderIs = "tcp"
  <2>1. Request("read_state", 0) /\ at' = "reading" /\ seen' = seen
    BY <1>7 DEF ReadState
  <2>2. /\ conns' \in Seq(Connections) /\ link' \in {"up", "lost"} /\ reply' = reply
        /\ link' = "up" => conns' # <<>>
        /\ conns # <<>> => conns' # <<>>
        /\ link # "none" => link' = link /\ Len(conns') = Len(conns)
        /\ link' = "up" => Mine' = <<Line("read_state", 0)>>
    <3>1. "read_state" \in Kinds /\ 0 \in Int
      BY DEF Kinds
    <3> QED
      BY <1>3, <2>1, <3>1, RequestStep
  <2>3. BackendTypes' /\ LinkInv'
    BY <1>1, <2>1, <2>2 DEF BackendTypes, LinkInv
  <2>4. 0 \in -Full .. Full
    BY FullAssumption
  <2>5. WireInv' /\ ModeInv'
    BY <1>2, <1>3, <1>7, <2>1, <2>2, <2>4 DEF WireInv, ModeInv, Awaits
  <2>6. PlantInv' /\ AppliedOnce'
    BY <1>1, <2>1, PlantStays DEF AppliedOnce
  <2>7. Shown(commanded)
    BY <1>1, <1>7 DEF RemoteInv
  <2>8. RemoteInv'
    BY <1>1, <1>2, <1>3, <2>1, <2>2, <2>7 DEF RemoteInv, Shown
  <2> QED
    BY <2>3, <2>5, <2>6, <2>8
<1> QED
  BY <1>4, <1>5, <1>6, <1>7

LEMMA ReadReplyStep == ASSUME BackendInv, ReadReply PROVE BackendInv'
<1> USE DEF BackendInv
<1>1. /\ at = "reading" /\ reply.type = "read_state" /\ reply' = NoReply /\ Observe(reply)
      /\ UNCHANGED <<controller, reader, stepId, result, commanded, local, inner>>
      /\ UNCHANGED <<link, conns, remote, accepted>>
  BY DEF ReadReply, Answered, modeVars, plantVars, serverVars
<1>2. reply # NoReply
  BY <1>1 DEF NoReply
<1>3. link = "up" => Mine = <<>>
  BY <1>1, <1>2 DEF WireInv, Awaits
<1>4. ~(ControllerIs = "mock" /\ ReaderIs = "tcp") => reply.qpos = commanded
  BY <1>1, <1>2 DEF RemoteInv, ModeInv
<1> QED
  BY <1>1, <1>3, <1>4, ObserveStep

LEMMA StepStep ==
    ASSUME BackendInv, NEW a \in Sends, Step(a)
    PROVE  BackendInv'
<1> USE DEF BackendInv
<1>1. /\ at = "idle" /\ seen # Nothing
      /\ UNCHANGED <<controller, reader, stepId, seen, commanded, local, inner>>
      /\ UNCHANGED <<remote, accepted>>
  BY DEF Step, modeVars, plantVars, serverVars
<1>2. ReaderIs' = ReaderIs /\ ControllerIs' = ControllerIs
  BY <1>1, ModesSame
<1>3. PlantInv'
  BY <1>1, PlantStays
<1>4. reply = NoReply /\ (link = "up" => Mine = <<>>)
  BY <1>1 DEF WireInv
<1>5. AsRealAction(a) \in -Full .. Full /\ AsRealAction(a) \in Int
  BY RealActionBound, RealBackendAssumption
<1>6. ReaderIs = "tcp" => Shown(commanded)
  BY <1>1 DEF RemoteInv
<1>7. CASE ControllerIs = "tcp"
  <2>1. Request("send_action", AsRealAction(a)) /\ at' = "sending" /\ result' = result
    BY <1>7 DEF Step
  <2>2. /\ conns' \in Seq(Connections) /\ link' \in {"up", "lost"} /\ reply' = reply
        /\ link' = "up" => conns' # <<>>
        /\ conns # <<>> => conns' # <<>>
        /\ link # "none" => link' = link /\ Len(conns') = Len(conns)
        /\ link' = "up" => Mine' = <<Line("send_action", AsRealAction(a))>>
    <3>1. "send_action" \in Kinds
      BY DEF Kinds
    <3> QED
      BY <1>4, <1>5, <2>1, <3>1, RequestStep
  <2>3. BackendTypes' /\ LinkInv'
    BY <1>1, <2>1, <2>2 DEF BackendTypes, LinkInv
  <2>4. WireInv' /\ ModeInv'
    BY <1>2, <1>4, <1>5, <1>7, <2>1, <2>2 DEF WireInv, ModeInv, Awaits
  <2>5. RemoteInv' /\ AppliedOnce'
    BY <1>1, <1>2, <1>4, <1>6, <2>1, <2>2 DEF RemoteInv, AppliedOnce, Shown
  <2> QED
    BY <1>3, <2>3, <2>4, <2>5
<1>8. CASE ControllerIs # "tcp"
  <2>1. result' = Acknowledged(a) /\ at' = "apply" /\ UNCHANGED <<link, reply, conns>>
    BY <1>8 DEF Step, wireVars
  <2>2. result' \in -Full .. Full /\ (ControllerIs = "noop" => result' = 0)
    BY <1>5, <2>1, FullAssumption DEF Acknowledged
  <2>3. BackendTypes' /\ LinkInv'
    BY <1>1, <2>1, <2>2 DEF BackendTypes, LinkInv
  <2>4. WireInv' /\ ModeInv'
    BY <1>2, <1>4, <2>1, <2>2 DEF WireInv, ModeInv, Awaits, Mine
  <2>5. ReaderIs = "tcp" /\ ControllerIs # "mock" => ControllerIs = "noop"
    BY <1>8 DEF ReaderIs, ControllerIs, Client
  <2>6. ReaderIs = "tcp" /\ ControllerIs # "mock" => commanded' + result' = commanded
    BY <1>1, <2>2, <2>5 DEF BackendTypes
  <2>7. RemoteInv' /\ AppliedOnce'
    BY <1>1, <1>2, <1>6, <2>1, <2>6 DEF RemoteInv, AppliedOnce, Shown
  <2> QED
    BY <1>3, <2>3, <2>4, <2>7
<1> QED
  BY <1>7, <1>8

LEMMA SendReplyStep == ASSUME BackendInv, SendReply PROVE BackendInv'
<1> USE DEF BackendInv
<1>1. /\ at = "sending" /\ reply.type = "send_action" /\ reply' = NoReply
      /\ result' = reply.act /\ at' = "apply"
      /\ UNCHANGED <<controller, reader, stepId, seen, commanded, local, inner>>
      /\ UNCHANGED <<link, conns, remote, accepted>>
  BY DEF SendReply, Answered, modeVars, plantVars, serverVars
<1>2. ReaderIs' = ReaderIs /\ ControllerIs' = ControllerIs
  BY <1>1, ModesSame
<1>3. reply # NoReply
  BY <1>1 DEF NoReply
<1>4. NoReply \in Replies
  BY FullAssumption DEF NoReply, Replies
<1>5. reply.act \in -Full .. Full
  BY DEF BackendTypes, Replies
<1>6. BackendTypes' /\ LinkInv'
  BY <1>1, <1>4, <1>5 DEF BackendTypes, LinkInv
<1>7. link = "up" => Mine = <<>>
  BY <1>1, <1>3 DEF WireInv, Awaits
<1>8. ControllerIs = "tcp"
  BY <1>1 DEF ModeInv
<1>9. WireInv' /\ ModeInv'
  BY <1>1, <1>2, <1>7, <1>8 DEF WireInv, ModeInv, Awaits, Mine
<1>10. ReaderIs = "tcp" => Shown(commanded + reply.act)
  BY <1>1, <1>3 DEF RemoteInv
<1>11. RemoteInv' /\ AppliedOnce'
  BY <1>1, <1>2, <1>10 DEF RemoteInv, AppliedOnce, Shown
<1> QED
  BY <1>1, <1>6, <1>9, <1>11, PlantStays

LEMMA ApplyStep == ASSUME BackendInv, Apply PROVE BackendInv'
<1> USE DEF BackendInv
<1>1. /\ at = "apply" /\ at' = "read"
      /\ local' = IF ReaderIs = "mock" THEN local + AsRealAction(result) ELSE local
      /\ inner' = IF ReaderIs = "inner" THEN inner + AsRealAction(result) ELSE inner
      /\ commanded' = commanded + result /\ stepId' = stepId + 1
      /\ UNCHANGED <<controller, reader, result, seen, link, reply, conns>>
      /\ UNCHANGED <<remote, accepted>>
  BY DEF Apply, modeVars, wireVars, serverVars, MockMoved, InnerMoved
<1>2. ReaderIs' = ReaderIs /\ ControllerIs' = ControllerIs
  BY <1>1, ModesSame
<1>3. result \in -Full .. Full /\ Full \in Nat /\ result \in Int
  BY FullAssumption DEF BackendTypes
<1>4. AsRealAction(result) = result
  BY <1>3 DEF AsRealAction, Clamp
<1>5. BackendTypes' /\ LinkInv'
  BY <1>1, <1>3, <1>4 DEF BackendTypes, LinkInv
<1>6. PlantInv'
  BY <1>1, <1>2, <1>4 DEF PlantInv
<1>7. WireInv' /\ ModeInv'
  BY <1>1 DEF WireInv, ModeInv, Awaits, Mine
<1>8. ReaderIs = "tcp" => Shown(commanded + result)
  BY <1>1 DEF RemoteInv
<1>9. RemoteInv' /\ AppliedOnce'
  BY <1>1, <1>2, <1>8 DEF RemoteInv, AppliedOnce, Shown
<1> QED
  BY <1>5, <1>6, <1>7, <1>9

\* A step of the server that does not answer the process.
LEMMA ServerQuiet ==
    ASSUME BackendInv, BackendTypes', LinkInv',
           UNCHANGED <<controller, reader, at, stepId, result, seen, commanded>>,
           UNCHANGED <<local, inner, reply>>,
           link' = link \/ (link = "up" /\ link' = "lost"),
           link' = "up" =>
             /\ Mine' = Mine
             /\ Len(conns) = 1 => Len(conns') = 1 /\ remote' = remote
    PROVE  BackendInv'
<1> USE DEF BackendInv
<1>1. ReaderIs' = ReaderIs /\ ControllerIs' = ControllerIs
  BY ModesSame
<1>2. PlantInv'
  BY PlantStays
<1>3. WireInv'
  BY DEF WireInv, Awaits
<1>4. ModeInv' /\ AppliedOnce'
  BY <1>1 DEF ModeInv, AppliedOnce
<1>5. RemoteInv'
  BY <1>1 DEF RemoteInv, Shown
<1> QED
  BY <1>2, <1>3, <1>4, <1>5

LEMMA ServerStep ==
    ASSUME BackendInv, Accept \/ SetStop \/ StopServing \/ EndOfFile
    PROVE  BackendInv'
<1> USE DEF BackendInv
<1>1. /\ UNCHANGED <<controller, reader, at, stepId, result, seen, commanded>>
      /\ UNCHANGED <<local, inner, reply, remote>>
  BY DEF Accept, SetStop, StopServing, EndOfFile, modeVars, progressVars, plantVars, wireVars
<1>2. CASE Accept \/ SetStop
  <2>1. /\ link' = link /\ conns' = conns
        /\ accepted' = accepted \/ (accepted' = TRUE /\ conns # <<>>)
    BY <1>2 DEF Accept, SetStop, wireVars
  <2>2. accepted' \in BOOLEAN
    BY <2>1 DEF BackendTypes
  <2>3. BackendTypes'
    BY <1>1, <2>1, <2>2 DEF BackendTypes
  <2>4. LinkInv'
    BY <1>1, <2>1 DEF LinkInv
  <2> QED
    BY <1>1, <2>1, <2>3, <2>4, ServerQuiet DEF Mine
<1>3. CASE StopServing
  <2>1. /\ ~accepted /\ accepted' = accepted /\ conns' = <<>>
        /\ link' = IF link = "up" THEN "lost" ELSE link
    BY <1>3 DEF StopServing
  <2>2. conns' \in Seq(Connections) /\ link' \in {"none", "lost"}
    BY <2>1 DEF BackendTypes
  <2>3. BackendTypes' /\ LinkInv'
    BY <1>1, <2>1, <2>2 DEF BackendTypes, LinkInv
  <2>4. link' = link \/ (link = "up" /\ link' = "lost")
    BY <2>1
  <2> QED
    BY <1>1, <2>2, <2>3, <2>4, ServerQuiet
<1>4. CASE EndOfFile
  <2>1. conns # <<>> /\ EndConnection
    BY <1>4 DEF EndOfFile, LinkInv
  <2>2. /\ conns' \in Seq(Connections) /\ accepted' = FALSE
        /\ link' = link \/ (link = "up" /\ link' = "lost")
        /\ link' = "up" => link = "up" /\ Len(conns) # 1 /\ conns' # <<>> /\ Mine' = Mine
    BY <2>1, EndConnectionStep
  <2>3. BackendTypes' /\ LinkInv'
    BY <1>1, <2>2 DEF BackendTypes, LinkInv
  <2> QED
    BY <1>1, <2>2, <2>3, ServerQuiet
<1> QED
  BY <1>2, <1>3, <1>4

\* The answer is that of the request, and is what the joints have done.
LEMMA AnswerType ==
    ASSUME NEW line \in Wires, NEW qpos \in Int
    PROVE  /\ Answer(line, qpos) \in Replies /\ Answer(line, qpos) # NoReply
           /\ line.kind = "read_state" => Answer(line, qpos).qpos = qpos
           /\ line.kind = "send_action" => Answer(line, qpos).act = AsRealAction(line.act)
<1>1. line.kind \in Kinds /\ line.act \in Int
  BY DEF Wires
<1>2. AsRealAction(line.act) \in -Full .. Full /\ 0 \in -Full .. Full
  BY <1>1, RealActionBound, FullAssumption
<1>3. StatePayload(line, qpos) \in Int /\ ResultPayload(line) \in -Full .. Full
  BY <1>2 DEF StatePayload, ResultPayload
<1>4. Answer(line, qpos).type \in (Kinds \cup {"error"})
  BY <1>1 DEF Answer
<1>5. Answer(line, qpos) \in Replies
  BY <1>1, <1>3 DEF Answer, Replies
<1>6. Answer(line, qpos) # NoReply
  BY <1>4 DEF NoReply, Kinds, Rejected
<1> QED
  BY <1>5, <1>6 DEF Answer, StatePayload, ResultPayload

LEMMA HandledStep == ASSUME BackendInv, HandleFrame PROVE BackendInv'
<1> USE DEF BackendInv
<1>1. /\ UNCHANGED <<controller, reader, at, stepId, result, seen, commanded>>
      /\ UNCHANGED <<local, inner>>
  BY DEF HandleFrame, modeVars, progressVars, plantVars
<1>2. PICK line \in Wires :
        /\ remote' = Moved(line)
        /\ conns' \in Seq(Connections) /\ accepted' \in BOOLEAN
        /\ accepted' => conns' # <<>>
        /\ link' = link \/ (link = "up" /\ link' = "lost")
        /\ link' = "up" => conns' # <<>>
        /\ \/ /\ ~(Len(conns) = 1 /\ link = "up")
              /\ reply' = reply
              /\ link' = "up" => Mine' = Mine /\ Len(conns) # 1
           \/ /\ Len(conns) = 1 /\ link = "up" /\ Mine # <<>> /\ line = Head(Mine)
              /\ reply' = Answer(line, remote')
              /\ link' = "up" => Mine' = Tail(Mine) /\ Len(conns') = 1
  BY HandleFrameStep
<1>3. line.kind \in Kinds /\ line.act \in Int /\ AsRealAction(line.act) \in Int
  BY RealActionBound DEF Wires
<1>4. remote' \in Int
  BY <1>2, <1>3 DEF Moved, BackendTypes
<1>5. LinkInv'
  BY <1>1, <1>2 DEF LinkInv
<1>6. CASE /\ ~(Len(conns) = 1 /\ link = "up") /\ reply' = reply
           /\ link' = "up" => Mine' = Mine /\ Len(conns) # 1
  <2>1. BackendTypes'
    BY <1>1, <1>2, <1>4, <1>6 DEF BackendTypes
  <2> QED
    BY <1>1, <1>2, <1>5, <1>6, <2>1, ServerQuiet
<1>7. CASE /\ Len(conns) = 1 /\ link = "up" /\ Mine # <<>> /\ line = Head(Mine)
           /\ reply' = Answer(line, remote')
           /\ link' = "up" => Mine' = Tail(Mine) /\ Len(conns') = 1
  <2>1. /\ reply' \in Replies /\ reply' # NoReply
        /\ line.kind = "read_state" => reply'.qpos = remote'
        /\ line.kind = "send_action" => reply'.act = AsRealAction(line.act)
    BY <1>4, <1>7, AnswerType
  <2>2. BackendTypes'
    BY <1>1, <1>2, <1>4, <2>1 DEF BackendTypes
  <2>3. PlantInv'
    BY <1>1, PlantStays
  <2>4. ReaderIs' = ReaderIs /\ ControllerIs' = ControllerIs
    BY <1>1, ModesSame
  <2>5. CASE at \notin Waiting
    BY <1>1, <1>5, <2>2, <2>3, <2>5, Elsewhere
  <2>6. CASE at \in {"idle", "read", "apply"}
    BY <1>7, <2>6 DEF WireInv
  <2>7. CASE at \in DOMAIN Awaits
    <3>1. PICK a \in -Full .. Full : reply = NoReply /\ Mine = <<Line(Awaits[at], a)>>
      BY <1>7, <2>7 DEF WireInv
    <3>2. line = Line(Awaits[at], a) /\ Tail(Mine) = <<>>
      BY <1>7, <3>1
    <3>3. line.kind = Awaits[at] /\ line.act = a
      BY <3>2 DEF Line
    <3>4. WireInv'
      BY <1>1, <1>7, <2>1, <2>7, <3>2 DEF WireInv, Awaits
    <3>5. ModeInv' /\ AppliedOnce'
      BY <1>1, <2>4, <2>7 DEF ModeInv, AppliedOnce, Awaits
    <3>6. link' # "none" /\ (link' = "up" => Len(conns') = 1)
      BY <1>2, <1>7
    <3>7. CASE at = "resetting"
      <4>1. line.kind = "reset"
        BY <3>3, <3>7 DEF Awaits
      <4>2. remote' = 0
        BY <1>2, <4>1 DEF Moved
      <4>3. RemoteInv'
        BY <1>1, <2>4, <3>6, <3>7, <4>2 DEF RemoteInv, Shown
      <4> QED
        BY <1>5, <2>2, <2>3, <3>4, <3>5, <4>3
    <3>8. CASE at = "reading"
      <4>1. line.kind = "read_state"
        BY <3>3, <3>8 DEF Awaits
      <4>2. remote' = remote /\ reply'.qpos = remote
        BY <1>2, <2>1, <4>1 DEF Moved
      <4>3. RemoteInv'
        BY <1>1, <1>7, <2>4, <3>6, <3>8, <4>2 DEF RemoteInv, Shown
      <4> QED
        BY <1>5, <2>2, <2>3, <3>4, <3>5, <4>3
    <3>9. CASE at = "sending"
      <4>1. line.kind = "send_action"
        BY <3>3, <3>9 DEF Awaits
      <4>2. remote' = remote + AsRealAction(line.act) /\ reply'.act = AsRealAction(line.act)
        BY <1>2, <2>1, <4>1 DEF Moved
      <4>3. ReaderIs = "tcp" => Shown(commanded)
        BY <3>1, <3>9 DEF RemoteInv
      <4>4. RemoteInv'
        BY <1>1, <1>7, <2>1, <2>4, <3>6, <3>9, <4>2, <4>3 DEF RemoteInv, Shown
      <4> QED
        BY <1>5, <2>2, <2>3, <3>4, <3>5, <4>4
    <3> QED
      BY <2>7, <3>7, <3>8, <3>9 DEF Awaits
  <2> QED
    BY <2>5, <2>6, <2>7 DEF Waiting, Awaits
<1> QED
  BY <1>2, <1>6, <1>7

LEMMA BackendStep == BackendInv /\ [NextBackend]_backendVars => BackendInv'
<1> SUFFICES ASSUME BackendInv, [NextBackend]_backendVars PROVE BackendInv'
  OBVIOUS
<1>1. CASE UNCHANGED backendVars
  <2>1. /\ UNCHANGED <<controller, reader, at, stepId, result, seen, commanded>>
        /\ UNCHANGED <<local, inner, reply, remote, link, conns, accepted>>
    BY <1>1 DEF backendVars, modeVars, progressVars, plantVars, wireVars, serverVars
  <2>2. BackendTypes' /\ LinkInv'
    BY <2>1 DEF BackendInv, BackendTypes, LinkInv
  <2> QED
    BY <2>1, <2>2, ServerQuiet DEF Mine
<1> QED
  BY <1>1, StartProcessStep, LeaveStep, ScriptStep, StartEpisodeStep, ResetReplyStep,
     ReadStateStep, ReadReplyStep, StepStep, SendReplyStep, ApplyStep, ServerStep,
     HandledStep DEF NextBackend

(***************************************************************************)
(* Each acknowledged command is applied exactly once, for any number of    *)
(* processes, episodes and steps, any actions, and any kills, failures,    *)
(* scripts and clients in between.                                         *)
(***************************************************************************)
THEOREM BackendCorrect == SpecBackend => []AppliedOnce
<1>1. BackendInv => AppliedOnce
  BY DEF BackendInv
<1> QED
  BY <1>1, BackendInit, BackendStep, PTL DEF SpecBackend
-----------------------------------------------------------------------------
(* MotionLaw *)

(***************************************************************************)
(* A scalar of zero stops the motor: by induction, the drift that is kept  *)
(* counts exactly the cycles in which the law has learned since the mode   *)
(* was entered, and is zero as long as all their scalars were.  And the    *)
(* slew limit holds, whatever the drift and whatever law was there before. *)
(***************************************************************************)

LawTypes ==
    /\ speed \in Int /\ position \in Int /\ driftSum \in Int /\ driftCount \in Nat
    /\ cycles \in Nat /\ allZero \in BOOLEAN /\ atRest \in BOOLEAN
    /\ mode \in LawModes /\ lastMode \in LawModes
    /\ inForce \in [kind : {"none", "scalar", "velocity", "position"}, value : Int]

\* The commands stay in force for ever: before the first one nothing has moved.
NeutralSoFar == inForce = NoCommand => speed = 0

\* What is remembered of the drift is what has been observed.
DriftObserved == driftCount = cycles /\ (allZero => driftSum = 0)

LawInv == LawTypes /\ NeutralSoFar /\ DriftObserved /\ ZeroIsNeutral
-----------------------------------------------------------------------------
(* Its numbers *)

LEMMA MotorSpeedInt ==
    ASSUME NEW s \in Int
    PROVE  MotorSpeed(s) \in Int /\ (s = 0 => MotorSpeed(s) = 0)
<1>1. Full \in Nat \ {0} /\ HalfSpan \in Int
  BY FullAssumption, MotionLawAssumption
<1>2. Clamp(s, -Full, Full) \in Int /\ (s = 0 => Clamp(s, -Full, Full) = 0)
  BY ClampFull
<1> QED
  BY <1>1, <1>2, ProportionInt, ProportionZero DEF MotorSpeed

LEMMA FeedForwardInt ==
    ASSUME NEW s \in Int
    PROVE  FeedForward(s) \in Int /\ (s = 0 => FeedForward(s) = 0)
<1>1. /\ Full \in Nat \ {0} /\ HalfSpan \in Int /\ Threshold \in Int
      /\ Deadband \in Nat /\ Deadband < Full
  BY FullAssumption, MotionLawAssumption
<1>2. Magnitude(s) \in Nat /\ SignOf(s) \in Int /\ (s = 0 => Magnitude(s) <= Deadband)
  BY <1>1, MagnitudeNat DEF Magnitude
<1> DEFINE den == Full * (Full - Deadband)
           num == (Threshold * (Full - Deadband)
                     + (Full - Threshold) * (Magnitude(s) - Deadband)) * HalfSpan
<1>3. num \in Int
  BY <1>1, <1>2
<1>4. den \in Nat \ {0}
  <2>1. Full - Deadband \in Nat \ {0}
    BY <1>1
  <2> QED
    BY <1>1, <2>1
<1> HIDE DEF num, den
<1>5. SignOf(s) * (num \div den) \in Int
  BY <1>2, <1>3, <1>4, QuotientInt
<1>6. FeedForward(s) = IF Magnitude(s) <= Deadband THEN MotorSpeed(s)
                       ELSE SignOf(s) * (num \div den)
  BY DEF FeedForward, num, den
<1> QED
  BY <1>2, <1>5, <1>6, MotorSpeedInt

\* A step of the limit: nowhere away from neutral by more than SlewStep, and all the
\* way for a target of neutral.
LEMMA SlewedSound ==
    ASSUME NEW target \in Int, NEW prev \in Int
    PROVE  /\ Slewed(target, prev) \in Int
           /\ Magnitude(Slewed(target, prev)) <= Magnitude(prev) + SlewStep
           /\ target = 0 => Slewed(target, prev) = 0
<1>1. HalfSpan \in Nat \ {0} /\ SlewStep \in Nat \ {0}
  BY MotionLawAssumption
<1>2. CASE Magnitude(target) < Magnitude(prev)
  <2>1. Slewed(target, prev) = Clamp(target, -HalfSpan, HalfSpan)
    BY <1>2 DEF Slewed
  <2>2. Magnitude(Clamp(target, -HalfSpan, HalfSpan)) <= Magnitude(target)
    BY <1>1, ClampShrinks
  <2>3. Clamp(target, -HalfSpan, HalfSpan) \in Int
    BY <1>1, ClampBetween
  <2>4. target = 0 => Clamp(target, -HalfSpan, HalfSpan) = 0
    BY <1>1, ClampBetween
  <2> QED
    BY <1>1, <1>2, <2>1, <2>2, <2>3, <2>4, MagnitudeNat
<1>3. CASE ~(Magnitude(target) < Magnitude(prev))
  <2> DEFINE d == Clamp(target - prev, -SlewStep, SlewStep)
  <2>1. Slewed(target, prev) = Clamp(prev + d, -HalfSpan, HalfSpan)
    BY <1>3 DEF Slewed
  <2>2. d \in Int /\ -SlewStep <= d /\ d <= SlewStep
    BY <1>1, ClampBetween
  <2>3. target = 0 => prev = 0 /\ d = 0
    BY <1>1, <1>3 DEF Magnitude, Clamp
  <2> HIDE DEF d
  <2>4. Magnitude(prev + d) <= Magnitude(prev) + SlewStep
    BY <1>1, <2>2 DEF Magnitude
  <2>5. Magnitude(Clamp(prev + d, -HalfSpan, HalfSpan)) <= Magnitude(prev + d)
    BY <1>1, <2>2, ClampShrinks
  <2>6. Clamp(prev + d, -HalfSpan, HalfSpan) \in Int
    BY <1>1, <2>2, ClampBetween
  <2>7. target = 0 => Clamp(prev + d, -HalfSpan, HalfSpan) = 0
    BY <1>1, <2>2, <2>3, ClampBetween
  <2>8. /\ Magnitude(prev) \in Nat /\ Magnitude(prev + d) \in Nat
        /\ Magnitude(Clamp(prev + d, -HalfSpan, HalfSpan)) \in Nat
    BY <2>2, <2>6, MagnitudeNat
  <2> QED
    BY <1>1, <2>1, <2>4, <2>5, <2>6, <2>7, <2>8
<1> QED
  BY <1>2, <1>3
-----------------------------------------------------------------------------
(* The cycle *)

LEMMA GivenInt == ASSUME LawTypes, NEW kind PROVE Given(kind) \in Int
BY DEF LawTypes, Given

LEMMA RememberedInt ==
    ASSUME NEW learned \in Int
    PROVE  /\ Remembered(learned) \in Int
           /\ learned \in Nat => Remembered(learned) \in Nat
BY DEF Remembered

\* Whatever the command, the raw scalar of the law is an integer; zero stays zero.
LEMMA RawInt ==
    ASSUME LawTypes
    PROVE  LET raw == Clamp(Given("scalar"), -Full, Full)
           IN  raw \in Int /\ (Given("scalar") = 0 => raw = 0)
  BY GivenInt, ClampFull

\* The law of the velocity scalar takes a slewed step to some target, which is neutral
\* for a zero when the drift is zero.
LEMMA ScalarLawTarget ==
    ASSUME LawTypes, ClosedLoopVelocityScalar, driftSum' \in Int, driftCount' \in Nat
    PROVE  \E target \in Int :
              /\ speed' = Slewed(target, speed)
              /\ driftSum' = 0 /\ Given("scalar") = 0 => target = 0
<1> DEFINE raw == Clamp(Given("scalar"), -Full, Full)
<1>1. raw \in Int /\ (Given("scalar") = 0 => raw = 0)
  BY RawInt
<1>2. speed' = Slewed(FeedForward(Compensated(raw)), speed)
  BY DEF ClosedLoopVelocityScalar
<1> HIDE DEF raw
<1>3. BiasCycles \in Nat \ {0}
  BY MotionLawAssumption
<1>4. Bias \in Int /\ (driftSum' = 0 => Bias = 0)
  <2>1. Proportion(driftSum', 1, BiasCycles) \in Int
    BY <1>3, ProportionInt
  <2>2. driftSum' = 0 => Proportion(driftSum', 1, BiasCycles) = 0
    BY <1>3, ProportionZero
  <2> QED
    BY <2>1, <2>2 DEF Bias
<1>5. /\ raw - Bias \in Int
      /\ driftSum' = 0 /\ Given("scalar") = 0 => raw - Bias = 0
  BY <1>1, <1>4
<1>6. /\ Compensated(raw) \in Int
      /\ driftSum' = 0 /\ Given("scalar") = 0 => Compensated(raw) = 0
  <2>1. Compensated(raw) = Clamp(raw - Bias, -Full, Full)
    BY DEF Compensated
  <2> QED
    BY <1>5, <2>1, ClampFull
<1>7. /\ FeedForward(Compensated(raw)) \in Int
      /\ driftSum' = 0 /\ Given("scalar") = 0 => FeedForward(Compensated(raw)) = 0
  BY <1>6, FeedForwardInt
<1> QED
  BY <1>2, <1>7

\* What a cycle does with the drift: the law of the velocity scalar learns, the others
\* at most forget.
LEMMA DriftStep ==
    ASSUME LawTypes, DriftObserved, Cycle
    PROVE  /\ driftSum' \in Int /\ driftCount' \in Nat /\ cycles' \in Nat
           /\ allZero' \in BOOLEAN /\ DriftObserved'
<1> DEFINE raw == Clamp(Given("scalar"), -Full, Full)
<1>1. raw \in Int /\ (Given("scalar") = 0 => raw = 0)
  BY RawInt
<1>2. /\ Remembered(driftSum) \in Int
      /\ Remembered(driftCount) \in Nat
      /\ Remembered(driftCount) = CyclesBefore
  BY RememberedInt DEF LawTypes, DriftObserved, Remembered, CyclesBefore
<1>3. (mode = lastMode => allZero) => Remembered(driftSum) = 0
  BY DEF DriftObserved, Remembered
<1>4. cycles' = CyclesBefore + (IF Counts THEN 1 ELSE 0)
  BY DEF Cycle, Observed
<1>5. allZero' = ((mode = lastMode => allZero) /\ (Counts => Given("scalar") = 0))
  BY Zenon DEF Cycle, Observed
<1>6. allZero' \in BOOLEAN
  BY <1>5
<1>7. CASE Counts
  <2>1. Learning /\ Learn(raw)
    BY <1>2, <1>7 DEF Counts, Learning, Cycle, UpdateReference, ClosedLoopVelocityScalar
  <2> HIDE DEF raw
  <2>2. driftSum' = Remembered(driftSum) + raw /\ driftCount' = Remembered(driftCount) + 1
    BY <2>1 DEF Learn
  <2>3. allZero' => Remembered(driftSum) = 0 /\ raw = 0
    BY <1>1, <1>3, <1>5, <1>7
  <2> QED
    BY <1>1, <1>2, <1>4, <1>6, <1>7, <2>2, <2>3 DEF DriftObserved
<1>8. CASE ~Counts
  <2>1. driftSum' = Remembered(driftSum) /\ driftCount' = Remembered(driftCount)
    <3>1. CASE mode = "scalar" /\ inForce # NoCommand
      <4>1. ~Learning /\ Learn(raw)
        BY <1>2, <1>8, <3>1 DEF Counts, Learning, Cycle, UpdateReference,
                                ClosedLoopVelocityScalar
      <4> QED
        BY <1>2, <4>1 DEF Learn
    <3>2. CASE ~(mode = "scalar" /\ inForce # NoCommand)
      BY <3>2 DEF Cycle, UpdateReference, NoLaw, OpenLoopMotorSpeed,
                  ClosedLoopJointPosition, ClosedLoopJointVelocity, Forget
    <3> QED
      BY <3>1, <3>2
  <2>2. allZero' => Remembered(driftSum) = 0
    BY <1>3, <1>5
  <2> QED
    BY <1>2, <1>4, <1>6, <1>8, <2>1, <2>2 DEF DriftObserved
<1> QED
  BY <1>7, <1>8

\* What a cycle does with the motor.
LEMMA SpeedStep ==
    ASSUME LawInv, Cycle
    PROVE  speed' \in Int /\ position' \in Int /\ NeutralSoFar' /\ ZeroIsNeutral'
<1>1. /\ driftSum' \in Int /\ driftCount' \in Nat /\ DriftObserved'
  BY DriftStep DEF LawInv
<1>2. /\ mode' = mode /\ lastMode' = mode /\ inForce' = inForce
      /\ atRest' = (Given("scalar") = 0)
  BY DEF Cycle, Observed
<1>3. Positions \subseteq Int
  BY MotionLawAssumption
<1>4. LawTypes /\ NeutralSoFar
  BY DEF LawInv
<1>5. CASE mode = "open" /\ OpenLoopMotorSpeed
  <2>1. speed' \in Int /\ (Given("scalar") = 0 => speed' = 0) /\ position' \in Int
    BY <1>3, <1>4, <1>5, GivenInt, MotorSpeedInt DEF OpenLoopMotorSpeed
  <2>2. inForce = NoCommand => Given("scalar") = 0
    BY DEF NoCommand, Given
  <2> QED
    BY <1>2, <1>5, <2>1, <2>2 DEF NeutralSoFar, ZeroIsNeutral, NoCommand
<1>6. CASE mode # "open" /\ inForce = NoCommand /\ NoLaw
  <2>1. speed' = 0 /\ position' \in Int
    BY <1>4, <1>6 DEF NoLaw, NeutralSoFar, LawTypes
  <2> QED
    BY <2>1 DEF NeutralSoFar, ZeroIsNeutral
<1>7. CASE inForce # NoCommand /\ mode = "position" /\ ClosedLoopJointPosition
  <2>1. position' \in Int /\ position' - position \in Int
    BY <1>4, <1>7, GivenInt DEF ClosedLoopJointPosition, LawTypes
  <2>2. speed' \in Int
    BY <1>7, <2>1, MotorSpeedInt DEF ClosedLoopJointPosition
  <2> QED
    BY <1>2, <1>7, <2>1, <2>2 DEF NeutralSoFar, ZeroIsNeutral, NoCommand
<1>8. CASE inForce # NoCommand /\ mode = "velocity" /\ ClosedLoopJointVelocity
  <2>1. speed' \in Int /\ position' \in Int
    BY <1>3, <1>4, <1>8, GivenInt, MotorSpeedInt DEF ClosedLoopJointVelocity
  <2> QED
    BY <1>2, <1>8, <2>1 DEF NeutralSoFar, ZeroIsNeutral, NoCommand
<1>9. CASE inForce # NoCommand /\ mode = "scalar" /\ ClosedLoopVelocityScalar
  <2>1. PICK target \in Int :
              /\ speed' = Slewed(target, speed)
              /\ driftSum' = 0 /\ Given("scalar") = 0 => target = 0
    BY <1>1, <1>4, <1>9, ScalarLawTarget
  <2>2. speed' \in Int /\ (driftSum' = 0 /\ Given("scalar") = 0 => speed' = 0)
    BY <1>4, <2>1, SlewedSound DEF LawTypes
  <2>3. position' \in Int
    BY <1>3, <1>9 DEF ClosedLoopVelocityScalar
  <2> QED
    BY <1>1, <1>2, <1>9, <2>2, <2>3 DEF NeutralSoFar, ZeroIsNeutral, DriftObserved, NoCommand
<1> QED
  BY <1>5, <1>6, <1>7, <1>8, <1>9 DEF Cycle, UpdateReference
-----------------------------------------------------------------------------
LEMMA LawInit == InitLaw => LawInv
BY DEF InitLaw, LawInv, LawTypes, NeutralSoFar, DriftObserved, ZeroIsNeutral, LawModes,
       NoCommand

LEMMA LawStep == LawInv /\ [NextLaw]_lawVars => LawInv'
<1> SUFFICES ASSUME LawInv, [NextLaw]_lawVars PROVE LawInv'
  OBVIOUS
<1> USE DEF LawInv
<1>1. ASSUME NEW m \in LawModes, SetMode(m) PROVE LawInv'
  BY <1>1 DEF SetMode, LawTypes, NeutralSoFar, DriftObserved, ZeroIsNeutral, driftVars,
              lawHistory
<1>2. ASSUME NEW kind \in {"scalar", "velocity", "position"}, NEW value \in Int,
             Send(kind, value)
      PROVE  LawInv'
  BY <1>2 DEF Send, LawTypes, NeutralSoFar, DriftObserved, ZeroIsNeutral, driftVars,
              lawHistory, NoCommand
<1>3. CASE Restart
  BY <1>3 DEF Restart, LawTypes, NeutralSoFar, DriftObserved, ZeroIsNeutral, driftVars,
              lawHistory
<1>4. CASE Cycle
  <2>1. /\ mode' = mode /\ lastMode' = mode /\ inForce' = inForce
        /\ atRest' \in BOOLEAN
    BY <1>4 DEF Cycle, Observed
  <2> QED
    BY <1>4, <2>1, DriftStep, SpeedStep DEF LawTypes
<1>5. CASE UNCHANGED lawVars
  BY <1>5 DEF lawVars, LawTypes, NeutralSoFar, DriftObserved, ZeroIsNeutral, driftVars,
              lawHistory
<1>6. Scalars \subseteq Int /\ Velocities \subseteq Int /\ Positions \subseteq Int
  BY MotionLawAssumption
<1> QED
  BY <1>1, <1>2, <1>3, <1>4, <1>5, <1>6 DEF NextLaw

(***************************************************************************)
(* A zero makes the motor neutral within the cycle if the drift was        *)
(* learned from zeros: for all ranges, thresholds, steps and numbers of    *)
(* cycles to learn from, over any changes of the mode and restarts.        *)
(***************************************************************************)
THEOREM ZeroStops == SpecLaw => []ZeroIsNeutral
<1>1. InitLaw => LawInv
  BY LawInit
<1>2. LawInv /\ [NextLaw]_lawVars => LawInv'
  BY LawStep
<1>3. LawInv => ZeroIsNeutral
  BY DEF LawInv
<1> QED
  BY <1>1, <1>2, <1>3, PTL DEF SpecLaw

\* Only the laws that do not count change the speed otherwise than by the limit.
LEMMA GentleStep ==
    LawInv /\ [NextLaw]_lawVars =>
        [lastMode' = "scalar" => Magnitude(speed') <= Magnitude(speed) + SlewStep]_lawVars
<1> SUFFICES ASSUME LawInv, NextLaw, lastMode' = "scalar"
             PROVE  Magnitude(speed') <= Magnitude(speed) + SlewStep
  OBVIOUS
<1> DEFINE Gentle == Magnitude(speed') <= Magnitude(speed) + SlewStep
<1>1. SlewStep \in Nat /\ speed \in Int /\ Magnitude(speed) \in Nat /\ LawTypes /\ DriftObserved
  BY MotionLawAssumption, MagnitudeNat DEF LawInv, LawTypes
<1>2. CASE speed' = speed
  BY <1>1, <1>2
<1>3. CASE Restart
  BY <1>1, <1>3 DEF Restart, Magnitude
<1>4. CASE Cycle
  <2>1. mode = "scalar"
    BY <1>4 DEF Cycle
  <2>2. CASE NoLaw
    BY <1>2, <2>2 DEF NoLaw
  <2>3. CASE ClosedLoopVelocityScalar
    <3>1. driftSum' \in Int /\ driftCount' \in Nat
      BY <1>1, <1>4, DriftStep
    <3>2. \E target \in Int : speed' = Slewed(target, speed)
      BY <1>1, <2>3, <3>1, ScalarLawTarget
    <3> QED
      BY <1>1, <3>2, SlewedSound
  <2> QED
    BY <1>4, <2>1, <2>2, <2>3 DEF Cycle, UpdateReference
<1> QED
  BY <1>2, <1>3, <1>4 DEF NextLaw, SetMode, Send

(***************************************************************************)
(* The slew limit: in the law of the velocity scalar the motor's speed     *)
(* moves away from neutral by a step per cycle at most, for any drift and  *)
(* any law before.                                                         *)
(***************************************************************************)
THEOREM SlewLimited == SpecLaw => AwayFromNeutralGently
<1>1. InitLaw => LawInv
  BY LawInit
<1>2. LawInv /\ [NextLaw]_lawVars => LawInv'
  BY LawStep
<1>3. LawInv /\ [NextLaw]_lawVars =>
        [lastMode' = "scalar" => Magnitude(speed') <= Magnitude(speed) + SlewStep]_lawVars
  BY GentleStep
<1> QED
  BY <1>1, <1>2, <1>3, PTL DEF SpecLaw, AwayFromNeutralGently
=============================================================================
