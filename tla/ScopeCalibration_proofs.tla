------------------------ MODULE ScopeCalibration_proofs ------------------------
(***************************************************************************)
(* Proofs about the calibration of a scope: the rates are those of the     *)
(* mount, and no pulse back loses the star, for any speeds, play and       *)
(* lengths of pulses.  Each state of the calibration has a lemma, from the *)
(* last to the first, since a state falls through into the next one.       *)
(***************************************************************************)
EXTENDS ScopeCalibration, TLAPS

\* What the calibration keeps is a record of these fields.
Fields == {"state", "steps", "initial", "started", "start", "marker", "southStart",
           "southAmt", "remaining", "pulse", "lastCum", "accepted", "blMoved",
           "xRate", "yRate", "calibrated", "move"}
Rec(c) == c = [f \in Fields |-> c[f]]
Good(c) ==
    /\ Rec(c) /\ Typed(c) /\ PulseMatches(c) /\ Tracked(c)
    /\ c.calibrated => c.state = "COMPLETE"

-------------------------------------------------------------------------------
(* Arithmetic.                                                             *)

LEMMA ProductPositive ==
    ASSUME NEW a \in Nat \ {0}, NEW b \in Nat \ {0} PROVE a * b \in Nat \ {0}
  OBVIOUS

LEMMA ProductMonotone ==
    ASSUME NEW a \in Nat, NEW b \in Nat, NEW c \in Nat, a <= b PROVE a * c <= b * c
  OBVIOUS

\* What is rounded down is no more than what was divided.
LEMMA QuotientBounds ==
    ASSUME NEW a \in Nat, NEW b \in Nat \ {0}
    PROVE  /\ a \div b \in Nat
           /\ (a \div b) * b <= a
  OBVIOUS

LEMMA DistType ==
    ASSUME NEW p \in Points, NEW q \in Points
    PROVE  Dist(p, q) \in Nat
  BY DEF Dist, Abs, Points

-------------------------------------------------------------------------------
(* The way back.                                                           *)

\* The types and the rates do not depend on more than these fields.
LEMMA CompleteGood ==
    ASSUME NEW c, Good(c), c.move = NoMove,
           c.state \in {"NUDGE_SOUTH", "COMPLETE"}
    PROVE  Good(Complete(c))
  <1> DEFINE d == Complete(c)
  <1>1. Rec(d) /\ d.state = "COMPLETE"
        /\ \A f \in Fields \ {"state", "calibrated"} : d[f] = c[f]
    BY DEF Complete, Good, Rec, Fields
  <1> HIDE DEF d
  <1>2. Typed(d)
    BY <1>1 DEF Good, Typed, Fields, States
  <1>3. PulseMatches(d)
    BY <1>1 DEF PulseMatches, Fields
  <1>4. Tracked(d)
    BY <1>1 DEF Good, Tracked, RaTracked, DecTracked, BackTracked, Fields
  <1> QED BY <1>1, <1>2, <1>3, <1>4 DEF Good, d

\* A distance, measured in time by the rate of an axis, is not exceeded.
LEMMA EastLimit ==
    ASSUME NEW q \in Nat, NEW a \in Nat, NEW m \in Nat, NEW t \in Nat \ {0},
           q * (a * t) <= m * t
    PROVE  q * a <= m
  <1> DEFINE x == q * a
  <1>1. x \in Nat /\ q * (a * t) = x * t /\ m * t \in Nat
    OBVIOUS
  <1> HIDE DEF x
  <1>2. ~(m + 1 <= x)
    <2> SUFFICES ASSUME m + 1 <= x PROVE FALSE
      OBVIOUS
    <2>1. (m + 1) * t <= x * t
      BY <1>1, ProductMonotone
    <2>2. (m + 1) * t = m * t + t
      OBVIOUS
    <2>3. x * t \in Nat
      BY <1>1
    <2> QED BY <1>1, <2>1, <2>2, <2>3
  <1> QED BY <1>1, <1>2 DEF x

\* A nudge is no longer than what is left of the way back.
LEMMA NudgeShort ==
    ASSUME CalibrationAssumption, NEW c, Good(c), c.state = "NUDGE_SOUTH", faults = 0
    PROVE  LET north == star.dec - c.initial.dec
               amount == Smaller(Abs(north), MaxMove)
               pulse == Smaller((amount * c.yRate.time) \div c.yRate.dist, CalDuration)
           IN DecSpeed * pulse <= star.dec
  <1> DEFINE north == star.dec - c.initial.dec
             amount == Smaller(Abs(north), MaxMove)
             quotient == (amount * c.yRate.time) \div c.yRate.dist
             pulse == Smaller(quotient, CalDuration)
  <1>1. /\ DecSpeed \in Nat \ {0} /\ CalDuration \in Nat /\ MaxMove \in Nat
        /\ star.dec \in Nat /\ north = star.dec
        /\ c.yRate.time \in Nat /\ c.yRate.dist \in Nat \ {0}
        /\ c.yRate.dist = DecSpeed * c.yRate.time
    BY DEF CalibrationAssumption, Good, Typed, Tracked, DecTracked, BackTracked, Points,
           Rates, Origin, Point
  <1>2. c.yRate.time \in Nat \ {0}
    BY <1>1
  <1> HIDE DEF north
  <1>3. amount \in Nat /\ amount <= star.dec
    BY <1>1 DEF Smaller, Abs
  <1> HIDE DEF amount
  <1>4. amount * c.yRate.time \in Nat
    BY <1>2, <1>3
  <1>5. quotient \in Nat /\ quotient * c.yRate.dist <= amount * c.yRate.time
    BY <1>1, <1>4, QuotientBounds
  <1> HIDE DEF quotient
  <1>6. quotient * DecSpeed <= amount
    BY <1>1, <1>2, <1>3, <1>5, EastLimit
  <1>7. pulse \in Nat /\ pulse <= quotient
    BY <1>1, <1>5 DEF Smaller
  <1> HIDE DEF pulse
  <1>8. pulse * DecSpeed <= quotient * DecSpeed
    BY <1>1, <1>5, <1>7, ProductMonotone
  <1>9. pulse * DecSpeed \in Nat /\ quotient * DecSpeed \in Nat
        /\ pulse * DecSpeed = DecSpeed * pulse
    BY <1>1, <1>5, <1>7
  <1>10. DecSpeed * pulse <= star.dec
    BY <1>1, <1>3, <1>6, <1>8, <1>9
  <1> QED BY <1>10 DEF pulse, quotient, amount, north

LEMMA NudgeSouthGood ==
    ASSUME CalibrationAssumption, NEW c, Good(c), c.move = NoMove,
           c.state = "NUDGE_SOUTH"
    PROVE  Good(NudgeSouth(c, star))
  <1> DEFINE north == star.dec - c.initial.dec
             amount == Smaller(Abs(north), MaxMove)
             pulse == Smaller((amount * c.yRate.time) \div c.yRate.dist, CalDuration)
             d == Schedule([c EXCEPT !.steps = @ + 1], "south", pulse)
  <1>1. pulse \in Nat /\ pulse <= CalDuration
    <2>1. amount \in Nat /\ c.yRate.time \in Nat /\ c.yRate.dist \in Nat \ {0}
      BY DEF Good, Typed, Points, Rates, Origin, Point, Smaller, Abs, CalibrationAssumption
    <2> HIDE DEF amount
    <2>2. amount * c.yRate.time \in Nat
      BY <2>1
    <2>3. (amount * c.yRate.time) \div c.yRate.dist \in Nat
      BY <2>1, <2>2, QuotientBounds
    <2> QED BY <2>3 DEF Smaller, CalibrationAssumption
  <1> HIDE DEF pulse
  <1>2. /\ Rec(d) /\ d.state = "NUDGE_SOUTH" /\ d.steps = c.steps + 1
        /\ d.move = [direction |-> "south", duration |-> pulse]
        /\ \A f \in Fields \ {"steps", "move"} : d[f] = c[f]
    BY DEF Schedule, Good, Rec, Fields
  <1> HIDE DEF d
  <1>3. Good(d)
    <2>1. Typed(d)
      BY <1>2 DEF Good, Typed, Fields, States
    <2>2. PulseMatches(d)
      BY <1>1, <1>2 DEF PulseMatches, Direction
    <2>3. ASSUME faults = 0 PROVE BackTracked(d)
      <3>1. BackTracked(c) /\ d.state = c.state /\ d.yRate = c.yRate /\ d.start = c.start
        BY <1>2, <2>3 DEF Good, Tracked, Fields
      <3>2. d.move # NoMove /\ Ahead(d) = pulse
        BY <1>2 DEF Ahead, NoMove
      <3>3. DecSpeed * pulse <= star.dec
        BY <2>3, NudgeShort DEF pulse, amount, north
      <3> QED BY <1>2, <3>1, <3>2, <3>3 DEF BackTracked
    <2>4. Tracked(d)
      BY <1>2, <2>3 DEF Good, Tracked, RaTracked, DecTracked, Fields
    <2> QED BY <1>2, <2>1, <2>2, <2>4 DEF Good, Fields
  <1>4. Good(Complete(c))
    BY CompleteGood
  <1> QED BY <1>3, <1>4 DEF NudgeSouth, d, pulse

\* A step of the way back, in either direction.
LEMMA RetraceGood ==
    ASSUME NEW c, Good(c), c.move = NoMove, NEW direction,
           \/ c.state = "GO_EAST" /\ direction = "east"
           \/ c.state = "GO_SOUTH" /\ direction = "south"
    PROVE  Good(Retrace(c, direction))
  <1> DEFINE duration == Smaller(c.pulse, c.remaining)
             d == Retrace(c, direction)
  <1>1. /\ duration \in Nat /\ duration <= c.pulse
        /\ c.remaining - duration \in Nat /\ c.remaining \in Nat
    BY DEF Good, Typed, Smaller
  <1> HIDE DEF duration
  <1>2. /\ Rec(d) /\ d.state = c.state /\ d.steps = c.steps - 1
        /\ d.move = [direction |-> direction, duration |-> duration]
        /\ d.remaining = c.remaining - duration
        /\ \A f \in Fields \ {"steps", "move", "remaining"} : d[f] = c[f]
    BY DEF Retrace, Schedule, Good, Rec, Fields, duration
  <1> HIDE DEF d
  <1>3. Typed(d)
    BY <1>1, <1>2 DEF Good, Typed, Fields, States
  <1>4. PulseMatches(d)
    BY <1>1, <1>2 DEF Good, PulseMatches, Direction, Fields
  <1>5. Tracked(d)
    <2>1. d.move # NoMove
      BY <1>2 DEF NoMove
    <2>2. Ahead(c) = 0 /\ Ahead(d) = duration
      BY <1>2, <2>1 DEF Ahead
    <2>3. d.remaining + Ahead(d) = c.remaining + Ahead(c)
      BY <1>1, <1>2, <2>2
    <2> QED BY <1>2, <2>3 DEF Good, Tracked, RaTracked, DecTracked, BackTracked, Fields
  <1> QED BY <1>2, <1>3, <1>4, <1>5 DEF Good, Fields, d

LEMMA GoSouthGood ==
    ASSUME CalibrationAssumption, NEW c, Good(c), c.move = NoMove,
           c.state = "GO_SOUTH"
    PROVE  Good(GoSouth(c, star))
  <1> DEFINE d == [c EXCEPT !.state = "NUDGE_SOUTH", !.steps = 0,
                            !.southAmt = c.southStart.dec - star.dec]
  <1>1. /\ Rec(d) /\ d.state = "NUDGE_SOUTH" /\ d.steps = 0
        /\ \A f \in Fields \ {"state", "steps", "southAmt"} : d[f] = c[f]
    BY DEF Good, Rec, Fields
  <1> HIDE DEF d
  <1>2. ASSUME ~(c.remaining > 0) PROVE Good(d)
    <2>1. Typed(d)
      BY <1>1 DEF Good, Typed, Fields, States
    <2>2. PulseMatches(d)
      BY <1>1 DEF PulseMatches, Fields
    <2>3. ASSUME faults = 0 PROVE BackTracked(d)
      <3>1. /\ BackTracked(c) /\ Ahead(c) = 0 /\ c.remaining = 0 /\ Ahead(d) = 0
            /\ d.start = c.start /\ d.yRate = c.yRate
        BY <1>1, <1>2, <2>3 DEF Good, Typed, Tracked, Ahead, Fields
      <3>2. /\ DecSpeed \in Nat /\ mount.gap \in Nat /\ mount.play \in Nat
            /\ mount.gap <= mount.play /\ c.start.dec \in Int /\ star.dec \in Int
        BY DEF CalibrationAssumption, Good, Typed, Mounts, Points
      <3>3. star.dec = c.start.dec + DecSpeed * mount.gap /\ 0 <= star.dec
            /\ mount.dead # "dec" /\ c.yRate # NoRate
        BY <3>1, <3>2 DEF BackTracked
      <3>4. /\ mount.gap * DecSpeed <= mount.play * DecSpeed
            /\ mount.gap * DecSpeed = DecSpeed * mount.gap
            /\ mount.play * DecSpeed = DecSpeed * mount.play
            /\ DecSpeed * mount.gap \in Nat /\ DecSpeed * mount.play \in Nat
        BY <3>2, ProductMonotone
      <3>5. star.dec <= c.start.dec + DecSpeed * mount.play
        BY <3>2, <3>3, <3>4
      <3>6. DecSpeed * 0 = 0
        BY <3>2
      <3> QED BY <1>1, <3>1, <3>3, <3>5, <3>6 DEF BackTracked
    <2>4. Tracked(d)
      BY <1>1, <2>3 DEF Good, Tracked, RaTracked, DecTracked, Fields
    <2> QED BY <1>1, <2>1, <2>2, <2>4 DEF Good, Fields
  <1>3. ~(c.remaining > 0) => Good(NudgeSouth(d, star))
    BY <1>1, <1>2, NudgeSouthGood DEF Fields
  <1>4. Good(Retrace(c, "south"))
    BY RetraceGood
  <1> QED BY <1>3, <1>4 DEF GoSouth, d

-------------------------------------------------------------------------------
(* The measurement of Dec.                                                 *)

LEMMA FailGood ==
    ASSUME NEW c, Good(c), c.move = NoMove, c.started PROVE Good(Fail(c))
  <1> DEFINE d == Fail(c)
  <1>1. /\ Rec(d) /\ d.state = "CLEARED" /\ d.calibrated = FALSE
        /\ \A f \in Fields \ {"state", "calibrated"} : d[f] = c[f]
    BY DEF Fail, Good, Rec, Fields
  <1> HIDE DEF d
  <1>2. Typed(d)
    BY <1>1 DEF Good, Typed, Fields, States
  <1>3. PulseMatches(d)
    BY <1>1 DEF PulseMatches, Fields
  <1>4. Tracked(d)
    BY <1>1 DEF Good, Tracked, RaTracked, DecTracked, BackTracked, Fields
  <1> QED BY <1>1, <1>2, <1>3, <1>4 DEF Good, d

\* One more pulse of a measurement.
LEMMA AnotherGood ==
    ASSUME CalibrationAssumption, NEW c, Good(c), c.move = NoMove, NEW direction,
           \/ c.state = "GO_WEST" /\ c.started /\ direction = "west"
           \/ c.state = "GO_NORTH" /\ direction = "north"
    PROVE  Good(Another(c, direction))
  <1> DEFINE d == Schedule([c EXCEPT !.steps = @ + 1], direction, CalDuration)
  <1>1. /\ Rec(d) /\ d.state = c.state /\ d.steps = c.steps + 1
        /\ d.move = [direction |-> direction, duration |-> CalDuration]
        /\ \A f \in Fields \ {"steps", "move"} : d[f] = c[f]
    BY DEF Schedule, Good, Rec, Fields
  <1> HIDE DEF d
  <1>2. CalDuration \in Nat \ {0} /\ c.steps \in Nat
    BY DEF Good, Typed, CalibrationAssumption
  <1>3. Good(d)
    <2>1. Typed(d)
      BY <1>1, <1>2 DEF Good, Typed, Fields, States
    <2>2. PulseMatches(d)
      BY <1>1, <1>2 DEF Good, PulseMatches, Direction, Fields
    <2>3. Tracked(d)
      <3>1. d.move # NoMove
        BY <1>1 DEF NoMove
      <3>2. Ahead(c) = 0 /\ Ahead(d) = CalDuration
        BY <1>1, <3>1 DEF Ahead
      <3>3. d.steps * CalDuration - Ahead(d) = c.steps * CalDuration - Ahead(c)
        BY <1>1, <1>2, <3>2
      <3> QED BY <1>1, <3>3 DEF Good, Tracked, RaTracked, DecTracked, BackTracked, Fields
    <2> QED BY <1>1, <2>1, <2>2, <2>3 DEF Good, Fields
  <1>4. Good(Fail(c))
    BY FailGood DEF Good, Typed
  <1> QED BY <1>3, <1>4 DEF Another, d

\* The pulse of the way back, if one of length limit does not lose the star.
LEMMA RetracePulseAllowed ==
    ASSUME CalibrationAssumption, NEW limit \in Nat, NEW speed \in Nat \ {0},
           NEW max \in Nat, faults = 0 => limit * speed <= MaxMove
    PROVE  /\ RetracePulse(limit, max) \in Nat \ {0}
           /\ Allowed(RetracePulse(limit, max), speed, max)
  <1> DEFINE pulse == RetracePulse(limit, max)
  <1>2. CalDuration \in Nat \ {0} /\ MaxMove \in Nat
    BY DEF CalibrationAssumption
  <1>3. /\ pulse \in Nat \ {0} /\ pulse <= Greater(CalDuration, max)
        /\ pulse = CalDuration \/ pulse <= limit
    BY <1>2 DEF RetracePulse, Greater, Smaller
  <1> HIDE DEF pulse
  <1>4. ASSUME faults = 0
        PROVE  pulse * speed <= Greater(CalDuration * speed, MaxMove)
    <2>1. CalDuration * speed \in Nat /\ pulse * speed \in Nat /\ limit * speed \in Nat
      BY <1>2, <1>3
    <2>2. pulse <= limit => pulse * speed <= limit * speed
      BY <1>3, ProductMonotone
    <2> QED BY <1>2, <1>3, <1>4, <2>1, <2>2 DEF Greater
  <1> QED BY <1>3, <1>4 DEF Allowed, pulse

\* Four fifths of the longest move, measured in time by the rate of Dec, are no
\* longer than it.
LEMMA NorthLimit ==
    ASSUME NEW q \in Nat, NEW a \in Nat, NEW m \in Nat, NEW t \in Nat \ {0},
           q * (5 * (a * t)) <= 4 * m * t
    PROVE  q * a <= m
  <1> DEFINE x == q * a
  <1>1. x \in Nat
    OBVIOUS
  <1>2. q * (5 * (a * t)) = 5 * (x * t)
    OBVIOUS
  <1>3. 4 * m * t = 4 * (m * t) /\ m * t \in Nat
    OBVIOUS
  <1> HIDE DEF x
  <1>4. ~(m + 1 <= x)
    <2> SUFFICES ASSUME m + 1 <= x PROVE FALSE
      OBVIOUS
    <2>1. (m + 1) * t <= x * t
      BY <1>1, ProductMonotone
    <2>2. (m + 1) * t = m * t + t
      OBVIOUS
    <2>3. x * t \in Nat
      BY <1>1
    <2> QED BY <1>2, <1>3, <2>1, <2>2, <2>3
  <1> QED BY <1>1, <1>4 DEF x

LEMMA GoNorthGood ==
    ASSUME CalibrationAssumption, NEW c, Good(c), c.move = NoMove,
           c.state = "GO_NORTH"
    PROVE  Good(GoNorth(c, star))
  <1> DEFINE dist == Dist(c.start, star)
             time == c.steps * CalDuration
             limit == (4 * MaxMove * time) \div (5 * dist)
             pulse == RetracePulse(limit, MaxDec)
             d == [c EXCEPT !.state = "GO_SOUTH", !.southStart = star,
                            !.yRate = [dist |-> dist, time |-> time],
                            !.remaining = time, !.pulse = pulse,
                            !.steps = DivRoundUp(time, pulse)]
  <1>1. CASE dist < CalDistance
    BY <1>1, AnotherGood DEF GoNorth
  <1>2. CASE ~(dist < CalDistance)
    <2>1. /\ CalDuration \in Nat \ {0} /\ CalDistance \in Nat \ {0}
          /\ MaxMove \in Nat /\ DecSpeed \in Nat \ {0} /\ MaxDec \in Nat
      BY DEF CalibrationAssumption
    <2>2. c.start \in Points /\ star \in Points /\ c.steps \in Nat
      BY DEF Good, Typed
    <2>3. dist \in Nat \ {0} /\ time \in Nat
      BY <1>2, <2>1, <2>2, DistType
    <2>4. ASSUME faults = 0 PROVE dist = DecSpeed * time
      <3>1. /\ star.ra = c.start.ra
            /\ star.dec = c.start.dec + DecSpeed * (c.steps * CalDuration - Ahead(c))
        BY <2>4 DEF Good, Tracked, RaTracked, DecTracked
      <3>2. star.dec = c.start.dec + DecSpeed * time
        BY <2>1, <2>2, <3>1 DEF Ahead
      <3>3. DecSpeed * time \in Nat
        BY <2>1, <2>3
      <3> HIDE DEF time
      <3> QED BY <2>2, <3>1, <3>2, <3>3 DEF Dist, Abs, Points
    <2> HIDE DEF dist, time
    <2>5. limit \in Nat /\ limit * (5 * dist) <= 4 * MaxMove * time
      <3>1. 4 * MaxMove * time \in Nat /\ 5 * dist \in Nat \ {0}
        BY <2>1, <2>3
      <3> QED BY <3>1, QuotientBounds
    <2> HIDE DEF limit
    <2>6. faults = 0 => limit * DecSpeed <= MaxMove
      <3> SUFFICES ASSUME faults = 0 PROVE limit * DecSpeed <= MaxMove
        OBVIOUS
      <3>1. time # 0
        BY <2>1, <2>3, <2>4
      <3> QED BY <2>1, <2>3, <2>4, <2>5, <3>1, NorthLimit
    <2>7. pulse \in Nat \ {0} /\ Allowed(pulse, DecSpeed, MaxDec)
      BY <2>1, <2>5, <2>6, RetracePulseAllowed
    <2>8. DivRoundUp(time, pulse) \in Int
      BY <2>3, <2>7 DEF DivRoundUp
    <2> HIDE DEF pulse
    <2>9. /\ Rec(d) /\ d.state = "GO_SOUTH" /\ d.steps \in Int
          /\ d.yRate = [dist |-> dist, time |-> time]
          /\ d.remaining = time /\ d.pulse = pulse
          /\ \A f \in Fields \ {"state", "southStart", "yRate", "remaining", "pulse",
                                "steps"} : d[f] = c[f]
      BY <2>8 DEF Good, Rec, Fields
    <2>10. GoNorth(c, star) = GoSouth(d, star)
      BY <1>2 DEF GoNorth, dist, time, limit, pulse
    <2> HIDE DEF d
    <2>11. Good(d)
      <3>1. Typed(d)
        BY <2>3, <2>7, <2>9 DEF Good, Typed, Fields, States, Rates
      <3>2. PulseMatches(d)
        BY <2>7, <2>9 DEF PulseMatches, Fields
      <3>3. ASSUME faults = 0 PROVE BackTracked(d)
        <4>1. /\ 0 <= star.dec /\ 0 <= c.start.dec /\ mount.gap = 0 /\ mount.dead # "dec"
              /\ star.dec = c.start.dec + DecSpeed * (time - Ahead(c))
          BY <3>3 DEF Good, Tracked, DecTracked, BackTracked, time
        <4>2. Ahead(c) = 0 /\ Ahead(d) = 0 /\ d.start = c.start
          BY <2>9 DEF Ahead, Fields
        <4>3. d.yRate # NoRate
          BY <2>3, <2>4, <2>9, <3>3 DEF NoRate
        <4>4. star.dec = d.start.dec + DecSpeed * (d.remaining + Ahead(d) + mount.gap)
          BY <2>3, <2>9, <4>1, <4>2
        <4> QED BY <2>9, <4>1, <4>2, <4>3, <4>4 DEF BackTracked
      <3>4. Tracked(d)
        BY <2>4, <2>9, <3>3 DEF Good, Tracked, RaTracked, DecTracked, Fields
      <3> QED BY <2>9, <3>1, <3>2, <3>4 DEF Good, Fields
    <2> QED BY <2>9, <2>10, <2>11, GoSouthGood DEF Fields
  <1> QED BY <1>1, <1>2

-------------------------------------------------------------------------------
(* Taking up the play of the gear.                                         *)

\* A move that is accepted has moved Dec, since any rate expects it to.
LEMMA AcceptedMoved ==
    ASSUME CalibrationAssumption, NEW c, Good(c), NEW delta \in Nat, NEW cum
    PROVE  /\ Accepted(c, delta, cum) \in Nat
           /\ Accepted(c, delta, cum) <= c.accepted + 1
           /\ Accepted(c, delta, cum) > 0 /\ c.accepted = 0 => delta > 0
  <1>1. c.accepted \in Nat /\ c.xRate.dist \in Nat \ {0} /\ c.xRate.time \in Nat
    BY DEF Good, Typed, Rates
  <1>2. Accepted(c, delta, cum) \in {0, c.accepted, c.accepted + 1}
    BY DEF Accepted
  <1>3. Accepted(c, delta, cum) > 0 /\ c.accepted = 0 => Expected(c, delta)
    BY <1>1 DEF Accepted
  <1>4. Expected(c, delta) => delta > 0
    <2> SUFFICES ASSUME delta = 0 PROVE ~Expected(c, delta)
      OBVIOUS
    <2> DEFINE ra == IF mount.told THEN RaSpeed ELSE 1
               dec == IF mount.told THEN DecSpeed ELSE 1
    <2>1. ra \in Nat /\ dec \in Nat \ {0} /\ CalDuration \in Nat \ {0}
      BY DEF CalibrationAssumption
    <2> HIDE DEF ra, dec
    <2>2. 5 * delta * c.xRate.time * ra = 0
      BY <1>1, <2>1
    <2>3. 3 * c.xRate.dist * CalDuration * dec \in Nat \ {0}
      <3>1. 3 * c.xRate.dist \in Nat \ {0}
        BY <1>1
      <3>2. 3 * c.xRate.dist * CalDuration \in Nat \ {0}
        BY <2>1, <3>1, ProductPositive
      <3> QED BY <2>1, <3>2, ProductPositive
    <2> DEFINE seen == 5 * delta * c.xRate.time * ra
               expected == 3 * c.xRate.dist * CalDuration * dec
    <2>4. Expected(c, delta) <=> seen >= expected
      BY DEF Expected, ra, dec
    <2> HIDE DEF seen, expected
    <2>5. seen = 0 /\ expected \in Nat \ {0}
      BY <2>2, <2>3 DEF seen, expected
    <2> QED BY <2>4, <2>5
  <1> QED BY <1>1, <1>2, <1>3, <1>4

LEMMA ClearBacklashGood ==
    ASSUME CalibrationAssumption, NEW c, Good(c), c.move = NoMove,
           c.state = "CLEAR_BACKLASH"
    PROVE  Good(ClearBacklash(c, star))
  <1> DEFINE cum == Dist(c.start, star)
             delta == Dist(c.marker, star)
             accepted == Accepted(c, delta, cum)
             t == [c EXCEPT !.accepted = accepted]
             north == [t EXCEPT !.state = "GO_NORTH",
                                !.blMoved = Dist2(c.marker, c.initial)]
             first == Schedule([c EXCEPT !.steps = 1], "north", CalDuration)
             another == Schedule([t EXCEPT !.steps = @ + 1, !.marker = star,
                                           !.lastCum = cum], "north", CalDuration)
             marked == [north EXCEPT !.steps = 1, !.start = c.marker]
             here == [north EXCEPT !.steps = 0, !.start = star]
  <1>1. /\ CalDuration \in Nat \ {0} /\ DecSpeed \in Nat \ {0}
        /\ c.start \in Points /\ c.marker \in Points /\ star \in Points
        /\ c.steps \in Nat
    BY DEF CalibrationAssumption, Good, Typed
  <1>2. /\ cum \in Nat /\ delta \in Nat
    BY <1>1, DistType
  <1>3. /\ accepted \in Nat /\ accepted <= c.accepted + 1 /\ c.accepted \in Nat
        /\ accepted > 0 /\ c.accepted = 0 => delta > 0
    BY <1>2, AcceptedMoved DEF Good, Typed
  \* What is known of the positions while nothing failed.
  <1>4. ASSUME faults = 0
        PROVE  /\ star.ra = c.start.ra /\ c.marker.ra = c.start.ra
               /\ cum > 0 => c.start.dec < star.dec
               /\ accepted > 0 => c.start.dec < star.dec
               /\ c.start.dec < star.dec => mount.gap = 0 /\ mount.dead # "dec"
               /\ c.start.dec < c.marker.dec =>
                     star.dec = c.marker.dec + DecSpeed * CalDuration
               /\ accepted >= 3 => c.start.dec < c.marker.dec
               /\ c.start.dec <= star.dec
               /\ 0 <= c.start.dec /\ 0 <= c.marker.dec /\ 0 <= star.dec
    <2>1. RaTracked(c) /\ DecTracked(c) /\ BackTracked(c)
      BY <1>4 DEF Good, Tracked
    <2>2. /\ star.ra = c.start.ra /\ c.marker.ra = c.start.ra
          /\ c.start.dec <= c.marker.dec /\ c.marker.dec <= star.dec
          /\ c.accepted > 0 => c.start.dec < c.marker.dec
      BY <2>1 DEF DecTracked
    <2>3. cum > 0 => c.start.dec < star.dec
      BY <1>1, <2>2 DEF Dist, Abs, Points
    <2>4. delta > 0 => c.start.dec < star.dec
      BY <1>1, <2>2 DEF Dist, Abs, Points
    <2> HIDE DEF cum, delta, accepted
    <2>5. c.accepted > 0 => c.start.dec < star.dec
      BY <1>1, <2>2 DEF Points
    <2>6. accepted > 0 => c.start.dec < star.dec
      BY <1>3, <2>4, <2>5
    <2>7. accepted >= 3 => c.start.dec < c.marker.dec
      BY <1>3, <2>2
    <2>8. 0 <= c.start.dec /\ 0 <= c.marker.dec /\ 0 <= star.dec
      BY <1>1, <2>1, <2>2 DEF BackTracked, Points
    <2> QED BY <1>1, <2>1, <2>2, <2>3, <2>6, <2>7, <2>8 DEF DecTracked, Points
  <1> HIDE DEF cum, delta, accepted
  <1>5. ASSUME c.steps = 0 PROVE Good(first)
    <2>1. /\ Rec(first) /\ first.steps = 1
          /\ first.move = [direction |-> "north", duration |-> CalDuration]
          /\ \A f \in Fields \ {"steps", "move"} : first[f] = c[f]
      BY DEF Schedule, Good, Rec, Fields
    <2> HIDE DEF first
    <2>2. Typed(first)
      BY <2>1 DEF Good, Typed, Fields
    <2>3. PulseMatches(first)
      BY <1>1, <2>1 DEF PulseMatches, Direction, Fields
    <2>4. Tracked(first)
      BY <1>5, <2>1 DEF Good, Tracked, RaTracked, DecTracked, BackTracked, Fields, NoMove
    <2> QED BY <2>1, <2>2, <2>3, <2>4 DEF Good, Fields
  <1>6. Good(another)
    <2>1. /\ Rec(another) /\ another.steps = c.steps + 1 /\ another.marker = star
          /\ another.accepted = accepted
          /\ another.move = [direction |-> "north", duration |-> CalDuration]
          /\ \A f \in Fields \ {"steps", "move", "marker", "accepted", "lastCum"} :
                another[f] = c[f]
      BY DEF Schedule, Good, Rec, Fields
    <2> HIDE DEF another
    <2>2. Typed(another)
      BY <1>1, <1>3, <2>1 DEF Good, Typed, Fields
    <2>3. PulseMatches(another)
      BY <1>1, <2>1 DEF PulseMatches, Direction, Fields
    <2>4. Tracked(another)
      BY <1>1, <1>4, <2>1 DEF Good, Tracked, RaTracked, DecTracked, BackTracked, Fields, NoMove, Points
    <2> QED BY <2>1, <2>2, <2>3, <2>4 DEF Good, Fields
  <1>7. ASSUME NEW steps \in 0..1, NEW start \in Points,
               steps = 1 => start = c.marker /\ accepted >= 3,
               steps = 0 => start = star /\ cum > 0
        PROVE  Good(GoNorth([north EXCEPT !.steps = steps, !.start = start], star))
    <2> DEFINE d == [north EXCEPT !.steps = steps, !.start = start]
    <2>1. /\ Rec(d) /\ d.state = "GO_NORTH" /\ d.steps = steps /\ d.start = start
          /\ d.accepted = accepted
          /\ \A f \in Fields \ {"steps", "state", "start", "accepted", "blMoved"} :
                d[f] = c[f]
      BY DEF Good, Rec, Fields
    <2> HIDE DEF d, north
    <2>2. Typed(d)
      BY <1>3, <1>7, <2>1 DEF Good, Typed, Fields, States
    <2>3. PulseMatches(d)
      BY <2>1 DEF PulseMatches, Fields
    <2>4. Tracked(d)
      <3> SUFFICES ASSUME faults = 0
                   PROVE RaTracked(d) /\ DecTracked(d) /\ BackTracked(d)
        BY DEF Tracked
      <3>1. RaTracked(d)
        BY <2>1 DEF Good, Tracked, RaTracked, Fields
      <3>2. star.ra = d.start.ra /\ mount.gap = 0 /\ mount.dead # "dec"
        BY <1>3, <1>4, <1>7, <2>1
      <3>3. Ahead(d) = 0
        BY <2>1 DEF Ahead, Fields
      <3>4. star.dec = d.start.dec + DecSpeed * (d.steps * CalDuration - Ahead(d))
        BY <1>1, <1>4, <1>7, <2>1, <3>3 DEF Points
      <3>5. d.yRate = NoRate
        BY <2>1 DEF Good, Tracked, DecTracked, Fields
      <3>6. BackTracked(d)
        BY <1>4, <1>7, <2>1 DEF BackTracked
      <3> QED BY <2>1, <3>1, <3>2, <3>4, <3>5, <3>6 DEF DecTracked
    <2>5. Good(d)
      BY <2>1, <2>2, <2>3, <2>4 DEF Good, Fields
    <2>6. d.move = NoMove
      BY <2>1 DEF Fields
    <2> QED BY <2>1, <2>5, <2>6, GoNorthGood DEF d
  <1>8. Good(Fail(t))
    <2> DEFINE d == Fail(t)
    <2>1. /\ Rec(d) /\ d.state = "CLEARED" /\ d.calibrated = FALSE
          /\ d.accepted = accepted
          /\ \A f \in Fields \ {"state", "calibrated", "accepted"} : d[f] = c[f]
      BY DEF Fail, Good, Rec, Fields
    <2> HIDE DEF d
    <2>2. Typed(d)
      BY <1>3, <2>1 DEF Good, Typed, Fields, States
    <2>3. PulseMatches(d)
      BY <2>1 DEF PulseMatches, Fields
    <2>4. Tracked(d)
      BY <2>1 DEF Good, Tracked, RaTracked, DecTracked, BackTracked, Fields
    <2> QED BY <2>1, <2>2, <2>3, <2>4 DEF Good, d
  <1>9. t.accepted = accepted
    BY DEF Good, Rec, Fields
  <1>10. CASE c.steps = 0
    BY <1>5, <1>10 DEF ClearBacklash, first
  <1> HIDE DEF north, t
  <1>11. CASE c.steps > 0 /\ accepted >= 3
    <2>1. /\ c.steps # 0 /\ c.steps > 0 /\ t.accepted >= BL_BACKLASH_MIN_COUNT
          /\ ~(t.accepted < BL_BACKLASH_MIN_COUNT)
      BY <1>1, <1>3, <1>9, <1>11 DEF BL_BACKLASH_MIN_COUNT
    <2>2. ClearBacklash(c, star) = GoNorth(marked, star)
      BY <2>1 DEF ClearBacklash, cum, delta, accepted, north, t
    <2>3. 1 \in 0..1 /\ 1 # 0
      OBVIOUS
    <2>4. Good(GoNorth(marked, star))
      BY <1>1, <1>7, <1>11, <2>3
    <2> QED BY <2>2, <2>4
  <1>12. CASE c.steps > 0 /\ ~(accepted >= 3)
    <2>1. c.steps # 0 /\ ~(t.accepted >= BL_BACKLASH_MIN_COUNT)
             /\ t.accepted < BL_BACKLASH_MIN_COUNT
      BY <1>1, <1>3, <1>9, <1>12 DEF BL_BACKLASH_MIN_COUNT
    <2>2. ClearBacklash(c, star) =
             IF c.steps < MaxClearing /\ cum < CalDistance THEN another
             ELSE IF cum >= BL_MIN_CLEARING_DISTANCE THEN GoNorth(here, star) ELSE Fail(t)
      BY <1>12, <2>1 DEF ClearBacklash, cum, delta, accepted, north, t
    <2>3. 0 \in 0..1 /\ 0 # 1
      OBVIOUS
    <2>4. cum >= BL_MIN_CLEARING_DISTANCE => Good(GoNorth(here, star))
      <3>1. cum >= BL_MIN_CLEARING_DISTANCE => cum > 0
        BY <1>2 DEF BL_MIN_CLEARING_DISTANCE
      <3> QED BY <1>1, <1>7, <2>3, <3>1
    <2> QED BY <1>6, <1>8, <2>2, <2>4
  <1> QED BY <1>1, <1>10, <1>11, <1>12

-------------------------------------------------------------------------------
(* The measurement of RA.                                                  *)

LEMMA GoEastGood ==
    ASSUME CalibrationAssumption, NEW c, Good(c), c.move = NoMove,
           c.state = "GO_EAST"
    PROVE  Good(GoEast(c, star))
  <1> DEFINE done == [c EXCEPT !.state = "COMPLETE", !.steps = 0, !.start = star,
                               !.yRate = NoRate]
             clear == [c EXCEPT !.state = "CLEAR_BACKLASH", !.steps = 0, !.start = star,
                                !.marker = star, !.lastCum = 0, !.accepted = 0]
  <1>1. /\ RaSpeed \in Nat \ {0} /\ c.remaining \in Nat
        /\ c.start \in Points /\ star \in Points
    BY DEF CalibrationAssumption, Good, Typed
  <1>2. CASE c.remaining > 0
    <2>1. Good(Retrace(c, "east"))
      BY RetraceGood
    <2> QED BY <1>2, <2>1 DEF GoEast
  <1>3. CASE ~(c.remaining > 0)
    <2>1. faults = 0 => star.ra \in 0..1
      <3> SUFFICES ASSUME faults = 0 PROVE star.ra \in 0..1
        OBVIOUS
      <3>1. RaTracked(c) /\ c.started
        BY DEF Good, Tracked, Typed
      <3>2. Ahead(c) = 0 /\ c.remaining = 0
        BY <1>1, <1>3 DEF Ahead
      <3>3. star.ra = c.start.ra + RaSpeed * (c.remaining + Ahead(c))
             /\ c.start.ra \in 0..1
        BY <3>1 DEF RaTracked
      <3> QED BY <1>1, <3>2, <3>3
    <2>2. Good(done)
      <3>1. /\ Rec(done) /\ done.state = "COMPLETE" /\ done.steps = 0
            /\ done.start = star /\ done.yRate = NoRate
            /\ \A f \in Fields \ {"state", "steps", "start", "yRate"} : done[f] = c[f]
        BY DEF Good, Rec, Fields
      <3> HIDE DEF done
      <3>2. Typed(done)
        BY <1>1, <3>1 DEF Good, Typed, Fields, States, NoRate, Rates
      <3>3. PulseMatches(done)
        BY <3>1 DEF PulseMatches, Fields
      <3>4. Tracked(done)
        BY <2>1, <3>1 DEF Good, Tracked, RaTracked, DecTracked, BackTracked, Fields
      <3> QED BY <3>1, <3>2, <3>3, <3>4 DEF Good, Fields
    <2>3. Good(clear) /\ clear.state = "CLEAR_BACKLASH" /\ clear.move = NoMove
      <3>1. /\ Rec(clear) /\ clear.state = "CLEAR_BACKLASH" /\ clear.steps = 0
            /\ clear.start = star /\ clear.marker = star /\ clear.accepted = 0
            /\ \A f \in Fields \ {"state", "steps", "start", "marker", "lastCum",
                                  "accepted"} : clear[f] = c[f]
        BY DEF Good, Rec, Fields
      <3> HIDE DEF clear
      <3>2. Typed(clear)
        BY <1>1, <3>1 DEF Good, Typed, Fields, States
      <3>3. PulseMatches(clear)
        BY <3>1 DEF PulseMatches, Fields
      <3>4. Tracked(clear)
        <4> SUFFICES ASSUME faults = 0
                     PROVE RaTracked(clear) /\ DecTracked(clear) /\ BackTracked(clear)
          BY DEF Tracked
        <4>1. RaTracked(clear)
          BY <2>1, <3>1 DEF Good, Tracked, RaTracked, Fields
        <4>2. clear.yRate = NoRate /\ clear.move = NoMove
          BY <3>1 DEF Good, Tracked, DecTracked, Fields
        <4>3. star.dec \in Int /\ star.dec <= star.dec /\ ~(star.dec < star.dec)
          BY <1>1 DEF Points
        <4>4. BackTracked(clear)
          BY <3>1 DEF Good, Tracked, BackTracked
        <4> QED BY <3>1, <4>1, <4>2, <4>3, <4>4 DEF DecTracked
      <3> QED BY <3>1, <3>2, <3>3, <3>4 DEF Good, Fields
    <2>4. Good(ClearBacklash(clear, star))
      BY <2>3, ClearBacklashGood
    <2> QED BY <1>3, <2>2, <2>4 DEF GoEast
  <1> QED BY <1>2, <1>3

LEMMA GoWestGood ==
    ASSUME CalibrationAssumption, NEW c, Good(c), c.move = NoMove,
           c.state = "GO_WEST", c.started
    PROVE  Good(GoWest(c, star))
  <1> DEFINE dist == Dist(c.start, star)
             time == c.steps * CalDuration
             limit == (MaxMove * time) \div dist
             pulse == RetracePulse(limit, MaxRa)
             d == [c EXCEPT !.state = "GO_EAST",
                            !.xRate = [dist |-> dist, time |-> time],
                            !.remaining = time, !.pulse = pulse,
                            !.steps = DivRoundUp(time, pulse)]
  <1>1. CASE dist < CalDistance
    BY <1>1, AnotherGood DEF GoWest
  <1>2. CASE ~(dist < CalDistance)
    <2>1. /\ CalDuration \in Nat \ {0} /\ CalDistance \in Nat \ {0}
          /\ MaxMove \in Nat /\ RaSpeed \in Nat \ {0} /\ MaxRa \in Nat
      BY DEF CalibrationAssumption
    <2>2. c.start \in Points /\ star \in Points /\ c.steps \in Nat
      BY DEF Good, Typed
    <2>3. dist \in Nat \ {0} /\ time \in Nat
      BY <1>2, <2>1, <2>2, DistType
    <2>4. ASSUME faults = 0
          PROVE  /\ dist = RaSpeed * time /\ mount.dead # "ra"
                 /\ star.ra = c.start.ra + RaSpeed * time /\ c.start.ra \in 0..1
      <3>1. /\ star.dec = c.start.dec /\ c.start.ra \in 0..1
            /\ star.ra = IF mount.dead = "ra" THEN c.start.ra
                         ELSE c.start.ra + RaSpeed * (c.steps * CalDuration - Ahead(c))
        BY <2>4 DEF Good, Tracked, RaTracked
      <3>2. mount.dead # "ra"
        BY <2>2, <2>3, <3>1 DEF Dist, Abs, Points
      <3>3. star.ra = c.start.ra + RaSpeed * time
        BY <2>1, <2>2, <3>1, <3>2 DEF Ahead
      <3>4. RaSpeed * time \in Nat
        BY <2>1, <2>3
      <3> HIDE DEF time
      <3>5. dist = RaSpeed * time
        BY <2>2, <3>1, <3>3, <3>4 DEF Dist, Abs, Points
      <3> QED BY <3>1, <3>2, <3>3, <3>5
    <2> HIDE DEF dist, time
    <2>5. limit \in Nat /\ limit * dist <= MaxMove * time
      <3>1. MaxMove * time \in Nat
        BY <2>1, <2>3
      <3> QED BY <2>3, <3>1, QuotientBounds
    <2> HIDE DEF limit
    <2>6. faults = 0 => limit * RaSpeed <= MaxMove
      <3> SUFFICES ASSUME faults = 0 PROVE limit * RaSpeed <= MaxMove
        OBVIOUS
      <3>1. time # 0
        BY <2>1, <2>3, <2>4
      <3> QED BY <2>1, <2>3, <2>4, <2>5, <3>1, EastLimit
    <2>7. pulse \in Nat \ {0} /\ Allowed(pulse, RaSpeed, MaxRa)
      BY <2>1, <2>5, <2>6, RetracePulseAllowed
    <2>8. DivRoundUp(time, pulse) \in Int
      BY <2>3, <2>7 DEF DivRoundUp
    <2> HIDE DEF pulse
    <2>9. /\ Rec(d) /\ d.state = "GO_EAST" /\ d.steps \in Int
          /\ d.xRate = [dist |-> dist, time |-> time]
          /\ d.remaining = time /\ d.pulse = pulse
          /\ \A f \in Fields \ {"state", "xRate", "remaining", "pulse", "steps"} :
                d[f] = c[f]
      BY <2>8 DEF Good, Rec, Fields
    <2>10. GoWest(c, star) = GoEast(d, star)
      BY <1>2 DEF GoWest, dist, time, limit, pulse
    <2> HIDE DEF d
    <2>11. Good(d)
      <3>1. Typed(d)
        BY <2>3, <2>7, <2>9 DEF Good, Typed, Fields, States, Rates
      <3>2. PulseMatches(d)
        BY <2>7, <2>9 DEF PulseMatches, Fields
      <3>3. Tracked(d)
        <4> SUFFICES ASSUME faults = 0
                     PROVE RaTracked(d) /\ DecTracked(d) /\ BackTracked(d)
          BY DEF Tracked
        <4>1. Ahead(d) = 0 /\ d.start = c.start
          BY <2>9 DEF Ahead, Fields
        <4>2. star.ra = d.start.ra + RaSpeed * (d.remaining + Ahead(d))
          BY <2>3, <2>4, <2>9, <4>1
        <4>3. RaTracked(d)
          BY <2>4, <2>9, <4>1, <4>2 DEF RaTracked
        <4>4. DecTracked(d)
          BY <2>9 DEF Good, Tracked, DecTracked, Fields
        <4>5. BackTracked(d)
          BY <2>9 DEF Good, Tracked, BackTracked
        <4> QED BY <4>3, <4>4, <4>5
      <3> QED BY <2>9, <3>1, <3>2, <3>3 DEF Good, Fields
    <2>12. d.move = NoMove
      BY <2>9 DEF Fields
    <2> QED BY <2>9, <2>10, <2>11, <2>12, GoEastGood
  <1> QED BY <1>1, <1>2

\* The first image sets where RA is measured from.
LEMMA UpdateGood ==
    ASSUME CalibrationAssumption, NEW old, Good(old), old.move = NoMove,
           old.state # "CLEARED"
    PROVE  Good(UpdateCalibrationState(old, star))
  <1> DEFINE c == IF old.started THEN old
                  ELSE [old EXCEPT !.started = TRUE, !.start = star]
  <1>1. Good(c) /\ c.started /\ c.move = NoMove /\ c.state \in States \ {"CLEARED"}
    <2>1. CASE old.started
      BY <2>1 DEF Good, Typed
    <2>2. CASE ~old.started
      <3>1. /\ Rec(c) /\ c.start = star /\ c.started
            /\ \A f \in Fields \ {"started", "start"} : c[f] = old[f]
        BY <2>2 DEF Good, Rec, Fields
      <3>2. old.state = "GO_WEST"
        BY <2>2 DEF Good, Typed
      <3> HIDE DEF c
      <3>3. Typed(c)
        BY <3>1, <3>2 DEF Good, Typed, Fields, States
      <3>4. PulseMatches(c)
        BY <3>1, <3>2 DEF PulseMatches, Fields
      <3>5. Tracked(c)
        <4> SUFFICES ASSUME faults = 0
                     PROVE RaTracked(c) /\ DecTracked(c) /\ BackTracked(c)
          BY DEF Tracked
        <4>1. DecTracked(c) /\ BackTracked(c)
          BY <3>1, <3>2 DEF Good, Tracked, DecTracked, BackTracked, Fields
        <4>2. RaTracked(old)
          BY DEF Good, Tracked
        <4>3. old.steps = 0 /\ star.ra \in 0..1 /\ old.xRate = NoRate
          BY <2>2, <3>2, <4>2 DEF RaTracked
        <4>4. /\ c.state = "GO_WEST" /\ c.steps = 0 /\ c.move = NoMove
              /\ c.xRate = NoRate
          BY <3>1, <3>2, <4>3 DEF Fields
        <4>5. c.steps * CalDuration - Ahead(c) = 0 /\ RaSpeed * 0 = 0
          BY <4>4 DEF Ahead, CalibrationAssumption
        <4>6. star.ra = c.start.ra + RaSpeed * (c.steps * CalDuration - Ahead(c))
          BY <3>1, <4>3, <4>5
        <4> QED BY <3>1, <4>1, <4>3, <4>4, <4>6 DEF RaTracked
      <3> QED BY <3>1, <3>2, <3>3, <3>4, <3>5 DEF Good, Fields, States
    <2> QED BY <2>1, <2>2
  <1> HIDE DEF c
  <1>2. UpdateCalibrationState(old, star) =
            CASE c.state = "GO_WEST" -> GoWest(c, star)
              [] c.state = "GO_EAST" -> GoEast(c, star)
              [] c.state = "CLEAR_BACKLASH" -> ClearBacklash(c, star)
              [] c.state = "GO_NORTH" -> GoNorth(c, star)
              [] c.state = "GO_SOUTH" -> GoSouth(c, star)
              [] c.state = "NUDGE_SOUTH" -> NudgeSouth(c, star)
              [] c.state = "COMPLETE" -> Complete(c)
    BY DEF UpdateCalibrationState, c
  <1>3. CASE c.state = "GO_WEST"
    BY <1>1, <1>2, <1>3, GoWestGood
  <1>4. CASE c.state = "GO_EAST"
    BY <1>1, <1>2, <1>4, GoEastGood
  <1>5. CASE c.state = "CLEAR_BACKLASH"
    BY <1>1, <1>2, <1>5, ClearBacklashGood
  <1>6. CASE c.state = "GO_NORTH"
    BY <1>1, <1>2, <1>6, GoNorthGood
  <1>7. CASE c.state = "GO_SOUTH"
    BY <1>1, <1>2, <1>7, GoSouthGood
  <1>8. CASE c.state = "NUDGE_SOUTH"
    BY <1>1, <1>2, <1>8, NudgeSouthGood
  <1>9. CASE c.state = "COMPLETE"
    BY <1>1, <1>2, <1>9, CompleteGood
  <1> QED BY <1>1, <1>3, <1>4, <1>5, <1>6, <1>7, <1>8, <1>9 DEF States

-------------------------------------------------------------------------------
(* The steps.                                                              *)

Inv == Rec(cal) /\ ScopeInv

LEMMA InitInv == ASSUME CalibrationAssumption, Init PROVE Inv
  <1>1. /\ Rec(cal) /\ cal.state = "GO_WEST" /\ cal.steps = 0 /\ cal.initial = Origin
        /\ cal.started = FALSE /\ cal.start = Origin /\ cal.marker = Origin
        /\ cal.remaining = 0 /\ cal.pulse = 0 /\ cal.accepted = 0
        /\ cal.xRate = NoRate /\ cal.yRate = NoRate /\ cal.calibrated = FALSE
        /\ cal.move = NoMove
    BY DEF Init, Rec, Fields
  <1>2. /\ star \in Points /\ star.ra \in 0..1 /\ 0 <= star.dec /\ Origin \in Points
        /\ NoRate \in Rates /\ faults = 0 /\ guider = "calibrating"
    BY DEF Init, Points, Point, Origin, Rates, NoRate
  <1>3. mount \in Mounts /\ mount.gap <= mount.play
    <2>0. PICK play \in Plays, told \in BOOLEAN, dead \in {"none", "ra", "dec"} :
             \E gap \in {0, play \div 2, play} :
                mount = [play |-> play, gap |-> gap, told |-> told, dead |-> dead]
      BY DEF Init
    <2>1. PICK gap \in {0, play \div 2, play} :
             mount = [play |-> play, gap |-> gap, told |-> told, dead |-> dead]
      BY <2>0
    <2>2. play \in Nat /\ gap \in 0..play
      BY DEF CalibrationAssumption
    <2>3. mount.play = play /\ mount.gap = gap
      BY <2>1
    <2>4. mount \in Mounts
      BY <2>1, <2>2 DEF Mounts
    <2> QED BY <2>2, <2>3, <2>4
  <1>4. Typed(cal)
    BY <1>1, <1>2, <1>3 DEF Typed, States
  <1>5. PulseMatches(cal)
    BY <1>1 DEF PulseMatches
  <1>6. Tracked(cal)
    BY <1>1, <1>2 DEF Tracked, RaTracked, DecTracked, BackTracked
  <1> QED BY <1>1, <1>2, <1>4, <1>5, <1>6 DEF Inv, ScopeInv

\* What an image leaves is good for the star and the mount as they are.
LEMMA NewImageKeeps == ASSUME CalibrationAssumption, Inv, NewImage PROVE Inv'
  <1>1. Good(cal) /\ cal.move = NoMove /\ cal.state # "CLEARED"
    BY DEF Inv, ScopeInv, Good, NewImage
  <1> DEFINE next == IF IsCalibrated(cal) THEN cal
                     ELSE UpdateCalibrationState(cal, star)
  <1>2. Good(next)
    BY <1>1, UpdateGood
  <1>3. cal' = next /\ UNCHANGED <<mode, fast, mount, star, faults>>
    BY DEF NewImage
  <1> HIDE DEF next
  <1>4. /\ Rec(cal') /\ Typed(cal)' /\ PulseMatches(cal)'
        /\ cal'.calibrated => cal'.state = "COMPLETE"
    BY <1>2, <1>3 DEF Good, Typed, PulseMatches, Allowed
  <1>5. Tracked(cal)'
    BY <1>2, <1>3 DEF Good, Tracked, RaTracked, DecTracked, BackTracked, Ahead
  <1>6. /\ guider' = "calibrated" => cal'.calibrated
        /\ guider' = "calibrating" => cal'.state # "CLEARED"
    BY DEF NewImage, IsCalibrated
  <1> QED BY <1>4, <1>5, <1>6 DEF Inv, ScopeInv, Rec

\* A pulse that was asked for is over, done or not.
LEMMA MoveEnds ==
    ASSUME Inv, cal' = [cal EXCEPT !.move = NoMove]
    PROVE  /\ Rec(cal') /\ cal'.move = NoMove /\ Ahead(cal)' = 0
           /\ \A f \in Fields \ {"move"} : cal'[f] = cal[f]
  <1>1. /\ Rec(cal') /\ cal'.move = NoMove
        /\ \A f \in Fields \ {"move"} : cal'[f] = cal[f]
    BY DEF Inv, Rec, Fields
  <1> QED BY <1>1 DEF Ahead

\* What the mount does with a pulse.
LEMMA GuidedMoves ==
    ASSUME CalibrationAssumption, Inv, cal.move # NoMove, Guided
    PROVE  /\ star' \in Points /\ mount' \in Mounts /\ mount'.gap <= mount'.play
           /\ mount'.dead = mount.dead
           /\ cal.state \notin {"GO_WEST", "GO_EAST"} => star'.ra = star.ra
           /\ cal.state = "GO_WEST" =>
                 /\ star'.dec = star.dec
                 /\ star'.ra = IF mount.dead = "ra" THEN star.ra
                               ELSE star.ra + CalDuration * RaSpeed
           /\ cal.state = "GO_EAST" /\ mount.dead # "ra" =>
                 star'.ra = star.ra - cal.move.duration * RaSpeed
           /\ cal.state \in {"CLEAR_BACKLASH", "GO_NORTH"} =>
                 /\ star.dec <= star'.dec
                 /\ star.dec < star'.dec => mount'.gap = 0 /\ mount.dead # "dec"
                 /\ mount.gap = 0 => mount'.gap = 0
                 /\ mount.gap = 0 /\ mount.dead # "dec" =>
                       star'.dec = star.dec + DecSpeed * CalDuration
           /\ mount'.play = mount.play
           /\ cal.state = "GO_EAST" => star'.dec = star.dec
           /\ cal.state \in {"GO_SOUTH", "NUDGE_SOUTH"} =>
                 /\ star'.dec <= star.dec
                 /\ star.dec - DecSpeed * cal.move.duration <= star'.dec
                 /\ mount.dead # "dec" => star'.dec - DecSpeed * mount'.gap =
                       star.dec - DecSpeed * mount.gap - DecSpeed * cal.move.duration
  <1> DEFINE axis == IF cal.move.direction \in {"west", "east"} THEN "ra" ELSE "dec"
             d == IF axis = mount.dead THEN 0 ELSE cal.move.duration
             free == CASE cal.move.direction = "north" -> Smaller(d, mount.gap)
                       [] cal.move.direction = "south" -> Smaller(d, mount.play - mount.gap)
                       [] OTHER -> 0
  <1>1. /\ star \in Points /\ mount \in Mounts /\ mount.gap <= mount.play
        /\ mount.play \in Nat /\ mount.gap \in Nat /\ cal.state \in States
        /\ star.ra \in Int /\ star.dec \in Int
    BY DEF Inv, ScopeInv, Typed, Mounts, Points
  <1>2. /\ RaSpeed \in Nat /\ DecSpeed \in Nat \ {0} /\ CalDuration \in Nat \ {0}
    BY DEF CalibrationAssumption
  <1>3. /\ cal.move.direction = Direction(cal.state) /\ cal.move.duration \in Nat
        /\ cal.state \in {"GO_WEST", "CLEAR_BACKLASH", "GO_NORTH"}
              => cal.move.duration = CalDuration
        /\ cal.state \notin {"COMPLETE", "CLEARED"}
    BY DEF Inv, ScopeInv, PulseMatches
  <1>4. /\ star' = CASE cal.move.direction = "west" -> [star EXCEPT !.ra = @ + d * RaSpeed]
                    [] cal.move.direction = "east" -> [star EXCEPT !.ra = @ - d * RaSpeed]
                    [] cal.move.direction = "north" ->
                          [star EXCEPT !.dec = @ + (d - free) * DecSpeed]
                    [] cal.move.direction = "south" ->
                          [star EXCEPT !.dec = @ - (d - free) * DecSpeed]
        /\ mount' = CASE cal.move.direction = "north" -> [mount EXCEPT !.gap = @ - free]
                     [] cal.move.direction = "south" -> [mount EXCEPT !.gap = @ + free]
                     [] OTHER -> mount
    BY DEF Guided
  <1>5. /\ d \in Nat /\ (axis = mount.dead => d = 0)
        /\ (axis # mount.dead => d = cal.move.duration)
    <2> HIDE DEF axis
    <2> QED BY <1>3
  <1>6. CASE cal.state = "GO_WEST"
    <2>1. star' = [star EXCEPT !.ra = @ + d * RaSpeed] /\ mount' = mount /\ axis = "ra"
      BY <1>3, <1>4, <1>6 DEF Direction
    <2> HIDE DEF d, axis
    <2>2. d * RaSpeed \in Nat
      BY <1>2, <1>5
    <2>3. star'.ra = star.ra + d * RaSpeed /\ star'.dec = star.dec /\ star' \in Points
      BY <1>1, <2>1, <2>2 DEF Points
    <2>4. mount.dead = "ra" => d = 0
      BY <1>5, <2>1
    <2>5. mount.dead # "ra" => d = CalDuration
      BY <1>3, <1>5, <1>6, <2>1
    <2> QED BY <1>1, <1>2, <1>6, <2>1, <2>3, <2>4, <2>5
  <1>7. CASE cal.state = "GO_EAST"
    <2>1. star' = [star EXCEPT !.ra = @ - d * RaSpeed] /\ mount' = mount /\ axis = "ra"
      BY <1>3, <1>4, <1>7 DEF Direction
    <2> HIDE DEF d, axis
    <2>2. d * RaSpeed \in Nat
      BY <1>2, <1>5
    <2>3. star'.ra = star.ra - d * RaSpeed /\ star' \in Points
      BY <1>1, <2>1, <2>2 DEF Points
    <2>4. mount.dead # "ra" => d = cal.move.duration
      BY <1>5, <2>1
    <2> QED BY <1>1, <1>7, <2>1, <2>3, <2>4
  <1>8. CASE cal.state \in {"CLEAR_BACKLASH", "GO_NORTH"}
    <2>1. /\ star' = [star EXCEPT !.dec = @ + (d - free) * DecSpeed]
          /\ mount' = [mount EXCEPT !.gap = @ - free] /\ axis = "dec"
          /\ free = Smaller(d, mount.gap)
      BY <1>3, <1>4, <1>8 DEF Direction
    <2> HIDE DEF d, free, axis
    <2>2. /\ free \in Nat /\ free <= mount.gap /\ d - free \in Nat
          /\ d - free > 0 => free = mount.gap /\ d # 0
          /\ mount.gap = 0 => free = 0
      BY <1>1, <1>5, <2>1 DEF Smaller
    <2> DEFINE gone == (d - free) * DecSpeed
    <2>3. gone \in Nat /\ (d - free = 0 => gone = 0)
      BY <1>2, <2>2
    <2>4. mount.gap = 0 /\ mount.dead # "dec" => gone = DecSpeed * CalDuration
      <3>1. mount.dead # "dec" => d = CalDuration
        BY <1>3, <1>5, <1>8, <2>1
      <3> QED BY <1>2, <2>2, <3>1
    <2> HIDE DEF gone
    <2>5. star'.dec = star.dec + gone /\ star'.ra = star.ra /\ star' \in Points
      BY <1>1, <2>1, <2>3 DEF Points, gone
    <2>6. /\ mount'.gap = mount.gap - free /\ mount'.play = mount.play
          /\ mount'.dead = mount.dead /\ mount' \in Mounts
      BY <1>1, <2>1, <2>2 DEF Mounts
    <2>7. d # 0 => mount.dead # "dec"
      BY <1>5, <2>1
    <2> QED BY <1>1, <1>2, <1>8, <2>2, <2>3, <2>4, <2>5, <2>6, <2>7
  <1>9. CASE cal.state \in {"GO_SOUTH", "NUDGE_SOUTH"}
    <2>1. /\ star' = [star EXCEPT !.dec = @ - (d - free) * DecSpeed]
          /\ mount' = [mount EXCEPT !.gap = @ + free]
          /\ free = Smaller(d, mount.play - mount.gap)
      BY <1>3, <1>4, <1>9 DEF Direction
    <2> HIDE DEF d, free, axis
    <2>2. free \in Nat /\ free <= mount.play - mount.gap /\ d - free \in Nat
      BY <1>1, <1>5, <2>1 DEF Smaller
    <2> DEFINE gone == (d - free) * DecSpeed
               most == DecSpeed * cal.move.duration
    <2>3. gone \in Nat /\ most \in Nat /\ gone <= most
          /\ (d = cal.move.duration => gone = most - DecSpeed * free)
      <3>1. d \in Nat /\ d <= cal.move.duration /\ cal.move.duration \in Nat
        BY <1>3, <1>5
      <3>2. d - free <= cal.move.duration
        BY <2>2, <3>1
      <3>3. gone <= cal.move.duration * DecSpeed
        BY <1>2, <2>2, <3>1, <3>2, ProductMonotone
      <3> QED BY <1>2, <2>2, <3>1, <3>3
    <2>4. /\ DecSpeed * (mount.gap + free) = DecSpeed * mount.gap + DecSpeed * free
          /\ DecSpeed * mount.gap \in Nat /\ DecSpeed * free \in Nat
      BY <1>1, <1>2, <2>2
    <2>5. /\ star' \in Points /\ star'.ra = star.ra
          /\ star'.dec = star.dec - gone
      <3>1. star' = [star EXCEPT !.dec = @ - gone]
        BY <2>1
      <3> HIDE DEF gone, most
      <3> QED BY <1>1, <2>3, <3>1 DEF Points
    <2> HIDE DEF gone, most
    <2>6. /\ mount'.gap = mount.gap + free /\ mount'.play = mount.play
          /\ mount'.dead = mount.dead /\ mount' \in Mounts
      BY <1>1, <2>1, <2>2 DEF Mounts
    <2>7. star'.dec <= star.dec /\ star.dec - most <= star'.dec
      BY <1>1, <2>3, <2>5
    <2>8. ASSUME mount.dead # "dec"
          PROVE  star'.dec - DecSpeed * mount'.gap =
                    star.dec - DecSpeed * mount.gap - most
      <3>1. d = cal.move.duration
        BY <1>3, <1>5, <1>9, <2>8 DEF Direction, axis
      <3>2. DecSpeed * mount'.gap = DecSpeed * mount.gap + DecSpeed * free
        BY <2>4, <2>6
      <3>3. gone = most - DecSpeed * free
        BY <2>3, <3>1
      <3> QED BY <1>1, <2>3, <2>4, <2>5, <3>2, <3>3
    <2> QED BY <1>1, <1>9, <2>2, <2>5, <2>6, <2>7, <2>8 DEF most
  <1> QED BY <1>1, <1>3, <1>6, <1>7, <1>8, <1>9 DEF States

\* The gear comes back by as much as the pulses south take it.
LEMMA GuidedBack ==
    ASSUME CalibrationAssumption, Inv, cal.move # NoMove, Guided, BackTracked(cal),
           Ahead(cal) = cal.move.duration, Ahead(cal)' = 0,
           \A f \in Fields \ {"move"} : cal'[f] = cal[f]
    PROVE  BackTracked(cal)'
  <1>1. /\ DecSpeed \in Nat /\ star.dec \in Int /\ star'.dec \in Int /\ star' \in Points
        /\ cal.start.dec \in Int
        /\ cal.remaining \in Nat /\ cal.move.duration \in Nat
        /\ mount.gap \in Nat /\ mount'.gap \in Nat /\ cal.state \in States
        /\ cal.state \notin {"COMPLETE", "CLEARED"}
    BY GuidedMoves DEF CalibrationAssumption, Inv, ScopeInv, Typed, PulseMatches, Points,
                       Mounts
  <1>2. /\ cal'.state = cal.state /\ cal'.yRate = cal.yRate /\ cal'.start = cal.start
        /\ cal'.remaining = cal.remaining
    BY DEF Fields
  <1>3. mount'.play = mount.play /\ mount'.dead = mount.dead
    BY GuidedMoves
  <1>4. CASE cal.state \in {"GO_WEST", "GO_EAST", "CLEAR_BACKLASH", "GO_NORTH"}
    <2>1. star.dec <= star'.dec
      BY <1>1, <1>4, GuidedMoves
    <2>2. 0 <= star'.dec
      BY <1>1, <2>1 DEF BackTracked
    <2> QED BY <1>2, <1>4, <2>2 DEF BackTracked
  <1>5. CASE cal.state = "GO_SOUTH"
    <2> DEFINE all == cal.remaining + cal.move.duration + mount.gap
               rest == cal.remaining + 0 + mount'.gap
    <2>1. /\ star.dec = cal.start.dec + DecSpeed * all
          /\ mount.dead # "dec" /\ cal.yRate # NoRate /\ 0 <= cal.start.dec
      BY <1>5 DEF BackTracked
    <2>2. star'.dec - DecSpeed * mount'.gap =
             star.dec - DecSpeed * mount.gap - DecSpeed * cal.move.duration
      BY <1>5, <2>1, GuidedMoves
    <2> DEFINE left == DecSpeed * cal.remaining
               most == DecSpeed * cal.move.duration
               before == DecSpeed * mount.gap
               after == DecSpeed * mount'.gap
    <2>3. /\ DecSpeed * all = left + most + before
          /\ DecSpeed * rest = left + after
          /\ left \in Nat /\ most \in Nat /\ before \in Nat /\ after \in Nat
      BY <1>1
    <2>5. star'.dec - after = star.dec - before - most
      BY <2>2
    <2> HIDE DEF all, rest, left, most, before, after
    <2>4. star'.dec = cal.start.dec + DecSpeed * rest /\ 0 <= star'.dec
      BY <1>1, <2>1, <2>3, <2>5
    <2> QED BY <1>2, <1>3, <1>5, <2>1, <2>4 DEF BackTracked, rest
  <1>6. CASE cal.state = "NUDGE_SOUTH"
    <2>1. /\ DecSpeed * cal.move.duration <= star.dec /\ cal.yRate # NoRate
          /\ star.dec <= cal.start.dec + DecSpeed * mount.play /\ mount.dead # "dec"
      BY <1>6 DEF BackTracked
    <2>2. /\ star'.dec <= star.dec
          /\ star.dec - DecSpeed * cal.move.duration <= star'.dec
      BY <1>6, GuidedMoves
    <2>3. /\ DecSpeed * cal.move.duration \in Nat /\ DecSpeed * 0 = 0
          /\ DecSpeed * mount.play \in Nat
      BY <1>1 DEF Inv, ScopeInv, Typed, Mounts
    <2>4. 0 <= star'.dec /\ star'.dec <= cal.start.dec + DecSpeed * mount.play
      BY <1>1, <2>1, <2>2, <2>3
    <2> QED BY <1>2, <1>3, <1>6, <2>1, <2>3, <2>4 DEF BackTracked
  <1> QED BY <1>1, <1>4, <1>5, <1>6 DEF States

LEMMA MoveAxisKeeps == ASSUME CalibrationAssumption, Inv, MoveAxis PROVE Inv'
  <1>1. /\ Rec(cal') /\ cal'.move = NoMove /\ Ahead(cal)' = 0
        /\ \A f \in Fields \ {"move"} : cal'[f] = cal[f]
        /\ UNCHANGED <<guider, mode, fast>> /\ cal.move # NoMove
    BY MoveEnds DEF MoveAxis
  <1>2. /\ star \in Points /\ faults \in Nat /\ cal.state \in States
        /\ cal.start \in Points /\ cal.marker \in Points /\ cal.steps \in Int
        /\ cal.remaining \in Nat /\ mount \in Mounts /\ mount.gap \in Nat
        /\ cal.move.duration \in Nat
        /\ cal.state \in {"GO_WEST", "CLEAR_BACKLASH", "GO_NORTH"}
              => cal.move.duration = CalDuration
    BY <1>1 DEF Inv, ScopeInv, Typed, PulseMatches, Mounts
  <1>3. Ahead(cal) = cal.move.duration
    BY <1>1 DEF Ahead
  <1>4. CASE Guided
    <2>1. /\ star' \in Points /\ mount' \in Mounts /\ mount'.gap <= mount'.play
          /\ faults' = faults
      BY <1>1, <1>4, GuidedMoves DEF Guided
    <2>2. Typed(cal)'
      BY <1>1, <2>1 DEF Inv, ScopeInv, Typed, Fields
    <2>3. PulseMatches(cal)'
      BY <1>1, <2>1 DEF Inv, ScopeInv, PulseMatches, Allowed, Fields
    <2>4. Tracked(cal)'
      <3> SUFFICES ASSUME faults = 0
                   PROVE RaTracked(cal)' /\ DecTracked(cal)' /\ BackTracked(cal)'
        BY <2>1 DEF Tracked
      <3>1. RaTracked(cal) /\ DecTracked(cal) /\ BackTracked(cal)
        BY DEF Inv, ScopeInv, Tracked
      <3>2. RaTracked(cal)'
        <4>1. CASE cal.state = "GO_WEST"
          <5>1. /\ cal.started /\ cal.start.ra \in 0..1 /\ cal.xRate = NoRate
                /\ star.dec = cal.start.dec
                /\ star.ra = IF mount.dead = "ra" THEN cal.start.ra
                             ELSE cal.start.ra + RaSpeed * (cal.steps * CalDuration - CalDuration)
            BY <1>1, <1>2, <1>3, <3>1, <4>1 DEF RaTracked
          <5>2. /\ star'.dec = star.dec /\ mount'.dead = mount.dead
                /\ star'.ra = IF mount.dead = "ra" THEN star.ra
                              ELSE star.ra + CalDuration * RaSpeed
            BY <1>1, <1>4, <4>1, GuidedMoves
          <5>3. RaSpeed * (cal.steps * CalDuration - CalDuration) + CalDuration * RaSpeed
                   = RaSpeed * (cal.steps * CalDuration - 0)
            BY <1>2 DEF CalibrationAssumption
          <5>4. RaSpeed * (cal.steps * CalDuration - CalDuration) \in Int
                /\ CalDuration * RaSpeed \in Int
            BY <1>2 DEF CalibrationAssumption
          <5>5. mount.dead # "ra" => 
                    star'.ra = cal.start.ra + RaSpeed * (cal.steps * CalDuration - 0)
            BY <5>1, <5>2, <5>3, <5>4
          <5>6. /\ cal'.state = "GO_WEST" /\ cal'.started /\ cal'.start = cal.start
                /\ cal'.xRate = NoRate /\ cal'.steps = cal.steps
            BY <1>1, <4>1, <5>1 DEF Fields
          <5> QED BY <1>1, <5>1, <5>2, <5>5, <5>6 DEF RaTracked
        <4>2. CASE cal.state = "GO_EAST"
          <5>1. /\ cal.started /\ cal.start.ra \in 0..1 /\ mount.dead # "ra"
                /\ cal.xRate # NoRate => cal.xRate.dist = RaSpeed * cal.xRate.time
                /\ star.ra = cal.start.ra + RaSpeed * (cal.remaining + cal.move.duration)
            BY <1>3, <3>1, <4>2 DEF RaTracked, Inv, ScopeInv, Typed
          <5>2. star'.ra = star.ra - cal.move.duration * RaSpeed /\ mount'.dead = mount.dead
            BY <1>1, <1>4, <4>2, <5>1, GuidedMoves
          <5>3. RaSpeed * (cal.remaining + cal.move.duration) - cal.move.duration * RaSpeed
                   = RaSpeed * (cal.remaining + 0)
            BY <1>2 DEF CalibrationAssumption
          <5>4. RaSpeed * (cal.remaining + cal.move.duration) \in Int
                /\ cal.move.duration * RaSpeed \in Int
            BY <1>2 DEF CalibrationAssumption
          <5>5. star'.ra = cal.start.ra + RaSpeed * (cal.remaining + 0)
            BY <5>1, <5>2, <5>3, <5>4
          <5>6. /\ cal'.state = "GO_EAST" /\ cal'.start = cal.start
                /\ cal'.xRate = cal.xRate /\ cal'.remaining = cal.remaining
            BY <1>1, <4>2 DEF Fields
          <5> QED BY <1>1, <5>1, <5>2, <5>5, <5>6 DEF RaTracked
        <4>3. CASE cal.state \notin {"GO_WEST", "GO_EAST"}
          <5>1. star'.ra = star.ra /\ mount'.dead = mount.dead
            BY <1>1, <1>4, <4>3, GuidedMoves
          <5>2. cal'.state = cal.state /\ cal'.xRate = cal.xRate
            BY <1>1 DEF Fields
          <5> QED BY <3>1, <4>3, <5>1, <5>2 DEF RaTracked
        <4> QED BY <4>1, <4>2, <4>3
      <3>3. DecTracked(cal)'
        <4>1. /\ cal'.state = cal.state /\ cal'.yRate = cal.yRate
              /\ cal'.start = cal.start /\ cal'.marker = cal.marker
              /\ cal'.steps = cal.steps /\ cal'.accepted = cal.accepted
          BY <1>1 DEF Fields
        <4>2. CASE cal.state = "CLEAR_BACKLASH"
          <5>1. /\ cal.yRate = NoRate /\ star.ra = cal.start.ra /\ cal.steps # 0
                /\ cal.marker.ra = cal.start.ra
                /\ cal.start.dec <= cal.marker.dec /\ star.dec = cal.marker.dec
                /\ cal.accepted > 0 => cal.start.dec < cal.marker.dec
                /\ cal.start.dec < star.dec => mount.gap = 0 /\ mount.dead # "dec"
            BY <1>1, <3>1, <4>2 DEF DecTracked
          <5>2. /\ star'.ra = star.ra /\ star.dec <= star'.dec
                /\ mount'.dead = mount.dead
                /\ star.dec < star'.dec => mount'.gap = 0 /\ mount.dead # "dec"
                /\ mount.gap = 0 => mount'.gap = 0
                /\ mount.gap = 0 /\ mount.dead # "dec" =>
                       star'.dec = star.dec + DecSpeed * CalDuration
            BY <1>1, <1>4, <4>2, GuidedMoves
          <5>3. cal.start.dec < star'.dec => mount'.gap = 0 /\ mount'.dead # "dec"
            BY <1>2, <2>1, <5>1, <5>2 DEF Points
          <5> QED BY <1>1, <4>1, <4>2, <5>1, <5>2, <5>3 DEF DecTracked
        <4>3. CASE cal.state = "GO_NORTH"
          <5>1. /\ cal.yRate = NoRate /\ star.ra = cal.start.ra
                /\ mount.gap = 0 /\ mount.dead # "dec"
                /\ star.dec = cal.start.dec
                                + DecSpeed * (cal.steps * CalDuration - CalDuration)
            BY <1>2, <1>3, <3>1, <4>3 DEF DecTracked
          <5>2. /\ star'.ra = star.ra /\ mount'.dead = mount.dead /\ mount'.gap = 0
                /\ star'.dec = star.dec + DecSpeed * CalDuration
            BY <1>1, <1>4, <4>3, <5>1, GuidedMoves
          <5>3. DecSpeed * (cal.steps * CalDuration - CalDuration) + DecSpeed * CalDuration
                   = DecSpeed * (cal.steps * CalDuration - 0)
            BY <1>2 DEF CalibrationAssumption
          <5>4. DecSpeed * (cal.steps * CalDuration - CalDuration) \in Int
                /\ DecSpeed * CalDuration \in Int
            BY <1>2 DEF CalibrationAssumption
          <5>5. star'.dec = cal.start.dec + DecSpeed * (cal.steps * CalDuration - 0)
            BY <1>2, <5>1, <5>2, <5>3, <5>4 DEF Points
          <5> QED BY <1>1, <4>1, <4>3, <5>1, <5>2, <5>5 DEF DecTracked
        <4>4. CASE cal.state \notin {"CLEAR_BACKLASH", "GO_NORTH"}
          BY <3>1, <4>1, <4>4 DEF DecTracked
        <4> QED BY <4>2, <4>3, <4>4
      <3>4. BackTracked(cal)'
        BY <1>1, <1>2, <1>3, <1>4, <2>1, <3>1, GuidedBack
      <3> QED BY <3>2, <3>3, <3>4
    <2> QED BY <1>1, <2>2, <2>3, <2>4 DEF Inv, ScopeInv, Fields
  <1>5. CASE Disturbed
    <2>1. /\ star' \in Points /\ faults' \in Nat /\ faults' # 0 /\ mount' = mount
      <3>1. /\ faults' = faults + 1 /\ mount' = mount
            /\ star' \in {star, CASE cal.move.direction = "west" -> [star EXCEPT !.ra = @ - 1]
                          [] cal.move.direction = "east" -> [star EXCEPT !.ra = @ + 1]
                          [] cal.move.direction = "north" -> [star EXCEPT !.dec = @ - 1]
                          [] cal.move.direction = "south" -> [star EXCEPT !.dec = @ + 1]}
        BY <1>5 DEF Disturbed
      <3>2. cal.move.direction \in {"west", "east", "north", "south"}
        BY <1>1, <1>2 DEF Inv, ScopeInv, PulseMatches, Direction, States
      <3>3. /\ [star EXCEPT !.ra = @ - 1] \in Points /\ [star EXCEPT !.ra = @ + 1] \in Points
            /\ [star EXCEPT !.dec = @ - 1] \in Points /\ [star EXCEPT !.dec = @ + 1] \in Points
        BY <1>2 DEF Points
      <3> QED BY <1>2, <3>1, <3>2, <3>3
    <2>2. Typed(cal)'
      BY <1>1, <2>1 DEF Inv, ScopeInv, Typed, Fields
    <2>3. PulseMatches(cal)'
      BY <1>1, <2>1 DEF Inv, ScopeInv, PulseMatches, Allowed, Fields
    <2>4. Tracked(cal)'
      BY <2>1 DEF Tracked
    <2> QED BY <1>1, <2>2, <2>3, <2>4 DEF Inv, ScopeInv, Fields
  <1> QED BY <1>4, <1>5 DEF MoveAxis

LEMMA InvInductive == ASSUME CalibrationAssumption, Inv, [Next]_vars PROVE Inv'
  <1>1. CASE NewImage
    BY <1>1, NewImageKeeps
  <1>2. CASE MoveAxis
    BY <1>2, MoveAxisKeeps
  <1>3. CASE UNCHANGED <<cal, guider, fast, mount, star, faults>>
    <2>1. Typed(cal)' /\ PulseMatches(cal)' /\ Tracked(cal)'
      BY <1>3 DEF Inv, ScopeInv, Typed, PulseMatches, Allowed, Tracked, RaTracked,
           DecTracked, BackTracked, Ahead
    <2> QED BY <1>3, <2>1 DEF Inv, ScopeInv, Rec
  <1> QED BY <1>1, <1>2, <1>3 DEF Next, SetDecGuideMode, vars

-------------------------------------------------------------------------------
(* The theorems.                                                           *)

\* The invariant: pulses are those of the state, and while none fails RA and Dec are
\* where the pulses that were asked for take them.
THEOREM InvHolds == Spec => [](Rec(cal) /\ ScopeInv)
  <1>1. Init => Inv
    BY CalibrationAssumption, InitInv
  <1>2. Inv /\ [Next]_vars => Inv'
    BY CalibrationAssumption, InvInductive
  <1> QED BY <1>1, <1>2, PTL DEF Spec, Inv

\* Unless a pulse fails the rates are those of the mount, for any speeds, any play and
\* any length of the pulses: the moves that take up the play are never measured.
THEOREM RatesExactHolds == Spec => []RatesExact
  <1>1. Rec(cal) /\ ScopeInv => RatesExact
    BY DEF ScopeInv, Tracked, RaTracked, DecTracked, RatesExact
  <1> QED BY <1>1, InvHolds, PTL

\* No pulse of the way back is longer than the user allows or, unless a pulse fails,
\* moves the star farther than it may go.
THEOREM RetraceSafeHolds == Spec => []RetraceSafe
  <1>1. ASSUME Rec(cal), ScopeInv PROVE RetraceSafe
    <2> DEFINE east == cal.move.direction = "east"
               speed == IF east THEN RaSpeed ELSE DecSpeed
               max == IF east THEN MaxRa ELSE MaxDec
    <2> SUFFICES ASSUME cal.move.direction \in {"east", "south"}
                 PROVE  /\ cal.move.duration <= Greater(CalDuration, max)
                        /\ faults = 0 => cal.move.duration * speed
                                            <= Greater(CalDuration * speed, MaxMove)
      BY DEF RetraceSafe
    <2>1. /\ CalDuration \in Nat /\ speed \in Nat /\ max \in Nat /\ MaxMove \in Nat
      BY CalibrationAssumption DEF CalibrationAssumption
    <2>2. cal.move # NoMove
      BY DEF NoMove
    <2>3. /\ cal.move.direction = Direction(cal.state) /\ cal.move.duration \in Nat
          /\ cal.state \in States \ {"COMPLETE", "CLEARED"} /\ cal.pulse \in Nat
          /\ cal.state \in {"GO_EAST", "GO_SOUTH"} => cal.move.duration <= cal.pulse
          /\ cal.state = "NUDGE_SOUTH" => cal.move.duration <= CalDuration
          /\ cal.state = "GO_EAST" => Allowed(cal.pulse, RaSpeed, MaxRa)
          /\ cal.state = "GO_SOUTH" => Allowed(cal.pulse, DecSpeed, MaxDec)
      BY <1>1, <2>2 DEF ScopeInv, PulseMatches, Typed
    <2>4. /\ cal.state \in {"GO_EAST", "GO_SOUTH", "NUDGE_SOUTH"}
          /\ cal.state = "GO_EAST" <=> east
      BY <2>3 DEF Direction, States
    <2> DEFINE longest == IF cal.state = "NUDGE_SOUTH" THEN CalDuration ELSE cal.pulse
    <2>5. Allowed(longest, speed, max)
      <3>1. CASE cal.state = "NUDGE_SOUTH"
        <4>1. CalDuration * speed \in Nat
          BY <2>1
        <4> QED BY <2>1, <3>1, <4>1 DEF Allowed, Greater
      <3>2. CASE cal.state = "GO_EAST"
        BY <2>3, <2>4, <3>2
      <3>3. CASE cal.state = "GO_SOUTH"
        BY <2>3, <2>4, <3>3
      <3> QED BY <2>4, <3>1, <3>2, <3>3
    <2>6. /\ longest \in Nat /\ cal.move.duration <= longest
      BY <2>1, <2>3, <2>4
    <2> HIDE DEF longest, speed, max
    <2>7. /\ cal.move.duration * speed <= longest * speed
          /\ cal.move.duration * speed \in Nat /\ longest * speed \in Nat
          /\ CalDuration * speed \in Nat
      BY <2>1, <2>3, <2>6, ProductMonotone
    <2>8. cal.move.duration <= Greater(CalDuration, max)
      BY <2>1, <2>3, <2>5, <2>6 DEF Allowed, Greater
    <2>9. faults = 0 => longest * speed <= Greater(CalDuration * speed, MaxMove)
      BY <2>5 DEF Allowed
    <2>10. Greater(CalDuration * speed, MaxMove) \in Nat
      BY <2>1, <2>7 DEF Greater
    <2> DEFINE far == cal.move.duration * speed
               limit == longest * speed
               most == Greater(CalDuration * speed, MaxMove)
    <2>11. far \in Nat /\ limit \in Nat /\ most \in Nat /\ far <= limit
      BY <2>7, <2>10
    <2>12. faults = 0 => limit <= most
      BY <2>9
    <2> HIDE DEF far, limit, most
    <2>13. faults = 0 => far <= most
      BY <2>11, <2>12
    <2> QED BY <2>8, <2>13 DEF far, most, speed, max
  <1> QED BY <1>1, InvHolds, PTL

\* Unless a pulse fails the star is back when the calibration has succeeded, for any
\* speeds and any play: RA to a pixel, Dec not past its beginning and no more than
\* the play of the gear away from where the way that was measured began.
THEOREM EndsNearStartHolds == Spec => []EndsNearStart
  <1>1. Rec(cal) /\ ScopeInv => EndsNearStart
    <2> SUFFICES ASSUME Rec(cal), ScopeInv, faults = 0, guider = "calibrated"
                 PROVE  Returned
      BY DEF EndsNearStart
    <2>1. cal.state = "COMPLETE" /\ RaTracked(cal) /\ BackTracked(cal)
      BY DEF ScopeInv, Tracked
    <2>2. cal.initial.ra = 0 /\ cal.initial.dec = 0
      BY DEF ScopeInv, Typed, Origin, Point
    <2> QED BY <2>1, <2>2 DEF Returned, RaTracked, BackTracked, Abs
  <1> QED BY <1>1, InvHolds, PTL
===============================================================================
