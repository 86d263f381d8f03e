--------------------------- MODULE ScopeCalibration ---------------------------
(***************************************************************************)
(* The calibration of a scope: each image runs UpdateCalibrationState,     *)
(* which asks for one pulse and looks at where the star has gone.  The     *)
(* mount moves the star at a fixed speed on either axis, but the gear of   *)
(* Dec has play that a reversal takes up first, and a pulse may fail.      *)
(*                                                                         *)
(* The axes of the mount are those of the camera, distances are whole      *)
(* pixels, and a rate is kept as the distance and the time it was measured *)
(* over, so that the comparisons of the code are exact.                    *)
(***************************************************************************)
EXTENDS Integers

CONSTANTS RaSpeed, DecSpeed,        \* of the mount, in pixels per unit of time
          Plays,                    \* of the gear, in units of time
          CalDuration, CalDistance, \* m_calibrationDuration, GetCalibrationDistance
          MaxRa, MaxDec,            \* m_maxRaDuration, m_maxDecDuration
          MaxMove,                  \* GetMaxMovePixels
          MaxSteps,                 \* MAX_CALIBRATION_STEPS
          MaxClearing,              \* m_blMaxClearingPulses
          MaxFaults                 \* how many pulses fail: a bound of the model

ASSUME CalibrationAssumption ==
    /\ {RaSpeed, DecSpeed, CalDuration, CalDistance, MaxMove, MaxClearing}
          \subseteq Nat \ {0}
    /\ {MaxRa, MaxDec, MaxSteps, MaxFaults} \subseteq Nat
    /\ Plays \subseteq Nat

MAX_NUDGES == 3
NUDGE_TOLERANCE == 2
BL_BACKLASH_MIN_COUNT == 3
BL_MIN_CLEARING_DISTANCE == 3

VARIABLES cal,      \* the fields of Scope that a calibration uses
          guider,   \* "calibrating", "calibrated" or "failed"
          mode,     \* m_decGuideMode
          fast,     \* IsFastRecenterEnabled
          mount,    \* the mount: its gear, the axis that does not move, and
                    \* whether it tells its guide rates
          star,     \* where the star is
          faults    \* how many pulses have failed

vars == <<cal, guider, mode, fast, mount, star, faults>>

Point(ra, dec) == [ra |-> ra, dec |-> dec]
Origin == Point(0, 0)

Smaller(a, b) == IF a < b THEN a ELSE b
Greater(a, b) == IF a > b THEN a ELSE b
Abs(i) == IF i < 0 THEN -i ELSE i

\* Distance, of two points that lie on one axis, and its square for any.
Dist(p, q) == Abs(p.ra - q.ra) + Abs(p.dec - q.dec)
Dist2(p, q) == (p.ra - q.ra) * (p.ra - q.ra) + (p.dec - q.dec) * (p.dec - q.dec)

\* CALIBRATION_RATE_UNCALIBRATED
NoRate == [dist |-> 1, time |-> 0]
NoMove == [direction |-> "none", duration |-> 0]

States == {"GO_WEST", "GO_EAST", "CLEAR_BACKLASH", "GO_NORTH", "GO_SOUTH",
           "NUDGE_SOUTH", "COMPLETE", "CLEARED"}

\* BeginCalibration, at the lock position; the star may have moved a little when
\* the first image comes.
Init ==
    /\ cal = [state |-> "GO_WEST", steps |-> 0, initial |-> Origin, started |-> FALSE,
              start |-> Origin, marker |-> Origin, southStart |-> Origin,
              southAmt |-> 0, remaining |-> 0, pulse |-> 0, lastCum |-> 0,
              accepted |-> 0, blMoved |-> 0, xRate |-> NoRate, yRate |-> NoRate,
              calibrated |-> FALSE, move |-> NoMove]
    /\ guider = "calibrating" /\ faults = 0
    /\ mode \in {"none", "auto"} /\ fast \in BOOLEAN
    /\ star \in {Origin, Point(1, 0), Point(0, 1)}
    /\ \E play \in Plays, told \in BOOLEAN, dead \in {"none", "ra", "dec"} :
          \E gap \in {0, play \div 2, play} :
             mount = [play |-> play, gap |-> gap, told |-> told, dead |-> dead]

-------------------------------------------------------------------------------
(* What the states of the calibration have in common.                      *)

Schedule(c, direction, duration) ==
    [c EXCEPT !.move = [direction |-> direction, duration |-> duration]]

\* The calibration fails: the exception's handler clears it.
Fail(c) == [c EXCEPT !.state = "CLEARED", !.calibrated = FALSE]

\* Another pulse of a measurement, unless there were too many.
AnotherForever(c, direction) ==
    Schedule([c EXCEPT !.steps = Smaller(@ + 1, MaxSteps + 1)], direction, CalDuration)
Another(c, direction) ==
    IF c.steps > MaxSteps THEN Fail(c)
    ELSE Schedule([c EXCEPT !.steps = @ + 1], direction, CalDuration)

\* The last pulse back is not shortened to what remains.
RetraceWhole(c, direction) ==
    Schedule([c EXCEPT !.remaining = @ - Smaller(c.pulse, @), !.steps = @ - 1],
             direction, c.pulse)

\* Back along the way that was measured, by the pulses chosen for it.
Retrace(c, direction) ==
    LET duration == Smaller(c.pulse, c.remaining)
    IN Schedule([c EXCEPT !.remaining = @ - duration, !.steps = @ - 1],
                direction, duration)

\* The length of these pulses: the longest that does not lose the star, limit, or
\* exceed the user's longest pulse, if the user wants it fast.
RetraceLimited(limit, max) == IF fast THEN Greater(CalDuration, limit) ELSE CalDuration
RetracePulse(limit, max) ==
    IF fast THEN Greater(CalDuration, Smaller(limit, max)) ELSE CalDuration

DivRoundUp(a, b) == (a + b - 1) \div b

-------------------------------------------------------------------------------
(* UpdateCalibrationState: one operator for a state, which falls through   *)
(* into the next one by calling it.                                        *)

\* SetCalibration
Complete(c) == [c EXCEPT !.state = "COMPLETE", !.calibrated = TRUE]

\* The way from p to where the calibration began goes against the way north to
\* within 40 degrees: 0.59 is the square of their cosine.
Southward(c, p) ==
    LET a == Point(c.initial.ra - p.ra, c.initial.dec - p.dec)
        b == Point(c.southStart.ra - c.initial.ra, c.southStart.dec - c.initial.dec)
        dot == a.ra * b.ra + a.dec * b.dec
    IN dot < 0 /\ 100 * dot * dot > 59 * Dist2(a, Origin) * Dist2(b, Origin)

\* nudge_amt < dist_crit + m_blDistanceMoved, of which only squares are known
InReach(amount2, moved2) ==
    LET rest == amount2 - CalDistance * CalDistance - moved2
    IN rest < 0 \/ rest * rest < 4 * CalDistance * CalDistance * moved2

\* Of the nudges that the constant counts, it allows one more.
FewerNudges(c) == c.steps < MAX_NUDGES
MoreNudges(c) == c.steps <= MAX_NUDGES

NudgeSouth(c, p) ==
    LET north == p.dec - c.initial.dec
        amount == Smaller(Abs(north), MaxMove)
        pulse == Smaller((amount * c.yRate.time) \div c.yRate.dist, CalDuration)
    IN IF /\ Southward(c, p)
          /\ MoreNudges(c)
          /\ Dist2(p, c.initial) > NUDGE_TOLERANCE * NUDGE_TOLERANCE
          /\ InReach(Dist2(p, c.initial), c.blMoved)
          /\ north * c.southAmt > 0
       THEN Schedule([c EXCEPT !.steps = @ + 1], "south", pulse)
       ELSE Complete(c)

GoSouth(c, p) ==
    IF c.remaining > 0 THEN Retrace(c, "south")
    ELSE NudgeSouth([c EXCEPT !.state = "NUDGE_SOUTH", !.steps = 0,
                              !.southAmt = c.southStart.dec - p.dec], p)

GoNorth(c, p) ==
    LET dist == Dist(c.start, p)
        time == c.steps * CalDuration
        pulse == RetracePulse((4 * MaxMove * time) \div (5 * dist), MaxDec)
    IN IF dist < CalDistance THEN Another(c, "north")
       ELSE GoSouth([c EXCEPT !.state = "GO_SOUTH", !.southStart = p,
                              !.yRate = [dist |-> dist, time |-> time],
                              !.remaining = time, !.pulse = pulse,
                              !.steps = DivRoundUp(time, pulse)], p)

\* The last move was as long as a move of a mount without play, or nearly: 0.6 of
\* what the rate of RA, and the mount's rates if it tells them, let expect.
Expected(c, delta) ==
    LET ra == IF mount.told THEN RaSpeed ELSE 1
        dec == IF mount.told THEN DecSpeed ELSE 1
    IN 5 * delta * c.xRate.time * ra >= 3 * c.xRate.dist * CalDuration * dec

\* m_blAcceptedMoves: a reversal starts the count again.
AcceptedSmall(c, delta, cum) == c.accepted + 1
Accepted(c, delta, cum) ==
    CASE Expected(c, delta) /\ (c.accepted = 0 \/ cum > c.lastCum) -> c.accepted + 1
      [] ~Expected(c, delta) /\ cum >= c.lastCum -> c.accepted
      [] OTHER -> 0

ClearBacklash(c, p) ==
    LET cum == Dist(c.start, p)
        t == [c EXCEPT !.accepted = Accepted(c, Dist(c.marker, p), cum)]
        north == [t EXCEPT !.state = "GO_NORTH",
                           !.blMoved = Dist2(c.marker, c.initial)]
    IN CASE c.steps = 0 ->
              Schedule([c EXCEPT !.steps = 1], "north", CalDuration)
         [] c.steps > 0 /\ t.accepted >= BL_BACKLASH_MIN_COUNT ->
              GoNorth([north EXCEPT !.steps = 1, !.start = c.marker], p)
         [] c.steps > 0 /\ t.accepted < BL_BACKLASH_MIN_COUNT
               /\ c.steps < MaxClearing /\ cum < CalDistance ->
              Schedule([t EXCEPT !.steps = @ + 1, !.marker = p, !.lastCum = cum],
                       "north", CalDuration)
         [] OTHER ->
              IF cum >= BL_MIN_CLEARING_DISTANCE
              THEN GoNorth([north EXCEPT !.steps = 0, !.start = p], p)
              ELSE Fail(t)

\* Without Dec guiding there is nothing more to measure; COMPLETE waits for the
\* next image.
GoEast(c, p) ==
    IF c.remaining > 0 THEN Retrace(c, "east")
    ELSE IF mode = "none"
    THEN [c EXCEPT !.state = "COMPLETE", !.steps = 0, !.start = p, !.yRate = NoRate]
    ELSE ClearBacklash([c EXCEPT !.state = "CLEAR_BACKLASH", !.steps = 0, !.start = p,
                                 !.marker = p, !.lastCum = 0, !.accepted = 0], p)

GoWest(c, p) ==
    LET dist == Dist(c.start, p)
        time == c.steps * CalDuration
        pulse == RetracePulse((MaxMove * time) \div dist, MaxRa)
    IN IF dist < CalDistance THEN Another(c, "west")
       ELSE GoEast([c EXCEPT !.state = "GO_EAST",
                             !.xRate = [dist |-> dist, time |-> time],
                             !.remaining = time, !.pulse = pulse,
                             !.steps = DivRoundUp(time, pulse)], p)

\* The first image sets the starting location.
UpdateCalibrationState(old, p) ==
    LET c == IF old.started THEN old
             ELSE [old EXCEPT !.started = TRUE, !.start = p]
    IN CASE c.state = "GO_WEST" -> GoWest(c, p)
         [] c.state = "GO_EAST" -> GoEast(c, p)
         [] c.state = "CLEAR_BACKLASH" -> ClearBacklash(c, p)
         [] c.state = "GO_NORTH" -> GoNorth(c, p)
         [] c.state = "GO_SOUTH" -> GoSouth(c, p)
         [] c.state = "NUDGE_SOUTH" -> NudgeSouth(c, p)
         [] c.state = "COMPLETE" -> Complete(c)

IsCalibrated(c) == c.calibrated /\ (mode = "none" \/ c.yRate # NoRate)

-------------------------------------------------------------------------------
(* The steps.                                                              *)

\* The guider, while it calibrates this mount; the pulse before is done.
NewImage ==
    /\ guider = "calibrating" /\ cal.move = NoMove
    /\ cal' = IF IsCalibrated(cal) THEN cal ELSE UpdateCalibrationState(cal, star)
    /\ guider' = CASE cal'.state = "CLEARED" -> "failed"
                   [] IsCalibrated(cal') -> "calibrated"
                   [] OTHER -> "calibrating"
    /\ UNCHANGED <<mode, fast, mount, star, faults>>

\* Guide, on the worker: the gear's play is taken up before Dec moves.
Guided ==
    LET axis == IF cal.move.direction \in {"west", "east"} THEN "ra" ELSE "dec"
        d == IF axis = mount.dead THEN 0 ELSE cal.move.duration
        free == CASE cal.move.direction = "north" -> Smaller(d, mount.gap)
                  [] cal.move.direction = "south" -> Smaller(d, mount.play - mount.gap)
                  [] OTHER -> 0
    IN /\ star' = CASE cal.move.direction = "west" -> [star EXCEPT !.ra = @ + d * RaSpeed]
                    [] cal.move.direction = "east" -> [star EXCEPT !.ra = @ - d * RaSpeed]
                    [] cal.move.direction = "north" ->
                          [star EXCEPT !.dec = @ + (d - free) * DecSpeed]
                    [] cal.move.direction = "south" ->
                          [star EXCEPT !.dec = @ - (d - free) * DecSpeed]
       /\ mount' = CASE cal.move.direction = "north" -> [mount EXCEPT !.gap = @ - free]
                     [] cal.move.direction = "south" -> [mount EXCEPT !.gap = @ + free]
                     [] OTHER -> mount
       /\ UNCHANGED faults

\* The pulse does nothing, or the wind moves the star on its axis the other way.
Disturbed ==
    /\ faults < MaxFaults /\ faults' = faults + 1
    /\ star' \in {star, CASE cal.move.direction = "west" -> [star EXCEPT !.ra = @ - 1]
                          [] cal.move.direction = "east" -> [star EXCEPT !.ra = @ + 1]
                          [] cal.move.direction = "north" -> [star EXCEPT !.dec = @ - 1]
                          [] cal.move.direction = "south" -> [star EXCEPT !.dec = @ + 1]}
    /\ UNCHANGED mount

MoveAxis ==
    /\ cal.move # NoMove
    /\ Guided \/ Disturbed
    /\ cal' = [cal EXCEPT !.move = NoMove]
    /\ UNCHANGED <<guider, mode, fast>>

\* The set_dec_guide_mode command.
SetDecGuideMode ==
    /\ guider = "calibrating"
    /\ mode' = IF mode = "none" THEN "auto" ELSE "none"
    /\ UNCHANGED <<cal, guider, fast, mount, star, faults>>

Next == NewImage \/ MoveAxis \/ SetDecGuideMode
Spec == Init /\ [][Next]_vars

\* Images come while the guider calibrates, and the worker executes the moves.
FairSpec == Spec /\ WF_vars(NewImage) /\ WF_vars(MoveAxis)

-------------------------------------------------------------------------------
(* Properties.                                                             *)

\* Complete without Dec while Dec guiding is on: the calibration neither ends nor goes
\* on from here, unless the mode changes again.
Nowhere == /\ cal.state = "COMPLETE" /\ cal.move = NoMove /\ cal.yRate = NoRate
           /\ mode # "none"

\* Unless a pulse fails, the rates are those of the mount: neither the play of the
\* gear nor the moves that take it up are measured.
RatesExact ==
    faults = 0 =>
       /\ cal.xRate # NoRate => cal.xRate.dist = RaSpeed * cal.xRate.time
       /\ cal.yRate # NoRate => cal.yRate.dist = DecSpeed * cal.yRate.time

\* Unless a pulse fails, no pulse that goes back moves the star farther than it may
\* move between two images, or than the calibration pulses do, and none is longer
\* than the user's longest pulse or these.
RetraceSafe ==
    LET speed == IF cal.move.direction = "east" THEN RaSpeed ELSE DecSpeed
        max == IF cal.move.direction = "east" THEN MaxRa ELSE MaxDec
    IN cal.move.direction \in {"east", "south"} =>
          /\ cal.move.duration <= Greater(CalDuration, max)
          /\ faults = 0 => cal.move.duration * speed
                              <= Greater(CalDuration * speed, MaxMove)

\* RA is back where it was, to a pixel.  Dec, if it was measured, has not come back past
\* its beginning, and no more than the play of the gear keeps it from where the way
\* that was measured began.
Returned ==
    /\ Abs(star.ra - cal.initial.ra) <= 1
    /\ cal.yRate # NoRate =>
          /\ cal.initial.dec <= star.dec
          /\ star.dec <= cal.start.dec + DecSpeed * mount.play

\* Unless a pulse fails, the star is back when the calibration has succeeded.
EndsNearStart == faults = 0 /\ guider = "calibrated" => Returned

\* Then a gear with no more play than one pulse leaves Dec within the tolerance of
\* its beginning: the nudges are enough for what the way back has left.
DecReturns ==
    faults = 0 /\ guider = "calibrated" /\ cal.yRate # NoRate /\ mount.play <= CalDuration
       => Abs(star.dec - cal.initial.dec) <= NUDGE_TOLERANCE

\* A calibration ends, whatever the star does, unless Dec guiding is enabled in
\* the one image in which the calibration is complete without it: there the code waits
\* forever, and Nowhere is that state only.
CalibrationEnds ==
    guider = "calibrating" ~> guider # "calibrating" \/ Nowhere
-------------------------------------------------------------------------------
(* Why RatesExact, RetraceSafe and EndsNearStart hold, as an inductive     *)
(* invariant of what the calibration knows, c.                             *)

\* The types of what it computes with.
Points == [ra : Int, dec : Int]
Rates == [dist : Nat \ {0}, time : Nat]
Mounts == [play : Nat, gap : Nat, told : BOOLEAN, dead : {"none", "ra", "dec"}]
Typed(c) ==
    /\ c.state \in States /\ (c.state # "GO_WEST" => c.started)
    /\ c.initial = Origin /\ {c.start, c.marker} \subseteq Points
    /\ c.steps \in Int
    /\ c.state \in {"GO_WEST", "CLEAR_BACKLASH", "GO_NORTH"} => c.steps \in Nat
    /\ {c.remaining, c.pulse, c.accepted} \subseteq Nat
    /\ {c.xRate, c.yRate} \subseteq Rates
    /\ star \in Points /\ faults \in Nat
    /\ mount \in Mounts /\ mount.gap <= mount.play

\* The pulse that is asked for is one of the state's; on the way back it is no longer
\* than the user allows, and moves the star no farther than it may go.
Direction(state) == CASE state = "GO_WEST" -> "west"
                      [] state = "GO_EAST" -> "east"
                      [] state \in {"CLEAR_BACKLASH", "GO_NORTH"} -> "north"
                      [] state \in {"GO_SOUTH", "NUDGE_SOUTH"} -> "south"
Allowed(pulse, speed, max) ==
    /\ pulse <= Greater(CalDuration, max)
    /\ faults = 0 => pulse * speed <= Greater(CalDuration * speed, MaxMove)
PulseMatches(c) ==
    /\ c.state = "GO_EAST" => Allowed(c.pulse, RaSpeed, MaxRa)
    /\ c.state = "GO_SOUTH" => Allowed(c.pulse, DecSpeed, MaxDec)
    /\ c.move # NoMove =>
          /\ c.state \notin {"COMPLETE", "CLEARED"}
          /\ c.move.direction = Direction(c.state) /\ c.move.duration \in Nat
          /\ c.state \in {"GO_WEST", "CLEAR_BACKLASH", "GO_NORTH"}
                => c.move.duration = CalDuration
          /\ c.state \in {"GO_EAST", "GO_SOUTH"} => c.move.duration <= c.pulse
          /\ c.state = "NUDGE_SOUTH" => c.move.duration <= CalDuration

\* While no pulse fails, RA goes as far as the pulses west take it, and comes back by
\* as much.
Ahead(c) == IF c.move = NoMove THEN 0 ELSE c.move.duration
RaTracked(c) ==
    /\ c.state = "GO_WEST" /\ ~c.started =>
          c.steps = 0 /\ c.move = NoMove /\ star.ra \in 0..1
    /\ c.state \in {"GO_WEST", "GO_EAST"} /\ c.started => c.start.ra \in 0..1
    /\ c.state = "GO_WEST" =>
          /\ c.xRate = NoRate
          /\ c.started =>
                /\ star.dec = c.start.dec
                /\ star.ra = IF mount.dead = "ra" THEN c.start.ra
                             ELSE c.start.ra + RaSpeed * (c.steps * CalDuration - Ahead(c))
    /\ c.state = "GO_EAST" => star.ra = c.start.ra + RaSpeed * (c.remaining + Ahead(c))
    /\ c.state \notin {"GO_WEST", "GO_EAST", "CLEARED"} => star.ra \in 0..1
    /\ c.state \notin {"GO_WEST", "CLEARED"} => mount.dead # "ra"
    /\ c.xRate # NoRate => c.xRate.dist = RaSpeed * c.xRate.time

\* Dec moves once the play of the gear is taken up, and an accepted move is one that
\* moved it.
DecTracked(c) ==
    /\ c.state \in {"GO_WEST", "GO_EAST", "CLEAR_BACKLASH", "GO_NORTH"} => c.yRate = NoRate
    /\ c.state \in {"CLEAR_BACKLASH", "GO_NORTH"} => star.ra = c.start.ra
    /\ c.state = "CLEAR_BACKLASH" =>
          /\ c.steps = 0 => c.move = NoMove /\ c.marker = star
          /\ c.marker.ra = c.start.ra
          /\ c.start.dec <= c.marker.dec /\ c.marker.dec <= star.dec
          /\ c.accepted > 0 => c.start.dec < c.marker.dec
          /\ c.start.dec < star.dec => mount.gap = 0 /\ mount.dead # "dec"
          /\ c.move # NoMove => star.dec = c.marker.dec
          /\ c.move = NoMove /\ c.start.dec < c.marker.dec
                => star.dec = c.marker.dec + DecSpeed * CalDuration
    /\ c.state = "GO_NORTH" =>
          /\ mount.gap = 0 /\ mount.dead # "dec"
          /\ star.dec = c.start.dec + DecSpeed * (c.steps * CalDuration - Ahead(c))
    /\ c.yRate # NoRate => c.yRate.dist = DecSpeed * c.yRate.time

\* The way back brings the gear to where the measured way began, and Dec with it but for
\* the play that is taken up; a nudge is never longer than what is left.
BackTracked(c) ==
    /\ 0 <= star.dec
    /\ c.state \in {"CLEAR_BACKLASH", "GO_NORTH", "GO_SOUTH"} => 0 <= c.start.dec
    /\ c.state = "GO_SOUTH" =>
          star.dec = c.start.dec + DecSpeed * (c.remaining + Ahead(c) + mount.gap)
    /\ c.state = "NUDGE_SOUTH" => DecSpeed * Ahead(c) <= star.dec
    /\ c.state \in {"GO_SOUTH", "NUDGE_SOUTH"} =>
          mount.dead # "dec" /\ c.yRate # NoRate
    /\ c.state \in {"NUDGE_SOUTH", "COMPLETE"} /\ c.yRate # NoRate =>
          star.dec <= c.start.dec + DecSpeed * mount.play

Tracked(c) == faults = 0 => RaTracked(c) /\ DecTracked(c) /\ BackTracked(c)

ScopeInv ==
    /\ Typed(cal) /\ PulseMatches(cal) /\ Tracked(cal)
    /\ cal.calibrated => cal.state = "COMPLETE"
    /\ guider = "calibrated" => cal.calibrated
    /\ guider = "calibrating" => cal.state # "CLEARED"

===============================================================================
