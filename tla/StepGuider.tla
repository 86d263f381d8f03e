------------------------------ MODULE StepGuider ------------------------------
(***************************************************************************)
(* The adaptive optics unit (AO) as the primary mount: where its mirror is *)
(* thought to be and where it is, the moves the primary worker makes, the  *)
(* centring the GUI thread makes itself when guiding stops, and the state  *)
(* machine of its calibration.                                             *)
(*                                                                         *)
(* Two threads call MoveAxis and nothing orders them: m_xOffset and        *)
(* m_yOffset are read, checked, stepped from and added to in steps that    *)
(* interleave.  The star follows the mirror, so an image shows where the   *)
(* mirror was when it was exposed.                                         *)
(***************************************************************************)
EXTENDS Integers, Sequences, FiniteSets

CONSTANTS Travels,       \* the values the AO's travel (MaxPosition) may be set to
          CalSteps,      \* m_calibrationStepsPerIteration
          Samples,       \* m_samplesToAverage
          MaxErrors,     \* MAX_CALIBRATION_MOVE_ERRORS
          Amounts,       \* the step counts of guide corrections and pulses
          MaxManual,     \* bound: manual moves in the worker's queue
          Interfere      \* bound: whether what comes after an interference is
                         \* followed, or only the next connection

ASSUME StepGuiderAssumption ==
    /\ Travels \subseteq Nat \ {0} /\ Travels # {}
    /\ CalSteps \in Nat \ {0} /\ Samples \in Nat \ {0}
    /\ MaxErrors \in Nat /\ MaxManual \in Nat
    /\ Amounts \subseteq Nat /\ Interfere \in BOOLEAN

VARIABLES travel,       \* MaxPosition, the same in every direction
          offset,       \* m_xOffset and m_yOffset
          mirror,       \* where the mirror really is
          call,         \* each thread's call of MoveAxis
          queue,        \* the moves the worker has to make
          serving,      \* the one it is making: <<>> or one item
          reports,      \* its results of counted moves, still to be handled
          centring,     \* how far the GUI thread is with MoveToCenter
          image,        \* an image not handled yet, and whether the mirror is
                        \* still where it was then
          guider,       \* whether the guider is calibrating or guiding
          cal,          \* the calibration's state and what it has measured
          errors,       \* m_errorCount, no further than calibration looks
          failed,       \* the assertions that have failed
          undisturbed   \* nobody has come between a calibration or centring

vars == <<travel, offset, mirror, call, queue, serving, reports, centring,
          image, guider, cal, errors, failed, undisturbed>>

Axes == {"x", "y"}
Threads == {"gui", "worker"}
Directions == {"UP", "DOWN", "LEFT", "RIGHT"}
Axis(d) == IF d \in {"LEFT", "RIGHT"} THEN "x" ELSE "y"
Sign(d) == IF d \in {"UP", "RIGHT"} THEN 1 ELSE -1
Origin == [a \in Axes |-> 0]
Plus(p, q) == [a \in Axes |-> p[a] + q[a]]
Minus(p, q) == [a \in Axes |-> p[a] - q[a]]
Smaller(m, n) == IF m < n THEN m ELSE n

CurrentPosition(d) == Sign(d) * offset[Axis(d)]
Remaining(d) == travel - 1 - CurrentPosition(d)
WouldHitLimit(d, n) == CurrentPosition(d) + n >= travel

-------------------------------------------------------------------------------
(* State.                                                                  *)

Points == [Axes -> Int]
\* A move of one axis or of two, in a direction and by a number of steps that for
\* a guide step only the worker finds, with the guide algorithms.
Legs == [dirs : SUBSET Directions, steps : SUBSET Nat]
Items == [kind : {"calibration", "guide", "manual"}, legs : Seq(Legs) \ {<<>>}]
AxisMove(kind, d, n) ==
    [kind |-> kind, legs |-> <<[dirs |-> {d}, steps |-> {n}]>>]
OffsetMove ==
    [kind |-> "guide", legs |-> <<[dirs |-> {"LEFT", "RIGHT"}, steps |-> Amounts],
                                  [dirs |-> {"UP", "DOWN"}, steps |-> Amounts]>>]
CalibrationStates ==
    {"CLEARED", "GOTO_LOWER_RIGHT_CORNER", "AVERAGE_STARTING_LOCATION",
     "GO_LEFT", "AVERAGE_CENTER_LOCATION", "GO_UP", "AVERAGE_ENDING_LOCATION",
     "RECENTER", "COMPLETE"}
\* dist is Samples times the distance that was measured, over the number of
\* steps it is divided by.
Rates == [dist : Points, over : Int]

\* asked is what the caller wants moved, steps what MoveAxis makes of it and
\* what it returns as amountMoved at last, seen the offset the addition read.
Calls == [at : {"idle", "check", "step", "load", "store", "done"},
          dir : Directions, asked : Nat, steps : Int, seen : Int,
          result : {"ok", "error", "limit"}]
Idle == [at |-> "idle", dir |-> "UP", asked |-> 0, steps |-> 0, seen |-> 0,
         result |-> "ok"]
MoveAxis(d, n) ==
    [Idle EXCEPT !.at = "check", !.dir = d, !.asked = n, !.steps = n]

NoRate == [dist |-> Origin, over |-> 0]
Cleared == [state |-> "CLEARED", samples |-> 0, sum |-> Origin,
            start |-> Origin, xRate |-> NoRate, yRate |-> NoRate, go |-> {}]

\* A mirror is only moved, or the sum stored, by a positive number of steps.  The
\* directions to go in are only kept within a step.
TypeOK ==
    /\ travel \in Travels
    /\ offset \in Points /\ mirror \in Points
    /\ call \in [Threads -> Calls]
    /\ \A t \in Threads :
          call[t].at \in {"step", "load", "store"} => call[t].steps > 0
    /\ queue \in Seq(Items)
    /\ serving \in Seq(Items) /\ Len(serving) <= 1
    /\ reports \in Seq({"ok", "error", "limit"})
    /\ centring \in {"no", "vertical", "horizontal"}
    /\ image \in {"none", "here", "elsewhere"}
    /\ guider \in {"idle", "calibrating", "guiding"}
    /\ cal \in [state : CalibrationStates, samples : 0..(Samples - 1), sum : Points,
                start : Points, xRate : Rates, yRate : Rates, go : {{}}]
    /\ errors \in 0..(MaxErrors + 1)
    /\ failed \subseteq {"steps remaining", "centred", "calibration state"}
    /\ undisturbed \in BOOLEAN

\* Connected, and centred by the equipment dialog.
Init ==
    /\ travel \in Travels
    /\ offset = Origin /\ mirror = Origin
    /\ call = [t \in Threads |-> Idle]
    /\ queue = <<>> /\ serving = <<>> /\ reports = <<>>
    /\ centring = "no" /\ image = "none" /\ guider = "idle"
    /\ cal = Cleared /\ errors = 0 /\ failed = {} /\ undisturbed = TRUE

-------------------------------------------------------------------------------
(* One call of MoveAxis, on either thread.                                 *)

\* A move of what happens to be left of the travel, and one more, is not cut.
CheckLimitLate(t) ==
    LET c == call[t]
        n == IF c.asked > 0 /\ CurrentPosition(c.dir) + c.asked > travel
             THEN Remaining(c.dir) ELSE c.asked
    IN /\ c.at = "check"
       /\ call' = [call EXCEPT ![t].at = IF n > 0 THEN "step" ELSE "done",
                               ![t].steps = n]
       /\ UNCHANGED <<travel, offset, mirror, queue, serving, reports, centring,
                      image, guider, cal, errors, failed, undisturbed>>

\* Step is called with nothing left to do.
CheckLimitSteps(t) ==
    LET c == call[t]
        n == IF c.asked > 0 /\ WouldHitLimit(c.dir, c.asked)
             THEN Remaining(c.dir) ELSE c.asked
    IN /\ c.at = "check"
       /\ call' = [call EXCEPT ![t].at = "step", ![t].steps = n]
       /\ UNCHANGED <<travel, offset, mirror, queue, serving, reports, centring,
                      image, guider, cal, errors, failed, undisturbed>>

\* The move is cut to what is left of the travel.
CheckLimit(t) ==
    LET c == call[t]
        n == IF c.asked > 0 /\ WouldHitLimit(c.dir, c.asked)
             THEN Remaining(c.dir) ELSE c.asked
    IN /\ c.at = "check"
       /\ call' = [call EXCEPT ![t].at = IF n > 0 THEN "step" ELSE "done",
                               ![t].steps = n]
       /\ UNCHANGED <<travel, offset, mirror, queue, serving, reports, centring,
                      image, guider, cal, errors, failed, undisturbed>>

\* An image that was exposed before shows the star elsewhere.
MirrorTo(p) == /\ mirror' = p
               /\ image' = IF image = "none" \/ p = mirror THEN image
                           ELSE "elsewhere"

\* Step moves the mirror.
StepTaken(t) ==
    LET c == call[t]
    IN /\ c.at = "step"
       /\ MirrorTo([mirror EXCEPT ![Axis(c.dir)] = @ + Sign(c.dir) * c.steps])
       /\ call' = [call EXCEPT ![t].at = "load"]
       /\ UNCHANGED <<travel, offset, queue, serving, reports, centring, guider,
                      cal, errors, failed, undisturbed>>

\* Step fails, and the mirror has not moved.
StepFails(t) ==
    /\ call[t].at = "step"
    /\ call' = [call EXCEPT ![t].at = "done", ![t].steps = 0,
                            ![t].result = "error"]
    /\ UNCHANGED <<travel, offset, mirror, queue, serving, reports, centring,
                   image, guider, cal, errors, failed, undisturbed>>

\* Center brings the mirror back and leaves the position as it was.
LimitReachedNotZeroed(t) ==
    /\ call[t].at = "step"
    /\ call' = [call EXCEPT ![t].at = "done", ![t].steps = 0,
                            ![t].result = "limit"]
    /\ \/ MirrorTo(Origin) /\ UNCHANGED offset
       \/ UNCHANGED <<mirror, image, offset>>
    /\ UNCHANGED <<travel, queue, serving, reports, centring, guider, cal,
                   errors, failed, undisturbed>>

\* STEP_LIMIT_REACHED: the mirror's own end of travel.  Center brings it back and
\* zeroes the position; or it fails too.
StepLimitReached(t) ==
    /\ call[t].at = "step"
    /\ call' = [call EXCEPT ![t].at = "done", ![t].steps = 0,
                            ![t].result = "limit"]
    /\ \/ MirrorTo(Origin) /\ offset' = Origin
       \/ UNCHANGED <<mirror, image, offset>>
    /\ UNCHANGED <<travel, queue, serving, reports, centring, guider, cal,
                   errors, failed, undisturbed>>

\* m_xOffset += ...: the offset is read, and written a moment later.
LoadOffset(t) ==
    /\ call[t].at = "load"
    /\ call' = [call EXCEPT ![t].at = "store",
                            ![t].seen = offset[Axis(call[t].dir)]]
    /\ UNCHANGED <<travel, offset, mirror, queue, serving, reports, centring,
                   image, guider, cal, errors, failed, undisturbed>>

StoreOffset(t) ==
    LET c == call[t]
    IN /\ c.at = "store"
       /\ offset' = [offset EXCEPT ![Axis(c.dir)] =
                                      c.seen + Sign(c.dir) * c.steps]
       /\ call' = [call EXCEPT ![t].at = "done", ![t].seen = 0]
       /\ UNCHANGED <<travel, mirror, queue, serving, reports, centring, image,
                      guider, cal, errors, failed, undisturbed>>

InMoveAxis(t) == \/ CheckLimit(t) \/ StepTaken(t) \/ StepFails(t)
                 \/ StepLimitReached(t) \/ LoadOffset(t) \/ StoreOffset(t)

-------------------------------------------------------------------------------
(* The primary worker.                                                     *)

Start(leg) ==
    \E d \in leg.dirs, n \in leg.steps :
       call' = [call EXCEPT !["worker"] = MoveAxis(d, n)]

TakeMove ==
    /\ serving = <<>> /\ queue # <<>>
    /\ serving' = <<Head(queue)>> /\ queue' = Tail(queue)
    /\ Start(Head(queue).legs[1])
    /\ UNCHANGED <<travel, offset, mirror, reports, centring, image, guider, cal,
                   errors, failed, undisturbed>>

\* Mount::MoveOffset goes on with the other axis, unless the limit was reached.
NextAxis ==
    /\ call["worker"].at = "done"
    /\ Len(serving[1].legs) > 1 /\ call["worker"].result # "limit"
    /\ serving' = <<[serving[1] EXCEPT !.legs = Tail(@)]>>
    /\ Start(serving[1].legs[2])
    /\ UNCHANGED <<travel, offset, mirror, queue, reports, centring, image,
                   guider, cal, errors, failed, undisturbed>>

\* An axis move that was cut short is an error, a guide step is not.  What comes
\* of a manual move changes nothing.
MoveDone ==
    LET c == call["worker"]
        result == IF serving[1].kind # "guide" /\ c.result = "ok"
                     /\ c.steps # c.asked
                  THEN "error" ELSE c.result
    IN /\ c.at = "done"
       /\ Len(serving[1].legs) = 1 \/ c.result = "limit"
       /\ call' = [call EXCEPT !["worker"] = Idle]
       /\ serving' = <<>>
       /\ reports' = IF serving[1].kind = "manual" THEN reports
                     ELSE Append(reports, result)
       /\ UNCHANGED <<travel, offset, mirror, queue, centring, image, guider,
                      cal, errors, failed, undisturbed>>

\* An exposure is taken when no move waits: the star is where the mirror is.
Expose ==
    /\ serving = <<>> /\ queue = <<>> /\ image = "none"
    /\ image' = "here"
    /\ UNCHANGED <<travel, offset, mirror, call, queue, serving, reports,
                   centring, guider, cal, errors, failed, undisturbed>>

-------------------------------------------------------------------------------
(* MoveToCenter, which the GUI thread calls when it is told that guiding   *)
(* has stopped.                                                            *)

GuiFree == centring = "no"

\* One axis after the other; an offset of zero needs no move.
CentreAxis ==
    LET a == IF centring = "vertical" THEN "y" ELSE "x"
        back == IF a = "y" THEN IF offset[a] > 0 THEN "DOWN" ELSE "UP"
                ELSE IF offset[a] > 0 THEN "LEFT" ELSE "RIGHT"
    IN /\ centring # "no" /\ call["gui"].at = "idle"
       /\ call' = [call EXCEPT !["gui"] =
                      MoveAxis(back, IF offset[a] > 0 THEN offset[a]
                                     ELSE -offset[a])]
       /\ UNCHANGED <<travel, offset, mirror, queue, serving, reports, centring,
                      image, guider, cal, errors, failed, undisturbed>>

\* A move that fails does not end it.
CentreRegardless ==
    LET c == call["gui"]
    IN /\ c.at = "done"
       /\ call' = [call EXCEPT !["gui"] = Idle]
       /\ centring' = IF centring = "vertical" THEN "horizontal" ELSE "no"
       /\ failed' = IF centring = "horizontal" /\ offset # Origin
                    THEN failed \cup {"centred"} ELSE failed
       /\ UNCHANGED <<travel, offset, mirror, queue, serving, reports, image,
                      guider, cal, errors, undisturbed>>

\* A move that fails or is cut short ends it; so does the second axis, after
\* which both offsets are asserted to be zero.
CentreMoved ==
    LET c == call["gui"]
        whole == c.steps = c.asked
    IN /\ c.at = "done"
       /\ call' = [call EXCEPT !["gui"] = Idle]
       /\ centring' = IF whole /\ centring = "vertical" THEN "horizontal"
                      ELSE "no"
       /\ failed' = IF whole /\ centring = "horizontal" /\ offset # Origin
                    THEN failed \cup {"centred"} ELSE failed
       /\ UNCHANGED <<travel, offset, mirror, queue, serving, reports, image,
                      guider, cal, errors, undisturbed>>

-------------------------------------------------------------------------------
(* UpdateCalibrationState: into the lower right corner, all the way to the *)
(* left, all the way up and back to the centre.  Each state that has       *)
(* nothing left to do falls through to the next one.  p is where the image *)
(* shows the star; go are the directions to move in.                       *)

Enter(c, state) == [c EXCEPT !.state = state, !.samples = 0, !.sum = Origin]
Sampled(c, p) == [c EXCEPT !.samples = @ + 1, !.sum = Plus(@, p)]
Rate(c) == [dist |-> Minus(c.sum, c.start), over |-> 2 * (travel - 1)]

\* SetCalibration.  What the next calibration sets first is forgotten.
Complete(c) == [Enter(c, "COMPLETE") EXCEPT !.start = Origin]

\* Done as soon as one axis is near its centre.
RecenterOne(c) ==
    LET far == {d \in {"RIGHT", "DOWN"} : -CurrentPosition(d) >= CalSteps}
    IN IF Cardinality(far) < 2 THEN Complete(c)
       ELSE [Enter(c, "RECENTER") EXCEPT !.go = far]

Recenter(c) ==
    LET far == {d \in {"RIGHT", "DOWN"} : -CurrentPosition(d) >= CalSteps}
    IN IF far = {} THEN Complete(c)
       ELSE [Enter(c, "RECENTER") EXCEPT !.go = far]

AverageEndingLocation(c, p) ==
    LET t == Sampled(c, p)
    IN IF t.samples < Samples THEN t
       ELSE Recenter([t EXCEPT !.yRate = Rate(t), !.start = t.sum])

GoUp(c, p) ==
    IF Remaining("UP") > 0 THEN [c EXCEPT !.go = {"UP"}]
    ELSE AverageEndingLocation(Enter(c, "AVERAGE_ENDING_LOCATION"), p)

AverageCenterLocation(c, p) ==
    LET t == Sampled(c, p)
    IN IF t.samples < Samples THEN t
       ELSE GoUp(Enter([t EXCEPT !.xRate = Rate(t), !.start = t.sum], "GO_UP"), p)

GoLeft(c, p) ==
    IF Remaining("LEFT") > 0 THEN [c EXCEPT !.go = {"LEFT"}]
    ELSE AverageCenterLocation(Enter(c, "AVERAGE_CENTER_LOCATION"), p)

AverageStartingLocation(c, p) ==
    LET t == Sampled(c, p)
    IN IF t.samples < Samples THEN t
       ELSE GoLeft(Enter([t EXCEPT !.start = t.sum], "GO_LEFT"), p)

\* In the corner as soon as one axis is at its end.
GotoLowerRightEdge(c, p) ==
    LET far == {d \in {"DOWN", "RIGHT"} : Remaining(d) > 0}
    IN IF Cardinality(far) = 2 THEN [c EXCEPT !.go = far]
       ELSE AverageStartingLocation(Enter(c, "AVERAGE_STARTING_LOCATION"), p)

GotoLowerRightCorner(c, p) ==
    LET far == {d \in {"DOWN", "RIGHT"} : Remaining(d) > 0}
    IN IF far # {} THEN [c EXCEPT !.go = far]
       ELSE AverageStartingLocation(Enter(c, "AVERAGE_STARTING_LOCATION"), p)

CalibrationStep(c, p) ==
    CASE c.state = "GOTO_LOWER_RIGHT_CORNER" -> GotoLowerRightCorner(c, p)
      [] c.state = "AVERAGE_STARTING_LOCATION" -> AverageStartingLocation(c, p)
      [] c.state = "GO_LEFT" -> GoLeft(c, p)
      [] c.state = "AVERAGE_CENTER_LOCATION" -> AverageCenterLocation(c, p)
      [] c.state = "GO_UP" -> GoUp(c, p)
      [] c.state = "AVERAGE_ENDING_LOCATION" -> AverageEndingLocation(c, p)
      [] c.state = "RECENTER" -> Recenter(c)
      [] c.state = "COMPLETE" -> Complete(c)

ScheduleAxisMoves(go) ==
    LET Move(d) == IF d \notin go THEN <<>>
                   ELSE <<AxisMove("calibration", d, Smaller(Remaining(d), CalSteps))>>
    IN Move("UP") \o Move("DOWN") \o Move("RIGHT") \o Move("LEFT")

BeginCalibration == [Cleared EXCEPT !.state = "GOTO_LOWER_RIGHT_CORNER"]

-------------------------------------------------------------------------------
(* The GUI thread.                                                         *)

Counted(item) == item.kind # "manual"
ItemsAhead == {queue[i] : i \in DOMAIN queue}
                \cup {serving[i] : i \in DOMAIN serving}
ManualAhead == \E item \in ItemsAhead : ~Counted(item)
\* m_requestCount > 0, with the results r still to be handled.
Busy(r) == r # <<>> \/ \E item \in ItemsAhead : Counted(item)

\* A pulse that overlaps a calibration or a centring is the user's interference.
Interference == ManualAhead /\ (guider = "calibrating" \/ centring # "no")
Watch == undisturbed' = (undisturbed /\ ~Interference')

\* The rest of a calibration that is not finished is never read again, nor are the
\* errors: both are forgotten, to merge states that do not differ.
GivenUp == IF cal.state = "COMPLETE" THEN cal ELSE Cleared

\* Guider::StartGuiding with a star selected: an AO that is calibrated guides.
\* An image older than the mirror's last move is taken for one of this place.
StartGuiding ==
    /\ GuiFree /\ guider = "idle"
    /\ IF cal.state = "COMPLETE"
       THEN guider' = "guiding" /\ UNCHANGED <<cal, errors>>
       ELSE /\ guider' = "calibrating" /\ cal' = BeginCalibration
            /\ errors' = 0
    /\ UNCHANGED <<travel, offset, mirror, call, queue, serving, reports,
                   centring, image, failed>>
    /\ undisturbed' = (/\ undisturbed /\ ~Interference'
                       /\ image # "elsewhere")

\* Guider::StopGuiding: NotifyGuidingStopped centres the AO, at once or with the
\* last outstanding move.
StopGuiding ==
    /\ GuiFree /\ guider # "idle"
    /\ guider' = "idle" /\ cal' = GivenUp /\ errors' = 0
    /\ centring' = IF Busy(reports) THEN "no" ELSE "vertical"
    /\ UNCHANGED <<travel, offset, mirror, call, queue, serving, reports, image,
                   failed>>
    /\ Watch

\* clear_calibration of the event server, at any time.
ClearCalibration ==
    /\ GuiFree
    /\ cal' = Cleared
    /\ UNCHANGED <<travel, offset, mirror, call, queue, serving, reports,
                   centring, image, guider, errors, failed>>
    /\ Watch

\* guide_pulse of the event server; the manual guide window moves by one step and
\* asks nothing.
ManualMove ==
    /\ GuiFree
    /\ Cardinality({i \in DOMAIN queue : ~Counted(queue[i])}) < MaxManual
    /\ \A i \in DOMAIN serving : Counted(serving[i])
    /\ \E d \in Directions :
          \E n \in IF guider = "idle" /\ ~Busy(reports) THEN Amounts \cup {1}
                   ELSE {1} :
             queue' = Append(queue, AxisMove("manual", d, n))
    /\ UNCHANGED <<travel, offset, mirror, call, serving, reports, centring,
                   image, guider, cal, errors, failed>>
    /\ Watch

\* The advanced dialog sets the AO's travel, whatever is going on.
SetMaxPosition ==
    /\ GuiFree
    /\ \E n \in Travels \ {travel} :
          /\ travel' = n
          /\ undisturbed' = (/\ undisturbed /\ guider = "idle"
                             /\ ItemsAhead = {}
                             /\ \A d \in Directions : CurrentPosition(d) < n)
    /\ UNCHANGED <<offset, mirror, call, queue, serving, reports, centring,
                   image, guider, cal, errors, failed>>

\* No image reaches the guider while a counted move is outstanding (FrameNotBusy
\* of GuideSession).
ImageReady == GuiFree /\ image # "none" /\ ~Busy(reports)

ImageIgnored ==
    /\ ImageReady /\ guider = "idle"
    /\ image' = "none"
    /\ UNCHANGED <<travel, offset, mirror, call, queue, serving, reports,
                   centring, guider, cal, errors, failed, undisturbed>>

\* A guide step on both axes.
GuideStep ==
    /\ ImageReady /\ guider = "guiding"
    /\ image' = "none"
    /\ queue' = Append(queue, OffsetMove)
    /\ UNCHANGED <<travel, offset, mirror, call, serving, reports, centring,
                   guider, cal, errors, failed, undisturbed>>

CalibrationFails ==
    /\ ImageReady /\ guider = "calibrating" /\ errors > MaxErrors
    /\ image' = "none"
    /\ guider' = "idle" /\ cal' = Cleared /\ errors' = 0
    /\ UNCHANGED <<travel, offset, mirror, call, queue, serving, reports,
                   centring, failed>>
    /\ Watch

Places == [Axes -> UNION {(1 - n)..(n - 1) : n \in Travels}]

CalibrationGoesOn ==
  \E p \in IF image = "here" THEN {mirror} ELSE Places \ {mirror} :
    LET c == CalibrationStep(cal, p)
    IN /\ ImageReady /\ guider = "calibrating" /\ errors <= MaxErrors
       /\ cal.state # "CLEARED"
       /\ image' = "none"
       /\ cal' = [c EXCEPT !.go = {}]
       /\ queue' = queue \o ScheduleAxisMoves(c.go)
       /\ guider' = IF c.state = "COMPLETE" THEN "guiding" ELSE guider
       /\ errors' = IF c.state = "COMPLETE" THEN 0 ELSE errors
       /\ failed' = IF \E d \in Directions : Remaining(d) < 0
                    THEN failed \cup {"steps remaining"} ELSE failed
       /\ UNCHANGED <<travel, offset, mirror, call, serving, reports, centring>>
       /\ Watch

\* The default of the switch: an assertion, and else nothing.
CalibrationHasNoState ==
    /\ ImageReady /\ guider = "calibrating" /\ errors <= MaxErrors
    /\ cal.state = "CLEARED"
    /\ image' = "none"
    /\ failed' = failed \cup {"calibration state"}
    /\ UNCHANGED <<travel, offset, mirror, call, queue, serving, reports,
                   centring, guider, cal, errors, undisturbed>>

\* Errors are not counted.
MoveEndedUncounted ==
    /\ GuiFree /\ reports # <<>> /\ Head(reports) # "limit"
    /\ reports' = Tail(reports)
    /\ centring' = IF guider = "idle" /\ ~Busy(Tail(reports)) THEN "vertical"
                   ELSE "no"
    /\ UNCHANGED <<travel, offset, mirror, call, queue, serving, image, guider,
                   cal, errors, failed>>
    /\ Watch

\* A counted move has ended.  The last one after guiding has stopped centres the
\* AO.  Errors are counted as far as a calibration looks at them.
MoveEnded ==
    /\ GuiFree /\ reports # <<>> /\ Head(reports) # "limit"
    /\ reports' = Tail(reports)
    /\ centring' = IF guider = "idle" /\ ~Busy(Tail(reports)) THEN "vertical"
                   ELSE "no"
    /\ errors' = IF Head(reports) = "ok" \/ guider # "calibrating" THEN errors
                 ELSE Smaller(errors + 1, MaxErrors + 1)
    /\ UNCHANGED <<travel, offset, mirror, call, queue, serving, image, guider,
                   cal, failed>>
    /\ Watch

\* The AO has hit its own limit.  A calibration is given up; else guiding is
\* stopped and started again, though not without a star.
LimitReached ==
    /\ GuiFree /\ reports # <<>> /\ Head(reports) = "limit"
    /\ reports' = Tail(reports)
    /\ centring' = IF Busy(Tail(reports)) THEN "no" ELSE "vertical"
    /\ \/ guider' = "idle" /\ cal' = GivenUp /\ errors' = 0
       \/ /\ guider # "calibrating" /\ cal.state = "COMPLETE"
          /\ guider' = "guiding"
          /\ UNCHANGED <<cal, errors>>
       \/ /\ guider # "calibrating" /\ cal.state # "COMPLETE"
          /\ guider' = "calibrating" /\ cal' = BeginCalibration
          /\ errors' = 0
    /\ UNCHANGED <<travel, offset, mirror, call, queue, serving, image, failed>>
    /\ undisturbed' = (/\ undisturbed /\ ~Interference'
                       /\ image # "elsewhere")

OnMoveComplete == MoveEnded \/ LimitReached
Centre == InMoveAxis("gui") \/ CentreAxis \/ CentreMoved
Worker == InMoveAxis("worker") \/ TakeMove \/ NextAxis \/ MoveDone
UpdateCalibrationState ==
    CalibrationFails \/ CalibrationGoesOn \/ CalibrationHasNoState
ImageHandled == UpdateCalibrationState \/ ImageIgnored \/ GuideStep

\* The program ends, however it does, and is started again, connected as at first.
Restart ==
    /\ travel' \in Travels /\ offset' = Origin /\ mirror' = Origin
    /\ call' = [t \in Threads |-> Idle]
    /\ queue' = <<>> /\ serving' = <<>> /\ reports' = <<>>
    /\ centring' = "no" /\ image' = "none" /\ guider' = "idle"
    /\ cal' = Cleared /\ errors' = 0 /\ failed' = {} /\ undisturbed' = TRUE

Next == \/ Restart
        \/ /\ undisturbed \/ Interfere
           /\ \/ StartGuiding \/ StopGuiding \/ ClearCalibration \/ ManualMove
              \/ SetMaxPosition \/ ImageHandled
              \/ Worker \/ Expose \/ OnMoveComplete \/ Centre

Spec == Init /\ [][Next]_vars

\* The worker serves its queue and exposes while images are taken; the GUI thread
\* comes out of what it is in and handles what is queued for it.  No command has
\* to be given.
FairSpec == /\ Spec /\ WF_vars(Worker) /\ WF_vars(Expose) /\ WF_vars(Centre)
            /\ WF_vars(OnMoveComplete)
            /\ WF_vars(ImageHandled)

-------------------------------------------------------------------------------
(* Properties.                                                             *)

\* While no thread is between moving the mirror and noting it, the program knows
\* where the mirror is: through failed steps, the mirror's own limit and every
\* centring, as long as no pulse overlaps one.
PositionKnown ==
    undisturbed /\ (\A t \in Threads : call[t].at \notin {"load", "store"})
        => offset = mirror

\* MoveAxis never drives the mirror out of the travel it is given.
WithinTravel ==
    undisturbed => \A a \in Axes : mirror[a] < travel /\ -mirror[a] < travel

\* The assertions of UpdateCalibrationState and MoveToCenter hold unless somebody
\* interferes.
AssertionsHold ==
    undisturbed => failed \cap {"steps remaining", "centred"} = {}

\* Why PositionKnown, WithinTravel and AssertionsHold hold, as an inductive invariant.
\* The worker is in a call while it serves a move, the GUI thread only while it
\* centres; then no counted move is left, and with an image there is none either.
\* An overlapping pulse is the interference.
ThreadsMatch ==
    /\ call["worker"].at = "idle" <=> serving = <<>>
    /\ call["gui"].at # "idle" => centring # "no"
    /\ centring # "no" \/ image # "none" => \A item \in ItemsAhead : ~Counted(item)
    /\ undisturbed => ~Interference

\* Between moving the mirror and noting it, a call knows by how much they differ;
\* what it is about to do stays within the travel.
Moved(t, a) == IF call[t].at \in {"load", "store"} /\ Axis(call[t].dir) = a
               THEN Sign(call[t].dir) * call[t].steps ELSE 0
PositionTracked ==
    undisturbed =>
        /\ \A a \in Axes : mirror[a] = offset[a] + Moved("gui", a) + Moved("worker", a)
        /\ \A t \in Threads :
              /\ call[t].at = "store" => call[t].seen = offset[Axis(call[t].dir)]
              /\ call[t].at = "step" => CurrentPosition(call[t].dir) + call[t].steps < travel

\* Centring moves one axis after the other by what its offset is.
CentringMatch ==
    undisturbed =>
        /\ centring = "horizontal" => offset["y"] = 0
        /\ LET c == call["gui"]
               a == IF centring = "vertical" THEN "y" ELSE "x"
           IN /\ c.at # "idle" => Axis(c.dir) = a
              /\ c.at \in {"check", "step", "load", "store"} =>
                    Sign(c.dir) * c.asked = -offset[a]
              /\ c.at \in {"step", "load", "store"} => c.steps = c.asked
              /\ c.at = "done" /\ c.steps = c.asked => offset[a] = 0

PositionInv == /\ TypeOK /\ ThreadsMatch /\ PositionTracked /\ CentringMatch
               /\ WithinTravel /\ AssertionsHold

\* A finished calibration has measured, on each axis, exactly the distance it
\* divides by: the whole travel from one end to the other, along that axis alone,
\* whatever moves failed on the way and were made again.
CalibrationExact ==
    undisturbed /\ cal.state = "COMPLETE" =>
        /\ cal.xRate.dist = [x |-> -(Samples * cal.xRate.over), y |-> 0]
        /\ cal.yRate.dist = [x |-> 0, y |-> Samples * cal.yRate.over]

\* Why CalibrationExact holds.  The corners of the travel, and what has been summed up
\* of n images there.
Corner(sx, sy) == [a \in Axes |-> IF a = "x" THEN sx * (travel - 1) ELSE sy * (travel - 1)]
Times(n, p) == [a \in Axes |-> n * p[a]]
Averaging == {"AVERAGE_STARTING_LOCATION", "AVERAGE_CENTER_LOCATION",
              "AVERAGE_ENDING_LOCATION"}
XExact == cal.xRate.dist = [x |-> -(Samples * cal.xRate.over), y |-> 0]
YExact == cal.yRate.dist = [x |-> 0, y |-> Samples * cal.yRate.over]

\* The AO has reached the mirror's own limit, and the calibration is not given up yet.
Limited == \/ call["worker"].at = "done" /\ call["worker"].result = "limit"
           \/ \E i \in DOMAIN reports : reports[i] = "limit"

\* The moves ahead, and the one that is made, are moves in direction d.
OnlyMoves(d) ==
    /\ \A item \in ItemsAhead : Len(item.legs) = 1 /\ item.legs[1].dirs = {d}
    /\ call["worker"].at # "idle" => call["worker"].dir = d

\* On the way back to the centre each axis makes one move at a time, and only while
\* its way is at least as long as that move.
Recentring ==
    LET Back(d) == AxisMove("calibration", d, CalSteps)
        worker == call["worker"]
        ToMake(d) == \/ \E i \in DOMAIN queue : queue[i] = Back(d)
                     \/ serving = <<Back(d)>> /\ worker.at \in {"check", "step"}
    IN /\ mirror["x"] <= 0 /\ mirror["y"] >= 0
       /\ \/ /\ serving = <<>>
             /\ queue \in {<<>>, <<Back("DOWN")>>, <<Back("RIGHT")>>,
                           <<Back("DOWN"), Back("RIGHT")>>}
          \/ serving = <<Back("DOWN")>> /\ queue \in {<<>>, <<Back("RIGHT")>>}
          \/ serving = <<Back("RIGHT")>> /\ queue = <<>>
       /\ serving # <<>> => serving = <<Back(worker.dir)>>
       /\ worker.at \in {"check", "step"} =>
             worker.asked = CalSteps /\ worker.steps <= CalSteps
       /\ ToMake("RIGHT") => mirror["x"] + CalSteps <= 0
       /\ ToMake("DOWN") => mirror["y"] - CalSteps >= 0

\* Where the mirror is, and what has been measured so far, in each state.
StateMatches ==
    LET Here(sx, sy) == mirror = Corner(sx, sy)
        Sum(sx, sy) == cal.sum = Times(cal.samples, Corner(sx, sy))
        From(sx, sy) == cal.start = Times(Samples, Corner(sx, sy))
        At(state) == cal.state = state
    IN /\ At("AVERAGE_STARTING_LOCATION") => Here(1, -1) /\ Sum(1, -1)
       /\ At("GO_LEFT") => /\ mirror["y"] = 1 - travel /\ From(1, -1)
                           /\ OnlyMoves("LEFT")
       /\ At("AVERAGE_CENTER_LOCATION") => Here(-1, -1) /\ Sum(-1, -1) /\ From(1, -1)
       /\ At("GO_UP") => /\ mirror["x"] = 1 - travel /\ From(-1, -1) /\ XExact
                         /\ OnlyMoves("UP")
       /\ At("AVERAGE_ENDING_LOCATION") => /\ Here(-1, 1) /\ Sum(-1, 1)
                                           /\ From(-1, -1) /\ XExact
       /\ At("RECENTER") => XExact /\ YExact /\ Recentring

\* An image that shows the star elsewhere comes before any is measured, and with the
\* mirror out of the corner.
MeasuredSoFar ==
    /\ cal.state # "COMPLETE"
    /\ cal.state \notin {"GOTO_LOWER_RIGHT_CORNER", "CLEARED"} =>
          centring = "no" /\ image # "elsewhere"
    /\ image = "elsewhere" => mirror["y"] = 0 /\ travel > 1
    /\ cal.state \in Averaging => queue = <<>> /\ serving = <<>> /\ reports = <<>>
    /\ ~Limited => StateMatches
CalibrationTracked == undisturbed /\ guider = "calibrating" => MeasuredSoFar

CalibrationInv == PositionInv /\ CalibrationTracked /\ CalibrationExact

\* A calibration that is completed leaves the mirror less than one move away from
\* the centre.
EndsNearCentre ==
    [][cal.state # "COMPLETE" /\ cal'.state = "COMPLETE" /\ undisturbed'
          => \A a \in Axes : mirror[a] < CalSteps /\ -mirror[a] < CalSteps]_vars

\* A calibration comes to an end, with the mirror failing or not, unless somebody
\* interferes or clears it.
CalibrationEnds ==
    guider = "calibrating" ~> \/ guider # "calibrating"
                              \/ cal.state = "CLEARED" \/ ~undisturbed

\* While it calibrates, the state machine has a state; its default is asserted
\* never to be reached.
CalibrationHasState == "calibration state" \notin failed

===============================================================================
