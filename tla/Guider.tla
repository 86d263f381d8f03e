-------------------------------- MODULE Guider --------------------------------
(***************************************************************************)
(* The guider: its state machine (Guider::SetState), star selection and    *)
(* the handling of a new image (Guider::UpdateGuideState), for the guider  *)
(* of this program, GuiderMultiStar.                                       *)
(*                                                                         *)
(* What the sky and the calibration algorithms decide is an input:         *)
(*   sky.star   the star is found in the image near its position and       *)
(*              passes the mass and distance checks                        *)
(*   sky.auto   AutoFind picks a star that is then found, one that is then *)
(*              refused, or none                                           *)
(*   sky.calib  a calibration step asks for 0, 1 or 2 axis moves, is the   *)
(*              last one, or fails                                         *)
(***************************************************************************)
EXTENDS SessionState

-------------------------------------------------------------------------------
(* SetState.                                                               *)

\* InvalidateCurrentPosition(false), which keeps the coordinates, and (true).
InvalidateCurrentPosition(s) ==
    [s EXCEPT !.star = IF ValidStar(s) THEN "stale" ELSE @]
DropStar(s) == [s EXCEPT !.star = "none"]

\* SetState(STATE_UNINITIALIZED), which ends in STATE_SELECTING.
Uninitialize(s) ==
    [InvalidateCurrentPosition(s) EXCEPT !.gs = "SELECTING", !.lock = FALSE]

\* SetState(STATE_STOP).
StopState(s) ==
    CASE s.gs \in {"SELECTING", "SELECTED"} -> s
      [] s.gs \in {"CAL_PRIMARY", "CAL_SECONDARY"} -> Uninitialize(s)
      [] s.gs \in {"CALIBRATED", "GUIDING"} -> [s EXCEPT !.gs = "SELECTED"]

\* Mount::BeginCalibration needs a valid star position.
BeginCalibration(s, requested) ==
    IF ValidStar(s)
    THEN Tell([s EXCEPT !.gs = requested], "StartCalibration")
    ELSE Uninitialize(s)

\* SetState(STATE_CALIBRATING_SECONDARY), and STATE_CALIBRATING_PRIMARY once it
\* falls through.
CalibrateSecondary(s, requested) ==
    CASE ~HasAO -> [s EXCEPT !.gs = "CALIBRATED"]
      [] HasAO /\ s.cal["scope"] -> [s EXCEPT !.gs = requested]
      [] HasAO /\ ~s.cal["scope"] -> BeginCalibration(s, requested)

\* Guider::StartGuiding: SetState(STATE_CALIBRATING_PRIMARY), an illegal
\* transition before a star is selected.
GuiderStart(s) ==
    CASE s.gs = "SELECTING" -> s
      [] s.gs # "SELECTING" /\ ~s.cal[Primary] ->
            BeginCalibration(s, "CAL_PRIMARY")
      [] s.gs # "SELECTING" /\ s.cal[Primary] ->
            CalibrateSecondary(s, "CAL_PRIMARY")

\* SetState(STATE_GUIDING), and NotifyGuidingStarted.  A sticky lock position
\* stays where it is, any other moves to the star: either way there is one.
BeginGuiding(s) ==
    Tell([s EXCEPT !.gs = "GUIDING", !.lock = @ \/ ValidStar(s)],
         "StartGuiding")

\* The notification does not wait for the outstanding moves.
StopAtOnce(s) ==
    StopState(IF IsCalibratingOrGuiding(s) THEN NotifyGuidingStopped(s) ELSE s)

\* Guider::StopGuiding.  The notification waits for the last outstanding move.
StopGuiding(s) ==
    StopState(IF IsCalibratingOrGuiding(s) /\ MountsIdle(s)
              THEN NotifyGuidingStopped(s) ELSE s)

\* Guider::Reset(false); Reset(true) also forgets where the star was.
Reset(s) == Uninitialize(s)
FullReset(s) == DropStar(Uninitialize(s))

-------------------------------------------------------------------------------
(* UpdateGuideState.                                                       *)

\* A star that is not found is invalidated.
LoseStar(s, found) ==
    [s EXCEPT !.star = CASE @ = "none" -> "none"
                         [] @ # "none" /\ found -> "found"
                         [] @ # "none" /\ ~found -> "stale"]

\* UpdateCurrentPosition: a star at the origin is not looked for, a star not
\* found keeps its position.
UpdateCurrentPosition(s, found) ==
    [s EXCEPT !.star = CASE @ = "none" -> "none"
                         [] @ # "none" /\ found -> "found"
                         [] @ # "none" /\ ~found ->
                              IF ValidStar(s) THEN "lost" ELSE "stale"]

StarMissing(s) ==
    CASE s.gs = "SELECTING" -> Tell(s, "LoopingExposures")
      [] s.gs = "SELECTED" ->
            Tell(Uninitialize(Tell(s, "LoopingExposures")), "StarLost")
      [] s.gs \in {"CAL_PRIMARY", "CAL_SECONDARY"} -> Tell(s, "StarLost")
      [] s.gs = "GUIDING" ->
            ScheduleMove(Tell(s, "StarLost"), Primary, "deduced")
      [] s.gs = "CALIBRATED" -> s

\* UpdateCalibrationState(m), unless m is calibrated.
CalibrationStep(s, m, sky) ==
    LET axis(t) == ScheduleMove(t, m, "calibration")
    IN CASE s.cal[m] \/ sky.calib = "wait" -> s
         [] ~s.cal[m] /\ sky.calib = "done" -> [s EXCEPT !.cal[m] = TRUE]
         [] ~s.cal[m] /\ sky.calib = "fail" -> Uninitialize(s)
         [] ~s.cal[m] /\ sky.calib = "one" -> axis(s)
         [] ~s.cal[m] /\ sky.calib = "two" ->
                IF m = "ao" THEN axis(axis(s)) ELSE axis(s)

\* The primary mount is calibrated: a real secondary needs another exposure.
PrimaryCalibrated(s) ==
    LET t == CalibrateSecondary(s, "CAL_SECONDARY")
    IN IF t.gs = "CALIBRATED" THEN BeginGuiding(t) ELSE t

StarThere(s, sky) ==
    CASE s.gs = "SELECTING" -> [s EXCEPT !.lock = TRUE, !.gs = "SELECTED"]
      [] s.gs = "SELECTED" -> s
      [] s.gs = "CAL_PRIMARY" ->
            LET t == CalibrationStep(s, Primary, sky)
            IN IF t.cal[Primary] THEN PrimaryCalibrated(t) ELSE t
      [] s.gs = "CAL_SECONDARY" ->
            LET t == CalibrationStep(s, "scope", sky)
            IN IF t.cal["scope"] THEN BeginGuiding(t) ELSE t
      [] s.gs = "CALIBRATED" -> BeginGuiding(s)
      [] s.gs = "GUIDING" -> ScheduleMove(s, Primary, "step")

PausedFrame(s) ==
    IF s.gs = "GUIDING" THEN ScheduleMove(s, Primary, "deduced") ELSE s

UpdateGuideState(s, sky, stopping) ==
    IF stopping THEN StopGuiding(s)
    ELSE LET idle == Check(s, "busy guider", s.busy[Primary] = 0)
             t == UpdateCurrentPosition(idle, sky.star)
             seen == IF IsCalibratingOrGuiding(t) THEN t
                     ELSE Tell(t, "LoopingExposures")
         IN IF t.star # "found" THEN StarMissing(t)
            ELSE IF IsPaused(t) THEN PausedFrame(seen)
            ELSE StarThere(seen, sky)

-------------------------------------------------------------------------------
(* Star selection.                                                         *)

AutoSelectFails(s, sky) == ~s.image \/ sky.auto # "ok"

\* AutoSelect: a star that is picked and then refused leaves its position
\* behind, a star that is found moves the state machine on at once.
AutoSelect(s, sky) ==
    CASE ~s.image \/ sky.auto = "none" -> s
      [] s.image /\ sky.auto = "refused" -> [s EXCEPT !.star = "lost"]
      [] s.image /\ sky.auto = "ok" ->
            LET t == [s EXCEPT !.star = "found", !.lock = TRUE]
            IN IF t.gs = "SELECTING"
               THEN UpdateGuideState(t, [sky EXCEPT !.star = TRUE], FALSE)
               ELSE t

\* OnLClick: Star::Find leaves a valid position whether or not it finds a star.
ClickSelect(s, found) ==
    [s EXCEPT !.star = IF found THEN "found" ELSE "lost",
              !.lock = TRUE, !.gs = "SELECTED"]

\* SetMultiStarMode(true) when it was off.
MultiStarOn(s, sky) ==
    IF s.gs = "SELECTING" THEN s
    ELSE LET t == DropStar(StopGuiding(s))
         IN IF AutoSelectFails(t, sky) THEN AutoSelect(t, sky)
            ELSE GuiderStart(AutoSelect(t, sky))
===============================================================================
