------------------------------ MODULE Controller ------------------------------
(***************************************************************************)
(* PhdController: the operations guide and dither of the event server, run *)
(* by a state machine that UpdateControllerState advances after every      *)
(* frame as far as it goes.                                                *)
(*                                                                         *)
(* sky.settled: the frame completes what the settling parameters ask for.   *)
(*                                                                         *)
(* Where the lock position is, and so whether it is sticky, is not         *)
(* modelled: only that there is one.                                       *)
(***************************************************************************)
EXTENDS Guider

CONSTANT MaxAttempts   \* autoFindAttemptsRemaining and waitSelectedRemaining
                       \* start at 3

ASSUME AttemptsAssumption == MaxAttempts \in 1..3

SetCtl(s, newstate) == [s EXCEPT !.ctl = newstate]
Fail(s) == Finish(s, "SettleFailed")

CanGuide(s) == s.camera          \* the mounts stay connected

\* MyFrame::StartGuiding, and whether it fails.
CannotStart(s) == ~s.camera \/ s.gs = "SELECTING"
StartGuiding(s) == StartCapturing(GuiderStart(s))

-------------------------------------------------------------------------------
(* One operator per state, the last one first: the loop of                 *)
(* UpdateControllerState goes on in another state (an operator applied to  *)
(* what this one leaves) or is done (the record is the result).            *)

\* Settling without a time limit.
SettleForever(s, sky) ==
    IF sky.settled /\ (s.op = "compat" \/ IsLocked(s))
    THEN Finish(s, "SettleDone")
    ELSE Tell(s, "Settling")

\* A phd1-style dither counts frames (its time limit of 9999 s is not modelled);
\* any other operation settles only on a star that is found.
SettleWait(s, sky) ==
    CASE sky.settled /\ (s.op = "compat" \/ IsLocked(s)) -> Finish(s, "SettleDone")
      [] s.late /\ s.op # "compat" /\ ~(sky.settled /\ IsLocked(s)) -> Fail(s)
      [] OTHER -> Tell(s, "Settling")

SettleBegin(s) ==
    Tell([s EXCEPT !.dec = IF s.override THEN "AUTO" ELSE @,
                   !.late = FALSE, !.ctl = "SETTLE_WAIT"],
         "SettleBegin")

GuideState(s) ==
    IF CannotStart(s) THEN Fail(s) ELSE SetCtl(StartGuiding(s), "SETTLE_BEGIN")

CalibrationWait(s) == IF AllCalibrated(s) THEN SettleBegin(s) ELSE s

Calibrate(s) ==
    LET t == IF s.force THEN [s EXCEPT !.cal = [m \in Mounts |-> FALSE]] ELSE s
    IN IF AllCalibrated(t) THEN GuideState(t)
       ELSE IF CannotStart(t) THEN Fail(t)
       ELSE SetCtl(StartGuiding(t), "CALIBRATION_WAIT")

WaitSelected(s) ==
    IF s.gs = "SELECTED" THEN Calibrate(s)
    ELSE [s EXCEPT !.waits = @ - 1,
                   !.ctl = IF s.waits = 1 THEN "ATTEMPT_START" ELSE @]

Selected(s, sky) ==
    [AutoSelect(s, sky) EXCEPT !.ctl = "WAIT_SELECTED", !.waits = MaxAttempts]

\* MyFrame::AutoSelectStar refuses to select while calibrating or guiding.
SelectFails(s, sky) == IsCalibratingOrGuiding(s) \/ AutoSelectFails(s, sky)
TrySelect(s, sky) == IF IsCalibratingOrGuiding(s) THEN s ELSE AutoSelect(s, sky)

\* The attempts are counted and not limited.
SelectStarForever(s, sky) ==
    IF ~SelectFails(s, sky) THEN Selected(s, sky)
    ELSE SetCtl(FullReset([TrySelect(s, sky) EXCEPT !.attempts = @ - 1]),
                "ATTEMPT_START")

SelectStar(s, sky) ==
    IF ~SelectFails(s, sky) THEN Selected(s, sky)
    ELSE LET t == [TrySelect(s, sky) EXCEPT !.attempts = @ - 1]
         IN IF t.attempts = 0 THEN Fail(t)
            ELSE SetCtl(FullReset(t), "ATTEMPT_START")

AttemptStart(s, sky) ==
    CASE ~CanGuide(s) -> Fail(s)
      [] CanGuide(s) /\ IsCalibratingOrGuiding(s) ->
            IF s.force THEN Calibrate(s)
            ELSE IF s.gs \in {"CALIBRATED", "GUIDING"} THEN SettleBegin(s)
                 ELSE SetCtl(s, "CALIBRATION_WAIT")
      [] CanGuide(s) /\ ~IsCalibratingOrGuiding(s) ->
            IF ~s.capture
            THEN SetCtl(StartCapturing(FullReset(s)), "SELECT_STAR")
            ELSE IF s.gs = "SELECTED" THEN Calibrate(s)
            ELSE IF AutoExposure THEN SetCtl(s, "SELECT_STAR")
                 ELSE SelectStar(s, sky)

Setup(s, sky) ==
    AttemptStart([s EXCEPT !.attempts = MaxAttempts, !.override = FALSE], sky)

UpdateControllerState(s, sky) ==
    CASE s.ctl = "ATTEMPT_START" -> AttemptStart(s, sky)
      [] s.ctl = "SELECT_STAR" -> SelectStar(s, sky)
      [] s.ctl = "WAIT_SELECTED" -> WaitSelected(s)
      [] s.ctl = "CALIBRATION_WAIT" -> CalibrationWait(s)
      [] s.ctl = "SETTLE_BEGIN" -> SettleBegin(s)
      [] s.ctl = "SETTLE_WAIT" -> SettleWait(s, sky)
      [] s.ctl = "IDLE" -> s

-------------------------------------------------------------------------------
(* The operations.                                                         *)

\* An operation that is accepted is owed its SettleDone.
Accept(s) == [s EXCEPT !.client.owed = @ + 1]

Guide(s, force, sky) ==
    Setup([Accept(s) EXCEPT !.ctl = "SETUP", !.op = "guide", !.force = force], sky)

\* Dec motion is needed and the user's mode excludes it: one-sided modes are
\* overridden while a dither settles, if it does.
OverridesDec(s, raOnly, op) ==
    ~HasAO /\ ~raOnly /\ s.dec = "NORTH" /\ op = "dither"

\* MyFrame::Dither fails unless guiding, and if the lock position cannot move.
DitherFails(s, moves) == s.gs # "GUIDING" \/ ~s.cal[Primary] \/ ~moves

Dither(s, op, raOnly) ==
    SettleBegin(
        [Accept(s) EXCEPT !.ctl = "SETTLE_BEGIN", !.op = op,
                          !.override = OverridesDec(s, raOnly, op),
                          !.saveDec = IF HasAO \/ raOnly THEN "NONE" ELSE s.dec])
===============================================================================
