------------------------- MODULE GuideOperations_proofs -------------------------
EXTENDS GuideSession_proofs

(* The guide session implements Operations: what a client of the event       *)
(* server sees of guide and dither follows the order promised there.         *)
(*                                                                           *)
(* Most operators of the model never speak of an operation, and those that   *)
(* do take it further or end it.  Onward(t, u) says that much of what an     *)
(* operator makes of a record t: it begins no operation, does not go back    *)
(* from settling, and stops guiding only with the operation answered.  It is *)
(* transitive, so each handler is onward because each operator it calls is,  *)
(* whatever the order; only the commands that begin an operation are looked  *)
(* at step by step.  Whole is what the operators need to be defined.         *)

\* What a record says of an operation.
OperationFields == {"ctl", "op", "override", "dec", "client"}
Untouched == Fields \ OperationFields

Hearing(c) == c = [f \in {"guiding", "settling", "owed", "outOfTurn"} |-> c[f]]
Whole(t) ==
    /\ Rec(t) /\ Hearing(t.client)
    /\ t.gs \in GuiderStates /\ t.ctl \in Resting \cup {"SETUP"}

Onward(t, u) ==
    /\ Whole(u)
    /\ u.ctl = "SETUP" => t.ctl = "SETUP"
    /\ t.ctl = "IDLE" => u.ctl = "IDLE"
    /\ t.ctl = "SETTLE_WAIT" => u.ctl \in {"SETTLE_WAIT", "IDLE"}
    /\ u.op = IF u.ctl = "IDLE" /\ t.ctl # "IDLE" THEN "none" ELSE t.op
    /\ t.client.guiding => u.client.guiding \/ u.ctl = "IDLE"
    /\ u.override => t.override
    /\ t.ctl = "SETTLE_WAIT" /\ u.ctl = "SETTLE_WAIT" => u.dec = t.dec

\* Only the guider, in a frame, and what stops guiding tell of guiding, and most
\* operators leave the controller in its state.
Silently(t, u) == Onward(t, u) /\ u.client.guiding = t.client.guiding
Aside(t, u) == Silently(t, u) /\ u.ctl = t.ctl

\* One operator after another.
LEMMA OnwardTrans ==
    ASSUME NEW t, NEW u, NEW v, Onward(t, u), Onward(u, v) PROVE Onward(t, v)
  BY DEF Onward, Whole

\* The same without news of guiding, and without a change of the controller.
LEMMA SilentlyTrans ==
    ASSUME NEW t, NEW u, NEW v, Silently(t, u), Silently(u, v) PROVE Silently(t, v)
  BY OnwardTrans DEF Silently

LEMMA AsideTrans ==
    ASSUME NEW t, NEW u, NEW v, Aside(t, u), Aside(u, v) PROVE Aside(t, v)
  BY SilentlyTrans DEF Aside

\* A record goes on to itself.
LEMMA AsideSelf == ASSUME NEW t, Whole(t) PROVE Aside(t, t)
  BY DEF Aside, Silently, Onward, Whole

\* What leaves an operation alone.
LEMMA AsideSame ==
    ASSUME NEW t, NEW u, Whole(t), Rec(u), Same(t, u, Untouched), u.gs \in GuiderStates
    PROVE  Aside(t, u)
  <1>1. \A f \in OperationFields : u[f] = t[f]
    BY DEF Same, Untouched, OperationFields, Fields
  <1>2. /\ u.ctl = t.ctl /\ u.op = t.op /\ u.override = t.override /\ u.dec = t.dec
        /\ u.client = t.client
    BY <1>1 DEF OperationFields
  <1> QED BY <1>2 DEF Aside, Silently, Onward, Whole

-------------------------------------------------------------------------------
(* What a listener hears, and the end of an operation.                     *)

\* Any news but the end of guiding.
LEMMA HearOnward ==
    ASSUME NEW c, Hearing(c), NEW e, e # "GuidingStopped"
    PROVE  /\ Hearing(Hear(c, e)) /\ (c.guiding => Hear(c, e).guiding)
           /\ e # "StartGuiding" => Hear(c, e).guiding = c.guiding
  BY DEF Hear, Hearing

\* News goes out: only that of the start of guiding changes what a listener thinks of it.
LEMMA TellOnward ==
    ASSUME NEW t, Whole(t), NEW e, e # "GuidingStopped"
    PROVE  /\ Onward(t, Tell(t, e))
           /\ e # "StartGuiding" => Aside(t, Tell(t, e))
  <1> DEFINE u == Tell(t, e)
  <1>1. /\ Rec(u) /\ u.client = Hear(t.client, e)
        /\ u.ctl = t.ctl /\ u.op = t.op /\ u.override = t.override /\ u.dec = t.dec
        /\ u.gs = t.gs
    BY DEF Tell, Whole, Rec, Fields
  <1>2. /\ Hearing(u.client) /\ (t.client.guiding => u.client.guiding)
        /\ e # "StartGuiding" => u.client.guiding = t.client.guiding
    BY <1>1, HearOnward DEF Whole
  <1> HIDE DEF u
  <1>3. Onward(t, u)
    BY <1>1, <1>2 DEF Onward, Whole
  <1> QED BY <1>1, <1>2, <1>3 DEF Aside, Silently, u

LEMMA TellAside ==
    ASSUME NEW t, Whole(t), NEW e, e \notin {"GuidingStopped", "StartGuiding"}
    PROVE  Aside(t, Tell(t, e))
  BY TellOnward

\* STATE_FINISH and do_fail.
LEMMA FinishSilently ==
    ASSUME NEW t, Whole(t), t.ctl # "IDLE", NEW e \in {"SettleDone", "SettleFailed"}
    PROVE  Silently(t, Finish(t, e)) /\ Finish(t, e).ctl = "IDLE"
  <1> DEFINE u == Finish(t, e)
  <1>1. /\ Rec(u) /\ u.client = Hear(t.client, e) /\ u.gs = t.gs
        /\ u.ctl = "IDLE" /\ u.op = "none" /\ u.override = FALSE
    BY ZenonT(60) DEF Finish, Tell, Whole, Rec, Fields
  <1>2. Hearing(u.client) /\ u.client.guiding = t.client.guiding
    BY <1>1, HearOnward DEF Whole
  <1> HIDE DEF u
  <1>3. Onward(t, u)
    BY <1>1, <1>2 DEF Onward, Whole, Resting
  <1> QED BY <1>1, <1>2, <1>3 DEF Silently, u

\* PhdController::AbortController answers the operation, if there is one.
LEMMA AbortSilently ==
    ASSUME NEW t, Whole(t)
    PROVE  Silently(t, AbortController(t)) /\ AbortController(t).ctl = "IDLE"
  BY FinishSilently, AsideSelf DEF AbortController, Aside

LEMMA AbortOnward == ASSUME NEW t, Whole(t) PROVE Onward(t, AbortController(t))
  BY AbortSilently DEF Silently

\* GuidingStopped aborts the operation.
LEMMA StoppedOnward ==
    ASSUME NEW t, Whole(t) PROVE Onward(t, NotifyGuidingStopped(t))
  <1> DEFINE d == Tell(t, "GuidingStopped")
             u == AbortController(d)
  <1>1. /\ Rec(d) /\ Hearing(d.client)
        /\ d.ctl = t.ctl /\ d.op = t.op /\ d.override = t.override /\ d.dec = t.dec
        /\ d.gs = t.gs
    BY DEF Tell, Hear, Hearing, Whole, Rec, Fields
  <1> HIDE DEF d
  <1>2. Whole(d)
    BY <1>1 DEF Whole
  <1>3. Onward(d, u) /\ u.ctl = "IDLE"
    BY <1>2, AbortSilently DEF Silently
  <1> HIDE DEF u
  <1>4. Onward(t, u)
    BY <1>1, <1>3 DEF Onward
  <1> QED BY <1>4 DEF NotifyGuidingStopped, d, u

-------------------------------------------------------------------------------
(* What the frame schedules.                                               *)

\* An assertion leaves everything but its failure alone.
LEMMA CheckAside ==
    ASSUME NEW t, Whole(t), NEW what, NEW holds PROVE Aside(t, Check(t, what, holds))
  <1> DEFINE u == Check(t, what, holds)
  <1>1. Rec(u) /\ Same(t, u, {"failed"})
    BY DEF Check, Whole, Rec, Same, Fields
  <1> HIDE DEF u
  <1>2. Same(t, u, Untouched) /\ u.gs = t.gs
    BY <1>1 DEF Same, Fields, Untouched, OperationFields
  <1> QED BY <1>1, <1>2, AsideSame DEF Whole, u

\* MyFrame::ScheduleExposure and StartCapturing do not speak of an operation.
LEMMA ExposureAside ==
    ASSUME NEW t, Whole(t) PROVE Aside(t, ScheduleExposure(t))
  <1> DEFINE u == ScheduleExposure(t)
  <1>1. Rec(u) /\ Same(t, u, {"pending", "shots", "failed"})
    BY DEF ScheduleExposure, Check, Whole, Rec, Same, Fields
  <1> HIDE DEF u
  <1>2. Same(t, u, Untouched) /\ u.gs = t.gs
    BY <1>1 DEF Same, Fields, Untouched, OperationFields
  <1> QED BY <1>1, <1>2, AsideSame DEF Whole, u

LEMMA StartCapturingAside ==
    ASSUME NEW t, Whole(t) PROVE Aside(t, StartCapturing(t))
  <1> DEFINE d == [t EXCEPT !.capture = TRUE, !.cont = ~t.single \/ t.cont]
  <1>1. Rec(d) /\ Same(t, d, {"capture", "cont"})
    BY DEF Whole, Rec, Same, Fields
  <1>2. StartCapturing(t) \in {t, d, ScheduleExposure(d)}
    BY DEF StartCapturing
  <1> HIDE DEF d
  <1>3. Same(t, d, Untouched) /\ d.gs = t.gs
    BY <1>1 DEF Same, Fields, Untouched, OperationFields
  <1>4. Aside(t, d)
    BY <1>1, <1>3, AsideSame DEF Whole
  <1>5. Whole(d)
    BY <1>4 DEF Aside, Silently, Onward
  <1>6. Aside(t, ScheduleExposure(d))
    BY <1>4, <1>5, ExposureAside, AsideTrans
  <1> QED BY <1>2, <1>4, <1>6, AsideSelf

\* MyFrame::SchedulePrimaryMove, and the count of the mount's requests.
LEMMA MoveAside ==
    ASSUME NEW t, Whole(t), NEW m, NEW kind PROVE Aside(t, ScheduleMove(t, m, kind))
  <1> DEFINE u == ScheduleMove(t, m, kind)
  <1>1. Rec(u) /\ Same(t, u, {"busy", "moves", "failed"})
    BY ZenonT(60) DEF ScheduleMove, IncrementRequestCount, Check, Whole, Rec, Same, Fields
  <1> HIDE DEF u
  <1>2. Same(t, u, Untouched) /\ u.gs = t.gs
    BY <1>1 DEF Same, Fields, Untouched, OperationFields
  <1> QED BY <1>1, <1>2, AsideSame DEF Whole, u
-------------------------------------------------------------------------------
(* The guider's state machine.                                             *)

\* A step that changes fields that are neither the operation's nor the guider's state.
LEMMA FieldsAside ==
    ASSUME NEW t, NEW u, Whole(t), Rec(u), NEW changed, Same(t, u, changed),
           changed \cap (OperationFields \cup {"gs"}) = {}
    PROVE  Aside(t, u)
  <1>1. Same(t, u, Untouched) /\ u.gs = t.gs
    BY DEF Same, Fields, Untouched, OperationFields
  <1> QED BY <1>1, AsideSame DEF Whole

\* A step of the guider alone.
LEMMA GuiderAside ==
    ASSUME NEW t, NEW u, Whole(t), Rec(u), Same(t, u, {"gs", "star", "lock", "cal"}),
           u.gs \in GuiderStates
    PROVE  Aside(t, u)
  <1>1. Same(t, u, Untouched)
    BY DEF Same, Fields, Untouched, OperationFields
  <1> QED BY <1>1, AsideSame

\* The ways out of a state of the guider.
LEMMA UninitializeAside ==
    ASSUME NEW t, Whole(t) PROVE Aside(t, Uninitialize(t))
  <1> DEFINE u == Uninitialize(t)
  <1>1. Rec(u) /\ Same(t, u, {"gs", "star", "lock"}) /\ u.gs = "SELECTING"
    BY DEF Uninitialize, InvalidateCurrentPosition, Whole, Rec, Same, Fields
  <1> HIDE DEF u
  <1>2. Same(t, u, {"gs", "star", "lock", "cal"}) /\ u.gs \in GuiderStates
    BY <1>1 DEF Same, GuiderStates
  <1> QED BY <1>1, <1>2, GuiderAside DEF u

LEMMA DropStarAside == ASSUME NEW t, Whole(t) PROVE Aside(t, DropStar(t))
  <1> DEFINE u == DropStar(t)
  <1>1. Rec(u) /\ Same(t, u, {"star"})
    BY DEF DropStar, Whole, Rec, Same, Fields
  <1> HIDE DEF u
  <1> QED BY <1>1, FieldsAside DEF OperationFields, u

LEMMA FullResetAside == ASSUME NEW t, Whole(t) PROVE Aside(t, FullReset(t))
  <1>1. Aside(t, Uninitialize(t))
    BY UninitializeAside
  <1>2. Whole(Uninitialize(t))
    BY <1>1 DEF Aside, Silently, Onward
  <1> QED BY <1>1, <1>2, DropStarAside, AsideTrans DEF FullReset

\* The guider goes to a state.
LEMMA StateAside ==
    ASSUME NEW t, Whole(t), NEW g \in GuiderStates PROVE Aside(t, [t EXCEPT !.gs = g])
  <1> DEFINE u == [t EXCEPT !.gs = g]
  <1>1. Rec(u) /\ Same(t, u, {"gs", "star", "lock", "cal"}) /\ u.gs = g
    BY DEF Whole, Rec, Same, Fields
  <1> HIDE DEF u
  <1> QED BY <1>1, GuiderAside DEF u

LEMMA StopStateAside == ASSUME NEW t, Whole(t) PROVE Aside(t, StopState(t))
  <1>1. t.gs \in GuiderStates
    BY DEF Whole
  <1>2. StopState(t) \in {t, Uninitialize(t), [t EXCEPT !.gs = "SELECTED"]}
    BY <1>1 DEF StopState, GuiderStates
  <1>3. Aside(t, [t EXCEPT !.gs = "SELECTED"])
    BY StateAside DEF GuiderStates
  <1> QED BY <1>2, <1>3, AsideSelf, UninitializeAside

Calibrating == {"CAL_PRIMARY", "CAL_SECONDARY"}

\* Calibrations begin, and guiding with them or after them.
LEMMA BeginCalibrationAside ==
    ASSUME NEW t, Whole(t), NEW r \in Calibrating PROVE Aside(t, BeginCalibration(t, r))
  <1> DEFINE d == [t EXCEPT !.gs = r]
  <1>1. Aside(t, d)
    BY StateAside DEF GuiderStates, Calibrating
  <1> HIDE DEF d
  <1>2. Whole(d)
    BY <1>1 DEF Aside, Silently, Onward
  <1>3. Aside(t, Tell(d, "StartCalibration"))
    BY <1>1, <1>2, TellAside, AsideTrans
  <1>4. BeginCalibration(t, r) \in {Tell(d, "StartCalibration"), Uninitialize(t)}
    BY DEF BeginCalibration, d
  <1> QED BY <1>3, <1>4, UninitializeAside

LEMMA CalibrateSecondaryAside ==
    ASSUME NEW t, Whole(t), NEW r \in Calibrating PROVE Aside(t, CalibrateSecondary(t, r))
  <1>1. Aside(t, [t EXCEPT !.gs = r]) /\ Aside(t, [t EXCEPT !.gs = "CALIBRATED"])
    BY StateAside DEF GuiderStates, Calibrating
  <1>2. CalibrateSecondary(t, r) \in {[t EXCEPT !.gs = r], [t EXCEPT !.gs = "CALIBRATED"],
                                      BeginCalibration(t, r)}
    BY DEF CalibrateSecondary
  <1> QED BY <1>1, <1>2, BeginCalibrationAside

LEMMA GuiderStartAside == ASSUME NEW t, Whole(t) PROVE Aside(t, GuiderStart(t))
  <1>1. GuiderStart(t) \in {t, BeginCalibration(t, "CAL_PRIMARY"),
                            CalibrateSecondary(t, "CAL_PRIMARY")}
    BY DEF GuiderStart
  <1> QED BY <1>1, AsideSelf, BeginCalibrationAside, CalibrateSecondaryAside
          DEF Calibrating

\* Guiding begins, of which a listener is told.
LEMMA BeginGuidingOnward == ASSUME NEW t, Whole(t) PROVE Onward(t, BeginGuiding(t))
  <1> DEFINE d == [t EXCEPT !.gs = "GUIDING", !.lock = @ \/ ValidStar(t)]
  <1>1. Rec(d) /\ Same(t, d, {"gs", "star", "lock", "cal"}) /\ d.gs = "GUIDING"
    BY DEF Whole, Rec, Same, Fields
  <1>2. BeginGuiding(t) = Tell(d, "StartGuiding")
    BY DEF BeginGuiding
  <1> HIDE DEF d
  <1>3. Aside(t, d)
    BY <1>1, GuiderAside DEF GuiderStates
  <1>4. Whole(d)
    BY <1>3 DEF Aside, Silently, Onward
  <1> QED BY <1>2, <1>3, <1>4, TellOnward, OnwardTrans DEF Aside, Silently

\* Guider::StopGuiding answers the operation when it tells of the end of guiding.
LEMMA StopGuidingOnward == ASSUME NEW t, Whole(t) PROVE Onward(t, StopGuiding(t))
  <1> DEFINE d == IF IsCalibratingOrGuiding(t) /\ MountsIdle(t)
                  THEN NotifyGuidingStopped(t) ELSE t
  <1>1. Onward(t, d)
    BY StoppedOnward, AsideSelf DEF Aside, Silently
  <1>2. StopGuiding(t) = StopState(d)
    BY DEF StopGuiding
  <1> HIDE DEF d
  <1>3. Whole(d)
    BY <1>1 DEF Onward
  <1> QED BY <1>1, <1>2, <1>3, StopStateAside, OnwardTrans DEF Aside, Silently

-------------------------------------------------------------------------------
(* A frame, and the selection of a star.                                   *)

\* What a frame does when the star is missing, paused or there.
LEMMA PositionAside ==
    ASSUME NEW t, Whole(t), NEW found PROVE Aside(t, UpdateCurrentPosition(t, found))
  <1> DEFINE u == UpdateCurrentPosition(t, found)
  <1>1. Rec(u) /\ Same(t, u, {"star"})
    BY DEF UpdateCurrentPosition, Whole, Rec, Same, Fields
  <1> HIDE DEF u
  <1> QED BY <1>1, FieldsAside DEF OperationFields, u

LEMMA StarMissingAside == ASSUME NEW t, Whole(t) PROVE Aside(t, StarMissing(t))
  <1> DEFINE a == Tell(t, "LoopingExposures")
             b == Tell(t, "StarLost")
             c == Uninitialize(a)
  <1>1. Aside(t, a) /\ Aside(t, b)
    BY TellAside
  <1>2. t.gs \in GuiderStates
    BY DEF Whole
  <1>3. StarMissing(t) \in {t, a, b, Tell(c, "StarLost"),
                            ScheduleMove(b, Primary, "deduced")}
    BY <1>2 DEF StarMissing, GuiderStates
  <1> HIDE DEF a, b
  <1>4. Aside(t, ScheduleMove(b, Primary, "deduced"))
    <2>1. Whole(b)
      BY <1>1 DEF Aside, Silently, Onward
    <2> QED BY <1>1, <2>1, MoveAside, AsideTrans
  <1>5. Aside(t, c)
    <2>1. Whole(a)
      BY <1>1 DEF Aside, Silently, Onward
    <2> QED BY <1>1, <2>1, UninitializeAside, AsideTrans
  <1> HIDE DEF c
  <1>6. Aside(t, Tell(c, "StarLost"))
    <2>1. Whole(c)
      BY <1>5 DEF Aside, Silently, Onward
    <2> QED BY <1>5, <2>1, TellAside, AsideTrans
  <1> QED BY <1>1, <1>3, <1>4, <1>6, AsideSelf

LEMMA CalibrationStepAside ==
    ASSUME NEW t, Whole(t), NEW m, NEW sky \in Sky
    PROVE  Aside(t, CalibrationStep(t, m, sky))
  <1> DEFINE done == [t EXCEPT !.cal[m] = TRUE]
             one == ScheduleMove(t, m, "calibration")
             two == ScheduleMove(one, m, "calibration")
  <1>1. Aside(t, done)
    <2>1. Rec(done) /\ Same(t, done, {"cal"})
      BY DEF Whole, Rec, Same, Fields
    <2> HIDE DEF done
    <2> QED BY <2>1, FieldsAside DEF OperationFields
  <1>2. Aside(t, one)
    BY MoveAside
  <1>3. CalibrationStep(t, m, sky) \in {t, done, Uninitialize(t), one, two}
    BY DEF CalibrationStep, Sky
  <1> HIDE DEF done, one
  <1>4. Aside(t, two)
    <2>1. Whole(one)
      BY <1>2 DEF Aside, Silently, Onward
    <2> QED BY <1>2, <2>1, MoveAside, AsideTrans
  <1> QED BY <1>1, <1>2, <1>3, <1>4, AsideSelf, UninitializeAside

LEMMA PrimaryCalibratedOnward ==
    ASSUME NEW t, Whole(t) PROVE Onward(t, PrimaryCalibrated(t))
  <1> DEFINE d == CalibrateSecondary(t, "CAL_SECONDARY")
  <1>1. Aside(t, d)
    BY CalibrateSecondaryAside DEF Calibrating
  <1>2. PrimaryCalibrated(t) \in {d, BeginGuiding(d)}
    BY DEF PrimaryCalibrated
  <1> HIDE DEF d
  <1>3. Whole(d)
    BY <1>1 DEF Aside, Silently, Onward
  <1> QED BY <1>1, <1>2, <1>3, BeginGuidingOnward, OnwardTrans DEF Aside, Silently

LEMMA StarThereOnward ==
    ASSUME NEW t, Whole(t), NEW sky \in Sky PROVE Onward(t, StarThere(t, sky))
  <1> DEFINE selected == [t EXCEPT !.lock = TRUE, !.gs = "SELECTED"]
             p == CalibrationStep(t, Primary, sky)
             q == CalibrationStep(t, "scope", sky)
  <1>1. Aside(t, selected)
    <2>1. /\ Rec(selected) /\ Same(t, selected, {"gs", "star", "lock", "cal"})
          /\ selected.gs = "SELECTED"
      BY DEF Whole, Rec, Same, Fields
    <2> HIDE DEF selected
    <2> QED BY <2>1, GuiderAside DEF GuiderStates
  <1>2. Aside(t, p) /\ Aside(t, q)
    BY CalibrationStepAside
  <1>3. t.gs \in GuiderStates
    BY DEF Whole
  <1>4. StarThere(t, sky) \in {t, selected, p, q, PrimaryCalibrated(p), BeginGuiding(q),
                               BeginGuiding(t), ScheduleMove(t, Primary, "step")}
    BY <1>3 DEF StarThere, GuiderStates
  <1> HIDE DEF selected, p, q
  <1>5. Whole(p) /\ Whole(q)
    BY <1>2 DEF Aside, Silently, Onward
  <1>6. Onward(t, PrimaryCalibrated(p)) /\ Onward(t, BeginGuiding(q))
    BY <1>2, <1>5, PrimaryCalibratedOnward, BeginGuidingOnward, OnwardTrans
       DEF Aside, Silently
  <1> QED BY <1>1, <1>2, <1>4, <1>6, AsideSelf, BeginGuidingOnward, MoveAside
          DEF Aside, Silently

LEMMA FrameGoesOn ==
    ASSUME NEW t, Whole(t), NEW sky \in Sky
    PROVE  Onward(t, UpdateGuideState(t, sky, FALSE))
  <1> DEFINE a == Check(t, "busy guider", t.busy[Primary] = 0)
             b == UpdateCurrentPosition(a, sky.star)
             c == IF IsCalibratingOrGuiding(b) THEN b ELSE Tell(b, "LoopingExposures")
  <1>1. UpdateGuideState(t, sky, FALSE) \in
           {StarMissing(b), PausedFrame(c), StarThere(c, sky)}
    BY DEF UpdateGuideState
  <1>2. Aside(t, a)
    BY CheckAside
  <1> HIDE DEF a
  <1>3. Aside(t, b)
    <2>1. Whole(a)
      BY <1>2 DEF Aside, Silently, Onward
    <2> QED BY <1>2, <2>1, PositionAside, AsideTrans
  <1> HIDE DEF b
  <1>4. Whole(b)
    BY <1>3 DEF Aside, Silently, Onward
  <1>5. Aside(t, c)
    BY <1>3, <1>4, TellAside, AsideTrans
  <1> HIDE DEF c
  <1>6. Whole(c)
    BY <1>5 DEF Aside, Silently, Onward
  <1>7. Aside(t, PausedFrame(c))
    BY <1>5, <1>6, MoveAside, AsideTrans, AsideSelf DEF PausedFrame
  <1>8. Onward(t, StarMissing(b)) /\ Onward(t, StarThere(c, sky))
    BY <1>3, <1>4, <1>5, <1>6, StarMissingAside, StarThereOnward, OnwardTrans
       DEF Aside, Silently
  <1> QED BY <1>1, <1>7, <1>8 DEF Aside, Silently

\* A frame cannot make a guider that selects a star guide.
LEMMA SelectingAside ==
    ASSUME NEW t, Whole(t), t.gs = "SELECTING", NEW sky \in Sky
    PROVE  Aside(t, UpdateGuideState(t, sky, FALSE))
  <1> DEFINE a == Check(t, "busy guider", t.busy[Primary] = 0)
             b == UpdateCurrentPosition(a, sky.star)
             c == IF IsCalibratingOrGuiding(b) THEN b ELSE Tell(b, "LoopingExposures")
  <1>1. UpdateGuideState(t, sky, FALSE) \in
           {StarMissing(b), PausedFrame(c), StarThere(c, sky)}
    BY DEF UpdateGuideState
  <1>7. a.gs = "SELECTING" /\ b.gs = "SELECTING" /\ c.gs = "SELECTING"
    BY DEF Check, UpdateCurrentPosition, Tell, Whole, Rec, Fields
  <1>2. Aside(t, a)
    BY CheckAside
  <1> HIDE DEF a
  <1>3. Aside(t, b)
    <2>1. Whole(a)
      BY <1>2 DEF Aside, Silently, Onward
    <2> QED BY <1>2, <2>1, PositionAside, AsideTrans
  <1> HIDE DEF b
  <1>4. Whole(b)
    BY <1>3 DEF Aside, Silently, Onward
  <1>5. Aside(t, c)
    BY <1>3, <1>4, TellAside, AsideTrans
  <1> HIDE DEF c
  <1>6. Whole(c)
    BY <1>5 DEF Aside, Silently, Onward
  <1> DEFINE selected == [c EXCEPT !.lock = TRUE, !.gs = "SELECTED"]
  <1>8. StarThere(c, sky) = selected /\ PausedFrame(c) = c
    BY <1>7 DEF StarThere, PausedFrame
  <1>9. Aside(c, selected)
    <2>1. /\ Rec(selected) /\ Same(c, selected, {"gs", "star", "lock", "cal"})
          /\ selected.gs = "SELECTED"
      BY <1>6 DEF Whole, Rec, Same, Fields
    <2> HIDE DEF selected
    <2> QED BY <1>6, <2>1, GuiderAside DEF GuiderStates
  <1> HIDE DEF selected
  <1>10. Aside(t, selected) /\ Aside(t, StarMissing(b))
    BY <1>3, <1>4, <1>5, <1>9, StarMissingAside, AsideTrans
  <1> QED BY <1>1, <1>5, <1>8, <1>10

\* Guider::UpdateGuideState.
LEMMA FrameOnward ==
    ASSUME NEW t, Whole(t), NEW sky \in Sky, NEW stopping \in BOOLEAN
    PROVE  Onward(t, UpdateGuideState(t, sky, stopping))
  <1>1. CASE stopping
    BY <1>1, StopGuidingOnward DEF UpdateGuideState
  <1>2. CASE stopping = FALSE
    BY <1>2, FrameGoesOn
  <1> QED BY <1>1, <1>2

\* AutoSelect runs the guider, but only one that selects a star.
LEMMA AutoSelectAside ==
    ASSUME NEW t, Whole(t), NEW sky \in Sky PROVE Aside(t, AutoSelect(t, sky))
  <1> DEFINE refused == [t EXCEPT !.star = "lost"]
             found == [t EXCEPT !.star = "found", !.lock = TRUE]
             seen == [sky EXCEPT !.star = TRUE]
  <1>1. Aside(t, refused)
    <2>1. Rec(refused) /\ Same(t, refused, {"star"})
      BY DEF Whole, Rec, Same, Fields
    <2> HIDE DEF refused
    <2> QED BY <2>1, FieldsAside DEF OperationFields
  <1>2. Aside(t, found)
    <2>1. Rec(found) /\ Same(t, found, {"star", "lock"})
      BY DEF Whole, Rec, Same, Fields
    <2> HIDE DEF found
    <2> QED BY <2>1, FieldsAside DEF OperationFields
  <1>3. \/ AutoSelect(t, sky) \in {t, refused, found}
        \/ found.gs = "SELECTING" /\ AutoSelect(t, sky) = UpdateGuideState(found, seen, FALSE)
    BY DEF AutoSelect, Sky
  <1>4. seen \in Sky
    BY DEF Sky
  <1> HIDE DEF refused, found, seen
  <1>5. found.gs = "SELECTING" => Aside(t, UpdateGuideState(found, seen, FALSE))
    <2>1. Whole(found)
      BY <1>2 DEF Aside, Silently, Onward
    <2>2. found.gs = "SELECTING" => Aside(found, UpdateGuideState(found, seen, FALSE))
      BY <1>4, <2>1, SelectingAside
    <2> QED BY <1>2, <2>2, AsideTrans
  <1> QED BY <1>1, <1>2, <1>3, <1>5, AsideSelf

\* Multi-star mode stops guiding and starts it again.
LEMMA MultiStarOnward ==
    ASSUME NEW t, Whole(t), NEW sky \in Sky PROVE Onward(t, MultiStarOn(t, sky))
  <1> DEFINE a == StopGuiding(t)
             b == DropStar(a)
             c == AutoSelect(b, sky)
  <1>1. MultiStarOn(t, sky) \in {t, c, GuiderStart(c)}
    BY DEF MultiStarOn
  <1>2. Onward(t, a)
    BY StopGuidingOnward
  <1> HIDE DEF a
  <1>3. Onward(t, b)
    <2>1. Whole(a)
      BY <1>2 DEF Onward
    <2> QED BY <1>2, <2>1, DropStarAside, OnwardTrans DEF Aside, Silently
  <1> HIDE DEF b
  <1>4. Onward(t, c)
    <2>1. Whole(b)
      BY <1>3 DEF Onward
    <2> QED BY <1>3, <2>1, AutoSelectAside, OnwardTrans DEF Aside, Silently
  <1> HIDE DEF c
  <1>5. Whole(c)
    BY <1>4 DEF Onward
  <1> QED BY <1>1, <1>4, <1>5, GuiderStartAside, OnwardTrans, AsideSelf DEF Aside, Silently
-------------------------------------------------------------------------------
(* The controller: UpdateControllerState takes an operation further.       *)

\* An operation that has not begun to settle.
WaitingStates == Starting \cup {"SETTLE_BEGIN"}

\* The controller goes to a state in which an operation waits, or settles.
LEMMA GoSilently ==
    ASSUME NEW t, Whole(t), t.ctl \in WaitingStates, NEW u, Rec(u),
           Same(t, u, {"ctl", "attempts", "waits"}), u.ctl \in Resting \ {"IDLE"}
    PROVE  Silently(t, u)
  <1>1. /\ u.op = t.op /\ u.client = t.client /\ u.override = t.override /\ u.gs = t.gs
        /\ t.ctl # "IDLE" /\ t.ctl # "SETTLE_WAIT" /\ u.ctl # "SETUP"
    BY DEF Same, Fields, WaitingStates, Starting, Resting
  <1> QED BY <1>1 DEF Silently, Onward, Whole

\* SetState of the controller.
LEMMA SetCtlSilently ==
    ASSUME NEW t, Whole(t), t.ctl \in WaitingStates, NEW n \in Resting \ {"IDLE"}
    PROVE  Silently(t, SetCtl(t, n))
  <1> DEFINE u == SetCtl(t, n)
  <1>1. Rec(u) /\ Same(t, u, {"ctl", "attempts", "waits"}) /\ u.ctl = n
    BY DEF SetCtl, Whole, Rec, Same, Fields
  <1> HIDE DEF u
  <1> QED BY <1>1, GoSilently DEF u

\* The same after what leaves the controller in its state.
LEMMA AsideSetCtl ==
    ASSUME NEW t, NEW u, Aside(t, u), t.ctl \in WaitingStates, NEW n \in Resting \ {"IDLE"}
    PROVE  Silently(t, SetCtl(u, n))
  <1>1. Whole(u) /\ u.ctl \in WaitingStates /\ Silently(t, u)
    BY DEF Aside, Silently, Onward
  <1> QED BY <1>1, SetCtlSilently, SilentlyTrans

\* do_fail, at once and after other operators.
LEMMA FailSilently ==
    ASSUME NEW t, Whole(t), t.ctl # "IDLE" PROVE Silently(t, Fail(t))
  BY FinishSilently DEF Fail

LEMMA AsideFail ==
    ASSUME NEW t, NEW u, Aside(t, u), t.ctl # "IDLE" PROVE Silently(t, Fail(u))
  <1>1. Whole(u) /\ u.ctl # "IDLE" /\ Silently(t, u)
    BY DEF Aside, Silently, Onward
  <1> QED BY <1>1, FailSilently, SilentlyTrans

\* Settling begins, with the Dec guide mode overridden if the dither asks for it.
LEMMA SettleBeginSilently ==
    ASSUME NEW t, Whole(t), t.ctl \in WaitingStates
    PROVE  /\ Silently(t, SettleBegin(t)) /\ SettleBegin(t).ctl = "SETTLE_WAIT"
           /\ SettleBegin(t).dec = IF t.override THEN "AUTO" ELSE t.dec
  <1> DEFINE u == SettleBegin(t)
  <1>1. /\ Rec(u) /\ u.ctl = "SETTLE_WAIT" /\ u.op = t.op /\ u.override = t.override
        /\ u.gs = t.gs /\ u.client = Hear(t.client, "SettleBegin")
        /\ u.dec = IF t.override THEN "AUTO" ELSE t.dec
    BY DEF SettleBegin, Tell, Whole, Rec, Fields
  <1>2. Hearing(u.client) /\ u.client.guiding = t.client.guiding
    BY <1>1, HearOnward DEF Whole
  <1>3. t.ctl # "IDLE" /\ t.ctl # "SETTLE_WAIT"
    BY DEF WaitingStates, Starting
  <1> HIDE DEF u
  <1>4. Silently(t, u)
    BY <1>1, <1>2, <1>3 DEF Silently, Onward, Whole, Resting
  <1> QED BY <1>1, <1>4 DEF u

\* A frame while settling: done, failed or not yet.
LEMMA SettleWaitSilently ==
    ASSUME NEW t, Whole(t), t.ctl = "SETTLE_WAIT", NEW sky \in Sky
    PROVE  Silently(t, SettleWait(t, sky))
  <1>1. SettleWait(t, sky) \in {Finish(t, "SettleDone"), Fail(t), Tell(t, "Settling")}
    BY DEF SettleWait
  <1>2. Silently(t, Finish(t, "SettleDone")) /\ Silently(t, Fail(t))
    BY FinishSilently, FailSilently
  <1>3. Silently(t, Tell(t, "Settling"))
    BY TellAside DEF Aside
  <1> QED BY <1>1, <1>2, <1>3

\* The states of a guide operation, the last one first.
LEMMA StartGuidingAside == ASSUME NEW t, Whole(t) PROVE Aside(t, StartGuiding(t))
  <1>1. Aside(t, GuiderStart(t))
    BY GuiderStartAside
  <1>2. Whole(GuiderStart(t))
    BY <1>1 DEF Aside, Silently, Onward
  <1> QED BY <1>1, <1>2, StartCapturingAside, AsideTrans DEF StartGuiding

LEMMA GuideStateSilently ==
    ASSUME NEW t, Whole(t), t.ctl \in WaitingStates PROVE Silently(t, GuideState(t))
  <1>1. Silently(t, Fail(t))
    BY FailSilently DEF WaitingStates, Starting
  <1>2. Silently(t, SetCtl(StartGuiding(t), "SETTLE_BEGIN"))
    BY StartGuidingAside, AsideSetCtl DEF Resting
  <1> QED BY <1>1, <1>2 DEF GuideState

LEMMA CalibrateSilently ==
    ASSUME NEW t, Whole(t), t.ctl \in WaitingStates PROVE Silently(t, Calibrate(t))
  <1> DEFINE cleared == [t EXCEPT !.cal = [m \in Mounts |-> FALSE]]
             d == IF t.force THEN cleared ELSE t
  <1>1. Aside(t, cleared)
    <2>1. Rec(cleared) /\ Same(t, cleared, {"cal"})
      BY DEF Whole, Rec, Same, Fields
    <2> HIDE DEF cleared
    <2> QED BY <2>1, FieldsAside DEF OperationFields
  <1>2. Calibrate(t) \in {GuideState(d), Fail(d), SetCtl(StartGuiding(d), "CALIBRATION_WAIT")}
    BY DEF Calibrate
  <1> HIDE DEF cleared
  <1>3. Aside(t, d)
    BY <1>1, AsideSelf
  <1> HIDE DEF d
  <1>4. Whole(d) /\ d.ctl \in WaitingStates /\ Silently(t, d)
    BY <1>3 DEF Aside, Silently, Onward
  <1>5. Silently(t, GuideState(d))
    BY <1>4, GuideStateSilently, SilentlyTrans
  <1>6. Silently(t, Fail(d))
    BY <1>3, AsideFail DEF WaitingStates, Starting
  <1>7. Silently(t, SetCtl(StartGuiding(d), "CALIBRATION_WAIT"))
    BY <1>3, <1>4, StartGuidingAside, AsideTrans, AsideSetCtl DEF Resting
  <1> QED BY <1>2, <1>5, <1>6, <1>7

LEMMA WaitSelectedSilently ==
    ASSUME NEW t, Whole(t), t.ctl = "WAIT_SELECTED" PROVE Silently(t, WaitSelected(t))
  <1> DEFINE u == [t EXCEPT !.waits = @ - 1,
                            !.ctl = IF t.waits = 1 THEN "ATTEMPT_START" ELSE @]
  <1>1. t.ctl \in WaitingStates
    BY DEF WaitingStates, Starting
  <1>2. /\ Rec(u) /\ Same(t, u, {"ctl", "attempts", "waits"})
        /\ u.ctl \in {"WAIT_SELECTED", "ATTEMPT_START"}
    BY DEF Whole, Rec, Same, Fields
  <1>3. WaitSelected(t) \in {Calibrate(t), u}
    BY DEF WaitSelected
  <1> HIDE DEF u
  <1>4. Silently(t, u)
    BY <1>1, <1>2, GoSilently DEF Resting
  <1> QED BY <1>1, <1>3, <1>4, CalibrateSilently

LEMMA TrySelectAside ==
    ASSUME NEW t, Whole(t), NEW sky \in Sky PROVE Aside(t, TrySelect(t, sky))
  BY AutoSelectAside, AsideSelf DEF TrySelect

LEMMA SelectStarSilently ==
    ASSUME NEW t, Whole(t), t.ctl \in WaitingStates, NEW sky \in Sky
    PROVE  Silently(t, SelectStar(t, sky))
  <1> DEFINE a == AutoSelect(t, sky)
             b == [a EXCEPT !.ctl = "WAIT_SELECTED", !.waits = MaxAttempts]
             c == TrySelect(t, sky)
             d == [c EXCEPT !.attempts = @ - 1]
  <1>1. SelectStar(t, sky) \in {b, Fail(d), SetCtl(FullReset(d), "ATTEMPT_START")}
    BY DEF SelectStar, Selected
  <1>2. Aside(t, a) /\ Aside(t, c)
    BY AutoSelectAside, TrySelectAside
  <1> HIDE DEF a, c
  <1>3. Whole(a) /\ Whole(c) /\ a.ctl \in WaitingStates /\ Silently(t, a)
    BY <1>2 DEF Aside, Silently, Onward
  <1>4. Rec(b) /\ Same(a, b, {"ctl", "attempts", "waits"}) /\ b.ctl = "WAIT_SELECTED"
    BY <1>3 DEF Whole, Rec, Same, Fields
  <1>5. Rec(d) /\ Same(c, d, {"attempts"})
    BY <1>3 DEF Whole, Rec, Same, Fields
  <1> HIDE DEF b, d
  <1>6. Silently(t, b)
    BY <1>3, <1>4, GoSilently, SilentlyTrans DEF Resting
  <1>7. Aside(t, d)
    BY <1>2, <1>3, <1>5, FieldsAside, AsideTrans DEF OperationFields
  <1>8. Silently(t, Fail(d))
    BY <1>7, AsideFail DEF WaitingStates, Starting
  <1>9. Aside(t, FullReset(d))
    <2>1. Whole(d)
      BY <1>7 DEF Aside, Silently, Onward
    <2> QED BY <1>7, <2>1, FullResetAside, AsideTrans
  <1>10. Silently(t, SetCtl(FullReset(d), "ATTEMPT_START"))
    BY <1>9, AsideSetCtl DEF Resting
  <1> QED BY <1>1, <1>6, <1>8, <1>10

\* An attempt, from which the controller may reach any of these states at once.
LEMMA AttemptStartSilently ==
    ASSUME NEW t, Whole(t), t.ctl \in WaitingStates, NEW sky \in Sky
    PROVE  Silently(t, AttemptStart(t, sky))
  <1> DEFINE a == StartCapturing(FullReset(t))
  <1>1. AttemptStart(t, sky) \in
           {Fail(t), Calibrate(t), SettleBegin(t), SetCtl(t, "CALIBRATION_WAIT"),
            SetCtl(a, "SELECT_STAR"), SetCtl(t, "SELECT_STAR"), SelectStar(t, sky)}
    BY DEF AttemptStart
  <1>2. Aside(t, a)
    <2>1. Aside(t, FullReset(t))
      BY FullResetAside
    <2>2. Whole(FullReset(t))
      BY <2>1 DEF Aside, Silently, Onward
    <2> QED BY <2>1, <2>2, StartCapturingAside, AsideTrans
  <1> HIDE DEF a
  <1>3. /\ Silently(t, SetCtl(t, "CALIBRATION_WAIT")) /\ Silently(t, SetCtl(t, "SELECT_STAR"))
        /\ Silently(t, SetCtl(a, "SELECT_STAR"))
    BY <1>2, SetCtlSilently, AsideSetCtl DEF Resting
  <1>4. Silently(t, Fail(t))
    BY FailSilently DEF WaitingStates, Starting
  <1>5. /\ Silently(t, Calibrate(t)) /\ Silently(t, SettleBegin(t))
        /\ Silently(t, SelectStar(t, sky))
    BY CalibrateSilently, SettleBeginSilently, SelectStarSilently
  <1> QED BY <1>1, <1>3, <1>4, <1>5

\* After every frame (UpdateControllerState).
LEMMA ControllerSilently ==
    ASSUME NEW t, Whole(t), t.ctl # "SETUP", NEW sky \in Sky
    PROVE  Silently(t, UpdateControllerState(t, sky))
  <1>1. t.ctl \in Resting
    BY DEF Whole
  <1>2. CASE t.ctl \in {"IDLE", "SETTLE_WAIT"}
    <2>1. UpdateControllerState(t, sky) = IF t.ctl = "IDLE" THEN t ELSE SettleWait(t, sky)
      BY <1>2 DEF UpdateControllerState
    <2>2. Silently(t, t)
      BY AsideSelf DEF Aside
    <2> QED BY <1>2, <2>1, <2>2, SettleWaitSilently
  <1>3. CASE t.ctl \in {"SELECT_STAR", "ATTEMPT_START", "CALIBRATION_WAIT", "WAIT_SELECTED",
                        "SETTLE_BEGIN"}
    <2>1. t.ctl \in WaitingStates
      BY <1>3 DEF WaitingStates, Starting
    <2>2. UpdateControllerState(t, sky) =
             CASE t.ctl = "ATTEMPT_START" -> AttemptStart(t, sky)
               [] t.ctl = "SELECT_STAR" -> SelectStar(t, sky)
               [] t.ctl = "WAIT_SELECTED" -> WaitSelected(t)
               [] t.ctl = "CALIBRATION_WAIT" -> CalibrationWait(t)
               [] t.ctl = "SETTLE_BEGIN" -> SettleBegin(t)
      BY <1>3 DEF UpdateControllerState
    <2>3. Silently(t, t)
      BY AsideSelf DEF Aside
    <2>4. Silently(t, CalibrationWait(t))
      BY <2>1, <2>3, SettleBeginSilently DEF CalibrationWait
    <2>5. /\ Silently(t, AttemptStart(t, sky)) /\ Silently(t, SelectStar(t, sky))
          /\ Silently(t, SettleBegin(t))
      BY <2>1, AttemptStartSilently, SelectStarSilently, SettleBeginSilently
    <2>6. t.ctl = "WAIT_SELECTED" => Silently(t, WaitSelected(t))
      BY WaitSelectedSilently
    <2> QED BY <1>3, <2>2, <2>4, <2>5, <2>6
  <1> QED BY <1>1, <1>2, <1>3 DEF Resting
-------------------------------------------------------------------------------
(* MyFrame's handlers.                                                     *)

\* What an operator leaves is fit for the next one.
LEMMA OnwardNext ==
    ASSUME NEW t, NEW u, NEW v, Onward(t, u), Whole(u) => Onward(u, v) PROVE Onward(t, v)
  <1>1. Whole(u)
    BY DEF Onward
  <1> QED BY <1>1, OnwardTrans

\* A stop, which aborts what waits.
LEMMA FinishStopOnward == ASSUME NEW t, Whole(t) PROVE Onward(t, FinishStop(t))
  <1> DEFINE a == [t EXCEPT !.single = FALSE]
             b == Tell(a, "LoopingStopped")
  <1>1. Onward(t, a)
    <2>1. Rec(a) /\ Same(t, a, {"single"})
      BY DEF Whole, Rec, Same, Fields
    <2> HIDE DEF a
    <2> QED BY <2>1, FieldsAside DEF OperationFields, Aside, Silently
  <1>2. FinishStop(t) = AbortController(b)
    BY DEF FinishStop
  <1> HIDE DEF a
  <1>3. Onward(t, b)
    BY <1>1, TellAside, OnwardNext DEF Aside, Silently
  <1> HIDE DEF b
  <1> QED BY <1>2, <1>3, AbortOnward, OnwardNext

\* Pauses and resumes.
LEMMA SetPausedNoneOnward == ASSUME NEW t, Whole(t) PROVE Onward(t, SetPausedNone(t))
  <1> DEFINE a == [t EXCEPT !.pause = "none"]
             b == IF a.cont /\ ~a.pending THEN ScheduleExposure(a) ELSE a
  <1>1. Onward(t, a)
    <2>1. Rec(a) /\ Same(t, a, {"pause"})
      BY DEF Whole, Rec, Same, Fields
    <2> HIDE DEF a
    <2> QED BY <2>1, FieldsAside DEF OperationFields, Aside, Silently
  <1>2. SetPausedNone(t) \in {t, Tell(b, "Resumed")}
    BY DEF SetPausedNone
  <1> HIDE DEF a
  <1>3. Onward(t, b)
    BY <1>1, ExposureAside, OnwardNext DEF Aside, Silently
  <1> HIDE DEF b
  <1>4. Onward(t, Tell(b, "Resumed"))
    BY <1>3, TellAside, OnwardNext DEF Aside, Silently
  <1> QED BY <1>2, <1>4, AsideSelf DEF Aside, Silently

LEMMA SetPausedOnward ==
    ASSUME NEW t, Whole(t), NEW pause PROVE Onward(t, SetPaused(t, pause))
  <1> DEFINE a == [t EXCEPT !.pause = pause]
  <1>1. Onward(t, a)
    <2>1. Rec(a) /\ Same(t, a, {"pause"})
      BY DEF Whole, Rec, Same, Fields
    <2> HIDE DEF a
    <2> QED BY <2>1, FieldsAside DEF OperationFields, Aside, Silently
  <1>2. SetPaused(t, pause) \in {t, Tell(a, "Paused"), SetPausedNone(t)}
    BY DEF SetPaused
  <1> HIDE DEF a
  <1>3. Onward(t, Tell(a, "Paused"))
    BY <1>1, TellAside, OnwardNext DEF Aside, Silently
  <1> QED BY <1>2, <1>3, SetPausedNoneOnward, AsideSelf DEF Aside, Silently

\* MyFrame::StopCapturing, and the commands that stop or start a capture.
LEMMA StopCapturingOnward == ASSUME NEW t, Whole(t) PROVE Onward(t, StopCapturing(t))
  <1> DEFINE a == [t EXCEPT !.cont = FALSE]
             b == IF IsPaused(t) THEN SetPausedNone(a) ELSE t
             c == [b EXCEPT !.cont = FALSE]
             d == [c EXCEPT !.capture = FALSE]
             e == IF IsCalibratingOrGuiding(d) THEN StopGuiding(d) ELSE d
  <1>1. StopCapturing(t) \in {b, c, FinishStop(e)}
    BY DEF StopCapturing
  <1>2. Onward(t, a)
    <2>1. Rec(a) /\ Same(t, a, {"cont"})
      BY DEF Whole, Rec, Same, Fields
    <2> HIDE DEF a
    <2> QED BY <2>1, FieldsAside DEF OperationFields, Aside, Silently
  <1> HIDE DEF a
  <1>3. Onward(t, b)
    BY <1>2, SetPausedNoneOnward, OnwardNext, AsideSelf DEF Aside, Silently
  <1> HIDE DEF b
  <1>4. Onward(t, c)
    <2>1. Whole(b)
      BY <1>3 DEF Onward
    <2>2. Rec(c) /\ Same(b, c, {"cont"})
      BY <2>1 DEF Whole, Rec, Same, Fields
    <2> HIDE DEF c
    <2> QED BY <1>3, <2>1, <2>2, FieldsAside, OnwardTrans DEF OperationFields, Aside, Silently
  <1> HIDE DEF c
  <1>5. Onward(t, d)
    <2>1. Whole(c)
      BY <1>4 DEF Onward
    <2>2. Rec(d) /\ Same(c, d, {"capture"})
      BY <2>1 DEF Whole, Rec, Same, Fields
    <2> HIDE DEF d
    <2> QED BY <1>4, <2>1, <2>2, FieldsAside, OnwardTrans DEF OperationFields, Aside, Silently
  <1> HIDE DEF d
  <1>6. Onward(t, e)
    BY <1>5, StopGuidingOnward, OnwardNext
  <1> HIDE DEF e
  <1> QED BY <1>1, <1>3, <1>4, <1>6, FinishStopOnward, OnwardNext

LEMMA StartLoopingOnward == ASSUME NEW t, Whole(t) PROVE Onward(t, StartLooping(t))
  BY StartCapturingAside, StopGuidingOnward, AsideSelf DEF StartLooping, Aside, Silently

\* A capture error resets the guider and aborts the operation.
LEMMA CaptureFailedOnward == ASSUME NEW t, Whole(t) PROVE Onward(t, CaptureFailed(t))
  <1> DEFINE a == StopCapturing(t)
             b == IF IsCalibratingOrGuiding(a) THEN StopGuiding(a) ELSE a
             c == [b EXCEPT !.single = FALSE]
             d == Reset(Tell(c, "LoopingStopped"))
             e == [d EXCEPT !.capture = d.cont]
  <1>1. CaptureFailed(t) = AbortController(e)
    BY DEF CaptureFailed
  <1>2. Onward(t, a)
    BY StopCapturingOnward
  <1> HIDE DEF a
  <1>3. Onward(t, b)
    BY <1>2, StopGuidingOnward, OnwardNext
  <1> HIDE DEF b
  <1>4. Onward(t, c)
    <2>1. Whole(b)
      BY <1>3 DEF Onward
    <2>2. Rec(c) /\ Same(b, c, {"single"})
      BY <2>1 DEF Whole, Rec, Same, Fields
    <2> HIDE DEF c
    <2> QED BY <1>3, <2>1, <2>2, FieldsAside, OnwardTrans DEF OperationFields, Aside, Silently
  <1> HIDE DEF c
  <1>5. Onward(t, Tell(c, "LoopingStopped"))
    BY <1>4, TellAside, OnwardNext DEF Aside, Silently
  <1>6. Onward(t, d)
    BY <1>5, UninitializeAside, OnwardNext DEF Aside, Silently, Reset
  <1> HIDE DEF d
  <1>7. Onward(t, e)
    <2>1. Whole(d)
      BY <1>6 DEF Onward
    <2>2. Rec(e) /\ Same(d, e, {"capture"})
      BY <2>1 DEF Whole, Rec, Same, Fields
    <2> HIDE DEF e
    <2> QED BY <1>6, <2>1, <2>2, FieldsAside, OnwardTrans DEF OperationFields, Aside, Silently
  <1> HIDE DEF e
  <1> QED BY <1>1, <1>7, AbortOnward, OnwardNext

\* A new image goes to the guider first and then to the controller.
LEMMA NewImageOnward ==
    ASSUME NEW t, Whole(t), t.ctl # "SETUP", NEW sky \in Sky
    PROVE  Onward(t, NewImage(t, sky))
  <1> DEFINE a == [t EXCEPT !.image = TRUE]
             b == UpdateGuideState(a, sky, ~t.cont)
             c == UpdateControllerState(b, sky)
             d == [c EXCEPT !.capture = c.cont]
  <1>1. NewImage(t, sky) \in {ScheduleExposure(d), FinishStop(d)}
    BY DEF NewImage
  <1>2. Onward(t, a)
    <2>1. Rec(a) /\ Same(t, a, {"image"})
      BY DEF Whole, Rec, Same, Fields
    <2> HIDE DEF a
    <2> QED BY <2>1, FieldsAside DEF OperationFields, Aside, Silently
  <1> HIDE DEF a
  <1>3. Onward(t, b)
    <2>1. Whole(a) /\ (~t.cont) \in BOOLEAN
      BY <1>2 DEF Onward
    <2>2. Onward(a, b)
      BY <2>1, FrameOnward
    <2> QED BY <1>2, <2>2, OnwardTrans
  <1> HIDE DEF b
  <1>4. Onward(t, c)
    <2>1. Whole(b) /\ b.ctl # "SETUP"
      BY <1>3 DEF Onward
    <2> QED BY <1>3, <2>1, ControllerSilently, OnwardTrans DEF Silently
  <1> HIDE DEF c
  <1>5. Onward(t, d)
    <2>1. Whole(c)
      BY <1>4 DEF Onward
    <2>2. Rec(d) /\ Same(c, d, {"capture"})
      BY <2>1 DEF Whole, Rec, Same, Fields
    <2> HIDE DEF d
    <2> QED BY <1>4, <2>1, <2>2, FieldsAside, OnwardTrans DEF OperationFields, Aside, Silently
  <1> HIDE DEF d
  <1> QED BY <1>1, <1>5, ExposureAside, FinishStopOnward, OnwardNext DEF Aside, Silently

LEMMA OnExposeCompleteOnward ==
    ASSUME NEW t, Whole(t), t.ctl # "SETUP", NEW err \in BOOLEAN, NEW sky \in Sky
    PROVE  Onward(t, OnExposeComplete(t, err, sky))
  <1> DEFINE a == [t EXCEPT !.pending = FALSE]
  <1>1. OnExposeComplete(t, err, sky) \in {a, CaptureFailed(a), NewImage(a, sky)}
    BY DEF OnExposeComplete
  <1>2. Onward(t, a)
    <2>1. Rec(a) /\ Same(t, a, {"pending"})
      BY DEF Whole, Rec, Same, Fields
    <2> HIDE DEF a
    <2> QED BY <2>1, FieldsAside DEF OperationFields, Aside, Silently
  <1> HIDE DEF a
  <1>3. Whole(a) /\ a.ctl # "SETUP"
    BY <1>2 DEF Onward
  <1> QED BY <1>1, <1>2, <1>3, CaptureFailedOnward, NewImageOnward, OnwardTrans

\* A reconnection schedules an exposure, or fails the one that waits for it.
LEMMA DoTryReconnectOnward ==
    ASSUME NEW t, Whole(t), t.ctl # "SETUP", NEW reconnected \in BOOLEAN
    PROVE  Onward(t, DoTryReconnect(t, reconnected))
  <1> DEFINE a == [t EXCEPT !.camera = reconnected]
             b == [a EXCEPT !.pending = FALSE]
  <1>1. DoTryReconnect(t, reconnected) \in
           {ScheduleExposure(b), OnExposeComplete(a, TRUE, NoSky)}
    BY DEF DoTryReconnect
  <1>2. Onward(t, a)
    <2>1. Rec(a) /\ Same(t, a, {"camera"})
      BY DEF Whole, Rec, Same, Fields
    <2> HIDE DEF a
    <2> QED BY <2>1, FieldsAside DEF OperationFields, Aside, Silently
  <1> HIDE DEF a
  <1>3. Whole(a) /\ a.ctl # "SETUP"
    BY <1>2 DEF Onward
  <1>4. Onward(t, b)
    <2>1. Rec(b) /\ Same(a, b, {"pending"})
      BY <1>3 DEF Whole, Rec, Same, Fields
    <2> HIDE DEF b
    <2> QED BY <1>2, <1>3, <2>1, FieldsAside, OnwardTrans DEF OperationFields, Aside, Silently
  <1> HIDE DEF b
  <1>5. Onward(t, ScheduleExposure(b))
    BY <1>4, ExposureAside, OnwardNext DEF Aside, Silently
  <1>6. Onward(t, OnExposeComplete(a, TRUE, NoSky))
    BY <1>2, <1>3, OnExposeCompleteOnward, OnwardTrans, SkiesGood
  <1> QED BY <1>1, <1>5, <1>6

\* A move that failed may stop guiding, or start it again.
LEMMA MoveFailedOnward ==
    ASSUME NEW t, Whole(t), NEW result PROVE Onward(t, MoveFailed(t, result))
  <1> DEFINE a == StopGuiding(t)
  <1>1. MoveFailed(t, result) \in {t, a, GuiderStart(a)}
    BY DEF MoveFailed
  <1>2. Onward(t, a)
    BY StopGuidingOnward
  <1> HIDE DEF a
  <1>3. Onward(t, GuiderStart(a))
    BY <1>2, GuiderStartAside, OnwardNext DEF Aside, Silently
  <1>4. Onward(t, t)
    BY AsideSelf DEF Aside, Silently
  <1> QED BY <1>1, <1>2, <1>3, <1>4

\* The last outstanding move tells of the end of guiding, and answers with it.
LEMMA OnMoveCompleteOnward ==
    ASSUME NEW t, Whole(t), NEW move, NEW result
    PROVE  Onward(t, OnMoveComplete(t, move, result))
  <1> DEFINE m == move.mount
             a == [t EXCEPT !.busy[m] = IF @ > 0 THEN @ - 1 ELSE 0]
             b == Check(a, "request count", t.busy[m] > 0)
             c == [b EXCEPT !.step[m] = FALSE]
             d == LogGuideStepInfo(b, m)
             e == IF ~IsCalibratingOrGuiding(d) /\ MountsIdle(d)
                  THEN NotifyGuidingStopped(d) ELSE d
  <1>1. OnMoveComplete(t, move, result) \in {t, MoveFailed(e, result)}
    BY DEF OnMoveComplete
  <1>2. Onward(t, a)
    <2>1. Rec(a) /\ Same(t, a, {"busy"})
      BY DEF Whole, Rec, Same, Fields
    <2> HIDE DEF a
    <2> QED BY <2>1, FieldsAside DEF OperationFields, Aside, Silently
  <1> HIDE DEF a
  <1>3. Onward(t, b)
    BY <1>2, CheckAside, OnwardNext DEF Aside, Silently
  <1> HIDE DEF b
  <1>4. Onward(t, c)
    <2>1. Whole(b)
      BY <1>3 DEF Onward
    <2>2. Rec(c) /\ Same(b, c, {"step"})
      BY <2>1 DEF Whole, Rec, Same, Fields
    <2> HIDE DEF c
    <2> QED BY <1>3, <2>1, <2>2, FieldsAside, OnwardTrans DEF OperationFields, Aside, Silently
  <1>5. Onward(t, d)
    <2>1. d \in {b, Tell(c, "GuideStep")}
      BY DEF LogGuideStepInfo
    <2> HIDE DEF c, d
    <2> QED BY <1>3, <1>4, <2>1, TellAside, OnwardNext DEF Aside, Silently
  <1> HIDE DEF d
  <1>6. Onward(t, e)
    BY <1>5, StoppedOnward, OnwardNext
  <1> HIDE DEF e
  <1>7. Onward(t, MoveFailed(e, result))
    BY <1>6, MoveFailedOnward, OnwardNext
  <1> QED BY <1>1, <1>7, AsideSelf DEF Aside, Silently
-------------------------------------------------------------------------------
(* The steps of the session.                                               *)

\* An operation is named while the controller is not idle, and the Dec guide mode is
\* overridden only while it settles.
OperationInv ==
    /\ s.ctl = "IDLE" <=> s.op = "none"
    /\ s.ctl # "SETTLE_WAIT" => ~s.override

\* What the session's invariant says of the record between handlers.
LEMMA SoundWhole ==
    ASSUME Sound
    PROVE  /\ Whole(s) /\ s.ctl \in Resting /\ s.ctl # "SETUP"
           /\ AnswersKept(s) /\ DecKept(s) /\ s.client \in Listeners
           /\ s.override \in BOOLEAN /\ (s.gs = "GUIDING" => s.client.guiding = TRUE)
  <1>1. Rec(s) /\ Typed(s) /\ AnswersKept(s) /\ DecKept(s) /\ Guided(s) /\ s.ctl \in Resting
    BY DEF Sound, Good, Core
  <1>2. s.client \in Listeners /\ s.gs \in GuiderStates /\ s.override \in BOOLEAN
    BY <1>1 DEF Typed
  <1>3. Hearing(s.client) /\ (s.gs = "GUIDING" => s.client.guiding = TRUE)
    BY <1>1, <1>2 DEF Hearing, Listeners, Guided
  <1> QED BY <1>1, <1>2, <1>3 DEF Whole, Resting

\* The same of the next state, as far as it is needed.
LEMMA SoundKept ==
    ASSUME Sound'
    PROVE  /\ s'.ctl \in Resting /\ AnswersKept(s') /\ DecKept(s')
           /\ s'.client \in Listeners /\ s'.override \in BOOLEAN
  BY DEF Sound, Good, Core, Typed

\* The phase a client sees is the controller's.
Shown(ctl) == IF ctl = "IDLE" THEN "idle"
              ELSE IF ctl = "SETTLE_WAIT" THEN "settling" ELSE "waiting"
\* The listener's counts show it (AnswersKept).
LEMMA ShownIs ==
    ASSUME NEW owed, NEW settling, NEW ctl, owed = IF ctl = "IDLE" THEN 0 ELSE 1,
           settling = (ctl = "SETTLE_WAIT")
    PROVE  Shown(ctl) = CASE owed = 0 -> "idle"
                          [] owed # 0 /\ settling -> "settling"
                          [] owed # 0 /\ ~settling -> "waiting"
  <1>1. CASE ctl = "IDLE"
    BY <1>1 DEF Shown
  <1>2. CASE ctl = "SETTLE_WAIT"
    <2>1. owed = 1 /\ settling = TRUE
      BY <1>2
    <2> QED BY <1>2, <2>1 DEF Shown
  <1>3. CASE ctl \notin {"IDLE", "SETTLE_WAIT"}
    <2>1. owed = 1 /\ settling = FALSE
      BY <1>3
    <2> QED BY <1>3, <2>1 DEF Shown
  <1> QED BY <1>1, <1>2, <1>3
LEMMA PhaseShown == ASSUME Sound PROVE Phase = Shown(s.ctl)
  BY SoundWhole, ShownIs DEF AnswersKept, Phase
LEMMA PhaseShownNext == ASSUME Sound' PROVE Phase' = Shown(s'.ctl)
  BY SoundKept, ShownIs DEF AnswersKept, Phase

\* A step that takes the operation further is one that Operations allows: settling begins,
\* it is answered, or nothing is seen of it but guiding that starts or stops.
LEMMA OnwardAllowed ==
    ASSUME Sound, Sound', OperationInv, Onward(s, s')
    PROVE  OperationInv' /\ [Ops!Next]_Ops!vars
  <1> DEFINE told == s.client.guiding
             tells == s'.client.guiding
  <1>1. /\ s.ctl \in Resting /\ s'.ctl \in Resting /\ told \in BOOLEAN /\ tells \in BOOLEAN
        /\ DecKept(s) /\ DecKept(s') /\ s.override \in BOOLEAN /\ s'.override \in BOOLEAN
        /\ Phase = Shown(s.ctl) /\ Phase' = Shown(s'.ctl)
    BY SoundWhole, SoundKept, PhaseShown, PhaseShownNext DEF Listeners
  <1>2. /\ s.ctl = "IDLE" => s'.ctl = "IDLE"
        /\ s.ctl = "SETTLE_WAIT" => s'.ctl \in {"SETTLE_WAIT", "IDLE"}
        /\ s'.op = IF s'.ctl = "IDLE" /\ s.ctl # "IDLE" THEN "none" ELSE s.op
        /\ told => tells \/ s'.ctl = "IDLE"
        /\ s'.override => s.override
        /\ s.ctl = "SETTLE_WAIT" /\ s'.ctl = "SETTLE_WAIT" => s'.dec = s.dec
    BY DEF Onward
  <1> HIDE DEF told, tells
  <1>3. /\ s.ctl # "SETTLE_WAIT" => s.dec = UserDecMode
        /\ s'.ctl # "SETTLE_WAIT" => ~s'.override /\ s'.dec = UserDecMode
        /\ ~s.override => s'.dec = UserDecMode
    BY <1>1, <1>2 DEF DecKept, OperationInv
  <1>4. OperationInv'
    BY <1>2, <1>3 DEF OperationInv
  <1>5. CASE s.ctl # "IDLE" /\ s'.ctl = "IDLE"
    <2>1. Ops!Answer
      BY <1>1, <1>2, <1>3, <1>5 DEF Ops!Answer, Shown, told, tells
    <2> QED BY <1>4, <2>1 DEF Ops!Next
  <1>6. CASE s.ctl \notin {"IDLE", "SETTLE_WAIT"} /\ s'.ctl = "SETTLE_WAIT"
    <2>1. Ops!Settle
      BY <1>1, <1>2, <1>3, <1>6 DEF Ops!Settle, Shown, OperationInv, told, tells
    <2> QED BY <1>4, <2>1 DEF Ops!Next
  <1>7. CASE Shown(s'.ctl) = Shown(s.ctl)
    <2>1. Phase' = Phase /\ s'.op = s.op /\ s'.dec = s.dec
      BY <1>1, <1>2, <1>3, <1>7 DEF Shown, OperationInv
    <2>2. CASE told = tells
      BY <1>4, <2>1, <2>2 DEF Ops!vars, told, tells
    <2>3. CASE ~told /\ tells
      <3>1. Ops!GuidingStarts
        BY <1>1, <2>1, <2>3 DEF Ops!GuidingStarts, told, tells
      <3> QED BY <1>4, <3>1 DEF Ops!Next
    <2>4. CASE told /\ ~tells
      <3>1. Ops!GuidingStops
        BY <1>1, <1>2, <1>7, <2>1, <2>4 DEF Ops!GuidingStops, Shown, told, tells
      <3> QED BY <1>4, <3>1 DEF Ops!Next
    <2> QED BY <1>1, <2>2, <2>3, <2>4
  <1> QED BY <1>2, <1>5, <1>6, <1>7 DEF Shown
-------------------------------------------------------------------------------
(* Every step but the commands that begin an operation takes it further.   *)

\* A command that changes fields that are not the operation's.
LEMMA AsideOnward == ASSUME NEW t, NEW u, Aside(t, u) PROVE Onward(t, u)
  BY DEF Aside, Silently

\* The commands of the frame.
LEMMA CaptureCommandsOnward ==
    ASSUME Whole(s),
           Loop \/ Stop \/ PauseGuiding \/ PauseFull \/ Resume \/ SingleFrame \/ Connect
    PROVE  Onward(s, s')
  <1>1. CASE Loop
    BY <1>1, StartLoopingOnward DEF Loop, Command
  <1>2. CASE Stop
    BY <1>2, StopCapturingOnward DEF Stop, Command
  <1>3. CASE PauseGuiding \/ PauseFull \/ Resume
    BY <1>3, SetPausedOnward DEF PauseGuiding, PauseFull, Resume, Command
  <1>4. CASE SingleFrame
    <2> DEFINE a == [s EXCEPT !.single = TRUE]
    <2>1. s' = StartCapturing(a)
      BY <1>4 DEF SingleFrame, Command
    <2>2. Rec(a) /\ Same(s, a, {"single"})
      BY DEF Whole, Rec, Same, Fields
    <2> HIDE DEF a
    <2>3. Onward(s, a)
      BY <2>2, FieldsAside, AsideOnward DEF OperationFields
    <2> QED BY <2>1, <2>3, StartCapturingAside, AsideOnward, OnwardNext
  <1>5. CASE Connect
    <2> DEFINE a == [s EXCEPT !.camera = TRUE]
    <2>1. s' = a
      BY <1>5 DEF Connect, Command
    <2>2. Rec(a) /\ Same(s, a, {"camera"})
      BY DEF Whole, Rec, Same, Fields
    <2> HIDE DEF a
    <2> QED BY <2>1, <2>2, FieldsAside, AsideOnward DEF OperationFields
  <1> QED BY <1>1, <1>2, <1>3, <1>4, <1>5

\* The commands of the guider and of the mounts.
LEMMA GuiderCommandsOnward ==
    ASSUME Whole(s),
           \/ GuideButton \/ StartGuidingCompat \/ FindStar \/ DeselectStar
           \/ Click \/ ShiftClick \/ ClearCalibration \/ MultiStar \/ GuidePulse
    PROVE  Onward(s, s')
  <1>1. CASE GuideButton
    <2>1. s' \in {Uninitialize(s), StartGuiding(s)}
      BY <1>1 DEF GuideButton, Command, Reset
    <2> QED BY <2>1, UninitializeAside, StartGuidingAside, AsideOnward
  <1>2. CASE StartGuidingCompat
    BY <1>2, StartGuidingAside, AsideOnward DEF StartGuidingCompat, Command
  <1>3. CASE FindStar
    BY <1>3, AutoSelectAside, AsideOnward, SkiesGood DEF FindStar, Command
  <1>4. CASE DeselectStar
    BY <1>4, FullResetAside, AsideOnward DEF DeselectStar, Command
  <1>5. CASE Click
    <2>1. PICK found \in BOOLEAN : s' = ClickSelect(s, found)
      BY <1>5 DEF Click, Command
    <2> DEFINE a == ClickSelect(s, found)
    <2>2. Rec(a) /\ Same(s, a, {"gs", "star", "lock", "cal"}) /\ a.gs = "SELECTED"
      BY DEF ClickSelect, Whole, Rec, Same, Fields
    <2> HIDE DEF a
    <2>3. Aside(s, a)
      BY <2>2, GuiderAside DEF GuiderStates
    <2> QED BY <2>1, <2>3, AsideOnward DEF a
  <1>6. CASE ShiftClick
    BY <1>6, DropStarAside, AsideOnward DEF ShiftClick, Command
  <1>7. CASE ClearCalibration
    <2> DEFINE a == [s EXCEPT !.cal = [m \in Mounts |-> FALSE]]
    <2>1. s' = a
      BY <1>7 DEF ClearCalibration, Command
    <2>2. Rec(a) /\ Same(s, a, {"cal"})
      BY DEF Whole, Rec, Same, Fields
    <2> HIDE DEF a
    <2> QED BY <2>1, <2>2, FieldsAside, AsideOnward DEF OperationFields
  <1>8. CASE MultiStar
    BY <1>8, MultiStarOnward, SkiesGood DEF MultiStar, Command
  <1>9. CASE GuidePulse
    BY <1>9, MoveAside, AsideOnward DEF GuidePulse, Command
  <1> QED BY <1>1, <1>2, <1>3, <1>4, <1>5, <1>6, <1>7, <1>8, <1>9

\* What the workers report.
LEMMA EventsOnward ==
    ASSUME Whole(s), s.ctl # "SETUP", Gui PROVE Onward(s, s')
  <1>1. CASE HandleImage
    BY <1>1, OnExposeCompleteOnward, SkiesGood DEF HandleImage
  <1>2. CASE HandleCaptureError
    BY <1>2, OnExposeCompleteOnward, SkiesGood DEF HandleCaptureError
  <1>3. CASE HandleReconnect
    BY <1>3, DoTryReconnectOnward DEF HandleReconnect
  <1>4. CASE HandleMoveComplete
    BY <1>4, OnMoveCompleteOnward DEF HandleMoveComplete
  <1> QED BY <1>1, <1>2, <1>3, <1>4 DEF Gui

\* A worker takes from the queues, and leaves a step to report.
LEMMA WorkersOnward ==
    ASSUME Whole(s), PrimaryWorker \/ SecondaryWorker \/ SettleTimeLimit
    PROVE  Onward(s, s')
  <1>1. ASSUME NEW m, NEW r, NEW u, u = [s EXCEPT !.step[m] = r] PROVE Onward(s, u)
    <2>1. Rec(u) /\ Same(s, u, {"step"})
      BY <1>1 DEF Whole, Rec, Same, Fields
    <2> QED BY <2>1, FieldsAside, AsideOnward DEF OperationFields
  <1>2. CASE PrimaryTake
    <2>1. Rec(s') /\ Same(s, s', {"moves", "shots"})
      BY <1>2 DEF PrimaryTake, Whole, Rec, Same, Fields
    <2> QED BY <2>1, FieldsAside, AsideOnward DEF OperationFields
  <1>3. CASE PrimaryMove
    <2> DEFINE m == primary[1].mount
    <2>1. PICK recorded \in BOOLEAN, bump \in BOOLEAN :
             s' = LET t == [s EXCEPT !.step[m] = @ \/ recorded]
                  IN IF bump THEN ScheduleSecondaryMove(t) ELSE t
      BY <1>3 DEF PrimaryMove
    <2> DEFINE t == [s EXCEPT !.step[m] = @ \/ recorded]
               a == ScheduleSecondaryMove(t)
    <2>2. s' \in {t, a}
      BY <2>1
    <2>3. Onward(s, t)
      BY <1>1
    <2> HIDE DEF t
    <2>4. Whole(t)
      BY <2>3 DEF Onward
    <2>5. Rec(a) /\ Same(t, a, {"busy", "pulses", "failed"})
      BY <2>4, ZenonT(60)
         DEF ScheduleSecondaryMove, IncrementRequestCount, Check, Whole, Rec, Same, Fields
    <2> HIDE DEF a
    <2>6. Onward(t, a)
      BY <2>4, <2>5, FieldsAside, AsideOnward DEF OperationFields
    <2> QED BY <2>2, <2>3, <2>6, OnwardTrans
  <1>4. CASE PrimaryExpose({"ok", "error", "reconnect"})
    <2>1. PICK camera \in BOOLEAN : s' = [s EXCEPT !.camera = camera]
      BY <1>4 DEF PrimaryExpose
    <2>2. Rec(s') /\ Same(s, s', {"camera"})
      BY <2>1 DEF Whole, Rec, Same, Fields
    <2> QED BY <2>2, FieldsAside, AsideOnward DEF OperationFields
  <1>5. CASE SecondaryTake
    <2>1. Rec(s') /\ Same(s, s', {"pulses"})
      BY <1>5 DEF SecondaryTake, Whole, Rec, Same, Fields
    <2> QED BY <2>1, FieldsAside, AsideOnward DEF OperationFields
  <1>6. CASE SecondaryMove
    <2>1. PICK recorded \in BOOLEAN :
             s' = [s EXCEPT !.step[secondary[1].mount] = @ \/ recorded]
      BY <1>6 DEF SecondaryMove
    <2> QED BY <1>1, <2>1
  <1>7. CASE SettleTimeLimit
    <2>1. Rec(s') /\ Same(s, s', {"late"})
      BY <1>7 DEF SettleTimeLimit, Whole, Rec, Same, Fields
    <2> QED BY <2>1, FieldsAside, AsideOnward DEF OperationFields
  <1> QED BY <1>2, <1>3, <1>4, <1>5, <1>6, <1>7 DEF PrimaryWorker, SecondaryWorker
-------------------------------------------------------------------------------
(* The commands that begin an operation.                                   *)

\* Guide and its first attempt, which may fail at once.
LEMMA GuideAllowed ==
    ASSUME Sound, Sound', OperationInv, GuideOperation
    PROVE  OperationInv' /\ [Ops!Next]_Ops!vars
  <1>1. PICK force \in BOOLEAN, sky \in AutoSkies : s' = Guide(s, force, sky)
    BY DEF GuideOperation, Command
  <1>2. sky \in Sky /\ s.ctl = "IDLE"
    BY SkiesGood DEF GuideOperation
  <1> DEFINE a == [Accept(s) EXCEPT !.ctl = "SETUP", !.op = "guide", !.force = force]
             mid == [a EXCEPT !.attempts = MaxAttempts, !.override = FALSE]
  <1>3. s' = AttemptStart(mid, sky)
    BY <1>1 DEF Guide, Setup
  <1>4. /\ Rec(mid) /\ mid.client = [s.client EXCEPT !.owed = @ + 1] /\ mid.gs = s.gs
        /\ mid.ctl = "SETUP" /\ mid.op = "guide" /\ mid.override = FALSE
    BY SoundWhole DEF Accept, Whole, Rec, Fields
  <1> HIDE DEF mid
  <1>5. /\ Whole(mid) /\ mid.ctl \in WaitingStates /\ mid.client.guiding = s.client.guiding
    BY <1>4, SoundWhole DEF Whole, Hearing, WaitingStates, Starting
  <1>6. Silently(mid, s')
    BY <1>2, <1>3, <1>5, AttemptStartSilently
  <1>7. /\ s'.op = IF s'.ctl = "IDLE" THEN "none" ELSE "guide"
        /\ s'.client.guiding = s.client.guiding
        /\ s'.override => mid.override
    BY <1>4, <1>5, <1>6 DEF Silently, Onward
  <1>8. ~s.override /\ s.dec = UserDecMode /\ s'.override = FALSE /\ s'.dec = UserDecMode
    BY <1>2, <1>4, <1>7, SoundWhole, SoundKept DEF DecKept
  <1>9. OperationInv'
    BY <1>7, <1>8 DEF OperationInv
  <1>10. Phase = "idle" /\ Phase' = Shown(s'.ctl) /\ s.op = "none"
    BY <1>2, PhaseShown, PhaseShownNext DEF Shown, OperationInv
  <1>11. CASE s'.ctl = "IDLE"
    <2>1. Phase' = Phase /\ s'.op = s.op /\ s'.dec = s.dec
      BY <1>7, <1>8, <1>10, <1>11 DEF Shown
    <2> QED BY <1>7, <1>9, <2>1 DEF Ops!vars
  <1>12. CASE s'.ctl # "IDLE"
    <2>1. Phase' \in {"waiting", "settling"}
      BY <1>10, <1>12 DEF Shown
    <2>2. Ops!Guide
      BY <1>7, <1>8, <1>10, <1>12, <2>1 DEF Ops!Guide
    <2> QED BY <1>9, <2>2 DEF Ops!Next
  <1> QED BY <1>11, <1>12

\* PhdController::Dither settles at once, with the Dec guide mode overridden if the
\* other direction is needed.
LEMMA DitherShown ==
    ASSUME NEW t, Whole(t), NEW op, NEW raOnly \in BOOLEAN
    PROVE  LET u == Dither(t, op, raOnly)
           IN /\ u.ctl = "SETTLE_WAIT" /\ u.op = op
              /\ u.client.guiding = t.client.guiding
              /\ u.dec = IF OverridesDec(t, raOnly, op) THEN "AUTO" ELSE t.dec
  <1> DEFINE over == OverridesDec(t, raOnly, op)
             saved == IF HasAO \/ raOnly THEN "NONE" ELSE t.dec
             mid == [Accept(t) EXCEPT !.ctl = "SETTLE_BEGIN", !.op = op,
                                      !.override = over, !.saveDec = saved]
  <1>1. Dither(t, op, raOnly) = SettleBegin(mid)
    BY DEF Dither
  <1> HIDE DEF over, saved
  <1>2. /\ Rec(mid) /\ mid.client = [t.client EXCEPT !.owed = @ + 1] /\ mid.gs = t.gs
        /\ mid.ctl = "SETTLE_BEGIN" /\ mid.op = op /\ mid.override = over
        /\ mid.dec = t.dec
    BY DEF Accept, Whole, Rec, Fields
  <1> HIDE DEF mid
  <1>3. Whole(mid) /\ mid.ctl \in WaitingStates /\ mid.client.guiding = t.client.guiding
    BY <1>2 DEF Whole, Hearing, WaitingStates, Resting
  <1>4. /\ Silently(mid, SettleBegin(mid)) /\ SettleBegin(mid).ctl = "SETTLE_WAIT"
        /\ SettleBegin(mid).dec = IF mid.override THEN "AUTO" ELSE mid.dec
    BY <1>3, SettleBeginSilently
  <1>5. SettleBegin(mid).op = op
    BY <1>2, <1>4 DEF Silently, Onward
  <1> QED BY <1>1, <1>2, <1>3, <1>4, <1>5 DEF Silently, over

\* PhdController::Dither, which needs a guider that guides, and so a listener who knows.
LEMMA DitherAllowed ==
    ASSUME Sound, Sound', OperationInv, DitherOperation
    PROVE  OperationInv' /\ [Ops!Next]_Ops!vars
  <1>1. PICK raOnly \in BOOLEAN : s' = Dither(s, "dither", raOnly)
    BY DEF DitherOperation, Command
  <1>2. s.ctl = "IDLE" /\ s.gs = "GUIDING"
    BY DEF DitherOperation, DitherFails
  <1>3. /\ s'.ctl = "SETTLE_WAIT" /\ s'.op = "dither" /\ s'.client.guiding = s.client.guiding
        /\ s'.dec = IF OverridesDec(s, raOnly, "dither") THEN "AUTO" ELSE s.dec
    BY <1>1, SoundWhole, DitherShown
  <1>4. OperationInv'
    BY <1>3 DEF OperationInv
  <1>5. s.dec = UserDecMode /\ s.client.guiding = TRUE
    BY <1>2, SoundWhole DEF DecKept
  <1>6. Phase = "idle" /\ Phase' = "settling"
    BY <1>2, <1>3, PhaseShown, PhaseShownNext DEF Shown
  <1>7. s'.dec \in IF ~HasAO /\ UserDecMode = "NORTH" THEN {s.dec, "AUTO"} ELSE {s.dec}
    BY <1>3, <1>5 DEF OverridesDec
  <1>8. Ops!Dither("dither")
    BY <1>3, <1>5, <1>6, <1>7 DEF Ops!Dither
  <1> QED BY <1>4, <1>8 DEF Ops!Next

\* A phd1-style move, whatever the controller was doing.
LEMMA CompatAllowed ==
    ASSUME Sound, Sound', OperationInv, DitherCompat
    PROVE  OperationInv' /\ [Ops!Next]_Ops!vars
  <1> DEFINE t == AbortController(s)
             u == Dither(t, "compat", FALSE)
  <1>1. s' = IF DitherFails(t, TRUE) THEN t ELSE u
    BY DEF DitherCompat, Command
  <1>2. Silently(s, t) /\ t.ctl = "IDLE" /\ DecKept(t) /\ Guided(t)
    BY SoundWhole, AwayGood, AbortSilently, AbortGood DEF Good, Core
  <1> HIDE DEF t
  <1>3. CASE DitherFails(t, TRUE)
    BY <1>1, <1>2, <1>3, OnwardAllowed DEF Silently
  <1>4. CASE ~DitherFails(t, TRUE)
    <2>1. Whole(t) /\ t.client.guiding = s.client.guiding /\ s.client.guiding = TRUE
      <3>1. Whole(t) /\ t.client.guiding = s.client.guiding /\ t.client.guiding
        BY <1>2, <1>4 DEF Silently, Onward, Guided, DitherFails
      <3> QED BY <3>1, SoundWhole DEF Listeners
    <2>2. t.dec = UserDecMode
      BY <1>2 DEF DecKept
    <2>3. /\ s'.ctl = "SETTLE_WAIT" /\ s'.op = "compat"
          /\ s'.client.guiding = s.client.guiding /\ s'.dec = UserDecMode
      <3>1. s' = u
        BY <1>1, <1>4
      <3>2. ~OverridesDec(t, FALSE, "compat")
        BY DEF OverridesDec
      <3>3. /\ u.ctl = "SETTLE_WAIT" /\ u.op = "compat"
            /\ u.client.guiding = t.client.guiding /\ u.dec = t.dec
        BY <2>1, <3>2, DitherShown
      <3> QED BY <2>1, <2>2, <3>1, <3>3
    <2>4. OperationInv'
      BY <2>3 DEF OperationInv
    <2>5. Phase = Shown(s.ctl) /\ Phase' = "settling"
      BY <2>3, PhaseShown, PhaseShownNext DEF Shown
    <2>6. CASE s.ctl = "IDLE"
      <3>1. Phase = "idle" /\ s.dec = UserDecMode
        BY <2>5, <2>6, SoundWhole DEF DecKept, Shown
      <3>2. Ops!Dither("compat")
        BY <2>1, <2>3, <2>5, <3>1 DEF Ops!Dither
      <3> QED BY <2>4, <3>2 DEF Ops!Next
    <2>7. CASE s.ctl # "IDLE"
      <3>1. Phase # "idle"
        BY <2>5, <2>7 DEF Shown
      <3>2. Ops!Replace
        BY <2>1, <2>3, <2>5, <3>1 DEF Ops!Replace
      <3> QED BY <2>4, <3>2 DEF Ops!Next
    <2> QED BY <2>6, <2>7
  <1> QED BY <1>3, <1>4

-------------------------------------------------------------------------------
\* Every step of the session is one that Operations allows.
LEMMA NextAllowed ==
    ASSUME Sound, Sound', OperationInv, [Next]_vars
    PROVE  OperationInv' /\ [Ops!Next]_Ops!vars
  <1>1. Whole(s) /\ s.ctl # "SETUP"
    BY SoundWhole
  <1>2. CASE GuideOperation \/ DitherOperation \/ DitherCompat
    BY <1>2, GuideAllowed, DitherAllowed, CompatAllowed
  <1>3. CASE \/ Loop \/ Stop \/ PauseGuiding \/ PauseFull \/ Resume \/ SingleFrame
             \/ Connect \/ GuideButton \/ StartGuidingCompat \/ FindStar \/ DeselectStar
             \/ Click \/ ShiftClick \/ ClearCalibration \/ MultiStar \/ GuidePulse
    <2>1. Onward(s, s')
      BY <1>1, <1>3, CaptureCommandsOnward, GuiderCommandsOnward
    <2> QED BY <2>1, OnwardAllowed
  <1>4. CASE Gui \/ SettleTimeLimit \/ PrimaryWorker \/ SecondaryWorker
    <2>1. Onward(s, s')
      BY <1>1, <1>4, EventsOnward, WorkersOnward
    <2> QED BY <2>1, OnwardAllowed
  <1>5. CASE UNCHANGED vars
    <2>1. Onward(s, s')
      BY <1>1, <1>5, AsideSelf, AsideOnward DEF vars
    <2> QED BY <2>1, OnwardAllowed
  <1> QED BY <1>2, <1>3, <1>4, <1>5 DEF Next, UserCommand

\* A session begins as Operations does.
LEMMA InitAllowed == Init => Ops!Init /\ OperationInv
  <1> SUFFICES ASSUME Init PROVE Ops!Init /\ OperationInv
    OBVIOUS
  <1>1. /\ s.ctl = "IDLE" /\ s.op = "none" /\ s.override = FALSE /\ s.dec = UserDecMode
        /\ s.client.guiding = FALSE /\ s.client.owed = 0
    BY DEF Init, Connected
  <1>2. Phase = "idle"
    BY <1>1 DEF Phase
  <1> QED BY <1>1, <1>2 DEF Ops!Init, OperationInv

\* The guide session implements Operations: guide, dither and the phd1-style move begin,
\* settle, are replaced and answered in the order promised there, guiding stops only with
\* the operation answered, and another Dec guide mode than the user's lasts no longer
\* than the dither that needs it, whatever the commands, the sky, the camera and the
\* mounts do.
THEOREM OperationsImplemented == Spec => ImplementsOperations
  <1>1. SessionInv /\ SessionInv' /\ OperationInv /\ [Next]_vars
           => OperationInv' /\ [Ops!Next]_Ops!vars
    <2>1. SessionInv /\ SessionInv' => Sound /\ Sound'
      BY InvSound, InvSoundNext
    <2> QED BY <2>1, NextAllowed
  <1> QED BY <1>1, InitAllowed, SessionInvHolds, PTL DEF Spec, ImplementsOperations, Ops!Spec
===============================================================================
