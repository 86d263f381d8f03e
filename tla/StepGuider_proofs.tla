--------------------------- MODULE StepGuider_proofs ---------------------------
(***************************************************************************)
(* Proofs about StepGuider: for any travel, number of samples and size of  *)
(* steps the program knows where the mirror is and keeps it in its travel, *)
(* and its assertions hold, as long as nobody interferes.                  *)
(***************************************************************************)
EXTENDS StepGuider, TLAPS, SequenceTheorems, FiniteSetTheorems

-------------------------------------------------------------------------------
(* Directions and positions.                                               *)

LEMMA DirectionTypes ==
    /\ \A d \in Directions : Axis(d) \in Axes /\ Sign(d) \in {1, -1}
    /\ Origin \in Points
    /\ \A p, q \in Points : Plus(p, q) \in Points /\ Minus(p, q) \in Points
  BY DEF Directions, Axis, Sign, Axes, Origin, Points, Plus, Minus

\* What is left of the travel is a number, whatever the offset is.
LEMMA PositionTypes ==
    ASSUME TypeOK
    PROVE  /\ travel \in Nat \ {0}
           /\ \A d \in Directions : /\ offset[Axis(d)] \in Int
                                    /\ CurrentPosition(d) \in Int
                                    /\ Remaining(d) \in Int
  <1>1. travel \in Nat \ {0}
    BY StepGuiderAssumption DEF TypeOK
  <1>2. ASSUME NEW d \in Directions
        PROVE  /\ offset[Axis(d)] \in Int /\ CurrentPosition(d) \in Int
               /\ Remaining(d) \in Int
    <2>1. Axis(d) \in Axes /\ Sign(d) \in {1, -1} /\ offset[Axis(d)] \in Int
      BY DirectionTypes DEF TypeOK, Points
    <2>2. CurrentPosition(d) \in Int
      BY <2>1 DEF CurrentPosition
    <2> QED BY <1>1, <2>1, <2>2 DEF Remaining
  <1> QED BY <1>1, <1>2

-------------------------------------------------------------------------------
(* Types.                                                                  *)

PointsOK == travel \in Travels /\ offset \in Points /\ mirror \in Points
CallsOK == /\ call \in [Threads -> Calls]
           /\ \A t \in Threads :
                 call[t].at \in {"step", "load", "store"} => call[t].steps > 0
QueueOK == /\ queue \in Seq(Items) /\ serving \in Seq(Items) /\ Len(serving) <= 1
           /\ reports \in Seq({"ok", "error", "limit"})
FlagsOK == /\ centring \in {"no", "vertical", "horizontal"}
           /\ image \in {"none", "here", "elsewhere"}
           /\ guider \in {"idle", "calibrating", "guiding"}
           /\ errors \in 0..(MaxErrors + 1)
           /\ failed \subseteq {"steps remaining", "centred", "calibration state"}
           /\ undisturbed \in BOOLEAN
CalType == [state : CalibrationStates, samples : 0..(Samples - 1), sum : Points,
            start : Points, xRate : Rates, yRate : Rates, go : {{}}]

LEMMA TypeParts ==
    TypeOK <=> PointsOK /\ CallsOK /\ QueueOK /\ FlagsOK /\ cal \in CalType
  BY DEF TypeOK, PointsOK, CallsOK, QueueOK, FlagsOK, CalType

\* The steps that change the positions.
LEMMA PointsTyped ==
    ASSUME TypeOK, [Next]_vars
    PROVE  PointsOK'
  <1> USE TypeParts DEF PointsOK
  <1>1. \A t \in Threads : /\ call[t].dir \in Directions /\ Axis(call[t].dir) \in Axes
                           /\ Sign(call[t].dir) \in {1, -1}
                           /\ call[t].steps \in Int /\ call[t].seen \in Int
    BY DirectionTypes DEF CallsOK, Calls
  <1>2. ASSUME NEW t \in Threads, InMoveAxis(t)
        PROVE  PointsOK'
    <2>1. CASE CheckLimit(t) \/ StepFails(t) \/ LoadOffset(t)
      BY <2>1 DEF CheckLimit, StepFails, LoadOffset
    <2>2. CASE StepTaken(t)
      <3> DEFINE n == Sign(call[t].dir) * call[t].steps
      <3>1. n \in Int
        BY <1>1
      <3>2. mirror' = [mirror EXCEPT ![Axis(call[t].dir)] = @ + n]
            /\ UNCHANGED <<travel, offset>>
        BY <2>2 DEF StepTaken, MirrorTo
      <3> HIDE DEF n
      <3> QED BY <1>1, <3>1, <3>2 DEF Points
    <2>3. CASE StepLimitReached(t)
      BY <2>3, DirectionTypes DEF StepLimitReached, MirrorTo
    <2>4. CASE StoreOffset(t)
      <3> DEFINE n == call[t].seen + Sign(call[t].dir) * call[t].steps
      <3>1. n \in Int
        BY <1>1
      <3>2. offset' = [offset EXCEPT ![Axis(call[t].dir)] = n]
            /\ UNCHANGED <<travel, mirror>>
        BY <2>4 DEF StoreOffset
      <3> HIDE DEF n
      <3> QED BY <1>1, <3>1, <3>2 DEF Points
    <2> QED BY <1>2, <2>1, <2>2, <2>3, <2>4 DEF InMoveAxis
  <1>3. CASE Restart
    BY <1>3, DirectionTypes DEF Restart
  <1>4. CASE SetMaxPosition
    BY <1>4 DEF SetMaxPosition
  <1>5. CASE UNCHANGED <<travel, offset, mirror>>
    BY <1>5
  <1> QED BY <1>2, <1>3, <1>4, <1>5
          DEF Next, vars, StartGuiding, StopGuiding, ClearCalibration, ManualMove,
              ImageHandled, UpdateCalibrationState, ImageIgnored, GuideStep,
              CalibrationFails, CalibrationGoesOn, CalibrationHasNoState, Worker,
              TakeMove, NextAxis, MoveDone, Expose, OnMoveComplete, MoveEnded,
              LimitReached, Centre, CentreAxis, CentreMoved, Threads

\* Without the first of several elements there is still one.
LEMMA LongTail ==
    ASSUME NEW S, NEW q \in Seq(S), Len(q) > 1
    PROVE  Tail(q) # <<>> /\ Tail(q) \in Seq(S)
  <1>1. q # <<>> /\ Len(q) \in Nat
    BY LenProperties, EmptySeq
  <1>2. Tail(q) \in Seq(S) /\ Len(Tail(q)) = Len(q) - 1
    BY <1>1, HeadTailProperties
  <1>3. Len(Tail(q)) # 0
    BY <1>1, <1>2
  <1> QED BY <1>2, <1>3, EmptySeq

\* The moves that wait for the worker are moves it can make.
LEMMA ItemTypes ==
    /\ \A kind \in {"calibration", "guide", "manual"}, d \in Directions, n \in Nat :
          AxisMove(kind, d, n) \in Items
    /\ OffsetMove \in Items
    /\ \A item \in Items : /\ item.legs \in Seq(Legs) /\ item.legs # <<>>
                           /\ Len(item.legs) \in Nat \ {0}
                           /\ item.legs[1] \in Legs
                           /\ Len(item.legs) > 1 => /\ item.legs[2] \in Legs
                                                    /\ Tail(item.legs) # <<>>
                                                    /\ Tail(item.legs) \in Seq(Legs)
  <1>1. ASSUME NEW kind \in {"calibration", "guide", "manual"}, NEW d \in Directions,
               NEW n \in Nat
        PROVE  AxisMove(kind, d, n) \in Items
    <2> DEFINE leg == [dirs |-> {d}, steps |-> {n}]
    <2>1. leg \in Legs
      BY DEF Legs
    <2> HIDE DEF leg
    <2>2. <<leg>> \in Seq(Legs) \ {<<>>}
      BY <2>1
    <2> QED BY <2>2 DEF AxisMove, Items, leg
  <1>2. OffsetMove \in Items
    <2> DEFINE l == [dirs |-> {"LEFT", "RIGHT"}, steps |-> Amounts]
               m == [dirs |-> {"UP", "DOWN"}, steps |-> Amounts]
    <2>1. l \in Legs /\ m \in Legs
      BY StepGuiderAssumption DEF Legs, Directions
    <2> HIDE DEF l, m
    <2>2. <<l, m>> \in Seq(Legs) \ {<<>>}
      BY <2>1
    <2> QED BY <2>2 DEF OffsetMove, Items, l, m
  <1>3. ASSUME NEW item \in Items
        PROVE  /\ item.legs \in Seq(Legs) /\ item.legs # <<>>
               /\ Len(item.legs) \in Nat \ {0}
               /\ item.legs[1] \in Legs
               /\ Len(item.legs) > 1 => /\ item.legs[2] \in Legs
                                        /\ Tail(item.legs) # <<>>
                                        /\ Tail(item.legs) \in Seq(Legs)
    <2>1. item.legs \in Seq(Legs) /\ item.legs # <<>>
      BY DEF Items
    <2>2. Len(item.legs) \in Nat \ {0}
      BY <2>1, LenProperties, EmptySeq
    <2>3. \A i \in 1..Len(item.legs) : item.legs[i] \in Legs
      BY <2>1, ElementOfSeq
    <2>4. Len(item.legs) > 1 => Tail(item.legs) # <<>> /\ Tail(item.legs) \in Seq(Legs)
      BY <2>1, LongTail
    <2> QED BY <2>1, <2>2, <2>3, <2>4
  <1> QED BY <1>1, <1>2, <1>3

\* What is queued or being served is such a move.
LEMMA AheadTypes ==
    ASSUME TypeOK
    PROVE  /\ \A i \in DOMAIN queue : queue[i] \in Items
           /\ queue # <<>> => /\ Head(queue) \in Items /\ Tail(queue) \in Seq(Items)
           /\ serving # <<>> => serving[1] \in Items /\ serving = <<serving[1]>>
           /\ ItemsAhead = {queue[i] : i \in DOMAIN queue}
                              \cup (IF serving = <<>> THEN {} ELSE {serving[1]})
  <1>1. queue \in Seq(Items) /\ serving \in Seq(Items)
    BY DEF TypeOK
  <1>2. /\ DOMAIN queue = 1..Len(queue) /\ DOMAIN serving = 1..Len(serving)
        /\ Len(queue) \in Nat /\ Len(serving) \in Nat
    BY <1>1, LenProperties
  <1>3. /\ \A i \in DOMAIN queue : queue[i] \in Items
        /\ queue # <<>> => /\ Head(queue) \in Items /\ Tail(queue) \in Seq(Items)
    BY <1>1, <1>2, ElementOfSeq, HeadTailProperties
  <1>4. serving # <<>> => /\ serving[1] \in Items /\ serving = <<serving[1]>>
                          /\ DOMAIN serving = {1}
    <2> SUFFICES ASSUME serving # <<>>
                 PROVE  /\ serving[1] \in Items /\ serving = <<serving[1]>>
                        /\ DOMAIN serving = {1}
      OBVIOUS
    <2>1. Len(serving) = 1
      <3>1. Len(serving) # 0 /\ Len(serving) <= 1
        BY <1>1, EmptySeq DEF TypeOK
      <3> QED BY <1>2, <3>1
    <2>2. serving[1] \in Items
      BY <1>1, <2>1, ElementOfSeq
    <2> QED BY <1>1, <1>2, <2>1, <2>2
  <1>5. serving = <<>> => DOMAIN serving = {}
    OBVIOUS
  <1> QED BY <1>3, <1>4, <1>5 DEF ItemsAhead

\* A new call of MoveAxis, and what the steps of a call make of it.
CallOK(c) == c \in Calls /\ (c.at \in {"step", "load", "store"} => c.steps > 0)

LEMMA CallTypes ==
    /\ \A d \in Directions, n \in Nat : CallOK(MoveAxis(d, n))
    /\ CallOK(Idle)
    /\ CallsOK <=> call \in [Threads -> Calls] /\ \A t \in Threads : CallOK(call[t])
  <1>1. Idle \in Calls /\ Idle.at = "idle"
    BY DEF Idle, Calls, Directions
  <1>2. ASSUME NEW d \in Directions, NEW n \in Nat
        PROVE  CallOK(MoveAxis(d, n))
    <2>1. n \in Int
      OBVIOUS
    <2> QED BY <1>1, <2>1 DEF CallOK, MoveAxis, Calls
  <1>3. CallsOK <=> call \in [Threads -> Calls] /\ \A t \in Threads : CallOK(call[t])
    BY DEF CallsOK, CallOK
  <1> QED BY <1>1, <1>2, <1>3 DEF CallOK

LEMMA CallsTyped ==
    ASSUME TypeOK, call["worker"].at = "idle" <=> serving = <<>>, [Next]_vars
    PROVE  CallsOK'
  <1> USE TypeParts
  <1>1. ASSUME NEW t \in Threads, NEW c, CallOK(c), call' = [call EXCEPT ![t] = c]
        PROVE  CallsOK'
    BY <1>1, CallTypes DEF CallOK, CallsOK
  <1>2. ASSUME NEW t \in Threads, InMoveAxis(t)
        PROVE  CallsOK'
    <2>1. call[t] \in Calls /\ call[t].dir \in Directions
      BY DEF CallsOK, Calls
    <2>2. CASE CheckLimit(t)
      <3> DEFINE n == IF call[t].asked > 0 /\ WouldHitLimit(call[t].dir, call[t].asked)
                      THEN Remaining(call[t].dir) ELSE call[t].asked
      <3>1. n \in Int
        BY <2>1, PositionTypes DEF Calls
      <3>2. call' = [call EXCEPT ![t] = [call[t] EXCEPT
                        !.at = IF n > 0 THEN "step" ELSE "done", !.steps = n]]
        BY <2>2 DEF CheckLimit, CallsOK
      <3> HIDE DEF n
      <3>3. CallOK([call[t] EXCEPT !.at = IF n > 0 THEN "step" ELSE "done", !.steps = n])
        <4>1. CASE n > 0
          BY <2>1, <3>1, <4>1 DEF CallOK, Calls
        <4>2. CASE ~(n > 0)
          BY <2>1, <3>1, <4>2 DEF CallOK, Calls
        <4> QED BY <4>1, <4>2
      <3> QED BY <1>1, <3>2, <3>3
    <2>3. CASE StepTaken(t)
      <3>1. call' = [call EXCEPT ![t] = [call[t] EXCEPT !.at = "load"]]
            /\ call[t].steps > 0
        BY <2>3 DEF StepTaken, CallsOK
      <3>2. CallOK([call[t] EXCEPT !.at = "load"])
        BY <2>1, <3>1 DEF CallOK, Calls
      <3> QED BY <1>1, <3>1, <3>2
    <2>4. CASE StepFails(t) \/ StepLimitReached(t)
      <3>1. PICK r \in {"error", "limit"} :
               call' = [call EXCEPT ![t] = [call[t] EXCEPT !.at = "done", !.steps = 0,
                                                           !.result = r]]
        BY <2>4 DEF StepFails, StepLimitReached, CallsOK
      <3>2. 0 \in Int /\ r \in {"ok", "error", "limit"}
        OBVIOUS
      <3>3. [call[t] EXCEPT !.at = "done", !.steps = 0, !.result = r] \in Calls
        BY <2>1, <3>2 DEF Calls
      <3>4. CallOK([call[t] EXCEPT !.at = "done", !.steps = 0, !.result = r])
        BY <2>1, <3>3 DEF CallOK, Calls
      <3> QED BY <1>1, <3>1, <3>4
    <2>5. CASE LoadOffset(t)
      <3>1. call' = [call EXCEPT ![t] = [call[t] EXCEPT
                        !.at = "store", !.seen = offset[Axis(call[t].dir)]]]
            /\ call[t].steps > 0
        BY <2>5 DEF LoadOffset, CallsOK
      <3>2. offset[Axis(call[t].dir)] \in Int
        BY <2>1, PositionTypes
      <3>3. CallOK([call[t] EXCEPT !.at = "store", !.seen = offset[Axis(call[t].dir)]])
        BY <2>1, <3>1, <3>2 DEF CallOK, Calls
      <3> QED BY <1>1, <3>1, <3>3
    <2>6. CASE StoreOffset(t)
      <3>1. call' = [call EXCEPT ![t] = [call[t] EXCEPT !.at = "done", !.seen = 0]]
        BY <2>6 DEF StoreOffset, CallsOK
      <3>2. 0 \in Int
        OBVIOUS
      <3>3. CallOK([call[t] EXCEPT !.at = "done", !.seen = 0])
        BY <2>1, <3>2 DEF CallOK, Calls
      <3> QED BY <1>1, <3>1, <3>3
    <2> QED BY <1>2, <2>2, <2>3, <2>4, <2>5, <2>6 DEF InMoveAxis
  <1>3. ASSUME NEW leg \in Legs, Start(leg)
        PROVE  CallsOK'
    <2>1. PICK d \in leg.dirs, n \in leg.steps :
             call' = [call EXCEPT !["worker"] = MoveAxis(d, n)]
      BY <1>3 DEF Start
    <2>2. d \in Directions /\ n \in Nat
      BY DEF Legs
    <2> QED BY <1>1, <2>1, <2>2, CallTypes DEF Threads
  <1>4. CASE TakeMove
    <2>1. Start(Head(queue).legs[1]) /\ Head(queue).legs[1] \in Legs
      BY <1>4, AheadTypes, ItemTypes DEF TakeMove
    <2> QED BY <1>3, <2>1
  <1>5. CASE NextAxis
    <2>1. Start(serving[1].legs[2]) /\ serving[1].legs[2] \in Legs
      BY <1>5, AheadTypes, ItemTypes DEF NextAxis
    <2> QED BY <1>3, <2>1
  <1>6. CASE MoveDone
    <2>1. call' = [call EXCEPT !["worker"] = Idle]
      BY <1>6 DEF MoveDone
    <2> QED BY <1>1, <2>1, CallTypes DEF Threads
  <1>7. CASE CentreMoved
    <2>1. call' = [call EXCEPT !["gui"] = Idle]
      BY <1>7 DEF CentreMoved
    <2> QED BY <1>1, <2>1, CallTypes DEF Threads
  <1>8. CASE CentreAxis
    <2>1. offset["x"] \in Int /\ offset["y"] \in Int
      BY DEF PointsOK, Points, Axes
    <2> DEFINE a == IF centring = "vertical" THEN "y" ELSE "x"
               d == IF a = "y" THEN IF offset[a] > 0 THEN "DOWN" ELSE "UP"
                    ELSE IF offset[a] > 0 THEN "LEFT" ELSE "RIGHT"
               n == IF offset[a] > 0 THEN offset[a] ELSE -offset[a]
    <2>2. d \in Directions /\ n \in Nat
      BY <2>1 DEF Directions
    <2>3. call' = [call EXCEPT !["gui"] = MoveAxis(d, n)]
      BY <1>8 DEF CentreAxis
    <2> HIDE DEF d, n
    <2> QED BY <1>1, <2>2, <2>3, CallTypes DEF Threads
  <1>9. CASE Restart
    BY <1>9, CallTypes DEF Restart, CallsOK, CallOK
  <1>10. CASE UNCHANGED call
    BY <1>10 DEF CallsOK
  <1> QED BY <1>2, <1>4, <1>5, <1>6, <1>7, <1>8, <1>9, <1>10
          DEF Next, vars, StartGuiding, StopGuiding, ClearCalibration, ManualMove,
              SetMaxPosition, ImageHandled, UpdateCalibrationState, ImageIgnored,
              GuideStep, CalibrationFails, CalibrationGoesOn, CalibrationHasNoState,
              Worker, Expose, OnMoveComplete, MoveEnded, LimitReached, Centre, Threads

\* The worker's queue, the move it makes and the results it reports.
LEMMA QueueTyped ==
    ASSUME TypeOK, call["worker"].at = "idle" <=> serving = <<>>, [Next]_vars,
           CalibrationGoesOn => queue' \in Seq(Items)
    PROVE  QueueOK'
  <1>0. QueueOK
    BY TypeParts
  <1>1. CASE TakeMove
    <2>1. Head(queue) \in Items /\ Tail(queue) \in Seq(Items)
      BY <1>1, AheadTypes DEF TakeMove
    <2>2. <<Head(queue)>> \in Seq(Items) /\ Len(<<Head(queue)>>) <= 1
      BY <2>1
    <2> QED BY <1>0, <1>1, <2>1, <2>2 DEF TakeMove, QueueOK
  <1>2. CASE NextAxis
    <2>1. serving[1] \in Items /\ Len(serving[1].legs) > 1
      BY <1>2, AheadTypes DEF NextAxis
    <2> DEFINE rest == [serving[1] EXCEPT !.legs = Tail(serving[1].legs)]
    <2>2. rest \in Items
      <3>1. Tail(serving[1].legs) \in Seq(Legs) \ {<<>>}
        BY <2>1, ItemTypes
      <3> QED BY <2>1, <3>1 DEF Items
    <2>3. serving' = <<rest>> /\ UNCHANGED <<queue, reports>>
      BY <1>2 DEF NextAxis
    <2> HIDE DEF rest
    <2>4. <<rest>> \in Seq(Items) /\ Len(<<rest>>) <= 1
      BY <2>2
    <2> QED BY <1>0, <2>3, <2>4 DEF QueueOK
  <1>3. CASE MoveDone
    <2>1. call["worker"].result \in {"ok", "error", "limit"}
      BY DEF TypeOK, Calls, Threads
    <2>2. serving' = <<>> /\ queue' = queue
      BY <1>3 DEF MoveDone
    <2>3. PICK r \in {"ok", "error", "limit"} : reports' \in {reports, Append(reports, r)}
      BY <1>3, <2>1 DEF MoveDone
    <2>4. Append(reports, r) \in Seq({"ok", "error", "limit"})
      BY <1>0 DEF QueueOK
    <2> QED BY <1>0, <2>2, <2>3, <2>4, SMTT(60) DEF QueueOK
  <1>4. CASE ManualMove
    <2>1. PICK d \in Directions, n \in Amounts \cup {1} :
             queue' = Append(queue, AxisMove("manual", d, n))
      BY <1>4 DEF ManualMove
    <2>2. AxisMove("manual", d, n) \in Items
      BY ItemTypes, StepGuiderAssumption
    <2> QED BY <1>0, <1>4, <2>1, <2>2 DEF ManualMove, QueueOK
  <1>5. CASE GuideStep
    BY <1>0, <1>5, ItemTypes DEF GuideStep, QueueOK
  <1>6. CASE CalibrationGoesOn
    BY <1>0, <1>6 DEF CalibrationGoesOn, QueueOK
  <1>7. CASE OnMoveComplete
    <2>1. reports' = Tail(reports) /\ reports # <<>> /\ UNCHANGED <<queue, serving>>
      BY <1>7 DEF OnMoveComplete, MoveEnded, LimitReached
    <2>2. reports \in Seq({"ok", "error", "limit"})
      BY <1>0 DEF QueueOK
    <2>3. Tail(reports) \in Seq({"ok", "error", "limit"})
      BY <2>1, <2>2, HeadTailProperties
    <2> QED BY <1>0, <2>1, <2>3 DEF QueueOK
  <1>8. CASE Restart
    BY <1>8 DEF Restart, QueueOK
  <1>9. CASE UNCHANGED <<queue, serving, reports>>
    BY <1>0, <1>9 DEF QueueOK
  <1> QED BY <1>1, <1>2, <1>3, <1>4, <1>5, <1>6, <1>7, <1>8, <1>9
          DEF Next, vars, StartGuiding, StopGuiding, ClearCalibration, SetMaxPosition,
              ImageHandled, UpdateCalibrationState, ImageIgnored, CalibrationFails,
              CalibrationHasNoState, Worker, Expose, Centre, CentreAxis, CentreMoved,
              InMoveAxis, CheckLimit, StepTaken, StepFails, StepLimitReached, LoadOffset,
              StoreOffset

\* The places, the errors and the flags.
LEMMA FlagsTyped ==
    ASSUME TypeOK, [Next]_vars
    PROVE  FlagsOK'
  <1>0. /\ centring \in {"no", "vertical", "horizontal"}
        /\ image \in {"none", "here", "elsewhere"}
        /\ guider \in {"idle", "calibrating", "guiding"}
        /\ failed \subseteq {"steps remaining", "centred", "calibration state"}
        /\ undisturbed \in BOOLEAN
    BY DEF TypeOK
  <1>1. /\ centring' \in {"no", "vertical", "horizontal"}
        /\ image' \in {"none", "here", "elsewhere"}
        /\ guider' \in {"idle", "calibrating", "guiding"}
    <2>1. CASE \E t \in Threads : InMoveAxis(t)
      BY <1>0, <2>1 DEF InMoveAxis, CheckLimit, StepTaken, StepFails, StepLimitReached,
                        LoadOffset, StoreOffset, MirrorTo
    <2>2. CASE TakeMove \/ NextAxis \/ MoveDone \/ Expose \/ CentreAxis
      BY <1>0, <2>2 DEF TakeMove, NextAxis, MoveDone, Expose, CentreAxis
    <2>3. CASE CentreMoved
      BY <1>0, <2>3 DEF CentreMoved
    <2>4. CASE StartGuiding \/ StopGuiding \/ ClearCalibration
      BY <1>0, <2>4 DEF StartGuiding, StopGuiding, ClearCalibration
    <2>5. CASE ManualMove \/ SetMaxPosition
      BY <1>0, <2>5 DEF ManualMove, SetMaxPosition
    <2>6. CASE ImageIgnored \/ GuideStep \/ CalibrationFails \/ CalibrationHasNoState
      BY <1>0, <2>6 DEF ImageIgnored, GuideStep, CalibrationFails, CalibrationHasNoState
    <2>7. CASE CalibrationGoesOn
      BY <1>0, <2>7 DEF CalibrationGoesOn
    <2>8. CASE OnMoveComplete
      BY <1>0, <2>8 DEF OnMoveComplete, MoveEnded, LimitReached
    <2>9. CASE Restart \/ UNCHANGED vars
      BY <1>0, <2>9 DEF Restart, vars
    <2> QED BY <2>1, <2>2, <2>3, <2>4, <2>5, <2>6, <2>7, <2>8, <2>9
            DEF Next, Worker, Centre, Threads, ImageHandled, UpdateCalibrationState
  <1>2. errors' \in 0..(MaxErrors + 1)
    <2>0. errors \in 0..(MaxErrors + 1) /\ MaxErrors \in Nat
      BY StepGuiderAssumption DEF TypeOK
    <2>1. CASE errors' \in {errors, 0}
      BY <2>0, <2>1
    <2>2. CASE errors' = Smaller(errors + 1, MaxErrors + 1)
      <3>1. Smaller(errors + 1, MaxErrors + 1) \in 0..(MaxErrors + 1)
        BY <2>0 DEF Smaller
      <3> QED BY <2>2, <3>1
    <2>3. errors' \in {errors, 0, Smaller(errors + 1, MaxErrors + 1)}
      BY DEF Next, vars, Worker, Centre, ImageHandled, UpdateCalibrationState, InMoveAxis,
             CheckLimit, StepTaken, StepFails, StepLimitReached, LoadOffset, StoreOffset,
             TakeMove, NextAxis, MoveDone, Expose, CentreAxis, CentreMoved, StartGuiding,
             StopGuiding, ClearCalibration, ManualMove, SetMaxPosition, ImageIgnored,
             GuideStep, CalibrationFails, CalibrationGoesOn, CalibrationHasNoState,
             OnMoveComplete, MoveEnded, LimitReached, Restart
    <2> QED BY <2>1, <2>2, <2>3
  <1>3. failed' \subseteq {"steps remaining", "centred", "calibration state"}
    <2>1. \/ failed' \in {failed, {}}
          \/ \E a \in {"steps remaining", "centred", "calibration state"} :
                failed' = failed \cup {a}
      BY DEF Next, vars, Worker, Centre, ImageHandled, UpdateCalibrationState, InMoveAxis,
             CheckLimit, StepTaken, StepFails, StepLimitReached, LoadOffset, StoreOffset,
             TakeMove, NextAxis, MoveDone, Expose, CentreAxis, CentreMoved, StartGuiding,
             StopGuiding, ClearCalibration, ManualMove, SetMaxPosition, ImageIgnored,
             GuideStep, CalibrationFails, CalibrationGoesOn, CalibrationHasNoState,
             OnMoveComplete, MoveEnded, LimitReached, Restart
    <2> QED BY <1>0, <2>1
  <1>4. undisturbed' \in BOOLEAN
    <2>1. CASE undisturbed' = undisturbed
      BY <1>0, <2>1
    <2>2. CASE Watch \/ StartGuiding \/ LimitReached \/ SetMaxPosition \/ Restart
      BY <2>2 DEF Watch, StartGuiding, LimitReached, SetMaxPosition, Restart
    <2> QED BY <2>1, <2>2
            DEF Next, vars, Worker, Centre, ImageHandled, UpdateCalibrationState, InMoveAxis,
             CheckLimit, StepTaken, StepFails, StepLimitReached, LoadOffset, StoreOffset,
             TakeMove, NextAxis, MoveDone, Expose, CentreAxis, CentreMoved,
             StopGuiding, ClearCalibration, ManualMove, ImageIgnored,
             GuideStep, CalibrationFails, CalibrationGoesOn, CalibrationHasNoState,
             OnMoveComplete, MoveEnded
  <1> QED BY <1>1, <1>2, <1>3, <1>4 DEF FlagsOK

-------------------------------------------------------------------------------
(* The types of a calibration, from its last state back to its first.      *)

\* A calibration within a step: there may be all samples, and directions to go in.
WorkType == [state : CalibrationStates, samples : 0..Samples, sum : Points,
             start : Points, xRate : Rates, yRate : Rates, go : SUBSET Directions]
StepOK(c) == /\ c \in WorkType /\ c.samples < Samples
             /\ \A d \in c.go : Remaining(d) > 0

LEMMA EnterTyped ==
    ASSUME NEW c \in WorkType, NEW state \in CalibrationStates
    PROVE  /\ Enter(c, state) \in WorkType /\ Enter(c, state).samples = 0
           /\ Enter(c, state).go = c.go
           /\ 0 < Samples
  <1>1. 0 \in 0..Samples /\ 0 < Samples
    BY StepGuiderAssumption
  <1> QED BY <1>1, DirectionTypes DEF Enter, WorkType

LEMMA SampledTyped ==
    ASSUME NEW c, StepOK(c), NEW p \in Points
    PROVE  /\ Sampled(c, p) \in WorkType /\ Sampled(c, p).go = c.go
           /\ Sampled(c, p).samples = c.samples + 1
  <1>1. c.samples + 1 \in 0..Samples
    BY StepGuiderAssumption DEF StepOK, WorkType
  <1>2. Plus(c.sum, p) \in Points
    BY DirectionTypes DEF StepOK, WorkType
  <1> QED BY <1>1, <1>2 DEF Sampled, StepOK, WorkType

LEMMA RateTyped ==
    ASSUME TypeOK, NEW c \in WorkType
    PROVE  Rate(c) \in Rates
  <1>1. Minus(c.sum, c.start) \in Points
    BY DirectionTypes DEF WorkType
  <1>2. 2 * (travel - 1) \in Int
    BY PositionTypes
  <1> QED BY <1>1, <1>2 DEF Rate, Rates

LEMMA RecenterTyped ==
    ASSUME TypeOK, NEW c \in WorkType, c.go = {}
    PROVE  StepOK(Recenter(c)) /\ StepOK(Complete(c))
  <1>1. Enter(c, "COMPLETE") \in WorkType /\ Enter(c, "RECENTER") \in WorkType
        /\ Enter(c, "COMPLETE").samples = 0 /\ Enter(c, "RECENTER").samples = 0
        /\ Enter(c, "COMPLETE").go = {} /\ 0 < Samples
    BY EnterTyped DEF CalibrationStates
  <1>2. StepOK(Complete(c))
    BY <1>1, DirectionTypes DEF Complete, StepOK, WorkType
  <1> DEFINE far == {d \in {"RIGHT", "DOWN"} : -CurrentPosition(d) >= CalSteps}
  <1>3. far \subseteq Directions /\ \A d \in far : Remaining(d) > 0
    BY PositionTypes, StepGuiderAssumption DEF Directions, Remaining
  <1>4. Recenter(c) = IF far = {} THEN Complete(c)
                      ELSE [Enter(c, "RECENTER") EXCEPT !.go = far]
    BY DEF Recenter
  <1> HIDE DEF far
  <1>5. StepOK([Enter(c, "RECENTER") EXCEPT !.go = far])
    BY <1>1, <1>3 DEF StepOK, WorkType
  <1> QED BY <1>2, <1>4, <1>5

\* The states in which the star is measured, and those that move along an axis.
LEMMA EndingTyped ==
    ASSUME TypeOK, NEW c, StepOK(c), c.go = {}, NEW p \in Points
    PROVE  StepOK(AverageEndingLocation(c, p))
  <1> DEFINE t == Sampled(c, p)
             u == [t EXCEPT !.yRate = Rate(t), !.start = t.sum]
  <1>1. t \in WorkType /\ t.go = {} /\ t.samples = c.samples + 1
    BY SampledTyped
  <1>2. u \in WorkType /\ u.go = {}
    BY <1>1, RateTyped DEF WorkType
  <1>3. AverageEndingLocation(c, p) = IF t.samples < Samples THEN t ELSE Recenter(u)
    BY DEF AverageEndingLocation
  <1>4. StepOK(Recenter(u))
    BY <1>2, RecenterTyped
  <1>5. t.samples < Samples => StepOK(t)
    BY <1>1 DEF StepOK
  <1> QED BY <1>3, <1>4, <1>5

LEMMA GoUpTyped ==
    ASSUME TypeOK, NEW c, StepOK(c), c.go = {}, NEW p \in Points
    PROVE  StepOK(GoUp(c, p))
  <1>1. Remaining("UP") > 0 => StepOK([c EXCEPT !.go = {"UP"}])
    BY DEF StepOK, WorkType, Directions
  <1>2. StepOK(Enter(c, "AVERAGE_ENDING_LOCATION"))
        /\ Enter(c, "AVERAGE_ENDING_LOCATION").go = {}
    BY EnterTyped DEF StepOK, CalibrationStates
  <1>3. StepOK(AverageEndingLocation(Enter(c, "AVERAGE_ENDING_LOCATION"), p))
    BY <1>2, EndingTyped
  <1> QED BY <1>1, <1>3 DEF GoUp

LEMMA CenterTyped ==
    ASSUME TypeOK, NEW c, StepOK(c), c.go = {}, NEW p \in Points
    PROVE  StepOK(AverageCenterLocation(c, p))
  <1> DEFINE t == Sampled(c, p)
             u == [t EXCEPT !.xRate = Rate(t), !.start = t.sum]
  <1>1. t \in WorkType /\ t.go = {} /\ t.samples = c.samples + 1
    BY SampledTyped
  <1>2. u \in WorkType /\ u.go = {}
    BY <1>1, RateTyped DEF WorkType
  <1>3. AverageCenterLocation(c, p) = IF t.samples < Samples THEN t
                                      ELSE GoUp(Enter(u, "GO_UP"), p)
    BY DEF AverageCenterLocation
  <1> HIDE DEF u
  <1>4. StepOK(Enter(u, "GO_UP")) /\ Enter(u, "GO_UP").go = {}
    BY <1>2, EnterTyped DEF StepOK, CalibrationStates
  <1>5. t.samples < Samples => StepOK(t)
    BY <1>1 DEF StepOK
  <1> QED BY <1>3, <1>4, <1>5, GoUpTyped

LEMMA GoLeftTyped ==
    ASSUME TypeOK, NEW c, StepOK(c), c.go = {}, NEW p \in Points
    PROVE  StepOK(GoLeft(c, p))
  <1>1. Remaining("LEFT") > 0 => StepOK([c EXCEPT !.go = {"LEFT"}])
    BY DEF StepOK, WorkType, Directions
  <1>2. StepOK(Enter(c, "AVERAGE_CENTER_LOCATION"))
        /\ Enter(c, "AVERAGE_CENTER_LOCATION").go = {}
    BY EnterTyped DEF StepOK, CalibrationStates
  <1>3. StepOK(AverageCenterLocation(Enter(c, "AVERAGE_CENTER_LOCATION"), p))
    BY <1>2, CenterTyped
  <1> QED BY <1>1, <1>3 DEF GoLeft

LEMMA StartingTyped ==
    ASSUME TypeOK, NEW c, StepOK(c), c.go = {}, NEW p \in Points
    PROVE  StepOK(AverageStartingLocation(c, p))
  <1> DEFINE t == Sampled(c, p)
             u == [t EXCEPT !.start = t.sum]
  <1>1. t \in WorkType /\ t.go = {} /\ t.samples = c.samples + 1
    BY SampledTyped
  <1>2. u \in WorkType /\ u.go = {}
    BY <1>1 DEF WorkType
  <1>3. AverageStartingLocation(c, p) = IF t.samples < Samples THEN t
                                        ELSE GoLeft(Enter(u, "GO_LEFT"), p)
    BY DEF AverageStartingLocation
  <1> HIDE DEF u
  <1>4. StepOK(Enter(u, "GO_LEFT")) /\ Enter(u, "GO_LEFT").go = {}
    BY <1>2, EnterTyped DEF StepOK, CalibrationStates
  <1>5. t.samples < Samples => StepOK(t)
    BY <1>1 DEF StepOK
  <1> QED BY <1>3, <1>4, <1>5, GoLeftTyped

LEMMA CornerTyped ==
    ASSUME TypeOK, NEW c, StepOK(c), c.go = {}, NEW p \in Points
    PROVE  StepOK(GotoLowerRightCorner(c, p))
  <1> DEFINE far == {d \in {"DOWN", "RIGHT"} : Remaining(d) > 0}
  <1>1. StepOK([c EXCEPT !.go = far])
    BY DEF StepOK, WorkType, Directions
  <1>2. StepOK(Enter(c, "AVERAGE_STARTING_LOCATION"))
        /\ Enter(c, "AVERAGE_STARTING_LOCATION").go = {}
    BY EnterTyped DEF StepOK, CalibrationStates
  <1>3. StepOK(AverageStartingLocation(Enter(c, "AVERAGE_STARTING_LOCATION"), p))
    BY <1>2, StartingTyped
  <1>4. GotoLowerRightCorner(c, p) =
           IF far # {} THEN [c EXCEPT !.go = far]
           ELSE AverageStartingLocation(Enter(c, "AVERAGE_STARTING_LOCATION"), p)
    BY DEF GotoLowerRightCorner
  <1> QED BY <1>1, <1>3, <1>4

\* What the last state leaves to do, each state before it does too.
LEMMA CalibrationStepTyped ==
    ASSUME TypeOK, cal.state # "CLEARED", NEW p \in Points
    PROVE  StepOK(CalibrationStep(cal, p))
  <1>1. cal \in CalType
    BY TypeParts
  <1>2. StepOK(cal) /\ cal.go = {} /\ cal.state \in CalibrationStates
    BY <1>1, StepGuiderAssumption DEF StepOK, CalType, WorkType
  <1>3. cal \in WorkType
    BY <1>2 DEF StepOK
  <1> QED BY <1>2, <1>3, CornerTyped, StartingTyped, GoLeftTyped, CenterTyped, GoUpTyped,
             EndingTyped, RecenterTyped DEF CalibrationStep, CalibrationStates

LEMMA PlacesTyped ==
    ASSUME TypeOK
    PROVE  Places \subseteq Points /\ mirror \in Points
  <1>1. \A n \in Travels : (1 - n)..(n - 1) \subseteq Int
    BY StepGuiderAssumption
  <1>2. UNION {(1 - n)..(n - 1) : n \in Travels} \subseteq Int
    BY <1>1
  <1> QED BY <1>2 DEF Places, Points, TypeOK

\* A calibration that is left between two steps.
LEMMA ClearedTyped ==
    /\ Cleared \in CalType /\ BeginCalibration \in CalType
    /\ TypeOK => GivenUp \in CalType
  <1>1. 0 \in 0..(Samples - 1) /\ 0 \in Int
    BY StepGuiderAssumption
  <1>2. NoRate \in Rates
    BY <1>1, DirectionTypes DEF NoRate, Rates
  <1>3. Cleared \in CalType
    BY <1>1, <1>2, DirectionTypes DEF Cleared, CalType, CalibrationStates
  <1>4. BeginCalibration \in CalType
    BY <1>3 DEF BeginCalibration, CalType, CalibrationStates
  <1>5. TypeOK => cal \in CalType
    BY TypeParts
  <1> QED BY <1>3, <1>4, <1>5 DEF GivenUp

LEMMA StepLeftTyped ==
    ASSUME TypeOK, NEW c, StepOK(c)
    PROVE  [c EXCEPT !.go = {}] \in CalType
  <1>1. c.samples \in 0..(Samples - 1)
    BY StepGuiderAssumption DEF StepOK, WorkType
  <1> QED BY <1>1 DEF StepOK, WorkType, CalType

LEMMA CalTyped ==
    ASSUME TypeOK, [Next]_vars
    PROVE  cal' \in CalType
  <1>1. CASE CalibrationGoesOn
    <2>1. PICK p \in IF image = "here" THEN {mirror} ELSE Places \ {mirror} :
             /\ cal.state # "CLEARED"
             /\ cal' = [CalibrationStep(cal, p) EXCEPT !.go = {}]
      BY <1>1 DEF CalibrationGoesOn
    <2>2. p \in Points
      BY PlacesTyped
    <2> QED BY <2>1, <2>2, CalibrationStepTyped, StepLeftTyped
  <1>2. CASE cal' \in {cal, Cleared, BeginCalibration, GivenUp}
    BY <1>2, ClearedTyped, TypeParts
  <1>3. ~CalibrationGoesOn => cal' \in {cal, Cleared, BeginCalibration, GivenUp}
    BY DEF Next, vars, Worker, Centre, ImageHandled, UpdateCalibrationState, InMoveAxis,
           CheckLimit, StepTaken, StepFails, StepLimitReached, LoadOffset, StoreOffset,
           TakeMove, NextAxis, MoveDone, Expose, CentreAxis, CentreMoved, StartGuiding,
           StopGuiding, ClearCalibration, ManualMove, SetMaxPosition, ImageIgnored,
           GuideStep, CalibrationFails, CalibrationHasNoState, OnMoveComplete, MoveEnded,
           LimitReached, Restart
  <1> QED BY <1>1, <1>2, <1>3

\* The moves of a calibration.
CalMove(d) == AxisMove("calibration", d, Smaller(Remaining(d), CalSteps))
OneMove(d, go) == IF d \notin go THEN <<>> ELSE <<CalMove(d)>>

LEMMA ScheduleTyped ==
    ASSUME TypeOK, NEW go \in SUBSET Directions, \A d \in go : Remaining(d) > 0
    PROVE  /\ ScheduleAxisMoves(go) \in Seq(Items)
           /\ \A d \in Directions : OneMove(d, go) \in Seq(Items)
           /\ ScheduleAxisMoves(go) =
                 OneMove("UP", go) \o OneMove("DOWN", go) \o OneMove("RIGHT", go)
                    \o OneMove("LEFT", go)
  <1>1. \A d \in go : Smaller(Remaining(d), CalSteps) \in Nat
    BY PositionTypes, StepGuiderAssumption DEF Smaller
  <1>2. \A d \in go : CalMove(d) \in Items
    BY <1>1, ItemTypes DEF CalMove
  <1>3. \A d \in Directions : OneMove(d, go) \in Seq(Items)
    BY <1>2 DEF OneMove
  <1>4. ScheduleAxisMoves(go) =
           OneMove("UP", go) \o OneMove("DOWN", go) \o OneMove("RIGHT", go)
              \o OneMove("LEFT", go)
    BY DEF ScheduleAxisMoves, OneMove, CalMove
  <1>5. ScheduleAxisMoves(go) \in Seq(Items)
    <2> HIDE DEF OneMove
    <2>1. OneMove("UP", go) \o OneMove("DOWN", go) \in Seq(Items)
      BY <1>3, ConcatProperties DEF Directions
    <2>2. OneMove("UP", go) \o OneMove("DOWN", go) \o OneMove("RIGHT", go) \in Seq(Items)
      BY <1>3, <2>1, ConcatProperties DEF Directions
    <2> QED BY <1>3, <1>4, <2>2, ConcatProperties DEF Directions
  <1> QED BY <1>3, <1>4, <1>5

LEMMA ScheduleGoesOn ==
    ASSUME TypeOK, CalibrationGoesOn
    PROVE  \E go \in SUBSET Directions : /\ \A d \in go : Remaining(d) > 0
                                         /\ queue' = queue \o ScheduleAxisMoves(go)
  <1>1. PICK p \in IF image = "here" THEN {mirror} ELSE Places \ {mirror} :
           /\ cal.state # "CLEARED"
           /\ queue' = queue \o ScheduleAxisMoves(CalibrationStep(cal, p).go)
    BY DEF CalibrationGoesOn
  <1> DEFINE c == CalibrationStep(cal, p)
  <1>2. p \in Points
    BY PlacesTyped
  <1>3. StepOK(c)
    BY <1>1, <1>2, CalibrationStepTyped
  <1>4. c.go \in SUBSET Directions /\ \A d \in c.go : Remaining(d) > 0
    BY <1>3 DEF StepOK, WorkType
  <1> QED BY <1>1, <1>4

LEMMA QueueGoesOn ==
    ASSUME TypeOK, CalibrationGoesOn
    PROVE  queue' \in Seq(Items)
  <1>1. PICK go \in SUBSET Directions : /\ \A d \in go : Remaining(d) > 0
                                        /\ queue' = queue \o ScheduleAxisMoves(go)
    BY ScheduleGoesOn
  <1>2. ScheduleAxisMoves(go) \in Seq(Items) /\ queue \in Seq(Items)
    BY <1>1, ScheduleTyped DEF TypeOK
  <1> QED BY <1>1, <1>2, ConcatProperties

LEMMA TypeInductive ==
    ASSUME TypeOK, call["worker"].at = "idle" <=> serving = <<>>, [Next]_vars
    PROVE  TypeOK'
  <1>1. TypeOK' <=> PointsOK' /\ CallsOK' /\ QueueOK' /\ FlagsOK' /\ (cal \in CalType)'
    BY DEF TypeOK, PointsOK, CallsOK, QueueOK, FlagsOK, CalType
  <1> QED BY <1>1, PointsTyped, CallsTyped, QueueTyped, QueueGoesOn, FlagsTyped, CalTyped


-------------------------------------------------------------------------------
(* The moves ahead of the worker.                                          *)

Elements(q) == {q[i] : i \in DOMAIN q}

LEMMA ElementsConcat ==
    ASSUME NEW S, NEW q \in Seq(S), NEW r \in Seq(S)
    PROVE  q \o r \in Seq(S) /\ Elements(q \o r) = Elements(q) \cup Elements(r)
  <1>1. q \o r \in Seq(S)
    BY ConcatProperties
  <1>2. Range(q \o r) = Range(q) \cup Range(r)
    BY RangeConcatenation
  <1> QED BY <1>1, <1>2 DEF Elements, Range

LEMMA ElementsChange ==
    ASSUME NEW S, NEW q \in Seq(S)
    PROVE  /\ Elements(<<>>) = {}
           /\ q # <<>> => Elements(q) = {Head(q)} \cup Elements(Tail(q))
           /\ \A e \in S : Elements(Append(q, e)) = Elements(q) \cup {e}
           /\ \A r \in Seq(S) : Elements(q \o r) = Elements(q) \cup Elements(r)
  <1>1. Elements(<<>>) = {}
    BY DEF Elements
  <1>2. ASSUME NEW s \in Seq(S)
        PROVE  DOMAIN s = 1..Len(s) /\ Len(s) \in Nat
    BY LenProperties
  <1>3. \A r \in Seq(S) : Elements(q \o r) = Elements(q) \cup Elements(r)
    BY ElementsConcat
  <1>4. ASSUME NEW e \in S
        PROVE  Elements(Append(q, e)) = Elements(q) \cup {e}
    <2>1. Append(q, e) = q \o <<e>> /\ <<e>> \in Seq(S)
      BY AppendIsConcat
    <2>2. Elements(<<e>>) = {e}
      BY DEF Elements
    <2> QED BY <1>3, <2>1, <2>2
  <1>5. q # <<>> => Elements(q) = {Head(q)} \cup Elements(Tail(q))
    <2> SUFFICES ASSUME q # <<>> PROVE Elements(q) = {Head(q)} \cup Elements(Tail(q))
      OBVIOUS
    <2>1. Head(q) \in S /\ Tail(q) \in Seq(S) /\ Len(q) \in Nat \ {0} /\ Head(q) = q[1]
          /\ Len(Tail(q)) = Len(q) - 1 /\ \A i \in 1..Len(Tail(q)) : Tail(q)[i] = q[i + 1]
      BY HeadTailProperties, EmptySeq
    <2>2. DOMAIN q = 1..Len(q) /\ DOMAIN Tail(q) = 1..(Len(q) - 1)
      BY <1>2, <2>1
    <2>3. ASSUME NEW i \in DOMAIN q PROVE q[i] \in {Head(q)} \cup Elements(Tail(q))
      <3>1. CASE i = 1
        BY <2>1, <3>1
      <3>2. CASE i # 1
        <4>1. i - 1 \in DOMAIN Tail(q) /\ Tail(q)[i - 1] = q[i]
          BY <2>1, <2>2, <3>2
        <4> QED BY <4>1 DEF Elements
      <3> QED BY <3>1, <3>2
    <2>4. ASSUME NEW i \in DOMAIN Tail(q) PROVE Tail(q)[i] \in Elements(q)
      <3>1. i + 1 \in DOMAIN q /\ Tail(q)[i] = q[i + 1]
        BY <2>1, <2>2
      <3> QED BY <3>1 DEF Elements
    <2>5. Head(q) \in Elements(q)
      BY <2>1, <2>2 DEF Elements
    <2> QED BY <2>3, <2>4, <2>5 DEF Elements
  <1> QED BY <1>1, <1>3, <1>4, <1>5

LEMMA ScheduleElements ==
    ASSUME TypeOK, NEW go \in SUBSET Directions, \A d \in go : Remaining(d) > 0
    PROVE  Elements(ScheduleAxisMoves(go)) = {CalMove(d) : d \in go}
  <1>1. \A d \in Directions : OneMove(d, go) \in Seq(Items)
    BY ScheduleTyped
  <1>2. \A d : Elements(OneMove(d, go)) = IF d \in go THEN {CalMove(d)} ELSE {}
    BY DEF OneMove, Elements
  <1> HIDE DEF OneMove, CalMove, Elements
  <1>2a. /\ OneMove("UP", go) \in Seq(Items) /\ OneMove("DOWN", go) \in Seq(Items)
         /\ OneMove("RIGHT", go) \in Seq(Items) /\ OneMove("LEFT", go) \in Seq(Items)
    BY <1>1 DEF Directions
  <1> DEFINE u == OneMove("UP", go)
             d == OneMove("DOWN", go)
             r == OneMove("RIGHT", go)
             l == OneMove("LEFT", go)
  <1>3. u \in Seq(Items) /\ d \in Seq(Items) /\ r \in Seq(Items) /\ l \in Seq(Items)
    BY <1>2a
  <1> HIDE DEF u, d, r, l
  <1>4. u \o d \in Seq(Items) /\ Elements(u \o d) = Elements(u) \cup Elements(d)
    BY <1>3, ElementsConcat
  <1> DEFINE v == u \o d
  <1>4a. v \in Seq(Items)
    BY <1>4
  <1> HIDE DEF v
  <1>5. v \o r \in Seq(Items) /\ Elements(v \o r) = Elements(v) \cup Elements(r)
    BY <1>3, <1>4a, ElementsConcat
  <1> DEFINE w == v \o r
  <1>5a. w \in Seq(Items)
    BY <1>5
  <1> HIDE DEF w
  <1>6. Elements(w \o l) = Elements(w) \cup Elements(l)
    BY <1>3, <1>5a, ElementsConcat
  <1>7. Elements(ScheduleAxisMoves(go)) =
           Elements(u) \cup Elements(d) \cup Elements(r) \cup Elements(l)
    BY <1>4, <1>5, <1>6, ScheduleTyped DEF u, d, r, l, v, w
  <1> QED BY <1>2, <1>7 DEF Directions, u, d, r, l

\* The actions that change the worker's queue or the move it makes.
QueueChanges == TakeMove \/ NextAxis \/ MoveDone \/ ManualMove \/ GuideStep
                  \/ CalibrationGoesOn \/ Restart

\* What each does to the moves ahead.
LEMMA AheadSteps ==
    ASSUME TypeOK, call["worker"].at = "idle" <=> serving = <<>>, [Next]_vars
    PROVE  /\ TakeMove => ItemsAhead' = ItemsAhead
           /\ NextAxis => \A i \in ItemsAhead' : \E j \in ItemsAhead : i.kind = j.kind
           /\ MoveDone => ItemsAhead' \subseteq ItemsAhead
           /\ ManualMove => \A i \in ItemsAhead' : i \in ItemsAhead \/ i.kind = "manual"
           /\ GuideStep \/ CalibrationGoesOn =>
                 \A i \in ItemsAhead' : i \in ItemsAhead \/ i.kind # "manual"
           /\ Restart => ItemsAhead' = {}
           /\ ~QueueChanges => /\ UNCHANGED <<queue, serving>>
                               /\ ItemsAhead' = ItemsAhead
  <1>0. queue \in Seq(Items) /\ serving \in Seq(Items)
    BY DEF TypeOK
  <1>1. ItemsAhead = Elements(queue) \cup Elements(serving)
        /\ ItemsAhead' = Elements(queue') \cup Elements(serving')
    BY DEF ItemsAhead, Elements
  <1>2. Elements(<<>>) = {} /\ \A e : Elements(<<e>>) = {e}
    BY DEF Elements
  <1>3. TakeMove => ItemsAhead' = ItemsAhead
    <2> SUFFICES ASSUME TakeMove PROVE ItemsAhead' = ItemsAhead
      OBVIOUS
    <2>1. /\ Elements(queue) = {Head(queue)} \cup Elements(queue')
          /\ serving = <<>> /\ serving' = <<Head(queue)>>
      BY <1>0, ElementsChange DEF TakeMove
    <2> QED BY <1>1, <1>2, <2>1
  <1>4. NextAxis => \A i \in ItemsAhead' : \E j \in ItemsAhead : i.kind = j.kind
    <2> SUFFICES ASSUME NextAxis
                 PROVE  \A i \in ItemsAhead' : \E j \in ItemsAhead : i.kind = j.kind
      OBVIOUS
    <2>1. serving[1] \in Items /\ serving = <<serving[1]>>
      BY AheadTypes DEF NextAxis
    <2> DEFINE rest == [serving[1] EXCEPT !.legs = Tail(serving[1].legs)]
    <2>2. rest.kind = serving[1].kind
      BY <2>1 DEF Items
    <2>3. queue' = queue /\ serving' = <<rest>>
      BY DEF NextAxis
    <2> HIDE DEF rest
    <2> QED BY <1>1, <1>2, <2>1, <2>2, <2>3
  <1>5. MoveDone => ItemsAhead' \subseteq ItemsAhead
    BY <1>1, <1>2 DEF MoveDone
  <1>6. ManualMove => \A i \in ItemsAhead' : i \in ItemsAhead \/ i.kind = "manual"
    <2> SUFFICES ASSUME ManualMove
                 PROVE  \A i \in ItemsAhead' : i \in ItemsAhead \/ i.kind = "manual"
      OBVIOUS
    <2>1. PICK d \in Directions, n \in Amounts \cup {1} :
             queue' = Append(queue, AxisMove("manual", d, n))
      BY DEF ManualMove
    <2>2. AxisMove("manual", d, n) \in Items
      BY ItemTypes, StepGuiderAssumption
    <2>3. AxisMove("manual", d, n).kind = "manual" /\ serving' = serving
      BY DEF AxisMove, ManualMove
    <2>4. Elements(queue') = Elements(queue) \cup {AxisMove("manual", d, n)}
      BY <1>0, <2>1, <2>2, ElementsChange
    <2> QED BY <1>1, <2>3, <2>4
  <1>7. GuideStep => \A i \in ItemsAhead' : i \in ItemsAhead \/ i.kind # "manual"
    <2>1. GuideStep => queue' = Append(queue, OffsetMove) /\ serving' = serving
      BY DEF GuideStep
    <2>2. Elements(Append(queue, OffsetMove)) = Elements(queue) \cup {OffsetMove}
      BY <1>0, ItemTypes, ElementsChange
    <2>3. OffsetMove.kind # "manual"
      BY DEF OffsetMove
    <2> QED BY <1>1, <2>1, <2>2, <2>3
  <1>8. CalibrationGoesOn => \A i \in ItemsAhead' : i \in ItemsAhead \/ i.kind # "manual"
    <2> SUFFICES ASSUME CalibrationGoesOn
                 PROVE  \A i \in ItemsAhead' : i \in ItemsAhead \/ i.kind # "manual"
      OBVIOUS
    <2>1. PICK go \in SUBSET Directions :
             /\ \A d \in go : Remaining(d) > 0
             /\ queue' = queue \o ScheduleAxisMoves(go)
      BY ScheduleGoesOn
    <2>2. \A i \in Elements(ScheduleAxisMoves(go)) : i.kind # "manual"
      BY <2>1, ScheduleElements DEF CalMove, AxisMove
    <2>3. Elements(queue') = Elements(queue) \cup Elements(ScheduleAxisMoves(go))
      BY <1>0, <2>1, ScheduleTyped, ElementsChange
    <2> QED BY <1>1, <2>2, <2>3 DEF CalibrationGoesOn
  <1>9. Restart => ItemsAhead' = {}
    BY <1>1, <1>2 DEF Restart
  <1>10. ~QueueChanges => UNCHANGED <<queue, serving>>
    BY DEF QueueChanges, Next, vars, Worker, Centre, ImageHandled, UpdateCalibrationState,
           InMoveAxis, CheckLimit, StepTaken, StepFails, StepLimitReached, LoadOffset,
           StoreOffset, Expose, CentreAxis, CentreMoved, StartGuiding, StopGuiding,
           ClearCalibration, SetMaxPosition, ImageIgnored, CalibrationFails,
           CalibrationHasNoState, OnMoveComplete, MoveEnded, LimitReached
  <1>11. UNCHANGED <<queue, serving>> => ItemsAhead' = ItemsAhead
    BY <1>1
  <1> QED BY <1>3, <1>4, <1>5, <1>6, <1>7, <1>8, <1>9, <1>10, <1>11

\* A step is one of these.
LEMMA NextCases ==
    ASSUME [Next]_vars
    PROVE  \/ \E t \in Threads : InMoveAxis(t)
           \/ TakeMove \/ NextAxis \/ MoveDone \/ Expose \/ CentreAxis \/ CentreMoved
           \/ StartGuiding \/ StopGuiding \/ ClearCalibration \/ ManualMove
           \/ SetMaxPosition \/ ImageIgnored \/ GuideStep \/ CalibrationFails
           \/ CalibrationGoesOn \/ CalibrationHasNoState \/ MoveEnded \/ LimitReached
           \/ Restart \/ UNCHANGED vars
  BY DEF Next, Worker, Centre, Threads, ImageHandled, UpdateCalibrationState, OnMoveComplete

\* The kinds of moves that may be ahead after a step.
NoneCounted == \A item \in ItemsAhead : ~Counted(item)

LEMMA KindsAhead ==
    ASSUME TypeOK, call["worker"].at = "idle" <=> serving = <<>>, [Next]_vars
    PROVE  /\ ~(GuideStep \/ CalibrationGoesOn) /\ NoneCounted => NoneCounted'
           /\ ~ManualMove /\ ManualAhead' => ManualAhead
  <1>1. \A i : Counted(i) <=> i.kind # "manual"
    BY DEF Counted
  <1>2. NoneCounted' <=> \A i \in ItemsAhead' : i.kind = "manual"
    BY <1>1 DEF NoneCounted, Counted
  <1>3. ManualAhead' <=> \E i \in ItemsAhead' : i.kind = "manual"
    BY DEF ManualAhead, Counted
  <1>4. (NoneCounted <=> \A i \in ItemsAhead : i.kind = "manual")
        /\ (ManualAhead <=> \E i \in ItemsAhead : i.kind = "manual")
    BY DEF NoneCounted, ManualAhead, Counted
  <1>5. ASSUME ~(GuideStep \/ CalibrationGoesOn), NoneCounted
        PROVE  NoneCounted'
    <2>1. \A i \in ItemsAhead' :
             i.kind = "manual" \/ \E j \in ItemsAhead : i.kind = j.kind
      BY <1>5, AheadSteps DEF QueueChanges
    <2> QED BY <1>2, <1>4, <1>5, <2>1
  <1>6. ASSUME ~ManualMove, ManualAhead'
        PROVE  ManualAhead
    <2>1. \A i \in ItemsAhead' :
             i.kind # "manual" \/ \E j \in ItemsAhead : i.kind = j.kind
      BY <1>6, AheadSteps DEF QueueChanges
    <2> QED BY <1>3, <1>4, <1>6, <2>1
  <1> QED BY <1>5, <1>6

-------------------------------------------------------------------------------
(* The threads.                                                            *)

\* A step within a call of MoveAxis: the call is not idle before or after it, it goes
\* on in the same direction, and the other thread's call is left alone.
LEMMA MoveAxisKeeps ==
    ASSUME TypeOK, NEW t \in Threads, InMoveAxis(t)
    PROVE  /\ call[t].at # "idle" /\ call'[t].at # "idle"
           /\ call'[t].dir = call[t].dir /\ call'[t].asked = call[t].asked
           /\ \A s \in Threads : s # t => call'[s] = call[s]
           /\ UNCHANGED <<travel, queue, serving, reports, centring, guider, cal, errors,
                          failed, undisturbed>>
  <1>1. call \in [Threads -> Calls]
    BY DEF TypeOK
  <1>2. CASE CheckLimit(t)
    BY <1>1, <1>2 DEF CheckLimit, Calls
  <1>3. CASE StepTaken(t) \/ StepFails(t) \/ StepLimitReached(t)
    BY <1>1, <1>3 DEF StepTaken, StepFails, StepLimitReached, Calls
  <1>4. CASE LoadOffset(t) \/ StoreOffset(t)
    BY <1>1, <1>4 DEF LoadOffset, StoreOffset, Calls
  <1> QED BY <1>2, <1>3, <1>4 DEF InMoveAxis

\* A new call of the worker.
LEMMA StartKeeps ==
    ASSUME TypeOK, NEW leg \in Legs, Start(leg)
    PROVE  /\ \E d \in leg.dirs, n \in leg.steps : call'["worker"] = MoveAxis(d, n)
           /\ call'["worker"].at = "check" /\ call'["gui"] = call["gui"]
  <1>1. call \in [Threads -> Calls]
    BY DEF TypeOK
  <1>2. PICK d \in leg.dirs, n \in leg.steps :
             call' = [call EXCEPT !["worker"] = MoveAxis(d, n)]
    BY DEF Start
  <1>3. MoveAxis(d, n).at = "check"
    BY DEF MoveAxis, Idle
  <1> QED BY <1>1, <1>2, <1>3 DEF Threads

LEMMA LegsStarted ==
    ASSUME TypeOK, call["worker"].at = "idle" <=> serving = <<>>
    PROVE  /\ TakeMove => Head(queue).legs[1] \in Legs /\ Head(queue) \in Items
           /\ NextAxis => serving[1].legs[2] \in Legs /\ serving[1] \in Items
  <1>1. TakeMove => Head(queue) \in Items
    BY AheadTypes DEF TakeMove
  <1>2. NextAxis => serving[1] \in Items /\ Len(serving[1].legs) > 1
    BY AheadTypes DEF NextAxis
  <1> QED BY <1>1, <1>2, ItemTypes

LEMMA ThreadsMatchInductive ==
    ASSUME TypeOK, ThreadsMatch, [Next]_vars
    PROVE  ThreadsMatch'
  <1>0. /\ call["worker"].at = "idle" <=> serving = <<>>
        /\ call["gui"].at # "idle" => centring # "no"
        /\ centring # "no" \/ image # "none" => NoneCounted
        /\ undisturbed => ~Interference
        /\ call \in [Threads -> Calls]
    BY DEF ThreadsMatch, NoneCounted, TypeOK
  <1>1. /\ call'["worker"].at = "idle" <=> serving' = <<>>
        /\ call'["gui"].at # "idle" => centring' # "no"
    <2>1. CASE \E t \in Threads : InMoveAxis(t)
      BY <1>0, <2>1, MoveAxisKeeps DEF Threads
    <2>2. CASE TakeMove
      BY <1>0, <2>2, LegsStarted, StartKeeps DEF TakeMove
    <2>3. CASE NextAxis
      BY <1>0, <2>3, LegsStarted, StartKeeps DEF NextAxis
    <2>4. CASE MoveDone
      BY <1>0, <2>4 DEF MoveDone, Idle, Threads
    <2>5. CASE CentreAxis
      BY <1>0, <2>5 DEF CentreAxis, Threads
    <2>6. CASE CentreMoved
      BY <1>0, <2>6 DEF CentreMoved, Idle, Threads
    <2>7. CASE Restart
      BY <2>7 DEF Restart, Idle, Threads
    <2>8. CASE /\ UNCHANGED <<call, serving>>
               /\ centring = "no" \/ centring' = centring
      BY <1>0, <2>8
    <2> QED BY <2>1, <2>2, <2>3, <2>4, <2>5, <2>6, <2>7, <2>8, NextCases
            DEF vars, Expose, StartGuiding, StopGuiding, ClearCalibration, ManualMove,
                SetMaxPosition, ImageIgnored, GuideStep, CalibrationFails,
                CalibrationGoesOn, CalibrationHasNoState, MoveEnded, LimitReached,
                GuiFree, ImageReady
  <1>2. centring' # "no" \/ image' # "none" => NoneCounted'
    <2>1. CASE GuideStep \/ CalibrationGoesOn
      BY <2>1 DEF GuideStep, CalibrationGoesOn, ImageReady, GuiFree
    <2>2. CASE Restart
      BY <2>2 DEF Restart
    <2>3. ~(GuideStep \/ CalibrationGoesOn) /\ NoneCounted => NoneCounted'
      BY <1>0, KindsAhead
    <2>4. CASE Expose
      <3>1. NoneCounted
        BY <2>4 DEF Expose, NoneCounted, ItemsAhead
      <3> QED BY <2>1, <2>3, <3>1
    <2>5. CASE /\ centring' # "no" => centring # "no" \/ NoneCounted
               /\ image' # "none" => image # "none"
      BY <1>0, <2>1, <2>3, <2>5
    <2>6. \A r : ~Busy(r) => NoneCounted
      BY DEF Busy, NoneCounted
    <2>7. CASE \E t \in Threads : InMoveAxis(t)
      BY <2>5, <2>7 DEF InMoveAxis, CheckLimit, StepTaken, StepFails, StepLimitReached,
                        LoadOffset, StoreOffset, MirrorTo
    <2> QED BY <2>1, <2>2, <2>4, <2>5, <2>6, <2>7, NextCases
            DEF vars, TakeMove, NextAxis, MoveDone, CentreAxis, CentreMoved, StartGuiding,
                StopGuiding, ClearCalibration, ManualMove, SetMaxPosition, ImageIgnored,
                CalibrationFails, CalibrationHasNoState, MoveEnded, LimitReached
  <1>3. undisturbed' => ~Interference'
    <2>1. CASE StartGuiding \/ LimitReached \/ Watch
      BY <2>1 DEF StartGuiding, LimitReached, Watch
    <2>2. CASE Restart
      BY <2>2 DEF Restart, Interference
    <2>3. CASE SetMaxPosition
      BY <2>3 DEF SetMaxPosition, Interference, GuiFree
    <2>4. CASE /\ ~ManualMove /\ UNCHANGED <<guider, undisturbed>>
               /\ centring' # "no" => centring # "no"
      BY <1>0, <2>4, KindsAhead DEF Interference
    <2>5. CASE \E t \in Threads : InMoveAxis(t)
      <3>1. UNCHANGED <<queue, serving, guider, undisturbed, centring>>
        BY <2>5, MoveAxisKeeps
      <3> QED BY <1>0, <3>1 DEF Interference, ManualAhead, ItemsAhead
    <2>6. CASE ManualMove
      BY <2>1, <2>6 DEF ManualMove
    <2> QED BY <2>1, <2>2, <2>3, <2>4, <2>5, <2>6, NextCases
            DEF vars, TakeMove, NextAxis, MoveDone, Expose, CentreAxis, CentreMoved,
                StopGuiding, ClearCalibration, ImageIgnored, GuideStep,
                CalibrationFails, CalibrationGoesOn, CalibrationHasNoState, MoveEnded
  <1> QED BY <1>1, <1>2, <1>3 DEF ThreadsMatch, NoneCounted


-------------------------------------------------------------------------------
(* The position.                                                           *)

\* While nobody interferes, the GUI thread centres only when no move is ahead, so that
\* one thread at a time is in a call of MoveAxis.
LEMMA OneCall ==
    ASSUME TypeOK, ThreadsMatch, undisturbed
    PROVE  /\ centring # "no" => ItemsAhead = {} /\ call["worker"].at = "idle"
           /\ \A t \in Threads : call[t].at # "idle" =>
                 \A s \in Threads : s # t => call[s].at = "idle"
  <1>1. centring # "no" => ItemsAhead = {}
    BY DEF ThreadsMatch, Interference, ManualAhead
  <1>2. ItemsAhead = {} => serving = <<>>
    BY AheadTypes
  <1>3. centring # "no" => call["worker"].at = "idle"
    BY <1>1, <1>2 DEF ThreadsMatch
  <1> QED BY <1>1, <1>3 DEF ThreadsMatch, Threads

\* What a call has moved the mirror by, and what is known of a call's numbers.
LEMMA CallNumbers ==
    ASSUME TypeOK, NEW t \in Threads
    PROVE  /\ call[t].dir \in Directions /\ Axis(call[t].dir) \in Axes
           /\ Sign(call[t].dir) \in {1, -1}
           /\ call[t].asked \in Nat /\ call[t].steps \in Int /\ call[t].seen \in Int
           /\ call[t].at \in {"step", "load", "store"} => call[t].steps > 0
           /\ \A a \in Axes : Moved(t, a) \in Int
  <1>1. call[t] \in Calls
    BY DEF TypeOK
  <1>2. /\ call[t].dir \in Directions
        /\ call[t].asked \in Nat /\ call[t].steps \in Int /\ call[t].seen \in Int
    BY <1>1 DEF Calls
  <1>3. Axis(call[t].dir) \in Axes /\ Sign(call[t].dir) \in {1, -1}
    BY <1>2, DirectionTypes
  <1>4. Sign(call[t].dir) * call[t].steps \in Int
    BY <1>2, <1>3
  <1>5. \A a \in Axes : Moved(t, a) \in Int
    BY <1>4 DEF Moved
  <1>6. call[t].at \in {"step", "load", "store"} => call[t].steps > 0
    BY DEF TypeOK
  <1> QED BY <1>2, <1>3, <1>5, <1>6

\* Only the call that is made can make mirror and offset differ.
LEMMA Differ ==
    ASSUME TypeOK, ThreadsMatch, PositionTracked, undisturbed
    PROVE  /\ \A a \in Axes : offset[a] \in Int /\ mirror[a] \in Int
           /\ \A t \in Threads : call[t].at # "idle" =>
                 \A a \in Axes : mirror[a] = offset[a] + Moved(t, a)
           /\ (\A t \in Threads : call[t].at \notin {"load", "store"}) =>
                 \A a \in Axes : mirror[a] = offset[a]
  <1>1. \A a \in Axes : offset[a] \in Int /\ mirror[a] \in Int
    BY DEF TypeOK, Points
  <1>2. \A a \in Axes : mirror[a] = offset[a] + Moved("gui", a) + Moved("worker", a)
    BY DEF PositionTracked
  <1>3. \A t \in Threads, a \in Axes :
           /\ Moved(t, a) \in Int
           /\ call[t].at \notin {"load", "store"} => Moved(t, a) = 0
    BY CallNumbers DEF Moved
  <1>4. "gui" \in Threads /\ "worker" \in Threads
        /\ \A t \in Threads : t \in {"gui", "worker"}
    BY DEF Threads
  <1>5. ASSUME NEW t \in Threads, call[t].at # "idle", NEW a \in Axes
        PROVE  mirror[a] = offset[a] + Moved(t, a)
    <2>1. CASE t = "gui"
      <3>1. call["worker"].at = "idle"
        BY <1>4, <1>5, <2>1, OneCall
      <3>2. Moved("worker", a) = 0
        BY <1>3, <1>4, <3>1
      <3> QED BY <1>1, <1>2, <1>3, <1>4, <2>1, <3>2
    <2>2. CASE t = "worker"
      <3>1. call["gui"].at = "idle"
        BY <1>4, <1>5, <2>2, OneCall
      <3>2. Moved("gui", a) = 0
        BY <1>3, <1>4, <3>1
      <3> QED BY <1>1, <1>2, <1>3, <1>4, <2>2, <3>2
    <2> QED BY <1>4, <2>1, <2>2
  <1>6. ASSUME \A t \in Threads : call[t].at \notin {"load", "store"}, NEW a \in Axes
        PROVE  mirror[a] = offset[a]
    <2>1. Moved("gui", a) = 0 /\ Moved("worker", a) = 0
      BY <1>3, <1>4, <1>6
    <2> QED BY <1>1, <1>2, <2>1
  <1> QED BY <1>1, <1>5, <1>6

\* Away from the origin and back along one axis.
LEMMA SignTimes ==
    ASSUME NEW s \in {1, -1}, NEW m \in Int, NEW n \in Int
    PROVE  /\ s * n \in Int /\ s * (m + s * n) = s * m + n
           /\ s * m = n <=> m = s * n
           /\ s * n = n \/ s * n = -n
  <1>1. CASE s = 1
    BY <1>1
  <1>2. CASE s = -1
    BY <1>2
  <1> QED BY <1>1, <1>2

\* The position after a step of a call, when it is the only one that is made.
CallTracked(t) ==
    /\ \A a \in Axes : mirror[a] = offset[a] + Moved(t, a)
    /\ call[t].at = "store" => call[t].seen = offset[Axis(call[t].dir)]
    /\ call[t].at = "step" => CurrentPosition(call[t].dir) + call[t].steps < travel

LEMMA TrackedAlone ==
    ASSUME TypeOK', NEW t \in Threads, CallTracked(t)',
           \A s \in Threads : s # t => call'[s].at = "idle"
    PROVE  PositionTracked'
  <1>1. \A s \in Threads, a \in Axes : s # t => Moved(s, a)' = 0
    BY DEF Moved
  <1>2. \A a \in Axes : offset'[a] \in Int /\ Moved(t, a)' \in Int
    <2>1. \A a \in Axes : offset'[a] \in Int
      BY DEF TypeOK, Points
    <2>2. call'[t].dir \in Directions /\ call'[t].steps \in Int
      BY DEF TypeOK, Calls
    <2>3. Sign(call'[t].dir) * call'[t].steps \in Int
      BY <2>2, DirectionTypes
    <2> QED BY <2>1, <2>3 DEF Moved
  <1>3. ASSUME NEW a \in Axes
        PROVE  mirror'[a] = offset'[a] + Moved("gui", a)' + Moved("worker", a)'
    <2>1. mirror'[a] = offset'[a] + Moved(t, a)'
      BY DEF CallTracked
    <2>2. CASE t = "gui"
      <3>1. Moved("worker", a)' = 0
        BY <1>1, <2>2 DEF Threads
      <3> QED BY <1>2, <2>1, <2>2, <3>1
    <2>3. CASE t = "worker"
      <3>1. Moved("gui", a)' = 0
        BY <1>1, <2>3 DEF Threads
      <3> QED BY <1>2, <2>1, <2>3, <3>1
    <2> QED BY <2>2, <2>3 DEF Threads
  <1>4. ASSUME NEW s \in Threads
        PROVE  /\ call'[s].at = "store" => call'[s].seen = offset'[Axis(call'[s].dir)]
               /\ call'[s].at = "step" =>
                     CurrentPosition(call[s].dir)' + call'[s].steps < travel'
    BY DEF CallTracked
  <1> QED BY <1>3, <1>4 DEF PositionTracked


\* One step of a call keeps track of the position, and stays within the travel.
LEMMA MoveTracked ==
    ASSUME PositionInv, TypeOK', NEW t \in Threads, InMoveAxis(t), undisturbed
    PROVE  PositionTracked' /\ WithinTravel'
  <1>0. TypeOK /\ ThreadsMatch /\ PositionTracked /\ WithinTravel
    BY DEF PositionInv
  <1> DEFINE c == call[t]
             s == Sign(c.dir)
             k == Axis(c.dir)
  <1>1. /\ c.dir \in Directions /\ k \in Axes /\ s \in {1, -1}
        /\ c.asked \in Nat /\ c.steps \in Int /\ c.seen \in Int
        /\ c.at \in {"step", "load", "store"} => c.steps > 0
    BY <1>0, CallNumbers
  <1>2. /\ c.at # "idle" /\ call'[t].dir = c.dir /\ travel' = travel
        /\ \A r \in Threads : r # t => call'[r] = call[r]
    BY <1>0, MoveAxisKeeps
  <1>3. \A r \in Threads : r # t => call'[r].at = "idle"
    BY <1>0, <1>2, OneCall
  <1>4. /\ \A a \in Axes : offset[a] \in Int /\ mirror[a] \in Int
        /\ \A a \in Axes : mirror[a] = offset[a] + Moved(t, a)
    BY <1>0, <1>2, Differ
  <1>5. travel \in Nat \ {0} /\ CurrentPosition(c.dir) \in Int
        /\ CurrentPosition(c.dir) = s * offset[k]
    BY <1>0, <1>1, PositionTypes DEF CurrentPosition
  <1>6. \A a \in Axes : mirror[a] < travel /\ -mirror[a] < travel
    BY <1>0 DEF WithinTravel
  <1>7. call \in [Threads -> Calls] /\ mirror \in Points /\ offset \in Points
    BY <1>0 DEF TypeOK
  <1> SUFFICES CallTracked(t)' /\ \A a \in Axes : mirror'[a] < travel /\ -mirror'[a] < travel
    BY <1>2, <1>3, TrackedAlone DEF WithinTravel
  <1>8. CASE CheckLimit(t)
    <2> DEFINE n == IF c.asked > 0 /\ WouldHitLimit(c.dir, c.asked)
                    THEN Remaining(c.dir) ELSE c.asked
    <2>1. /\ c.at = "check" /\ UNCHANGED <<offset, mirror>>
          /\ call'[t].steps = n /\ call'[t].at = IF n > 0 THEN "step" ELSE "done"
      BY <1>7, <1>8 DEF CheckLimit, Calls
    <2>2. n > 0 => CurrentPosition(c.dir) + n < travel
      BY <1>1, <1>5 DEF WouldHitLimit, Remaining
    <2>3. CurrentPosition(call[t].dir)' = CurrentPosition(c.dir)
      BY <1>2, <2>1 DEF CurrentPosition
    <2> HIDE DEF n
    <2>4. \A a \in Axes : Moved(t, a) = 0 /\ Moved(t, a)' = 0
      BY <2>1 DEF Moved
    <2> QED BY <1>2, <1>4, <1>6, <2>1, <2>2, <2>3, <2>4 DEF CallTracked
  <1>9. CASE StepTaken(t)
    <2>1. /\ c.at = "step" /\ offset' = offset
          /\ call'[t].at = "load" /\ call'[t].steps = c.steps
          /\ mirror' = [mirror EXCEPT ![k] = mirror[k] + s * c.steps]
      BY <1>7, <1>9 DEF StepTaken, MirrorTo, Calls
    <2>2. \A a \in Axes : /\ Moved(t, a) = 0
                          /\ Moved(t, a)' = IF k = a THEN s * c.steps ELSE 0
      BY <1>2, <2>1 DEF Moved
    <2>3. /\ mirror'[k] = mirror[k] + s * c.steps
          /\ \A a \in Axes : a # k => mirror'[a] = mirror[a]
      BY <1>1, <1>7, <2>1 DEF Points
    <2>4. CurrentPosition(c.dir) + c.steps < travel /\ c.steps > 0
      BY <1>0, <1>1, <2>1 DEF PositionTracked
    <2>5. mirror[k] = offset[k]
      BY <1>1, <1>4, <2>2
    <2>6. mirror'[k] < travel /\ -mirror'[k] < travel
      <3> DEFINE m == mirror[k]
                 n == c.steps
      <3>1. m \in Int /\ n \in Nat /\ m < travel /\ -m < travel /\ n > 0 /\ s * m + n < travel
        BY <1>1, <1>4, <1>5, <1>6, <2>4, <2>5
      <3>2. mirror'[k] = m + s * n
        BY <2>3
      <3> HIDE DEF m, n, s
      <3>3. CASE s = 1
        BY <1>5, <3>1, <3>2, <3>3
      <3>4. CASE s = -1
        BY <1>5, <3>1, <3>2, <3>4
      <3> QED BY <1>1, <3>3, <3>4
    <2>7. \A a \in Axes : mirror'[a] = offset'[a] + Moved(t, a)'
      <3>1. \A a \in Axes : mirror[a] = offset[a]
        BY <1>4, <2>2
      <3>2. s * c.steps \in Int
        BY <1>1
      <3> QED BY <1>1, <1>4, <2>1, <2>2, <2>3, <3>1, <3>2
    <2> QED BY <1>6, <2>1, <2>3, <2>6, <2>7 DEF CallTracked
  <1>10. CASE StepFails(t) \/ StepLimitReached(t)
    <2>1. /\ c.at = "step" /\ call'[t].at = "done"
          /\ \/ UNCHANGED <<offset, mirror>>
             \/ offset' = Origin /\ mirror' = Origin
      BY <1>7, <1>10, ZenonT(60) DEF StepFails, StepLimitReached, MirrorTo, Calls
    <2>2. \A a \in Axes : Moved(t, a) = 0 /\ Moved(t, a)' = 0
      BY <2>1 DEF Moved
    <2>3. \A a \in Axes : mirror[a] = offset[a]
      BY <1>4, <2>2
    <2>4. \A a \in Axes : mirror'[a] < travel /\ -mirror'[a] < travel
                          /\ mirror'[a] = offset'[a] + 0
      BY <1>4, <1>5, <1>6, <2>1, <2>3 DEF Origin
    <2> QED BY <2>1, <2>2, <2>4 DEF CallTracked
  <1>11. CASE LoadOffset(t)
    <2>1. /\ c.at = "load" /\ UNCHANGED <<offset, mirror>>
          /\ call'[t].at = "store" /\ call'[t].steps = c.steps
          /\ call'[t].seen = offset[k]
      BY <1>7, <1>11 DEF LoadOffset, Calls
    <2>2. \A a \in Axes : Moved(t, a)' = Moved(t, a)
      BY <1>2, <2>1 DEF Moved
    <2> QED BY <1>2, <1>4, <1>6, <2>1, <2>2 DEF CallTracked
  <1>12. CASE StoreOffset(t)
    <2>1. /\ c.at = "store" /\ mirror' = mirror /\ call'[t].at = "done"
          /\ offset' = [offset EXCEPT ![k] = c.seen + s * c.steps]
      BY <1>7, <1>12 DEF StoreOffset, Calls
    <2>2. \A a \in Axes : /\ Moved(t, a) = IF k = a THEN s * c.steps ELSE 0
                          /\ Moved(t, a)' = 0
      BY <2>1 DEF Moved
    <2>3. c.seen = offset[k]
      BY <1>0, <2>1 DEF PositionTracked
    <2>4. \A a \in Axes : mirror'[a] = offset'[a] + 0
      <3> DEFINE n == s * c.steps
      <3>1. n \in Int
        BY <1>1
      <3> HIDE DEF n
      <3> QED BY <1>1, <1>4, <1>7, <2>1, <2>2, <2>3, <3>1 DEF Points, n
    <2> QED BY <1>6, <2>1, <2>2, <2>4 DEF CallTracked
  <1> QED BY <1>8, <1>9, <1>10, <1>11, <1>12 DEF InMoveAxis


\* One step of a call brings the axis that is centred nearer to its centre, or fails.
LEMMA MoveCentres ==
    ASSUME PositionInv, NEW t \in Threads, InMoveAxis(t), undisturbed
    PROVE  CentringMatch'
  <1>0. TypeOK /\ ThreadsMatch /\ PositionTracked /\ CentringMatch
    BY DEF PositionInv
  <1>1. /\ call[t].at # "idle" /\ call'[t].dir = call[t].dir
        /\ call'[t].asked = call[t].asked /\ centring' = centring
        /\ \A r \in Threads : r # t => call'[r] = call[r]
    BY <1>0, MoveAxisKeeps
  <1>2. CASE t = "worker"
    <2>1. centring = "no" /\ call["gui"].at = "idle"
      BY <1>0, <1>1, <1>2, OneCall DEF ThreadsMatch
    <2>2. call'["gui"] = call["gui"]
      BY <1>1, <1>2 DEF Threads
    <2> QED BY <1>1, <2>1, <2>2 DEF CentringMatch
  <1>3. CASE t = "gui"
    <2> DEFINE c == call["gui"]
               s == Sign(c.dir)
               a == IF centring = "vertical" THEN "y" ELSE "x"
    <2>1. /\ c.dir \in Directions /\ s \in {1, -1} /\ a \in Axes
          /\ c.asked \in Nat /\ c.steps \in Int /\ c.seen \in Int
          /\ c.at \in {"step", "load", "store"} => c.steps > 0
      BY <1>0, <1>3, CallNumbers DEF Axes
    <2>2. Axis(c.dir) = a /\ (centring = "horizontal" => offset["y"] = 0)
      BY <1>0, <1>1, <1>3 DEF CentringMatch
    <2>3. /\ c.at \in {"check", "step", "load", "store"} => s * c.asked = -offset[a]
          /\ c.at \in {"step", "load", "store"} => c.steps = c.asked
          /\ c.at = "done" /\ c.steps = c.asked => offset[a] = 0
      BY <1>0 DEF CentringMatch
    <2>4. \A b \in Axes : offset[b] \in Int
      BY <1>0, Differ
    <2>5. call \in [Threads -> Calls] /\ offset \in Points /\ travel \in Nat \ {0}
      BY <1>0, PositionTypes DEF TypeOK
    <2>6. call'["gui"].dir = c.dir /\ call'["gui"].asked = c.asked
      BY <1>1, <1>3
    <2> SUFFICES /\ centring = "horizontal" => offset'["y"] = 0
                 /\ call'["gui"].at \in {"check", "step", "load", "store"} =>
                       s * c.asked = -offset'[a]
                 /\ call'["gui"].at \in {"step", "load", "store"} =>
                       call'["gui"].steps = c.asked
                 /\ call'["gui"].at = "done" /\ call'["gui"].steps = c.asked =>
                       offset'[a] = 0
      BY <1>1, <2>2, <2>6 DEF CentringMatch
    <2>7. CASE CheckLimit(t)
      <3> DEFINE n == IF c.asked > 0 /\ WouldHitLimit(c.dir, c.asked)
                      THEN Remaining(c.dir) ELSE c.asked
      <3>1. /\ c.at = "check" /\ offset' = offset
            /\ call'["gui"].steps = n
            /\ call'["gui"].at = IF n > 0 THEN "step" ELSE "done"
        BY <1>3, <2>5, <2>7 DEF CheckLimit, Calls
      <3>2. s * c.asked = -offset[a] /\ CurrentPosition(c.dir) = s * offset[a]
        BY <2>2, <2>3, <3>1 DEF CurrentPosition
      <3>3. CurrentPosition(c.dir) = -c.asked
        <4> DEFINE n1 == c.asked
                   m1 == offset[a]
        <4>1. n1 \in Int /\ m1 \in Int /\ s * n1 = -m1 /\ CurrentPosition(c.dir) = s * m1
          BY <2>1, <2>4, <3>2
        <4>2. s * m1 = -n1
          <5> HIDE DEF n1, m1, s
          <5>1. CASE s = 1
            BY <4>1, <5>1
          <5>2. CASE s = -1
            BY <4>1, <5>2
          <5> QED BY <2>1, <5>1, <5>2
        <4> QED BY <4>1, <4>2
      <3>4. n = c.asked
        BY <2>1, <2>5, <3>3 DEF WouldHitLimit
      <3>5. ~(n > 0) => offset[a] = 0
        <4>1. ~(n > 0) => c.asked = 0
          BY <2>1, <3>4
        <4>2. s * 0 = 0
          BY <2>1
        <4> QED BY <2>1, <2>4, <3>2, <4>1, <4>2
      <3> HIDE DEF n
      <3> QED BY <2>2, <3>1, <3>2, <3>4, <3>5
    <2>8. CASE StepTaken(t)
      <3>1. /\ c.at = "step" /\ offset' = offset
            /\ call'["gui"].steps = c.steps /\ call'["gui"].at = "load"
        BY <1>3, <2>5, <2>8 DEF StepTaken, Calls
      <3> QED BY <2>2, <2>3, <3>1
    <2>9. CASE StepFails(t) \/ StepLimitReached(t)
      <3>0. offset' = offset \/ offset' = Origin
        BY <2>9 DEF StepFails, StepLimitReached
      <3>1. c.at = "step" /\ call'["gui"].steps = 0 /\ call'["gui"].at = "done"
        <4>1. c.at = "step"
          BY <1>3, <2>9 DEF StepFails, StepLimitReached
        <4>2. CASE StepFails(t)
          BY <1>3, <2>5, <4>1, <4>2 DEF StepFails, Calls
        <4>3. CASE StepLimitReached(t)
          BY <1>3, <2>5, <4>1, <4>3 DEF StepLimitReached, Calls
        <4> QED BY <2>9, <4>2, <4>3
      <3>2. c.asked # 0
        BY <2>1, <2>3, <3>1
      <3> QED BY <2>2, <3>0, <3>1, <3>2 DEF Origin, Axes
    <2>10. CASE LoadOffset(t)
      <3>1. /\ c.at = "load" /\ offset' = offset
            /\ call'["gui"].steps = c.steps /\ call'["gui"].at = "store"
        BY <1>3, <2>5, <2>10 DEF LoadOffset, Calls
      <3> QED BY <2>2, <2>3, <3>1
    <2>11. CASE StoreOffset(t)
      <3>1. /\ c.at = "store" /\ call'["gui"].at = "done"
            /\ offset' = [offset EXCEPT ![a] = c.seen + s * c.steps]
        BY <1>3, <2>2, <2>5, <2>11 DEF StoreOffset, Calls
      <3>2. c.seen = offset[a]
        BY <1>0, <1>3, <2>2, <3>1 DEF PositionTracked
      <3>3. c.seen + s * c.steps = 0
        BY <2>1, <2>3, <2>4, <3>1, <3>2
      <3>4. offset'[a] = 0 /\ \A b \in Axes : b # a => offset'[b] = offset[b]
        BY <2>1, <2>5, <3>1, <3>3 DEF Points
      <3> QED BY <2>2, <3>1, <3>4 DEF Axes
    <2> QED BY <2>7, <2>8, <2>9, <2>10, <2>11 DEF InMoveAxis
  <1> QED BY <1>2, <1>3 DEF Threads


\* Steps between two calls leave the position alone.
LEMMA TrackedBetween ==
    ASSUME PositionInv, undisturbed, UNCHANGED <<travel, offset, mirror>>, NEW t \in Threads,
           call[t].at \in {"idle", "check", "done"}, call'[t].at \in {"idle", "check"},
           \A s \in Threads : s # t => call'[s] = call[s]
    PROVE  PositionTracked' /\ WithinTravel'
  <1>1. PositionTracked /\ WithinTravel
    BY DEF PositionInv
  <1>2. ASSUME NEW s \in Threads, NEW a \in Axes
        PROVE  Moved(s, a)' = Moved(s, a)
    BY DEF Moved
  <1>3. \A d : CurrentPosition(d)' = CurrentPosition(d)
    BY DEF CurrentPosition
  <1>4. \A a \in Axes : mirror'[a] = offset'[a] + Moved("gui", a)' + Moved("worker", a)'
    BY <1>1, <1>2 DEF PositionTracked, Threads
  <1>5. ASSUME NEW s \in Threads
        PROVE  /\ call'[s].at = "store" => call'[s].seen = offset'[Axis(call'[s].dir)]
               /\ call'[s].at = "step" =>
                     CurrentPosition(call[s].dir)' + call'[s].steps < travel'
    BY <1>1, <1>3 DEF PositionTracked
  <1> QED BY <1>1, <1>4, <1>5 DEF PositionTracked, WithinTravel

\* The GUI thread starts to centre an axis by what its offset is.
LEMMA CentreAxisKeeps ==
    ASSUME PositionInv, CentreAxis, undisturbed
    PROVE  PositionTracked' /\ WithinTravel' /\ CentringMatch'
  <1>0. TypeOK /\ CentringMatch
    BY DEF PositionInv
  <1> DEFINE a == IF centring = "vertical" THEN "y" ELSE "x"
             d == IF a = "y" THEN IF offset[a] > 0 THEN "DOWN" ELSE "UP"
                  ELSE IF offset[a] > 0 THEN "LEFT" ELSE "RIGHT"
             n == IF offset[a] > 0 THEN offset[a] ELSE -offset[a]
  <1>1. a \in Axes /\ offset[a] \in Int /\ call \in [Threads -> Calls]
    BY <1>0 DEF TypeOK, Points, Axes
  <1>2. Axis(d) = a /\ Sign(d) * n = -offset[a]
    <2>1. CASE offset[a] > 0
      BY <1>1, <2>1 DEF Axis, Sign
    <2>2. CASE ~(offset[a] > 0)
      BY <1>1, <2>2 DEF Axis, Sign
    <2> QED BY <2>1, <2>2
  <1>3. call' = [call EXCEPT !["gui"] = MoveAxis(d, n)]
        /\ call["gui"].at = "idle" /\ UNCHANGED <<travel, offset, mirror, centring>>
    BY DEF CentreAxis
  <1> HIDE DEF d, n
  <1>4. MoveAxis(d, n).at = "check" /\ MoveAxis(d, n).dir = d /\ MoveAxis(d, n).asked = n
    BY DEF MoveAxis, Idle
  <1>5. call'["gui"] = MoveAxis(d, n)
        /\ \A s \in Threads : s # "gui" => call'[s] = call[s]
    BY <1>1, <1>3 DEF Threads
  <1>6. PositionTracked' /\ WithinTravel'
    BY <1>3, <1>4, <1>5, TrackedBetween DEF Threads
  <1>7. centring = "horizontal" => offset["y"] = 0
    BY <1>0 DEF CentringMatch
  <1>8. CentringMatch'
    BY <1>2, <1>3, <1>4, <1>5, <1>7 DEF CentringMatch
  <1> QED BY <1>6, <1>8

\* The second axis is centred only when the first one is.
LEMMA CentreMovedKeeps ==
    ASSUME PositionInv, CentreMoved, undisturbed
    PROVE  PositionTracked' /\ WithinTravel' /\ CentringMatch' /\ AssertionsHold'
  <1>0. TypeOK /\ CentringMatch /\ AssertionsHold
    BY DEF PositionInv
  <1> DEFINE whole == call["gui"].steps = call["gui"].asked
  <1>1. /\ call["gui"].at = "done" /\ call' = [call EXCEPT !["gui"] = Idle]
        /\ UNCHANGED <<travel, offset, mirror>>
        /\ centring' = IF whole /\ centring = "vertical" THEN "horizontal" ELSE "no"
        /\ failed' = IF whole /\ centring = "horizontal" /\ offset # Origin
                     THEN failed \cup {"centred"} ELSE failed
    BY DEF CentreMoved
  <1>2. call \in [Threads -> Calls] /\ offset \in Points
    BY <1>0 DEF TypeOK
  <1>3. call'["gui"] = Idle /\ Idle.at = "idle"
        /\ \A s \in Threads : s # "gui" => call'[s] = call[s]
    BY <1>1, <1>2 DEF Threads, Idle
  <1>4. PositionTracked' /\ WithinTravel'
    BY <1>1, <1>3, TrackedBetween DEF Threads
  <1>5. /\ whole /\ centring = "vertical" => offset["y"] = 0
        /\ whole /\ centring = "horizontal" => offset["x"] = 0 /\ offset["y"] = 0
    BY <1>0, <1>1 DEF CentringMatch
  <1>6. CentringMatch'
    BY <1>1, <1>3, <1>5 DEF CentringMatch
  <1>7. whole /\ centring = "horizontal" => offset = Origin
    BY <1>2, <1>5 DEF Points, Axes, Origin
  <1>8. AssertionsHold'
    BY <1>0, <1>1, <1>7 DEF AssertionsHold
  <1> QED BY <1>4, <1>6, <1>8

\* The worker's steps between two calls.
LEMMA WorkerKeeps ==
    ASSUME PositionInv, TakeMove \/ NextAxis \/ MoveDone, undisturbed
    PROVE  PositionTracked' /\ WithinTravel' /\ CentringMatch'
  <1>a. TypeOK /\ ThreadsMatch /\ CentringMatch
    BY DEF PositionInv
  <1>b. call \in [Threads -> Calls]
    BY <1>a DEF TypeOK
  <1>0. call["worker"].at = "idle" <=> serving = <<>>
    BY <1>a DEF ThreadsMatch
  <1>1. /\ call["worker"].at \in {"idle", "done"} /\ call'["worker"].at \in {"idle", "check"}
        /\ call'["gui"] = call["gui"]
    <2>1. CASE TakeMove
      <3>1. Head(queue).legs[1] \in Legs /\ Start(Head(queue).legs[1]) /\ serving = <<>>
        BY <1>a, <1>0, <2>1, LegsStarted DEF TakeMove
      <3> QED BY <1>a, <1>0, <3>1, StartKeeps
    <2>2. CASE NextAxis
      <3>1. serving[1].legs[2] \in Legs /\ Start(serving[1].legs[2])
            /\ call["worker"].at = "done"
        BY <1>a, <1>0, <2>2, LegsStarted DEF NextAxis
      <3> QED BY <1>a, <3>1, StartKeeps
    <2>3. CASE MoveDone
      BY <1>b, <2>3 DEF MoveDone, Threads, Idle
    <2> QED BY <2>1, <2>2, <2>3
  <1>2. UNCHANGED <<travel, offset, mirror, centring>>
    BY DEF TakeMove, NextAxis, MoveDone
  <1>3. PositionTracked' /\ WithinTravel'
    BY <1>1, <1>2, TrackedBetween DEF Threads
  <1> QED BY <1>a, <1>1, <1>2, <1>3 DEF CentringMatch

\* The GUI thread's handlers, which no call of its own is in.
LEMMA HandlerKeeps ==
    ASSUME PositionInv, undisturbed, UNCHANGED <<travel, offset, mirror, call>>,
           \/ centring' = centring
           \/ centring = "no" /\ centring' # "horizontal"
    PROVE  PositionTracked' /\ WithinTravel' /\ CentringMatch'
  <1>0. PositionTracked /\ WithinTravel /\ CentringMatch /\ ThreadsMatch
    BY DEF PositionInv
  <1>1. \A t, a : Moved(t, a)' = Moved(t, a)
    BY DEF Moved
  <1>2. PositionTracked' /\ WithinTravel'
    BY <1>0, <1>1 DEF PositionTracked, CurrentPosition, WithinTravel
  <1>3. CASE centring' = centring
    BY <1>0, <1>2, <1>3 DEF CentringMatch
  <1>4. CASE centring = "no" /\ centring' # "horizontal"
    <2>1. call'["gui"].at = "idle"
      BY <1>0, <1>4 DEF ThreadsMatch
    <2> QED BY <1>2, <1>4, <2>1 DEF CentringMatch
  <1> QED BY <1>3, <1>4


\* A travel that is changed with no move ahead and the mirror inside it.
LEMMA SetMaxPositionKeeps ==
    ASSUME PositionInv, TypeOK', SetMaxPosition, undisturbed'
    PROVE  PositionTracked' /\ WithinTravel' /\ CentringMatch'
  <1>0. TypeOK /\ ThreadsMatch /\ PositionTracked
    BY DEF PositionInv
  <1>1. /\ undisturbed /\ ItemsAhead = {} /\ centring = "no"
        /\ \A d \in Directions : CurrentPosition(d) < travel'
        /\ UNCHANGED <<offset, mirror, call, centring>>
    BY DEF SetMaxPosition, GuiFree
  <1>2. serving = <<>>
    BY <1>0, <1>1, AheadTypes
  <1>3. \A t \in Threads : call[t].at = "idle"
    BY <1>0, <1>1, <1>2 DEF ThreadsMatch, Threads
  <1>4. \A a \in Axes : mirror[a] = offset[a] /\ offset[a] \in Int
    BY <1>0, <1>1, <1>3, Differ
  <1>5. PositionTracked'
    <2>1. \A t \in Threads, a \in Axes : Moved(t, a)' = 0
      BY <1>1, <1>3 DEF Moved
    <2>2. \A a \in Axes : mirror'[a] = offset'[a] + Moved("gui", a)' + Moved("worker", a)'
      BY <1>1, <1>4, <2>1 DEF Threads
    <2> QED BY <1>1, <1>3, <2>2 DEF PositionTracked
  <1>6. WithinTravel'
    <2>1. travel' \in Nat
      BY StepGuiderAssumption DEF TypeOK
    <2>2. /\ 1 * offset["x"] < travel' /\ (-1) * offset["x"] < travel'
          /\ 1 * offset["y"] < travel' /\ (-1) * offset["y"] < travel'
      BY <1>1 DEF Directions, CurrentPosition, Axis, Sign
    <2>3. \A a \in Axes : offset[a] < travel' /\ -offset[a] < travel'
      BY <1>4, <2>1, <2>2 DEF Axes
    <2> QED BY <1>1, <1>4, <2>3 DEF WithinTravel
  <1>7. CentringMatch'
    BY <1>1, <1>3 DEF CentringMatch, Threads
  <1> QED BY <1>5, <1>6, <1>7

\* Only a restart makes up for an interference.
LEMMA UndisturbedBefore ==
    ASSUME TypeOK, [Next]_vars, undisturbed'
    PROVE  undisturbed \/ Restart
  <1>1. undisturbed' = undisturbed => undisturbed
    OBVIOUS
  <1>2. Watch \/ StartGuiding \/ LimitReached \/ SetMaxPosition => undisturbed
    BY DEF Watch, StartGuiding, LimitReached, SetMaxPosition
  <1>3. (\E t \in Threads : InMoveAxis(t)) => undisturbed
    BY MoveAxisKeeps
  <1> QED BY <1>1, <1>2, <1>3, NextCases
          DEF vars, TakeMove, NextAxis, MoveDone, Expose, CentreAxis, CentreMoved,
              StopGuiding, ClearCalibration, ManualMove, ImageIgnored, GuideStep,
              CalibrationFails, CalibrationGoesOn, CalibrationHasNoState, MoveEnded

\* An image is handled between two moves: what is left of the travel is not negative.
LEMMA RemainingAtImage ==
    ASSUME PositionInv, CalibrationGoesOn, undisturbed
    PROVE  /\ \A t \in Threads : call[t].at = "idle"
           /\ ItemsAhead = {}
           /\ \A a \in Axes : mirror[a] = offset[a]
           /\ \A d \in Directions : Remaining(d) >= 0
  <1>0. TypeOK /\ ThreadsMatch /\ PositionTracked /\ WithinTravel
    BY DEF PositionInv
  <1>1. centring = "no" /\ guider = "calibrating" /\ ~Busy(reports)
    BY DEF CalibrationGoesOn, ImageReady, GuiFree
  <1>2. ItemsAhead = {}
    <2>1. ~ManualAhead
      BY <1>0, <1>1 DEF ThreadsMatch, Interference
    <2>2. \A item \in ItemsAhead : ~Counted(item)
      BY <1>1 DEF Busy
    <2> QED BY <2>1, <2>2 DEF ManualAhead
  <1>3. \A t \in Threads : call[t].at = "idle"
    BY <1>0, <1>1, <1>2, AheadTypes DEF ThreadsMatch, Threads
  <1>4. \A a \in Axes : mirror[a] = offset[a] /\ offset[a] \in Int
    BY <1>0, <1>3, Differ
  <1>5. \A a \in Axes : mirror[a] < travel /\ -mirror[a] < travel
    BY <1>0 DEF WithinTravel
  <1>6. ASSUME NEW d \in Directions
        PROVE  Remaining(d) >= 0
    <2>1. CurrentPosition(d) < travel
      <3>1. Axis(d) \in Axes /\ Sign(d) \in {1, -1}
        BY DirectionTypes
      <3>2. offset[Axis(d)] \in Int /\ offset[Axis(d)] < travel /\ -offset[Axis(d)] < travel
        BY <1>4, <1>5, <3>1
      <3> QED BY <3>1, <3>2 DEF CurrentPosition
    <2> QED BY <1>0, <2>1, PositionTypes DEF Remaining
  <1> QED BY <1>2, <1>3, <1>4, <1>6

LEMMA AssertionsInductive ==
    ASSUME PositionInv, [Next]_vars, undisturbed'
    PROVE  AssertionsHold'
  <1>0. TypeOK /\ AssertionsHold /\ TypeOK
    BY DEF PositionInv
  <1>1. CASE Restart
    BY <1>1 DEF Restart, AssertionsHold
  <1>2. CASE undisturbed
    <2>0. failed \cap {"steps remaining", "centred"} = {}
      BY <1>0, <1>2 DEF AssertionsHold
    <2>1. CASE CalibrationGoesOn
      <3>1. \A d \in Directions : ~(Remaining(d) < 0)
        BY <1>0, <1>2, <2>1, RemainingAtImage, PositionTypes
      <3>2. failed' = failed
        BY <2>1, <3>1 DEF CalibrationGoesOn
      <3> QED BY <2>0, <3>2 DEF AssertionsHold
    <2>2. CASE CalibrationHasNoState
      BY <2>0, <2>2 DEF CalibrationHasNoState, AssertionsHold
    <2>3. CASE CentreMoved
      BY <1>2, <2>3, CentreMovedKeeps
    <2>4. CASE \E t \in Threads : InMoveAxis(t)
      <3>1. failed' = failed
        BY <1>0, <2>4, MoveAxisKeeps
      <3> QED BY <2>0, <3>1 DEF AssertionsHold
    <2>5. CASE failed' = failed
      BY <2>0, <2>5 DEF AssertionsHold
    <2> QED BY <1>1, <2>1, <2>2, <2>3, <2>4, <2>5, NextCases
            DEF vars, TakeMove, NextAxis, MoveDone, Expose, CentreAxis, StartGuiding,
                StopGuiding, ClearCalibration, ManualMove, SetMaxPosition, ImageIgnored,
                GuideStep, CalibrationFails, MoveEnded, LimitReached
  <1> QED BY <1>0, <1>1, <1>2, UndisturbedBefore

\* The first state of the program.
Start0 == /\ offset = Origin /\ mirror = Origin /\ call = [t \in Threads |-> Idle]
          /\ queue = <<>> /\ serving = <<>> /\ centring = "no" /\ image = "none"
          /\ guider = "idle" /\ failed = {}

LEMMA StartInv ==
    ASSUME TypeOK, Start0
    PROVE  PositionInv
  <1>1. ItemsAhead = {}
    BY DEF ItemsAhead, Start0
  <1>2. \A t \in Threads : call[t].at = "idle"
    BY DEF Start0, Idle
  <1>3. ThreadsMatch
    BY <1>1, <1>2 DEF ThreadsMatch, Interference, ManualAhead, Start0, Threads
  <1>4. PositionTracked
    <2>1. \A t \in Threads, a \in Axes : Moved(t, a) = 0
      BY <1>2 DEF Moved
    <2>2. \A a \in Axes : mirror[a] = 0 /\ offset[a] = 0
      BY DEF Start0, Origin
    <2>3. \A a \in Axes : mirror[a] = offset[a] + Moved("gui", a) + Moved("worker", a)
      BY <2>1, <2>2 DEF Threads
    <2> QED BY <1>2, <2>3 DEF PositionTracked
  <1>5. CentringMatch
    BY <1>2 DEF CentringMatch, Start0, Threads
  <1>6. WithinTravel /\ AssertionsHold
    <2>1. travel \in Nat \ {0}
      BY PositionTypes
    <2> QED BY <2>1 DEF WithinTravel, AssertionsHold, Start0, Origin
  <1> QED BY <1>3, <1>4, <1>5, <1>6 DEF PositionInv

LEMMA InitInv == Init => PositionInv
  <1> SUFFICES ASSUME Init PROVE PositionInv
    OBVIOUS
  <1>1. PointsOK
    BY DirectionTypes DEF Init, PointsOK
  <1>2. CallsOK
    BY CallTypes DEF Init, CallsOK, CallOK
  <1>3. QueueOK
    BY DEF Init, QueueOK
  <1>4. FlagsOK
    BY StepGuiderAssumption DEF Init, FlagsOK
  <1>5. cal \in CalType
    BY ClearedTyped DEF Init
  <1>6. Start0
    BY DEF Init, Start0
  <1> QED BY <1>1, <1>2, <1>3, <1>4, <1>5, <1>6, TypeParts, StartInv

LEMMA InvInductive == PositionInv /\ [Next]_vars => PositionInv'
  <1> SUFFICES ASSUME PositionInv, [Next]_vars PROVE PositionInv'
    OBVIOUS
  <1>1. TypeOK /\ ThreadsMatch
    BY DEF PositionInv
  <1>2. TypeOK' /\ ThreadsMatch'
    BY <1>1, TypeInductive, ThreadsMatchInductive DEF ThreadsMatch
  <1>3. undisturbed' => PositionTracked' /\ WithinTravel' /\ CentringMatch'
    <2> SUFFICES ASSUME undisturbed'
                 PROVE  PositionTracked' /\ WithinTravel' /\ CentringMatch'
      OBVIOUS
    <2>1. CASE Restart
      <3>1. Start0'
        BY <2>1 DEF Restart, Start0
      <3>2. PositionInv'
        BY <1>2, <3>1, StartInv, PTL
      <3> QED BY <3>2 DEF PositionInv
    <2>2. CASE undisturbed /\ \E t \in Threads : InMoveAxis(t)
      BY <1>2, <2>2, MoveTracked, MoveCentres
    <2>3. CASE undisturbed /\ (CentreAxis \/ CentreMoved)
      BY <2>3, CentreAxisKeeps, CentreMovedKeeps
    <2>4. CASE undisturbed /\ (TakeMove \/ NextAxis \/ MoveDone)
      BY <2>4, WorkerKeeps
    <2>5. CASE SetMaxPosition
      BY <1>2, <2>5, SetMaxPositionKeeps
    <2>6. CASE /\ undisturbed /\ UNCHANGED <<travel, offset, mirror, call>>
               /\ \/ centring' = centring
                  \/ centring = "no" /\ centring' # "horizontal"
      BY <2>6, HandlerKeeps
    <2>7. CASE StopGuiding \/ MoveEnded \/ LimitReached
      <3>1. UNCHANGED <<travel, offset, mirror, call>> /\ centring = "no"
            /\ centring' \in {"no", "vertical"}
        BY <2>7 DEF StopGuiding, MoveEnded, LimitReached, GuiFree
      <3> QED BY <1>1, <2>1, <2>6, <3>1, UndisturbedBefore
    <2> QED BY <1>1, <2>1, <2>2, <2>3, <2>4, <2>5, <2>6, <2>7, NextCases, UndisturbedBefore
            DEF vars, Expose, StartGuiding, ClearCalibration, ManualMove, ImageIgnored,
                GuideStep, CalibrationFails, CalibrationGoesOn, CalibrationHasNoState
  <1>4. PositionTracked' /\ WithinTravel' /\ CentringMatch'
    BY <1>3 DEF PositionTracked, WithinTravel, CentringMatch
  <1>5. AssertionsHold'
    BY AssertionsInductive DEF AssertionsHold
  <1> QED BY <1>2, <1>4, <1>5 DEF PositionInv

-------------------------------------------------------------------------------
(* The theorems.                                                           *)

\* The inductive invariant: the threads' calls agree with their queues, one thread at a
\* time moves the mirror, and what a call has moved it by is what is not noted yet.
THEOREM InvHolds == Spec => []PositionInv
  BY InitInv, InvInductive, PTL DEF Spec

\* Every variable has its type, for any travel, samples, step sizes and queued pulses.
THEOREM TypeCorrect == Spec => []TypeOK
  <1>1. PositionInv => TypeOK
    BY DEF PositionInv
  <1> QED BY <1>1, InvHolds, PTL

\* Between two moves the program knows where the mirror is.
THEOREM PositionKnownHolds == Spec => []PositionKnown
  <1>1. PositionInv => PositionKnown
    <2> SUFFICES ASSUME PositionInv, undisturbed,
                        \A t \in Threads : call[t].at \notin {"load", "store"}
                 PROVE  offset = mirror
      BY DEF PositionKnown
    <2>1. TypeOK /\ ThreadsMatch /\ PositionTracked
      BY DEF PositionInv
    <2>2. \A a \in Axes : mirror[a] = offset[a]
      BY <2>1, Differ
    <2>3. offset \in [Axes -> Int] /\ mirror \in [Axes -> Int]
      BY <2>1 DEF TypeOK, Points
    <2> QED BY <2>2, <2>3
  <1> QED BY <1>1, InvHolds, PTL

\* The mirror is never driven out of its travel.
THEOREM WithinTravelHolds == Spec => []WithinTravel
  <1>1. PositionInv => WithinTravel
    BY DEF PositionInv
  <1> QED BY <1>1, InvHolds, PTL

\* The assertions of UpdateCalibrationState and MoveToCenter do not fail.
THEOREM AssertionsHoldHolds == Spec => []AssertionsHold
  <1>1. PositionInv => AssertionsHold
    BY DEF PositionInv
  <1> QED BY <1>1, InvHolds, PTL

===============================================================================
