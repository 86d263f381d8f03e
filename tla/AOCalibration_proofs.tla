------------------------- MODULE AOCalibration_proofs -------------------------
(***************************************************************************)
(* Proofs about the calibration of StepGuider: for any travel, number of   *)
(* samples and size of steps, what a finished calibration has measured is  *)
(* exact, as long as nobody interferes.                                    *)
(***************************************************************************)
EXTENDS StepGuider_proofs

-------------------------------------------------------------------------------
(* Corners and sums.                                                       *)

Signs == {1, -1}

\* One more image in the corner, and the way from one corner to the next.
LEMMA Products ==
    ASSUME NEW n \in Int, NEW k \in Int
    PROVE  /\ \A s \in Signs : n * (s * k) + s * k = (n + 1) * (s * k)
           /\ n * (1 * k) - n * ((-1) * k) = n * (2 * k)
           /\ n * ((-1) * k) - n * (1 * k) = -(n * (2 * k))
           /\ \A s \in Signs : n * (s * k) - n * (s * k) = 0 /\ 0 * (s * k) = 0
           /\ \A s \in Signs : n * (s * k) \in Int
  BY DEF Signs

LEMMA CornerTypes ==
    ASSUME TypeOK, NEW sx \in Signs, NEW sy \in Signs
    PROVE  /\ Corner(sx, sy) \in Points
           /\ Corner(sx, sy)["x"] = sx * (travel - 1)
           /\ Corner(sx, sy)["y"] = sy * (travel - 1)
           /\ \A n \in Int : /\ Times(n, Corner(sx, sy)) \in Points
                             /\ Plus(Times(n, Corner(sx, sy)), Corner(sx, sy)) =
                                   Times(n + 1, Corner(sx, sy))
           /\ Origin = Times(0, Corner(sx, sy))
  <1> DEFINE k == travel - 1
  <1>1. k \in Int
    BY PositionTypes
  <1>2. Corner(sx, sy) = [a \in Axes |-> IF a = "x" THEN sx * k ELSE sy * k]
    BY DEF Corner
  <1> HIDE DEF k
  <1>3. sx * k \in Int /\ sy * k \in Int
    BY <1>1 DEF Signs
  <1>4. Corner(sx, sy) \in Points
    BY <1>2, <1>3 DEF Points
  <1>5. Corner(sx, sy)["x"] = sx * k /\ Corner(sx, sy)["y"] = sy * k
    BY <1>2 DEF Axes
  <1>6. ASSUME NEW n \in Int
        PROVE  /\ Times(n, Corner(sx, sy)) \in Points
               /\ Plus(Times(n, Corner(sx, sy)), Corner(sx, sy)) =
                     Times(n + 1, Corner(sx, sy))
    <2>1. n * (sx * k) \in Int /\ n * (sy * k) \in Int
      BY <1>1, Products
    <2>2. /\ n * (sx * k) + sx * k = (n + 1) * (sx * k)
          /\ n * (sy * k) + sy * k = (n + 1) * (sy * k)
      BY <1>1, Products
    <2>3. Times(n, Corner(sx, sy)) = [a \in Axes |-> IF a = "x" THEN n * (sx * k)
                                                     ELSE n * (sy * k)]
      BY <1>5 DEF Times, Axes
    <2>4. Times(n + 1, Corner(sx, sy)) = [a \in Axes |-> IF a = "x" THEN (n + 1) * (sx * k)
                                                         ELSE (n + 1) * (sy * k)]
      BY <1>5 DEF Times, Axes
    <2>5. Times(n, Corner(sx, sy)) \in Points
      BY <2>1, <2>3 DEF Points
    <2>6. Plus(Times(n, Corner(sx, sy)), Corner(sx, sy)) =
             [a \in Axes |-> IF a = "x" THEN n * (sx * k) + sx * k ELSE n * (sy * k) + sy * k]
      BY <1>5, <2>3 DEF Plus, Axes
    <2> QED BY <2>2, <2>4, <2>5, <2>6
  <1>7. Origin = Times(0, Corner(sx, sy))
    <2>1. 0 * (sx * k) = 0 /\ 0 * (sy * k) = 0
      BY <1>1, Products
    <2> QED BY <1>5, <2>1 DEF Origin, Times, Axes
  <1> QED BY <1>4, <1>5, <1>6, <1>7 DEF k

\* The distance between two corners, summed up.
LEMMA CornerDistances ==
    ASSUME TypeOK
    PROVE  /\ Minus(Times(Samples, Corner(-1, -1)), Times(Samples, Corner(1, -1))) =
                 [x |-> -(Samples * (2 * (travel - 1))), y |-> 0]
           /\ Minus(Times(Samples, Corner(-1, 1)), Times(Samples, Corner(-1, -1))) =
                 [x |-> 0, y |-> Samples * (2 * (travel - 1))]
  <1> DEFINE k == travel - 1
  <1>1. k \in Int /\ Samples \in Int
    BY PositionTypes, StepGuiderAssumption
  <1>2. \A sx, sy : /\ Times(Samples, Corner(sx, sy))["x"] = Samples * (sx * k)
                    /\ Times(Samples, Corner(sx, sy))["y"] = Samples * (sy * k)
    BY DEF Times, Corner, Axes
  <1> HIDE DEF k
  <1>3. /\ Samples * (1 * k) - Samples * ((-1) * k) = Samples * (2 * k)
        /\ Samples * ((-1) * k) - Samples * (1 * k) = -(Samples * (2 * k))
        /\ Samples * ((-1) * k) - Samples * ((-1) * k) = 0
    BY <1>1, Products DEF Signs
  <1>4. \A p, q : Minus(p, q) = [a \in Axes |-> p[a] - q[a]]
    BY DEF Minus
  <1>5. Minus(Times(Samples, Corner(-1, -1)), Times(Samples, Corner(1, -1))) =
           [x |-> -(Samples * (2 * k)), y |-> 0]
    BY <1>2, <1>3, <1>4 DEF Axes
  <1>6. Minus(Times(Samples, Corner(-1, 1)), Times(Samples, Corner(-1, -1))) =
           [x |-> 0, y |-> Samples * (2 * k)]
    BY <1>2, <1>3, <1>4 DEF Axes
  <1> QED BY <1>5, <1>6 DEF k

-------------------------------------------------------------------------------
(* What each state of the calibration leaves behind.                       *)

Here(sx, sy) == mirror = Corner(sx, sy)
SumAt(c, sx, sy) == c.sum = Times(c.samples, Corner(sx, sy))
From(c, sx, sy) == c.start = Times(Samples, Corner(sx, sy))
XExactIn(c) == c.xRate.dist = [x |-> -(Samples * c.xRate.over), y |-> 0]
YExactIn(c) == c.yRate.dist = [x |-> 0, y |-> Samples * c.yRate.over]

\* The directions that are still gone in on the way back to the centre.
Short(d) == IF d = "RIGHT" THEN mirror["x"] + CalSteps <= 0 ELSE mirror["y"] - CalSteps >= 0
NearCentre == \A a \in Axes : mirror[a] < CalSteps /\ -mirror[a] < CalSteps

StepMatches(c) ==
    /\ c.state \in Averaging => c.go = {}
    /\ c.state = "AVERAGE_STARTING_LOCATION" => Here(1, -1) /\ SumAt(c, 1, -1)
    /\ c.state = "GO_LEFT" => /\ mirror["y"] = 1 - travel /\ From(c, 1, -1)
                              /\ c.go \subseteq {"LEFT"}
    /\ c.state = "AVERAGE_CENTER_LOCATION" =>
          Here(-1, -1) /\ SumAt(c, -1, -1) /\ From(c, 1, -1)
    /\ c.state = "GO_UP" => /\ mirror["x"] = 1 - travel /\ From(c, -1, -1) /\ XExactIn(c)
                            /\ c.go \subseteq {"UP"}
    /\ c.state = "AVERAGE_ENDING_LOCATION" =>
          Here(-1, 1) /\ SumAt(c, -1, 1) /\ From(c, -1, -1) /\ XExactIn(c)
    /\ c.state \in {"RECENTER", "COMPLETE"} => XExactIn(c) /\ YExactIn(c)
    /\ c.state = "RECENTER" => /\ mirror["x"] <= 0 /\ mirror["y"] >= 0
                               /\ c.go \subseteq {"RIGHT", "DOWN"} /\ \A d \in c.go : Short(d)
    /\ c.state = "COMPLETE" => NearCentre

\* An image is handled with the mirror where the program thinks it is, in its travel.
Settled == /\ TypeOK
           /\ \A a \in Axes : mirror[a] = offset[a]
           /\ \A d \in Directions : Remaining(d) >= 0

\* Nothing left to do in a direction: the mirror is at that end.
LEMMA AtTheEnd ==
    ASSUME Settled
    PROVE  /\ ~(Remaining("LEFT") > 0) => mirror["x"] = 1 - travel
           /\ ~(Remaining("RIGHT") > 0) => mirror["x"] = travel - 1
           /\ ~(Remaining("UP") > 0) => mirror["y"] = travel - 1
           /\ ~(Remaining("DOWN") > 0) => mirror["y"] = 1 - travel
           /\ mirror["y"] = 0 /\ travel > 1 => Remaining("DOWN") > 0
  <1>1. TypeOK /\ travel \in Nat
    BY PositionTypes DEF Settled
  <1>2. offset["x"] \in Int /\ offset["y"] \in Int
    BY <1>1 DEF TypeOK, Points, Axes
  <1>3. mirror["x"] = offset["x"] /\ mirror["y"] = offset["y"]
    BY DEF Settled, Axes
  <1>4. /\ Remaining("LEFT") = travel - 1 + offset["x"]
        /\ Remaining("RIGHT") = travel - 1 - offset["x"]
        /\ Remaining("UP") = travel - 1 - offset["y"]
        /\ Remaining("DOWN") = travel - 1 + offset["y"]
    BY <1>1, <1>2 DEF Remaining, CurrentPosition, Axis, Sign
  <1>5. Remaining("LEFT") >= 0 /\ Remaining("RIGHT") >= 0 /\ Remaining("UP") >= 0
        /\ Remaining("DOWN") >= 0
    BY DEF Settled, Directions
  <1> QED BY <1>1, <1>2, <1>3, <1>4, <1>5

LEMMA AtCorner ==
    ASSUME Settled
    PROVE  /\ mirror["x"] = travel - 1 /\ mirror["y"] = 1 - travel => Here(1, -1)
           /\ mirror["x"] = 1 - travel /\ mirror["y"] = 1 - travel => Here(-1, -1)
           /\ mirror["x"] = 1 - travel /\ mirror["y"] = travel - 1 => Here(-1, 1)
           /\ Here(1, -1) => mirror["y"] = 1 - travel
           /\ Here(-1, -1) => mirror["x"] = 1 - travel /\ mirror["y"] = 1 - travel
           /\ Here(-1, 1) => mirror["x"] <= 0 /\ mirror["y"] >= 0
  <1>1. TypeOK /\ travel \in Nat /\ travel > 0
    BY PositionTypes DEF Settled
  <1>2. mirror \in [Axes -> Int]
    BY <1>1 DEF TypeOK, Points
  <1>3. 1 * (travel - 1) = travel - 1 /\ (-1) * (travel - 1) = 1 - travel
    BY <1>1
  <1>4. \A sx, sy \in Signs : Here(sx, sy) <=> /\ mirror["x"] = sx * (travel - 1)
                                               /\ mirror["y"] = sy * (travel - 1)
    BY <1>2 DEF Here, Corner, Axes
  <1> QED BY <1>1, <1>3, <1>4 DEF Signs

\* The star is measured once more where the mirror is.
LEMMA SampleMatches ==
    ASSUME TypeOK, NEW c, StepOK(c), NEW sx \in Signs, NEW sy \in Signs,
           Here(sx, sy), SumAt(c, sx, sy)
    PROVE  /\ SumAt(Sampled(c, mirror), sx, sy)
           /\ Sampled(c, mirror).samples \in 0..Samples
           /\ Sampled(c, mirror) \in WorkType
           /\ \A f \in {"state", "start", "xRate", "yRate", "go"} :
                 Sampled(c, mirror)[f] = c[f]
  <1>1. c \in WorkType /\ c.samples \in Int
    BY DEF StepOK, WorkType
  <1>2. Sampled(c, mirror) \in WorkType /\ mirror \in Points
    BY SampledTyped DEF TypeOK
  <1>3. /\ Sampled(c, mirror).samples = c.samples + 1
        /\ Sampled(c, mirror).sum = Plus(c.sum, mirror)
        /\ \A f \in {"state", "start", "xRate", "yRate", "go"} :
              Sampled(c, mirror)[f] = c[f]
    BY <1>1 DEF Sampled, WorkType
  <1>4. Plus(Times(c.samples, Corner(sx, sy)), Corner(sx, sy)) =
           Times(c.samples + 1, Corner(sx, sy))
    BY <1>1, CornerTypes
  <1>5. SumAt(Sampled(c, mirror), sx, sy)
    BY <1>3, <1>4 DEF SumAt, Here
  <1> QED BY <1>2, <1>3, <1>5 DEF WorkType

\* A state that is entered has measured nothing yet.
LEMMA EnterMatches ==
    ASSUME TypeOK, NEW c \in WorkType, NEW state \in CalibrationStates
    PROVE  /\ \A sx, sy \in Signs : SumAt(Enter(c, state), sx, sy)
           /\ Enter(c, state) \in WorkType /\ Enter(c, state).state = state
           /\ \A f \in {"start", "xRate", "yRate", "go"} : Enter(c, state)[f] = c[f]
           /\ c.go = {} => StepOK(Enter(c, state))
  <1>1. Enter(c, state).samples = 0 /\ Enter(c, state).sum = Origin
        /\ Enter(c, state).state = state
        /\ \A f \in {"start", "xRate", "yRate", "go"} : Enter(c, state)[f] = c[f]
    BY DEF Enter, WorkType
  <1>2. \A sx, sy \in Signs : SumAt(Enter(c, state), sx, sy)
    BY <1>1, CornerTypes DEF SumAt
  <1>3. Enter(c, state) \in WorkType /\ 0 < Samples
    BY EnterTyped
  <1> QED BY <1>1, <1>2, <1>3 DEF StepOK

\* Back to the centre, with what has been measured.
LEMMA RecenterMatches ==
    ASSUME Settled, NEW c \in WorkType, c.go = {}, XExactIn(c), YExactIn(c),
           mirror["x"] <= 0, mirror["y"] >= 0
    PROVE  StepMatches(Recenter(c))
  <1> DEFINE far == {d \in {"RIGHT", "DOWN"} : -CurrentPosition(d) >= CalSteps}
             u == [Enter(c, "RECENTER") EXCEPT !.go = far]
  <1>1. TypeOK /\ CalSteps \in Nat \ {0}
    BY StepGuiderAssumption DEF Settled
  <1>2. mirror["x"] \in Int /\ mirror["y"] \in Int
    BY <1>1 DEF TypeOK, Points, Axes
  <1>3. -CurrentPosition("RIGHT") = -mirror["x"] /\ -CurrentPosition("DOWN") = mirror["y"]
    <2>1. mirror["x"] = offset["x"] /\ mirror["y"] = offset["y"]
      BY DEF Settled, Axes
    <2> QED BY <1>2, <2>1 DEF CurrentPosition, Axis, Sign
  <1>4. ASSUME NEW state \in {"RECENTER", "COMPLETE"}
        PROVE  Enter(c, state).state = state /\ Enter(c, state).xRate = c.xRate
               /\ Enter(c, state).yRate = c.yRate /\ Enter(c, state) \in WorkType
    BY <1>1, EnterMatches DEF CalibrationStates
  <1>5. ASSUME far = {}
        PROVE  StepMatches(Complete(c))
    <2>1. Complete(c).state = "COMPLETE" /\ Complete(c).xRate = c.xRate
          /\ Complete(c).yRate = c.yRate
      BY <1>4 DEF Complete, WorkType
    <2>2. ~(-CurrentPosition("RIGHT") >= CalSteps) /\ ~(-CurrentPosition("DOWN") >= CalSteps)
      BY <1>5
    <2>3. NearCentre
      BY <1>1, <1>2, <1>3, <2>2 DEF NearCentre, Axes
    <2> QED BY <2>1, <2>3 DEF StepMatches, XExactIn, YExactIn, Averaging
  <1>6. StepMatches(u)
    <2>1. u.state = "RECENTER" /\ u.xRate = c.xRate /\ u.yRate = c.yRate /\ u.go = far
      BY <1>4 DEF WorkType
    <2>2. far \subseteq {"RIGHT", "DOWN"} /\ \A d \in far : Short(d)
      BY <1>1, <1>2, <1>3 DEF Short
    <2> HIDE DEF u, far
    <2> QED BY <2>1, <2>2 DEF StepMatches, XExactIn, YExactIn, Averaging
  <1> QED BY <1>5, <1>6 DEF Recenter

\* From the upper left corner, where the second distance ends.
LEMMA EndingMatches ==
    ASSUME Settled, NEW c, StepOK(c), c.go = {}, c.state = "AVERAGE_ENDING_LOCATION",
           Here(-1, 1), SumAt(c, -1, 1), From(c, -1, -1), XExactIn(c)
    PROVE  StepMatches(AverageEndingLocation(c, mirror))
  <1> DEFINE t == Sampled(c, mirror)
             u == [t EXCEPT !.yRate = Rate(t), !.start = t.sum]
  <1>1. TypeOK
    BY DEF Settled
  <1>2. /\ t \in WorkType /\ t.samples \in 0..Samples /\ SumAt(t, -1, 1)
        /\ t.state = c.state /\ t.start = c.start /\ t.xRate = c.xRate /\ t.go = c.go
    BY <1>1, SampleMatches DEF Signs
  <1>3. AverageEndingLocation(c, mirror) = IF t.samples < Samples THEN t ELSE Recenter(u)
    BY DEF AverageEndingLocation
  <1> HIDE DEF t
  <1>4. StepMatches(t)
    BY <1>2 DEF StepMatches, Averaging, From, XExactIn
  <1>5. ASSUME ~(t.samples < Samples)
        PROVE  StepMatches(Recenter(u))
    <2>1. t.samples = Samples
      BY <1>2, <1>5, StepGuiderAssumption
    <2>2. u \in WorkType /\ u.go = {} /\ u.xRate = c.xRate /\ u.yRate = Rate(t)
      BY <1>1, <1>2, RateTyped DEF WorkType
    <2>3. t.sum = Times(Samples, Corner(-1, 1)) /\ t.start = Times(Samples, Corner(-1, -1))
      BY <1>2, <2>1 DEF SumAt, From
    <2>4. Rate(t).over = 2 * (travel - 1)
          /\ Rate(t).dist = [x |-> 0, y |-> Samples * (2 * (travel - 1))]
      BY <1>1, <2>3, CornerDistances DEF Rate
    <2>5. XExactIn(u) /\ YExactIn(u)
      BY <2>2, <2>4 DEF XExactIn, YExactIn
    <2>6. mirror["x"] <= 0 /\ mirror["y"] >= 0
      BY AtCorner
    <2> HIDE DEF u
    <2> QED BY <2>2, <2>5, <2>6, RecenterMatches
  <1> QED BY <1>3, <1>4, <1>5

\* All the way up.
LEMMA GoUpMatches ==
    ASSUME Settled, NEW c, StepOK(c), c.go = {}, c.state = "GO_UP",
           mirror["x"] = 1 - travel, From(c, -1, -1), XExactIn(c)
    PROVE  StepMatches(GoUp(c, mirror))
  <1> DEFINE t == Enter(c, "AVERAGE_ENDING_LOCATION")
             u == [c EXCEPT !.go = {"UP"}]
  <1>1. TypeOK /\ c \in WorkType
    BY DEF Settled, StepOK
  <1>2. /\ StepOK(t) /\ t.go = {} /\ t.state = "AVERAGE_ENDING_LOCATION" /\ SumAt(t, -1, 1)
        /\ t.start = c.start /\ t.xRate = c.xRate
    BY <1>1, EnterMatches DEF Signs, CalibrationStates
  <1>3. GoUp(c, mirror) = IF Remaining("UP") > 0 THEN u ELSE AverageEndingLocation(t, mirror)
    BY DEF GoUp
  <1>4. u.state = "GO_UP" /\ u.start = c.start /\ u.xRate = c.xRate /\ u.go = {"UP"}
    BY <1>1 DEF WorkType
  <1> HIDE DEF t, u
  <1>5. StepMatches(u)
    BY <1>4 DEF StepMatches, Averaging, From, XExactIn
  <1>6. ASSUME ~(Remaining("UP") > 0)
        PROVE  StepMatches(AverageEndingLocation(t, mirror))
    <2>1. Here(-1, 1)
      BY <1>6, AtTheEnd, AtCorner
    <2> QED BY <1>2, <2>1, EndingMatches DEF From, XExactIn
  <1> QED BY <1>3, <1>5, <1>6

\* From the lower left corner, where the first distance ends.
LEMMA CenterMatches ==
    ASSUME Settled, NEW c, StepOK(c), c.go = {}, c.state = "AVERAGE_CENTER_LOCATION",
           Here(-1, -1), SumAt(c, -1, -1), From(c, 1, -1)
    PROVE  StepMatches(AverageCenterLocation(c, mirror))
  <1> DEFINE t == Sampled(c, mirror)
             v == [t EXCEPT !.xRate = Rate(t), !.start = t.sum]
             u == Enter(v, "GO_UP")
  <1>1. TypeOK
    BY DEF Settled
  <1>2. /\ t \in WorkType /\ t.samples \in 0..Samples /\ SumAt(t, -1, -1)
        /\ t.state = c.state /\ t.start = c.start /\ t.go = c.go
    BY <1>1, SampleMatches DEF Signs
  <1>3. AverageCenterLocation(c, mirror) = IF t.samples < Samples THEN t ELSE GoUp(u, mirror)
    BY DEF AverageCenterLocation
  <1> HIDE DEF t
  <1>4. StepMatches(t)
    BY <1>2 DEF StepMatches, Averaging, From
  <1>5. ASSUME ~(t.samples < Samples)
        PROVE  StepMatches(GoUp(u, mirror))
    <2>1. t.samples = Samples
      BY <1>2, <1>5, StepGuiderAssumption
    <2>2. v \in WorkType /\ v.go = {} /\ v.xRate = Rate(t) /\ v.start = t.sum
      BY <1>1, <1>2, RateTyped DEF WorkType
    <2> HIDE DEF v
    <2>3. /\ StepOK(u) /\ u.go = {} /\ u.state = "GO_UP" /\ u.start = t.sum
          /\ u.xRate = Rate(t)
      BY <1>1, <2>2, EnterMatches DEF CalibrationStates
    <2>4. t.sum = Times(Samples, Corner(-1, -1)) /\ t.start = Times(Samples, Corner(1, -1))
      BY <1>2, <2>1 DEF SumAt, From
    <2>5. Rate(t).over = 2 * (travel - 1)
          /\ Rate(t).dist = [x |-> -(Samples * (2 * (travel - 1))), y |-> 0]
      BY <1>1, <2>4, CornerDistances DEF Rate
    <2>6. XExactIn(u) /\ From(u, -1, -1)
      BY <2>3, <2>4, <2>5 DEF XExactIn, From
    <2>7. mirror["x"] = 1 - travel
      BY AtCorner
    <2> HIDE DEF u
    <2> QED BY <2>3, <2>6, <2>7, GoUpMatches
  <1> QED BY <1>3, <1>4, <1>5

\* All the way to the left.
LEMMA GoLeftMatches ==
    ASSUME Settled, NEW c, StepOK(c), c.go = {}, c.state = "GO_LEFT",
           mirror["y"] = 1 - travel, From(c, 1, -1)
    PROVE  StepMatches(GoLeft(c, mirror))
  <1> DEFINE t == Enter(c, "AVERAGE_CENTER_LOCATION")
             u == [c EXCEPT !.go = {"LEFT"}]
  <1>1. TypeOK /\ c \in WorkType
    BY DEF Settled, StepOK
  <1>2. /\ StepOK(t) /\ t.go = {} /\ t.state = "AVERAGE_CENTER_LOCATION"
        /\ SumAt(t, -1, -1) /\ t.start = c.start
    BY <1>1, EnterMatches DEF Signs, CalibrationStates
  <1>3. GoLeft(c, mirror) =
           IF Remaining("LEFT") > 0 THEN u ELSE AverageCenterLocation(t, mirror)
    BY DEF GoLeft
  <1>4. u.state = "GO_LEFT" /\ u.start = c.start /\ u.go = {"LEFT"}
    BY <1>1 DEF WorkType
  <1> HIDE DEF t, u
  <1>5. StepMatches(u)
    BY <1>4 DEF StepMatches, Averaging, From
  <1>6. ASSUME ~(Remaining("LEFT") > 0)
        PROVE  StepMatches(AverageCenterLocation(t, mirror))
    <2>1. Here(-1, -1)
      BY <1>6, AtTheEnd, AtCorner
    <2> QED BY <1>2, <2>1, CenterMatches DEF From
  <1> QED BY <1>3, <1>5, <1>6

\* From the lower right corner, where the first distance starts.
LEMMA StartingMatches ==
    ASSUME Settled, NEW c, StepOK(c), c.go = {}, c.state = "AVERAGE_STARTING_LOCATION",
           Here(1, -1), SumAt(c, 1, -1)
    PROVE  StepMatches(AverageStartingLocation(c, mirror))
  <1> DEFINE t == Sampled(c, mirror)
             v == [t EXCEPT !.start = t.sum]
             u == Enter(v, "GO_LEFT")
  <1>1. TypeOK
    BY DEF Settled
  <1>2. /\ t \in WorkType /\ t.samples \in 0..Samples /\ SumAt(t, 1, -1)
        /\ t.state = c.state /\ t.go = c.go
    BY <1>1, SampleMatches DEF Signs
  <1>3. AverageStartingLocation(c, mirror) =
           IF t.samples < Samples THEN t ELSE GoLeft(u, mirror)
    BY DEF AverageStartingLocation
  <1> HIDE DEF t
  <1>4. StepMatches(t)
    BY <1>2 DEF StepMatches, Averaging
  <1>5. ASSUME ~(t.samples < Samples)
        PROVE  StepMatches(GoLeft(u, mirror))
    <2>1. t.samples = Samples
      BY <1>2, <1>5, StepGuiderAssumption
    <2>2. v \in WorkType /\ v.go = {} /\ v.start = t.sum
      BY <1>1, <1>2 DEF WorkType
    <2> HIDE DEF v
    <2>3. StepOK(u) /\ u.go = {} /\ u.state = "GO_LEFT" /\ u.start = t.sum
      BY <1>1, <2>2, EnterMatches DEF CalibrationStates
    <2>4. From(u, 1, -1)
      BY <1>2, <2>1, <2>3 DEF SumAt, From
    <2>5. mirror["y"] = 1 - travel
      BY AtCorner
    <2> HIDE DEF u
    <2> QED BY <2>3, <2>4, <2>5, GoLeftMatches
  <1> QED BY <1>3, <1>4, <1>5

\* Into the lower right corner.
LEMMA CornerMatches ==
    ASSUME Settled, NEW c, StepOK(c), c.go = {}, c.state = "GOTO_LOWER_RIGHT_CORNER"
    PROVE  StepMatches(GotoLowerRightCorner(c, mirror))
  <1> DEFINE t == Enter(c, "AVERAGE_STARTING_LOCATION")
             far == {d \in {"DOWN", "RIGHT"} : Remaining(d) > 0}
             u == [c EXCEPT !.go = far]
  <1>1. TypeOK /\ c \in WorkType
    BY DEF Settled, StepOK
  <1>2. /\ StepOK(t) /\ t.go = {} /\ t.state = "AVERAGE_STARTING_LOCATION"
        /\ SumAt(t, 1, -1)
    BY <1>1, EnterMatches DEF Signs, CalibrationStates
  <1>3. GotoLowerRightCorner(c, mirror) =
           IF far # {} THEN u ELSE AverageStartingLocation(t, mirror)
    BY DEF GotoLowerRightCorner
  <1>4. u.state = "GOTO_LOWER_RIGHT_CORNER"
    BY <1>1 DEF WorkType
  <1>5. far = {} => ~(Remaining("DOWN") > 0) /\ ~(Remaining("RIGHT") > 0)
    OBVIOUS
  <1> HIDE DEF t, u, far
  <1>6. StepMatches(u)
    BY <1>4 DEF StepMatches, Averaging
  <1>7. ASSUME far = {}
        PROVE  StepMatches(AverageStartingLocation(t, mirror))
    <2>1. Here(1, -1)
      BY <1>5, <1>7, AtTheEnd, AtCorner
    <2> QED BY <1>2, <2>1, StartingMatches
  <1> QED BY <1>3, <1>6, <1>7

\* One image with the mirror where it was when it was exposed.
LEMMA StepMatched ==
    ASSUME Settled, cal.state \notin {"CLEARED", "COMPLETE"}, StateMatches
    PROVE  /\ StepMatches(CalibrationStep(cal, mirror))
           /\ StepOK(CalibrationStep(cal, mirror))
  <1>1. TypeOK /\ cal \in CalType /\ mirror \in Points
    BY TypeParts DEF Settled, TypeOK
  <1>2. StepOK(cal) /\ cal.go = {} /\ cal.state \in CalibrationStates /\ cal \in WorkType
    BY <1>1, StepGuiderAssumption DEF StepOK, CalType, WorkType
  <1>3. /\ cal.state = "AVERAGE_STARTING_LOCATION" => Here(1, -1) /\ SumAt(cal, 1, -1)
        /\ cal.state = "GO_LEFT" => mirror["y"] = 1 - travel /\ From(cal, 1, -1)
        /\ cal.state = "AVERAGE_CENTER_LOCATION" =>
              Here(-1, -1) /\ SumAt(cal, -1, -1) /\ From(cal, 1, -1)
        /\ cal.state = "GO_UP" =>
              mirror["x"] = 1 - travel /\ From(cal, -1, -1) /\ XExactIn(cal)
        /\ cal.state = "AVERAGE_ENDING_LOCATION" =>
              Here(-1, 1) /\ SumAt(cal, -1, 1) /\ From(cal, -1, -1) /\ XExactIn(cal)
        /\ cal.state = "RECENTER" => /\ XExactIn(cal) /\ YExactIn(cal)
                                     /\ mirror["x"] <= 0 /\ mirror["y"] >= 0
    BY DEF StateMatches, Recentring, Here, SumAt, From, XExactIn, YExactIn, XExact, YExact
  <1>4. StepMatches(CalibrationStep(cal, mirror))
    BY <1>1, <1>2, <1>3, CornerMatches, StartingMatches, GoLeftMatches, CenterMatches,
       GoUpMatches, EndingMatches, RecenterMatches DEF CalibrationStep, CalibrationStates
  <1> QED BY <1>1, <1>4, CalibrationStepTyped

-------------------------------------------------------------------------------
(* What has been measured so far, from one step to the next.               *)

\* A step that leaves the mirror and the calibration alone.
LEMMA MeasuredKept ==
    ASSUME MeasuredSoFar, UNCHANGED <<travel, mirror, cal>>,
           image' = "elsewhere" => image = "elsewhere",
           cal.state \notin {"GOTO_LOWER_RIGHT_CORNER", "CLEARED"} => centring' = "no",
           cal.state \in Averaging => queue' = <<>> /\ serving' = <<>> /\ reports' = <<>>,
           Limited => Limited',
           \A d \in Directions : OnlyMoves(d) => OnlyMoves(d)',
           cal.state = "RECENTER" /\ ~Limited /\ Recentring => Recentring'
    PROVE  MeasuredSoFar'
  <1>1. /\ cal'.state # "COMPLETE"
        /\ cal'.state \notin {"GOTO_LOWER_RIGHT_CORNER", "CLEARED"} =>
              centring' = "no" /\ image' # "elsewhere"
        /\ image' = "elsewhere" => mirror'["y"] = 0 /\ travel' > 1
        /\ cal'.state \in Averaging => queue' = <<>> /\ serving' = <<>> /\ reports' = <<>>
    BY DEF MeasuredSoFar
  <1>2. ASSUME ~Limited'
        PROVE  StateMatches'
    <2>1. StateMatches /\ ~Limited
      BY <1>2 DEF MeasuredSoFar
    <2>2. \A sx, sy : Corner(sx, sy)' = Corner(sx, sy)
      BY DEF Corner
    <2>3. XExact' = XExact /\ YExact' = YExact
      BY DEF XExact, YExact
    <2>4. (OnlyMoves("LEFT") => OnlyMoves("LEFT")') /\ (OnlyMoves("UP") => OnlyMoves("UP")')
      BY DEF Directions
    <2> QED BY <2>1, <2>2, <2>3, <2>4 DEF StateMatches, Times
  <1> QED BY <1>1, <1>2 DEF MeasuredSoFar

\* A calibration that begins, or that was cleared, has measured nothing.
LEMMA NothingMeasured ==
    ASSUME cal'.state \in {"GOTO_LOWER_RIGHT_CORNER", "CLEARED"},
           image' = "elsewhere" => mirror'["y"] = 0 /\ travel' > 1
    PROVE  MeasuredSoFar'
  <1>1. StateMatches'
    BY DEF StateMatches
  <1> QED BY <1>1 DEF MeasuredSoFar, Averaging

LEMMA BegunStates ==
    Cleared.state = "CLEARED" /\ BeginCalibration.state = "GOTO_LOWER_RIGHT_CORNER"
  BY DEF Cleared, BeginCalibration

\* While it calibrates with nobody interfering, the moves ahead are its own.
LEMMA OwnMoves ==
    ASSUME TypeOK, ThreadsMatch, undisturbed, guider = "calibrating"
    PROVE  /\ ~ManualAhead
           /\ ItemsAhead # {} => centring = "no" /\ image = "none"
           /\ serving # <<>> => /\ ItemsAhead # {} /\ serving[1] \in ItemsAhead
                                /\ serving[1].kind # "manual"
           /\ queue # <<>> => ItemsAhead # {} /\ Head(queue) \in ItemsAhead
  <1>1. ~ManualAhead
    BY DEF ThreadsMatch, Interference
  <1>2. ItemsAhead # {} => centring = "no" /\ image = "none"
    BY <1>1 DEF ThreadsMatch, ManualAhead
  <1>3. serving # <<>> => serving[1] \in ItemsAhead
    BY AheadTypes
  <1>4. queue # <<>> => Head(queue) \in ItemsAhead
    <2>1. queue \in Seq(Items) /\ serving \in Seq(Items)
      BY DEF TypeOK
    <2>2. queue # <<>> => Head(queue) \in Elements(queue)
      BY <2>1, ElementsChange
    <2> QED BY <2>2 DEF ItemsAhead, Elements
  <1> QED BY <1>1, <1>2, <1>3, <1>4 DEF ManualAhead, Counted

\* The worker moves the mirror along its own axis, unless the mirror is at its limit.
LEMMA WorkerMovesAxis ==
    ASSUME TypeOK, InMoveAxis("worker")
    PROVE  /\ image = "none" => image' = "none"
           /\ ~Limited' => \A a \in Axes :
                 a # Axis(call["worker"].dir) => mirror'[a] = mirror[a]
           /\ Limited => Limited'
  <1>1. "worker" \in Threads /\ call \in [Threads -> Calls] /\ mirror \in Points
    BY DEF TypeOK, Threads
  <1>2. image = "none" => image' = "none"
    BY DEF InMoveAxis, CheckLimit, StepTaken, StepFails, StepLimitReached, LoadOffset,
           StoreOffset, MirrorTo
  <1>3. call["worker"].at # "done" /\ reports' = reports
    BY DEF InMoveAxis, CheckLimit, StepTaken, StepFails, StepLimitReached, LoadOffset,
           StoreOffset
  <1>4. Limited => Limited'
    BY <1>3 DEF Limited
  <1>5. CASE StepLimitReached("worker")
    <2>1. call'["worker"].at = "done" /\ call'["worker"].result = "limit"
      BY <1>1, <1>5 DEF StepLimitReached, Calls
    <2> QED BY <1>2, <1>4, <2>1 DEF Limited
  <1>6. CASE StepTaken("worker")
    <2> DEFINE k == Axis(call["worker"].dir)
               n == mirror[k] + Sign(call["worker"].dir) * call["worker"].steps
    <2>1. mirror' = [mirror EXCEPT ![k] = n]
      BY <1>6 DEF StepTaken, MirrorTo
    <2> HIDE DEF n
    <2> QED BY <1>1, <1>2, <1>4, <2>1 DEF Points
  <1>7. CASE mirror' = mirror
    BY <1>2, <1>4, <1>7
  <1> QED BY <1>5, <1>6, <1>7 DEF InMoveAxis, CheckLimit, StepFails, LoadOffset, StoreOffset

\* The worker is on the way back to the centre: the move it makes is in the direction it
\* is for, and no longer than was found possible.
LEMMA RecentringMoves ==
    ASSUME TypeOK, ThreadsMatch, Recentring, InMoveAxis("worker"), ~Limited', serving # <<>>
    PROVE  Recentring'
  <1> DEFINE c == call["worker"]
             e == call'["worker"]
             Back(d) == AxisMove("calibration", d, CalSteps)
             Waits(d) == \E i \in DOMAIN queue : queue[i] = Back(d)
  <1>1. "worker" \in Threads /\ call \in [Threads -> Calls] /\ mirror \in Points
        /\ CalSteps \in Nat \ {0} /\ travel \in Nat /\ "worker" \in DOMAIN call
    BY PositionTypes, StepGuiderAssumption DEF TypeOK, Threads
  <1>2. /\ mirror["x"] <= 0 /\ mirror["y"] >= 0
        /\ \/ serving = <<Back("DOWN")>> /\ queue \in {<<>>, <<Back("RIGHT")>>}
           \/ serving = <<Back("RIGHT")>> /\ queue = <<>>
        /\ serving = <<Back(c.dir)>>
        /\ c.at \in {"check", "step"} =>
              /\ c.asked = CalSteps /\ c.steps <= CalSteps
              /\ c.dir = "RIGHT" => mirror["x"] + CalSteps <= 0
              /\ c.dir = "DOWN" => mirror["y"] - CalSteps >= 0
        /\ Waits("RIGHT") => mirror["x"] + CalSteps <= 0
        /\ Waits("DOWN") => mirror["y"] - CalSteps >= 0
    BY DEF Recentring
  <1>3. \A d, k : Back(d) = Back(k) => d = k
    <2>1. \A d : Back(d).legs[1].dirs = {d}
      BY DEF AxisMove
    <2> HIDE DEF Back
    <2> QED BY <2>1
  <1>4. \/ c.dir = "DOWN" /\ serving = <<Back("DOWN")>> /\ ~Waits("DOWN")
        \/ c.dir = "RIGHT" /\ serving = <<Back("RIGHT")>> /\ queue = <<>>
    <2> HIDE DEF Back
    <2>1. \A d, k : <<Back(d)>> = <<Back(k)>> => Back(d) = Back(k)
      OBVIOUS
    <2>2. Back("RIGHT") # Back("DOWN")
      BY <1>3
    <2>3. CASE serving = <<Back("DOWN")>> /\ queue \in {<<>>, <<Back("RIGHT")>>}
      <3>1. c.dir = "DOWN"
        BY <1>2, <1>3, <2>1, <2>3
      <3>2. \A i \in DOMAIN queue : queue[i] = Back("RIGHT")
        BY <2>3
      <3> QED BY <2>2, <2>3, <3>1, <3>2
    <2>4. CASE serving = <<Back("RIGHT")>> /\ queue = <<>>
      BY <1>2, <1>3, <2>1, <2>4
    <2> QED BY <1>2, <2>3, <2>4
  <1>5. /\ e.dir = c.dir /\ UNCHANGED <<travel, queue, serving>>
    BY <1>1, MoveAxisKeeps
  <1>6. c.at \in {"check", "step"} =>
           /\ mirror["x"] \in Int /\ mirror["y"] \in Int /\ c.steps \in Int /\ c.asked \in Nat
    BY <1>1 DEF Points, Axes, Calls
  <1>7. ASSUME mirror' = mirror,
               e.at \in {"check", "step"} =>
                  c.at \in {"check", "step"} /\ e.asked = c.asked /\ e.steps <= CalSteps
        PROVE  Recentring'
    <2>1. e.at \in {"check", "step"} => c.at \in {"check", "step"} /\ e.asked = CalSteps
                                        /\ e.steps <= CalSteps
      BY <1>2, <1>7
    <2> HIDE DEF e
    <2>2. \A d : (serving = <<Back(d)>> => d = c.dir)
      <3>1. \A d : serving = <<Back(d)>> => Back(d) = Back(c.dir)
        BY <1>2
      <3> HIDE DEF Back
      <3> QED BY <1>3, <3>1
    <2> QED BY <1>2, <1>5, <1>7, <2>1, <2>2 DEF Recentring, e
  <1>8. CASE CheckLimit("worker")
    <2> DEFINE n == IF c.asked > 0 /\ WouldHitLimit(c.dir, c.asked)
                    THEN Remaining(c.dir) ELSE c.asked
    <2>1. c.at = "check" /\ mirror' = mirror
          /\ e = [c EXCEPT !.at = IF n > 0 THEN "step" ELSE "done", !.steps = n]
      BY <1>1, <1>8 DEF CheckLimit
    <2>2. n <= CalSteps
      <3>1. c.asked = CalSteps /\ c.dir \in Directions /\ CurrentPosition(c.dir) \in Int
        BY <1>1, <1>2, <2>1, PositionTypes DEF Calls
      <3> QED BY <1>1, <3>1 DEF WouldHitLimit, Remaining
    <2> HIDE DEF n
    <2>3. e.at \in {"check", "step"} => e.asked = c.asked /\ e.steps = n
      BY <1>1, <2>1 DEF Calls
    <2> QED BY <1>7, <2>1, <2>2, <2>3
  <1>9. CASE StepTaken("worker")
    <2>1. /\ c.at = "step" /\ e.at = "load"
          /\ mirror' = [mirror EXCEPT ![Axis(c.dir)] = @ + Sign(c.dir) * c.steps]
      BY <1>1, <1>9 DEF StepTaken, MirrorTo, Calls
    <2>2. c.steps > 0 /\ c.steps <= CalSteps
      BY <1>1, <1>2, <2>1 DEF TypeOK
    <2>3. /\ c.dir = "DOWN" => /\ mirror'["x"] = mirror["x"]
                               /\ mirror'["y"] = mirror["y"] - c.steps
          /\ c.dir = "RIGHT" => /\ mirror'["y"] = mirror["y"]
                                /\ mirror'["x"] = mirror["x"] + c.steps
      BY <1>1, <1>6, <2>1 DEF Axis, Sign, Axes, Points
    <2>4. mirror'["x"] <= 0 /\ mirror'["y"] >= 0
      BY <1>1, <1>2, <1>4, <1>6, <2>1, <2>2, <2>3
    <2>5. /\ Waits("RIGHT") => mirror'["x"] + CalSteps <= 0
          /\ ~Waits("DOWN")
      BY <1>2, <1>4, <2>3
    <2> HIDE DEF e
    <2> QED BY <1>2, <1>5, <2>1, <2>4, <2>5 DEF Recentring, e
  <1>10. CASE StepLimitReached("worker")
    <2>1. e.at = "done" /\ e.result = "limit"
      BY <1>1, <1>10 DEF StepLimitReached, Calls
    <2> QED BY <2>1 DEF Limited
  <1>11. CASE StepFails("worker") \/ LoadOffset("worker") \/ StoreOffset("worker")
    <2>1. mirror' = mirror /\ e.at \notin {"check", "step"}
      BY <1>1, <1>11 DEF StepFails, LoadOffset, StoreOffset, Calls
    <2> QED BY <1>7, <2>1
  <1> QED BY <1>8, <1>9, <1>10, <1>11 DEF InMoveAxis

LEMMA WorkerMeasures ==
    ASSUME TypeOK, ThreadsMatch, MeasuredSoFar, undisturbed, guider = "calibrating",
           InMoveAxis("worker")
    PROVE  MeasuredSoFar'
  <1>1. "worker" \in Threads
    BY DEF Threads
  <1>2. /\ call["worker"].at # "idle" /\ call'["worker"].dir = call["worker"].dir
        /\ UNCHANGED <<travel, queue, serving, reports, centring, cal>>
    BY <1>1, MoveAxisKeeps
  <1>3. serving # <<>> /\ ItemsAhead # {} /\ centring = "no" /\ image = "none"
    BY <1>2, OwnMoves DEF ThreadsMatch
  <1>4. image' = "none" /\ (Limited => Limited')
        /\ (~Limited' => \A a \in Axes :
                 a # Axis(call["worker"].dir) => mirror'[a] = mirror[a])
    BY <1>3, WorkerMovesAxis
  <1>5. cal.state \notin Averaging
    BY <1>3 DEF MeasuredSoFar
  <1>6. ASSUME ~Limited'
        PROVE  StateMatches'
    <2>1. StateMatches
      BY <1>4, <1>6 DEF MeasuredSoFar
    <2>2. \A d : OnlyMoves(d) => OnlyMoves(d)' /\ call["worker"].dir = d
      BY <1>2 DEF OnlyMoves, ItemsAhead
    <2>3. \A sx, sy : Corner(sx, sy)' = Corner(sx, sy)
      BY <1>2 DEF Corner
    <2>4. XExact' = XExact /\ YExact' = YExact
      BY <1>2 DEF XExact, YExact
    <2>5. /\ OnlyMoves("LEFT") => mirror'["y"] = mirror["y"]
          /\ OnlyMoves("UP") => mirror'["x"] = mirror["x"]
      BY <1>4, <1>6, <2>2 DEF Axis, Axes
    <2>6. cal.state = "RECENTER" => Recentring'
      BY <1>3, <1>6, <2>1, RecentringMoves DEF StateMatches
    <2> QED BY <1>2, <1>5, <2>1, <2>2, <2>3, <2>4, <2>5, <2>6
            DEF StateMatches, Averaging, Times
  <1> QED BY <1>2, <1>3, <1>4, <1>5, <1>6 DEF MeasuredSoFar

\* Centring, after the mirror's own limit, comes before anything is measured; it takes
\* the mirror out of the corner before an image can show it elsewhere.
LEMMA CentringMeasures ==
    ASSUME PositionInv, MeasuredSoFar, undisturbed, InMoveAxis("gui")
    PROVE  MeasuredSoFar'
  <1>1. TypeOK /\ ThreadsMatch /\ PositionTracked /\ CentringMatch /\ WithinTravel
        /\ "gui" \in Threads
    BY DEF PositionInv, Threads
  <1>2. call["gui"].at # "idle" /\ UNCHANGED <<travel, centring, cal>>
    BY <1>1, MoveAxisKeeps
  <1>3. centring # "no" /\ cal.state \in {"GOTO_LOWER_RIGHT_CORNER", "CLEARED"}
    BY <1>1, <1>2 DEF ThreadsMatch, MeasuredSoFar
  <1> SUFFICES image' = "elsewhere" => mirror'["y"] = 0 /\ travel > 1
    BY <1>2, <1>3, NothingMeasured
  <1>4. image = "elsewhere" => mirror["y"] = 0 /\ travel > 1
    BY DEF MeasuredSoFar
  <1>5. CASE UNCHANGED <<mirror, image>>
    BY <1>4, <1>5
  <1>6. CASE call["gui"].at = "step"
    <2> DEFINE c == call["gui"]
               s == Sign(c.dir)
               a == IF centring = "vertical" THEN "y" ELSE "x"
    <2>1. /\ c.dir \in Directions /\ s \in {1, -1} /\ c.steps \in Int /\ c.steps > 0
          /\ c.steps = c.asked /\ s * c.asked = -offset[a] /\ Axis(c.dir) = a
          /\ centring = "horizontal" => offset["y"] = 0
      BY <1>1, <1>2, <1>6, CallNumbers DEF CentringMatch
    <2>2. \A b \in Axes : mirror[b] = offset[b] /\ offset[b] \in Int
                          /\ mirror[b] < travel /\ -mirror[b] < travel
      <3>1. \A b \in Axes : offset[b] \in Int /\ mirror[b] \in Int
        BY <1>1, Differ
      <3>2. \A b \in Axes : mirror[b] = offset[b] + Moved("gui", b)
        BY <1>1, <1>2, Differ
      <3>3. \A b \in Axes : Moved("gui", b) = 0
        BY <1>6 DEF Moved
      <3> QED BY <1>1, <3>1, <3>2, <3>3 DEF WithinTravel
    <2>3. travel > 1
      <3>1. travel \in Nat /\ a \in Axes
        BY <1>1, PositionTypes DEF Axes
      <3>2. mirror[a] = -(s * c.steps) /\ mirror[a] < travel /\ -mirror[a] < travel
        BY <2>1, <2>2, <3>1
      <3> QED BY <2>1, <3>1, <3>2
    <2>4. CASE StepTaken("gui")
      <3>1. mirror' = [mirror EXCEPT ![a] = mirror[a] + s * c.steps] /\ mirror \in Points
        BY <1>1, <2>1, <2>4 DEF StepTaken, MirrorTo, TypeOK
      <3>2. mirror[a] + s * c.steps = 0
        BY <2>1, <2>2 DEF Axes
      <3>3. mirror'["y"] = 0
        BY <1>1, <1>3, <2>1, <2>2, <3>1, <3>2 DEF Points, Axes, TypeOK
      <3> QED BY <2>3, <3>3
    <2>5. CASE StepLimitReached("gui")
      <3>1. mirror' = Origin \/ UNCHANGED <<mirror, image>>
        BY <2>5 DEF StepLimitReached, MirrorTo
      <3> QED BY <1>4, <2>3, <3>1 DEF Origin, Axes
    <2> QED BY <1>5, <2>4, <2>5
            DEF InMoveAxis, CheckLimit, StepFails, LoadOffset, StoreOffset
  <1> QED BY <1>5, <1>6
          DEF InMoveAxis, CheckLimit, StepTaken, StepFails, StepLimitReached, LoadOffset,
              StoreOffset

\* The worker takes the next move on the way back, or has made one.
LEMMA RecentringServed ==
    ASSUME TypeOK, ThreadsMatch, Recentring, TakeMove \/ NextAxis \/ MoveDone
    PROVE  Recentring'
  <1> DEFINE e == call'["worker"]
             Back(d) == AxisMove("calibration", d, CalSteps)
             Waits(d) == \E i \in DOMAIN queue : queue[i] = Back(d)
  <1>1. /\ call["worker"].at = "idle" <=> serving = <<>>
        /\ call \in [Threads -> Calls] /\ "worker" \in DOMAIN call /\ CalSteps \in Nat
    BY StepGuiderAssumption DEF ThreadsMatch, TypeOK, Threads
  <1>2. \A d, k : Back(d) = Back(k) => d = k
    <2>1. \A d : Back(d).legs[1].dirs = {d}
      BY DEF AxisMove
    <2> HIDE DEF Back
    <2> QED BY <2>1
  <1>3. \A d : /\ Len(Back(d).legs) = 1
               /\ Back(d).legs[1] = [dirs |-> {d}, steps |-> {CalSteps}]
    BY DEF AxisMove
  <1>4. CASE TakeMove
    <2>1. /\ serving = <<>> /\ queue # <<>> /\ Start(Head(queue).legs[1])
          /\ serving' = <<Head(queue)>> /\ queue' = Tail(queue) /\ mirror' = mirror
      BY <1>4 DEF TakeMove
    <2>2. PICK d \in {"DOWN", "RIGHT"} :
             /\ Head(queue) = Back(d) /\ Waits(d)
             /\ \/ queue' = <<>>
                \/ d = "DOWN" /\ queue' = <<Back("RIGHT")>> /\ Waits("RIGHT")
      <3> HIDE DEF Back
      <3>1. queue \in {<<Back("DOWN")>>, <<Back("RIGHT")>>, <<Back("DOWN"), Back("RIGHT")>>}
        BY <2>1 DEF Recentring, Back
      <3>2. CASE queue = <<Back("DOWN"), Back("RIGHT")>>
        <4>1. Head(queue) = Back("DOWN") /\ Tail(queue) = <<Back("RIGHT")>>
              /\ 1 \in DOMAIN queue /\ 2 \in DOMAIN queue /\ queue[1] = Back("DOWN")
              /\ queue[2] = Back("RIGHT")
          BY <3>2
        <4> QED BY <2>1, <4>1
      <3>3. ASSUME NEW d, queue = <<Back(d)>>
            PROVE  Head(queue) = Back(d) /\ Tail(queue) = <<>> /\ Waits(d)
        <4>1. 1 \in DOMAIN queue /\ queue[1] = Back(d)
          BY <3>3
        <4> QED BY <3>3, <4>1
      <3> HIDE DEF Waits
      <3>4. CASE queue = <<Back("DOWN")>>
        <4>1. Head(queue) = Back("DOWN") /\ Tail(queue) = <<>> /\ Waits("DOWN")
          BY <3>3, <3>4
        <4> QED BY <2>1, <4>1
      <3>5. CASE queue = <<Back("RIGHT")>>
        <4>1. Head(queue) = Back("RIGHT") /\ Tail(queue) = <<>> /\ Waits("RIGHT")
          BY <3>3, <3>5
        <4> QED BY <2>1, <4>1
      <3> QED BY <3>1, <3>2, <3>4, <3>5
    <2>3. e = MoveAxis(d, CalSteps)
      <3>1. \E k \in {d}, n \in {CalSteps} : e = MoveAxis(k, n)
        <4> HIDE DEF Back
        <4> USE DEF Start
        <4>1. Head(queue).legs[1] = [dirs |-> {d}, steps |-> {CalSteps}]
          BY <1>3, <2>2
        <4>2. /\ Head(queue).legs[1].dirs = {d}
              /\ Head(queue).legs[1].steps = {CalSteps}
          BY <4>1
        <4>3. \E k \in {d}, n \in {CalSteps} :
                 call' = [call EXCEPT !["worker"] = MoveAxis(k, n)]
          BY <2>1, <4>2
        <4> QED BY <1>1, <4>3
      <3> QED BY <3>1
    <2>4. e.at = "check" /\ e.dir = d /\ e.asked = CalSteps /\ e.steps = CalSteps
      BY <2>3 DEF MoveAxis, Idle
    <2>5. /\ mirror["x"] <= 0 /\ mirror["y"] >= 0
          /\ Waits("RIGHT") => mirror["x"] + CalSteps <= 0
          /\ Waits("DOWN") => mirror["y"] - CalSteps >= 0
      BY DEF Recentring
    <2>6. \A k : /\ serving' = <<Back(k)>> => k = d
                 /\ (\E i \in DOMAIN queue' : queue'[i] = Back(k)) => k = "RIGHT" /\ Waits(k)
      <3> HIDE DEF Back
      <3>1. \A k : serving' = <<Back(k)>> => Back(k) = Back(d)
        BY <2>1, <2>2
      <3>2. \A i \in DOMAIN queue' : queue'[i] = Back("RIGHT") /\ Waits("RIGHT")
        BY <2>2
      <3> QED BY <1>2, <3>1, <3>2
    <2>7. /\ \/ serving' = <<Back("DOWN")>> /\ queue' \in {<<>>, <<Back("RIGHT")>>}
             \/ serving' = <<Back("RIGHT")>> /\ queue' = <<>>
          /\ serving' = <<Back(e.dir)>>
      BY <2>1, <2>2, <2>4
    <2> HIDE DEF e
    <2> QED BY <1>1, <2>1, <2>2, <2>4, <2>5, <2>6, <2>7 DEF Recentring, e
  <1>5. CASE NextAxis
    <2>1. serving # <<>> /\ Len(serving[1].legs) > 1
      BY <1>1, <1>5 DEF NextAxis
    <2>2. PICK d : serving = <<Back(d)>>
      BY <2>1 DEF Recentring
    <2> HIDE DEF Back
    <2>3. Len(serving[1].legs) = 1
      BY <1>3, <2>2
    <2> QED BY <2>1, <2>3
  <1>6. CASE MoveDone
    <2>1. /\ serving # <<>> /\ serving' = <<>> /\ queue' = queue /\ mirror' = mirror
          /\ e = Idle
      BY <1>1, <1>6 DEF MoveDone
    <2>2. e.at = "idle"
      BY <2>1 DEF Idle
    <2> HIDE DEF e
    <2> QED BY <2>1, <2>2 DEF Recentring, e
  <1> QED BY <1>4, <1>5, <1>6

\* The worker takes the next move, or has made one.
LEMMA ServingMeasures ==
    ASSUME TypeOK, ThreadsMatch, [Next]_vars, MeasuredSoFar, undisturbed,
           guider = "calibrating", TakeMove \/ NextAxis \/ MoveDone
    PROVE  MeasuredSoFar'
  <1>1. /\ call["worker"].at = "idle" <=> serving = <<>>
        /\ call \in [Threads -> Calls]
    BY DEF ThreadsMatch, TypeOK
  <1>2. UNCHANGED <<travel, mirror, cal, image, centring>>
    BY DEF TakeMove, NextAxis, MoveDone
  <1>3. cal.state \notin Averaging
    <2>1. queue # <<>> \/ serving # <<>>
      BY <1>1 DEF TakeMove, NextAxis, MoveDone
    <2> QED BY <2>1 DEF MeasuredSoFar
  <1>4. cal.state \notin {"GOTO_LOWER_RIGHT_CORNER", "CLEARED"} => centring' = "no"
    BY <1>2 DEF MeasuredSoFar
  <1>5. CASE TakeMove
    <2>1. Head(queue) \in ItemsAhead /\ Head(queue).legs[1] \in Legs
          /\ Start(Head(queue).legs[1]) /\ reports' = reports
      BY <1>1, <1>5, LegsStarted, OwnMoves DEF TakeMove
    <2>2. PICK d \in Head(queue).legs[1].dirs, n \in Head(queue).legs[1].steps :
             call'["worker"] = MoveAxis(d, n)
      BY <2>1, StartKeeps
    <2>3. call'["worker"].dir = d
      BY <2>2 DEF MoveAxis, Idle
    <2>4. ItemsAhead' = ItemsAhead
      BY <1>1, <1>5, AheadSteps
    <2>5. \A e \in Directions : OnlyMoves(e) => OnlyMoves(e)'
      BY <2>1, <2>2, <2>3, <2>4 DEF OnlyMoves
    <2>6. call["worker"].at # "done"
      BY <1>1, <1>5 DEF TakeMove
    <2>7. Limited => Limited'
      BY <2>1, <2>6 DEF Limited
    <2>8. Recentring => Recentring'
      BY <1>5, RecentringServed
    <2> QED BY <1>2, <1>3, <1>4, <2>5, <2>7, <2>8, MeasuredKept
  <1>6. CASE NextAxis
    <2>1. serving[1] \in ItemsAhead /\ Len(serving[1].legs) > 1
          /\ call["worker"].result # "limit" /\ reports' = reports
      BY <1>1, <1>6, OwnMoves DEF NextAxis
    <2>2. Len(serving[1].legs) # 1
      <3>1. serving[1] \in Items
        BY <1>1, <1>6, LegsStarted
      <3> DEFINE n == Len(serving[1].legs)
      <3>2. n \in Nat /\ n > 1
        BY <2>1, <3>1, ItemTypes
      <3> HIDE DEF n
      <3>3. n # 1
        BY <3>2
      <3> QED BY <3>3 DEF n
    <2>3. \A e \in Directions : ~OnlyMoves(e)
      BY <2>1, <2>2 DEF OnlyMoves
    <2>4. Limited => Limited'
      BY <2>1 DEF Limited
    <2>5. Recentring => Recentring'
      BY <1>6, RecentringServed
    <2> QED BY <1>2, <1>3, <1>4, <2>3, <2>4, <2>5, MeasuredKept
  <1>7. CASE MoveDone
    <2>1. serving # <<>> /\ serving[1].kind # "manual"
      BY <1>1, <1>7, OwnMoves DEF MoveDone
    <2>2. PICK r : /\ reports' = Append(reports, r)
                   /\ call["worker"].result = "limit" => r = "limit"
      BY <1>7, <2>1 DEF MoveDone
    <2>3. Limited => Limited'
      <3>1. reports \in Seq({"ok", "error", "limit"})
        BY DEF TypeOK
      <3>2. DOMAIN reports = 1..Len(reports) /\ Len(reports) \in Nat
            /\ DOMAIN Append(reports, r) = 1..(Len(reports) + 1)
            /\ Append(reports, r)[Len(reports) + 1] = r
            /\ \A i \in DOMAIN reports : Append(reports, r)[i] = reports[i]
        BY <3>1
      <3>3. ASSUME call["worker"].result = "limit"
            PROVE  Limited'
        BY <2>2, <3>2, <3>3 DEF Limited
      <3>4. ASSUME NEW i \in DOMAIN reports, reports[i] = "limit"
            PROVE  Limited'
        <4>1. i \in DOMAIN Append(reports, r)
          BY <3>2
        <4> QED BY <2>2, <3>2, <3>4, <4>1 DEF Limited
      <3> QED BY <3>3, <3>4 DEF Limited
    <2>4. ItemsAhead' \subseteq ItemsAhead
      BY <1>1, <1>7, AheadSteps
    <2>5. call'["worker"].at = "idle"
      BY <1>1, <1>7 DEF MoveDone, Threads, Idle
    <2>6. \A e \in Directions : OnlyMoves(e) => OnlyMoves(e)'
      BY <2>4, <2>5 DEF OnlyMoves
    <2>7. Recentring => Recentring'
      BY <1>7, RecentringServed
    <2> QED BY <1>2, <1>3, <1>4, <2>3, <2>6, <2>7, MeasuredKept
  <1> QED BY <1>5, <1>6, <1>7

\* What changes neither the mirror, the calibration nor the moves ahead.
LEMMA OtherMeasures ==
    ASSUME TypeOK, ThreadsMatch, MeasuredSoFar, undisturbed, guider = "calibrating",
           CentreAxis \/ CentreMoved \/ Expose \/ CalibrationHasNoState \/ UNCHANGED vars
    PROVE  MeasuredSoFar'
  <1>1. /\ UNCHANGED <<travel, mirror, cal, queue, serving, reports>>
        /\ image' = "elsewhere" => image = "elsewhere"
    BY DEF CentreAxis, CentreMoved, Expose, CalibrationHasNoState, vars
  <1>2. call'["worker"] = call["worker"]
    BY DEF CentreAxis, CentreMoved, Expose, CalibrationHasNoState, vars, TypeOK, Threads
  <1>3. cal.state \notin {"GOTO_LOWER_RIGHT_CORNER", "CLEARED"} => centring' = "no"
    BY DEF CentreAxis, CentreMoved, Expose, CalibrationHasNoState, vars, MeasuredSoFar
  <1>4. Limited => Limited'
    BY <1>1, <1>2 DEF Limited
  <1>5. \A d \in Directions : OnlyMoves(d) => OnlyMoves(d)'
    BY <1>1, <1>2 DEF OnlyMoves, ItemsAhead
  <1>6. cal.state \in Averaging => queue' = <<>> /\ serving' = <<>> /\ reports' = <<>>
    BY <1>1 DEF MeasuredSoFar
  <1>7. Recentring => Recentring'
    BY <1>1, <1>2 DEF Recentring
  <1> QED BY <1>1, <1>3, <1>4, <1>5, <1>6, <1>7, MeasuredKept

\* A move of the calibration has ended, short of the mirror's own limit.
LEMMA EndedMeasures ==
    ASSUME TypeOK, MeasuredSoFar, guider = "calibrating", MoveEnded
    PROVE  MeasuredSoFar'
  <1>1. /\ reports # <<>> /\ Head(reports) # "limit" /\ reports' = Tail(reports)
        /\ UNCHANGED <<travel, mirror, cal, call, queue, serving, image>>
        /\ centring' = "no"
    BY DEF MoveEnded
  <1>2. cal.state \notin Averaging
    BY <1>1 DEF MeasuredSoFar
  <1>3. Limited => Limited'
    <2>1. reports \in Seq({"ok", "error", "limit"})
      BY DEF TypeOK
    <2>2. Elements(reports) = {Head(reports)} \cup Elements(reports')
      BY <1>1, <2>1, ElementsChange
    <2>3. (\E i \in DOMAIN reports : reports[i] = "limit") => "limit" \in Elements(reports')
      BY <1>1, <2>2 DEF Elements
    <2> QED BY <1>1, <2>3 DEF Limited, Elements
  <1>4. \A d \in Directions : OnlyMoves(d) => OnlyMoves(d)'
    BY <1>1 DEF OnlyMoves, ItemsAhead
  <1>5. Recentring => Recentring'
    BY <1>1 DEF Recentring
  <1> QED BY <1>1, <1>2, <1>3, <1>4, <1>5, MeasuredKept

\* A pulse in a calibration is the interference.
LEMMA PulseInterferes ==
    ASSUME TypeOK, ManualMove, guider' = "calibrating"
    PROVE  ~undisturbed'
  <1>1. PICK d \in Directions, n \in Amounts \cup {1} :
           queue' = Append(queue, AxisMove("manual", d, n))
    BY DEF ManualMove
  <1>2. AxisMove("manual", d, n) \in Items
    BY ItemTypes, StepGuiderAssumption
  <1>3. queue \in Seq(Items)
    BY DEF TypeOK
  <1>4. AxisMove("manual", d, n) \in Elements(queue')
    BY <1>1, <1>2, <1>3, ElementsChange
  <1>5. AxisMove("manual", d, n) \in ItemsAhead'
    BY <1>4 DEF ItemsAhead, Elements
  <1>6. ~Counted(AxisMove("manual", d, n))'
    BY DEF Counted, AxisMove
  <1>7. ManualAhead'
    <2>1. ManualAhead' <=> \E i \in ItemsAhead' : i.kind = "manual"
      BY DEF ManualAhead, Counted
    <2>2. AxisMove("manual", d, n).kind = "manual"
      BY DEF AxisMove
    <2> QED BY <1>5, <2>1, <2>2
  <1>8. Interference'
    BY <1>7 DEF Interference
  <1> QED BY <1>8 DEF ManualMove, Watch


\* Between two moves, with an image: nothing is ahead, and the mirror is in its place.
LEMMA ImageSettled ==
    ASSUME PositionInv, CalibrationGoesOn, undisturbed
    PROVE  /\ Settled /\ queue = <<>> /\ serving = <<>> /\ reports = <<>> /\ ~Limited
           /\ call["worker"].at = "idle" /\ centring = "no" /\ guider = "calibrating"
  <1>1. TypeOK /\ ThreadsMatch
    BY DEF PositionInv
  <1>2. Settled
    BY <1>1, RemainingAtImage DEF Settled
  <1>3. ItemsAhead = {} /\ call["worker"].at = "idle"
    BY RemainingAtImage DEF Threads
  <1>4. reports = <<>> /\ centring = "no" /\ guider = "calibrating"
    BY DEF CalibrationGoesOn, ImageReady, GuiFree, Busy
  <1>5. serving = <<>> /\ queue = <<>>
    BY <1>1, <1>3, AheadTypes
  <1>6. ~Limited
    <2>1. DOMAIN reports = {}
      BY <1>4
    <2> QED BY <1>3, <2>1 DEF Limited
  <1> QED BY <1>2, <1>3, <1>4, <1>5, <1>6

\* The moves of one direction only, after an image.
LEMMA ScheduledMoves ==
    ASSUME TypeOK, queue = <<>>, serving = <<>>, serving' = <<>>, NEW go \in SUBSET Directions,
           \A d \in go : Remaining(d) > 0, queue' = queue \o ScheduleAxisMoves(go),
           call'["worker"].at = "idle"
    PROVE  /\ \A d \in Directions : go \subseteq {d} => OnlyMoves(d)'
           /\ go = {} => queue' = <<>>
  <1>1. ScheduleAxisMoves(go) \in Seq(Items) /\ queue' = ScheduleAxisMoves(go)
    BY ScheduleTyped, ConcatEmptySeq
  <1>2. Elements(queue') = {CalMove(d) : d \in go}
    BY <1>1, ScheduleElements
  <1>3. ItemsAhead' = {CalMove(d) : d \in go}
    BY <1>2 DEF ItemsAhead, Elements
  <1>4. \A d : Len(CalMove(d).legs) = 1 /\ CalMove(d).legs[1].dirs = {d}
    BY DEF CalMove, AxisMove
  <1>5. \A d \in Directions : go \subseteq {d} => OnlyMoves(d)'
    BY <1>3, <1>4 DEF OnlyMoves
  <1>6. go = {} => queue' = <<>>
    <2> SUFFICES ASSUME go = {} PROVE queue' = <<>>
      OBVIOUS
    <2>1. Elements(queue') = {}
      BY <1>2
    <2>2. queue' # <<>> => Head(queue') \in Elements(queue')
      BY <1>1, ElementsChange
    <2> QED BY <2>1, <2>2
  <1> QED BY <1>5, <1>6

\* The way back to the centre, from where the image shows the mirror.
LEMMA RecentringBegins ==
    ASSUME Settled, serving = <<>>, serving' = <<>>, queue = <<>>,
           NEW go \in SUBSET {"RIGHT", "DOWN"}, \A d \in go : Short(d),
           queue' = queue \o ScheduleAxisMoves(go), UNCHANGED <<mirror, call>>,
           call["worker"].at = "idle", mirror["x"] <= 0, mirror["y"] >= 0
    PROVE  Recentring'
  <1> DEFINE Back(d) == AxisMove("calibration", d, CalSteps)
  <1>1. TypeOK /\ travel \in Nat /\ CalSteps \in Nat \ {0} /\ travel > 0
    BY PositionTypes, StepGuiderAssumption DEF Settled
  <1>2. mirror["x"] \in Int /\ mirror["y"] \in Int
        /\ mirror["x"] = offset["x"] /\ mirror["y"] = offset["y"]
    BY <1>1 DEF TypeOK, Points, Settled, Axes
  <1>3. /\ Remaining("RIGHT") = travel - 1 - mirror["x"]
        /\ Remaining("DOWN") = travel - 1 + mirror["y"]
    BY <1>1, <1>2 DEF Remaining, CurrentPosition, Axis, Sign
  <1>4. \A d \in go : Smaller(Remaining(d), CalSteps) = CalSteps
    BY <1>1, <1>2, <1>3 DEF Short, Smaller
  <1>5. ScheduleAxisMoves(go) =
           (IF "DOWN" \in go THEN <<Back("DOWN")>> ELSE <<>>)
             \o (IF "RIGHT" \in go THEN <<Back("RIGHT")>> ELSE <<>>)
    <2> DEFINE M(d) == IF d \notin go THEN <<>> ELSE <<Back(d)>>
    <2>1. ScheduleAxisMoves(go) = M("UP") \o M("DOWN") \o M("RIGHT") \o M("LEFT")
      BY <1>4 DEF ScheduleAxisMoves
    <2>2. M("UP") = <<>> /\ M("LEFT") = <<>>
      OBVIOUS
    <2>3. /\ M("DOWN") = IF "DOWN" \in go THEN <<Back("DOWN")>> ELSE <<>>
          /\ M("RIGHT") = IF "RIGHT" \in go THEN <<Back("RIGHT")>> ELSE <<>>
      OBVIOUS
    <2> HIDE DEF Back
    <2> DEFINE T == {Back("DOWN"), Back("RIGHT")}
    <2>4. /\ <<>> \in Seq(T) /\ <<Back("DOWN")>> \in Seq(T)
          /\ <<Back("RIGHT")>> \in Seq(T)
      OBVIOUS
    <2> HIDE DEF M, T
    <2>5. M("DOWN") \in Seq(T) /\ M("RIGHT") \in Seq(T)
      BY <2>3, <2>4
    <2>6. M("DOWN") \o M("RIGHT") \in Seq(T)
      BY <2>5
    <2>7. \A q \in Seq(T) : <<>> \o q = q /\ q \o <<>> = q
      BY ConcatEmptySeq
    <2> QED BY <2>1, <2>2, <2>3, <2>5, <2>6, <2>7
  <1>6. queue' \in {<<>>, <<Back("DOWN")>>, <<Back("RIGHT")>>, <<Back("DOWN"), Back("RIGHT")>>}
        /\ \A d \in {"RIGHT", "DOWN"} :
              (\E i \in DOMAIN queue' : queue'[i] = Back(d)) => d \in go
    <2>1. Back("RIGHT") # Back("DOWN")
      <3>1. Back("RIGHT").legs[1].dirs # Back("DOWN").legs[1].dirs
        BY DEF AxisMove
      <3> QED BY <3>1
    <2>2. queue' = ScheduleAxisMoves(go)
      <3>2. /\ "RIGHT" \in go => Remaining("RIGHT") > 0
            /\ "DOWN" \in go => Remaining("DOWN") > 0
        BY <1>1, <1>2, <1>3 DEF Short
      <3>3. go \in SUBSET Directions /\ \A d \in go : Remaining(d) > 0
        BY <3>2 DEF Directions
      <3>1. ScheduleAxisMoves(go) \in Seq(Items)
        BY <1>1, <3>3, ScheduleTyped
      <3> QED BY <3>1, ConcatEmptySeq
    <2> DEFINE down == <<Back("DOWN")>>
               right == <<Back("RIGHT")>>
    <2> HIDE DEF Back
    <2>3. /\ "DOWN" \in go /\ "RIGHT" \in go =>
                queue' = <<Back("DOWN"), Back("RIGHT")>>
          /\ "DOWN" \in go /\ "RIGHT" \notin go => queue' = down
          /\ "DOWN" \notin go /\ "RIGHT" \in go => queue' = right
          /\ "DOWN" \notin go /\ "RIGHT" \notin go => queue' = <<>>
      <3> DEFINE T == {Back("DOWN"), Back("RIGHT")}
      <3>1. down \in Seq(T) /\ right \in Seq(T) /\ <<>> \in Seq(T)
        OBVIOUS
      <3>2. \A q \in Seq(T) : <<>> \o q = q /\ q \o <<>> = q
        BY ConcatEmptySeq
      <3>3. down \o right = <<Back("DOWN"), Back("RIGHT")>>
        <4> DEFINE both == <<Back("DOWN"), Back("RIGHT")>>
        <4>1. /\ down \o right \in Seq(T) /\ Len(down \o right) = 2
              /\ (down \o right)[1] = down[1] /\ (down \o right)[2] = right[1]
          BY <3>1, ConcatProperties
        <4>2. both \in Seq(T) /\ Len(both) = 2
              /\ both[1] = Back("DOWN") /\ both[2] = Back("RIGHT")
          OBVIOUS
        <4> HIDE DEF T
        <4>3. \A i \in 1..Len(down \o right) : (down \o right)[i] = both[i]
          BY <4>1, <4>2
        <4> HIDE DEF both, down, right
        <4>4. down \o right = both
          BY <4>1, <4>2, <4>3, SeqEqual
        <4> QED BY <4>4 DEF both
      <3> HIDE DEF T, down, right
      <3> QED BY <1>5, <2>2, <3>1, <3>2, <3>3 DEF down, right
    <2>4. ASSUME NEW d \in {"RIGHT", "DOWN"}, NEW i \in DOMAIN queue', queue'[i] = Back(d)
          PROVE  d \in go
      <3>1. CASE "DOWN" \notin go /\ "RIGHT" \in go
        BY <2>1, <2>3, <2>4, <3>1
      <3>2. CASE "DOWN" \in go /\ "RIGHT" \notin go
        BY <2>1, <2>3, <2>4, <3>2
      <3>3. CASE "DOWN" \notin go /\ "RIGHT" \notin go
        BY <2>3, <2>4, <3>3
      <3> QED BY <3>1, <3>2, <3>3
    <2> QED BY <2>3, <2>4
  <1>7. ("RIGHT" \in go => mirror["x"] + CalSteps <= 0)
        /\ ("DOWN" \in go => mirror["y"] - CalSteps >= 0)
    BY DEF Short
  <1> QED BY <1>1, <1>6, <1>7 DEF Recentring

\* An image is handled: what it measures is measured in the right place.
LEMMA ImageMeasures ==
    ASSUME PositionInv, MeasuredSoFar, undisturbed, CalibrationGoesOn
    PROVE  /\ cal'.state = "COMPLETE" => guider' = "guiding" /\ XExact' /\ YExact'
           /\ cal'.state # "COMPLETE" => MeasuredSoFar'
           /\ cal'.state = "COMPLETE" => NearCentre
  <1>1. TypeOK /\ Settled /\ queue = <<>> /\ serving = <<>> /\ reports = <<>> /\ ~Limited
        /\ call["worker"].at = "idle" /\ centring = "no"
    BY ImageSettled DEF PositionInv
  <1>2. PICK p \in IF image = "here" THEN {mirror} ELSE Places \ {mirror} :
           /\ cal.state # "CLEARED"
           /\ cal' = [CalibrationStep(cal, p) EXCEPT !.go = {}]
           /\ queue' = queue \o ScheduleAxisMoves(CalibrationStep(cal, p).go)
           /\ CalibrationStep(cal, p).state = "COMPLETE" => guider' = "guiding"
    BY DEF CalibrationGoesOn
  <1>3. /\ UNCHANGED <<travel, mirror, call, serving, reports, centring>>
        /\ image' = "none" /\ image # "none"
    BY DEF CalibrationGoesOn, ImageReady
  <1> DEFINE c == CalibrationStep(cal, p)
  <1>4. p \in Points
    BY <1>1, PlacesTyped
  <1>5. StepOK(c)
    BY <1>1, <1>2, <1>4, CalibrationStepTyped
  <1> HIDE DEF c
  <1>6. /\ cal'.state = c.state /\ cal'.samples = c.samples /\ cal'.sum = c.sum
        /\ cal'.start = c.start /\ cal'.xRate = c.xRate /\ cal'.yRate = c.yRate
        /\ c.go \in SUBSET Directions /\ \A d \in c.go : Remaining(d) > 0
    BY <1>2, <1>5 DEF StepOK, WorkType, c
  <1>7. CASE image = "here"
    <2>1. p = mirror
      BY <1>2, <1>7
    <2>2. StepMatches(c)
      <3>1. cal.state # "COMPLETE" /\ StateMatches
        BY <1>1 DEF MeasuredSoFar
      <3> QED BY <1>1, <1>2, <2>1, <3>1, StepMatched DEF c
    <2>3. c.state \in {"RECENTER", "COMPLETE"} => XExact' /\ YExact'
      BY <1>6, <2>2 DEF StepMatches, XExactIn, YExactIn, XExact, YExact
    <2>4. ASSUME c.state # "COMPLETE"
          PROVE  MeasuredSoFar'
      <3>1. /\ \A d \in Directions : c.go \subseteq {d} => OnlyMoves(d)'
            /\ c.go = {} => queue' = <<>>
        BY <1>1, <1>2, <1>3, <1>6, ScheduledMoves DEF c
      <3>2. \A sx, sy : Corner(sx, sy)' = Corner(sx, sy)
        BY <1>3 DEF Corner
      <3>3. XExactIn(c) => XExact'
        BY <1>6 DEF XExactIn, XExact
      <3>4. c.go \subseteq {"LEFT"} => OnlyMoves("LEFT")'
        BY <3>1 DEF Directions
      <3>5. c.go \subseteq {"UP"} => OnlyMoves("UP")'
        BY <3>1 DEF Directions
      <3>6. c.state = "RECENTER" => Recentring'
        BY <1>1, <1>2, <1>3, <1>6, <2>2, RecentringBegins DEF StepMatches, c
      <3>8. StateMatches'
        BY <1>3, <1>6, <2>2, <2>3, <3>2, <3>3, <3>4, <3>5, <3>6
           DEF StateMatches, StepMatches, Here, SumAt, From, Times
      <3>7. cal'.state \in Averaging => queue' = <<>> /\ serving' = <<>> /\ reports' = <<>>
        BY <1>1, <1>3, <1>6, <2>2, <3>1 DEF StepMatches
      <3> QED BY <1>1, <1>3, <1>6, <2>4, <3>7, <3>8 DEF MeasuredSoFar
    <2> QED BY <1>2, <1>6, <2>2, <2>3, <2>4 DEF c, StepMatches
  <1>8. CASE image # "here"
    <2>1. image = "elsewhere"
      BY <1>1, <1>3, <1>8 DEF TypeOK
    <2>2. cal.state = "GOTO_LOWER_RIGHT_CORNER" /\ mirror["y"] = 0 /\ travel > 1
      BY <1>2, <2>1 DEF MeasuredSoFar
    <2>3. Remaining("DOWN") > 0
      BY <1>1, <2>2, AtTheEnd
    <2>4. c.state = "GOTO_LOWER_RIGHT_CORNER"
      <3> DEFINE far == {d \in {"DOWN", "RIGHT"} : Remaining(d) > 0}
      <3>1. far # {}
        BY <2>3
      <3>2. c = [cal EXCEPT !.go = far]
        BY <2>2, <3>1 DEF c, CalibrationStep, GotoLowerRightCorner
      <3> HIDE DEF far
      <3> QED BY <1>1, <2>2, <3>2 DEF TypeOK
    <2>5. MeasuredSoFar'
      BY <1>3, <1>6, <2>4, NothingMeasured
    <2> QED BY <1>6, <2>4, <2>5
  <1> QED BY <1>7, <1>8


-------------------------------------------------------------------------------
(* The invariant.                                                          *)

LEMMA TrackedInductive ==
    ASSUME CalibrationInv, [Next]_vars, undisturbed', guider' = "calibrating"
    PROVE  MeasuredSoFar'
  <1>1. PositionInv /\ CalibrationTracked /\ TypeOK /\ ThreadsMatch
    BY DEF CalibrationInv, PositionInv
  <1>2. ~Restart
    BY DEF Restart
  <1>3. undisturbed
    BY <1>1, <1>2, UndisturbedBefore
  <1>4. guider = "calibrating" => MeasuredSoFar
    BY <1>1, <1>3 DEF CalibrationTracked
  <1>5. CASE StartGuiding \/ LimitReached
    <2>1. cal' = BeginCalibration /\ image' = image /\ image # "elsewhere"
      BY <1>5 DEF StartGuiding, LimitReached
    <2> QED BY <2>1, BegunStates, NothingMeasured
  <1>6. CASE ClearCalibration
    <2>1. MeasuredSoFar /\ cal' = Cleared /\ UNCHANGED <<image, mirror, travel>>
      BY <1>4, <1>6 DEF ClearCalibration
    <2>2. image' = "elsewhere" => mirror'["y"] = 0 /\ travel' > 1
      BY <2>1 DEF MeasuredSoFar
    <2> QED BY <2>1, <2>2, BegunStates, NothingMeasured
  <1>7. CASE ManualMove
    BY <1>1, <1>7, PulseInterferes
  <1>8. CASE CalibrationGoesOn
    <2>1. guider = "calibrating"
      BY <1>8 DEF CalibrationGoesOn
    <2> QED BY <1>1, <1>3, <1>4, <1>8, <2>1, ImageMeasures
  <1>9. CASE \E t \in Threads : InMoveAxis(t)
    <2>1. PICK t \in Threads : InMoveAxis(t)
      BY <1>9
    <2>2. guider = "calibrating" /\ MeasuredSoFar
      BY <1>1, <1>4, <2>1, MoveAxisKeeps
    <2> QED BY <1>1, <1>3, <2>1, <2>2, WorkerMeasures, CentringMeasures DEF Threads
  <1>10. CASE TakeMove \/ NextAxis \/ MoveDone
    <2>1. guider = "calibrating"
      BY <1>10 DEF TakeMove, NextAxis, MoveDone
    <2> QED BY <1>1, <1>3, <1>4, <1>10, <2>1, ServingMeasures
  <1>11. CASE CentreAxis \/ CentreMoved \/ Expose \/ CalibrationHasNoState \/ UNCHANGED vars
    <2>1. guider = "calibrating"
      BY <1>11 DEF CentreAxis, CentreMoved, Expose, CalibrationHasNoState, vars
    <2> QED BY <1>1, <1>3, <1>4, <1>11, <2>1, OtherMeasures
  <1>12. CASE MoveEnded
    <2>1. guider = "calibrating"
      BY <1>12 DEF MoveEnded
    <2> QED BY <1>1, <1>4, <1>12, <2>1, EndedMeasures
  <1>13. ~(StopGuiding \/ SetMaxPosition \/ ImageIgnored \/ GuideStep \/ CalibrationFails)
    BY DEF StopGuiding, SetMaxPosition, ImageIgnored, GuideStep, CalibrationFails
  <1> QED BY <1>2, <1>5, <1>6, <1>7, <1>8, <1>9, <1>10, <1>11, <1>12, <1>13, NextCases

\* Only an image that is handled completes a calibration.
LEMMA ExactInductive ==
    ASSUME CalibrationInv, [Next]_vars, undisturbed', cal'.state = "COMPLETE"
    PROVE  XExact' /\ YExact'
  <1>1. PositionInv /\ CalibrationTracked /\ CalibrationExact /\ TypeOK
    BY DEF CalibrationInv, PositionInv
  <1>2. Cleared.state # "COMPLETE" /\ BeginCalibration.state # "COMPLETE"
    BY BegunStates
  <1>3. ~Restart
    BY <1>2 DEF Restart
  <1>4. undisturbed
    BY <1>1, <1>3, UndisturbedBefore
  <1>5. CASE CalibrationGoesOn
    <2>1. guider = "calibrating"
      BY <1>5 DEF CalibrationGoesOn
    <2> QED BY <1>1, <1>4, <1>5, <2>1, ImageMeasures DEF CalibrationTracked
  <1>6. CASE cal' = cal
    BY <1>1, <1>4, <1>6 DEF CalibrationExact, XExact, YExact
  <1>7. CASE StartGuiding \/ StopGuiding \/ ClearCalibration \/ CalibrationFails \/ LimitReached
    <2>1. cal' \in {cal, Cleared, BeginCalibration}
      BY <1>7 DEF StartGuiding, StopGuiding, ClearCalibration, CalibrationFails,
                  LimitReached, GivenUp
    <2> QED BY <1>2, <1>6, <2>1
  <1>8. CASE \E t \in Threads : InMoveAxis(t)
    BY <1>1, <1>6, <1>8, MoveAxisKeeps
  <1> QED BY <1>3, <1>5, <1>6, <1>7, <1>8, NextCases
          DEF vars, TakeMove, NextAxis, MoveDone, Expose, CentreAxis, CentreMoved,
              ManualMove, SetMaxPosition, ImageIgnored, GuideStep, CalibrationHasNoState,
              MoveEnded

LEMMA InitCalibration == Init => CalibrationInv
  <1>1. Init => guider # "calibrating" /\ cal.state # "COMPLETE"
    BY DEF Init, Cleared
  <1>2. Init => CalibrationTracked /\ CalibrationExact
    BY <1>1 DEF CalibrationTracked, CalibrationExact
  <1> QED BY <1>2, InitInv DEF CalibrationInv

LEMMA CalibrationInductive == CalibrationInv /\ [Next]_vars => CalibrationInv'
  <1> SUFFICES ASSUME CalibrationInv, [Next]_vars PROVE CalibrationInv'
    OBVIOUS
  <1>1. PositionInv'
    BY InvInductive DEF CalibrationInv
  <1>2. CalibrationTracked'
    BY TrackedInductive DEF CalibrationTracked
  <1>3. CalibrationExact'
    BY ExactInductive DEF CalibrationExact, XExact, YExact
  <1> QED BY <1>1, <1>2, <1>3 DEF CalibrationInv

-------------------------------------------------------------------------------
(* The theorems.                                                           *)

\* The inductive invariant: in each state of the calibration the mirror is in the corner
\* or on the edge that state is about, with only moves of its own ahead, and what has
\* been summed up is that many times the corner.
THEOREM CalibrationInvHolds == Spec => []CalibrationInv
  BY InitCalibration, CalibrationInductive, PTL DEF Spec

\* The step that completes a calibration.
LEMMA CompletesNearCentre ==
    ASSUME CalibrationInv, [Next]_vars, cal.state # "COMPLETE", cal'.state = "COMPLETE",
           undisturbed'
    PROVE  NearCentre
  <1>1. PositionInv /\ CalibrationTracked /\ TypeOK
    BY DEF CalibrationInv, PositionInv
  <1>2. Cleared.state # "COMPLETE" /\ BeginCalibration.state # "COMPLETE"
    BY BegunStates
  <1>3. ~Restart /\ cal' # cal
    BY <1>2 DEF Restart
  <1>4. undisturbed
    BY <1>1, <1>3, UndisturbedBefore
  <1>5. CASE CalibrationGoesOn
    <2>1. guider = "calibrating"
      BY <1>5 DEF CalibrationGoesOn
    <2> QED BY <1>1, <1>4, <1>5, <2>1, ImageMeasures DEF CalibrationTracked
  <1>6. ~(StartGuiding \/ StopGuiding \/ ClearCalibration \/ CalibrationFails \/ LimitReached)
    BY <1>2, <1>3 DEF StartGuiding, StopGuiding, ClearCalibration, CalibrationFails,
                      LimitReached, GivenUp
  <1>7. ~\E t \in Threads : InMoveAxis(t)
    BY <1>1, <1>3, MoveAxisKeeps
  <1> QED BY <1>3, <1>5, <1>6, <1>7, NextCases
          DEF vars, TakeMove, NextAxis, MoveDone, Expose, CentreAxis, CentreMoved,
              ManualMove, SetMaxPosition, ImageIgnored, GuideStep, CalibrationHasNoState,
              MoveEnded

\* A calibration is only completed within one move of the centre: each axis comes back
\* from its end by moves that its way is long enough for, whatever moves failed.
THEOREM EndsNearCentreHolds == Spec => EndsNearCentre
  <1>1. CalibrationInv /\ [Next]_vars
           => [cal.state # "COMPLETE" /\ cal'.state = "COMPLETE" /\ undisturbed'
                  => NearCentre]_vars
    BY CompletesNearCentre
  <1>2. NearCentre <=> \A a \in Axes : mirror[a] < CalSteps /\ -mirror[a] < CalSteps
    BY DEF NearCentre
  <1>3. CalibrationInv /\ [Next]_vars
           => [cal.state # "COMPLETE" /\ cal'.state = "COMPLETE" /\ undisturbed'
                  => \A a \in Axes : mirror[a] < CalSteps /\ -mirror[a] < CalSteps]_vars
    BY <1>1, <1>2
  <1> QED BY <1>3, CalibrationInvHolds, PTL DEF EndsNearCentre, Spec

\* A finished calibration has measured the distances it divides by, for any travel,
\* samples and step sizes, whatever moves failed.
THEOREM CalibrationExactHolds == Spec => []CalibrationExact
  <1>1. CalibrationInv => CalibrationExact
    BY DEF CalibrationInv
  <1> QED BY <1>1, CalibrationInvHolds, PTL

===============================================================================
