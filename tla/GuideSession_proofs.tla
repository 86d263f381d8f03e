-------------------------- MODULE GuideSession_proofs --------------------------
EXTENDS GuideSession, FiniteSetTheorems, TLAPS

(* The guide session: the inductive invariant SessionInv, and the safety    *)
(* properties that follow from it, for every mount, every set of commands   *)
(* and every bound on the attempts.                                         *)
(*                                                                         *)
(* A handler works on the record s alone, so the argument is about records. *)
(* Out sums up what is on its way to and from the workers: the moves that   *)
(* count for each mount, the exposures and the guide moves.  Good(t, o)     *)
(* says that a record t agrees with itself and with o; each operator of the *)
(* model has a lemma saying what it needs of Good, and what it leaves and   *)
(* what it does not touch (Same).  Sound is SessionInv in these terms       *)
(* (InvSound): Good of s and Out, with what the queues themselves may hold  *)
(* (Around).  The last part shows that each command, each event the GUI     *)
(* thread handles and each step of a worker keeps Sound.                    *)

\* What is counted of a queue is a finite set.
LEMMA CountSets ==
    ASSUME NEW S, NEW q \in Seq(S), NEW W
    PROVE  /\ IsFiniteSet({i \in DOMAIN q : q[i] \in W})
           /\ Count(q, W) \in Nat
  <1>1. DOMAIN q = 1..Len(q) /\ Len(q) \in Nat
    OBVIOUS
  <1>2. IsFiniteSet(1..Len(q))
    BY <1>1, FS_Interval
  <1>3. {i \in DOMAIN q : q[i] \in W} \subseteq 1..Len(q)
    BY <1>1
  <1>4. IsFiniteSet({i \in DOMAIN q : q[i] \in W})
    BY <1>2, <1>3, FS_Subset
  <1> QED BY <1>4, FS_CardinalityType DEF Count

\* An empty queue holds nothing.
LEMMA CountEmpty == ASSUME NEW W PROVE Count(<<>>, W) = 0
  <1>1. {i \in DOMAIN <<>> : <<>>[i] \in W} = {}
    OBVIOUS
  <1> QED BY <1>1, FS_EmptySet DEF Count

\* One more element.
LEMMA CountAppend ==
    ASSUME NEW S, NEW q \in Seq(S), NEW e \in S, NEW W
    PROVE  Count(Append(q, e), W) = Count(q, W) + IF e \in W THEN 1 ELSE 0
  <1> DEFINE A == {i \in DOMAIN q : q[i] \in W}
             B == {i \in DOMAIN Append(q, e) : Append(q, e)[i] \in W}
             n == Len(q) + 1
  <1>1. IsFiniteSet(A) /\ Cardinality(A) \in Nat
    BY CountSets DEF Count
  <1>2. DOMAIN q = 1..Len(q) /\ DOMAIN Append(q, e) = 1..n /\ n \notin DOMAIN q
    OBVIOUS
  <1>3. Append(q, e)[n] = e /\ \A i \in DOMAIN q : Append(q, e)[i] = q[i]
    OBVIOUS
  <1>4. DOMAIN Append(q, e) = DOMAIN q \cup {n}
    BY <1>2
  <1>5. B = IF e \in W THEN A \cup {n} ELSE A
    BY <1>3, <1>4
  <1>6. n \notin A
    BY <1>2
  <1> HIDE DEF A, B, n
  <1>7. Cardinality(B) = Cardinality(A) + IF e \in W THEN 1 ELSE 0
    <2>1. Cardinality(A \cup {n}) = Cardinality(A) + 1
      BY <1>1, <1>6, FS_AddElement
    <2> QED BY <1>1, <1>5, <2>1
  <1> QED BY <1>7 DEF Count, A, B

\* One element fewer.
LEMMA CountTail ==
    ASSUME NEW S, NEW q \in Seq(S), q # <<>>, NEW W
    PROVE  Count(q, W) = Count(Tail(q), W) + IF Head(q) \in W THEN 1 ELSE 0
  <1> DEFINE A == {i \in DOMAIN Tail(q) : Tail(q)[i] \in W}
             B == {i \in DOMAIN q : q[i] \in W}
             C == B \ {1}
  <1>1. Tail(q) \in Seq(S) /\ DOMAIN q = 1..Len(q) /\ Len(q) \in Nat \ {0}
        /\ DOMAIN Tail(q) = 1..(Len(q) - 1)
        /\ q[1] = Head(q)
    OBVIOUS
  <1>2. \A i \in 1..(Len(q) - 1) : Tail(q)[i] = q[i + 1]
    OBVIOUS
  <1>3. IsFiniteSet(A) /\ Cardinality(A) \in Nat /\ IsFiniteSet(B)
    BY <1>1, CountSets DEF Count
  <1>4. IsFiniteSet(C) /\ Cardinality(C) = Cardinality(A)
    <2> DEFINE f == [i \in A |-> i + 1]
    <2>1. f \in [A -> C]
      BY <1>1, <1>2
    <2>2. \A i, j \in A : f[i] = f[j] => i = j
      BY <1>1
    <2>3. ASSUME NEW k \in C PROVE \E i \in A : f[i] = k
      <3>1. k - 1 \in A /\ (k - 1) + 1 = k
        BY <1>1, <1>2
      <3>2. f[k - 1] = k
        BY <3>1
      <3> QED BY <3>1, <3>2
    <2> HIDE DEF f
    <2>4. f \in Bijection(A, C)
      BY <2>1, <2>2, <2>3 DEF Bijection, Injection, Surjection, IsInjective
    <2>5. ExistsBijection(A, C)
      BY <2>4 DEF ExistsBijection
    <2> HIDE DEF A, C
    <2> QED BY <1>3, <2>5, FS_Bijection
  <1>5. B = IF Head(q) \in W THEN C \cup {1} ELSE C
    BY <1>1
  <1>6. 1 \notin C
    OBVIOUS
  <1>7. Cardinality(C) \in Nat
    BY <1>3, <1>4
  <1> HIDE DEF A, B, C
  <1>8. Cardinality(B) = Cardinality(C) + IF Head(q) \in W THEN 1 ELSE 0
    <2>1. Cardinality(C \cup {1}) = Cardinality(C) + 1
      BY <1>4, <1>6, FS_AddElement
    <2> QED BY <1>5, <1>7, <2>1
  <1> QED BY <1>4, <1>8 DEF Count, A, B

\* A queue of one element holds it, or nothing that is counted.
LEMMA CountOne == ASSUME NEW e, NEW W PROVE Count(<<e>>, W) = IF e \in W THEN 1 ELSE 0
  <1>1. DOMAIN <<e>> = {1} /\ <<e>>[1] = e
    OBVIOUS
  <1>2. {i \in DOMAIN <<e>> : <<e>>[i] \in W} = IF e \in W THEN {1} ELSE {}
    BY <1>1
  <1>3. Cardinality({1}) = 1 /\ Cardinality({}) = 0
    BY FS_Singleton, FS_EmptySet
  <1> QED BY <1>2, <1>3 DEF Count

\* Nothing is counted exactly if no element of the queue is in the set.
LEMMA CountPositive ==
    ASSUME NEW S, NEW q \in Seq(S), NEW W
    PROVE  Count(q, W) = 0 <=> \A i \in DOMAIN q : q[i] \notin W
  <1> DEFINE A == {i \in DOMAIN q : q[i] \in W}
  <1>1. IsFiniteSet(A)
    BY CountSets
  <1> HIDE DEF A
  <1>2. Cardinality(A) = 0 <=> A = {}
    BY <1>1, FS_EmptySet
  <1> QED BY <1>2 DEF Count, A

\* A larger set of works counts no fewer elements.
LEMMA CountMonotone ==
    ASSUME NEW S, NEW q \in Seq(S), NEW V, NEW W,
           \A i \in DOMAIN q : q[i] \in V => q[i] \in W
    PROVE  Count(q, V) <= Count(q, W)
  <1> DEFINE A == {i \in DOMAIN q : q[i] \in V}
             B == {i \in DOMAIN q : q[i] \in W}
  <1>1. IsFiniteSet(B) /\ A \subseteq B
    BY CountSets
  <1> HIDE DEF A, B
  <1>2. Cardinality(A) <= Cardinality(B)
    BY <1>1, FS_Subset
  <1> QED BY <1>2 DEF Count, A, B

-------------------------------------------------------------------------------
(* The record.                                                             *)

Fields == {"capture", "cont", "pending", "single", "camera", "image", "pause", "gs",
           "star", "lock", "cal", "busy", "step", "ctl", "op", "force", "late",
           "attempts", "waits", "override", "dec", "saveDec", "moves", "shots",
           "pulses", "client", "failed"}
Rec(t) == t = [f \in Fields |-> t[f]]
Same(t, u, changed) == \A f \in Fields \ changed : u[f] = t[f]

Typed(t) ==
    /\ t.capture \in BOOLEAN /\ t.cont \in BOOLEAN /\ t.pending \in BOOLEAN
    /\ t.single \in BOOLEAN /\ t.camera \in BOOLEAN /\ t.image \in BOOLEAN
    /\ t.pause \in {"none", "guiding", "full"}
    /\ t.gs \in GuiderStates
    /\ t.star \in {"none", "stale", "lost", "found"} /\ t.lock \in BOOLEAN
    /\ t.cal \in [Mounts -> BOOLEAN] /\ t.busy \in [Mounts -> Nat]
    /\ t.step \in [Mounts -> BOOLEAN]
    /\ t.ctl \in ControllerStates /\ t.op \in {"none", "guide", "dither", "compat"}
    /\ t.force \in BOOLEAN /\ t.late \in BOOLEAN
    /\ t.attempts \in 0..3 /\ t.waits \in 0..3
    /\ t.override \in BOOLEAN /\ t.dec \in DecModes /\ t.saveDec \in DecModes
    /\ t.moves \in Seq(Moves) /\ t.shots \in Nat /\ t.pulses \in Seq(Moves)
    /\ t.client \in Listeners
    /\ t.failed \subseteq {"busy guider", "pending exposure", "request count"}

\* The set of records, field by field.
LEMMA RecordTypes == ASSUME NEW t PROVE t \in States <=> Rec(t) /\ Typed(t)
  <1>1. ASSUME t \in States PROVE Rec(t)
    BY <1>1 DEF States, Rec, Fields
  <1>2. ASSUME t \in States PROVE Typed(t)
    BY <1>2 DEF States, Typed
  <1>3. ASSUME Rec(t), Typed(t) PROVE t \in States
    BY <1>3 DEF States, Rec, Fields, Typed
  <1> QED BY <1>1, <1>2, <1>3

\* What is on its way to or from the workers and not in the record: the moves that
\* count for each mount, the exposures, the guide moves.
Outer(o) ==
    /\ o \in [n : [Mounts -> Nat], x : Nat, g : Nat]
    /\ o.g > 0 => \E m \in Mounts : o.n[m] > 0

Queue(t, o) ==
    /\ \A m \in Mounts : t.busy[m] = o.n[m] + Count(t.moves, Counted(m))
    /\ t.shots + o.x = IF t.pending THEN 1 ELSE 0
    /\ o.g > 0 \/ Count(t.moves, GuideMoves) > 0 => t.client.guiding
    /\ o.x > 0 => \A i \in DOMAIN t.moves : t.moves[i] \notin FrameMoves
    /\ \A i \in DOMAIN t.moves : t.moves[i].kind # "bump"
    /\ "pending exposure" \notin t.failed /\ "request count" \notin t.failed

Guided(t) == t.gs = "GUIDING" => t.client.guiding
Core(t, o) ==
    /\ Rec(t) /\ Typed(t)
    /\ Capturing(t) /\ AnswersKept(t) /\ Trying(t) /\ DecKept(t) /\ Told(t) /\ Queue(t, o)
Good(t, o) == Core(t, o) /\ Ready(t) /\ Guided(t)

\* Fields that only have a type, the guider's and the controller's.
Loose == {"image", "camera", "single", "pause", "op", "force", "late", "step"}
GuiderFields == {"gs", "star", "lock", "cal"}
CtlFields == {"client", "ctl", "op", "force", "late", "attempts", "waits", "override",
              "dec", "saveDec"}

\* A step that changes the guider's fields, and those that only have a type, keeps
\* what does not speak of the guider.
LEMMA GuiderOnly ==
    ASSUME NEW t, NEW u, NEW o, Core(t, o), Rec(u), Typed(u), Told(u),
           Same(t, u, Loose \cup GuiderFields)
    PROVE  Core(u, o)
  <1>1. Capturing(u)
    BY DEF Core, Capturing, Same, Fields, Loose, GuiderFields
  <1>2. AnswersKept(u)
    BY DEF Core, AnswersKept, Same, Fields, Loose, GuiderFields
  <1>3. Trying(u)
    BY DEF Core, Trying, Same, Fields, Loose, GuiderFields
  <1>4. DecKept(u)
    BY DEF Core, DecKept, Same, Fields, Loose, GuiderFields
  <1>5. Queue(u, o)
    BY DEF Core, Queue, Same, Fields, Loose, GuiderFields
  <1> QED BY <1>1, <1>2, <1>3, <1>4, <1>5 DEF Core

\* A step that changes fields that only have a type keeps everything.
LEMMA LooseOnly ==
    ASSUME NEW t, NEW u, NEW o, Good(t, o), Rec(u), Typed(u), Same(t, u, Loose)
    PROVE  Good(u, o)
  <1>1. Told(u)
    BY DEF Good, Core, Told, AllCalibrated, IsCalibratingOrGuiding, MountsIdle, Same,
           Fields, Loose
  <1>2. Core(u, o)
    BY <1>1, GuiderOnly DEF Good, Same
  <1>3. Ready(u)
    BY DEF Good, Ready, ValidStar, AllCalibrated, Same, Fields, Loose
  <1>4. Guided(u)
    BY DEF Good, Guided, Same, Fields, Loose
  <1> QED BY <1>2, <1>3, <1>4 DEF Good

\* A step of the controller, or news that leaves guiding alone, keeps what does not
\* speak of the controller.
LEMMA CtlOnly ==
    ASSUME NEW t, NEW u, NEW o, Core(t, o), Rec(u), Typed(u),
           Same(t, u, Loose \cup CtlFields), u.client.guiding = t.client.guiding,
           AnswersKept(u), Trying(u), DecKept(u), Told(u)
    PROVE  /\ Core(u, o)
           /\ Ready(t) => Ready(u)
           /\ Guided(t) => Guided(u)
  <1>1. Capturing(u)
    BY DEF Core, Capturing, Same, Fields, Loose, CtlFields
  <1>5. Queue(u, o)
    BY DEF Core, Queue, Same, Fields, Loose, CtlFields
  <1>2. Ready(t) => Ready(u)
    BY DEF Ready, ValidStar, AllCalibrated, Same, Fields, Loose, CtlFields
  <1>3. Guided(t) => Guided(u)
    BY DEF Guided, Same, Fields, Loose, CtlFields
  <1> QED BY <1>1, <1>2, <1>3, <1>5 DEF Core

-------------------------------------------------------------------------------
(* What a listener hears.                                                  *)

Neutral == {"StartCalibration", "LoopingExposures", "LoopingStopped", "StarLost",
            "Paused", "Resumed"}

\* News a listener keeps nothing of.
LEMMA HearNeutral == ASSUME NEW c, NEW e \in Neutral PROVE Hear(c, e) = c
  BY DEF Hear, Neutral

\* Telling such news changes nothing in the record (EvtServer.Notify...).
LEMMA TellNeutral ==
    ASSUME NEW t, Rec(t), NEW e \in Neutral PROVE Tell(t, e) = t
  <1>1. Hear(t.client, e) = t.client
    BY HearNeutral
  <1> QED BY <1>1 DEF Tell, Rec, Fields

\* News of guiding changes whether guiding is known, and a guide step is in turn while
\* it is.
LEMMA HearGuiding ==
    ASSUME NEW c \in Listeners
    PROVE  /\ Hear(c, "StartGuiding") \in Listeners
           /\ Hear(c, "StartGuiding").guiding = TRUE
           /\ Hear(c, "GuidingStopped") \in Listeners
           /\ Hear(c, "GuidingStopped").guiding = FALSE
           /\ \A e \in {"StartGuiding", "GuidingStopped"} :
                 /\ Hear(c, e).settling = c.settling /\ Hear(c, e).owed = c.owed
                 /\ Hear(c, e).outOfTurn = c.outOfTurn
  BY DEF Hear, Listeners

\* News of settling is in turn when the controller is in the middle of it.
LEMMA HearSettling ==
    ASSUME NEW c \in Listeners, ~c.outOfTurn
    PROVE  /\ LET d == Hear(c, "SettleBegin")
              IN /\ d \in Listeners /\ d.guiding = c.guiding /\ d.owed = c.owed
                 /\ d.settling = TRUE /\ (~c.settling => ~d.outOfTurn)
           /\ LET d == Hear(c, "Settling")
              IN /\ d \in Listeners /\ d.guiding = c.guiding /\ d.owed = c.owed
                 /\ d.settling = c.settling /\ (c.settling => ~d.outOfTurn)
           /\ LET d == Hear(c, "GuideStep")
              IN /\ d \in Listeners /\ d.guiding = c.guiding /\ d.owed = c.owed
                 /\ d.settling = c.settling /\ (c.guiding => ~d.outOfTurn)
  <1>1. /\ Hear(c, "SettleBegin") = [c EXCEPT !.settling = TRUE,
                                              !.outOfTurn = c.outOfTurn \/ c.settling]
        /\ Hear(c, "Settling") = [c EXCEPT !.outOfTurn = c.outOfTurn \/ ~c.settling]
        /\ Hear(c, "GuideStep") = [c EXCEPT !.outOfTurn = c.outOfTurn \/ ~c.guiding]
    BY DEF Hear
  <1>2. c.outOfTurn = FALSE /\ c.settling \in BOOLEAN /\ c.guiding \in BOOLEAN
    BY DEF Listeners
  <1> QED BY <1>1, <1>2 DEF Listeners

\* An answer takes one off what is owed and ends settling.
LEMMA HearAnswer ==
    ASSUME NEW c \in Listeners, ~c.outOfTurn, c.owed = 1,
           NEW e \in {"SettleDone", "SettleFailed"}, e = "SettleDone" => c.settling
    PROVE  /\ Hear(c, e) \in Listeners /\ Hear(c, e).guiding = c.guiding
           /\ Hear(c, e).owed = 0 /\ Hear(c, e).settling = FALSE
           /\ ~Hear(c, e).outOfTurn
  <1>1. Hear(c, e) = [c EXCEPT !.settling = FALSE, !.owed = c.owed - 1,
                               !.outOfTurn = c.outOfTurn \/ c.owed = 0
                                             \/ (e = "SettleDone" /\ ~c.settling)]
    BY DEF Hear
  <1>2. c.outOfTurn = FALSE /\ c.owed - 1 = 0 /\ ~(c.owed = 0)
    BY DEF Listeners
  <1>3. (c.outOfTurn \/ c.owed = 0 \/ (e = "SettleDone" /\ ~c.settling)) = FALSE
    BY <1>2
  <1>4. Hear(c, e) = [c EXCEPT !.settling = FALSE, !.owed = 0, !.outOfTurn = FALSE]
    BY <1>1, <1>2, <1>3
  <1>5. Hear(c, e) = [guiding |-> c.guiding, settling |-> FALSE, owed |-> 0,
                      outOfTurn |-> FALSE]
    BY <1>4 DEF Listeners
  <1>6. c.guiding \in BOOLEAN
    BY DEF Listeners
  <1> QED BY <1>5, <1>6 DEF Listeners

-------------------------------------------------------------------------------
(* What the frame schedules.                                               *)

\* Scheduling an exposure while none is pending keeps the invariant
\* (MyFrame::ScheduleExposure).
LEMMA ExposureGood ==
    ASSUME NEW t, NEW o, Outer(o), Good(t, o), ~t.pending, t.capture
    PROVE  LET u == ScheduleExposure(t)
           IN Good(u, o) /\ Same(t, u, {"pending", "shots"}) /\ u.pending = TRUE
  <1> DEFINE u == ScheduleExposure(t)
  <1>1. /\ Rec(u) /\ u.pending = TRUE /\ u.shots = t.shots + 1
        /\ Same(t, u, {"pending", "shots"})
    BY DEF ScheduleExposure, Check, Good, Core, Rec, Same, Fields
  <1> HIDE DEF u
  <1>2. t.shots \in Nat
    BY DEF Good, Core, Typed
  <1>3. Typed(u)
    <2>1. u.shots \in Nat
      BY <1>1, <1>2
    <2>2. u.pending \in BOOLEAN
      BY <1>1
    <2> QED BY <1>1, <2>1, <2>2 DEF Good, Core, Typed, Same, Fields
  <1>4. Capturing(u)
    BY <1>1 DEF Good, Core, Capturing, Same, Fields
  <1>5. AnswersKept(u) /\ Trying(u) /\ DecKept(u) /\ Guided(u)
    BY <1>1 DEF Good, Core, AnswersKept, Trying, DecKept, Guided, Same, Fields
  <1>6. Told(u)
    BY <1>1 DEF Good, Core, Told, AllCalibrated, IsCalibratingOrGuiding, MountsIdle,
                Same, Fields
  <1>7. Ready(u)
    BY <1>1 DEF Good, Ready, ValidStar, AllCalibrated, Same, Fields
  <1>8. Queue(u, o)
    <2>1. u.shots + o.x = 1
      <3>1. t.shots + o.x = 0
        BY DEF Good, Core, Queue
      <3> QED BY <1>1, <1>2, <3>1 DEF Outer
    <2>2. Queue(t, o)
      BY DEF Good, Core
    <2> QED BY <1>1, <2>1, <2>2 DEF Queue, Same, Fields
  <1> QED BY <1>1, <1>3, <1>4, <1>5, <1>6, <1>7, <1>8 DEF Good, Core, u

\* Capturing that goes on is left alone, and otherwise there is an exposure.
LEMMA StartCapturingGood ==
    ASSUME NEW t, NEW o, Outer(o), Good(t, o)
    PROVE  LET u == StartCapturing(t)
           IN /\ Good(u, o) /\ Same(t, u, {"capture", "cont", "pending", "shots"})
              /\ u.capture
              /\ t.capture => u = t
              /\ ~t.capture => u.pending
  <1> DEFINE d == [t EXCEPT !.capture = TRUE, !.cont = ~t.single \/ t.cont]
  <1>1. CASE t.capture
    BY <1>1 DEF StartCapturing, Same
  <1>2. CASE ~t.capture
    <2>1. /\ Rec(d) /\ d.capture = TRUE /\ d.cont = (~t.single \/ t.cont)
          /\ Same(t, d, {"capture", "cont"})
      BY DEF Good, Core, Rec, Same, Fields
    <2>2. ~d.pending
      BY <1>2, <2>1 DEF Good, Core, Capturing, Same, Fields
    <2>3. StartCapturing(t) = ScheduleExposure(d)
      BY <1>2, <2>2 DEF StartCapturing
    <2> HIDE DEF d
    <2>4. Typed(d)
      <3>1. d.cont \in BOOLEAN
        BY <2>1
      <3> QED BY <2>1, <3>1 DEF Good, Core, Typed, Same, Fields
    <2>5. Capturing(d)
      BY <2>1 DEF Capturing
    <2>6. AnswersKept(d) /\ Trying(d) /\ DecKept(d) /\ Guided(d)
      BY <2>1 DEF Good, Core, AnswersKept, Trying, DecKept, Guided, Same, Fields
    <2>7. Told(d)
      BY <2>1 DEF Good, Core, Told, AllCalibrated, IsCalibratingOrGuiding, MountsIdle,
                  Same, Fields
    <2>8. Ready(d)
      BY <2>1 DEF Good, Ready, ValidStar, AllCalibrated, Same, Fields
    <2>9. Queue(d, o)
      BY <2>1 DEF Good, Core, Queue, Same, Fields
    <2>10. Good(d, o)
      BY <2>1, <2>4, <2>5, <2>6, <2>7, <2>8, <2>9 DEF Good, Core
    <2>11. LET u == ScheduleExposure(d)
           IN Good(u, o) /\ Same(d, u, {"pending", "shots"}) /\ u.pending = TRUE
      BY <2>1, <2>2, <2>10, ExposureGood
    <2> QED BY <1>2, <2>1, <2>3, <2>11 DEF Same, Fields
  <1> QED BY <1>1, <1>2

\* The mounts of an instance.
LEMMA MountNames ==
    /\ "scope" \in Mounts /\ Primary \in Mounts
    /\ HasAO => Primary = "ao" /\ Mounts = {"ao", "scope"}
    /\ ~HasAO => Primary = "scope" /\ Mounts = {"scope"}
  BY SessionAssumption DEF Mounts, Primary

\* A move is added to the queue and, if it is not a manual one, counted.
LEMMA MoveGood ==
    ASSUME NEW t, NEW o, Outer(o), Good(t, o), NEW m \in Mounts,
           NEW kind \in MoveKinds \ {"bump"},
           kind # "manual" => o.x = 0 /\ t.busy[m] < 2,
           kind \in {"step", "deduced"} => t.client.guiding
    PROVE  LET u == ScheduleMove(t, m, kind)
           IN /\ Good(u, o) /\ Same(t, u, {"busy", "moves"})
              /\ u.busy = IF kind = "manual" THEN t.busy
                          ELSE [t.busy EXCEPT ![m] = @ + 1]
  <1> DEFINE u == ScheduleMove(t, m, kind)
             w == [mount |-> m, kind |-> kind]
  <1>1. /\ Rec(u) /\ Same(t, u, {"busy", "moves"})
        /\ u.moves = Append(t.moves, w)
        /\ u.busy = IF kind = "manual" THEN t.busy ELSE [t.busy EXCEPT ![m] = @ + 1]
    BY ZenonT(60) DEF ScheduleMove, IncrementRequestCount, Check, Good, Core, Rec, Same, Fields
  <1>2. w \in Moves /\ t.moves \in Seq(Moves) /\ t.busy \in [Mounts -> Nat]
    BY DEF Moves, Good, Core, Typed
  <1>3. /\ \A m2 \in Mounts : w \in Counted(m2) <=> m2 = m /\ kind # "manual"
        /\ w \in GuideMoves <=> kind \in {"step", "deduced"}
        /\ w \in FrameMoves => kind # "manual"
        /\ w.kind = kind
    BY <1>2 DEF Counted, GuideMoves, FrameMoves, MoveKinds
  <1> HIDE DEF u, w
  <1>4. Typed(u)
    <2>1. u.moves \in Seq(Moves)
      BY <1>1, <1>2
    <2>2. u.busy \in [Mounts -> Nat]
      BY <1>1, <1>2
    <2> QED BY <1>1, <2>1, <2>2 DEF Good, Core, Typed, Same, Fields
  <1>5. Capturing(u) /\ AnswersKept(u) /\ Trying(u) /\ DecKept(u) /\ Guided(u)
    BY <1>1 DEF Good, Core, Capturing, AnswersKept, Trying, DecKept, Guided, Same, Fields
  <1>6. Told(u)
    <2>1. MountsIdle(u) => MountsIdle(t)
      <3>1. \A k \in Mounts : u.busy[k] = 0 => t.busy[k] = 0
        BY <1>1, <1>2
      <3> QED BY <3>1 DEF MountsIdle
    <2> QED BY <1>1, <2>1 DEF Good, Core, Told, AllCalibrated, IsCalibratingOrGuiding,
                              Same, Fields
  <1>7. Ready(u)
    BY <1>1 DEF Good, Ready, ValidStar, AllCalibrated, Same, Fields
  <1>8. Queue(u, o)
    <2>1. \A W : Count(u.moves, W) = Count(t.moves, W) + IF w \in W THEN 1 ELSE 0
      BY <1>1, <1>2, CountAppend
    <2>2. \A W : Count(t.moves, W) \in Nat
      BY <1>2, CountSets
    <2>3. \A m2 \in Mounts : u.busy[m2] = o.n[m2] + Count(u.moves, Counted(m2))
      <3> SUFFICES ASSUME NEW m2 \in Mounts
                   PROVE  u.busy[m2] = o.n[m2] + Count(u.moves, Counted(m2))
        OBVIOUS
      <3>1. t.busy[m2] = o.n[m2] + Count(t.moves, Counted(m2)) /\ o.n[m2] \in Nat
        BY DEF Good, Core, Queue, Outer
      <3>2. u.busy[m2] = t.busy[m2] + IF m2 = m /\ kind # "manual" THEN 1 ELSE 0
        BY <1>1, <1>2
      <3>3. Count(u.moves, Counted(m2))
              = Count(t.moves, Counted(m2)) + IF m2 = m /\ kind # "manual" THEN 1 ELSE 0
        BY <1>3, <2>1
      <3> HIDE DEF Counted
      <3> QED BY <2>2, <3>1, <3>2, <3>3
    <2>4. t.shots + o.x = (IF t.pending THEN 1 ELSE 0) /\ u.shots = t.shots
          /\ u.pending = t.pending /\ u.failed = t.failed /\ u.client = t.client
          /\ "pending exposure" \notin t.failed /\ "request count" \notin t.failed
      BY <1>1 DEF Good, Core, Queue, Same, Fields
    <2>5. o.g > 0 \/ Count(u.moves, GuideMoves) > 0 => u.client.guiding
      <3>1. o.g > 0 \/ Count(t.moves, GuideMoves) > 0 => t.client.guiding
        BY DEF Good, Core, Queue
      <3>2. CASE kind \in {"step", "deduced"}
        BY <2>4, <3>2
      <3>3. CASE kind \notin {"step", "deduced"}
        <4>1. Count(u.moves, GuideMoves) = Count(t.moves, GuideMoves)
          BY <1>3, <2>1, <2>2, <3>3
        <4> QED BY <2>4, <3>1, <4>1
      <3> QED BY <3>2, <3>3
    <2>6. \A i \in DOMAIN u.moves : \/ i \in DOMAIN t.moves /\ u.moves[i] = t.moves[i]
                                  \/ u.moves[i] = w
      BY <1>1, <1>2
    <2>7. \A i \in DOMAIN u.moves : u.moves[i].kind # "bump"
      <3>1. \A i \in DOMAIN t.moves : t.moves[i].kind # "bump"
        BY DEF Good, Core, Queue
      <3> QED BY <1>3, <2>6, <3>1
    <2>8. o.x > 0 => \A i \in DOMAIN u.moves : u.moves[i] \notin FrameMoves
      <3>1. o.x > 0 => \A i \in DOMAIN t.moves : t.moves[i] \notin FrameMoves
        BY DEF Good, Core, Queue
      <3>2. o.x > 0 => kind = "manual"
        OBVIOUS
      <3> QED BY <1>3, <2>6, <3>1, <3>2
    <2> QED BY <2>3, <2>4, <2>5, <2>7, <2>8 DEF Queue
  <1> QED BY <1>1, <1>4, <1>5, <1>6, <1>7, <1>8 DEF Good, Core, u

-------------------------------------------------------------------------------
(* The end of a controller operation, and the end of guiding.              *)

\* What an operator that ends or goes on with an operation leaves of the rest.
LEMMA FinishGood ==
    ASSUME NEW t, NEW o, Core(t, o), t.ctl # "IDLE",
           NEW u, Rec(u), Typed(u), Same(t, u, {"attempts"}),
           NEW e \in {"SettleDone", "SettleFailed"},
           e = "SettleDone" => t.ctl = "SETTLE_WAIT"
    PROVE  LET d == Finish(u, e)
           IN /\ Core(d, o) /\ Same(t, d, CtlFields) /\ d.ctl = "IDLE"
              /\ Ready(t) => Ready(d)
              /\ Guided(t) => Guided(d)
              /\ d.client.guiding = t.client.guiding
  <1> DEFINE d == Finish(u, e)
  <1>1. /\ Rec(d) /\ Same(u, d, CtlFields)
        /\ d.dec = (IF u.override THEN u.saveDec ELSE u.dec)
        /\ d.override = FALSE /\ d.ctl = "IDLE" /\ d.op = "none" /\ d.force = FALSE
        /\ d.late = FALSE /\ d.attempts = 0 /\ d.waits = 0 /\ d.saveDec = UserDecMode
        /\ d.client = Hear(u.client, e)
    BY ZenonT(60) DEF Finish, Tell, Rec, Same, Fields, CtlFields
  <1> HIDE DEF d
  <1>2. Same(t, d, CtlFields)
    BY <1>1 DEF Same, Fields, CtlFields
  <1>3. /\ u.client = t.client /\ u.dec = t.dec /\ u.override = t.override
        /\ u.saveDec = t.saveDec
    BY DEF Same, Fields
  <1>4. /\ t.client \in Listeners /\ ~t.client.outOfTurn /\ t.client.owed = 1
        /\ t.client.settling = (t.ctl = "SETTLE_WAIT")
    BY DEF Core, Typed, AnswersKept
  <1>5. /\ d.client \in Listeners /\ d.client.guiding = t.client.guiding
        /\ d.client.owed = 0 /\ d.client.settling = FALSE /\ ~d.client.outOfTurn
    <2>1. d.client = Hear(t.client, e)
      BY <1>1, <1>3
    <2>2. e = "SettleDone" => t.client.settling
      BY <1>4
    <2>3. t.client \in Listeners /\ ~t.client.outOfTurn /\ t.client.owed = 1
      BY <1>4
    <2>4. /\ Hear(t.client, e) \in Listeners
          /\ Hear(t.client, e).guiding = t.client.guiding
          /\ Hear(t.client, e).owed = 0 /\ Hear(t.client, e).settling = FALSE
          /\ ~Hear(t.client, e).outOfTurn
      BY <2>2, <2>3, HearAnswer
    <2> QED BY <2>1, <2>4
  <1>6. d.dec = UserDecMode
    BY <1>1, <1>3 DEF Core, DecKept
  <1>7. Typed(d)
    <2>1. UserDecMode \in DecModes
      BY SessionAssumption
    <2>2. d.ctl \in ControllerStates /\ d.op \in {"none", "guide", "dither", "compat"}
      BY <1>1 DEF ControllerStates
    <2>3. d.attempts \in 0..3 /\ d.waits \in 0..3
      BY <1>1
    <2>4. d.override \in BOOLEAN /\ d.force \in BOOLEAN /\ d.late \in BOOLEAN
      BY <1>1
    <2>5. d.dec \in DecModes /\ d.saveDec \in DecModes
      BY <1>1, <1>6, <2>1
    <2>6. \A f \in Fields \ CtlFields : d[f] = u[f]
      BY <1>1 DEF Same
    <2> QED BY <1>5, <2>2, <2>3, <2>4, <2>5, <2>6 DEF Typed, Fields, CtlFields
  <1>8. AnswersKept(d)
    BY <1>1, <1>5 DEF AnswersKept
  <1>9. Trying(d) /\ DecKept(d)
    BY <1>1, <1>6 DEF Trying, DecKept
  <1>10. Told(d)
    BY <1>1, <1>2, <1>5 DEF Core, Told, AllCalibrated, IsCalibratingOrGuiding, MountsIdle,
                            Same, Fields, CtlFields
  <1>11. Same(t, d, Loose \cup CtlFields)
    BY <1>2 DEF Same
  <1> QED BY <1>1, <1>2, <1>5, <1>7, <1>8, <1>9, <1>10, <1>11, CtlOnly DEF d

\* Aborting the controller answers the operation and restores the Dec guide mode
\* (PhdController::AbortController).
LEMMA AbortGood ==
    ASSUME NEW t, NEW o, Core(t, o)
    PROVE  LET d == AbortController(t)
           IN /\ Core(d, o) /\ Same(t, d, CtlFields) /\ d.ctl = "IDLE"
              /\ Ready(t) => Ready(d)
              /\ Guided(t) => Guided(d)
              /\ d.client.guiding = t.client.guiding
  <1>1. CASE t.ctl = "IDLE"
    BY <1>1 DEF AbortController, Same
  <1>2. CASE t.ctl # "IDLE"
    <2>1. Rec(t) /\ Typed(t) /\ Same(t, t, {"attempts"})
      BY DEF Core, Same
    <2>2. AbortController(t) = Finish(t, "SettleFailed")
      BY <1>2 DEF AbortController
    <2> QED BY <1>2, <2>1, <2>2, FinishGood
  <1> QED BY <1>1, <1>2

\* Whether anybody waits to be told of the end of guiding is left open.
Bare(t, o) ==
    /\ Rec(t) /\ Typed(t)
    /\ Capturing(t) /\ AnswersKept(t) /\ Trying(t) /\ DecKept(t) /\ Queue(t, o)
    /\ Commands \cap Silent = {} => t.ctl \in {"IDLE", "SETTLE_BEGIN", "SETTLE_WAIT"}

\* With no move outstanding, none is on its way.
LEMMA IdleNothing ==
    ASSUME NEW t, NEW o, Outer(o), Bare(t, o), MountsIdle(t)
    PROVE  o.g = 0 /\ Count(t.moves, GuideMoves) = 0
  <1>1. t.moves \in Seq(Moves)
    BY DEF Bare, Typed
  <1>2. \A m \in Mounts : /\ o.n[m] \in Nat /\ Count(t.moves, Counted(m)) \in Nat
                          /\ 0 = o.n[m] + Count(t.moves, Counted(m))
    BY <1>1, CountSets DEF Bare, Queue, MountsIdle, Outer
  <1>3. \A m \in Mounts : o.n[m] = 0 /\ Count(t.moves, Counted(m)) = 0
    BY <1>2
  <1>4. o.g = 0
    BY <1>3 DEF Outer
  <1>5. \A m \in Mounts : \A i \in DOMAIN t.moves : t.moves[i] \notin Counted(m)
    BY <1>1, <1>3, CountPositive
  <1>6. \A i \in DOMAIN t.moves : t.moves[i] \notin GuideMoves
    BY <1>5 DEF GuideMoves, Counted, Moves
  <1> QED BY <1>1, <1>4, <1>6, CountPositive

\* With no move outstanding the end of guiding is told, and the controller goes idle
\* (EvtServer.NotifyGuidingStopped).
LEMMA StoppedGood ==
    ASSUME NEW t, NEW o, Outer(o), Bare(t, o), MountsIdle(t)
    PROVE  LET d == NotifyGuidingStopped(t)
           IN /\ Core(d, o) /\ Same(t, d, CtlFields) /\ d.ctl = "IDLE"
              /\ Ready(t) => Ready(d)
              /\ d.client.guiding = FALSE
  <1> DEFINE u == Tell(t, "GuidingStopped")
  <1>1. Rec(u) /\ Same(t, u, {"client"}) /\ u.client = Hear(t.client, "GuidingStopped")
    BY DEF Tell, Bare, Rec, Same, Fields
  <1> HIDE DEF u
  <1>2. /\ u.client \in Listeners /\ u.client.guiding = FALSE
        /\ u.client.settling = t.client.settling /\ u.client.owed = t.client.owed
        /\ u.client.outOfTurn = t.client.outOfTurn
    BY <1>1, HearGuiding DEF Bare, Typed
  <1>3. Typed(u)
    BY <1>1, <1>2 DEF Bare, Typed, Same, Fields
  <1>4. Capturing(u) /\ Trying(u) /\ DecKept(u)
    BY <1>1 DEF Bare, Capturing, Trying, DecKept, Same, Fields
  <1>5. AnswersKept(u)
    BY <1>1, <1>2 DEF Bare, AnswersKept, Same, Fields
  <1>6. Told(u)
    BY <1>1, <1>2 DEF Bare, Told, Same, Fields
  <1>7. Queue(u, o)
    <2>1. ~(o.g > 0 \/ Count(t.moves, GuideMoves) > 0)
      BY IdleNothing
    <2>2. u.moves = t.moves /\ u.busy = t.busy /\ u.shots = t.shots
          /\ u.pending = t.pending /\ u.failed = t.failed
      BY <1>1 DEF Same, Fields
    <2> QED BY <2>1, <2>2 DEF Bare, Queue
  <1>8. Core(u, o)
    BY <1>1, <1>3, <1>4, <1>5, <1>6, <1>7 DEF Core
  <1>9. Ready(t) => Ready(u)
    BY <1>1 DEF Ready, ValidStar, AllCalibrated, Same, Fields
  <1>10. LET d == AbortController(u)
         IN /\ Core(d, o) /\ Same(u, d, CtlFields) /\ d.ctl = "IDLE"
            /\ Ready(u) => Ready(d)
            /\ d.client.guiding = u.client.guiding
    BY <1>8, AbortGood
  <1>11. NotifyGuidingStopped(t) = AbortController(u)
    BY DEF NotifyGuidingStopped, u
  <1> QED BY <1>1, <1>2, <1>9, <1>10, <1>11 DEF Same, CtlFields

-------------------------------------------------------------------------------
(* SetState.                                                               *)

\* Nobody is told of guiding that has stopped, or a last move will tell it.
Quiet(t) == Commands \cap Silent = {} => (t.client.guiding => ~MountsIdle(t))

\* Any step of the guider that leaves it neither calibrating nor guiding.
LEMMA SelectingGood ==
    ASSUME NEW t, NEW o, Core(t, o), Quiet(t), NEW u, Rec(u), Typed(u),
           u.gs \in {"SELECTING", "SELECTED"}, Same(t, u, {"gs", "star", "lock"})
    PROVE  Good(u, o)
  <1>1. Told(u)
    BY DEF Core, Told, Quiet, AllCalibrated, MountsIdle, Same, Fields
  <1>2. Core(u, o)
    BY <1>1, GuiderOnly DEF Same, GuiderFields
  <1>3. Ready(u) /\ Guided(u)
    BY DEF Ready, Guided
  <1> QED BY <1>2, <1>3 DEF Good

\* A guider that forgets its star selects one again (Guider::SetState).
LEMMA UninitializeGood ==
    ASSUME NEW t, NEW o, Core(t, o), Quiet(t)
    PROVE  LET u == Uninitialize(t) IN
           /\ Good(u, o) /\ Same(t, u, {"gs", "star", "lock"}) /\ u.gs = "SELECTING"
  <1> DEFINE u == Uninitialize(t)
  <1>1. /\ Rec(u) /\ Same(t, u, {"gs", "star", "lock"}) /\ u.gs = "SELECTING"
        /\ u.lock = FALSE /\ u.star \in {t.star, "stale"}
    BY DEF Uninitialize, InvalidateCurrentPosition, Core, Rec, Same, Fields
  <1> HIDE DEF u
  <1>2. Typed(u)
    BY <1>1 DEF Core, Typed, GuiderStates, Same, Fields
  <1>3. Good(u, o)
    BY <1>1, <1>2, SelectingGood
  <1> QED BY <1>1, <1>3 DEF u

\* Dropping the star keeps the invariant (a click with shift).
LEMMA DropStarGood ==
    ASSUME NEW t, NEW o, Good(t, o), t.gs \in {"SELECTING", "SELECTED"}
    PROVE  Good(DropStar(t), o) /\ Same(t, DropStar(t), {"star"})
  <1> DEFINE u == DropStar(t)
  <1>1. Rec(u) /\ Same(t, u, {"star"}) /\ u.star = "none"
    BY DEF DropStar, Good, Core, Rec, Same, Fields
  <1> HIDE DEF u
  <1>2. Typed(u) /\ u.gs = t.gs
    BY <1>1 DEF Good, Core, Typed, Same, Fields
  <1>3. Quiet(t)
    BY DEF Good, Core, Told, Quiet, IsCalibratingOrGuiding
  <1>4. Same(t, u, {"gs", "star", "lock"})
    BY <1>1 DEF Same
  <1> QED BY <1>1, <1>2, <1>3, <1>4, SelectingGood DEF Good, u

\* Guider::Reset with its full reset keeps the invariant.
LEMMA FullResetGood ==
    ASSUME NEW t, NEW o, Core(t, o), Quiet(t)
    PROVE  LET u == FullReset(t) IN
           /\ Good(u, o) /\ Same(t, u, {"gs", "star", "lock"}) /\ u.gs = "SELECTING"
  <1> DEFINE d == Uninitialize(t)
  <1>1. /\ Good(d, o) /\ Same(t, d, {"gs", "star", "lock"}) /\ d.gs = "SELECTING"
    BY UninitializeGood
  <1> HIDE DEF d
  <1>2. Good(DropStar(d), o) /\ Same(d, DropStar(d), {"star"})
    BY <1>1, DropStarGood
  <1>3. FullReset(t) = DropStar(d)
    BY DEF FullReset, d
  <1> QED BY <1>1, <1>2, <1>3 DEF Same, Fields

\* A guider that stops keeps its star or selects one again (Guider::StopGuiding).
LEMMA StopStateGood ==
    ASSUME NEW t, NEW o, Core(t, o), Quiet(t)
    PROVE  LET u == StopState(t) IN
           /\ Good(u, o) /\ Same(t, u, {"gs", "star", "lock"})
           /\ u.gs \in {"SELECTING", "SELECTED"}
  <1> DEFINE d == [t EXCEPT !.gs = "SELECTED"]
  <1>1. CASE t.gs \in {"SELECTING", "SELECTED"}
    <2>1. StopState(t) = t
      BY <1>1 DEF StopState
    <2>2. Ready(t) /\ Guided(t)
      BY <1>1 DEF Ready, Guided
    <2> QED BY <1>1, <2>1, <2>2 DEF Good, Same
  <1>2. CASE t.gs \in {"CAL_PRIMARY", "CAL_SECONDARY"}
    <2>1. StopState(t) = Uninitialize(t)
      BY <1>2 DEF StopState
    <2> QED BY <2>1, UninitializeGood
  <1>3. CASE t.gs \in {"CALIBRATED", "GUIDING"}
    <2>1. StopState(t) = d
      BY <1>3 DEF StopState
    <2>2. Rec(d) /\ Same(t, d, {"gs"}) /\ d.gs = "SELECTED"
      BY DEF Core, Rec, Same, Fields
    <2> HIDE DEF d
    <2>3. Typed(d)
      BY <2>2 DEF Core, Typed, GuiderStates, Same, Fields
    <2>4. Same(t, d, {"gs", "star", "lock"})
      BY <2>2 DEF Same
    <2> QED BY <2>1, <2>2, <2>3, <2>4, SelectingGood
  <1> QED BY <1>1, <1>2, <1>3 DEF Core, Typed, GuiderStates

\* What StopGuiding may change.
StopFields == CtlFields \cup {"gs", "star", "lock"}

\* Guider::StopGuiding ends calibration or guiding and tells it, at once or with the
\* last move.
LEMMA StopGuidingGood ==
    ASSUME NEW t, NEW o, Outer(o), Core(t, o)
    PROVE  LET u == StopGuiding(t) IN
           /\ Good(u, o) /\ Same(t, u, StopFields) /\ u.gs \in {"SELECTING", "SELECTED"}
           /\ u.ctl \in {t.ctl, "IDLE"}
  <1> DEFINE d == NotifyGuidingStopped(t)
  <1>1. CASE IsCalibratingOrGuiding(t) /\ MountsIdle(t)
    <2>1. Core(d, o) /\ Same(t, d, CtlFields) /\ d.ctl = "IDLE" /\ d.client.guiding = FALSE
      BY <1>1, StoppedGood DEF Core, Bare, Told
    <2>2. StopGuiding(t) = StopState(d)
      BY <1>1 DEF StopGuiding
    <2> HIDE DEF d
    <2>3. Quiet(d)
      BY <2>1 DEF Quiet
    <2>4. LET u == StopState(d) IN
          /\ Good(u, o) /\ Same(d, u, {"gs", "star", "lock"})
          /\ u.gs \in {"SELECTING", "SELECTED"}
      BY <2>1, <2>3, StopStateGood
    <2> QED BY <2>1, <2>2, <2>4 DEF Same, Fields, StopFields, CtlFields
  <1>2. CASE ~(IsCalibratingOrGuiding(t) /\ MountsIdle(t))
    <2>1. StopGuiding(t) = StopState(t)
      BY <1>2 DEF StopGuiding
    <2>2. Quiet(t)
      BY <1>2 DEF Core, Told, Quiet
    <2>3. LET u == StopState(t) IN
          /\ Good(u, o) /\ Same(t, u, {"gs", "star", "lock"})
          /\ u.gs \in {"SELECTING", "SELECTED"}
      BY <2>2, StopStateGood
    <2> QED BY <2>1, <2>3 DEF Same, Fields, StopFields, CtlFields
  <1> QED BY <1>1, <1>2

\* Any step that puts the guider into a state before guiding.
LEMMA StateGood ==
    ASSUME NEW t, NEW o, Core(t, o), NEW g \in {"CAL_PRIMARY", "CAL_SECONDARY", "CALIBRATED"},
           g = "CALIBRATED" => AllCalibrated(t),
           g = "CAL_SECONDARY" => t.cal[Primary]
    PROVE  LET u == [t EXCEPT !.gs = g] IN
           /\ Good(u, o) /\ Same(t, u, {"gs"}) /\ u.gs = g
  <1> DEFINE u == [t EXCEPT !.gs = g]
  <1>1. Rec(u) /\ Same(t, u, {"gs"}) /\ u.gs = g
    BY DEF Core, Rec, Same, Fields
  <1> HIDE DEF u
  <1>2. Typed(u)
    BY <1>1 DEF Core, Typed, GuiderStates, Same, Fields
  <1>3. Told(u)
    BY <1>1 DEF Core, Told, AllCalibrated, IsCalibratingOrGuiding, Same, Fields
  <1>4. Core(u, o)
    BY <1>1, <1>2, <1>3, GuiderOnly DEF Same, GuiderFields
  <1>5. Ready(u) /\ Guided(u)
    BY <1>1 DEF Ready, Guided, AllCalibrated, Same, Fields
  <1> QED BY <1>1, <1>4, <1>5 DEF Good, u

\* A calibration begins on the mount it is asked for, or the guider selects a star again
\* (Guider::SetState).
LEMMA BeginCalibrationGood ==
    ASSUME NEW t, NEW o, Core(t, o), ~AllCalibrated(t),
           NEW r \in {"CAL_PRIMARY", "CAL_SECONDARY"}, r = "CAL_SECONDARY" => t.cal[Primary]
    PROVE  LET u == BeginCalibration(t, r) IN
           /\ Good(u, o) /\ Same(t, u, {"gs", "star", "lock"}) /\ u.gs \in {"SELECTING", r}
  <1> DEFINE d == [t EXCEPT !.gs = r]
  <1>1. CASE ValidStar(t)
    <2>1. Good(d, o) /\ Same(t, d, {"gs"}) /\ d.gs = r
      BY StateGood
    <2> HIDE DEF d
    <2>2. BeginCalibration(t, r) = d
      BY <1>1, <2>1, TellNeutral DEF BeginCalibration, Good, Core, Neutral, d
    <2> QED BY <2>1, <2>2 DEF Same
  <1>2. CASE ~ValidStar(t)
    <2>1. Quiet(t)
      BY DEF Core, Told, Quiet
    <2>2. BeginCalibration(t, r) = Uninitialize(t)
      BY <1>2 DEF BeginCalibration
    <2> QED BY <2>1, <2>2, UninitializeGood
  <1> QED BY <1>1, <1>2

\* The secondary mount is calibrated next, or calibration is over (SetState).
LEMMA CalibrateSecondaryGood ==
    ASSUME NEW t, NEW o, Core(t, o), t.cal[Primary],
           NEW r \in {"CAL_PRIMARY", "CAL_SECONDARY"}
    PROVE  LET u == CalibrateSecondary(t, r) IN
           /\ Good(u, o) /\ Same(t, u, {"gs", "star", "lock"})
           /\ u.gs \in {"SELECTING", r, "CALIBRATED"}
           /\ u.gs = "CALIBRATED" => u.star = t.star /\ AllCalibrated(u)
  <1> DEFINE d == [t EXCEPT !.gs = "CALIBRATED"]
             e == [t EXCEPT !.gs = r]
  <1>1. CASE ~HasAO
    <2>1. AllCalibrated(t)
      BY <1>1, MountNames DEF AllCalibrated
    <2>2. Good(d, o) /\ Same(t, d, {"gs"}) /\ d.gs = "CALIBRATED"
      BY <2>1, StateGood
    <2>3. CalibrateSecondary(t, r) = d
      BY <1>1 DEF CalibrateSecondary
    <2> HIDE DEF d
    <2> QED BY <2>1, <2>2, <2>3 DEF Same, Fields, AllCalibrated
  <1>2. CASE HasAO /\ t.cal["scope"]
    <2>1. Good(e, o) /\ Same(t, e, {"gs"}) /\ e.gs = r
      BY StateGood
    <2>2. CalibrateSecondary(t, r) = e
      BY <1>2 DEF CalibrateSecondary
    <2> HIDE DEF e
    <2> QED BY <2>1, <2>2 DEF Same
  <1>3. CASE HasAO /\ ~t.cal["scope"]
    <2>1. ~AllCalibrated(t)
      BY <1>3, MountNames DEF AllCalibrated
    <2>2. CalibrateSecondary(t, r) = BeginCalibration(t, r)
      BY <1>3 DEF CalibrateSecondary
    <2>3. LET u == BeginCalibration(t, r) IN
           /\ Good(u, o) /\ Same(t, u, {"gs", "star", "lock"}) /\ u.gs \in {"SELECTING", r}
      BY <2>1, BeginCalibrationGood
    <2> QED BY <2>2, <2>3
  <1> QED BY <1>1, <1>2, <1>3

\* Guiding that is started calibrates what is not calibrated (Guider::StartGuiding).
LEMMA GuiderStartGood ==
    ASSUME NEW t, NEW o, Core(t, o)
    PROVE  LET u == GuiderStart(t) IN
           Good(u, o) /\ Same(t, u, {"gs", "star", "lock"})
  <1>1. CASE t.gs = "SELECTING"
    <2>1. Ready(t) /\ Guided(t)
      BY <1>1 DEF Ready, Guided
    <2> QED BY <1>1, <2>1 DEF GuiderStart, Good, Same
  <1>2. CASE t.gs # "SELECTING" /\ ~t.cal[Primary]
    <2>1. ~AllCalibrated(t)
      BY <1>2, MountNames DEF AllCalibrated
    <2>2. GuiderStart(t) = BeginCalibration(t, "CAL_PRIMARY")
      BY <1>2 DEF GuiderStart
    <2> QED BY <2>1, <2>2, BeginCalibrationGood
  <1>3. CASE t.gs # "SELECTING" /\ t.cal[Primary]
    <2>1. GuiderStart(t) = CalibrateSecondary(t, "CAL_PRIMARY")
      BY <1>3 DEF GuiderStart
    <2> QED BY <1>3, <2>1, CalibrateSecondaryGood
  <1> QED BY <1>1, <1>2, <1>3

\* Guiding begins with a star and calibrated mounts: it gets a lock position and is told
\* (Guider::SetState).
LEMMA BeginGuidingGood ==
    ASSUME NEW t, NEW o, Core(t, o), ValidStar(t),
           "clear_calibration" \notin Commands => AllCalibrated(t)
    PROVE  LET u == BeginGuiding(t) IN
           Good(u, o) /\ Same(t, u, {"gs", "lock", "client"})
  <1> DEFINE u == BeginGuiding(t)
  <1>1. /\ Rec(u) /\ Same(t, u, {"gs", "lock", "client"}) /\ u.gs = "GUIDING"
        /\ u.lock = (t.lock \/ ValidStar(t))
        /\ u.client = Hear(t.client, "StartGuiding")
    BY DEF BeginGuiding, Tell, Core, Rec, Same, Fields
  <1> HIDE DEF u
  <1>2. /\ u.client \in Listeners /\ u.client.guiding = TRUE
        /\ u.client.settling = t.client.settling /\ u.client.owed = t.client.owed
        /\ u.client.outOfTurn = t.client.outOfTurn
    BY <1>1, HearGuiding DEF Core, Typed
  <1>3. Typed(u)
    <2>1. u.lock = TRUE
      BY <1>1
    <2> QED BY <1>1, <1>2, <2>1, ZenonT(60) DEF Core, Typed, GuiderStates, Same, Fields
  <1>4. Capturing(u) /\ Trying(u) /\ DecKept(u)
    BY <1>1 DEF Core, Capturing, Trying, DecKept, Same, Fields
  <1>5. AnswersKept(u)
    BY <1>1, <1>2 DEF Core, AnswersKept, Same, Fields
  <1>6. Told(u)
    BY <1>1, <1>2 DEF Core, Told, Silent, AllCalibrated, IsCalibratingOrGuiding, Same, Fields
  <1>7. Queue(u, o)
    <2>1. u.moves = t.moves /\ u.busy = t.busy /\ u.shots = t.shots
          /\ u.pending = t.pending /\ u.failed = t.failed
      BY <1>1 DEF Same, Fields
    <2> QED BY <1>2, <2>1 DEF Core, Queue
  <1>8. Ready(u) /\ Guided(u)
    BY <1>1, <1>2 DEF Ready, Guided, ValidStar, AllCalibrated, Same, Fields
  <1> QED BY <1>1, <1>3, <1>4, <1>5, <1>6, <1>7, <1>8 DEF Good, Core, u

-------------------------------------------------------------------------------
(* UpdateGuideState.                                                       *)

Sky == [star : BOOLEAN, auto : {"ok", "refused", "none"},
        calib : {"wait", "one", "two", "done", "fail"}, settled : BOOLEAN]

\* The star's position after a frame (UpdateCurrentPosition).
LEMMA PositionGood ==
    ASSUME NEW t, NEW o, Good(t, o), NEW found \in BOOLEAN
    PROVE  LET u == UpdateCurrentPosition(t, found) IN
           Good(u, o) /\ Same(t, u, {"star"})
  <1> DEFINE u == UpdateCurrentPosition(t, found)
  <1>1. /\ Rec(u) /\ Same(t, u, {"star"})
        /\ u.star = CASE t.star = "none" -> "none"
                      [] t.star # "none" /\ found -> "found"
                      [] t.star # "none" /\ ~found ->
                            IF ValidStar(t) THEN "lost" ELSE "stale"
    BY DEF UpdateCurrentPosition, Good, Core, Rec, Same, Fields
  <1> HIDE DEF u
  <1>2. u.star \in {"none", "stale", "lost", "found"} /\ (ValidStar(t) => ValidStar(u))
    BY <1>1 DEF ValidStar
  <1>3. Typed(u)
    BY <1>1, <1>2 DEF Good, Core, Typed, Same, Fields
  <1>4. Told(u)
    BY <1>1 DEF Good, Core, Told, AllCalibrated, IsCalibratingOrGuiding, MountsIdle,
                Same, Fields
  <1>5. Core(u, o)
    BY <1>1, <1>3, <1>4, GuiderOnly DEF Good, Same, GuiderFields
  <1>6. Ready(u) /\ Guided(u)
    BY <1>1, <1>2 DEF Good, Ready, Guided, AllCalibrated, Same, Fields
  <1> QED BY <1>1, <1>5, <1>6 DEF Good, u

\* What a frame may do to the guider and its mounts; no exposure is on its way and
\* the primary mount is not being moved.
FrameFields == {"gs", "star", "lock", "cal", "busy", "moves", "client"}
FrameTime(t, o) ==
    /\ Outer(o) /\ Good(t, o) /\ o.x = 0
    /\ t.busy[Primary] = 0 /\ t.busy["scope"] < 2

\* A frame without a star schedules at most a deduced move (UpdateGuideState).
LEMMA StarMissingGood ==
    ASSUME NEW t, NEW o, FrameTime(t, o)
    PROVE  LET u == StarMissing(t) IN Good(u, o) /\ Same(t, u, FrameFields)
  <1>1. Good(t, o) /\ Rec(t)
    BY DEF FrameTime, Good, Core
  <1>2. \A e \in Neutral : Tell(t, e) = t
    BY <1>1, TellNeutral
  <1>3. CASE t.gs \in {"SELECTING", "CAL_PRIMARY", "CAL_SECONDARY", "CALIBRATED"}
    <2>1. StarMissing(t) = t
      BY <1>2, <1>3 DEF StarMissing, Neutral
    <2> QED BY <1>1, <2>1 DEF Same
  <1>4. CASE t.gs = "SELECTED"
    <2>1. Uninitialize(Tell(t, "LoopingExposures")) = Uninitialize(t)
      BY <1>2 DEF Neutral
    <2>2. Quiet(t)
      BY <1>1, <1>4 DEF Good, Core, Told, Quiet, IsCalibratingOrGuiding
    <2>3. LET u == Uninitialize(t) IN
           /\ Good(u, o) /\ Same(t, u, {"gs", "star", "lock"}) /\ u.gs = "SELECTING"
      BY <1>1, <2>2, UninitializeGood DEF Good
    <2>4. Tell(Uninitialize(t), "StarLost") = Uninitialize(t)
      BY <2>3, TellNeutral DEF Good, Core, Neutral
    <2>5. StarMissing(t) = Uninitialize(t)
      BY <1>4, <2>1, <2>4 DEF StarMissing
    <2> QED BY <2>3, <2>5 DEF Same, FrameFields
  <1>5. CASE t.gs = "GUIDING"
    <2>1. StarMissing(t) = ScheduleMove(t, Primary, "deduced")
      BY <1>2, <1>5 DEF StarMissing, Neutral
    <2>2. t.client.guiding /\ Outer(o) /\ o.x = 0 /\ t.busy[Primary] < 2
      BY <1>1, <1>5 DEF FrameTime, Good, Guided
    <2>3. LET u == ScheduleMove(t, Primary, "deduced")
          IN Good(u, o) /\ Same(t, u, {"busy", "moves"})
      BY <1>1, <2>2, MoveGood, MountNames DEF MoveKinds
    <2> QED BY <2>1, <2>3 DEF Same, FrameFields
  <1> QED BY <1>1, <1>3, <1>4, <1>5 DEF Good, Core, Typed, GuiderStates

\* A calibration step schedules at most one calibration move (UpdateGuideState).
LEMMA CalibrationStepGood ==
    ASSUME NEW t, NEW o, FrameTime(t, o), NEW sky \in Sky, NEW m \in Mounts,
           t.gs \in {"CAL_PRIMARY", "CAL_SECONDARY"}
    PROVE  LET u == CalibrationStep(t, m, sky) IN
           /\ Good(u, o) /\ Same(t, u, {"gs", "star", "lock", "cal", "busy", "moves"})
           /\ u.cal[m] => u.gs = t.gs /\ u.star = t.star
           /\ \A k \in Mounts : t.cal[k] => u.cal[k]
  <1> DEFINE d == [t EXCEPT !.cal[m] = TRUE]
             a == ScheduleMove(t, m, "calibration")
             b == ScheduleMove(a, m, "calibration")
  <1>1. Good(t, o) /\ Rec(t) /\ Outer(o) /\ o.x = 0 /\ t.cal \in [Mounts -> BOOLEAN]
        /\ t.busy \in [Mounts -> Nat]
    BY DEF FrameTime, Good, Core, Typed
  <1>2. CASE t.cal[m] \/ sky.calib = "wait"
    BY <1>1, <1>2 DEF CalibrationStep, Same
  <1>3. CASE ~t.cal[m] /\ sky.calib = "done"
    <2>1. CalibrationStep(t, m, sky) = d
      BY <1>3 DEF CalibrationStep
    <2>2. Rec(d) /\ Same(t, d, {"cal"}) /\ d.cal = [t.cal EXCEPT ![m] = TRUE]
      BY <1>1 DEF Rec, Same, Fields
    <2> HIDE DEF d
    <2>3. d.cal \in [Mounts -> BOOLEAN] /\ \A k \in Mounts : t.cal[k] => d.cal[k]
      BY <1>1, <2>2
    <2>4. Typed(d)
      BY <1>1, <2>2, <2>3 DEF Good, Core, Typed, Same, Fields
    <2>5. Told(d)
      BY <1>1, <2>2, <2>3 DEF Good, Core, Told, AllCalibrated, IsCalibratingOrGuiding,
                              MountsIdle, Same, Fields
    <2>6. Core(d, o)
      BY <1>1, <2>2, <2>4, <2>5, GuiderOnly DEF Good, Same, GuiderFields
    <2>7. Ready(d) /\ Guided(d)
      BY <1>1, <2>2, <2>3, MountNames DEF Good, Ready, Guided, Same, Fields
    <2> QED BY <2>1, <2>2, <2>3, <2>6, <2>7 DEF Good, Same, Fields
  <1>4. CASE ~t.cal[m] /\ sky.calib = "fail"
    <2>1. CalibrationStep(t, m, sky) = Uninitialize(t)
      BY <1>4 DEF CalibrationStep
    <2>2. Quiet(t)
      BY <1>1, <1>4 DEF Good, Core, Told, Quiet, AllCalibrated
    <2>3. LET u == Uninitialize(t) IN
           /\ Good(u, o) /\ Same(t, u, {"gs", "star", "lock"}) /\ u.gs = "SELECTING"
      BY <1>1, <2>2, UninitializeGood DEF Good
    <2>4. Uninitialize(t).cal = t.cal
      BY <2>3 DEF Same, Fields
    <2> QED BY <1>4, <2>1, <2>3, <2>4 DEF Same
  <1>5. ASSUME ~t.cal[m]
        PROVE  /\ Good(a, o) /\ Same(t, a, {"busy", "moves"})
               /\ a.busy = [t.busy EXCEPT ![m] = @ + 1]
    <2>1. t.busy[m] < 2
      BY MountNames DEF FrameTime
    <2> QED BY <1>1, <2>1, MoveGood DEF MoveKinds
  <1>6. CASE ~t.cal[m] /\ (sky.calib = "one" \/ (sky.calib = "two" /\ m # "ao"))
    <2>1. CalibrationStep(t, m, sky) = a
      BY <1>6 DEF CalibrationStep
    <2> HIDE DEF a
    <2> QED BY <1>5, <1>6, <2>1 DEF Same, Fields
  <1>7. CASE ~t.cal[m] /\ sky.calib = "two" /\ m = "ao"
    <2>1. CalibrationStep(t, m, sky) = b
      BY <1>7 DEF CalibrationStep
    <2>2. m = Primary
      BY <1>7, MountNames
    <2>3. a.busy[m] < 2
      BY <1>1, <1>5, <1>7, <2>2 DEF FrameTime
    <2> HIDE DEF a
    <2>4. Good(b, o) /\ Same(a, b, {"busy", "moves"})
      BY <1>1, <1>5, <1>7, <2>3, MoveGood DEF MoveKinds
    <2> HIDE DEF b
    <2> QED BY <1>5, <1>7, <2>1, <2>4 DEF Same, Fields
  <1>8. sky.calib \in {"wait", "one", "two", "done", "fail"}
    BY DEF Sky
  <1> HIDE DEF a, b, d
  <1>9. \/ t.cal[m] \/ sky.calib = "wait"
        \/ ~t.cal[m] /\ sky.calib = "done"
        \/ ~t.cal[m] /\ sky.calib = "fail"
        \/ ~t.cal[m] /\ (sky.calib = "one" \/ (sky.calib = "two" /\ m # "ao"))
        \/ ~t.cal[m] /\ sky.calib = "two" /\ m = "ao"
    BY <1>8
  <1> QED BY <1>2, <1>3, <1>4, <1>6, <1>7, <1>9

\* The primary mount's calibration is done (UpdateGuideState).
LEMMA PrimaryCalibratedGood ==
    ASSUME NEW t, NEW o, Good(t, o), t.cal[Primary], t.star = "found"
    PROVE  LET u == PrimaryCalibrated(t) IN
           Good(u, o) /\ Same(t, u, {"gs", "star", "lock", "client"})
  <1> DEFINE c == CalibrateSecondary(t, "CAL_SECONDARY")
  <1>1. /\ Good(c, o) /\ Same(t, c, {"gs", "star", "lock"})
        /\ c.gs = "CALIBRATED" => c.star = t.star /\ AllCalibrated(c)
    BY CalibrateSecondaryGood DEF Good
  <1> HIDE DEF c
  <1>2. PrimaryCalibrated(t) = IF c.gs = "CALIBRATED" THEN BeginGuiding(c) ELSE c
    BY DEF PrimaryCalibrated, c
  <1>3. CASE c.gs = "CALIBRATED"
    <2>1. ValidStar(c) /\ AllCalibrated(c) /\ Core(c, o)
      BY <1>1, <1>3 DEF ValidStar, Good
    <2>2. LET u == BeginGuiding(c) IN
           Good(u, o) /\ Same(c, u, {"gs", "lock", "client"})
      BY <2>1, BeginGuidingGood
    <2> QED BY <1>1, <1>2, <1>3, <2>2 DEF Same
  <1>4. CASE c.gs # "CALIBRATED"
    BY <1>1, <1>2, <1>4 DEF Same
  <1> QED BY <1>3, <1>4

\* A frame with a star selects, calibrates or guides (UpdateGuideState).
LEMMA StarThereGood ==
    ASSUME NEW t, NEW o, FrameTime(t, o), NEW sky \in Sky, t.star = "found"
    PROVE  LET u == StarThere(t, sky) IN Good(u, o) /\ Same(t, u, FrameFields)
  <1>1. Good(t, o) /\ Core(t, o) /\ Rec(t) /\ Outer(o) /\ o.x = 0 /\ ValidStar(t)
    BY DEF FrameTime, Good, Core, ValidStar
  <1>2. CASE t.gs = "SELECTING"
    <2> DEFINE d == [t EXCEPT !.lock = TRUE, !.gs = "SELECTED"]
    <2>1. Rec(d) /\ Same(t, d, {"gs", "lock"}) /\ d.gs = "SELECTED" /\ d.lock = TRUE
      BY <1>1 DEF Rec, Same, Fields
    <2>2. StarThere(t, sky) = d
      BY <1>2 DEF StarThere
    <2> HIDE DEF d
    <2>3. Typed(d)
      BY <1>1, <2>1, ZenonT(60) DEF Core, Typed, GuiderStates, Same, Fields
    <2>4. Quiet(t)
      BY <1>1, <1>2 DEF Core, Told, Quiet, IsCalibratingOrGuiding
    <2>5. Same(t, d, {"gs", "star", "lock"})
      BY <2>1 DEF Same
    <2>6. Good(d, o)
      BY <1>1, <2>1, <2>3, <2>4, <2>5, SelectingGood
    <2> QED BY <2>1, <2>2, <2>6 DEF Same, FrameFields
  <1>3. CASE t.gs = "SELECTED"
    BY <1>1, <1>3 DEF StarThere, Same
  <1>4. CASE t.gs = "CAL_PRIMARY"
    <2> DEFINE c == CalibrationStep(t, Primary, sky)
    <2>1. /\ Good(c, o) /\ Same(t, c, {"gs", "star", "lock", "cal", "busy", "moves"})
          /\ c.cal[Primary] => c.gs = t.gs /\ c.star = t.star
      BY <1>4, CalibrationStepGood, MountNames
    <2>2. StarThere(t, sky) = IF c.cal[Primary] THEN PrimaryCalibrated(c) ELSE c
      BY <1>4 DEF StarThere
    <2> HIDE DEF c
    <2>3. CASE c.cal[Primary]
      <3>1. LET u == PrimaryCalibrated(c) IN
            Good(u, o) /\ Same(c, u, {"gs", "star", "lock", "client"})
        BY <2>1, <2>3, PrimaryCalibratedGood
      <3> QED BY <2>1, <2>2, <2>3, <3>1 DEF Same, FrameFields
    <2> QED BY <2>1, <2>2, <2>3 DEF Same, FrameFields
  <1>5. CASE t.gs = "CAL_SECONDARY"
    <2> DEFINE c == CalibrationStep(t, "scope", sky)
    <2>1. /\ Good(c, o) /\ Same(t, c, {"gs", "star", "lock", "cal", "busy", "moves"})
          /\ c.cal["scope"] => c.gs = t.gs /\ c.star = t.star
          /\ \A k \in Mounts : t.cal[k] => c.cal[k]
      BY <1>5, CalibrationStepGood, MountNames
    <2>2. StarThere(t, sky) = IF c.cal["scope"] THEN BeginGuiding(c) ELSE c
      BY <1>5 DEF StarThere
    <2> HIDE DEF c
    <2>3. CASE c.cal["scope"]
      <3>1. "clear_calibration" \notin Commands => AllCalibrated(c)
        BY <1>1, <1>5, <2>1, <2>3, MountNames DEF Good, Ready, AllCalibrated
      <3>2. LET u == BeginGuiding(c) IN
            Good(u, o) /\ Same(c, u, {"gs", "lock", "client"})
        BY <2>1, <2>3, <3>1, BeginGuidingGood DEF Good, ValidStar
      <3> QED BY <2>1, <2>2, <2>3, <3>2 DEF Same, FrameFields
    <2> QED BY <2>1, <2>2, <2>3 DEF Same, FrameFields
  <1>6. CASE t.gs = "CALIBRATED"
    <2>1. "clear_calibration" \notin Commands => AllCalibrated(t)
      BY <1>1, <1>6 DEF Good, Ready
    <2>2. LET u == BeginGuiding(t) IN
          Good(u, o) /\ Same(t, u, {"gs", "lock", "client"})
      BY <1>1, <2>1, BeginGuidingGood
    <2>3. StarThere(t, sky) = BeginGuiding(t)
      BY <1>6 DEF StarThere
    <2> QED BY <2>2, <2>3 DEF Same, FrameFields
  <1>7. CASE t.gs = "GUIDING"
    <2>1. t.client.guiding /\ t.busy[Primary] < 2
      BY <1>1, <1>7 DEF FrameTime, Good, Guided
    <2>2. LET u == ScheduleMove(t, Primary, "step")
          IN Good(u, o) /\ Same(t, u, {"busy", "moves"})
      BY <1>1, <2>1, MoveGood, MountNames DEF MoveKinds
    <2>3. StarThere(t, sky) = ScheduleMove(t, Primary, "step")
      BY <1>7 DEF StarThere
    <2> QED BY <2>2, <2>3 DEF Same, FrameFields
  <1> QED BY <1>1, <1>2, <1>3, <1>4, <1>5, <1>6, <1>7 DEF Core, Typed, GuiderStates

\* A frame while guiding is paused moves nothing (UpdateGuideState).
LEMMA PausedFrameGood ==
    ASSUME NEW t, NEW o, FrameTime(t, o)
    PROVE  LET u == PausedFrame(t) IN Good(u, o) /\ Same(t, u, FrameFields)
  <1>1. CASE t.gs = "GUIDING"
    <2>1. t.client.guiding /\ t.busy[Primary] < 2 /\ Outer(o) /\ o.x = 0
      BY <1>1 DEF FrameTime, Good, Guided
    <2>2. LET u == ScheduleMove(t, Primary, "deduced")
          IN Good(u, o) /\ Same(t, u, {"busy", "moves"})
      BY <2>1, MoveGood, MountNames DEF MoveKinds, FrameTime
    <2>3. PausedFrame(t) = ScheduleMove(t, Primary, "deduced")
      BY <1>1 DEF PausedFrame
    <2> QED BY <2>2, <2>3 DEF Same, FrameFields
  <1>2. CASE t.gs # "GUIDING"
    BY <1>2 DEF PausedFrame, FrameTime, Same
  <1> QED BY <1>1, <1>2

\* A frame of a capture that goes on.
LEMMA FrameGood ==
    ASSUME NEW t, NEW o, FrameTime(t, o), NEW sky \in Sky
    PROVE  LET u == UpdateGuideState(t, sky, FALSE)
           IN Good(u, o) /\ Same(t, u, FrameFields)
  <1> DEFINE p == UpdateCurrentPosition(t, sky.star)
  <1>1. Good(p, o) /\ Same(t, p, {"star"})
    BY PositionGood DEF FrameTime, Sky
  <1>2. Check(t, "busy guider", t.busy[Primary] = 0) = t
    BY DEF Check, FrameTime
  <1> HIDE DEF p
  <1>3. Tell(p, "LoopingExposures") = p
    BY <1>1, TellNeutral DEF Good, Core, Neutral
  <1>4. UpdateGuideState(t, sky, FALSE)
          = IF p.star # "found" THEN StarMissing(p)
            ELSE IF IsPaused(p) THEN PausedFrame(p) ELSE StarThere(p, sky)
    BY <1>2, <1>3 DEF UpdateGuideState, p
  <1>5. FrameTime(p, o)
    BY <1>1 DEF FrameTime, Same, Fields
  <1>6. \A u : Same(p, u, FrameFields) => Same(t, u, FrameFields)
    BY <1>1 DEF Same, FrameFields
  <1> QED BY <1>4, <1>5, <1>6, StarMissingGood, PausedFrameGood, StarThereGood

-------------------------------------------------------------------------------
(* Star selection.                                                         *)

\* The one assertion that may fail is noted and changes nothing else.
LEMMA CheckGood ==
    ASSUME NEW t, NEW o, Good(t, o), NEW b \in BOOLEAN
    PROVE  LET u == Check(t, "busy guider", b) IN Good(u, o) /\ Same(t, u, {"failed"})
  <1> DEFINE u == Check(t, "busy guider", b)
  <1>1. Rec(u) /\ Same(t, u, {"failed"}) /\ u.failed \in {t.failed, t.failed \cup {"busy guider"}}
    BY DEF Check, Good, Core, Rec, Same, Fields
  <1> HIDE DEF u
  <1>2. Typed(u)
    BY <1>1 DEF Good, Core, Typed, Same, Fields
  <1>3. Capturing(u) /\ AnswersKept(u) /\ Trying(u) /\ DecKept(u) /\ Guided(u)
    BY <1>1 DEF Good, Core, Capturing, AnswersKept, Trying, DecKept, Guided, Same, Fields
  <1>4. Told(u)
    BY <1>1 DEF Good, Core, Told, AllCalibrated, IsCalibratingOrGuiding, MountsIdle,
                Same, Fields
  <1>5. Ready(u)
    BY <1>1 DEF Good, Ready, ValidStar, AllCalibrated, Same, Fields
  <1>6. Queue(u, o)
    <2>1. Queue(t, o) /\ u.moves = t.moves /\ u.busy = t.busy /\ u.shots = t.shots
          /\ u.pending = t.pending /\ u.client = t.client
      BY <1>1 DEF Good, Core, Same, Fields
    <2> QED BY <1>1, <2>1 DEF Queue
  <1> QED BY <1>1, <1>2, <1>3, <1>4, <1>5, <1>6 DEF Good, Core, u

Unguided == {"SELECTING", "SELECTED"}

\* A listener of a guider that does not guide waits for the last move, or for nothing.
LEMMA UnguidedQuiet ==
    ASSUME NEW t, NEW o, Core(t, o), t.gs \in Unguided
    PROVE  Quiet(t) /\ Ready(t) /\ Guided(t)
  BY DEF Unguided, Core, Told, Quiet, Ready, Guided, IsCalibratingOrGuiding

\* A star that is found while none is selected moves the state machine on.
LEMMA FoundGood ==
    ASSUME NEW t, NEW o, Good(t, o), t.gs = "SELECTING", t.star = "found",
           NEW sky \in Sky, sky.star = TRUE
    PROVE  LET u == UpdateGuideState(t, sky, FALSE)
           IN /\ Good(u, o) /\ Same(t, u, {"gs", "lock", "failed"}) /\ u.gs \in Unguided
  <1> DEFINE c == Check(t, "busy guider", t.busy[Primary] = 0)
             d == [c EXCEPT !.lock = TRUE, !.gs = "SELECTED"]
  <1>1. Good(c, o) /\ Same(t, c, {"failed"})
    BY CheckGood
  <1>2. UpdateGuideState(t, sky, FALSE)
          = LET p == UpdateCurrentPosition(c, TRUE)
                seen == IF IsCalibratingOrGuiding(p) THEN p ELSE Tell(p, "LoopingExposures")
            IN IF p.star # "found" THEN StarMissing(p)
               ELSE IF IsPaused(p) THEN PausedFrame(seen)
               ELSE StarThere(seen, sky)
    BY DEF UpdateGuideState
  <1> HIDE DEF c
  <1>3. c.star = "found" /\ c.gs = "SELECTING" /\ Rec(c)
    BY <1>1 DEF Same, Fields, Good, Core
  <1>4. UpdateCurrentPosition(c, TRUE) = c
    BY <1>3 DEF UpdateCurrentPosition, Rec, Fields
  <1>5. Tell(c, "LoopingExposures") = c
    BY <1>3, TellNeutral DEF Neutral
  <1>6. PausedFrame(c) = c
    BY <1>3 DEF PausedFrame
  <1>7. StarThere(c, sky) = d
    BY <1>3 DEF StarThere
  <1>8. UpdateGuideState(t, sky, FALSE) = IF IsPaused(c) THEN c ELSE d
    BY <1>2, <1>3, <1>4, <1>5, <1>6, <1>7, ZenonT(60)
  <1>9. Rec(d) /\ Same(c, d, {"lock", "gs"}) /\ d.lock = TRUE /\ d.gs = "SELECTED"
    BY <1>3 DEF Rec, Same, Fields
  <1> HIDE DEF d
  <1>10. Good(d, o)
    <2>1. Typed(d)
      BY <1>1, <1>9, ZenonT(60) DEF Good, Core, Typed, GuiderStates, Same, Fields
    <2>2. Quiet(c)
      BY <1>1, <1>3, UnguidedQuiet DEF Good, Unguided
    <2>3. Same(c, d, {"gs", "star", "lock"})
      BY <1>9 DEF Same
    <2> QED BY <1>1, <1>9, <2>1, <2>2, <2>3, SelectingGood DEF Good
  <1> QED BY <1>1, <1>3, <1>8, <1>9, <1>10 DEF Same, Fields, Unguided

\* A star that is selected automatically (Guider::AutoSelect).
LEMMA AutoSelectGood ==
    ASSUME NEW t, NEW o, Good(t, o), t.gs \in Unguided, NEW sky \in Sky
    PROVE  LET u == AutoSelect(t, sky)
           IN /\ Good(u, o) /\ Same(t, u, {"gs", "star", "lock", "failed"})
              /\ u.gs \in Unguided
  <1> DEFINE d == [t EXCEPT !.star = "lost"]
             f == [t EXCEPT !.star = "found", !.lock = TRUE]
             sky2 == [sky EXCEPT !.star = TRUE]
  <1>1. Core(t, o) /\ Rec(t) /\ Typed(t) /\ Quiet(t)
    BY UnguidedQuiet DEF Good, Core
  <1>2. CASE ~t.image \/ sky.auto = "none"
    BY <1>2 DEF AutoSelect, Same
  <1>3. CASE t.image /\ sky.auto = "refused"
    <2>1. Rec(d) /\ Same(t, d, {"star"}) /\ d.star = "lost"
      BY <1>1 DEF Rec, Same, Fields
    <2>2. AutoSelect(t, sky) = d
      BY <1>3 DEF AutoSelect
    <2> HIDE DEF d
    <2>3. Typed(d) /\ d.gs = t.gs
      BY <1>1, <2>1 DEF Typed, Same, Fields
    <2>4. Same(t, d, {"gs", "star", "lock"})
      BY <2>1 DEF Same
    <2>5. Good(d, o)
      BY <1>1, <2>1, <2>3, <2>4, SelectingGood DEF Unguided
    <2> QED BY <2>2, <2>3, <2>4, <2>5 DEF Same
  <1>4. CASE t.image /\ sky.auto = "ok"
    <2>1. Rec(f) /\ Same(t, f, {"star", "lock"}) /\ f.star = "found" /\ f.lock = TRUE
      BY <1>1 DEF Rec, Same, Fields
    <2>2. AutoSelect(t, sky)
            = IF f.gs = "SELECTING" THEN UpdateGuideState(f, sky2, FALSE) ELSE f
      BY <1>4 DEF AutoSelect
    <2>3. sky2 \in Sky /\ sky2.star = TRUE
      BY DEF Sky
    <2> HIDE DEF f, sky2
    <2>4. Typed(f) /\ f.gs = t.gs
      BY <1>1, <2>1 DEF Typed, Same, Fields
    <2>5. Same(t, f, {"gs", "star", "lock"})
      BY <2>1 DEF Same
    <2>6. Good(f, o)
      BY <1>1, <2>1, <2>4, <2>5, SelectingGood DEF Unguided
    <2>7. CASE f.gs = "SELECTING"
      <3>1. LET u == UpdateGuideState(f, sky2, FALSE)
            IN /\ Good(u, o) /\ Same(f, u, {"gs", "lock", "failed"}) /\ u.gs \in Unguided
        BY <2>1, <2>3, <2>6, <2>7, FoundGood
      <3> QED BY <2>1, <2>2, <2>7, <3>1 DEF Same
    <2>8. CASE f.gs # "SELECTING"
      BY <2>2, <2>4, <2>5, <2>6, <2>8 DEF Same
    <2> QED BY <2>7, <2>8
  <1>5. sky.auto \in {"ok", "refused", "none"}
    BY DEF Sky
  <1> HIDE DEF d, f, sky2
  <1> QED BY <1>2, <1>3, <1>4, <1>5

\* A star that is selected by a click.
LEMMA ClickSelectGood ==
    ASSUME NEW t, NEW o, Good(t, o), t.gs \in Unguided, NEW found \in BOOLEAN
    PROVE  LET u == ClickSelect(t, found)
           IN Good(u, o) /\ Same(t, u, {"gs", "star", "lock"})
  <1> DEFINE u == ClickSelect(t, found)
  <1>1. /\ Rec(u) /\ Same(t, u, {"gs", "star", "lock"}) /\ u.gs = "SELECTED"
        /\ u.lock = TRUE /\ u.star \in {"found", "lost"}
    BY DEF ClickSelect, Good, Core, Rec, Same, Fields
  <1> HIDE DEF u
  <1>2. Typed(u)
    BY <1>1, ZenonT(60) DEF Good, Core, Typed, GuiderStates, Same, Fields
  <1>3. Quiet(t) /\ Core(t, o)
    BY UnguidedQuiet DEF Good
  <1>4. Good(u, o)
    BY <1>1, <1>2, <1>3, SelectingGood
  <1> QED BY <1>1, <1>4 DEF u

\* What the selection of stars and a restart of the guider may change.
MultiFields == StopFields \cup {"failed"}

\* Switching the multi-star mode stops guiding and selects a star again.
LEMMA MultiStarGood ==
    ASSUME NEW t, NEW o, Outer(o), Good(t, o), NEW sky \in Sky
    PROVE  LET u == MultiStarOn(t, sky)
           IN /\ Good(u, o) /\ Same(t, u, MultiFields) /\ u.ctl \in {t.ctl, "IDLE"}
  <1> DEFINE a == StopGuiding(t)
             d == DropStar(a)
             e == AutoSelect(d, sky)
             g == GuiderStart(e)
  <1>1. CASE t.gs = "SELECTING"
    BY <1>1 DEF MultiStarOn, Same
  <1>2. CASE t.gs # "SELECTING"
    <2>1. Good(a, o) /\ Same(t, a, StopFields) /\ a.gs \in Unguided
          /\ a.ctl \in {t.ctl, "IDLE"}
      BY StopGuidingGood DEF Good, Unguided
    <2>2. MultiStarOn(t, sky) = IF AutoSelectFails(d, sky) THEN e ELSE g
      BY <1>2 DEF MultiStarOn
    <2> HIDE DEF a
    <2>3. Good(d, o) /\ Same(a, d, {"star"})
      BY <2>1, DropStarGood DEF Unguided
    <2> HIDE DEF d
    <2>4. Good(e, o) /\ Same(d, e, {"gs", "star", "lock", "failed"})
      <3>1. d.gs \in Unguided
        BY <2>1, <2>3 DEF Same, Fields
      <3> QED BY <2>3, <3>1, AutoSelectGood
    <2> HIDE DEF e
    <2>5. Good(g, o) /\ Same(e, g, {"gs", "star", "lock"})
      BY <2>4, GuiderStartGood DEF Good
    <2> HIDE DEF g
    <2>6. Same(t, e, MultiFields) /\ e.ctl = a.ctl
      BY <2>1, <2>3, <2>4 DEF Same, Fields, MultiFields, StopFields, CtlFields
    <2>7. Same(t, g, MultiFields) /\ g.ctl = a.ctl
      BY <2>5, <2>6 DEF Same, Fields, MultiFields, StopFields, CtlFields
    <2> QED BY <2>1, <2>2, <2>4, <2>5, <2>6, <2>7
  <1> QED BY <1>1, <1>2

-------------------------------------------------------------------------------
(* The controller.                                                         *)

\* Capturing goes on, or is started and has its exposure.
Steady(t, u) ==
    /\ u.pause = t.pause /\ u.step = t.step /\ u.pulses = t.pulses
    /\ \/ u.capture = t.capture /\ u.cont = t.cont /\ u.pending = t.pending
       \/ ~t.capture /\ u.capture /\ u.pending
Elsewhere == Fields \ {"pause", "step", "pulses", "capture", "cont", "pending"}

\* What leaves the frame's own fields alone is steady.
LEMMA SteadySame ==
    ASSUME NEW t, NEW u, Same(t, u, Elsewhere) PROVE Steady(t, u)
  BY DEF Same, Fields, Elsewhere, Steady

\* Steady steps compose.
LEMMA SteadyTrans ==
    ASSUME NEW t, NEW u, NEW v, Steady(t, u), Steady(u, v) PROVE Steady(t, v)
  BY DEF Steady

\* What a step of the controller leaves.
Led(t, u, o) == Good(u, o) /\ Steady(t, u) /\ u.ctl \in Resting

\* An operation that has not begun to settle.
Starting == {"SETUP", "ATTEMPT_START", "SELECT_STAR", "WAIT_SELECTED", "CALIBRATION_WAIT"}

\* An operation that has not begun to settle was begun with the guide command, which may
\* stop guiding silently: nothing is claimed of what a listener is told.
LEMMA StartingGuides ==
    ASSUME NEW t, NEW o, Core(t, o), t.ctl \in Starting
    PROVE  /\ \A u : Told(u) /\ Quiet(u)
           /\ ~t.override /\ t.dec = UserDecMode
           /\ t.client.owed = 1 /\ t.client.settling = FALSE /\ ~t.client.outOfTurn
  <1>1. Commands \cap Silent # {}
    BY DEF Core, Told, Starting
  <1>2. ~t.override
    BY DEF Core, DecKept, Starting
  <1> QED BY <1>1, <1>2 DEF Core, DecKept, AnswersKept, Told, Quiet, Starting

\* Any step of an operation that has not begun to settle.
LEMMA StepsGood ==
    ASSUME NEW t, NEW o, Good(t, o), t.ctl \in Starting,
           NEW u, Rec(u), Typed(u), Same(t, u, {"ctl", "attempts", "waits"}),
           u.ctl \in Starting \cup {"SETTLE_BEGIN"}, Trying(u)
    PROVE  Good(u, o) /\ Steady(t, u)
  <1>1. /\ ~t.override /\ t.dec = UserDecMode /\ Told(u)
        /\ t.client.owed = 1 /\ t.client.settling = FALSE /\ ~t.client.outOfTurn
    BY StartingGuides DEF Good
  <1>2. u.override = t.override /\ u.dec = t.dec /\ u.client = t.client
    BY DEF Same, Fields
  <1>3. DecKept(u)
    BY <1>1, <1>2 DEF DecKept
  <1>4. AnswersKept(u)
    BY <1>1, <1>2 DEF AnswersKept, Starting
  <1>5. Same(t, u, Loose \cup CtlFields) /\ Same(t, u, Elsewhere)
    BY DEF Same, CtlFields, Elsewhere, Fields
  <1> QED BY <1>1, <1>2, <1>3, <1>4, <1>5, CtlOnly, SteadySame DEF Good

\* A controller that goes to another state of its operation keeps the invariant.
LEMMA SetCtlGood ==
    ASSUME NEW t, NEW o, Good(t, o), t.ctl \in Starting,
           NEW n \in {"ATTEMPT_START", "SELECT_STAR", "CALIBRATION_WAIT", "SETTLE_BEGIN"},
           n \in {"ATTEMPT_START", "SELECT_STAR"} => t.attempts # 0
    PROVE  LET u == SetCtl(t, n) IN Led(t, u, o) /\ u.ctl = n
  <1> DEFINE u == SetCtl(t, n)
  <1>1. Rec(u) /\ Same(t, u, {"ctl"}) /\ u.ctl = n
    BY DEF SetCtl, Good, Core, Rec, Same, Fields
  <1> HIDE DEF u
  <1>2. Typed(u)
    BY <1>1 DEF Good, Core, Typed, ControllerStates, Same, Fields
  <1>3. Trying(u)
    BY <1>1 DEF Trying, Same, Fields
  <1>4. Same(t, u, {"ctl", "attempts", "waits"})
    BY <1>1 DEF Same
  <1>5. u.ctl \in Starting \cup {"SETTLE_BEGIN"} /\ u.ctl \in Resting
    BY <1>1 DEF Starting, Resting
  <1> QED BY <1>1, <1>2, <1>3, <1>4, <1>5, StepsGood DEF Led, u

\* An operation that fails is answered (do_fail and STATE_FINISH).
LEMMA FailGood ==
    ASSUME NEW t, NEW o, Core(t, o), Ready(t), Guided(t), t.ctl # "IDLE",
           NEW u, Rec(u), Typed(u), Same(t, u, {"attempts"})
    PROVE  Led(t, Fail(u), o)
  <1> DEFINE d == Fail(u)
  <1>1. /\ Core(d, o) /\ Same(t, d, CtlFields) /\ d.ctl = "IDLE"
        /\ Ready(t) => Ready(d)
        /\ Guided(t) => Guided(d)
    BY FinishGood DEF Fail
  <1> HIDE DEF d
  <1>2. Same(t, d, Elsewhere)
    BY <1>1 DEF Same, CtlFields, Elsewhere, Fields
  <1> QED BY <1>1, <1>2, SteadySame DEF Led, Good, Resting, d

\* STATE_SETTLE_BEGIN tells that settling has begun, or ends without settling.
LEMMA SettleBeginGood ==
    ASSUME NEW t, NEW o, Good(t, o), t.ctl \notin {"IDLE", "SETTLE_WAIT"}
    PROVE  Led(t, SettleBegin(t), o)
  <1> DEFINE u == SettleBegin(t)
  <1>1. /\ Rec(u) /\ Same(t, u, {"dec", "late", "ctl", "client"})
        /\ u.dec = (IF t.override THEN "AUTO" ELSE t.dec) /\ u.late = FALSE
        /\ u.ctl = "SETTLE_WAIT" /\ u.client = Hear(t.client, "SettleBegin")
    BY DEF SettleBegin, Tell, Good, Core, Rec, Same, Fields
  <1> HIDE DEF u
  <1>2. /\ t.client \in Listeners /\ ~t.client.outOfTurn /\ ~t.client.settling
        /\ t.client.owed = 1
    BY DEF Good, Core, Typed, AnswersKept
  <1>3. LET d == Hear(t.client, "SettleBegin")
        IN /\ d \in Listeners /\ d.guiding = t.client.guiding /\ d.owed = t.client.owed
           /\ d.settling = TRUE /\ (~t.client.settling => ~d.outOfTurn)
    BY <1>2, HearSettling
  <1>4. /\ u.client \in Listeners /\ u.client.guiding = t.client.guiding
        /\ u.client.owed = 1 /\ u.client.settling = TRUE /\ ~u.client.outOfTurn
    BY <1>1, <1>2, <1>3
  <1>5. Typed(u)
    <2>1. u.dec \in DecModes
      BY <1>1 DEF Good, Core, Typed, DecModes
    <2>2. u.late \in BOOLEAN /\ u.ctl \in ControllerStates
      BY <1>1 DEF ControllerStates
    <2> QED BY <1>1, <1>4, <2>1, <2>2, ZenonT(60) DEF Good, Core, Typed, Same, Fields
  <1>6. AnswersKept(u) /\ Trying(u)
    BY <1>1, <1>4 DEF AnswersKept, Trying
  <1>7. DecKept(u)
    BY <1>1 DEF Good, Core, DecKept, Same, Fields
  <1>8. Told(u)
    BY <1>1, <1>4 DEF Good, Core, Told, AllCalibrated, IsCalibratingOrGuiding, MountsIdle,
                      Same, Fields
  <1>9. Same(t, u, Loose \cup CtlFields) /\ Same(t, u, Elsewhere)
    BY <1>1 DEF Same, CtlFields, Elsewhere, Fields
  <1>10. Good(u, o)
    BY <1>1, <1>4, <1>5, <1>6, <1>7, <1>8, <1>9, CtlOnly DEF Good
  <1> QED BY <1>1, <1>9, <1>10, SteadySame DEF Led, Resting, u

\* Settling goes on, and is told (STATE_SETTLE_WAIT).
LEMMA SettlingGood ==
    ASSUME NEW t, NEW o, Good(t, o), t.ctl = "SETTLE_WAIT"
    PROVE  Led(t, Tell(t, "Settling"), o)
  <1> DEFINE u == Tell(t, "Settling")
  <1>1. Rec(u) /\ Same(t, u, {"client"}) /\ u.client = Hear(t.client, "Settling")
    BY DEF Tell, Good, Core, Rec, Same, Fields
  <1> HIDE DEF u
  <1>2. /\ t.client \in Listeners /\ ~t.client.outOfTurn /\ t.client.settling
        /\ t.client.owed = 1
    BY DEF Good, Core, Typed, AnswersKept
  <1>3. LET d == Hear(t.client, "Settling")
        IN /\ d \in Listeners /\ d.guiding = t.client.guiding /\ d.owed = t.client.owed
           /\ d.settling = t.client.settling /\ (t.client.settling => ~d.outOfTurn)
    BY <1>2, HearSettling
  <1>4. /\ u.client \in Listeners /\ u.client.guiding = t.client.guiding
        /\ u.client.owed = 1 /\ u.client.settling = t.client.settling
        /\ ~u.client.outOfTurn
    BY <1>1, <1>2, <1>3
  <1>5. Typed(u)
    BY <1>1, <1>4 DEF Good, Core, Typed, Same, Fields
  <1>6. AnswersKept(u) /\ Trying(u) /\ DecKept(u)
    BY <1>1, <1>4 DEF Good, Core, AnswersKept, Trying, DecKept, Same, Fields
  <1>7. Told(u)
    BY <1>1, <1>4 DEF Good, Core, Told, AllCalibrated, IsCalibratingOrGuiding, MountsIdle,
                      Same, Fields
  <1>8. Same(t, u, Loose \cup CtlFields) /\ Same(t, u, Elsewhere)
    BY <1>1 DEF Same, CtlFields, Elsewhere, Fields
  <1>9. Good(u, o)
    BY <1>1, <1>4, <1>5, <1>6, <1>7, <1>8, CtlOnly DEF Good
  <1>10. u.ctl \in Resting
    BY <1>1 DEF Same, Fields, Resting
  <1> QED BY <1>8, <1>9, <1>10, SteadySame DEF Led, u

\* STATE_SETTLE_WAIT ends in success, at its time limit, or goes on.
LEMMA SettleWaitGood ==
    ASSUME NEW t, NEW o, Good(t, o), t.ctl = "SETTLE_WAIT", NEW sky \in Sky
    PROVE  Led(t, SettleWait(t, sky), o)
  <1> DEFINE d == Finish(t, "SettleDone")
  <1>1. Rec(t) /\ Typed(t) /\ Same(t, t, {"attempts"}) /\ Core(t, o)
    BY DEF Good, Core, Same
  <1>2. Led(t, d, o)
    <2>1. /\ Core(d, o) /\ Same(t, d, CtlFields) /\ d.ctl = "IDLE"
          /\ Ready(t) => Ready(d)
          /\ Guided(t) => Guided(d)
      BY <1>1, FinishGood
    <2> HIDE DEF d
    <2>2. Same(t, d, Elsewhere)
      BY <2>1 DEF Same, CtlFields, Elsewhere, Fields
    <2> QED BY <2>1, <2>2, SteadySame DEF Led, Good, Resting
  <1>3. Led(t, Fail(t), o)
    BY <1>1, FailGood DEF Good
  <1>4. Led(t, Tell(t, "Settling"), o)
    BY SettlingGood
  <1>5. SettleWait(t, sky) \in {d, Fail(t), Tell(t, "Settling")}
    BY DEF SettleWait
  <1> HIDE DEF d
  <1> QED BY <1>2, <1>3, <1>4, <1>5

\* The guider and the capture are started, if they can be.
LEMMA StartGuidingGood ==
    ASSUME NEW t, NEW o, Outer(o), Core(t, o)
    PROVE  LET u == StartGuiding(t) IN
           /\ Good(u, o) /\ Steady(t, u)
           /\ Same(t, u, {"gs", "star", "lock", "capture", "cont", "pending", "shots"})
  <1> DEFINE g == GuiderStart(t)
  <1>1. Good(g, o) /\ Same(t, g, {"gs", "star", "lock"})
    BY GuiderStartGood
  <1> HIDE DEF g
  <1>2. LET u == StartCapturing(g)
        IN /\ Good(u, o) /\ Same(g, u, {"capture", "cont", "pending", "shots"})
           /\ u.capture
           /\ g.capture => u = g
           /\ ~g.capture => u.pending
    BY <1>1, StartCapturingGood
  <1>3. StartGuiding(t) = StartCapturing(g)
    BY DEF StartGuiding, g
  <1> QED BY <1>1, <1>2, <1>3 DEF Same, Fields, Steady

\* STATE_GUIDE starts guiding or fails.
LEMMA GuideStateGood ==
    ASSUME NEW t, NEW o, Outer(o), Core(t, o), t.ctl \in Starting,
           CannotStart(t) => Ready(t) /\ Guided(t)
    PROVE  Led(t, GuideState(t), o)
  <1>1. CASE CannotStart(t)
    <2>1. GuideState(t) = Fail(t)
      BY <1>1 DEF GuideState
    <2>2. Rec(t) /\ Typed(t) /\ Same(t, t, {"attempts"}) /\ t.ctl # "IDLE"
      BY DEF Core, Same, Starting
    <2> QED BY <1>1, <2>1, <2>2, FailGood
  <1>2. CASE ~CannotStart(t)
    <2> DEFINE g == StartGuiding(t)
    <2>1. /\ Good(g, o) /\ Steady(t, g)
          /\ Same(t, g, {"gs", "star", "lock", "capture", "cont", "pending", "shots"})
      BY StartGuidingGood
    <2>2. GuideState(t) = SetCtl(g, "SETTLE_BEGIN")
      BY <1>2 DEF GuideState
    <2> HIDE DEF g
    <2>3. g.ctl \in Starting
      BY <2>1 DEF Same, Fields
    <2>4. Led(g, SetCtl(g, "SETTLE_BEGIN"), o)
      BY <2>1, <2>3, SetCtlGood
    <2> QED BY <2>1, <2>2, <2>4, SteadyTrans DEF Led
  <1> QED BY <1>1, <1>2

\* STATE_CALIBRATION_WAIT waits for the end of the calibration.
LEMMA CalibrationWaitGood ==
    ASSUME NEW t, NEW o, Good(t, o), t.ctl = "CALIBRATION_WAIT"
    PROVE  Led(t, CalibrationWait(t), o)
  <1>1. Led(t, t, o)
    BY DEF Led, Steady, Resting
  <1>2. Led(t, SettleBegin(t), o)
    BY SettleBeginGood
  <1> QED BY <1>1, <1>2 DEF CalibrationWait

\* A forced calibration clears the old one while a star is selected, or while the
\* guider can be started.
LEMMA CalibrateGood ==
    ASSUME NEW t, NEW o, Outer(o), Good(t, o), t.ctl \in Starting,
           t.gs = "SELECTED" \/ ~CannotStart(t)
    PROVE  Led(t, Calibrate(t), o)
  <1> DEFINE c == [t EXCEPT !.cal = [m \in Mounts |-> FALSE]]
             u == IF t.force THEN c ELSE t
  <1>1. /\ Core(u, o) /\ Same(t, u, {"cal"})
        /\ CannotStart(u) => Ready(u) /\ Guided(u)
    <2>1. Rec(c) /\ Same(t, c, {"cal"}) /\ c.cal = [m \in Mounts |-> FALSE]
      BY DEF Good, Core, Rec, Same, Fields
    <2> HIDE DEF c
    <2>2. Typed(c)
      <3>1. c.cal \in [Mounts -> BOOLEAN]
        BY <2>1
      <3> QED BY <2>1, <3>1 DEF Good, Core, Typed, Same, Fields
    <2>3. Told(c)
      BY StartingGuides DEF Good
    <2>4. Core(c, o)
      BY <2>1, <2>2, <2>3, GuiderOnly DEF Good, Same, GuiderFields
    <2>5. CannotStart(c) => Ready(c) /\ Guided(c)
      <3>1. c.gs = t.gs /\ c.camera = t.camera
        BY <2>1 DEF Same, Fields
      <3> QED BY <3>1 DEF CannotStart, Ready, Guided
    <2> QED BY <2>1, <2>4, <2>5 DEF Good, Same
  <1>2. Calibrate(t) = IF AllCalibrated(u) THEN GuideState(u)
                       ELSE IF CannotStart(u) THEN Fail(u)
                       ELSE SetCtl(StartGuiding(u), "CALIBRATION_WAIT")
    BY DEF Calibrate
  <1> HIDE DEF c, u
  <1>3. u.ctl \in Starting /\ Steady(t, u)
    <2>1. Same(t, u, Elsewhere)
      BY <1>1 DEF Same, Elsewhere, Fields
    <2> QED BY <1>1, <2>1, SteadySame DEF Same, Fields
  <1>4. Led(u, GuideState(u), o)
    BY <1>1, <1>3, GuideStateGood
  <1>5. CannotStart(u) => Led(u, Fail(u), o)
    BY <1>1, <1>3, FailGood DEF Core, Same, Starting
  <1>6. Led(u, SetCtl(StartGuiding(u), "CALIBRATION_WAIT"), o)
    <2> DEFINE g == StartGuiding(u)
    <2>1. /\ Good(g, o) /\ Steady(u, g)
          /\ Same(u, g, {"gs", "star", "lock", "capture", "cont", "pending", "shots"})
      BY <1>1, StartGuidingGood
    <2> HIDE DEF g
    <2>2. g.ctl \in Starting
      BY <1>3, <2>1 DEF Same, Fields
    <2>3. Led(g, SetCtl(g, "CALIBRATION_WAIT"), o)
      BY <2>1, <2>2, SetCtlGood
    <2>4. Led(u, SetCtl(g, "CALIBRATION_WAIT"), o)
      BY <2>1, <2>3, SteadyTrans DEF Led
    <2> QED BY <2>4 DEF g
  <1> QED BY <1>2, <1>3, <1>4, <1>5, <1>6, SteadyTrans DEF Led

\* Stars may be selected while the guider neither calibrates nor guides.
LEMMA TrySelectGood ==
    ASSUME NEW t, NEW o, Good(t, o), NEW sky \in Sky
    PROVE  LET u == TrySelect(t, sky)
           IN /\ Good(u, o) /\ Same(t, u, {"gs", "star", "lock", "failed"})
              /\ ~SelectFails(t, sky) => u = AutoSelect(t, sky)
  <1>1. ~IsCalibratingOrGuiding(t) => t.gs \in Unguided
    BY DEF IsCalibratingOrGuiding, Unguided
  <1>2. CASE IsCalibratingOrGuiding(t)
    BY <1>2 DEF TrySelect, SelectFails, Same
  <1>3. CASE ~IsCalibratingOrGuiding(t)
    BY <1>1, <1>3, AutoSelectGood DEF TrySelect
  <1> QED BY <1>2, <1>3

\* STATE_SELECT_STAR tries again until the attempts are used up.
LEMMA SelectStarGood ==
    ASSUME NEW t, NEW o, Good(t, o), t.ctl \in Starting, t.attempts # 0, NEW sky \in Sky
    PROVE  Led(t, SelectStar(t, sky), o)
  <1> DEFINE a == TrySelect(t, sky)
             w == [a EXCEPT !.ctl = "WAIT_SELECTED", !.waits = MaxAttempts]
             b == [a EXCEPT !.attempts = @ - 1]
             r == FullReset(b)
  <1>1. /\ Good(a, o) /\ Same(t, a, {"gs", "star", "lock", "failed"})
        /\ ~SelectFails(t, sky) => a = AutoSelect(t, sky)
    BY TrySelectGood
  <1>2. SelectStar(t, sky) = IF ~SelectFails(t, sky) THEN w
                             ELSE IF b.attempts = 0 THEN Fail(b)
                             ELSE SetCtl(r, "ATTEMPT_START")
    BY <1>1 DEF SelectStar, Selected
  <1> HIDE DEF a
  <1>3. a.ctl \in Starting /\ a.attempts = t.attempts /\ Rec(a) /\ Typed(a) /\ Core(a, o)
    BY <1>1 DEF Same, Fields, Good, Core
  <1>4. Steady(t, a)
    BY <1>1, SteadySame DEF Same, Elsewhere
  <1>5. Led(a, w, o)
    <2>1. /\ Rec(w) /\ Same(a, w, {"ctl", "waits"}) /\ w.ctl = "WAIT_SELECTED"
          /\ w.waits = MaxAttempts
      BY <1>3 DEF Rec, Same, Fields
    <2> HIDE DEF w
    <2>2. w.waits \in 1..3 /\ w.attempts = a.attempts
      BY <2>1, AttemptsAssumption DEF Same, Fields
    <2>3. Typed(w)
      <3>1. w.waits \in 0..3
        BY <2>2
      <3>2. w.ctl \in ControllerStates
        BY <2>1 DEF ControllerStates
      <3> QED BY <1>3, <2>1, <3>1, <3>2 DEF Typed, Same, Fields
    <2>4. Trying(w)
      BY <1>3, <2>2 DEF Trying
    <2>5. Same(a, w, {"ctl", "attempts", "waits"})
      BY <2>1 DEF Same
    <2>6. w.ctl \in Starting /\ w.ctl \in Resting
      BY <2>1 DEF Starting, Resting
    <2> QED BY <1>1, <1>3, <2>1, <2>3, <2>4, <2>5, <2>6, StepsGood DEF Led
  <1>6. Rec(b) /\ Same(a, b, {"attempts"}) /\ b.attempts = a.attempts - 1 /\ Typed(b)
    <2>1. Rec(b) /\ Same(a, b, {"attempts"}) /\ b.attempts = a.attempts - 1
      BY <1>3 DEF Rec, Same, Fields
    <2> HIDE DEF b
    <2>2. a.attempts \in 0..3
      BY <1>3 DEF Typed
    <2>3. b.attempts \in 0..3
      BY <1>3, <2>1, <2>2
    <2> QED BY <1>3, <2>1, <2>3 DEF Typed, Same, Fields
  <1> HIDE DEF b
  <1>7. Led(a, Fail(b), o)
    BY <1>1, <1>3, <1>6, FailGood DEF Good, Starting
  <1>8. ASSUME b.attempts # 0 PROVE Led(a, SetCtl(r, "ATTEMPT_START"), o)
    <2>1. b.ctl \in Starting /\ Same(a, b, {"ctl", "attempts", "waits"})
      BY <1>3, <1>6 DEF Same, Fields
    <2>2. Trying(b)
      BY <1>3, <1>6, <1>8 DEF Core, Trying, Same, Fields
    <2>3. Good(b, o) /\ Steady(a, b)
      BY <1>1, <1>3, <1>6, <2>1, <2>2, StepsGood
    <2>4. Quiet(b)
      BY <2>1, <2>3, StartingGuides DEF Good
    <2>5. Good(r, o) /\ Same(b, r, {"gs", "star", "lock"})
      BY <2>3, <2>4, FullResetGood DEF Good
    <2> HIDE DEF r
    <2>6. r.ctl \in Starting /\ r.attempts # 0 /\ Steady(b, r)
      BY <1>8, <2>1, <2>5, SteadySame DEF Same, Fields, Elsewhere
    <2>7. Led(r, SetCtl(r, "ATTEMPT_START"), o)
      BY <2>5, <2>6, SetCtlGood
    <2> QED BY <2>3, <2>6, <2>7, SteadyTrans DEF Led
  <1> HIDE DEF r, w
  <1> QED BY <1>2, <1>4, <1>5, <1>7, <1>8, SteadyTrans DEF Led

\* STATE_WAIT_SELECTED waits for the guider, for a number of frames.
LEMMA WaitSelectedGood ==
    ASSUME NEW t, NEW o, Outer(o), Good(t, o), t.ctl = "WAIT_SELECTED"
    PROVE  Led(t, WaitSelected(t), o)
  <1> DEFINE u == [t EXCEPT !.waits = @ - 1,
                            !.ctl = IF t.waits = 1 THEN "ATTEMPT_START" ELSE @]
  <1>1. t.ctl \in Starting
    BY DEF Starting
  <1>2. CASE t.gs = "SELECTED"
    BY <1>1, <1>2, CalibrateGood DEF WaitSelected
  <1>3. CASE t.gs # "SELECTED"
    <2>1. WaitSelected(t) = u
      BY <1>3 DEF WaitSelected
    <2>2. /\ Rec(u) /\ Same(t, u, {"ctl", "waits"}) /\ u.waits = t.waits - 1
          /\ u.ctl = IF t.waits = 1 THEN "ATTEMPT_START" ELSE t.ctl
      BY DEF Good, Core, Rec, Same, Fields
    <2> HIDE DEF u
    <2>3. t.waits \in 0..3 /\ t.waits # 0 /\ t.attempts # 0
      BY DEF Good, Core, Typed, Trying
    <2>4. u.waits \in 0..3 /\ (t.waits # 1 => u.waits # 0)
      BY <2>2, <2>3
    <2>5. u.ctl \in Starting /\ u.ctl \in Resting /\ u.ctl \in ControllerStates
      BY <2>2 DEF Starting, Resting, ControllerStates
    <2>6. Typed(u)
      BY <2>2, <2>4, <2>5 DEF Good, Core, Typed, Same, Fields
    <2>7. Trying(u)
      <3>1. u.attempts # 0
        BY <2>2, <2>3 DEF Same, Fields
      <3> QED BY <2>2, <2>4, <3>1 DEF Trying
    <2>8. Same(t, u, {"ctl", "attempts", "waits"})
      BY <2>2 DEF Same
    <2> QED BY <1>1, <2>1, <2>2, <2>5, <2>6, <2>7, <2>8, StepsGood DEF Led
  <1> QED BY <1>2, <1>3

\* STATE_ATTEMPT_START goes on with the star that is selected, or selects one.
LEMMA AttemptStartGood ==
    ASSUME NEW t, NEW o, Outer(o), Good(t, o), t.ctl \in {"SETUP", "ATTEMPT_START"},
           t.attempts # 0, NEW sky \in Sky
    PROVE  Led(t, AttemptStart(t, sky), o)
  <1>1. t.ctl \in Starting /\ Quiet(t)
    BY StartingGuides DEF Starting, Good
  <1>2. CASE ~CanGuide(t)
    <2>1. AttemptStart(t, sky) = Fail(t)
      BY <1>2 DEF AttemptStart
    <2>2. Rec(t) /\ Typed(t) /\ Same(t, t, {"attempts"}) /\ t.ctl # "IDLE"
      BY DEF Good, Core, Same
    <2> QED BY <2>1, <2>2, FailGood DEF Good
  <1>3. CASE CanGuide(t) /\ IsCalibratingOrGuiding(t)
    <2>1. t.gs = "SELECTED" \/ ~CannotStart(t)
      BY <1>3 DEF CanGuide, CannotStart, IsCalibratingOrGuiding
    <2>2. Led(t, Calibrate(t), o)
      BY <1>1, <2>1, CalibrateGood
    <2>3. Led(t, SettleBegin(t), o)
      BY SettleBeginGood
    <2>4. Led(t, SetCtl(t, "CALIBRATION_WAIT"), o)
      BY <1>1, SetCtlGood
    <2>5. AttemptStart(t, sky) \in {Calibrate(t), SettleBegin(t),
                                    SetCtl(t, "CALIBRATION_WAIT")}
      BY <1>3 DEF AttemptStart
    <2> QED BY <2>2, <2>3, <2>4, <2>5
  <1>4. CASE CanGuide(t) /\ ~IsCalibratingOrGuiding(t)
    <2> DEFINE r == FullReset(t)
               c == StartCapturing(r)
    <2>1. ~t.capture => Led(t, SetCtl(c, "SELECT_STAR"), o)
      <3>1. Good(r, o) /\ Same(t, r, {"gs", "star", "lock"})
        BY <1>1, FullResetGood DEF Good
      <3> HIDE DEF r
      <3>2. /\ Good(c, o) /\ Same(r, c, {"capture", "cont", "pending", "shots"})
            /\ c.capture
            /\ r.capture => c = r
            /\ ~r.capture => c.pending
        BY <3>1, StartCapturingGood
      <3> HIDE DEF c
      <3>3. c.ctl \in Starting /\ c.attempts # 0
        BY <1>1, <3>1, <3>2 DEF Same, Fields
      <3>4. ~t.capture => Steady(t, c)
        BY <3>1, <3>2 DEF Same, Fields, Steady
      <3>5. Led(c, SetCtl(c, "SELECT_STAR"), o)
        BY <3>2, <3>3, SetCtlGood
      <3> QED BY <3>4, <3>5, SteadyTrans DEF Led
    <2>2. t.gs = "SELECTED" => Led(t, Calibrate(t), o)
      BY <1>1, CalibrateGood
    <2>3. Led(t, SetCtl(t, "SELECT_STAR"), o)
      BY <1>1, SetCtlGood
    <2>4. Led(t, SelectStar(t, sky), o)
      BY <1>1, SelectStarGood
    <2>5. AttemptStart(t, sky)
            = IF ~t.capture THEN SetCtl(c, "SELECT_STAR")
              ELSE IF t.gs = "SELECTED" THEN Calibrate(t)
              ELSE IF AutoExposure THEN SetCtl(t, "SELECT_STAR")
              ELSE SelectStar(t, sky)
      BY <1>4 DEF AttemptStart
    <2> HIDE DEF r, c
    <2> QED BY <2>1, <2>2, <2>3, <2>4, <2>5
  <1> QED BY <1>2, <1>3, <1>4

\* PhdController::UpdateControllerState rests in a state that waits for a frame.
LEMMA UpdateControllerStateGood ==
    ASSUME NEW t, NEW o, Outer(o), Good(t, o), t.ctl \in Resting, NEW sky \in Sky
    PROVE  Led(t, UpdateControllerState(t, sky), o)
  <1>1. CASE t.ctl = "ATTEMPT_START"
    <2>1. t.attempts # 0
      BY <1>1 DEF Good, Core, Trying
    <2> QED BY <1>1, <2>1, AttemptStartGood DEF UpdateControllerState
  <1>2. CASE t.ctl = "SELECT_STAR"
    <2>1. t.attempts # 0 /\ t.ctl \in Starting
      BY <1>2 DEF Good, Core, Trying, Starting
    <2> QED BY <1>2, <2>1, SelectStarGood DEF UpdateControllerState
  <1>3. CASE t.ctl = "WAIT_SELECTED"
    BY <1>3, WaitSelectedGood DEF UpdateControllerState
  <1>4. CASE t.ctl = "CALIBRATION_WAIT"
    BY <1>4, CalibrationWaitGood DEF UpdateControllerState
  <1>5. CASE t.ctl = "SETTLE_BEGIN"
    BY <1>5, SettleBeginGood DEF UpdateControllerState
  <1>6. CASE t.ctl = "SETTLE_WAIT"
    BY <1>6, SettleWaitGood DEF UpdateControllerState
  <1>7. CASE t.ctl = "IDLE"
    <2>1. UpdateControllerState(t, sky) = t
      BY <1>7 DEF UpdateControllerState
    <2> QED BY <2>1 DEF Led, Steady
  <1> QED BY <1>1, <1>2, <1>3, <1>4, <1>5, <1>6, <1>7 DEF Resting

\* A guide operation that is accepted (PhdController::Guide).
LEMMA GuideGood ==
    ASSUME NEW t, NEW o, Outer(o), Good(t, o), t.ctl = "IDLE", "guide" \in Commands,
           NEW force \in BOOLEAN, NEW sky \in Sky
    PROVE  Led(t, Guide(t, force, sky), o)
  <1> DEFINE d == [[Accept(t) EXCEPT !.ctl = "SETUP", !.op = "guide", !.force = force]
                      EXCEPT !.attempts = MaxAttempts, !.override = FALSE]
  <1>1. /\ Rec(d) /\ Same(t, d, {"client", "ctl", "op", "force", "attempts", "override"})
        /\ d.client = [t.client EXCEPT !.owed = @ + 1]
        /\ d.ctl = "SETUP" /\ d.op = "guide" /\ d.force = force
        /\ d.attempts = MaxAttempts /\ d.override = FALSE
    BY ZenonT(60) DEF Accept, Good, Core, Rec, Same, Fields
  <1>2. Guide(t, force, sky) = AttemptStart(d, sky)
    BY DEF Guide, Setup
  <1> HIDE DEF d
  <1>3. /\ d.client \in Listeners /\ d.client.guiding = t.client.guiding
        /\ d.client.owed = 1 /\ d.client.settling = FALSE /\ ~d.client.outOfTurn
    <2>1. /\ t.client \in Listeners /\ t.client.owed = 0 /\ t.client.settling = FALSE
          /\ ~t.client.outOfTurn
      BY DEF Good, Core, Typed, AnswersKept
    <2> QED BY <1>1, <2>1 DEF Listeners
  <1>4. d.attempts \in 1..3
    BY <1>1, AttemptsAssumption
  <1>5. Typed(d)
    <2>1. d.attempts \in 0..3
      BY <1>4
    <2>2. d.ctl \in ControllerStates /\ d.op \in {"none", "guide", "dither", "compat"}
      BY <1>1 DEF ControllerStates
    <2>3. d.force \in BOOLEAN /\ d.override \in BOOLEAN
      BY <1>1
    <2> QED BY <1>1, <1>3, <2>1, <2>2, <2>3, ZenonT(60) DEF Good, Core, Typed, Same, Fields
  <1>6. AnswersKept(d) /\ Trying(d)
    BY <1>1, <1>3 DEF AnswersKept, Trying
  <1>7. DecKept(d)
    <2>1. t.dec = UserDecMode
      BY DEF Good, Core, DecKept
    <2> QED BY <1>1, <2>1 DEF DecKept, Same, Fields
  <1>8. Told(d)
    BY DEF Told, Silent
  <1>9. Same(t, d, Loose \cup CtlFields) /\ Same(t, d, Elsewhere)
    BY <1>1 DEF Same, CtlFields, Elsewhere, Fields
  <1>10. Good(d, o) /\ Steady(t, d)
    BY <1>1, <1>3, <1>5, <1>6, <1>7, <1>8, <1>9, CtlOnly, SteadySame DEF Good
  <1>11. d.attempts # 0
    BY <1>4
  <1>12. Led(d, AttemptStart(d, sky), o)
    BY <1>1, <1>10, <1>11, AttemptStartGood
  <1> QED BY <1>2, <1>10, <1>12, SteadyTrans DEF Led

\* A dither that is accepted (PhdController::Dither).
LEMMA DitherGood ==
    ASSUME NEW t, NEW o, Good(t, o), t.ctl = "IDLE", NEW op \in {"dither", "compat"},
           NEW raOnly \in BOOLEAN
    PROVE  Led(t, Dither(t, op, raOnly), o)
  <1> DEFINE d == [Accept(t) EXCEPT !.ctl = "SETTLE_BEGIN", !.op = op,
                       !.override = OverridesDec(t, raOnly, op),
                       !.saveDec = IF HasAO \/ raOnly THEN "NONE" ELSE t.dec]
  <1>1. /\ Rec(d) /\ Same(t, d, {"client", "ctl", "op", "override", "saveDec"})
        /\ d.client = [t.client EXCEPT !.owed = @ + 1]
        /\ d.ctl = "SETTLE_BEGIN" /\ d.op = op
        /\ d.override = OverridesDec(t, raOnly, op)
        /\ d.saveDec = IF HasAO \/ raOnly THEN "NONE" ELSE t.dec
    BY ZenonT(60) DEF Accept, Good, Core, Rec, Same, Fields
  <1>2. Dither(t, op, raOnly) = SettleBegin(d)
    BY DEF Dither
  <1> HIDE DEF d
  <1>3. /\ d.client \in Listeners /\ d.client.guiding = t.client.guiding
        /\ d.client.owed = 1 /\ d.client.settling = FALSE /\ ~d.client.outOfTurn
    <2>1. /\ t.client \in Listeners /\ t.client.owed = 0 /\ t.client.settling = FALSE
          /\ ~t.client.outOfTurn
      BY DEF Good, Core, Typed, AnswersKept
    <2> QED BY <1>1, <2>1 DEF Listeners
  <1>4. t.dec = UserDecMode /\ t.dec \in DecModes
    BY DEF Good, Core, DecKept, Typed
  <1>5. d.override \in BOOLEAN /\ (d.override => ~HasAO /\ ~raOnly)
    <2>1. d.override \in BOOLEAN
      BY <1>1 DEF OverridesDec
    <2>2. d.override => ~HasAO /\ ~raOnly
      BY <1>1 DEF OverridesDec
    <2> QED BY <2>1, <2>2
  <1>6. Typed(d)
    <2>1. d.ctl \in ControllerStates /\ d.op \in {"none", "guide", "dither", "compat"}
      BY <1>1 DEF ControllerStates
    <2>2. d.saveDec \in DecModes
      BY <1>1, <1>4 DEF DecModes
    <2> QED BY <1>1, <1>3, <1>5, <2>1, <2>2, ZenonT(60) DEF Good, Core, Typed, Same, Fields
  <1>7. AnswersKept(d) /\ Trying(d)
    BY <1>1, <1>3 DEF AnswersKept, Trying
  <1>8. DecKept(d)
    <2>1. d.override => d.saveDec = UserDecMode
      BY <1>1, <1>4, <1>5
    <2>2. d.dec = t.dec
      BY <1>1 DEF Same, Fields
    <2> QED BY <1>1, <1>4, <2>1, <2>2 DEF DecKept
  <1>9. Told(d)
    BY <1>1, <1>3 DEF Good, Core, Told, AllCalibrated, IsCalibratingOrGuiding, MountsIdle,
                      Same, Fields
  <1>10. Same(t, d, Loose \cup CtlFields) /\ Same(t, d, Elsewhere)
    BY <1>1 DEF Same, CtlFields, Elsewhere, Fields
  <1>11. Good(d, o) /\ Steady(t, d)
    BY <1>1, <1>3, <1>6, <1>7, <1>8, <1>9, <1>10, CtlOnly, SteadySame DEF Good
  <1>12. Led(d, SettleBegin(d), o)
    BY <1>1, <1>11, SettleBeginGood
  <1> QED BY <1>2, <1>11, <1>12, SteadyTrans DEF Led

-------------------------------------------------------------------------------
(* MyFrame's handlers.                                                     *)

\* CaptureAlive, and CaptureCleared.
Alive(t) ==
    /\ t.capture /\ t.cont => t.pending \/ t.pause = "full"
    /\ "pause_full" \notin Commands => /\ t.pause # "full"
                                       /\ t.capture /\ ~t.cont => t.pending

\* What a handler leaves.
Left(t, u, o) ==
    Good(u, o) /\ Alive(u) /\ u.ctl \in Resting /\ u.step = t.step /\ u.pulses = t.pulses

\* What the controller leads to is what a handler may leave.
LEMMA LedLeft ==
    ASSUME NEW t, NEW u, NEW o, Alive(t), Led(t, u, o) PROVE Left(t, u, o)
  BY DEF Alive, Led, Steady, Left

\* The fields a handler of the guider or of the controller leaves alone.
LEMMA LeftSame ==
    ASSUME NEW t, NEW u, NEW o, Alive(t), t.ctl \in Resting, Good(u, o),
           u.ctl \in {t.ctl, "IDLE"}, Same(t, u, Elsewhere)
    PROVE  Left(t, u, o)
  <1>1. Steady(t, u)
    BY SteadySame
  <1> QED BY <1>1 DEF Alive, Steady, Left, Resting

\* MyFrame::FinishStop ends the capture, and the operation.
LEMMA FinishStopGood ==
    ASSUME NEW t, NEW o, Good(t, o)
    PROVE  LET u == FinishStop(t) IN
           Good(u, o) /\ Same(t, u, CtlFields \cup {"single"}) /\ u.ctl = "IDLE"
  <1> DEFINE d == [t EXCEPT !.single = FALSE]
  <1>1. Rec(d) /\ Same(t, d, {"single"}) /\ d.single = FALSE
    BY DEF Good, Core, Rec, Same, Fields
  <1> HIDE DEF d
  <1>2. Typed(d)
    <2>1. d.single \in BOOLEAN
      BY <1>1
    <2> QED BY <1>1, <2>1 DEF Good, Core, Typed, Same, Fields
  <1>3. Good(d, o)
    BY <1>1, <1>2, LooseOnly DEF Same, Loose
  <1>4. FinishStop(t) = AbortController(d)
    <2>1. Tell(d, "LoopingStopped") = d
      BY <1>1, TellNeutral DEF Neutral
    <2> QED BY <2>1 DEF FinishStop, d
  <1>5. LET u == AbortController(d)
        IN /\ Core(u, o) /\ Same(d, u, CtlFields) /\ u.ctl = "IDLE"
           /\ Ready(d) => Ready(u)
           /\ Guided(d) => Guided(u)
    BY <1>3, AbortGood DEF Good
  <1> QED BY <1>1, <1>3, <1>4, <1>5 DEF Good, Same

\* Pausing keeps the invariant (MyFrame::SetPaused).
LEMMA PauseGood ==
    ASSUME NEW t, NEW o, Good(t, o), NEW p \in {"none", "guiding", "full"}
    PROVE  LET u == [t EXCEPT !.pause = p] IN
           /\ Good(u, o) /\ Same(t, u, {"pause"}) /\ u.pause = p
           /\ \A e \in Neutral : Tell(u, e) = u
  <1> DEFINE u == [t EXCEPT !.pause = p]
  <1>1. Rec(u) /\ Same(t, u, {"pause"}) /\ u.pause = p
    BY DEF Good, Core, Rec, Same, Fields
  <1> HIDE DEF u
  <1>2. Typed(u)
    BY <1>1 DEF Good, Core, Typed, Same, Fields
  <1>3. Good(u, o)
    BY <1>1, <1>2, LooseOnly DEF Same, Loose
  <1> QED BY <1>1, <1>3, TellNeutral DEF u

\* A pause that ends has an exposure again, if images are wanted.
LEMMA ResumeGood ==
    ASSUME NEW t, NEW o, Outer(o), Good(t, o)
    PROVE  LET u == SetPausedNone(t) IN
           /\ Good(u, o) /\ Same(t, u, {"pause", "pending", "shots"}) /\ u.pause = "none"
           /\ t.pending => u.pending
           /\ t.pause # "none" /\ t.cont => u.pending
           /\ ~t.cont => u.pending = t.pending
  <1> DEFINE d == [t EXCEPT !.pause = "none"]
             e == ScheduleExposure(d)
  <1>1. /\ Good(d, o) /\ Same(t, d, {"pause"}) /\ d.pause = "none"
        /\ \A ev \in Neutral : Tell(d, ev) = d
    BY PauseGood
  <1>2. CASE t.pause = "none"
    BY <1>2 DEF SetPausedNone, IsPaused, Same
  <1>3. CASE t.pause # "none"
    <2>1. SetPausedNone(t) = Tell(IF d.cont /\ ~d.pending THEN e ELSE d, "Resumed")
      BY <1>3 DEF SetPausedNone, IsPaused
    <2> HIDE DEF d
    <2>2. CASE d.cont /\ ~d.pending
      <3>1. d.capture
        BY <1>1, <2>2 DEF Good, Core, Capturing
      <3>2. Good(e, o) /\ Same(d, e, {"pending", "shots"}) /\ e.pending = TRUE
        BY <1>1, <2>2, <3>1, ExposureGood
      <3> HIDE DEF e
      <3>3. Tell(e, "Resumed") = e
        BY <3>2, TellNeutral DEF Good, Core, Neutral
      <3> QED BY <1>1, <2>1, <2>2, <3>2, <3>3 DEF Same, Fields
    <2>3. CASE ~(d.cont /\ ~d.pending)
      <3>1. SetPausedNone(t) = d
        BY <1>1, <2>1, <2>3 DEF Neutral
      <3> QED BY <1>1, <2>3, <3>1 DEF Same, Fields
    <2> QED BY <2>2, <2>3
  <1> QED BY <1>2, <1>3

\* Pausing or resuming keeps the invariant (MyFrame::SetPaused).
LEMMA SetPausedGood ==
    ASSUME NEW t, NEW o, Outer(o), Good(t, o), Alive(t), t.ctl \in Resting,
           NEW p \in {"none", "guiding", "full"},
           p = "full" => "pause_full" \in Commands
    PROVE  Left(t, SetPaused(t, p), o)
  <1> DEFINE d == [t EXCEPT !.pause = p]
  <1>1. CASE p = "none"
    <2> DEFINE u == SetPausedNone(t)
    <2>1. /\ Good(u, o) /\ Same(t, u, {"pause", "pending", "shots"}) /\ u.pause = "none"
          /\ t.pending => u.pending
          /\ t.pause # "none" /\ t.cont => u.pending
      BY ResumeGood
    <2>2. SetPaused(t, p) = u
      BY <1>1 DEF SetPaused
    <2> HIDE DEF u
    <2>3. /\ u.capture = t.capture /\ u.cont = t.cont /\ u.ctl = t.ctl
          /\ u.step = t.step /\ u.pulses = t.pulses
      BY <2>1 DEF Same, Fields
    <2>4. Alive(u)
      BY <2>1, <2>3 DEF Alive
    <2> QED BY <2>1, <2>2, <2>3, <2>4 DEF Left
  <1>2. CASE p # "none" /\ t.pause # "none"
    <2>1. SetPaused(t, p) = t
      BY <1>2 DEF SetPaused, IsPaused
    <2> QED BY <2>1 DEF Left
  <1>3. CASE p # "none" /\ t.pause = "none"
    <2>1. /\ Good(d, o) /\ Same(t, d, {"pause"}) /\ d.pause = p
          /\ \A e \in Neutral : Tell(d, e) = d
      BY PauseGood
    <2>2. SetPaused(t, p) = d
      BY <1>3, <2>1 DEF SetPaused, IsPaused, Neutral
    <2> HIDE DEF d
    <2>3. /\ d.capture = t.capture /\ d.cont = t.cont /\ d.pending = t.pending
          /\ d.ctl = t.ctl /\ d.step = t.step /\ d.pulses = t.pulses
      BY <2>1 DEF Same, Fields
    <2>4. Alive(d)
      BY <1>3, <2>1, <2>3 DEF Alive
    <2> QED BY <2>1, <2>2, <2>3, <2>4 DEF Left
  <1> QED BY <1>1, <1>2, <1>3

\* A capture is told to end: with no exposure pending it is over.
LEMMA ContGood ==
    ASSUME NEW t, NEW o, Good(t, o)
    PROVE  LET u == [t EXCEPT !.cont = FALSE] IN
           Good(u, o) /\ Same(t, u, {"cont"}) /\ u.cont = FALSE
  <1> DEFINE u == [t EXCEPT !.cont = FALSE]
  <1>1. Rec(u) /\ Same(t, u, {"cont"}) /\ u.cont = FALSE
    BY DEF Good, Core, Rec, Same, Fields
  <1> HIDE DEF u
  <1>2. Typed(u)
    <2>1. u.cont \in BOOLEAN
      BY <1>1
    <2> QED BY <1>1, <2>1 DEF Good, Core, Typed, Same, Fields
  <1>3. Capturing(u)
    BY <1>1 DEF Good, Core, Capturing, Same, Fields
  <1>4. AnswersKept(u) /\ Trying(u) /\ DecKept(u) /\ Guided(u)
    BY <1>1 DEF Good, Core, AnswersKept, Trying, DecKept, Guided, Same, Fields
  <1>5. Told(u)
    BY <1>1 DEF Good, Core, Told, AllCalibrated, IsCalibratingOrGuiding, MountsIdle,
                Same, Fields
  <1>6. Ready(u)
    BY <1>1 DEF Good, Ready, ValidStar, AllCalibrated, Same, Fields
  <1>7. Queue(u, o)
    BY <1>1 DEF Good, Core, Queue, Same, Fields
  <1> QED BY <1>1, <1>2, <1>3, <1>4, <1>5, <1>6, <1>7 DEF Good, Core, u

\* Clearing CaptureActive with no exposure pending keeps the invariant.
LEMMA CaptureGood ==
    ASSUME NEW t, NEW o, Good(t, o), NEW b \in BOOLEAN, ~t.pending, ~b => ~t.cont
    PROVE  LET u == [t EXCEPT !.capture = b] IN
           Good(u, o) /\ Same(t, u, {"capture"}) /\ u.capture = b
  <1> DEFINE u == [t EXCEPT !.capture = b]
  <1>1. Rec(u) /\ Same(t, u, {"capture"}) /\ u.capture = b
    BY DEF Good, Core, Rec, Same, Fields
  <1> HIDE DEF u
  <1>2. Typed(u)
    BY <1>1 DEF Good, Core, Typed, Same, Fields
  <1>3. Capturing(u)
    BY <1>1 DEF Good, Core, Capturing, Same, Fields
  <1>4. AnswersKept(u) /\ Trying(u) /\ DecKept(u) /\ Guided(u)
    BY <1>1 DEF Good, Core, AnswersKept, Trying, DecKept, Guided, Same, Fields
  <1>5. Told(u)
    BY <1>1 DEF Good, Core, Told, AllCalibrated, IsCalibratingOrGuiding, MountsIdle,
                Same, Fields
  <1>6. Ready(u)
    BY <1>1 DEF Good, Ready, ValidStar, AllCalibrated, Same, Fields
  <1>7. Queue(u, o)
    BY <1>1 DEF Good, Core, Queue, Same, Fields
  <1> QED BY <1>1, <1>2, <1>3, <1>4, <1>5, <1>6, <1>7 DEF Good, Core, u

\* MyFrame::StopCapturing ends the capture at once or leaves it to the exposure that is
\* pending.
LEMMA StopCapturingGood ==
    ASSUME NEW t, NEW o, Outer(o), Good(t, o)
    PROVE  LET u == StopCapturing(t) IN
           /\ Good(u, o) /\ u.ctl \in {t.ctl, "IDLE"}
           /\ u.step = t.step /\ u.pulses = t.pulses /\ u.pause = "none"
           /\ ~u.cont /\ u.pending = t.pending
           /\ u.capture = (t.capture /\ (t.pending \/ ~t.cont))
  <1> DEFINE c == [t EXCEPT !.cont = FALSE]
             r == IF IsPaused(t) THEN SetPausedNone(c) ELSE t
             d == [r EXCEPT !.cont = FALSE]
             i == [d EXCEPT !.capture = FALSE]
             g == StopGuiding(i)
             h == IF IsCalibratingOrGuiding(i) THEN g ELSE i
  <1>1. Good(c, o) /\ Same(t, c, {"cont"}) /\ c.cont = FALSE
    BY ContGood
  <1>2. StopCapturing(t) = IF ~t.cont /\ ~t.pending THEN r
                           ELSE IF d.pending THEN d ELSE FinishStop(h)
    BY DEF StopCapturing
  <1> HIDE DEF c
  <1>3. /\ Good(r, o) /\ r.pause = "none" /\ r.pending = t.pending
        /\ r.capture = t.capture /\ r.ctl = t.ctl /\ r.step = t.step /\ r.pulses = t.pulses
        /\ ~t.cont => ~r.cont
    <2>1. CASE IsPaused(t)
      <3> DEFINE n == SetPausedNone(c)
      <3>1. /\ Good(n, o) /\ Same(c, n, {"pause", "pending", "shots"}) /\ n.pause = "none"
            /\ ~c.cont => n.pending = c.pending
        BY <1>1, ResumeGood
      <3> HIDE DEF n
      <3>2. r = n
        BY <2>1 DEF n
      <3> HIDE DEF r
      <3> QED BY <1>1, <3>1, <3>2 DEF Same, Fields
    <2>2. CASE ~IsPaused(t)
      BY <2>2 DEF IsPaused
    <2> QED BY <2>1, <2>2
  <1> HIDE DEF r
  <1>4. Good(d, o) /\ Same(r, d, {"cont"}) /\ d.cont = FALSE
    BY <1>3, ContGood
  <1> HIDE DEF d
  <1>5. /\ d.pause = "none" /\ d.pending = t.pending /\ d.capture = t.capture
        /\ d.ctl = t.ctl /\ d.step = t.step /\ d.pulses = t.pulses
    BY <1>3, <1>4 DEF Same, Fields
  <1>6. t.capture \in BOOLEAN /\ t.cont \in BOOLEAN /\ t.pending \in BOOLEAN
    BY DEF Good, Core, Typed
  <1>7. CASE ~t.cont /\ ~t.pending
    BY <1>2, <1>3, <1>6, <1>7
  <1>8. CASE t.pending
    BY <1>2, <1>4, <1>5, <1>6, <1>8
  <1>9. CASE t.cont /\ ~t.pending
    <2>1. Good(i, o) /\ Same(d, i, {"capture"}) /\ i.capture = FALSE
      BY <1>4, <1>5, <1>9, CaptureGood
    <2> HIDE DEF i
    <2>2. /\ Good(g, o) /\ Same(i, g, StopFields) /\ g.ctl \in {i.ctl, "IDLE"}
      BY <2>1, StopGuidingGood DEF Good
    <2> HIDE DEF g
    <2>3. Good(h, o) /\ Same(i, h, StopFields)
      BY <2>1, <2>2 DEF Same
    <2> HIDE DEF h
    <2>4. LET u == FinishStop(h) IN
          Good(u, o) /\ Same(h, u, CtlFields \cup {"single"}) /\ u.ctl = "IDLE"
      BY <2>3, FinishStopGood
    <2> DEFINE u == FinishStop(h)
    <2>5. Good(u, o) /\ Same(h, u, CtlFields \cup {"single"}) /\ u.ctl = "IDLE"
      BY <2>4
    <2>6. StopCapturing(t) = u
      BY <1>2, <1>5, <1>9
    <2> HIDE DEF u
    <2>7. /\ u.pause = d.pause /\ u.pending = d.pending /\ u.cont = d.cont
          /\ u.capture = i.capture /\ u.step = d.step /\ u.pulses = d.pulses
      BY <2>1, <2>3, <2>5 DEF Same, Fields, StopFields, CtlFields
    <2> QED BY <1>4, <1>5, <1>9, <2>1, <2>5, <2>6, <2>7
  <1> QED BY <1>6, <1>7, <1>8, <1>9

\* The same, as what a handler leaves.
LEMMA StopLeft ==
    ASSUME NEW t, NEW o, Outer(o), Good(t, o), Alive(t), t.ctl \in Resting
    PROVE  Left(t, StopCapturing(t), o)
  <1> DEFINE u == StopCapturing(t)
  <1>1. /\ Good(u, o) /\ u.ctl \in {t.ctl, "IDLE"}
        /\ u.step = t.step /\ u.pulses = t.pulses /\ u.pause = "none"
        /\ ~u.cont /\ u.pending = t.pending
        /\ u.capture = (t.capture /\ (t.pending \/ ~t.cont))
    BY StopCapturingGood
  <1> HIDE DEF u
  <1>2. Alive(u)
    BY <1>1 DEF Alive
  <1> QED BY <1>1, <1>2 DEF Left, Resting, u

\* MyFrame::StartLooping starts the capture, or stops guiding.
LEMMA StartLoopingGood ==
    ASSUME NEW t, NEW o, Outer(o), Good(t, o), Alive(t), t.ctl \in Resting
    PROVE  Left(t, StartLooping(t), o)
  <1> DEFINE c == StartCapturing(t)
             g == StopGuiding(t)
  <1>1. ~t.capture => Left(t, c, o)
    <2>1. /\ Good(c, o) /\ Same(t, c, {"capture", "cont", "pending", "shots"})
          /\ c.capture
          /\ t.capture => c = t
          /\ ~t.capture => c.pending
      BY StartCapturingGood
    <2> HIDE DEF c
    <2>2. ~t.capture => Steady(t, c)
      BY <2>1 DEF Same, Fields, Steady
    <2>3. c.ctl = t.ctl
      BY <2>1 DEF Same, Fields
    <2> QED BY <2>1, <2>2, <2>3, LedLeft DEF Led
  <1>2. Left(t, g, o)
    <2>1. Good(g, o) /\ Same(t, g, StopFields) /\ g.ctl \in {t.ctl, "IDLE"}
      BY StopGuidingGood DEF Good
    <2> HIDE DEF g
    <2>2. Same(t, g, Elsewhere)
      BY <2>1 DEF Same, StopFields, CtlFields, Elsewhere, Fields
    <2> QED BY <2>1, <2>2, LeftSame
  <1>3. Left(t, t, o)
    BY DEF Left
  <1>4. StartLooping(t) = IF ~t.capture THEN c
                          ELSE IF IsCalibratingOrGuiding(t) THEN g ELSE t
    BY DEF StartLooping
  <1> HIDE DEF c, g
  <1> QED BY <1>1, <1>2, <1>3, <1>4

\* A capture error stops the capture, resets the guider and aborts the controller.
LEMMA CaptureFailedGood ==
    ASSUME NEW t, NEW o, Outer(o), Good(t, o), ~t.pending, t.ctl \in Resting
    PROVE  Left(t, CaptureFailed(t), o)
  <1> DEFINE a == StopCapturing(t)
             g == StopGuiding(a)
             b == IF IsCalibratingOrGuiding(a) THEN g ELSE a
             c == [b EXCEPT !.single = FALSE]
             e == Uninitialize(c)
             h == [e EXCEPT !.capture = e.cont]
             u == AbortController(h)
  <1>1. /\ Good(a, o) /\ a.step = t.step /\ a.pulses = t.pulses /\ a.pause = "none"
        /\ ~a.cont /\ ~a.pending
    BY StopCapturingGood
  <1>2. CaptureFailed(t)
          = LET w == Uninitialize(Tell(c, "LoopingStopped"))
            IN AbortController([w EXCEPT !.capture = w.cont])
    BY DEF CaptureFailed, Reset
  <1> HIDE DEF a
  <1>3. Good(b, o) /\ Same(a, b, StopFields) /\ b.gs \in Unguided
    <2>1. Good(g, o) /\ Same(a, g, StopFields) /\ g.gs \in Unguided
      BY <1>1, StopGuidingGood DEF Good, Unguided
    <2>2. ~IsCalibratingOrGuiding(a) => a.gs \in Unguided
      BY DEF IsCalibratingOrGuiding, Unguided
    <2> HIDE DEF g
    <2> QED BY <1>1, <2>1, <2>2 DEF Same
  <1> HIDE DEF b
  <1>4. Good(c, o) /\ Same(b, c, {"single"})
    <2>1. Rec(c) /\ Same(b, c, {"single"}) /\ c.single = FALSE
      BY <1>3 DEF Good, Core, Rec, Same, Fields
    <2> HIDE DEF c
    <2>2. Typed(c)
      <3>1. c.single \in BOOLEAN
        BY <2>1
      <3> QED BY <1>3, <2>1, <3>1, ZenonT(60) DEF Good, Core, Typed, Same, Fields
    <2> QED BY <1>3, <2>1, <2>2, LooseOnly DEF Same, Loose
  <1> HIDE DEF c
  <1>5. Tell(c, "LoopingStopped") = c
    BY <1>4, TellNeutral DEF Good, Core, Neutral
  <1>6. Good(e, o) /\ Same(c, e, {"gs", "star", "lock"})
    <2>1. Core(c, o) /\ c.gs \in Unguided
      BY <1>3, <1>4 DEF Good, Same, Fields
    <2> QED BY <2>1, UnguidedQuiet, UninitializeGood
  <1> HIDE DEF e
  <1>7. e.cont = a.cont /\ e.pending = a.pending
    BY <1>3, <1>4, <1>6 DEF Same, Fields, StopFields, CtlFields
  <1>8. Good(h, o) /\ Same(e, h, {"capture"}) /\ h.capture = e.cont
    <2>1. e.cont \in BOOLEAN
      BY <1>6 DEF Good, Core, Typed
    <2> QED BY <1>1, <1>6, <1>7, <2>1, CaptureGood
  <1>9. CaptureFailed(t) = u
    BY <1>2, <1>5 DEF e
  <1> HIDE DEF h
  <1>10. Good(u, o) /\ Same(h, u, CtlFields) /\ u.ctl = "IDLE"
    BY <1>8, AbortGood DEF Good
  <1> HIDE DEF u
  <1>11. ~u.capture /\ u.pause = "none" /\ u.step = t.step /\ u.pulses = t.pulses
    BY <1>1, <1>3, <1>4, <1>6, <1>7, <1>8, <1>10 DEF Same, Fields, StopFields, CtlFields
  <1> QED BY <1>9, <1>10, <1>11 DEF Left, Alive, Resting

\* A frame: the guider sees it, then the controller goes on, then the next exposure is
\* scheduled or the capture has ended.
LEMMA NewImageGood ==
    ASSUME NEW t, NEW o, FrameTime(t, o), ~t.pending, t.capture, t.ctl \in Resting,
           "pause_full" \notin Commands => t.pause # "full", NEW sky \in Sky
    PROVE  Left(t, NewImage(t, sky), o)
  <1> DEFINE f == [t EXCEPT !.image = TRUE]
             g == UpdateGuideState(f, sky, ~f.cont)
             c == UpdateControllerState(g, sky)
             h == [c EXCEPT !.capture = c.cont]
             e == ScheduleExposure(h)
             z == FinishStop(h)
  <1>1. Outer(o) /\ Good(t, o)
    BY DEF FrameTime
  <1>2. FrameTime(f, o) /\ Same(t, f, {"image"})
    <2>1. Rec(f) /\ Same(t, f, {"image"}) /\ f.image = TRUE
      BY <1>1 DEF Good, Core, Rec, Same, Fields
    <2> HIDE DEF f
    <2>2. Typed(f)
      <3>1. f.image \in BOOLEAN
        BY <2>1
      <3> QED BY <1>1, <2>1, <3>1 DEF Good, Core, Typed, Same, Fields
    <2>3. Good(f, o)
      BY <1>1, <2>1, <2>2, LooseOnly DEF Same, Loose
    <2> QED BY <2>1, <2>3 DEF FrameTime, Same, Fields
  <1>3. NewImage(t, sky) = IF h.capture THEN e ELSE z
    BY DEF NewImage
  <1> HIDE DEF f
  <1>4. Good(g, o) /\ Same(f, g, Elsewhere) /\ g.ctl \in {f.ctl, "IDLE"}
    <2>1. CASE f.cont
      <3> DEFINE w == UpdateGuideState(f, sky, FALSE)
      <3>1. Good(w, o) /\ Same(f, w, FrameFields)
        BY <1>2, FrameGood
      <3>2. (~f.cont) = FALSE
        BY <2>1
      <3>3. g = w
        BY <3>2
      <3> HIDE DEF w, g
      <3> QED BY <3>1, <3>3 DEF Same, FrameFields, Elsewhere, Fields
    <2>2. CASE ~f.cont
      <3> DEFINE w == StopGuiding(f)
      <3>1. Good(w, o) /\ Same(f, w, StopFields) /\ w.ctl \in {f.ctl, "IDLE"}
        BY <1>1, <1>2, StopGuidingGood DEF Good, FrameTime
      <3>2. g = w
        BY <2>2 DEF UpdateGuideState
      <3> HIDE DEF w, g
      <3> QED BY <3>1, <3>2 DEF Same, StopFields, CtlFields, Elsewhere, Fields
    <2> QED BY <2>1, <2>2
  <1> HIDE DEF g
  <1>5. g.ctl \in Resting /\ Steady(f, g)
    <2>1. f.ctl = t.ctl
      BY <1>2 DEF Same, Fields
    <2> QED BY <1>4, <2>1, SteadySame DEF Resting
  <1>6. Led(g, c, o)
    BY <1>1, <1>4, <1>5, UpdateControllerStateGood
  <1> HIDE DEF c
  <1>7. /\ Good(c, o) /\ c.ctl \in Resting /\ c.step = t.step /\ c.pulses = t.pulses
        /\ c.pause = t.pause /\ ~c.pending
    <2>1. /\ f.capture = t.capture /\ f.cont = t.cont /\ f.pending = t.pending
          /\ f.pause = t.pause /\ f.step = t.step /\ f.pulses = t.pulses
      BY <1>2 DEF Same, Fields
    <2> QED BY <1>5, <1>6, <2>1 DEF Led, Steady
  <1>8. Good(h, o) /\ Same(c, h, {"capture"}) /\ h.capture = c.cont
    <2>1. c.cont \in BOOLEAN
      BY <1>7 DEF Good, Core, Typed
    <2> QED BY <1>7, <2>1, CaptureGood
  <1> HIDE DEF h
  <1>9. /\ h.ctl \in Resting /\ h.step = t.step /\ h.pulses = t.pulses
        /\ h.pause = t.pause /\ ~h.pending
    BY <1>7, <1>8 DEF Same, Fields
  <1>10. CASE h.capture
    <2>1. Good(e, o) /\ Same(h, e, {"pending", "shots"}) /\ e.pending = TRUE
      BY <1>1, <1>8, <1>9, <1>10, ExposureGood
    <2> HIDE DEF e
    <2>2. /\ e.ctl \in Resting /\ e.step = t.step /\ e.pulses = t.pulses
          /\ e.pause = t.pause
      BY <1>9, <2>1 DEF Same, Fields
    <2> QED BY <1>3, <1>10, <2>1, <2>2 DEF Left, Alive
  <1>11. CASE ~h.capture
    <2>1. Good(z, o) /\ Same(h, z, CtlFields \cup {"single"}) /\ z.ctl = "IDLE"
      BY <1>8, FinishStopGood
    <2> HIDE DEF z
    <2>2. /\ z.capture = h.capture /\ z.step = t.step /\ z.pulses = t.pulses
          /\ z.pause = t.pause
      BY <1>9, <2>1 DEF Same, Fields, CtlFields
    <2> QED BY <1>3, <1>11, <2>1, <2>2 DEF Left, Alive, Resting
  <1> QED BY <1>10, <1>11

\* The whole of MyFrame::OnExposeComplete, on a record with no exposure pending.
LEMMA OnExposeCompleteGood ==
    ASSUME NEW f, NEW o, NEW err \in BOOLEAN, NEW sky \in Sky,
           FrameTime([f EXCEPT !.pending = FALSE], o),
           LET t == [f EXCEPT !.pending = FALSE]
           IN /\ ~t.pending /\ t.capture /\ t.ctl \in Resting
              /\ "pause_full" \notin Commands => t.pause # "full"
    PROVE  Left([f EXCEPT !.pending = FALSE], OnExposeComplete(f, err, sky), o)
  <1> DEFINE t == [f EXCEPT !.pending = FALSE]
  <1>1. /\ FrameTime(t, o) /\ ~t.pending /\ t.capture /\ t.ctl \in Resting
        /\ "pause_full" \notin Commands => t.pause # "full"
    OBVIOUS
  <1>2. OnExposeComplete(f, err, sky)
          = IF t.pause = "full" THEN t ELSE IF err THEN CaptureFailed(t) ELSE NewImage(t, sky)
    BY DEF OnExposeComplete
  <1> HIDE DEF t
  <1>3. t.pause = "full" => Left(t, t, o)
    BY <1>1 DEF Left, Alive, FrameTime
  <1>4. Left(t, CaptureFailed(t), o)
    BY <1>1, CaptureFailedGood DEF FrameTime
  <1>5. Left(t, NewImage(t, sky), o)
    BY <1>1, NewImageGood
  <1>6. Left(t, OnExposeComplete(f, err, sky), o)
    BY <1>2, <1>3, <1>4, <1>5
  <1> QED BY <1>6 DEF t

\* A reconnected camera exposes again; otherwise the capture fails
\* (MyFrame::DoTryReconnect).
LEMMA DoTryReconnectGood ==
    ASSUME NEW f, NEW o, Rec(f), NEW reconnected \in BOOLEAN,
           FrameTime([f EXCEPT !.pending = FALSE], o),
           LET t == [f EXCEPT !.pending = FALSE]
           IN /\ ~t.pending /\ t.capture /\ t.ctl \in Resting
              /\ "pause_full" \notin Commands => t.pause # "full"
    PROVE  Left([f EXCEPT !.pending = FALSE], DoTryReconnect(f, reconnected), o)
  <1> DEFINE t == [f EXCEPT !.pending = FALSE]
             c == [f EXCEPT !.camera = reconnected]
             u == [c EXCEPT !.pending = FALSE]
             e == ScheduleExposure(u)
  <1>1. /\ FrameTime(t, o) /\ ~t.pending /\ t.capture /\ t.ctl \in Resting
        /\ "pause_full" \notin Commands => t.pause # "full"
    OBVIOUS
  <1>2. /\ Rec(u) /\ Same(t, u, {"camera"}) /\ u.camera = reconnected
    BY DEF Rec, Same, Fields
  <1>3. DoTryReconnect(f, reconnected)
          = IF reconnected THEN e ELSE OnExposeComplete(c, TRUE, NoSky)
    BY DEF DoTryReconnect
  <1> HIDE DEF t
  <1>4. FrameTime(u, o)
    <2> HIDE DEF u
    <2>1. Typed(u)
      <3>1. u.camera \in BOOLEAN
        BY <1>2
      <3> QED BY <1>1, <1>2, <3>1, ZenonT(60) DEF FrameTime, Good, Core, Typed, Same, Fields
    <2>2. Good(u, o)
      BY <1>1, <1>2, <2>1, LooseOnly DEF FrameTime, Same, Loose
    <2> QED BY <1>1, <1>2, <2>2 DEF FrameTime, Same, Fields
  <1>5. /\ ~u.pending /\ u.capture /\ u.ctl \in Resting /\ u.pause = t.pause
        /\ u.step = t.step /\ u.pulses = t.pulses
    <2> HIDE DEF u
    <2> QED BY <1>1, <1>2 DEF Same, Fields
  <1>6. Left(u, OnExposeComplete(c, TRUE, NoSky), o)
    <2>1. NoSky \in Sky
      BY DEF NoSky, Sky
    <2> HIDE DEF c
    <2> QED BY <1>1, <1>4, <1>5, <2>1, OnExposeCompleteGood
  <1> HIDE DEF u
  <1>7. Left(u, e, o)
    <2>1. Good(e, o) /\ Same(u, e, {"pending", "shots"}) /\ e.pending = TRUE
      BY <1>4, <1>5, ExposureGood DEF FrameTime
    <2> HIDE DEF e
    <2>2. /\ e.ctl \in Resting /\ e.step = u.step /\ e.pulses = u.pulses
          /\ e.pause = t.pause
      BY <1>5, <2>1 DEF Same, Fields
    <2> QED BY <1>1, <2>1, <2>2 DEF Left, Alive
  <1>8. Left(u, DoTryReconnect(f, reconnected), o)
    BY <1>3, <1>6, <1>7
  <1>9. Left(t, DoTryReconnect(f, reconnected), o)
    BY <1>5, <1>8 DEF Left
  <1> QED BY <1>9 DEF t

\* A failed move stops guiding, or starts it again.
LEMMA MoveFailedGood ==
    ASSUME NEW t, NEW o, Outer(o), Good(t, o), NEW result
    PROVE  LET u == MoveFailed(t, result) IN
           Good(u, o) /\ Same(t, u, StopFields) /\ u.ctl \in {t.ctl, "IDLE"}
  <1> DEFINE a == StopGuiding(t)
             g == GuiderStart(a)
  <1>1. Good(a, o) /\ Same(t, a, StopFields) /\ a.ctl \in {t.ctl, "IDLE"}
    BY StopGuidingGood DEF Good
  <1>2. MoveFailed(t, result) \in {a, g, t}
    BY DEF MoveFailed
  <1> HIDE DEF a
  <1>3. Good(g, o) /\ Same(a, g, {"gs", "star", "lock"})
    BY <1>1, GuiderStartGood DEF Good
  <1> HIDE DEF g
  <1>4. Same(t, g, StopFields) /\ g.ctl = a.ctl
    BY <1>1, <1>3 DEF Same, Fields, StopFields, CtlFields
  <1> QED BY <1>1, <1>2, <1>3, <1>4 DEF Same

\* The last outstanding move tells the end of guiding.
LEMMA MoveReportedGood ==
    ASSUME NEW b, NEW o, Outer(o), NEW m \in Mounts, NEW result,
           Bare(b, o), Ready(b), Guided(b), Alive(b), b.ctl \in Resting,
           Commands \cap Silent = {} => (b.client.guiding => AllCalibrated(b)),
           b.step[m] => b.client.guiding
    PROVE  LET logged == LogGuideStepInfo(b, m)
               told == IF ~IsCalibratingOrGuiding(logged) /\ MountsIdle(logged)
                       THEN NotifyGuidingStopped(logged) ELSE logged
               u == MoveFailed(told, result)
           IN /\ Good(u, o) /\ Alive(u) /\ u.ctl \in Resting /\ u.pulses = b.pulses
              /\ u.step = [b.step EXCEPT ![m] = FALSE]
  <1> DEFINE n == [b EXCEPT !.step[m] = FALSE]
             l == LogGuideStepInfo(b, m)
             d == NotifyGuidingStopped(l)
             k == IF ~IsCalibratingOrGuiding(l) /\ MountsIdle(l) THEN d ELSE l
             u == MoveFailed(k, result)
  <1>4. /\ Rec(l) /\ Same(b, l, {"step", "client"})
        /\ l.step = [b.step EXCEPT ![m] = FALSE]
        /\ l.client = IF b.step[m] THEN Hear(b.client, "GuideStep") ELSE b.client
    <2>1. CASE b.step[m]
      <3>1. l = Tell(n, "GuideStep")
        BY <2>1 DEF LogGuideStepInfo
      <3>2. Rec(n) /\ Same(b, n, {"step"}) /\ n.step = [b.step EXCEPT ![m] = FALSE]
        BY DEF Bare, Rec, Same, Fields
      <3> HIDE DEF n
      <3> QED BY <2>1, <3>1, <3>2 DEF Tell, Rec, Same, Fields
    <2>2. CASE ~b.step[m]
      <3>1. l = b
        BY <2>2 DEF LogGuideStepInfo
      <3>2. b.step \in [Mounts -> BOOLEAN]
        BY DEF Bare, Typed
      <3>3. b.step = [b.step EXCEPT ![m] = FALSE]
        BY <2>2, <3>2
      <3> HIDE DEF l
      <3> QED BY <2>2, <3>1, <3>3 DEF Bare, Same
    <2> QED BY <2>1, <2>2
  <1> HIDE DEF l, n
  <1>5. /\ l.client \in Listeners /\ l.client.guiding = b.client.guiding
        /\ l.client.owed = b.client.owed /\ l.client.settling = b.client.settling
        /\ ~l.client.outOfTurn
    <2>1. b.client \in Listeners /\ ~b.client.outOfTurn
      BY DEF Bare, Typed, AnswersKept
    <2>2. LET c == Hear(b.client, "GuideStep")
          IN /\ c \in Listeners /\ c.guiding = b.client.guiding /\ c.owed = b.client.owed
             /\ c.settling = b.client.settling /\ (b.client.guiding => ~c.outOfTurn)
      BY <2>1, HearSettling
    <2> QED BY <1>4, <2>1, <2>2
  <1>6. Typed(l)
    <2>1. l.step \in [Mounts -> BOOLEAN]
      BY <1>4 DEF Bare, Typed
    <2> QED BY <1>4, <1>5, <2>1, ZenonT(60) DEF Bare, Typed, Same, Fields
  <1>7. Capturing(l) /\ Trying(l) /\ DecKept(l)
    BY <1>4 DEF Bare, Capturing, Trying, DecKept, Same, Fields
  <1>8. AnswersKept(l)
    BY <1>4, <1>5 DEF Bare, AnswersKept, Same, Fields
  <1>9. Queue(l, o)
    <2>1. /\ Queue(b, o) /\ l.moves = b.moves /\ l.busy = b.busy /\ l.shots = b.shots
          /\ l.pending = b.pending /\ l.failed = b.failed
      BY <1>4 DEF Bare, Same, Fields
    <2> QED BY <1>5, <2>1 DEF Queue
  <1>10. Ready(l) /\ Guided(l)
    BY <1>4, <1>5 DEF Ready, Guided, ValidStar, AllCalibrated, Same, Fields
  <1>11. Bare(l, o)
    <2>1. l.ctl = b.ctl
      BY <1>4 DEF Same, Fields
    <2> QED BY <1>4, <1>6, <1>7, <1>8, <1>9, <2>1 DEF Bare
  <1>12. Good(k, o) /\ Same(l, k, CtlFields) /\ k.ctl \in {l.ctl, "IDLE"}
    <2>1. CASE ~IsCalibratingOrGuiding(l) /\ MountsIdle(l)
      <3>1. /\ Core(d, o) /\ Same(l, d, CtlFields) /\ d.ctl = "IDLE"
            /\ Ready(l) => Ready(d)
        BY <1>11, <2>1, StoppedGood
      <3>2. k = d
        BY <2>1
      <3> HIDE DEF d
      <3>3. Guided(d)
        BY <2>1, <3>1 DEF Guided, IsCalibratingOrGuiding, Same, Fields, CtlFields
      <3> HIDE DEF k
      <3> QED BY <1>10, <3>1, <3>2, <3>3 DEF Good
    <2>2. CASE ~(~IsCalibratingOrGuiding(l) /\ MountsIdle(l))
      <3>1. l.client.guiding = b.client.guiding /\ (AllCalibrated(b) => AllCalibrated(l))
        BY <1>4, <1>5 DEF AllCalibrated, Same, Fields
      <3>2. Told(l)
        BY <1>11, <2>2, <3>1 DEF Told, Bare
      <3>3. Good(l, o)
        BY <1>10, <1>11, <3>2 DEF Good, Core, Bare
      <3>4. k = l
        BY <2>2
      <3> QED BY <3>3, <3>4 DEF Same
    <2> QED BY <2>1, <2>2
  <1> HIDE DEF d, k
  <1>13. Good(u, o) /\ Same(k, u, StopFields) /\ u.ctl \in {k.ctl, "IDLE"}
    BY <1>12, MoveFailedGood
  <1> HIDE DEF u
  <1>14. /\ u.capture = b.capture /\ u.cont = b.cont /\ u.pending = b.pending
         /\ u.pause = b.pause /\ u.pulses = b.pulses /\ u.step = l.step
         /\ u.ctl \in {b.ctl, "IDLE"}
    BY <1>4, <1>12, <1>13 DEF Same, Fields, StopFields, CtlFields
  <1>15. Alive(u) /\ u.ctl \in Resting
    BY <1>14 DEF Alive, Resting
  <1> QED BY <1>4, <1>13, <1>14, <1>15 DEF u, k, d, l

\* The whole of MyFrame::OnMoveComplete, on a record with the move taken off the count.
LEMMA OnMoveCompleteGood ==
    ASSUME NEW f, NEW o, Outer(o), NEW move \in Moves, move.kind # "manual", NEW result,
           f.busy \in [Mounts -> Nat], f.busy[move.mount] > 0,
           LET b == [f EXCEPT !.busy[move.mount] = @ - 1]
           IN /\ Bare(b, o) /\ Ready(b) /\ Guided(b) /\ Alive(b) /\ b.ctl \in Resting
              /\ Commands \cap Silent = {} => (b.client.guiding => AllCalibrated(b))
              /\ b.step[move.mount] => b.client.guiding
    PROVE  LET b == [f EXCEPT !.busy[move.mount] = @ - 1]
               u == OnMoveComplete(f, move, result)
           IN /\ Good(u, o) /\ Alive(u) /\ u.ctl \in Resting /\ u.pulses = b.pulses
              /\ u.step = [b.step EXCEPT ![move.mount] = FALSE]
  <1> DEFINE b == [f EXCEPT !.busy[move.mount] = @ - 1]
             m == move.mount
             l == LogGuideStepInfo(b, m)
             k == IF ~IsCalibratingOrGuiding(l) /\ MountsIdle(l)
                  THEN NotifyGuidingStopped(l) ELSE l
  <1>1. /\ Bare(b, o) /\ Ready(b) /\ Guided(b) /\ Alive(b) /\ b.ctl \in Resting
        /\ Commands \cap Silent = {} => (b.client.guiding => AllCalibrated(b))
        /\ b.step[m] => b.client.guiding
    OBVIOUS
  <1>2. Check([f EXCEPT !.busy[m] = IF @ > 0 THEN @ - 1 ELSE 0],
              "request count", f.busy[m] > 0) = b
    <2>1. (IF f.busy[m] > 0 THEN f.busy[m] - 1 ELSE 0) = f.busy[m] - 1
      OBVIOUS
    <2> QED BY <2>1 DEF Check
  <1>3. OnMoveComplete(f, move, result) = MoveFailed(k, result)
    BY <1>2 DEF OnMoveComplete
  <1>4. m \in Mounts
    BY DEF Moves
  <1> HIDE DEF b
  <1>5. LET u == MoveFailed(k, result)
        IN /\ Good(u, o) /\ Alive(u) /\ u.ctl \in Resting /\ u.pulses = b.pulses
           /\ u.step = [b.step EXCEPT ![m] = FALSE]
    BY <1>1, <1>4, MoveReportedGood, SMTT(40)
  <1> QED BY <1>3, <1>5 DEF b

-------------------------------------------------------------------------------
(* The record and what is away from it.                                    *)

Works(e) == [i \in DOMAIN e |-> e[i].work]
Sum(pulses, p, q, e, W) ==
    Count(pulses, W) + Count(p, W) + Count(q, W) + Count(Works(e), W)
Out(pulses, p, q, e) ==
    [n |-> [m \in Mounts |-> Sum(pulses, p, q, e, Counted(m))],
     x |-> Sum(pulses, p, q, e, {Exposure}),
     g |-> Sum(pulses, p, q, e, GuideMoves)]

\* What the workers hold and what they have reported, beside what is counted.
QueueTypes(pulses, p, q, e) ==
    /\ pulses \in Seq(Moves)
    /\ p \in {<<>>} \cup {<<w>> : w \in Work}
    /\ q \in {<<>>} \cup {<<w>> : w \in Moves}
    /\ e \in Seq([work : Work, result : Results])
StepsReported(step, e) ==
    \A m \in Mounts : step[m] =>
        \E i \in DOMAIN e : e[i].work.mount = m /\ e[i].work \in GuideMoves
BumpsAway(pulses, p, q, e) ==
    /\ Sum(pulses, p, q, e, {Bump}) <= IF HasAO THEN 1 ELSE 0
    /\ \A i \in DOMAIN p : p[i].kind # "bump"
    /\ \A i \in DOMAIN pulses : pulses[i] = Bump
    /\ \A i \in DOMAIN q : q[i] = Bump
    /\ \A i \in DOMAIN e : e[i].work.kind = "bump" => e[i].work = Bump
FramesLast(p, e) ==
    \A i \in DOMAIN e : e[i].work = Exposure =>
        /\ \A j \in DOMAIN p : p[j] \notin FrameMoves
        /\ \A j \in DOMAIN e : j > i => e[j].work \notin FrameMoves
Around(pulses, step, p, q, e) ==
    /\ QueueTypes(pulses, p, q, e) /\ StepsReported(step, e)
    /\ BumpsAway(pulses, p, q, e) /\ FramesLast(p, e)

Sound ==
    /\ Good(s, Out(s.pulses, primary, secondary, events))
    /\ Alive(s) /\ s.ctl \in Resting
    /\ Around(s.pulses, s.step, primary, secondary, events)

\* An exposure is no move.
LEMMA ExposureNoMove == Exposure \notin Moves /\ Exposure \in Work
  <1>1. Exposure.mount \notin Mounts
    BY MountNames DEF Exposure
  <1> QED BY <1>1 DEF Moves, Work

\* What a worker serves is a short queue.
LEMMA ServedSequence ==
    ASSUME NEW S, NEW p, p \in {<<>>} \cup {<<w>> : w \in S} PROVE p \in Seq(S)
  <1>1. CASE p = <<>>
    BY <1>1
  <1>2. CASE p # <<>>
    <2>1. PICK w \in S : p = <<w>>
      BY <1>2
    <2> QED BY <2>1
  <1> QED BY <1>1, <1>2

\* The queues outside the record are sequences of works.
LEMMA QueueSequences ==
    ASSUME NEW pulses, NEW p, NEW q, NEW e, QueueTypes(pulses, p, q, e)
    PROVE  /\ pulses \in Seq(Moves) /\ p \in Seq(Work) /\ q \in Seq(Moves)
           /\ Works(e) \in Seq(Work) /\ DOMAIN Works(e) = DOMAIN e
           /\ \A i \in DOMAIN e : Works(e)[i] = e[i].work
           /\ \A i \in DOMAIN e : e[i].work \in Work
  <1>1. p \in Seq(Work)
    BY ServedSequence DEF QueueTypes
  <1>2. q \in Seq(Moves)
    BY ServedSequence DEF QueueTypes
  <1>3. DOMAIN e = 1..Len(e) /\ Len(e) \in Nat /\ \A i \in DOMAIN e : e[i].work \in Work
    <2> DEFINE R == [work : Work, result : Results]
    <2>1. e \in Seq(R)
      BY DEF QueueTypes
    <2>2. \A r \in R : r.work \in Work
      OBVIOUS
    <2> HIDE DEF R
    <2>3. DOMAIN e = 1..Len(e) /\ Len(e) \in Nat /\ \A i \in DOMAIN e : e[i] \in R
      BY <2>1
    <2> QED BY <2>2, <2>3
  <1>4. Works(e) \in Seq(Work)
    BY <1>3 DEF Works
  <1> QED BY <1>1, <1>2, <1>3, <1>4 DEF QueueTypes, Works

\* The works away from the record are a number, 0 exactly if there are none.
LEMMA SumParts ==
    ASSUME NEW pulses, NEW p, NEW q, NEW e, QueueTypes(pulses, p, q, e), NEW W
    PROVE  /\ Count(pulses, W) \in Nat /\ Count(p, W) \in Nat /\ Count(q, W) \in Nat
           /\ Count(Works(e), W) \in Nat /\ Sum(pulses, p, q, e, W) \in Nat
           /\ Sum(pulses, p, q, e, W) = 0 <=>
                /\ \A i \in DOMAIN pulses : pulses[i] \notin W
                /\ \A i \in DOMAIN p : p[i] \notin W
                /\ \A i \in DOMAIN q : q[i] \notin W
                /\ \A i \in DOMAIN e : e[i].work \notin W
  <1>1. /\ pulses \in Seq(Moves) /\ p \in Seq(Work) /\ q \in Seq(Moves)
        /\ Works(e) \in Seq(Work) /\ DOMAIN Works(e) = DOMAIN e
        /\ \A i \in DOMAIN e : Works(e)[i] = e[i].work
    BY QueueSequences
  <1>2. /\ Count(pulses, W) \in Nat /\ Count(p, W) \in Nat /\ Count(q, W) \in Nat
        /\ Count(Works(e), W) \in Nat
    BY <1>1, CountSets
  <1>3. Count(pulses, W) = 0 <=> \A i \in DOMAIN pulses : pulses[i] \notin W
    BY <1>1, CountPositive
  <1>4. Count(p, W) = 0 <=> \A i \in DOMAIN p : p[i] \notin W
    BY <1>1, CountPositive
  <1>5. Count(q, W) = 0 <=> \A i \in DOMAIN q : q[i] \notin W
    BY <1>1, CountPositive
  <1>6. Count(Works(e), W) = 0 <=> \A i \in DOMAIN e : e[i].work \notin W
    <2>1. Count(Works(e), W) = 0 <=> \A i \in DOMAIN Works(e) : Works(e)[i] \notin W
      BY <1>1, CountPositive
    <2> QED BY <1>1, <2>1
  <1>7. Sum(pulses, p, q, e, W) = 0
          <=> Count(pulses, W) = 0 /\ Count(p, W) = 0 /\ Count(q, W) = 0
              /\ Count(Works(e), W) = 0
    BY <1>2 DEF Sum
  <1>8. Sum(pulses, p, q, e, W) \in Nat
    BY <1>2 DEF Sum
  <1> QED BY <1>2, <1>3, <1>4, <1>5, <1>6, <1>7, <1>8

\* What is away is as Outer says; an exposure is away if it is taken or reported.
LEMMA OutGood ==
    ASSUME NEW pulses, NEW p, NEW q, NEW e, QueueTypes(pulses, p, q, e)
    PROVE  LET o == Out(pulses, p, q, e) IN
           /\ Outer(o)
           /\ o.x > 0 <=> Exposure \in {p[i] : i \in DOMAIN p}
                                         \cup {e[i].work : i \in DOMAIN e}
  <1> DEFINE o == Out(pulses, p, q, e)
  <1>1. \A W : Sum(pulses, p, q, e, W) \in Nat
    BY SumParts
  <1>2. /\ o \in [n : [Mounts -> Nat], x : Nat, g : Nat]
        /\ o.x = Sum(pulses, p, q, e, {Exposure})
        /\ o.g = Sum(pulses, p, q, e, GuideMoves)
        /\ \A m \in Mounts : o.n[m] = Sum(pulses, p, q, e, Counted(m))
    BY <1>1 DEF Out
  <1> HIDE DEF o
  <1>3. ASSUME o.g > 0 PROVE \E m \in Mounts : o.n[m] > 0
    <2>1. /\ \A w \in GuideMoves : w.mount \in Mounts /\ w \in Counted(w.mount)
      BY DEF GuideMoves, Counted, Moves
    <2>2. Sum(pulses, p, q, e, GuideMoves) # 0
      BY <1>2, <1>3
    <2>3. \/ \E i \in DOMAIN pulses : pulses[i] \in GuideMoves
          \/ \E i \in DOMAIN p : p[i] \in GuideMoves
          \/ \E i \in DOMAIN q : q[i] \in GuideMoves
          \/ \E i \in DOMAIN e : e[i].work \in GuideMoves
      BY <2>2, SumParts
    <2>4. \E m \in Mounts :
            \/ \E i \in DOMAIN pulses : pulses[i] \in Counted(m)
            \/ \E i \in DOMAIN p : p[i] \in Counted(m)
            \/ \E i \in DOMAIN q : q[i] \in Counted(m)
            \/ \E i \in DOMAIN e : e[i].work \in Counted(m)
      BY <2>1, <2>3
    <2>5. \E m \in Mounts : Sum(pulses, p, q, e, Counted(m)) # 0
      BY <2>4, SumParts
    <2>6. PICK m \in Mounts : Sum(pulses, p, q, e, Counted(m)) # 0
      BY <2>5
    <2>7. o.n[m] \in Nat /\ o.n[m] # 0
      BY <1>1, <1>2, <2>6
    <2> QED BY <2>7
  <1>4. o.x > 0 <=> Exposure \in {p[i] : i \in DOMAIN p} \cup {e[i].work : i \in DOMAIN e}
    <2>1. Sum(pulses, p, q, e, {Exposure}) = 0 <=>
                /\ \A i \in DOMAIN pulses : pulses[i] \notin {Exposure}
                /\ \A i \in DOMAIN p : p[i] \notin {Exposure}
                /\ \A i \in DOMAIN q : q[i] \notin {Exposure}
                /\ \A i \in DOMAIN e : e[i].work \notin {Exposure}
      BY SumParts
    <2>2. /\ \A i \in DOMAIN pulses : pulses[i] \in Moves
          /\ \A i \in DOMAIN q : q[i] \in Moves
      BY QueueSequences
    <2>3. Sum(pulses, p, q, e, {Exposure}) = 0
            <=> Exposure \notin {p[i] : i \in DOMAIN p} \cup {e[i].work : i \in DOMAIN e}
      BY <2>1, <2>2, ExposureNoMove
    <2> QED BY <1>1, <1>2, <2>3
  <1> QED BY <1>2, <1>3, <1>4 DEF Outer, o

\* What is in flight is in the record's queue of moves or away.
LEMMA InFlightSum ==
    ASSUME TypeOK, NEW W
    PROVE  /\ QueueTypes(s.pulses, primary, secondary, events)
           /\ InFlight(W) = Count(s.moves, W)
                            + Sum(s.pulses, primary, secondary, events, W)
           /\ Count(s.moves, W) \in Nat
           /\ Sum(s.pulses, primary, secondary, events, W) \in Nat
  <1>1. s.pulses \in Seq(Moves) /\ s.moves \in Seq(Moves)
    BY DEF TypeOK, States
  <1>2. QueueTypes(s.pulses, primary, secondary, events)
    BY <1>1 DEF TypeOK, QueueTypes
  <1>3. Count(s.moves, W) \in Nat
    BY <1>1, CountSets
  <1>4. Works(events) = Reported
    BY DEF Works, Reported
  <1>5. /\ Count(s.pulses, W) \in Nat /\ Count(primary, W) \in Nat
        /\ Count(secondary, W) \in Nat /\ Count(Reported, W) \in Nat
        /\ Sum(s.pulses, primary, secondary, events, W) \in Nat
    BY <1>2, <1>4, SumParts
  <1> QED BY <1>2, <1>3, <1>4, <1>5 DEF InFlight, Sum

\* The inductive invariant says that the record is what a handler leaves.
LEMMA InvSound == SessionInv <=> Sound
  <1> DEFINE o == Out(s.pulses, primary, secondary, events)
             S(W) == Sum(s.pulses, primary, secondary, events, W)
  <1>1. TypeOK <=> /\ Rec(s) /\ Typed(s)
                   /\ QueueTypes(s.pulses, primary, secondary, events)
    <2>1. s \in States <=> Rec(s) /\ Typed(s)
      BY RecordTypes
    <2>2. Typed(s) => s.pulses \in Seq(Moves)
      BY DEF Typed
    <2> QED BY <2>1, <2>2 DEF TypeOK, QueueTypes
  <1>2. ASSUME TypeOK
        PROVE  /\ \A W : /\ InFlight(W) = Count(s.moves, W) + S(W)
                         /\ Count(s.moves, W) \in Nat /\ S(W) \in Nat
               /\ \A m \in Mounts : o.n[m] = S(Counted(m))
               /\ o.x = S({Exposure}) /\ o.g = S(GuideMoves)
               /\ Count(s.moves, {Exposure}) = 0
               /\ (\A i \in DOMAIN s.moves : s.moves[i].kind # "bump")
                     => Count(s.moves, {Bump}) = 0
               /\ o.x > 0 <=> Exposure \in {primary[i] : i \in DOMAIN primary}
                                \cup {events[i].work : i \in DOMAIN events}
               /\ s.shots \in Nat
    <2>1. s.moves \in Seq(Moves) /\ s.shots \in Nat
      BY <1>1, <1>2 DEF Typed
    <2>2. \A i \in DOMAIN s.moves : s.moves[i] \in Moves
      BY <2>1
    <2>3. Count(s.moves, {Exposure}) = 0
      BY <2>1, <2>2, CountPositive, ExposureNoMove
    <2>4. (\A i \in DOMAIN s.moves : s.moves[i].kind # "bump") => Count(s.moves, {Bump}) = 0
      <3>1. Bump.kind = "bump"
        BY DEF Bump
      <3> QED BY <2>1, <3>1, CountPositive
    <2>5. o.x > 0 <=> Exposure \in {primary[i] : i \in DOMAIN primary}
                                \cup {events[i].work : i \in DOMAIN events}
      BY <1>1, <1>2, OutGood
    <2>6. \A W : /\ InFlight(W) = Count(s.moves, W) + S(W)
                 /\ Count(s.moves, W) \in Nat /\ S(W) \in Nat
      BY <1>2, InFlightSum
    <2>7. (\A m \in Mounts : o.n[m] = S(Counted(m)))
          /\ o.x = S({Exposure}) /\ o.g = S(GuideMoves)
      BY DEF Out
    <2> HIDE DEF o, S
    <2> QED BY <2>1, <2>3, <2>4, <2>5, <2>6, <2>7
  <1>3. ASSUME SessionInv PROVE Sound
    <2> USE <1>3
    <2>0. TypeOK
      BY DEF SessionInv
    <2>1. /\ Rec(s) /\ Typed(s) /\ QueueTypes(s.pulses, primary, secondary, events)
      BY <1>1, <2>0
    <2>2. /\ \A W : /\ InFlight(W) = Count(s.moves, W) + S(W)
                    /\ Count(s.moves, W) \in Nat /\ S(W) \in Nat
          /\ \A m \in Mounts : o.n[m] = S(Counted(m))
          /\ o.x = S({Exposure}) /\ o.g = S(GuideMoves)
          /\ Count(s.moves, {Exposure}) = 0
          /\ o.x > 0 <=> Exposure \in {primary[i] : i \in DOMAIN primary}
                           \cup {events[i].work : i \in DOMAIN events}
      BY <1>2, <2>0
    <2>3. S({Bump}) <= InFlight({Bump})
      BY <2>2
    <2>4. BumpsAway(s.pulses, primary, secondary, events)
      <3>1. InFlight({Bump}) <= IF HasAO THEN 1 ELSE 0
        BY DEF SessionInv, Bumps
      <3>2. S({Bump}) \in Nat /\ InFlight({Bump}) \in Nat
        BY <2>2
      <3>3. S({Bump}) <= IF HasAO THEN 1 ELSE 0
        BY <2>3, <3>1, <3>2
      <3> QED BY <3>3 DEF SessionInv, Bumps, BumpsAway
    <2> HIDE DEF o, S
    <2>5. Queue(s, o)
      <3>1. \A m \in Mounts : s.busy[m] = o.n[m] + Count(s.moves, Counted(m))
        <4> SUFFICES ASSUME NEW m \in Mounts
                     PROVE  s.busy[m] = o.n[m] + Count(s.moves, Counted(m))
          OBVIOUS
        <4>1. s.busy[m] = InFlight(Counted(m))
          BY DEF SessionInv, RequestCountExact
        <4>2. /\ InFlight(Counted(m)) = Count(s.moves, Counted(m)) + S(Counted(m))
              /\ Count(s.moves, Counted(m)) \in Nat /\ S(Counted(m)) \in Nat
              /\ o.n[m] = S(Counted(m))
          BY <2>2
        <4> QED BY <4>1, <4>2
      <3>2. s.shots + o.x = IF s.pending THEN 1 ELSE 0
        <4>1. s.shots + InFlight({Exposure}) = IF s.pending THEN 1 ELSE 0
          BY DEF SessionInv, ExposureInFlight
        <4>2. InFlight({Exposure}) = o.x
          BY <2>2
        <4> QED BY <4>1, <4>2
      <3>3. o.g > 0 \/ Count(s.moves, GuideMoves) > 0 => s.client.guiding
        <4>1. InFlight(GuideMoves) > 0 => s.client.guiding
          BY DEF SessionInv, StepsKnown
        <4>2. /\ InFlight(GuideMoves) = Count(s.moves, GuideMoves) + o.g
              /\ Count(s.moves, GuideMoves) \in Nat /\ o.g \in Nat
          BY <2>2
        <4> QED BY <4>1, <4>2
      <3>4. o.x > 0 => \A i \in DOMAIN s.moves : s.moves[i] \notin FrameMoves
        BY <2>2 DEF SessionInv, MovesFirst
      <3>5. \A i \in DOMAIN s.moves : s.moves[i].kind # "bump"
        BY DEF SessionInv, Bumps
      <3>6. "pending exposure" \notin s.failed /\ "request count" \notin s.failed
        BY DEF SessionInv, ExposureInFlight, RequestCountExact
      <3> QED BY <3>1, <3>2, <3>3, <3>4, <3>5, <3>6 DEF Queue
    <2>6. Guided(s)
      BY DEF SessionInv, StepsKnown, Guided
    <2>7. Good(s, o)
      BY <2>1, <2>5, <2>6 DEF SessionInv, Good, Core
    <2>8. Alive(s) /\ s.ctl \in Resting
      BY DEF SessionInv, Alive, CaptureAlive, CaptureCleared
    <2>9. StepsReported(s.step, events) /\ FramesLast(primary, events)
      BY DEF SessionInv, StepsKnown, MovesFirst, StepsReported, FramesLast
    <2> QED BY <2>1, <2>4, <2>7, <2>8, <2>9 DEF Sound, Around, o
  <1>4. ASSUME Sound PROVE SessionInv
    <2> USE <1>4
    <2>0. Good(s, o) /\ Core(s, o) /\ Queue(s, o) /\ Alive(s)
          /\ Around(s.pulses, s.step, primary, secondary, events)
      BY DEF Sound, Good, Core
    <2>1. TypeOK
      BY <1>1, <2>0 DEF Core, Around
    <2>2. /\ \A W : /\ InFlight(W) = Count(s.moves, W) + S(W)
                    /\ Count(s.moves, W) \in Nat /\ S(W) \in Nat
          /\ \A m \in Mounts : o.n[m] = S(Counted(m))
          /\ o.x = S({Exposure}) /\ o.g = S(GuideMoves)
          /\ Count(s.moves, {Exposure}) = 0
          /\ (\A i \in DOMAIN s.moves : s.moves[i].kind # "bump")
                => Count(s.moves, {Bump}) = 0
          /\ o.x > 0 <=> Exposure \in {primary[i] : i \in DOMAIN primary}
                           \cup {events[i].work : i \in DOMAIN events}
          /\ s.shots \in Nat
      BY <1>2, <2>1
    <2>3. S({Bump}) <= (IF HasAO THEN 1 ELSE 0)
          /\ BumpsAway(s.pulses, primary, secondary, events)
      BY <2>0 DEF Around, BumpsAway
    <2> HIDE DEF o, S
    <2>4. Bumps
      <3>1. \A i \in DOMAIN s.moves : s.moves[i].kind # "bump"
        BY <2>0 DEF Queue
      <3>2. InFlight({Bump}) = S({Bump})
        BY <2>2, <3>1
      <3> QED BY <2>3, <3>1, <3>2 DEF Bumps, BumpsAway
    <2>5. RequestCountExact
      <3> SUFFICES ASSUME NEW m \in Mounts
                   PROVE  s.busy[m] = InFlight(Counted(m))
        BY <2>0 DEF RequestCountExact, Queue
      <3>1. s.busy[m] = o.n[m] + Count(s.moves, Counted(m))
        BY <2>0 DEF Queue
      <3>2. /\ InFlight(Counted(m)) = Count(s.moves, Counted(m)) + S(Counted(m))
            /\ Count(s.moves, Counted(m)) \in Nat /\ S(Counted(m)) \in Nat
            /\ o.n[m] = S(Counted(m))
        BY <2>2
      <3> QED BY <3>1, <3>2
    <2>6. ExposureInFlight
      <3>1. s.shots + o.x = IF s.pending THEN 1 ELSE 0
        BY <2>0 DEF Queue
      <3>2. InFlight({Exposure}) = o.x
        BY <2>2
      <3> QED BY <2>0, <3>1, <3>2 DEF ExposureInFlight, Queue
    <2>7. StepsKnown
      <3>1. o.g > 0 \/ Count(s.moves, GuideMoves) > 0 => s.client.guiding
        BY <2>0 DEF Queue
      <3>2. /\ InFlight(GuideMoves) = Count(s.moves, GuideMoves) + o.g
            /\ Count(s.moves, GuideMoves) \in Nat /\ o.g \in Nat
        BY <2>2
      <3>3. InFlight(GuideMoves) > 0 => s.client.guiding
        BY <3>1, <3>2
      <3> QED BY <2>0, <3>3 DEF Good, Guided, Around, StepsReported, StepsKnown
    <2>8. MovesFirst
      <3>1. o.x > 0 => \A i \in DOMAIN s.moves : s.moves[i] \notin FrameMoves
        BY <2>0 DEF Queue
      <3> QED BY <2>0, <2>2, <3>1 DEF MovesFirst, Around, FramesLast
    <2>9. /\ Capturing(s) /\ AnswersKept(s) /\ Trying(s) /\ DecKept(s) /\ Ready(s) /\ Told(s)
          /\ s.ctl \in Resting /\ CaptureAlive
          /\ "pause_full" \notin Commands => s.pause # "full" /\ CaptureCleared
      BY <2>0 DEF Sound, Good, Core, Alive, CaptureAlive, CaptureCleared
    <2> QED BY <2>1, <2>4, <2>5, <2>6, <2>7, <2>8, <2>9 DEF SessionInv
  <1> QED BY <1>3, <1>4

\* The same in the next state.
LEMMA InvSoundNext == SessionInv' <=> Sound'
  BY InvSound, PTL

-------------------------------------------------------------------------------
(* The steps of the GUI thread.                                            *)

Away == Out(s.pulses, primary, secondary, events)

\* The parts of Sound.
LEMMA AwayGood ==
    ASSUME Sound
    PROVE  /\ Outer(Away) /\ Good(s, Away) /\ Core(s, Away) /\ Rec(s) /\ Typed(s)
           /\ Alive(s) /\ s.ctl \in Resting
  BY OutGood DEF Sound, Away, Around, Good, Core

\* A command that leaves what a handler leaves, and the workers alone, is sound.
LEMMA HandledSound ==
    ASSUME Sound, UNCHANGED <<primary, secondary, events>>, Left(s, s', Away)
    PROVE  Sound'
  BY DEF Sound, Left, Away

\* The answers the sky may give are of their type.
LEMMA SkiesGood == AutoSkies \subseteq Sky /\ NoSky \in Sky /\ Skies \subseteq Sky
  <1>1. AutoSkies \subseteq Sky
    BY DEF AutoSkies, Sky
  <1>2. NoSky \in Sky
    BY DEF NoSky, Sky
  <1>3. Skies \subseteq Sky
    <2>1. /\ (IF s.star = "none" THEN {FALSE} ELSE BOOLEAN) \subseteq BOOLEAN
          /\ (IF s.ctl = "SETTLE_WAIT" THEN BOOLEAN ELSE {FALSE}) \subseteq BOOLEAN
      OBVIOUS
    <2> QED BY <2>1 DEF Skies, Sky
  <1> QED BY <1>1, <1>2, <1>3

\* A command that changes fields of the guider or of the controller only.
LEMMA QuickSound ==
    ASSUME Sound, NEW name, NEW u, Command(name, u), Good(u, Away),
           u.ctl \in {s.ctl, "IDLE"}, Same(s, u, Elsewhere)
    PROVE  Sound'
  <1>1. Left(s, u, Away)
    BY AwayGood, LeftSame
  <1> QED BY <1>1, HandledSound DEF Command

\* A command that starts an operation is sound.
LEMMA LedSound ==
    ASSUME Sound, NEW name, NEW u, Command(name, u), Led(s, u, Away)
    PROVE  Sound'
  <1>1. Left(s, u, Away)
    BY AwayGood, LedLeft
  <1> QED BY <1>1, HandledSound DEF Command

\* The commands that start, stop, pause and resume the capture.
LEMMA CaptureCommands ==
    ASSUME Sound, Loop \/ Stop \/ PauseGuiding \/ PauseFull \/ Resume \/ SingleFrame
    PROVE  Sound'
  <1> USE AwayGood
  <1>1. CASE Loop
    BY <1>1, StartLoopingGood, HandledSound DEF Loop, Command
  <1>2. CASE Stop
    BY <1>2, StopLeft, HandledSound DEF Stop, Command
  <1>3. CASE PauseGuiding
    BY <1>3, SetPausedGood, HandledSound DEF PauseGuiding, Command
  <1>4. CASE PauseFull
    BY <1>4, SetPausedGood, HandledSound DEF PauseFull, Command
  <1>5. CASE Resume
    BY <1>5, SetPausedGood, HandledSound DEF Resume, Command
  <1>6. CASE SingleFrame
    <2> DEFINE d == [s EXCEPT !.single = TRUE]
               u == StartCapturing(d)
    <2>1. ~s.capture /\ Command("capture_single_frame", u)
      BY <1>6 DEF SingleFrame
    <2>2. Rec(d) /\ Same(s, d, {"single"}) /\ d.single = TRUE
      BY DEF Rec, Same, Fields
    <2> HIDE DEF d
    <2>3. Typed(d)
      <3>1. d.single \in BOOLEAN
        BY <2>2
      <3> QED BY <2>2, <3>1 DEF Typed, Same, Fields
    <2>4. Good(d, Away)
      BY <2>2, <2>3, LooseOnly DEF Same, Loose
    <2>5. /\ Good(u, Away) /\ Same(d, u, {"capture", "cont", "pending", "shots"})
          /\ u.capture
          /\ d.capture => u = d
          /\ ~d.capture => u.pending
      BY <2>4, StartCapturingGood
    <2> HIDE DEF u
    <2>6. Led(s, u, Away)
      BY <2>1, <2>2, <2>5 DEF Led, Steady, Same, Fields
    <2> QED BY <2>1, <2>6, LedSound
  <1> QED BY <1>1, <1>2, <1>3, <1>4, <1>5, <1>6

\* The commands that select a star, start guiding or reset the guider.
LEMMA GuiderCommands ==
    ASSUME Sound, GuideButton \/ StartGuidingCompat \/ FindStar \/ DeselectStar \/ Click
                  \/ ShiftClick \/ MultiStar
    PROVE  Sound'
  <1> USE AwayGood
  <1>0. ~IsCalibratingOrGuiding(s) => s.gs \in Unguided
    BY DEF IsCalibratingOrGuiding, Unguided
  <1> DEFINE g == StartGuiding(s)
  <1>1. Led(s, g, Away)
    <2>1. /\ Good(g, Away) /\ Steady(s, g)
          /\ Same(s, g, {"gs", "star", "lock", "capture", "cont", "pending", "shots"})
      BY StartGuidingGood
    <2> HIDE DEF g
    <2> QED BY <2>1 DEF Led, Same, Fields
  <1>2. CASE GuideButton
    <2> DEFINE u == Uninitialize(s)
    <2>1. s.gs = "SELECTED" /\ Command("guide_button", IF CannotStart(s) THEN u ELSE g)
      BY <1>2 DEF GuideButton, Reset
    <2>2. Good(u, Away) /\ Same(s, u, {"gs", "star", "lock"})
      <3>1. Quiet(s)
        BY <2>1, UnguidedQuiet DEF Unguided
      <3> QED BY <3>1, UninitializeGood
    <2> HIDE DEF u, g
    <2>3. Same(s, u, Elsewhere) /\ u.ctl = s.ctl
      BY <2>2 DEF Same, Elsewhere, Fields
    <2> QED BY <1>1, <2>1, <2>2, <2>3, LedSound, QuickSound
  <1>3. CASE StartGuidingCompat
    <2>1. Command("start_guiding", g)
      BY <1>3 DEF StartGuidingCompat
    <2> HIDE DEF g
    <2> QED BY <1>1, <2>1, LedSound
  <1>4. CASE FindStar
    <2>1. PICK sky \in AutoSkies : Command("find_star", AutoSelect(s, sky))
      BY <1>4 DEF FindStar
    <2> DEFINE u == AutoSelect(s, sky)
    <2>2. Good(u, Away) /\ Same(s, u, {"gs", "star", "lock", "failed"})
      BY <1>0, <1>4, SkiesGood, AutoSelectGood DEF FindStar
    <2>3. Command("find_star", u)
      BY <2>1
    <2> HIDE DEF u
    <2>4. Same(s, u, Elsewhere) /\ u.ctl = s.ctl
      BY <2>2 DEF Same, Elsewhere, Fields
    <2> QED BY <2>2, <2>3, <2>4, QuickSound
  <1>5. CASE DeselectStar
    <2> DEFINE u == FullReset(s)
    <2>1. Command("deselect_star", u) /\ "deselect_star" \in Commands
      BY <1>5 DEF DeselectStar, Command
    <2>2. Good(u, Away) /\ Same(s, u, {"gs", "star", "lock"})
      <3>1. Quiet(s)
        BY <2>1 DEF Quiet, Silent
      <3> QED BY <3>1, FullResetGood
    <2> HIDE DEF u
    <2>3. Same(s, u, Elsewhere) /\ u.ctl = s.ctl
      BY <2>2 DEF Same, Elsewhere, Fields
    <2> QED BY <2>1, <2>2, <2>3, QuickSound
  <1>6. CASE Click
    <2>1. PICK found \in BOOLEAN : Command("click", ClickSelect(s, found))
      BY <1>6 DEF Click
    <2> DEFINE u == ClickSelect(s, found)
    <2>2. Good(u, Away) /\ Same(s, u, {"gs", "star", "lock"})
      BY <1>0, <1>6, ClickSelectGood DEF Click
    <2>3. Command("click", u)
      BY <2>1
    <2> HIDE DEF u
    <2>4. Same(s, u, Elsewhere) /\ u.ctl = s.ctl
      BY <2>2 DEF Same, Elsewhere, Fields
    <2> QED BY <2>2, <2>3, <2>4, QuickSound
  <1>7. CASE ShiftClick
    <2> DEFINE u == DropStar(s)
    <2>1. Command("click", u)
      BY <1>7 DEF ShiftClick
    <2>2. Good(u, Away) /\ Same(s, u, {"star"})
      BY <1>0, <1>7, DropStarGood DEF ShiftClick, Unguided
    <2> HIDE DEF u
    <2>3. Same(s, u, Elsewhere) /\ u.ctl = s.ctl
      BY <2>2 DEF Same, Elsewhere, Fields
    <2> QED BY <2>1, <2>2, <2>3, QuickSound
  <1>8. CASE MultiStar
    <2>1. PICK sky \in AutoSkies : Command("multistar", MultiStarOn(s, sky))
      BY <1>8 DEF MultiStar
    <2> DEFINE u == MultiStarOn(s, sky)
    <2>2. Good(u, Away) /\ Same(s, u, MultiFields) /\ u.ctl \in {s.ctl, "IDLE"}
      BY SkiesGood, MultiStarGood
    <2>3. Command("multistar", u)
      BY <2>1
    <2> HIDE DEF u
    <2>4. Same(s, u, Elsewhere)
      BY <2>2 DEF Same, MultiFields, StopFields, CtlFields, Elsewhere, Fields
    <2> QED BY <2>2, <2>3, <2>4, QuickSound
  <1> QED BY <1>2, <1>3, <1>4, <1>5, <1>6, <1>7, <1>8

\* The commands of the equipment, and the time limit of settling.
LEMMA OtherCommands ==
    ASSUME Sound, Connect \/ ClearCalibration \/ GuidePulse \/ SettleTimeLimit
    PROVE  Sound'
  <1> USE AwayGood
  <1>1. CASE Connect
    <2> DEFINE u == [s EXCEPT !.camera = TRUE]
    <2>1. Command("connect", u)
      BY <1>1 DEF Connect
    <2>2. Rec(u) /\ Same(s, u, {"camera"}) /\ u.camera = TRUE
      BY DEF Rec, Same, Fields
    <2> HIDE DEF u
    <2>3. Typed(u)
      <3>1. u.camera \in BOOLEAN
        BY <2>2
      <3> QED BY <2>2, <3>1 DEF Typed, Same, Fields
    <2>4. Good(u, Away)
      BY <2>2, <2>3, LooseOnly DEF Same, Loose
    <2>5. Same(s, u, Elsewhere) /\ u.ctl = s.ctl
      BY <2>2 DEF Same, Elsewhere, Fields
    <2> QED BY <2>1, <2>4, <2>5, QuickSound
  <1>2. CASE ClearCalibration
    <2> DEFINE u == [s EXCEPT !.cal = [m \in Mounts |-> FALSE]]
    <2>1. Command("clear_calibration", u) /\ "clear_calibration" \in Commands
      BY <1>2 DEF ClearCalibration, Command
    <2>2. Rec(u) /\ Same(s, u, {"cal"}) /\ u.cal = [m \in Mounts |-> FALSE]
      BY DEF Rec, Same, Fields
    <2> HIDE DEF u
    <2>3. Typed(u)
      <3>1. u.cal \in [Mounts -> BOOLEAN]
        BY <2>2
      <3> QED BY <2>2, <3>1 DEF Typed, Same, Fields
    <2>4. Told(u) /\ Ready(u)
      BY <2>1 DEF Told, Silent, Ready
    <2>5. Core(u, Away)
      BY <2>2, <2>3, <2>4, GuiderOnly DEF Same, GuiderFields
    <2>6. Guided(u)
      BY <2>2 DEF Good, Guided, Same, Fields
    <2>7. Same(s, u, Elsewhere) /\ u.ctl = s.ctl
      BY <2>2 DEF Same, Elsewhere, Fields
    <2> QED BY <2>1, <2>4, <2>5, <2>6, <2>7, QuickSound DEF Good
  <1>3. CASE GuidePulse
    <2>1. PICK m \in Mounts : Command("guide_pulse", ScheduleMove(s, m, "manual"))
      BY <1>3 DEF GuidePulse
    <2> DEFINE u == ScheduleMove(s, m, "manual")
    <2>2. Good(u, Away) /\ Same(s, u, {"busy", "moves"})
      BY MoveGood DEF MoveKinds
    <2>3. Command("guide_pulse", u)
      BY <2>1
    <2> HIDE DEF u
    <2>4. Same(s, u, Elsewhere) /\ u.ctl = s.ctl
      BY <2>2 DEF Same, Elsewhere, Fields
    <2> QED BY <2>2, <2>3, <2>4, QuickSound
  <1>4. CASE SettleTimeLimit
    <2> DEFINE u == [s EXCEPT !.late = TRUE]
    <2>1. s' = u /\ UNCHANGED <<primary, secondary, events>>
      BY <1>4 DEF SettleTimeLimit
    <2>2. Rec(u) /\ Same(s, u, {"late"}) /\ u.late = TRUE
      BY DEF Rec, Same, Fields
    <2> HIDE DEF u
    <2>3. Typed(u)
      <3>1. u.late \in BOOLEAN
        BY <2>2
      <3> QED BY <2>2, <3>1 DEF Typed, Same, Fields
    <2>4. Good(u, Away)
      BY <2>2, <2>3, LooseOnly DEF Same, Loose
    <2>5. Same(s, u, Elsewhere) /\ u.ctl = s.ctl
      BY <2>2 DEF Same, Elsewhere, Fields
    <2>6. Left(s, u, Away)
      BY <2>4, <2>5, LeftSame
    <2> QED BY <2>1, <2>6, HandledSound
  <1> QED BY <1>1, <1>2, <1>3, <1>4

\* The guide and dither operations of the event server.
LEMMA OperationCommands ==
    ASSUME Sound, GuideOperation \/ DitherOperation \/ DitherCompat
    PROVE  Sound'
  <1> USE AwayGood
  <1>1. CASE GuideOperation
    <2>1. PICK force \in BOOLEAN, sky \in AutoSkies : Command("guide", Guide(s, force, sky))
      BY <1>1 DEF GuideOperation
    <2>2. s.ctl = "IDLE" /\ "guide" \in Commands /\ sky \in Sky
      BY <1>1, <2>1, SkiesGood DEF GuideOperation, Command
    <2>3. Led(s, Guide(s, force, sky), Away)
      BY <2>2, GuideGood
    <2> QED BY <2>1, <2>3, LedSound
  <1>2. CASE DitherOperation
    <2>1. PICK raOnly \in BOOLEAN : Command("dither", Dither(s, "dither", raOnly))
      BY <1>2 DEF DitherOperation
    <2>2. s.ctl = "IDLE"
      BY <1>2 DEF DitherOperation
    <2>3. Led(s, Dither(s, "dither", raOnly), Away)
      BY <2>2, DitherGood
    <2> QED BY <2>1, <2>3, LedSound
  <1>3. CASE DitherCompat
    <2> DEFINE t == AbortController(s)
               u == Dither(t, "compat", FALSE)
    <2>1. Command("move", IF DitherFails(t, TRUE) THEN t ELSE u)
      BY <1>3 DEF DitherCompat
    <2>2. Good(t, Away) /\ Same(s, t, CtlFields) /\ t.ctl = "IDLE"
      BY AbortGood DEF Good
    <2> HIDE DEF t
    <2>3. Led(t, u, Away)
      BY <2>2, DitherGood
    <2> HIDE DEF u
    <2>4. Led(s, t, Away)
      <3>1. Same(s, t, Elsewhere)
        BY <2>2 DEF Same, CtlFields, Elsewhere, Fields
      <3> QED BY <2>2, <3>1, SteadySame DEF Led, Resting
    <2>5. Led(s, u, Away)
      BY <2>3, <2>4, SteadyTrans DEF Led
    <2> QED BY <2>1, <2>4, <2>5, LedSound
  <1> QED BY <1>1, <1>2, <1>3

\* Every command keeps the invariant.
LEMMA UserCommandSound == ASSUME Sound, UserCommand PROVE Sound'
  BY CaptureCommands, GuiderCommands, OtherCommands, OperationCommands DEF UserCommand

-------------------------------------------------------------------------------
(* The steps that handle what the workers report.                          *)

\* An event that is handled leaves the queues one work short.
LEMMA EventTail ==
    ASSUME NEW pulses, NEW step, NEW p, NEW q, NEW e, Around(pulses, step, p, q, e),
           e # <<>>
    PROVE  /\ QueueTypes(pulses, p, q, Tail(e))
           /\ \A W : Sum(pulses, p, q, e, W)
                       = Sum(pulses, p, q, Tail(e), W) + IF Head(e).work \in W THEN 1 ELSE 0
           /\ Head(e).work \in Work
           /\ \A after : (\A m \in Mounts : after[m] =>
                             step[m] /\ ~(Head(e).work \in GuideMoves /\ Head(e).work.mount = m))
                           => Around(pulses, after, p, q, Tail(e))
  <1> DEFINE R == [work : Work, result : Results]
             w == Head(e).work
  <1>1. QueueTypes(pulses, p, q, e) /\ e \in Seq(R)
    BY DEF Around, QueueTypes
  <1> HIDE DEF R
  <1>2. /\ Tail(e) \in Seq(R) /\ DOMAIN e = 1..Len(e) /\ Len(e) \in Nat \ {0}
        /\ DOMAIN Tail(e) = 1..(Len(e) - 1) /\ Head(e) = e[1] /\ e[1] \in R
    BY <1>1
  <1>3. \A i \in DOMAIN Tail(e) : Tail(e)[i] = e[i + 1] /\ i + 1 \in DOMAIN e
    BY <1>1, <1>2
  <1>4. \A i \in DOMAIN e : i # 1 => i - 1 \in DOMAIN Tail(e) /\ Tail(e)[i - 1] = e[i]
    <2> SUFFICES ASSUME NEW i \in DOMAIN e, i # 1
                 PROVE  i - 1 \in DOMAIN Tail(e) /\ Tail(e)[i - 1] = e[i]
      OBVIOUS
    <2>1. i - 1 \in DOMAIN Tail(e) /\ (i - 1) + 1 = i
      BY <1>2
    <2>2. Tail(e)[i - 1] = e[(i - 1) + 1]
      BY <1>3, <2>1
    <2> QED BY <2>1, <2>2
  <1>5. QueueTypes(pulses, p, q, Tail(e))
    BY <1>1, <1>2 DEF QueueTypes, R
  <1>6. /\ Works(e) \in Seq(Work) /\ DOMAIN Works(e) = DOMAIN e
        /\ \A i \in DOMAIN e : Works(e)[i] = e[i].work
        /\ Works(Tail(e)) \in Seq(Work) /\ DOMAIN Works(Tail(e)) = DOMAIN Tail(e)
        /\ \A i \in DOMAIN Tail(e) : Works(Tail(e))[i] = Tail(e)[i].work
        /\ \A i \in DOMAIN e : e[i].work \in Work
    <2>1. /\ Works(e) \in Seq(Work) /\ DOMAIN Works(e) = DOMAIN e
          /\ \A i \in DOMAIN e : Works(e)[i] = e[i].work
          /\ \A i \in DOMAIN e : e[i].work \in Work
      BY <1>1, QueueSequences
    <2> DEFINE rest == Tail(e)
    <2>2. QueueTypes(pulses, p, q, rest)
      BY <1>5
    <2> HIDE DEF rest
    <2>3. /\ Works(rest) \in Seq(Work) /\ DOMAIN Works(rest) = DOMAIN rest
          /\ \A i \in DOMAIN rest : Works(rest)[i] = rest[i].work
      BY <2>2, QueueSequences
    <2> QED BY <2>1, <2>3 DEF rest
  <1>7. /\ Works(e) # <<>> /\ Head(Works(e)) = w
        /\ Tail(Works(e)) = Works(Tail(e)) /\ w \in Work
    <2>1. 1 \in DOMAIN e /\ w = Works(e)[1] /\ w \in Work
      BY <1>2, <1>6
    <2>2. Works(e) # <<>> /\ Head(Works(e)) = w /\ Len(Works(e)) = Len(e)
      BY <1>2, <1>6, <2>1
    <2> DEFINE a == Works(e)
               b == Works(Tail(e))
    <2>3. a \in Seq(Work) /\ b \in Seq(Work) /\ a # <<>>
          /\ Len(a) = Len(e) /\ Len(b) = Len(e) - 1
      <3>1. a \in Seq(Work) /\ b \in Seq(Work) /\ a # <<>>
        BY <1>6, <2>2
      <3>2. DOMAIN b = 1..(Len(e) - 1)
        BY <1>2, <1>6
      <3> HIDE DEF a, b
      <3>3. DOMAIN b = 1..Len(b) /\ Len(b) \in Nat
        BY <3>1
      <3>4. Len(e) - 1 \in Nat
        BY <1>2
      <3>5. Len(b) = Len(e) - 1
        BY <3>2, <3>3, <3>4
      <3>6. Len(a) = Len(e)
        BY <2>2 DEF a
      <3> QED BY <3>1, <3>5, <3>6
    <2>4. \A i \in 1..(Len(e) - 1) : b[i] = a[i + 1]
      BY <1>2, <1>3, <1>6
    <2> HIDE DEF a, b
    <2>5. Tail(a) \in Seq(Work) /\ Len(Tail(a)) = Len(b)
          /\ \A i \in 1..Len(b) : Tail(a)[i] = a[i + 1]
      BY <1>2, <2>3
    <2>6. \A i \in 1..Len(b) : Tail(a)[i] = b[i]
      BY <2>3, <2>4, <2>5
    <2>7. Tail(a) = b
      BY <2>3, <2>5, <2>6
    <2> QED BY <2>1, <2>2, <2>7 DEF a, b
  <1>8. ASSUME NEW W
        PROVE  Sum(pulses, p, q, e, W)
                 = Sum(pulses, p, q, Tail(e), W) + IF w \in W THEN 1 ELSE 0
    <2>1. Count(Works(e), W) = Count(Works(Tail(e)), W) + IF w \in W THEN 1 ELSE 0
      BY <1>6, <1>7, CountTail, ZenonT(60)
    <2>2. /\ Count(pulses, W) \in Nat /\ Count(p, W) \in Nat /\ Count(q, W) \in Nat
          /\ Count(Works(Tail(e)), W) \in Nat
      BY <1>5, SumParts
    <2> HIDE DEF w
    <2> QED BY <2>1, <2>2 DEF Sum
  <1>9. ASSUME NEW after, \A m \in Mounts : after[m] =>
                             step[m] /\ ~(w \in GuideMoves /\ w.mount = m)
        PROVE  Around(pulses, after, p, q, Tail(e))
    <2>1. StepsReported(after, Tail(e))
      <3> SUFFICES ASSUME NEW m \in Mounts, after[m]
                   PROVE  \E i \in DOMAIN Tail(e) : Tail(e)[i].work.mount = m
                                                    /\ Tail(e)[i].work \in GuideMoves
        BY DEF StepsReported
      <3>1. PICK i \in DOMAIN e : e[i].work.mount = m /\ e[i].work \in GuideMoves
        BY <1>9 DEF Around, StepsReported
      <3>2. i # 1
        BY <1>2, <1>9, <3>1
      <3> QED BY <1>4, <3>1, <3>2
    <2>2. BumpsAway(pulses, p, q, Tail(e))
      <3>1. Sum(pulses, p, q, Tail(e), {Bump}) <= Sum(pulses, p, q, e, {Bump})
            /\ Sum(pulses, p, q, Tail(e), {Bump}) \in Nat
            /\ Sum(pulses, p, q, e, {Bump}) \in Nat
        <4>1. Sum(pulses, p, q, Tail(e), {Bump}) \in Nat
          BY <1>5, SumParts
        <4> HIDE DEF w
        <4> QED BY <1>8, <4>1
      <3>2. BumpsAway(pulses, p, q, e)
        BY DEF Around
      <3>3. Sum(pulses, p, q, Tail(e), {Bump}) <= IF HasAO THEN 1 ELSE 0
        <4>1. Sum(pulses, p, q, e, {Bump}) <= IF HasAO THEN 1 ELSE 0
          BY <3>2 DEF BumpsAway
        <4> QED BY <3>1, <4>1
      <3>4. \A i \in DOMAIN Tail(e) : Tail(e)[i].work.kind = "bump" => Tail(e)[i].work = Bump
        BY <1>3, <3>2 DEF BumpsAway
      <3> QED BY <3>2, <3>3, <3>4 DEF BumpsAway
    <2>3. FramesLast(p, Tail(e))
      <3> SUFFICES ASSUME NEW i \in DOMAIN Tail(e), Tail(e)[i].work = Exposure
                   PROVE  /\ \A j \in DOMAIN p : p[j] \notin FrameMoves
                          /\ \A j \in DOMAIN Tail(e) :
                                j > i => Tail(e)[j].work \notin FrameMoves
        BY DEF FramesLast
      <3>1. i + 1 \in DOMAIN e /\ e[i + 1].work = Exposure
        BY <1>3
      <3>2. /\ \A j \in DOMAIN p : p[j] \notin FrameMoves
            /\ \A j \in DOMAIN e : j > i + 1 => e[j].work \notin FrameMoves
        BY <3>1 DEF Around, FramesLast
      <3>3. \A j \in DOMAIN Tail(e) : j > i => j + 1 > i + 1
        BY <1>2
      <3> QED BY <1>3, <3>2, <3>3
    <2> QED BY <1>5, <2>1, <2>2, <2>3 DEF Around
  <1> HIDE DEF w
  <1>10. \A after : (\A m \in Mounts : after[m] =>
                             step[m] /\ ~(w \in GuideMoves /\ w.mount = m))
                           => Around(pulses, after, p, q, Tail(e))
    BY <1>9
  <1>11. \A W : Sum(pulses, p, q, e, W)
                 = Sum(pulses, p, q, Tail(e), W) + IF w \in W THEN 1 ELSE 0
    BY <1>8
  <1> QED BY <1>5, <1>7, <1>10, <1>11 DEF w

\* The moves of the last frame are done when an image is handled.
LEMMA NotBusy ==
    ASSUME Sound, events # <<>>, Head(events).work = Exposure
    PROVE  s.busy[Primary] = 0 /\ s.busy["scope"] < 2 /\ Away.x > 0
  <1> DEFINE S(W) == Sum(s.pulses, primary, secondary, events, W)
  <1>1. /\ QueueTypes(s.pulses, primary, secondary, events)
        /\ BumpsAway(s.pulses, primary, secondary, events)
        /\ FramesLast(primary, events) /\ Queue(s, Away) /\ Typed(s)
    BY DEF Sound, Around, Good, Core, Away
  <1>2. 1 \in DOMAIN events /\ events[1] = Head(events)
    BY <1>1 DEF QueueTypes
  <1>3. Away.x > 0
    BY <1>1, <1>2, OutGood DEF Away
  <1>4. /\ \A j \in DOMAIN primary : primary[j] \notin FrameMoves
        /\ \A j \in DOMAIN events : j > 1 => events[j].work \notin FrameMoves
        /\ \A i \in DOMAIN s.moves : s.moves[i] \notin FrameMoves
    BY <1>1, <1>2, <1>3 DEF FramesLast, Queue
  <1>5. \A m \in Mounts : \A w \in Counted(m) : w \in FrameMoves \/ w.kind = "bump"
    BY DEF Counted, FrameMoves
  <1>6. \A m \in Mounts : Count(s.moves, Counted(m)) = 0
    <2>1. s.moves \in Seq(Moves) /\ \A i \in DOMAIN s.moves : s.moves[i].kind # "bump"
      BY <1>1 DEF Typed, Queue
    <2>2. \A m \in Mounts : \A i \in DOMAIN s.moves : s.moves[i] \notin Counted(m)
      BY <1>4, <1>5, <2>1
    <2> QED BY <2>1, <2>2, CountPositive
  <1>7. \A m \in Mounts :
          /\ \A i \in DOMAIN s.pulses : s.pulses[i] \in Counted(m) => s.pulses[i] = Bump
          /\ \A i \in DOMAIN primary : primary[i] \notin Counted(m)
          /\ \A i \in DOMAIN secondary : secondary[i] \in Counted(m) => secondary[i] = Bump
          /\ \A i \in DOMAIN events : events[i].work \in Counted(m) => events[i].work = Bump
    <2>1. \A m \in Mounts : \A i \in DOMAIN events :
             events[i].work \in Counted(m) => events[i].work = Bump
      <3> SUFFICES ASSUME NEW m \in Mounts, NEW i \in DOMAIN events,
                          events[i].work \in Counted(m)
                   PROVE  events[i].work = Bump
        OBVIOUS
      <3>1. i # 1
        BY <1>2, ExposureNoMove DEF Counted
      <3>2. i > 1
        BY <1>1, <3>1 DEF QueueTypes
      <3> QED BY <1>1, <1>4, <1>5, <3>2 DEF BumpsAway
    <2> QED BY <1>1, <1>4, <1>5, <2>1 DEF BumpsAway
  <1>8. \A m \in Mounts : S(Counted(m)) <= S({Bump})
    <2> SUFFICES ASSUME NEW m \in Mounts PROVE S(Counted(m)) <= S({Bump})
      OBVIOUS
    <2>1. /\ s.pulses \in Seq(Moves) /\ primary \in Seq(Work) /\ secondary \in Seq(Moves)
          /\ Works(events) \in Seq(Work) /\ DOMAIN Works(events) = DOMAIN events
          /\ \A i \in DOMAIN events : Works(events)[i] = events[i].work
      BY <1>1, QueueSequences
    <2>2. Count(s.pulses, Counted(m)) <= Count(s.pulses, {Bump})
      BY <1>7, <2>1, CountMonotone
    <2>3. Count(primary, Counted(m)) <= Count(primary, {Bump})
      BY <1>7, <2>1, CountMonotone
    <2>4. Count(secondary, Counted(m)) <= Count(secondary, {Bump})
      BY <1>7, <2>1, CountMonotone
    <2>5. Count(Works(events), Counted(m)) <= Count(Works(events), {Bump})
      <3>1. \A i \in DOMAIN Works(events) :
                Works(events)[i] \in Counted(m) => Works(events)[i] \in {Bump}
        BY <1>7, <2>1
      <3> QED BY <2>1, <3>1, CountMonotone
    <2>6. \A W : /\ Count(s.pulses, W) \in Nat /\ Count(primary, W) \in Nat
                 /\ Count(secondary, W) \in Nat /\ Count(Works(events), W) \in Nat
      BY <1>1, SumParts
    <2> QED BY <2>2, <2>3, <2>4, <2>5, <2>6 DEF Sum
  <1>9. \A m \in Mounts : S(Counted(m)) \in Nat /\ S({Bump}) \in Nat
    BY <1>1, SumParts
  <1>10. S({Bump}) <= IF HasAO THEN 1 ELSE 0
    BY <1>1 DEF BumpsAway
  <1>11. \A m \in Mounts : s.busy[m] = S(Counted(m))
    <2> SUFFICES ASSUME NEW m \in Mounts PROVE s.busy[m] = S(Counted(m))
      OBVIOUS
    <2>1. Away.n[m] = S(Counted(m))
      BY DEF Away, Out
    <2>2. s.busy[m] = Away.n[m] + Count(s.moves, Counted(m))
      BY <1>1 DEF Queue
    <2>3. Count(s.moves, Counted(m)) = 0 /\ S(Counted(m)) \in Nat
      BY <1>6, <1>9
    <2> HIDE DEF S
    <2> QED BY <2>1, <2>2, <2>3
  <1>12. S(Counted(Primary)) = 0
    <2>1. CASE HasAO
      <3>1. Bump \notin Counted(Primary)
        BY <2>1, MountNames DEF Bump, Counted
      <3>2. /\ \A i \in DOMAIN s.pulses : s.pulses[i] \notin Counted(Primary)
            /\ \A i \in DOMAIN primary : primary[i] \notin Counted(Primary)
            /\ \A i \in DOMAIN secondary : secondary[i] \notin Counted(Primary)
            /\ \A i \in DOMAIN events : events[i].work \notin Counted(Primary)
        BY <1>7, <3>1, MountNames
      <3> QED BY <1>1, <3>2, SumParts
    <2>2. CASE ~HasAO
      <3> HIDE DEF S
      <3>1. S({Bump}) <= 0
        BY <1>10, <2>2
      <3>2. Primary \in Mounts
        BY MountNames
      <3>3. S(Counted(Primary)) <= S({Bump}) /\ S(Counted(Primary)) \in Nat
        BY <1>8, <1>9, <3>2
      <3>4. S({Bump}) \in Nat
        BY <1>9, <3>2
      <3> QED BY <3>1, <3>3, <3>4
    <2> QED BY <2>1, <2>2
  <1> HIDE DEF S
  <1>13. s.busy["scope"] <= 1 /\ s.busy["scope"] \in Nat
    <2>1. S(Counted("scope")) <= S({Bump}) /\ S(Counted("scope")) \in Nat /\ S({Bump}) \in Nat
      BY <1>8, <1>9, MountNames
    <2>2. s.busy["scope"] = S(Counted("scope"))
      BY <1>11, MountNames
    <2>3. S({Bump}) <= 1
      BY <1>10, <2>1
    <2> QED BY <2>1, <2>2, <2>3
  <1> QED BY <1>3, <1>11, <1>12, <1>13, MountNames

\* An image, a capture error and a reconnection find the guider ready for a frame.
LEMMA ImageTime ==
    ASSUME Sound, events # <<>>, Head(events).work = Exposure
    PROVE  LET t == [s EXCEPT !.pending = FALSE]
               o == Out(s.pulses, primary, secondary, Tail(events))
           IN /\ FrameTime(t, o) /\ ~t.pending /\ t.capture /\ t.ctl \in Resting
              /\ "pause_full" \notin Commands => t.pause # "full"
              /\ t.step = s.step /\ t.pulses = s.pulses
  <1> DEFINE t == [s EXCEPT !.pending = FALSE]
             o == Out(s.pulses, primary, secondary, Tail(events))
             S(W) == Sum(s.pulses, primary, secondary, events, W)
             R(W) == Sum(s.pulses, primary, secondary, Tail(events), W)
  <1>1. /\ Outer(Away) /\ Good(s, Away) /\ Core(s, Away) /\ Rec(s) /\ Typed(s)
        /\ Alive(s) /\ s.ctl \in Resting
    BY AwayGood
  <1>2. s.busy[Primary] = 0 /\ s.busy["scope"] < 2 /\ Away.x > 0
    BY NotBusy
  <1>3. /\ QueueTypes(s.pulses, primary, secondary, Tail(events))
        /\ \A W : S(W) = R(W) + IF Exposure \in W THEN 1 ELSE 0
    <2>1. Around(s.pulses, s.step, primary, secondary, events)
      BY DEF Sound
    <2> QED BY <2>1, EventTail
  <1>4. Outer(o)
    BY <1>3, OutGood
  <1>5. /\ o.x = R({Exposure}) /\ o.g = R(GuideMoves)
        /\ \A m \in Mounts : o.n[m] = R(Counted(m))
        /\ Away.x = S({Exposure}) /\ Away.g = S(GuideMoves)
        /\ \A m \in Mounts : Away.n[m] = S(Counted(m))
    BY DEF Out, Away
  <1> HIDE DEF o, S, R
  <1>6. Away.x = o.x + 1 /\ Away.g = o.g /\ \A m \in Mounts : Away.n[m] = o.n[m]
    <2>1. Away.x = o.x + 1
      BY <1>3, <1>5
    <2>2. Exposure \notin GuideMoves /\ \A m \in Mounts : Exposure \notin Counted(m)
      BY ExposureNoMove DEF GuideMoves, Counted
    <2>3. o.g \in Nat /\ \A m \in Mounts : o.n[m] \in Nat
      BY <1>4 DEF Outer
    <2>4. S(GuideMoves) = R(GuideMoves) + 0
      BY <1>3, <2>2
    <2>5. Away.g = o.g
      BY <1>5, <2>3, <2>4
    <2>6. ASSUME NEW m \in Mounts PROVE Away.n[m] = o.n[m]
      <3>1. S(Counted(m)) = R(Counted(m)) + 0
        BY <1>3, <2>2
      <3> QED BY <1>5, <2>3, <3>1
    <2> QED BY <2>1, <2>5, <2>6
  <1>7. s.pending /\ s.shots = 0 /\ o.x = 0
    <2>1. s.shots + Away.x = IF s.pending THEN 1 ELSE 0
      BY <1>1 DEF Core, Queue
    <2>2. s.shots \in Nat /\ o.x \in Nat
      BY <1>1, <1>4 DEF Typed, Outer
    <2> QED BY <1>6, <2>1, <2>2
  <1>8. Rec(t) /\ Same(s, t, {"pending"}) /\ t.pending = FALSE
    BY <1>1 DEF Rec, Same, Fields
  <1> HIDE DEF t
  <1>9. Typed(t)
    <2>1. t.pending \in BOOLEAN
      BY <1>8
    <2> QED BY <1>1, <1>8, <2>1 DEF Typed, Same, Fields
  <1>10. Queue(t, o)
    <2>1. \A m \in Mounts : t.busy[m] = o.n[m] + Count(t.moves, Counted(m))
      BY <1>1, <1>6, <1>8 DEF Core, Queue, Same, Fields
    <2>2. t.shots + o.x = IF t.pending THEN 1 ELSE 0
      <3>1. t.shots = 0
        BY <1>7, <1>8 DEF Same, Fields
      <3> QED BY <1>7, <1>8, <3>1
    <2>3. o.g > 0 \/ Count(t.moves, GuideMoves) > 0 => t.client.guiding
      BY <1>1, <1>6, <1>8 DEF Core, Queue, Same, Fields
    <2>4. /\ \A i \in DOMAIN t.moves : t.moves[i].kind # "bump"
          /\ "pending exposure" \notin t.failed /\ "request count" \notin t.failed
      BY <1>1, <1>8 DEF Core, Queue, Same, Fields
    <2>5. ~(o.x > 0)
      BY <1>7
    <2> QED BY <2>1, <2>2, <2>3, <2>4, <2>5 DEF Queue
  <1>11. Capturing(t) /\ t.capture
    BY <1>1, <1>7, <1>8 DEF Core, Capturing, Same, Fields
  <1>12. AnswersKept(t) /\ Trying(t) /\ DecKept(t)
    BY <1>1, <1>8 DEF Core, AnswersKept, Trying, DecKept, Same, Fields
  <1>13. Told(t)
    BY <1>1, <1>8 DEF Core, Told, AllCalibrated, IsCalibratingOrGuiding, MountsIdle,
       Same, Fields
  <1>14. Ready(t) /\ Guided(t)
    BY <1>1, <1>8 DEF Good, Ready, Guided, ValidStar, AllCalibrated, Same, Fields
  <1>15. Good(t, o)
    BY <1>8, <1>9, <1>10, <1>11, <1>12, <1>13, <1>14 DEF Good, Core
  <1>16. /\ t.busy[Primary] = 0 /\ t.busy["scope"] < 2 /\ t.ctl \in Resting
         /\ t.step = s.step /\ t.pulses = s.pulses
    BY <1>1, <1>2, <1>8 DEF Same, Fields
  <1>17. "pause_full" \notin Commands => t.pause # "full"
    BY <1>1, <1>8 DEF Alive, Same, Fields
  <1> QED BY <1>4, <1>7, <1>8, <1>11, <1>15, <1>16, <1>17 DEF FrameTime, t, o

\* What the handler of an exposure leaves is sound, without its event.
LEMMA ImageHandled ==
    ASSUME Sound, NEW results, NextEvent({TRUE}, results),
           LET t == [s EXCEPT !.pending = FALSE]
           IN Left(t, s', Out(s.pulses, primary, secondary, Tail(events)))
    PROVE  Sound'
  <1> DEFINE t == [s EXCEPT !.pending = FALSE]
             o == Out(s.pulses, primary, secondary, Tail(events))
  <1>1. events # <<>> /\ Head(events).work = Exposure
    BY DEF NextEvent
  <1>2. events' = Tail(events) /\ primary' = primary /\ secondary' = secondary
    BY DEF NextEvent
  <1>3. t.step = s.step /\ t.pulses = s.pulses
    BY <1>1, ImageTime
  <1>4. Left(t, s', o)
    OBVIOUS
  <1> HIDE DEF t
  <1>5. Around(s.pulses, s.step, primary, secondary, Tail(events))
    <2>1. Exposure \notin GuideMoves
      BY ExposureNoMove DEF GuideMoves
    <2>2. Around(s.pulses, s.step, primary, secondary, events)
      BY DEF Sound
    <2>3. \A after : (\A m \in Mounts : after[m] =>
              s.step[m] /\ ~(Head(events).work \in GuideMoves /\ Head(events).work.mount = m))
                => Around(s.pulses, after, primary, secondary, Tail(events))
      BY <1>1, <2>2, EventTail
    <2> QED BY <1>1, <2>1, <2>3
  <1>6. s'.step = s.step /\ s'.pulses = s.pulses
    BY <1>3, <1>4 DEF Left
  <1>7. Out(s'.pulses, primary', secondary', events') = o
    BY <1>2, <1>6
  <1> HIDE DEF o
  <1> QED BY <1>2, <1>4, <1>5, <1>6, <1>7 DEF Sound, Left

\* An image that is handled keeps the invariant (MyFrame::OnExposeComplete).
LEMMA HandleImageSound == ASSUME Sound, HandleImage PROVE Sound'
  <1>1. NextEvent({TRUE}, {"ok"})
    BY DEF HandleImage
  <1>2. PICK sky \in Sky : s' = OnExposeComplete(s, FALSE, sky)
    BY SkiesGood DEF HandleImage
  <1>3. events # <<>> /\ Head(events).work = Exposure
    BY <1>1 DEF NextEvent
  <1> DEFINE o == Out(s.pulses, primary, secondary, Tail(events))
  <1>4. LET t == [s EXCEPT !.pending = FALSE]
        IN /\ FrameTime(t, o) /\ ~t.pending /\ t.capture /\ t.ctl \in Resting
           /\ "pause_full" \notin Commands => t.pause # "full"
    BY <1>3, ImageTime
  <1> HIDE DEF o
  <1>5. Left([s EXCEPT !.pending = FALSE], OnExposeComplete(s, FALSE, sky), o)
    BY <1>4, OnExposeCompleteGood
  <1> QED BY <1>1, <1>2, <1>5, ImageHandled DEF o

\* A capture error that is handled keeps the invariant (MyFrame::OnExposeComplete).
LEMMA HandleCaptureErrorSound == ASSUME Sound, HandleCaptureError PROVE Sound'
  <1>1. NextEvent({TRUE}, {"error"}) /\ s' = OnExposeComplete(s, TRUE, NoSky)
    BY DEF HandleCaptureError
  <1>2. NoSky \in Sky
    BY SkiesGood
  <1>3. events # <<>> /\ Head(events).work = Exposure
    BY <1>1 DEF NextEvent
  <1> DEFINE o == Out(s.pulses, primary, secondary, Tail(events))
  <1>4. LET t == [s EXCEPT !.pending = FALSE]
        IN /\ FrameTime(t, o) /\ ~t.pending /\ t.capture /\ t.ctl \in Resting
           /\ "pause_full" \notin Commands => t.pause # "full"
    BY <1>3, ImageTime
  <1> HIDE DEF o
  <1>5. Left([s EXCEPT !.pending = FALSE], OnExposeComplete(s, TRUE, NoSky), o)
    BY <1>2, <1>4, OnExposeCompleteGood
  <1> QED BY <1>1, <1>5, ImageHandled DEF o

\* A reconnection keeps the invariant (MyFrame::DoTryReconnect).
LEMMA HandleReconnectSound == ASSUME Sound, HandleReconnect PROVE Sound'
  <1>1. NextEvent({TRUE}, {"reconnect"})
    BY DEF HandleReconnect
  <1>2. PICK reconnected \in BOOLEAN : s' = DoTryReconnect(s, reconnected)
    BY DEF HandleReconnect
  <1>3. events # <<>> /\ Head(events).work = Exposure /\ Rec(s)
    BY <1>1, AwayGood DEF NextEvent
  <1> DEFINE o == Out(s.pulses, primary, secondary, Tail(events))
  <1>4. LET t == [s EXCEPT !.pending = FALSE]
        IN /\ FrameTime(t, o) /\ ~t.pending /\ t.capture /\ t.ctl \in Resting
           /\ "pause_full" \notin Commands => t.pause # "full"
    BY <1>3, ImageTime
  <1> HIDE DEF o
  <1>5. Left([s EXCEPT !.pending = FALSE], DoTryReconnect(s, reconnected), o)
    BY <1>3, <1>4, DoTryReconnectGood
  <1> QED BY <1>1, <1>2, <1>5, ImageHandled DEF o

\* A move that is counted is taken off its mount's count.
LEMMA CountedMove ==
    ASSUME Sound, events # <<>>, Head(events).work # Exposure,
           Head(events).work.kind # "manual"
    PROVE  LET m == Head(events).work.mount
               b == [s EXCEPT !.busy[m] = @ - 1]
               o == Out(s.pulses, primary, secondary, Tail(events))
           IN /\ Head(events).work \in Moves /\ m \in Mounts
              /\ s.busy \in [Mounts -> Nat] /\ s.busy[m] > 0
              /\ Outer(o) /\ Bare(b, o) /\ Ready(b) /\ Guided(b) /\ Alive(b)
              /\ b.ctl \in Resting
              /\ Commands \cap Silent = {} => (b.client.guiding => AllCalibrated(b))
              /\ b.step[m] => b.client.guiding
              /\ b.step = s.step /\ b.pulses = s.pulses
  <1> DEFINE w == Head(events).work
             m == w.mount
             b == [s EXCEPT !.busy[m] = @ - 1]
             o == Out(s.pulses, primary, secondary, Tail(events))
             S(W) == Sum(s.pulses, primary, secondary, events, W)
             R(W) == Sum(s.pulses, primary, secondary, Tail(events), W)
  <1>1. /\ Outer(Away) /\ Good(s, Away) /\ Core(s, Away) /\ Rec(s) /\ Typed(s)
        /\ Alive(s) /\ s.ctl \in Resting
        /\ Around(s.pulses, s.step, primary, secondary, events)
    BY AwayGood DEF Sound
  <1>2. /\ QueueTypes(s.pulses, primary, secondary, Tail(events))
        /\ \A W : S(W) = R(W) + IF w \in W THEN 1 ELSE 0
        /\ w \in Work
    BY <1>1, EventTail
  <1>3. w \in Moves /\ m \in Mounts /\ w \in Counted(m)
        /\ \A k \in Mounts : k # m => w \notin Counted(k)
    <2>1. w \in Moves
      BY <1>2 DEF Work
    <2> QED BY <2>1 DEF Moves, Counted
  <1>4. Outer(o)
    BY <1>2, OutGood
  <1>5. /\ o.x = R({Exposure}) /\ o.g = R(GuideMoves)
        /\ \A k \in Mounts : o.n[k] = R(Counted(k))
        /\ Away.x = S({Exposure}) /\ Away.g = S(GuideMoves)
        /\ \A k \in Mounts : Away.n[k] = S(Counted(k))
    BY DEF Out, Away
  <1>6. w # Exposure
    OBVIOUS
  <1> HIDE DEF o, S, R
  <1>7. /\ Away.x = o.x /\ Away.g >= o.g /\ Away.n[m] = o.n[m] + 1
        /\ \A k \in Mounts : k # m => Away.n[k] = o.n[k]
    <2>1. o.x \in Nat /\ o.g \in Nat /\ \A k \in Mounts : o.n[k] \in Nat
      BY <1>4 DEF Outer
    <2> HIDE DEF w
    <2>2. Away.x = o.x
      <3>1. S({Exposure}) = R({Exposure}) + 0
        BY <1>2, <1>6
      <3> QED BY <1>5, <2>1, <3>1
    <2>3. Away.g >= o.g
      <3>1. S(GuideMoves) = R(GuideMoves) + IF w \in GuideMoves THEN 1 ELSE 0
        BY <1>2
      <3> QED BY <1>5, <2>1, <3>1
    <2> HIDE DEF m
    <2>4. Away.n[m] = o.n[m] + 1
      <3>1. S(Counted(m)) = R(Counted(m)) + 1
        BY <1>2, <1>3
      <3> QED BY <1>3, <1>5, <2>1, <3>1
    <2>5. ASSUME NEW k \in Mounts, k # m PROVE Away.n[k] = o.n[k]
      <3>1. S(Counted(k)) = R(Counted(k)) + 0
        BY <1>2, <1>3, <2>5
      <3> QED BY <1>5, <2>1, <3>1
    <2> QED BY <2>2, <2>3, <2>4, <2>5
  <1> DEFINE c(k) == Count(s.moves, Counted(k))
  <1>8. /\ \A k \in Mounts : s.busy[k] = Away.n[k] + c(k)
        /\ \A k \in Mounts : c(k) \in Nat /\ o.n[k] \in Nat /\ s.busy[k] \in Nat
    <2>1. s.moves \in Seq(Moves) /\ s.busy \in [Mounts -> Nat]
      BY <1>1 DEF Typed
    <2>2. \A k \in Mounts : c(k) \in Nat
      BY <2>1, CountSets
    <2>3. \A k \in Mounts : s.busy[k] = Away.n[k] + c(k)
      BY <1>1 DEF Core, Queue
    <2>4. \A k \in Mounts : o.n[k] \in Nat
      BY <1>4 DEF Outer
    <2> QED BY <2>1, <2>2, <2>3, <2>4
  <1> HIDE DEF w, m, c
  <1>9. s.busy \in [Mounts -> Nat] /\ s.busy[m] > 0
    <2>1. s.busy \in [Mounts -> Nat]
      BY <1>1 DEF Typed
    <2>2. s.busy[m] = (o.n[m] + 1) + c(m) /\ o.n[m] \in Nat /\ c(m) \in Nat
      BY <1>3, <1>7, <1>8
    <2> QED BY <2>1, <2>2
  <1>10. /\ Rec(b) /\ Same(s, b, {"busy"})
         /\ b.busy = [s.busy EXCEPT ![m] = @ - 1]
    BY <1>1 DEF Rec, Same, Fields
  <1> HIDE DEF b
  <1>11. Typed(b)
    <2>1. b.busy \in [Mounts -> Nat]
      <3>1. s.busy[m] \in Nat /\ s.busy[m] - 1 \in Nat
        BY <1>3, <1>9
      <3> QED BY <1>3, <1>9, <1>10, <3>1
    <2> QED BY <1>1, <1>10, <2>1 DEF Typed, Same, Fields
  <1>12. Queue(b, o)
    <2>1. \A k \in Mounts : b.busy[k] = o.n[k] + c(k)
      <3> SUFFICES ASSUME NEW k \in Mounts PROVE b.busy[k] = o.n[k] + c(k)
        OBVIOUS
      <3>1. CASE k = m
        <4>1. b.busy[m] = s.busy[m] - 1
          BY <1>3, <1>9, <1>10
        <4>2. s.busy[m] = (o.n[m] + 1) + c(m) /\ o.n[m] \in Nat /\ c(m) \in Nat
          BY <1>3, <1>7, <1>8
        <4>3. b.busy[m] = o.n[m] + c(m)
          BY <4>1, <4>2
        <4> QED BY <3>1, <4>3
      <3>2. CASE k # m
        <4>1. b.busy[k] = s.busy[k]
          BY <1>9, <1>10, <3>2
        <4> QED BY <1>7, <1>8, <3>2, <4>1
      <3> QED BY <3>1, <3>2
    <2>2. b.shots + o.x = IF b.pending THEN 1 ELSE 0
      BY <1>1, <1>7, <1>10 DEF Core, Queue, Same, Fields
    <2>3. o.g > 0 \/ Count(b.moves, GuideMoves) > 0 => b.client.guiding
      <3>1. o.g > 0 => Away.g > 0
        <4>1. o.g \in Nat /\ Away.g \in Nat
          BY <1>1, <1>4 DEF Outer
        <4> QED BY <1>7, <4>1
      <3> QED BY <1>1, <1>10, <3>1 DEF Core, Queue, Same, Fields
    <2>4. o.x > 0 => \A i \in DOMAIN b.moves : b.moves[i] \notin FrameMoves
      BY <1>1, <1>7, <1>10 DEF Core, Queue, Same, Fields
    <2>5. /\ \A i \in DOMAIN b.moves : b.moves[i].kind # "bump"
          /\ "pending exposure" \notin b.failed /\ "request count" \notin b.failed
      BY <1>1, <1>10, ZenonT(60) DEF Core, Queue, Same, Fields
    <2>6. \A k \in Mounts : b.busy[k] = o.n[k] + Count(b.moves, Counted(k))
      <3>1. b.moves = s.moves
        BY <1>10 DEF Same, Fields
      <3> QED BY <2>1, <3>1 DEF c
    <2> QED BY <2>2, <2>3, <2>4, <2>5, <2>6 DEF Queue
  <1>13. Bare(b, o)
    <2>1. Capturing(b)
      BY <1>1, <1>10 DEF Core, Capturing, Same, Fields
    <2>2. AnswersKept(b) /\ Trying(b) /\ DecKept(b)
      BY <1>1, <1>10 DEF Core, AnswersKept, Trying, DecKept, Same, Fields
    <2>3. Commands \cap Silent = {} => b.ctl \in {"IDLE", "SETTLE_BEGIN", "SETTLE_WAIT"}
      BY <1>1, <1>10 DEF Core, Told, Same, Fields
    <2> QED BY <1>10, <1>11, <1>12, <2>1, <2>2, <2>3 DEF Bare
  <1>14. Ready(b) /\ Guided(b)
    BY <1>1, <1>10 DEF Good, Ready, Guided, ValidStar, AllCalibrated, Same, Fields
  <1>15. Alive(b) /\ b.ctl \in Resting /\ b.step = s.step /\ b.pulses = s.pulses
    BY <1>1, <1>10 DEF Alive, Same, Fields
  <1>16. Commands \cap Silent = {} => (b.client.guiding => AllCalibrated(b))
    BY <1>1, <1>10 DEF Core, Told, AllCalibrated, Same, Fields
  <1>17. b.step[m] => b.client.guiding
    <2> SUFFICES ASSUME b.step[m] PROVE b.client.guiding
      OBVIOUS
    <2>1. s.step[m]
      BY <1>15
    <2>2. PICK i \in DOMAIN events : events[i].work \in GuideMoves
      BY <1>1, <1>3, <2>1 DEF Around, StepsReported
    <2>3. S(GuideMoves) # 0
      BY <1>1, <2>2, SumParts DEF Around, S
    <2>4. Away.g > 0
      <3>1. Away.g \in Nat
        BY <1>1 DEF Outer
      <3> QED BY <1>5, <2>3, <3>1
    <2>5. s.client.guiding
      BY <1>1, <2>4 DEF Core, Queue
    <2> QED BY <1>10, <2>5 DEF Same, Fields
  <1> QED BY <1>3, <1>4, <1>9, <1>13, <1>14, <1>15, <1>16, <1>17 DEF w, m, b, o

\* A move's completion that is handled keeps the invariant (MyFrame::OnMoveComplete):
\* a manual one changes nothing, another is counted off.
LEMMA HandleMoveCompleteSound == ASSUME Sound, HandleMoveComplete PROVE Sound'
  <1> DEFINE w == Head(events).work
             m == w.mount
             b == [s EXCEPT !.busy[m] = @ - 1]
             o == Out(s.pulses, primary, secondary, Tail(events))
  <1>1. /\ events # <<>> /\ w # Exposure
        /\ events' = Tail(events) /\ primary' = primary /\ secondary' = secondary
        /\ s' = OnMoveComplete(s, w, Head(events).result)
    <2>1. NextEvent({FALSE}, Results)
      BY DEF HandleMoveComplete
    <2>2. (w = Exposure) \in {FALSE}
      BY <2>1 DEF NextEvent
    <2>3. w # Exposure
      BY <2>2
    <2> QED BY <2>1, <2>3 DEF NextEvent, HandleMoveComplete
  <1>2. /\ Outer(Away) /\ Good(s, Away) /\ Core(s, Away) /\ Alive(s) /\ s.ctl \in Resting
        /\ Around(s.pulses, s.step, primary, secondary, events)
    BY AwayGood DEF Sound
  <1>3. \A after : (\A k \in Mounts : after[k] =>
              s.step[k] /\ ~(w \in GuideMoves /\ w.mount = k))
                => Around(s.pulses, after, primary, secondary, Tail(events))
    BY <1>1, <1>2, EventTail
  <1>4. CASE w.kind = "manual"
    <2>1. s' = s
      BY <1>1, <1>4 DEF OnMoveComplete
    <2>2. w \notin GuideMoves /\ \A k \in Mounts : w \notin Counted(k)
      BY <1>4 DEF GuideMoves, Counted
    <2>3. Around(s.pulses, s.step, primary, secondary, Tail(events))
      BY <1>3, <2>2
    <2>4. \A W : Sum(s.pulses, primary, secondary, events, W)
                   = Sum(s.pulses, primary, secondary, Tail(events), W)
                     + IF w \in W THEN 1 ELSE 0
      BY <1>1, <1>2, EventTail
    <2>5. \A W : Sum(s.pulses, primary, secondary, Tail(events), W) \in Nat
      BY <2>3, SumParts DEF Around
    <2> HIDE DEF w, o
    <2>6. ASSUME NEW W, w \notin W
          PROVE  Sum(s.pulses, primary, secondary, events, W)
                   = Sum(s.pulses, primary, secondary, Tail(events), W)
      BY <2>4, <2>5, <2>6
    <2>7. Away = o
      <3>1. /\ Sum(s.pulses, primary, secondary, events, {Exposure})
                 = Sum(s.pulses, primary, secondary, Tail(events), {Exposure})
            /\ Sum(s.pulses, primary, secondary, events, GuideMoves)
                 = Sum(s.pulses, primary, secondary, Tail(events), GuideMoves)
        BY <1>1, <2>2, <2>6
      <3>2. \A k \in Mounts : Sum(s.pulses, primary, secondary, events, Counted(k))
                 = Sum(s.pulses, primary, secondary, Tail(events), Counted(k))
        BY <2>2, <2>6
      <3> QED BY <3>1, <3>2 DEF Away, Out, o
    <2>8. Good(s, o)
      BY <1>2, <2>7
    <2> QED BY <1>1, <1>2, <2>1, <2>3, <2>8 DEF Sound, o
  <1>5. CASE w.kind # "manual"
    <2>1. /\ w \in Moves /\ m \in Mounts /\ s.busy \in [Mounts -> Nat] /\ s.busy[m] > 0
          /\ Outer(o) /\ Bare(b, o) /\ Ready(b) /\ Guided(b) /\ Alive(b)
          /\ b.ctl \in Resting
          /\ Commands \cap Silent = {} => (b.client.guiding => AllCalibrated(b))
          /\ b.step[m] => b.client.guiding
          /\ b.step = s.step /\ b.pulses = s.pulses
      BY <1>1, <1>5, CountedMove
    <2> DEFINE r == Head(events).result
    <2> HIDE DEF w, o, r
    <2>2. LET u == OnMoveComplete(s, w, r)
          IN /\ Good(u, o) /\ Alive(u) /\ u.ctl \in Resting /\ u.pulses = b.pulses
             /\ u.step = [b.step EXCEPT ![m] = FALSE]
      BY <1>5, <2>1, OnMoveCompleteGood, SMTT(40)
    <2>3. s' = OnMoveComplete(s, w, r)
      BY <1>1 DEF r
    <2> HIDE DEF b
    <2>4. /\ Good(s', o) /\ Alive(s') /\ s'.ctl \in Resting /\ s'.pulses = s.pulses
          /\ s'.step = [s.step EXCEPT ![m] = FALSE]
      BY <2>1, <2>2, <2>3
    <2>5. Around(s.pulses, s'.step, primary, secondary, Tail(events))
      <3>1. s.step \in [Mounts -> BOOLEAN]
        BY AwayGood DEF Typed
      <3>2. \A k \in Mounts : s'.step[k] => s.step[k] /\ ~(w \in GuideMoves /\ m = k)
        BY <2>1, <2>4, <3>1
      <3> QED BY <1>3, <3>2
    <2>6. Out(s'.pulses, primary', secondary', events') = o
      BY <1>1, <2>4 DEF o
    <2> QED BY <1>1, <2>4, <2>5, <2>6 DEF Sound
  <1> QED BY <1>4, <1>5

-------------------------------------------------------------------------------
(* The worker threads.                                                     *)

\* What a worker may change in the record.
WorkFields == {"moves", "shots", "pulses", "step", "camera", "busy"}

\* A worker's step keeps what does not speak of the queues.
LEMMA WorkGood ==
    ASSUME NEW t, NEW u, NEW o, NEW p, Good(t, o), Rec(u), Typed(u), Queue(u, p),
           Same(t, u, WorkFields), MountsIdle(u) => MountsIdle(t)
    PROVE  Good(u, p)
  <1>1. Capturing(u) /\ AnswersKept(u) /\ Trying(u) /\ DecKept(u)
    BY DEF Good, Core, Capturing, AnswersKept, Trying, DecKept, Same, Fields, WorkFields
  <1>2. Told(u)
    BY DEF Good, Core, Told, AllCalibrated, IsCalibratingOrGuiding, Same, Fields, WorkFields
  <1>3. Ready(u) /\ Guided(u)
    BY DEF Good, Ready, Guided, ValidStar, AllCalibrated, Same, Fields, WorkFields
  <1> QED BY <1>1, <1>2, <1>3 DEF Good, Core

\* A worker's step that keeps the queues and what is around them is sound.
LEMMA WorkSound ==
    ASSUME Sound, Rec(s'), Typed(s'), Same(s, s', WorkFields),
           MountsIdle(s') => MountsIdle(s),
           Queue(s', Out(s'.pulses, primary', secondary', events')),
           Around(s'.pulses, s'.step, primary', secondary', events')
    PROVE  Sound'
  <1> DEFINE p == Out(s'.pulses, primary', secondary', events')
             u == s'
  <1>1. Good(s, Away) /\ Alive(s) /\ s.ctl \in Resting
    BY AwayGood
  <1>2. Good(u, p)
    <2>1. Rec(u) /\ Typed(u) /\ Same(s, u, WorkFields) /\ (MountsIdle(u) => MountsIdle(s))
          /\ Queue(u, p)
      OBVIOUS
    <2> HIDE DEF p, u
    <2> QED BY <1>1, <2>1, WorkGood
  <1>3. Alive(u) /\ u.ctl \in Resting
    <2>1. Same(s, u, WorkFields)
      OBVIOUS
    <2> HIDE DEF u
    <2> QED BY <1>1, <2>1 DEF Alive, Same, Fields, WorkFields
  <1> QED BY <1>2, <1>3 DEF Sound

\* One more report in the frame's queue.
LEMMA EventAppend ==
    ASSUME NEW e \in Seq([work : Work, result : Results]), NEW w \in Work,
           NEW r \in Results
    PROVE  LET n == Append(e, [work |-> w, result |-> r])
           IN /\ n \in Seq([work : Work, result : Results])
              /\ \A W : Count(Works(n), W) = Count(Works(e), W) + IF w \in W THEN 1 ELSE 0
              /\ \A W : Count(Works(e), W) \in Nat
              /\ \A i \in DOMAIN e : i \in DOMAIN n /\ n[i] = e[i]
              /\ \A i \in DOMAIN n : \/ i \in DOMAIN e /\ n[i] = e[i]
                                     \/ n[i].work = w /\ \A j \in DOMAIN n : ~(j > i)
              /\ \E i \in DOMAIN n : n[i].work = w
  <1> DEFINE R == [work : Work, result : Results]
             x == [work |-> w, result |-> r]
             n == Append(e, x)
             k == Len(e) + 1
  <1>1. e \in Seq(R) /\ x \in R /\ x.work = w
    OBVIOUS
  <1>2. \A y \in R : y.work \in Work
    OBVIOUS
  <1> HIDE DEF R, x
  <1>3. /\ n \in Seq(R) /\ DOMAIN e = 1..Len(e) /\ Len(e) \in Nat
        /\ DOMAIN n = 1..k /\ n[k] = x /\ \A i \in DOMAIN e : n[i] = e[i]
        /\ \A i \in DOMAIN e : e[i] \in R
    BY <1>1
  <1>4. Works(e) \in Seq(Work)
    BY <1>2, <1>3 DEF Works
  <1>5. Works(n) = Append(Works(e), w)
    <2>1. /\ DOMAIN Works(n) = 1..k /\ Works(n)[k] = w
          /\ \A i \in DOMAIN e : Works(n)[i] = e[i].work
      BY <1>1, <1>3 DEF Works
    <2>2. Len(Works(e)) = Len(e) /\ DOMAIN Works(e) = DOMAIN e
          /\ \A i \in DOMAIN e : Works(e)[i] = e[i].work
      <3>1. DOMAIN Works(e) = DOMAIN e /\ \A i \in DOMAIN e : Works(e)[i] = e[i].work
        BY DEF Works
      <3>2. Len(Works(e)) = Len(e)
        BY <1>3, <1>4, <3>1
      <3> QED BY <3>1, <3>2
    <2> DEFINE a == Works(n)
               b == Works(e)
    <2>3. a = [i \in DOMAIN n |-> n[i].work]
      BY DEF Works
    <2> HIDE DEF a, b, n
    <2>4. DOMAIN Append(b, w) = 1..k
      BY <1>3, <1>4, <2>2 DEF b
    <2>5. Append(b, w)[k] = w /\ \A i \in DOMAIN e : Append(b, w)[i] = b[i]
      BY <1>3, <1>4, <2>2 DEF b
    <2>6. \A i \in 1..k : Append(b, w)[i] = a[i]
      <3> SUFFICES ASSUME NEW i \in 1..k PROVE Append(b, w)[i] = a[i]
        OBVIOUS
      <3>1. CASE i = k
        BY <2>1, <2>5, <3>1 DEF a
      <3>2. CASE i # k
        <4>1. i \in DOMAIN e
          BY <1>3, <3>2
        <4> QED BY <2>1, <2>2, <2>5, <4>1 DEF a, b
      <3> QED BY <3>1, <3>2
    <2>7. Append(b, w) \in Seq(Work) /\ Len(Append(b, w)) = k
      <3>1. b \in Seq(Work) /\ Len(b) = Len(e)
        BY <1>4, <2>2 DEF b
      <3> QED BY <1>3, <3>1
    <2>8. a \in Seq(Work) /\ Len(a) = k
      <3>1. DOMAIN a = 1..k /\ k \in Nat
        BY <1>3, <2>3
      <3>2. \A i \in 1..k : a[i] \in Work
        BY <1>2, <1>3, <2>3 
      <3>3. a = [i \in 1..k |-> a[i]]
        BY <1>3, <2>3
      <3>4. a \in [1..k -> Work]
        BY <3>2, <3>3
      <3> QED BY <3>1, <3>4
    <2>9. a = Append(b, w)
      <3> DEFINE c == Append(b, w)
      <3>1. c \in Seq(Work) /\ Len(c) = k /\ \A i \in 1..k : c[i] = a[i]
        BY <2>6, <2>7
      <3> HIDE DEF c, k
      <3>2. a = c
        BY <2>8, <3>1
      <3> QED BY <3>2 DEF c
    <2> QED BY <2>9 DEF a, b
  <1>6. ASSUME NEW W
        PROVE  Count(Works(n), W) = Count(Works(e), W) + (IF w \in W THEN 1 ELSE 0)
               /\ Count(Works(e), W) \in Nat
    <2>1. Count(Append(Works(e), w), W) = Count(Works(e), W) + IF w \in W THEN 1 ELSE 0
      BY <1>4, CountAppend
    <2>2. Count(Works(e), W) \in Nat
      BY <1>4, CountSets
    <2> HIDE DEF n
    <2> QED BY <1>5, <2>1, <2>2
  <1>7. \A i \in DOMAIN n : \/ i \in DOMAIN e /\ n[i] = e[i]
                            \/ n[i].work = w /\ \A j \in DOMAIN n : ~(j > i)
    <2> SUFFICES ASSUME NEW i \in DOMAIN n
                 PROVE  \/ i \in DOMAIN e /\ n[i] = e[i]
                        \/ n[i].work = w /\ \A j \in DOMAIN n : ~(j > i)
      OBVIOUS
    <2> HIDE DEF n
    <2>1. CASE i = k
      BY <1>1, <1>3, <2>1
    <2>2. CASE i # k
      BY <1>3, <2>2
    <2> QED BY <2>1, <2>2
  <1>8. \A i \in DOMAIN e : i \in DOMAIN n /\ n[i] = e[i]
    <2> HIDE DEF n
    <2> QED BY <1>3
  <1>9. \E i \in DOMAIN n : n[i].work = w
    <2> HIDE DEF n
    <2>1. k \in DOMAIN n
      BY <1>3
    <2> QED BY <1>1, <1>3, <2>1
  <1> HIDE DEF n
  <1> QED BY <1>3, <1>6, <1>7, <1>8, <1>9 DEF n, x, R

\* A worker that is done reports what it served.
LEMMA Reporting ==
    ASSUME NEW pulses, NEW step, NEW p, NEW q, NEW e, Around(pulses, step, p, q, e),
           NEW w \in Work, NEW r \in Results, NEW p2 \in {p, <<>>}, NEW q2 \in {q, <<>>},
           NEW pulses2 \in Seq(Moves), NEW after,
           \A i \in DOMAIN pulses2 : pulses2[i] = Bump,
           w.kind = "bump" => w = Bump,
           w \in FrameMoves => \A i \in DOMAIN e : e[i].work # Exposure,
           w = Exposure => p2 = <<>>,
           \A m \in Mounts : after[m] => step[m] \/ (w.mount = m /\ w \in GuideMoves),
           Sum(pulses2, p2, q2, Append(e, [work |-> w, result |-> r]), {Bump})
             <= IF HasAO THEN 1 ELSE 0
    PROVE  Around(pulses2, after, p2, q2, Append(e, [work |-> w, result |-> r]))
  <1> DEFINE n == Append(e, [work |-> w, result |-> r])
  <1>1. /\ QueueTypes(pulses, p, q, e) /\ StepsReported(step, e)
        /\ BumpsAway(pulses, p, q, e) /\ FramesLast(p, e)
        /\ e \in Seq([work : Work, result : Results])
    BY DEF Around, QueueTypes
  <1>2. /\ n \in Seq([work : Work, result : Results])
        /\ \A i \in DOMAIN e : i \in DOMAIN n /\ n[i] = e[i]
        /\ \A i \in DOMAIN n : \/ i \in DOMAIN e /\ n[i] = e[i]
                               \/ n[i].work = w /\ \A j \in DOMAIN n : ~(j > i)
        /\ \E i \in DOMAIN n : n[i].work = w
    <2>1. e \in Seq([work : Work, result : Results])
      BY <1>1
    <2>2. n \in Seq([work : Work, result : Results])
      BY <2>1, EventAppend
    <2>3. \A i \in DOMAIN e : i \in DOMAIN n /\ n[i] = e[i]
      BY <2>1, EventAppend
    <2>4. \A i \in DOMAIN n : \/ i \in DOMAIN e /\ n[i] = e[i]
                              \/ n[i].work = w /\ \A j \in DOMAIN n : ~(j > i)
      BY <2>1, EventAppend
    <2>5. \E i \in DOMAIN n : n[i].work = w
      BY <2>1, EventAppend, ZenonT(60)
    <2> QED BY <2>2, <2>3, <2>4, <2>5
  <1>3. Sum(pulses2, p2, q2, n, {Bump}) <= IF HasAO THEN 1 ELSE 0
    OBVIOUS
  <1> HIDE DEF n
  <1>4. QueueTypes(pulses2, p2, q2, n)
    BY <1>1, <1>2 DEF QueueTypes
  <1>5. StepsReported(after, n)
    BY <1>1, <1>2 DEF StepsReported
  <1>6. BumpsAway(pulses2, p2, q2, n)
    <2>1. \A i \in DOMAIN p2 : p2[i].kind # "bump"
      BY <1>1 DEF BumpsAway
    <2>2. \A i \in DOMAIN q2 : q2[i] = Bump
      BY <1>1 DEF BumpsAway
    <2>3. \A i \in DOMAIN n : n[i].work.kind = "bump" => n[i].work = Bump
      BY <1>1, <1>2 DEF BumpsAway
    <2> QED BY <1>3, <2>1, <2>2, <2>3 DEF BumpsAway
  <1>7. FramesLast(p2, n)
    <2> SUFFICES ASSUME NEW i \in DOMAIN n, n[i].work = Exposure
                 PROVE  /\ \A j \in DOMAIN p2 : p2[j] \notin FrameMoves
                        /\ \A j \in DOMAIN n : j > i => n[j].work \notin FrameMoves
      BY DEF FramesLast
    <2>1. CASE i \in DOMAIN e /\ n[i] = e[i]
      <3>1. \A j \in DOMAIN p2 : p2[j] \notin FrameMoves
        BY <1>1, <2>1 DEF FramesLast
      <3>2. w \notin FrameMoves
        BY <2>1
      <3>3. \A j \in DOMAIN e : j > i => e[j].work \notin FrameMoves
        BY <1>1, <2>1 DEF FramesLast
      <3>4. \A j \in DOMAIN n : (j \in DOMAIN e /\ n[j] = e[j]) \/ n[j].work = w
        BY <1>2
      <3> QED BY <3>1, <3>2, <3>3, <3>4
    <2>2. CASE n[i].work = w /\ \A j \in DOMAIN n : ~(j > i)
      <3>1. p2 = <<>>
        BY <2>2
      <3> QED BY <2>2, <3>1
    <2> QED BY <1>2, <2>1, <2>2
  <1> QED BY <1>4, <1>5, <1>6, <1>7 DEF Around, n

\* The primary worker takes a move: it is away instead of queued.
LEMMA PrimaryTakeMove ==
    ASSUME Sound, primary = <<>>, s.moves # <<>>,
           primary' = <<Head(s.moves)>>, s' = [s EXCEPT !.moves = Tail(@)],
           UNCHANGED <<secondary, events>>
    PROVE  Sound'
  <1> DEFINE w == Head(s.moves)
             u == [s EXCEPT !.moves = Tail(@)]
             o == Out(s.pulses, <<w>>, secondary, events)
             S(W) == Sum(s.pulses, primary, secondary, events, W)
             R(W) == Sum(s.pulses, <<w>>, secondary, events, W)
  <1>1. /\ Outer(Away) /\ Good(s, Away) /\ Queue(s, Away) /\ Rec(s) /\ Typed(s)
        /\ Around(s.pulses, s.step, primary, secondary, events)
    BY AwayGood DEF Sound, Core
  <1>2. /\ s.moves \in Seq(Moves) /\ w \in Moves /\ Tail(s.moves) \in Seq(Moves)
        /\ 1 \in DOMAIN s.moves /\ w = s.moves[1]
        /\ \A i \in DOMAIN Tail(s.moves) : /\ i + 1 \in DOMAIN s.moves
                                           /\ Tail(s.moves)[i] = s.moves[i + 1]
    <2>1. s.moves \in Seq(Moves)
      BY <1>1 DEF Typed
    <2> DEFINE q == s.moves
    <2>2. q \in Seq(Moves) /\ q # <<>>
      BY <2>1
    <2> HIDE DEF q
    <2>3. /\ Head(q) \in Moves /\ Tail(q) \in Seq(Moves)
          /\ 1 \in DOMAIN q /\ Head(q) = q[1]
          /\ \A i \in DOMAIN Tail(q) : i + 1 \in DOMAIN q /\ Tail(q)[i] = q[i + 1]
      BY <2>2
    <2> QED BY <2>1, <2>3 DEF q
  <1>3. /\ Rec(u) /\ Same(s, u, {"moves"}) /\ u.moves = Tail(s.moves) /\ s' = u
    BY <1>1 DEF Rec, Same, Fields
  <1>4. \A W : Count(s.moves, W) = Count(u.moves, W) + IF w \in W THEN 1 ELSE 0
    BY <1>2, <1>3, CountTail
  <1>5. \A W : Count(u.moves, W) \in Nat
    BY <1>2, <1>3, CountSets
  <1>6. QueueTypes(s.pulses, primary, secondary, events)
        /\ QueueTypes(s.pulses, <<w>>, secondary, events)
    BY <1>1, <1>2 DEF Around, QueueTypes, Work
  <1>7. \A W : R(W) = S(W) + IF w \in W THEN 1 ELSE 0
    <2> SUFFICES ASSUME NEW W PROVE R(W) = S(W) + IF w \in W THEN 1 ELSE 0
      OBVIOUS
    <2>1. Count(<<w>>, W) = (IF w \in W THEN 1 ELSE 0) /\ Count(primary, W) = 0
      BY CountOne, CountEmpty
    <2>2. Count(s.pulses, W) \in Nat /\ Count(secondary, W) \in Nat
          /\ Count(Works(events), W) \in Nat
      BY <1>6, SumParts
    <2> HIDE DEF w
    <2> QED BY <2>1, <2>2 DEF Sum
  <1>8. \A W : S(W) \in Nat /\ R(W) \in Nat
    BY <1>6, SumParts
  <1>9. /\ o.x = R({Exposure}) /\ o.g = R(GuideMoves)
        /\ \A m \in Mounts : o.n[m] = R(Counted(m))
        /\ Away.x = S({Exposure}) /\ Away.g = S(GuideMoves)
        /\ \A m \in Mounts : Away.n[m] = S(Counted(m))
    BY DEF Out, Away
  <1>10. /\ w # Exposure /\ w.kind # "bump" /\ w # Bump
         /\ \A i \in DOMAIN s.moves : s.moves[i].kind # "bump"
    <2>1. \A i \in DOMAIN s.moves : s.moves[i].kind # "bump"
      BY <1>1 DEF Queue
    <2>2. w.kind # "bump" /\ w \in Moves
      BY <1>2, <2>1
    <2> HIDE DEF w
    <2> QED BY <2>1, <2>2, ExposureNoMove DEF Bump
  <1>11. Away.x > 0 => w \notin FrameMoves
    BY <1>1, <1>2 DEF Queue
  <1> HIDE DEF u, o, S, R, w
  <1>12. Typed(u)
    <2>1. u.moves \in Seq(Moves)
      BY <1>2, <1>3
    <2> QED BY <1>1, <1>3, <2>1 DEF Typed, Same, Fields
  <1>13. Away.x = o.x
    <2>1. w \notin {Exposure}
      BY <1>10
    <2>2. R({Exposure}) = S({Exposure}) + 0
      BY <1>7, <2>1
    <2> QED BY <1>8, <1>9, <2>2
  <1>14. Queue(u, o)
    <2>1. \A m \in Mounts : u.busy[m] = o.n[m] + Count(u.moves, Counted(m))
      <3> SUFFICES ASSUME NEW m \in Mounts
                   PROVE  u.busy[m] = o.n[m] + Count(u.moves, Counted(m))
        OBVIOUS
      <3>1. u.busy[m] = Away.n[m] + Count(s.moves, Counted(m))
        BY <1>1, <1>3 DEF Queue, Same, Fields
      <3>2. o.n[m] = Away.n[m] + IF w \in Counted(m) THEN 1 ELSE 0
        BY <1>7, <1>9
      <3>3. Count(s.moves, Counted(m))
              = Count(u.moves, Counted(m)) + IF w \in Counted(m) THEN 1 ELSE 0
        BY <1>4
      <3>4. Away.n[m] \in Nat /\ Count(u.moves, Counted(m)) \in Nat
        BY <1>5, <1>8, <1>9
      <3> QED BY <3>1, <3>2, <3>3, <3>4
    <2>2. u.shots + o.x = IF u.pending THEN 1 ELSE 0
      BY <1>1, <1>3, <1>13 DEF Queue, Same, Fields
    <2>3. o.g > 0 \/ Count(u.moves, GuideMoves) > 0 => u.client.guiding
      <3>1. o.g = Away.g + IF w \in GuideMoves THEN 1 ELSE 0
        BY <1>7, <1>9
      <3>2. Count(s.moves, GuideMoves)
              = Count(u.moves, GuideMoves) + IF w \in GuideMoves THEN 1 ELSE 0
        BY <1>4
      <3>3. Away.g \in Nat /\ Count(u.moves, GuideMoves) \in Nat
        BY <1>5, <1>8, <1>9
      <3>4. Away.g > 0 \/ Count(s.moves, GuideMoves) > 0 => u.client.guiding
        BY <1>1, <1>3 DEF Queue, Same, Fields
      <3> QED BY <3>1, <3>2, <3>3, <3>4
    <2>4. o.x > 0 => \A i \in DOMAIN u.moves : u.moves[i] \notin FrameMoves
      BY <1>1, <1>2, <1>3, <1>13, ZenonT(60) DEF Queue
    <2>5. \A i \in DOMAIN u.moves : u.moves[i].kind # "bump"
      BY <1>2, <1>3, <1>10
    <2>6. "pending exposure" \notin u.failed /\ "request count" \notin u.failed
      BY <1>1, <1>3 DEF Queue, Same, Fields
    <2> QED BY <2>1, <2>2, <2>3, <2>4, <2>5, <2>6 DEF Queue
  <1>15. Around(s.pulses, s.step, <<w>>, secondary, events)
    <2>1. BumpsAway(s.pulses, <<w>>, secondary, events)
      <3>1. BumpsAway(s.pulses, primary, secondary, events)
        BY <1>1 DEF Around
      <3>2. R({Bump}) <= IF HasAO THEN 1 ELSE 0
        <4>1. R({Bump}) = S({Bump}) + 0
          BY <1>7, <1>10
        <4>2. S({Bump}) <= IF HasAO THEN 1 ELSE 0
          BY <3>1 DEF BumpsAway, S
        <4>3. S({Bump}) \in Nat
          BY <1>8
        <4> QED BY <4>1, <4>2, <4>3
      <3>3. \A i \in DOMAIN <<w>> : <<w>>[i].kind # "bump"
        BY <1>10
      <3> QED BY <3>1, <3>2, <3>3 DEF BumpsAway, R
    <2>2. FramesLast(<<w>>, events)
      <3> SUFFICES ASSUME NEW i \in DOMAIN events, events[i].work = Exposure
                   PROVE  /\ w \notin FrameMoves
                          /\ \A j \in DOMAIN events : j > i => events[j].work \notin FrameMoves
        BY DEF FramesLast
      <3>1. Away.x > 0
        BY <1>6, OutGood DEF Away
      <3> QED BY <1>1, <1>11, <3>1 DEF Around, FramesLast
    <2>3. StepsReported(s.step, events)
      BY <1>1 DEF Around
    <2> QED BY <1>6, <2>1, <2>2, <2>3 DEF Around
  <1>16. /\ Same(s, u, WorkFields) /\ (MountsIdle(u) => MountsIdle(s))
         /\ u.pulses = s.pulses /\ u.step = s.step
    BY <1>3 DEF Same, Fields, WorkFields, MountsIdle
  <1>17. primary' = <<w>> /\ secondary' = secondary /\ events' = events
    BY DEF w
  <1>18. Out(s'.pulses, primary', secondary', events') = o
    BY <1>3, <1>16, <1>17 DEF o
  <1>19. Around(s'.pulses, s'.step, primary', secondary', events')
    BY <1>3, <1>15, <1>16, <1>17
  <1>20. Queue(s', Out(s'.pulses, primary', secondary', events'))
    BY <1>3, <1>14, <1>18
  <1>21. /\ Rec(s') /\ Typed(s') /\ Same(s, s', WorkFields)
         /\ MountsIdle(s') => MountsIdle(s)
    BY <1>3, <1>12, <1>16
  <1> QED BY <1>19, <1>20, <1>21, WorkSound

\* The primary worker takes an exposure, when no move is left.
LEMMA PrimaryTakeShot ==
    ASSUME Sound, primary = <<>>, s.moves = <<>>, s.shots > 0,
           primary' = <<Exposure>>, s' = [s EXCEPT !.shots = @ - 1],
           UNCHANGED <<secondary, events>>
    PROVE  Sound'
  <1> DEFINE u == [s EXCEPT !.shots = @ - 1]
             o == Out(s.pulses, <<Exposure>>, secondary, events)
             S(W) == Sum(s.pulses, primary, secondary, events, W)
             R(W) == Sum(s.pulses, <<Exposure>>, secondary, events, W)
  <1>1. /\ Outer(Away) /\ Good(s, Away) /\ Queue(s, Away) /\ Rec(s) /\ Typed(s)
        /\ Around(s.pulses, s.step, primary, secondary, events)
    BY AwayGood DEF Sound, Core
  <1>2. /\ Rec(u) /\ Same(s, u, {"shots"}) /\ u.shots = s.shots - 1 /\ s' = u
    BY <1>1 DEF Rec, Same, Fields
  <1>3. s.shots \in Nat /\ u.shots \in Nat
    <2>1. s.shots \in Nat
      BY <1>1 DEF Typed
    <2> HIDE DEF u
    <2> QED BY <1>2, <2>1
  <1>4. QueueTypes(s.pulses, primary, secondary, events)
        /\ QueueTypes(s.pulses, <<Exposure>>, secondary, events)
    BY <1>1, ExposureNoMove DEF Around, QueueTypes
  <1>5. \A W : R(W) = S(W) + IF Exposure \in W THEN 1 ELSE 0
    <2> SUFFICES ASSUME NEW W PROVE R(W) = S(W) + IF Exposure \in W THEN 1 ELSE 0
      OBVIOUS
    <2>1. Count(<<Exposure>>, W) = (IF Exposure \in W THEN 1 ELSE 0)
          /\ Count(primary, W) = 0
      BY CountOne, CountEmpty
    <2>2. Count(s.pulses, W) \in Nat /\ Count(secondary, W) \in Nat
          /\ Count(Works(events), W) \in Nat
      BY <1>4, SumParts
    <2> QED BY <2>1, <2>2 DEF Sum
  <1>6. \A W : S(W) \in Nat /\ R(W) \in Nat
    BY <1>4, SumParts
  <1>7. /\ o.x = R({Exposure}) /\ o.g = R(GuideMoves)
        /\ \A m \in Mounts : o.n[m] = R(Counted(m))
        /\ Away.x = S({Exposure}) /\ Away.g = S(GuideMoves)
        /\ \A m \in Mounts : Away.n[m] = S(Counted(m))
    BY DEF Out, Away
  <1> HIDE DEF u, o, S, R
  <1>8. \A W : Exposure \notin W => R(W) = S(W)
    BY <1>5, <1>6
  <1>9. /\ Exposure \notin GuideMoves /\ Exposure \notin FrameMoves /\ Exposure \notin {Bump}
        /\ Exposure.kind # "bump" /\ \A m \in Mounts : Exposure \notin Counted(m)
    <2>1. Exposure.kind # "bump"
      BY DEF Exposure
    <2>2. Exposure # Bump
      BY DEF Exposure, Bump
    <2> QED BY <2>1, <2>2, ExposureNoMove DEF GuideMoves, FrameMoves, Counted
  <1>10. o.x = Away.x + 1 /\ o.g = Away.g /\ R({Bump}) = S({Bump})
         /\ \A m \in Mounts : o.n[m] = Away.n[m]
    <2>1. R({Exposure}) = S({Exposure}) + 1
      BY <1>5
    <2> QED BY <1>7, <1>8, <1>9, <2>1
  <1>11. Typed(u)
    BY <1>1, <1>2, <1>3 DEF Typed, Same, Fields
  <1>12. Queue(u, o)
    <2>1. \A m \in Mounts : u.busy[m] = o.n[m] + Count(u.moves, Counted(m))
      <3>1. \A m \in Mounts : s.busy[m] = Away.n[m] + Count(s.moves, Counted(m))
        BY <1>1 DEF Queue
      <3>2. u.busy = s.busy /\ u.moves = s.moves
        BY <1>2 DEF Same, Fields
      <3> QED BY <1>10, <3>1, <3>2
    <2>2. u.shots + o.x = IF u.pending THEN 1 ELSE 0
      <3>1. s.shots + Away.x = (IF s.pending THEN 1 ELSE 0) /\ u.pending = s.pending
        BY <1>1, <1>2 DEF Queue, Same, Fields
      <3>2. Away.x \in Nat
        BY <1>1 DEF Outer
      <3>3. u.shots + o.x = s.shots + Away.x
        BY <1>2, <1>3, <1>10, <3>2
      <3> QED BY <3>1, <3>3
    <2>3. o.g > 0 \/ Count(u.moves, GuideMoves) > 0 => u.client.guiding
      BY <1>1, <1>2, <1>10 DEF Queue, Same, Fields
    <2>4. DOMAIN u.moves = {}
      BY <1>2 DEF Same, Fields
    <2>5. "pending exposure" \notin u.failed /\ "request count" \notin u.failed
      BY <1>1, <1>2 DEF Queue, Same, Fields
    <2> QED BY <2>1, <2>2, <2>3, <2>4, <2>5 DEF Queue
  <1>13. Around(s.pulses, s.step, <<Exposure>>, secondary, events)
    <2>1. BumpsAway(s.pulses, primary, secondary, events)
      BY <1>1 DEF Around
    <2>2. R({Bump}) <= IF HasAO THEN 1 ELSE 0
      BY <1>10, <2>1 DEF BumpsAway, S
    <2>3. \A i \in DOMAIN <<Exposure>> : /\ <<Exposure>>[i].kind # "bump"
                                         /\ <<Exposure>>[i] \notin FrameMoves
      BY <1>9
    <2>4. BumpsAway(s.pulses, <<Exposure>>, secondary, events)
      BY <2>1, <2>2, <2>3 DEF BumpsAway, R
    <2>5. FramesLast(<<Exposure>>, events)
      BY <1>1, <2>3 DEF Around, FramesLast
    <2>6. StepsReported(s.step, events)
      BY <1>1 DEF Around
    <2> QED BY <1>4, <2>4, <2>5, <2>6 DEF Around
  <1>14. /\ Same(s, u, WorkFields) /\ (MountsIdle(u) => MountsIdle(s))
         /\ u.pulses = s.pulses /\ u.step = s.step
    BY <1>2 DEF Same, Fields, WorkFields, MountsIdle
  <1>15. Out(s'.pulses, primary', secondary', events') = o
    BY <1>2, <1>14 DEF o
  <1>16. Around(s'.pulses, s'.step, primary', secondary', events')
    BY <1>2, <1>13, <1>14
  <1>17. Queue(s', Out(s'.pulses, primary', secondary', events'))
    BY <1>2, <1>12, <1>15
  <1>18. /\ Rec(s') /\ Typed(s') /\ Same(s, s', WorkFields)
         /\ MountsIdle(s') => MountsIdle(s)
    BY <1>2, <1>11, <1>14
  <1> QED BY <1>16, <1>17, <1>18, WorkSound

\* What the primary worker takes keeps the invariant: moves come first.
LEMMA PrimaryTakeSound == ASSUME Sound, PrimaryTake PROVE Sound'
  <1>1. CASE s.moves # <<>>
    BY <1>1, PrimaryTakeMove DEF PrimaryTake
  <1>2. CASE s.moves = <<>>
    BY <1>2, PrimaryTakeShot DEF PrimaryTake
  <1> QED BY <1>1, <1>2

\* What is served is reported: nothing is lost on the way.
LEMMA Served ==
    ASSUME NEW pulses, NEW p, NEW q, NEW e, QueueTypes(pulses, p, q, e),
           NEW w \in Work, NEW r \in Results, NEW W
    PROVE  LET n == Append(e, [work |-> w, result |-> r])
           IN /\ p = <<w>> => Sum(pulses, <<>>, q, n, W) = Sum(pulses, p, q, e, W)
              /\ q = <<w>> => Sum(pulses, p, <<>>, n, W) = Sum(pulses, p, q, e, W)
  <1> DEFINE n == Append(e, [work |-> w, result |-> r])
  <1>1. e \in Seq([work : Work, result : Results])
    BY DEF QueueTypes
  <1>2. Count(Works(n), W) = Count(Works(e), W) + IF w \in W THEN 1 ELSE 0
    <2>1. \A V : Count(Works(n), V) = Count(Works(e), V) + IF w \in V THEN 1 ELSE 0
      BY <1>1, EventAppend, ZenonT(60)
    <2> HIDE DEF n
    <2> QED BY <2>1
  <1>3. /\ Count(pulses, W) \in Nat /\ Count(p, W) \in Nat /\ Count(q, W) \in Nat
        /\ Count(Works(e), W) \in Nat
    BY SumParts
  <1>4. Count(<<>>, W) = 0 /\ Count(<<w>>, W) = IF w \in W THEN 1 ELSE 0
    BY CountEmpty, CountOne
  <1> HIDE DEF n
  <1>5. CASE p = <<w>>
    <2>1. Count(p, W) = IF w \in W THEN 1 ELSE 0
      BY <1>4, <1>5
    <2>2. Sum(pulses, <<>>, q, n, W) = Sum(pulses, p, q, e, W)
      BY <1>2, <1>3, <1>4, <2>1 DEF Sum
    <2>3. q = <<w>> => Sum(pulses, p, <<>>, n, W) = Sum(pulses, p, q, e, W)
      <3> SUFFICES ASSUME q = <<w>>
                   PROVE  Sum(pulses, p, <<>>, n, W) = Sum(pulses, p, q, e, W)
        OBVIOUS
      <3>1. Count(q, W) = IF w \in W THEN 1 ELSE 0
        BY <1>4
      <3> QED BY <1>2, <1>3, <1>4, <3>1 DEF Sum
    <2> QED BY <2>2, <2>3 DEF n
  <1>6. CASE p # <<w>> /\ q = <<w>>
    <2>1. Count(q, W) = IF w \in W THEN 1 ELSE 0
      BY <1>4, <1>6
    <2>2. Sum(pulses, p, <<>>, n, W) = Sum(pulses, p, q, e, W)
      BY <1>2, <1>3, <1>4, <2>1 DEF Sum
    <2> QED BY <1>6, <2>2 DEF n
  <1>7. CASE p # <<w>> /\ q # <<w>>
    BY <1>7
  <1> QED BY <1>5, <1>6, <1>7

\* An exposure that is done is reported (WorkerThread::HandleExpose).
LEMMA PrimaryExposeSound ==
    ASSUME Sound, PrimaryExpose({"ok", "error", "reconnect"}) PROVE Sound'
  <1>1. PICK r \in Results, camera \in BOOLEAN :
          /\ primary = <<Exposure>> /\ primary' = <<>> /\ secondary' = secondary
          /\ events' = Append(events, [work |-> Exposure, result |-> r])
          /\ s' = [s EXCEPT !.camera = camera]
    BY DEF PrimaryExpose, Results
  <1> DEFINE u == [s EXCEPT !.camera = camera]
             n == Append(events, [work |-> Exposure, result |-> r])
  <1>2. /\ Good(s, Away) /\ Rec(s) /\ Typed(s)
        /\ Around(s.pulses, s.step, primary, secondary, events)
        /\ QueueTypes(s.pulses, primary, secondary, events)
    BY AwayGood DEF Sound, Around
  <1>3. /\ Rec(u) /\ Same(s, u, {"camera"}) /\ u.camera = camera /\ s' = u
    BY <1>1, <1>2 DEF Rec, Same, Fields
  <1>4. \A W : Sum(s.pulses, <<>>, secondary, n, W)
                 = Sum(s.pulses, primary, secondary, events, W)
    BY <1>1, <1>2, ExposureNoMove, Served
  <1> HIDE DEF u
  <1>5. Typed(u)
    <2>1. u.camera \in BOOLEAN
      BY <1>3
    <2> QED BY <1>2, <1>3, <2>1 DEF Typed, Same, Fields
  <1>6. Left(s, u, Away)
    <2>1. Good(u, Away)
      BY <1>2, <1>3, <1>5, LooseOnly DEF Same, Loose
    <2>2. Same(s, u, Elsewhere) /\ u.ctl = s.ctl
      BY <1>3 DEF Same, Elsewhere, Fields
    <2> QED BY <2>1, <2>2, AwayGood, LeftSame
  <1>7. Out(s.pulses, <<>>, secondary, n) = Away
    <2> HIDE DEF n
    <2> QED BY <1>4 DEF Out, Away
  <1>8. Around(s.pulses, s.step, <<>>, secondary, n)
    <2>1. BumpsAway(s.pulses, primary, secondary, events)
      BY <1>2 DEF Around
    <2>2. Sum(s.pulses, <<>>, secondary, n, {Bump}) <= IF HasAO THEN 1 ELSE 0
      BY <1>4, <2>1 DEF BumpsAway
    <2>3. /\ Exposure \in Work /\ Exposure.kind # "bump" /\ Exposure \notin FrameMoves
          /\ s.pulses \in Seq(Moves) /\ \A i \in DOMAIN s.pulses : s.pulses[i] = Bump
      <3>1. Exposure.kind # "bump"
        BY DEF Exposure
      <3> QED BY <1>2, <2>1, <3>1, ExposureNoMove DEF FrameMoves, QueueTypes, BumpsAway
    <2>4. <<>> \in {primary, <<>>} /\ secondary \in {secondary, <<>>}
      OBVIOUS
    <2> QED BY <1>2, <2>2, <2>3, <2>4, Reporting
  <1>9. events' = n
    BY <1>1
  <1> HIDE DEF n
  <1>10. s'.pulses = s.pulses /\ s'.step = s.step
    BY <1>3, <1>6 DEF Left
  <1> QED BY <1>1, <1>3, <1>6, <1>7, <1>8, <1>9, <1>10 DEF Sound, Left

\* What a move that is done leaves to report.
LEMMA RecordedStep ==
    ASSUME NEW move \in Moves, NEW result, NEW recorded \in BOOLEAN,
           MoveResult(move, result, recorded), recorded
    PROVE  move \in GuideMoves
  <1>1. move.kind \in MoveKinds
    BY DEF Moves
  <1>2. move.kind \notin {"calibration", "manual"}
    BY DEF MoveResult
  <1> QED BY <1>1, <1>2 DEF GuideMoves, MoveKinds

\* The bump is a counted guide move of the scope.
LEMMA BumpMove ==
    /\ Bump \in Moves /\ Bump.mount = "scope" /\ Bump.kind = "bump"
    /\ Bump \in Counted("scope") /\ Bump \in GuideMoves /\ Bump \notin FrameMoves
    /\ \A m \in Mounts : m # "scope" => Bump \notin Counted(m)
  <1>1. Bump \in Moves
    BY MountNames DEF Bump, Moves, MoveKinds
  <1>2. Bump.mount = "scope" /\ Bump.kind = "bump"
    BY DEF Bump
  <1> QED BY <1>1, <1>2 DEF Counted, GuideMoves, FrameMoves

\* A bump of the scope is counted on its way.
LEMMA Bumped ==
    ASSUME Sound, s.busy["scope"] = 0, s.client.guiding, NEW t, Good(t, Away),
           Same(s, t, {"step"})
    PROVE  LET u == ScheduleSecondaryMove(t)
           IN /\ Rec(u) /\ Typed(u) /\ Same(t, u, {"busy", "pulses"})
              /\ u.pulses = Append(s.pulses, Bump) /\ ~MountsIdle(u)
              /\ \A i \in DOMAIN u.pulses : u.pulses[i] = Bump
              /\ Queue(u, Out(u.pulses, primary, secondary, events))
              /\ Sum(u.pulses, primary, secondary, events, {Bump}) = 1
  <1> DEFINE u == ScheduleSecondaryMove(t)
             o == Out(u.pulses, primary, secondary, events)
             S(W) == Sum(s.pulses, primary, secondary, events, W)
             R(W) == Sum(u.pulses, primary, secondary, events, W)
  <1>1. /\ Outer(Away) /\ Queue(t, Away) /\ Rec(t) /\ Typed(t)
        /\ QueueTypes(s.pulses, primary, secondary, events)
        /\ BumpsAway(s.pulses, primary, secondary, events)
        /\ t.busy = s.busy /\ t.pulses = s.pulses /\ t.client = s.client
    BY AwayGood DEF Sound, Good, Core, Around, Same, Fields
  <1>2. /\ Rec(u) /\ Same(t, u, {"busy", "pulses"})
        /\ u.pulses = Append(t.pulses, Bump)
        /\ u.busy = [t.busy EXCEPT !["scope"] = @ + 1]
    <2>1. t.busy["scope"] < 2
      BY <1>1
    <2> QED BY <1>1, <2>1 DEF ScheduleSecondaryMove, IncrementRequestCount, Check, Bump,
                              Rec, Same, Fields
  <1> HIDE DEF u
  <1>3. /\ s.pulses \in Seq(Moves) /\ u.pulses = Append(s.pulses, Bump)
        /\ u.pulses \in Seq(Moves) /\ \A i \in DOMAIN u.pulses : u.pulses[i] = Bump
    <2>1. s.pulses \in Seq(Moves) /\ \A i \in DOMAIN s.pulses : s.pulses[i] = Bump
      BY <1>1 DEF QueueTypes, BumpsAway
    <2>2. u.pulses = Append(s.pulses, Bump)
      BY <1>1, <1>2
    <2> DEFINE a == s.pulses
               c == u.pulses
    <2>3. a \in Seq(Moves) /\ c = Append(a, Bump) /\ \A i \in DOMAIN a : a[i] = Bump
      BY <2>1, <2>2
    <2> HIDE DEF a, c
    <2>4. c \in Seq(Moves) /\ \A i \in DOMAIN c : c[i] = Bump
      BY <2>3, BumpMove
    <2> QED BY <2>1, <2>2, <2>4 DEF c
  <1>4. QueueTypes(u.pulses, primary, secondary, events)
    BY <1>1, <1>3 DEF QueueTypes
  <1>5. \A W : R(W) = S(W) + IF Bump \in W THEN 1 ELSE 0
    <2> SUFFICES ASSUME NEW W PROVE R(W) = S(W) + IF Bump \in W THEN 1 ELSE 0
      OBVIOUS
    <2>1. Count(u.pulses, W) = Count(s.pulses, W) + IF Bump \in W THEN 1 ELSE 0
      BY <1>3, BumpMove, CountAppend
    <2>2. Count(s.pulses, W) \in Nat /\ Count(secondary, W) \in Nat
          /\ Count(primary, W) \in Nat /\ Count(Works(events), W) \in Nat
      BY <1>1, SumParts
    <2> QED BY <2>1, <2>2 DEF Sum
  <1>6. \A W : S(W) \in Nat /\ R(W) \in Nat
    BY <1>1, <1>4, SumParts
  <1>7. /\ o.x = R({Exposure}) /\ o.g = R(GuideMoves)
        /\ \A m \in Mounts : o.n[m] = R(Counted(m))
        /\ Away.x = S({Exposure}) /\ Away.g = S(GuideMoves)
        /\ \A m \in Mounts : Away.n[m] = S(Counted(m))
    BY DEF Out, Away
  <1> DEFINE c(m) == Count(t.moves, Counted(m))
  <1>8. \A m \in Mounts : c(m) \in Nat /\ t.busy[m] = Away.n[m] + c(m)
    <2>1. t.moves \in Seq(Moves)
      BY <1>1 DEF Typed
    <2>2. \A m \in Mounts : c(m) \in Nat
      BY <2>1, CountSets
    <2> QED BY <1>1, <2>2 DEF Queue
  <1>9. S(Counted("scope")) = 0 /\ S({Bump}) = 0
    <2> HIDE DEF S, c
    <2>1. t.busy["scope"] = 0 /\ "scope" \in Mounts
      BY <1>1, MountNames
    <2>2. S(Counted("scope")) = 0
      BY <1>6, <1>7, <1>8, <2>1
    <2>3. S({Bump}) = 0
      BY <1>1, <2>2, BumpMove, SumParts DEF S
    <2> QED BY <2>2, <2>3
  <1> HIDE DEF o, S, R, c
  <1>10. Typed(u)
    <2>1. u.busy \in [Mounts -> Nat]
      <3>1. t.busy \in [Mounts -> Nat] /\ "scope" \in Mounts
        BY <1>1, MountNames DEF Typed
      <3> DEFINE b == t.busy
      <3>2. b \in [Mounts -> Nat] /\ u.busy = [b EXCEPT !["scope"] = @ + 1]
        BY <1>2, <3>1
      <3> HIDE DEF b
      <3> QED BY <3>1, <3>2
    <2>2. u.pulses \in Seq(Moves)
      BY <1>3
    <2>3. \A f \in Fields \ {"busy", "pulses"} : u[f] = t[f]
      BY <1>2 DEF Same
    <2> QED BY <1>1, <2>1, <2>2, <2>3, ZenonT(60) DEF Typed, Fields
  <1>11. ~MountsIdle(u) /\ \A m \in Mounts : u.busy[m] = t.busy[m]
                                               + IF m = "scope" THEN 1 ELSE 0
    <2>1. t.busy \in [Mounts -> Nat] /\ "scope" \in Mounts
      BY <1>1, MountNames DEF Typed
    <2>2. \A m \in Mounts : u.busy[m] = t.busy[m] + IF m = "scope" THEN 1 ELSE 0
      BY <1>2, <2>1
    <2>3. u.busy["scope"] # 0
      BY <2>1, <2>2
    <2> QED BY <2>1, <2>2, <2>3 DEF MountsIdle
  <1>12. Queue(u, o)
    <2>1. \A m \in Mounts : u.busy[m] = o.n[m] + Count(u.moves, Counted(m))
      <3> SUFFICES ASSUME NEW m \in Mounts
                   PROVE  u.busy[m] = o.n[m] + c(m)
        BY <1>2 DEF Same, Fields, c
      <3>1. o.n[m] = Away.n[m] + IF m = "scope" THEN 1 ELSE 0
        <4>1. Bump \in Counted(m) <=> m = "scope"
          BY BumpMove
        <4>2. R(Counted(m)) = S(Counted(m)) + IF Bump \in Counted(m) THEN 1 ELSE 0
          BY <1>5
        <4> QED BY <1>7, <4>1, <4>2
      <3>2. Away.n[m] \in Nat /\ c(m) \in Nat /\ t.busy[m] = Away.n[m] + c(m)
        BY <1>6, <1>7, <1>8
      <3> QED BY <1>11, <3>1, <3>2
    <2>2. o.x = Away.x
      <3>1. Bump \notin {Exposure}
        BY BumpMove, ExposureNoMove
      <3>2. R({Exposure}) = S({Exposure}) + 0
        BY <1>5, <3>1
      <3> QED BY <1>6, <1>7, <3>2
    <2>3. u.shots + o.x = IF u.pending THEN 1 ELSE 0
      BY <1>1, <1>2, <2>2, ZenonT(60) DEF Queue, Same, Fields
    <2>4. u.client.guiding
      BY <1>1, <1>2 DEF Same, Fields
    <2>5. o.x > 0 => \A i \in DOMAIN u.moves : u.moves[i] \notin FrameMoves
      BY <1>1, <1>2, <2>2 DEF Queue, Same, Fields
    <2>6. /\ \A i \in DOMAIN u.moves : u.moves[i].kind # "bump"
          /\ "pending exposure" \notin u.failed /\ "request count" \notin u.failed
      <3>1. u.moves = t.moves /\ u.failed = t.failed
        BY <1>2 DEF Same, Fields
      <3>2. /\ \A i \in DOMAIN t.moves : t.moves[i].kind # "bump"
            /\ "pending exposure" \notin t.failed /\ "request count" \notin t.failed
        BY <1>1 DEF Queue
      <3> QED BY <3>1, <3>2
    <2> QED BY <2>1, <2>3, <2>4, <2>5, <2>6 DEF Queue
  <1>13. R({Bump}) = 1
    BY <1>5, <1>9
  <1> QED BY <1>2, <1>3, <1>10, <1>11, <1>12, <1>13 DEF u, o, R

\* The primary worker is done with a move.
LEMMA StepLeft ==
    ASSUME Sound, NEW m \in Mounts, NEW recorded \in BOOLEAN
    PROVE  LET t == [s EXCEPT !.step[m] = @ \/ recorded]
           IN /\ Good(t, Away) /\ Rec(t) /\ Typed(t) /\ Same(s, t, {"step"})
              /\ Alive(t) /\ t.ctl \in Resting
              /\ \A k \in Mounts : t.step[k] => s.step[k] \/ (m = k /\ recorded)
  <1> DEFINE t == [s EXCEPT !.step[m] = @ \/ recorded]
  <1>1. Good(s, Away) /\ Rec(s) /\ Typed(s) /\ Alive(s) /\ s.ctl \in Resting
    BY AwayGood
  <1>2. /\ Rec(t) /\ Same(s, t, {"step"})
        /\ t.step = [s.step EXCEPT ![m] = @ \/ recorded]
    BY <1>1 DEF Rec, Same, Fields
  <1> HIDE DEF t
  <1>3. /\ t.step \in [Mounts -> BOOLEAN]
        /\ \A k \in Mounts : t.step[k] => s.step[k] \/ (m = k /\ recorded)
    <2>1. s.step \in [Mounts -> BOOLEAN]
      BY <1>1 DEF Typed
    <2> DEFINE a == s.step
               b == t.step
    <2>2. a \in [Mounts -> BOOLEAN] /\ b = [a EXCEPT ![m] = @ \/ recorded]
      BY <1>2, <2>1
    <2> HIDE DEF a, b
    <2>3. b \in [Mounts -> BOOLEAN]
      BY <2>2
    <2>4. \A k \in Mounts : b[k] => a[k] \/ (m = k /\ recorded)
      BY <2>2
    <2> QED BY <2>3, <2>4 DEF a, b
  <1>4. Typed(t)
    BY <1>1, <1>2, <1>3 DEF Typed, Same, Fields
  <1>5. Good(t, Away)
    BY <1>1, <1>2, <1>4, LooseOnly DEF Same, Loose
  <1>6. Alive(t) /\ t.ctl \in Resting
    BY <1>1, <1>2 DEF Alive, Same, Fields
  <1> QED BY <1>2, <1>3, <1>4, <1>5, <1>6 DEF t

\* A move of the primary worker is done and reported; an AO may have bumped the scope
\* (WorkerThread::HandleMove, StepGuider::MoveOffset).
LEMMA PrimaryMoveSound == ASSUME Sound, PrimaryMove PROVE Sound'
  <1> DEFINE w == primary[1]
             m == w.mount
  <1>1. /\ primary = <<w>> /\ w \in Moves /\ m \in Mounts /\ w.kind # "bump"
        /\ Around(s.pulses, s.step, primary, secondary, events)
        /\ QueueTypes(s.pulses, primary, secondary, events)
        /\ BumpsAway(s.pulses, primary, secondary, events)
        /\ FramesLast(primary, events)
    <2>1. /\ Around(s.pulses, s.step, primary, secondary, events)
          /\ QueueTypes(s.pulses, primary, secondary, events)
          /\ BumpsAway(s.pulses, primary, secondary, events)
          /\ FramesLast(primary, events)
      BY DEF Sound, Around
    <2>2. PICK v \in Work : primary = <<v>>
      BY <2>1 DEF QueueTypes, PrimaryMove
    <2>3. w = v /\ w # Exposure /\ 1 \in DOMAIN primary
      BY <2>2 DEF PrimaryMove
    <2> HIDE DEF w
    <2>4. w \in Moves
      BY <2>3 DEF Work
    <2>5. w.kind # "bump"
      BY <2>1, <2>3 DEF BumpsAway, w
    <2> QED BY <2>1, <2>2, <2>3, <2>4, <2>5 DEF Moves
  <1>2. PICK r \in Results, recorded \in BOOLEAN, bump \in BOOLEAN :
          /\ MoveResult(w, r, recorded)
          /\ bump => m = "ao" /\ w.kind = "step" /\ s.busy["scope"] = 0
          /\ s' = LET t == [s EXCEPT !.step[m] = @ \/ recorded]
                  IN IF bump THEN ScheduleSecondaryMove(t) ELSE t
          /\ events' = Append(events, [work |-> w, result |-> r])
          /\ primary' = <<>> /\ secondary' = secondary
    BY DEF PrimaryMove, Results
  <1> DEFINE t == [s EXCEPT !.step[m] = @ \/ recorded]
             n == Append(events, [work |-> w, result |-> r])
  <1>3. /\ Good(t, Away) /\ Rec(t) /\ Typed(t) /\ Same(s, t, {"step"})
        /\ Alive(t) /\ t.ctl \in Resting
        /\ \A k \in Mounts : t.step[k] => s.step[k] \/ (m = k /\ recorded)
    BY <1>1, StepLeft
  <1>4. \A k \in Mounts : t.step[k] => s.step[k] \/ (w.mount = k /\ w \in GuideMoves)
    <2>1. recorded => w \in GuideMoves
      BY <1>1, <1>2, RecordedStep
    <2> HIDE DEF t
    <2> QED BY <1>3, <2>1
  <1>5. s' = IF bump THEN ScheduleSecondaryMove(t) ELSE t
    BY <1>2
  <1>6. events' = n
    BY <1>2
  <1>7. w \in Work /\ (w \in FrameMoves => \A i \in DOMAIN events : events[i].work # Exposure)
    <2>1. w \in FrameMoves => \A i \in DOMAIN events : events[i].work # Exposure
      <3>1. 1 \in DOMAIN primary
        BY <1>1
      <3> QED BY <1>1, <3>1 DEF FramesLast
    <2> QED BY <1>1, <2>1 DEF Work
  <1> HIDE DEF t
  <1>8. \A W : Sum(s.pulses, <<>>, secondary, n, W)
                 = Sum(s.pulses, primary, secondary, events, W)
    BY <1>1, <1>7, Served
  <1>9. w # Exposure
    BY <1>1, ExposureNoMove
  <1>10. CASE ~bump
    <2>1. s' = t /\ t.pulses = s.pulses
      BY <1>3, <1>5, <1>10 DEF Same, Fields
    <2>2. Sum(s.pulses, <<>>, secondary, n, {Bump}) <= IF HasAO THEN 1 ELSE 0
      BY <1>1, <1>8 DEF BumpsAway
    <2>3. s.pulses \in Seq(Moves) /\ \A i \in DOMAIN s.pulses : s.pulses[i] = Bump
      BY <1>1 DEF QueueTypes, BumpsAway
    <2>4. Around(s.pulses, t.step, <<>>, secondary, n)
      <3>1. <<>> \in {primary, <<>>} /\ secondary \in {secondary, <<>>}
        OBVIOUS
      <3> HIDE DEF w
      <3> QED BY <1>1, <1>4, <1>7, <1>9, <2>2, <2>3, <3>1, Reporting
    <2> HIDE DEF n, w
    <2>5. Out(s.pulses, <<>>, secondary, n) = Away
      BY <1>8 DEF Out, Away
    <2> QED BY <1>2, <1>3, <1>6, <2>1, <2>4, <2>5 DEF Sound
  <1>11. CASE bump
    <2> DEFINE u == ScheduleSecondaryMove(t)
    <2>1. s' = u /\ m = "ao" /\ w.kind = "step" /\ s.busy["scope"] = 0
      BY <1>2, <1>5, <1>11
    <2>2. HasAO
      BY <1>1, <2>1, MountNames
    <2>3. w \in GuideMoves
      BY <1>1, <2>1 DEF GuideMoves
    <2>4. s.client.guiding
      <3>1. 1 \in DOMAIN primary
        BY <1>1
      <3>2. Sum(s.pulses, primary, secondary, events, GuideMoves) # 0
        BY <1>1, <2>3, <3>1, SumParts
      <3>3. Away.g = Sum(s.pulses, primary, secondary, events, GuideMoves)
        BY DEF Away, Out
      <3>4. Away.g \in Nat /\ (Away.g > 0 => s.client.guiding)
        BY AwayGood DEF Outer, Core, Queue
      <3> QED BY <3>2, <3>3, <3>4
    <2>5. /\ Rec(u) /\ Typed(u) /\ Same(t, u, {"busy", "pulses"})
          /\ u.pulses = Append(s.pulses, Bump) /\ ~MountsIdle(u)
          /\ \A i \in DOMAIN u.pulses : u.pulses[i] = Bump
          /\ Queue(u, Out(u.pulses, primary, secondary, events))
          /\ Sum(u.pulses, primary, secondary, events, {Bump}) = 1
      BY <1>3, <2>1, <2>4, Bumped
    <2> HIDE DEF u
    <2>6. u.pulses \in Seq(Moves)
      BY <2>5 DEF Typed
    <2>7. \A W : Sum(u.pulses, <<>>, secondary, n, W)
                   = Sum(u.pulses, primary, secondary, events, W)
      <3>1. QueueTypes(u.pulses, primary, secondary, events)
        BY <1>1, <2>6 DEF QueueTypes
      <3> QED BY <1>1, <1>7, <3>1, Served
    <2>8. Out(u.pulses, <<>>, secondary, n) = Out(u.pulses, primary, secondary, events)
      <3> HIDE DEF n
      <3> QED BY <2>7 DEF Out
    <2>9. Around(u.pulses, t.step, <<>>, secondary, n)
      <3>1. <<>> \in {primary, <<>>} /\ secondary \in {secondary, <<>>}
        OBVIOUS
      <3>2. Sum(u.pulses, <<>>, secondary, n, {Bump}) <= IF HasAO THEN 1 ELSE 0
        BY <2>2, <2>5, <2>7
      <3> HIDE DEF w
      <3> QED BY <1>1, <1>4, <1>7, <1>9, <2>5, <2>6, <3>1, <3>2, Reporting
    <2> HIDE DEF n, w
    <2>10. u.step = t.step /\ Same(s, u, WorkFields)
      BY <1>3, <2>5 DEF Same, Fields, WorkFields
    <2>11. /\ Queue(s', Out(s'.pulses, primary', secondary', events'))
           /\ Around(s'.pulses, s'.step, primary', secondary', events')
      BY <1>2, <1>6, <2>1, <2>5, <2>8, <2>9, <2>10
    <2>12. Rec(s') /\ Typed(s') /\ Same(s, s', WorkFields) /\ ~MountsIdle(s')
      BY <2>1, <2>5, <2>10
    <2> QED BY <2>11, <2>12, WorkSound
  <1> QED BY <1>10, <1>11

\* The secondary worker takes a bump.
LEMMA SecondaryTakeSound == ASSUME Sound, SecondaryTake PROVE Sound'
  <1> DEFINE w == Head(s.pulses)
             u == [s EXCEPT !.pulses = Tail(@)]
  <1>1. /\ secondary = <<>> /\ s.pulses # <<>> /\ secondary' = <<w>> /\ s' = u
        /\ primary' = primary /\ events' = events
    BY DEF SecondaryTake
  <1>2. /\ Good(s, Away) /\ Queue(s, Away) /\ Rec(s) /\ Typed(s)
        /\ Around(s.pulses, s.step, primary, secondary, events)
        /\ QueueTypes(s.pulses, primary, secondary, events)
        /\ BumpsAway(s.pulses, primary, secondary, events)
    BY AwayGood DEF Sound, Core, Around
  <1>3. /\ s.pulses \in Seq(Moves) /\ w \in Moves /\ w = Bump
        /\ Tail(s.pulses) \in Seq(Moves)
        /\ \A i \in DOMAIN Tail(s.pulses) : Tail(s.pulses)[i] = Bump
    <2> DEFINE q == s.pulses
    <2>1. q \in Seq(Moves) /\ q # <<>> /\ \A i \in DOMAIN q : q[i] = Bump
      BY <1>1, <1>2 DEF QueueTypes, BumpsAway
    <2> HIDE DEF q
    <2>2. /\ Head(q) \in Moves /\ Tail(q) \in Seq(Moves) /\ Head(q) = q[1] /\ 1 \in DOMAIN q
          /\ \A i \in DOMAIN Tail(q) : i + 1 \in DOMAIN q /\ Tail(q)[i] = q[i + 1]
      BY <2>1
    <2> QED BY <2>1, <2>2 DEF q
  <1>4. /\ Rec(u) /\ Same(s, u, {"pulses"}) /\ u.pulses = Tail(s.pulses)
    BY <1>2 DEF Rec, Same, Fields
  <1> HIDE DEF u
  <1>5. QueueTypes(u.pulses, primary, <<w>>, events)
    BY <1>2, <1>3, <1>4 DEF QueueTypes
  <1>6. \A W : Sum(u.pulses, primary, <<w>>, events, W)
                 = Sum(s.pulses, primary, secondary, events, W)
    <2> SUFFICES ASSUME NEW W
                 PROVE  Sum(u.pulses, primary, <<w>>, events, W)
                          = Sum(s.pulses, primary, secondary, events, W)
      OBVIOUS
    <2>1. Count(s.pulses, W) = Count(u.pulses, W) + IF w \in W THEN 1 ELSE 0
      BY <1>1, <1>3, <1>4, CountTail
    <2>2. Count(<<w>>, W) = (IF w \in W THEN 1 ELSE 0) /\ Count(secondary, W) = 0
      BY <1>1, CountOne, CountEmpty
    <2>3. Count(u.pulses, W) \in Nat /\ Count(primary, W) \in Nat
          /\ Count(Works(events), W) \in Nat
      BY <1>5, SumParts
    <2> HIDE DEF w
    <2> QED BY <2>1, <2>2, <2>3 DEF Sum
  <1>7. Out(u.pulses, primary, <<w>>, events) = Away
    BY <1>6 DEF Out, Away
  <1>8. Typed(u) /\ Same(s, u, WorkFields) /\ (MountsIdle(u) => MountsIdle(s))
        /\ u.step = s.step
    <2>1. u.pulses \in Seq(Moves)
      BY <1>3, <1>4
    <2>2. Typed(u)
      BY <1>2, <1>4, <2>1 DEF Typed, Same, Fields
    <2> QED BY <1>4, <2>2 DEF Same, Fields, WorkFields, MountsIdle
  <1>9. Queue(u, Away)
    <2>1. /\ u.busy = s.busy /\ u.moves = s.moves /\ u.shots = s.shots
          /\ u.pending = s.pending /\ u.client = s.client /\ u.failed = s.failed
      BY <1>4 DEF Same, Fields
    <2> QED BY <1>2, <2>1 DEF Queue
  <1>10. Around(u.pulses, s.step, primary, <<w>>, events)
    <2>1. BumpsAway(u.pulses, primary, <<w>>, events)
      <3>1. Sum(u.pulses, primary, <<w>>, events, {Bump}) <= IF HasAO THEN 1 ELSE 0
        BY <1>2, <1>6 DEF BumpsAway
      <3>2. \A i \in DOMAIN <<w>> : <<w>>[i] = Bump
        BY <1>3
      <3>3. \A i \in DOMAIN u.pulses : u.pulses[i] = Bump
        BY <1>3, <1>4
      <3> HIDE DEF w
      <3> QED BY <1>2, <3>1, <3>2, <3>3 DEF BumpsAway
    <2> QED BY <1>2, <1>5, <2>1 DEF Around
  <1>11. /\ Queue(s', Out(s'.pulses, primary', secondary', events'))
         /\ Around(s'.pulses, s'.step, primary', secondary', events')
    BY <1>1, <1>7, <1>8, <1>9, <1>10
  <1>12. Rec(s') /\ Typed(s') /\ Same(s, s', WorkFields) /\ (MountsIdle(s') => MountsIdle(s))
    BY <1>1, <1>4, <1>8
  <1> QED BY <1>11, <1>12, WorkSound

\* A bump of the scope is done and reported.
LEMMA SecondaryMoveSound == ASSUME Sound, SecondaryMove PROVE Sound'
  <1> DEFINE w == secondary[1]
             m == w.mount
  <1>1. /\ secondary = <<w>> /\ w \in Moves /\ m \in Mounts /\ w = Bump
        /\ Around(s.pulses, s.step, primary, secondary, events)
        /\ QueueTypes(s.pulses, primary, secondary, events)
        /\ BumpsAway(s.pulses, primary, secondary, events)
    <2>1. /\ Around(s.pulses, s.step, primary, secondary, events)
          /\ QueueTypes(s.pulses, primary, secondary, events)
          /\ BumpsAway(s.pulses, primary, secondary, events)
      BY DEF Sound, Around
    <2>2. PICK v \in Moves : secondary = <<v>>
      BY <2>1 DEF QueueTypes, SecondaryMove
    <2>3. w = v /\ 1 \in DOMAIN secondary
      BY <2>2
    <2>4. w = Bump
      BY <2>1, <2>3 DEF BumpsAway
    <2> QED BY <2>1, <2>2, <2>3, <2>4 DEF Moves
  <1>2. PICK r \in Results, recorded \in BOOLEAN :
          /\ s' = [s EXCEPT !.step[m] = @ \/ recorded]
          /\ events' = Append(events, [work |-> w, result |-> r])
          /\ primary' = primary /\ secondary' = <<>>
    BY DEF SecondaryMove, Results
  <1> DEFINE t == [s EXCEPT !.step[m] = @ \/ recorded]
             n == Append(events, [work |-> w, result |-> r])
  <1>3. /\ Good(t, Away) /\ Same(s, t, {"step"}) /\ Alive(t) /\ t.ctl \in Resting
        /\ \A k \in Mounts : t.step[k] => s.step[k] \/ (m = k /\ recorded)
    BY <1>1, StepLeft
  <1>4. s' = t /\ events' = n
    BY <1>2
  <1> HIDE DEF t
  <1>5. \A k \in Mounts : t.step[k] => s.step[k] \/ (w.mount = k /\ w \in GuideMoves)
    BY <1>1, <1>3, BumpMove
  <1>6. /\ w \in Work /\ w \notin FrameMoves /\ w # Exposure
    BY <1>1, BumpMove, ExposureNoMove DEF Work
  <1>7. \A W : Sum(s.pulses, primary, <<>>, n, W)
                 = Sum(s.pulses, primary, secondary, events, W)
    BY <1>1, <1>6, Served
  <1>8. Around(s.pulses, t.step, primary, <<>>, n)
    <2>1. Sum(s.pulses, primary, <<>>, n, {Bump}) <= IF HasAO THEN 1 ELSE 0
      BY <1>1, <1>7 DEF BumpsAway
    <2>2. s.pulses \in Seq(Moves) /\ \A i \in DOMAIN s.pulses : s.pulses[i] = Bump
      BY <1>1 DEF QueueTypes, BumpsAway
    <2>3. primary \in {primary, <<>>} /\ <<>> \in {secondary, <<>>}
      OBVIOUS
    <2> HIDE DEF w
    <2> QED BY <1>1, <1>5, <1>6, <2>1, <2>2, <2>3, Reporting
  <1> HIDE DEF n, w
  <1>9. Out(s.pulses, primary, <<>>, n) = Away
    BY <1>7 DEF Out, Away
  <1>10. t.pulses = s.pulses
    BY <1>3 DEF Same, Fields
  <1> QED BY <1>2, <1>3, <1>4, <1>8, <1>9, <1>10 DEF Sound

-------------------------------------------------------------------------------
(* The session.                                                            *)

\* The initial state is sound.
LEMMA InitSound == Init => Sound
  <1> SUFFICES ASSUME Init PROVE Sound
    OBVIOUS
  <1>1. /\ s = Connected /\ primary = <<>> /\ secondary = <<>> /\ events = <<>>
    BY DEF Init
  <1>2. \A f \in {"pulses", "moves"} : Connected[f] = <<>>
    BY DEF Connected
  <1>3. /\ s.pulses = <<>> /\ s.moves = <<>> /\ DOMAIN s.moves = {} /\ DOMAIN events = {}
        /\ DOMAIN s.pulses = {} /\ DOMAIN primary = {} /\ DOMAIN secondary = {}
    BY <1>1, <1>2
  <1>4. QueueTypes(s.pulses, primary, secondary, events)
    BY <1>1, <1>3 DEF QueueTypes
  <1>5. \A W : Sum(s.pulses, primary, secondary, events, W) = 0
    BY <1>3, <1>4, SumParts
  <1>6. \A W : Count(s.moves, W) = 0
    BY <1>3, CountEmpty
  <1>7. Away.x = 0 /\ Away.g = 0 /\ \A m \in Mounts : Away.n[m] = 0
    BY <1>5 DEF Away, Out
  <1>8. Rec(s)
    BY <1>1 DEF Connected, Rec, Fields
  <1>9. Typed(s)
    BY <1>1, SessionAssumption DEF Connected, Typed, GuiderStates, ControllerStates,
       Listeners
  <1>10. Queue(s, Away)
    <2>1. /\ \A m \in Mounts : s.busy[m] = 0
          /\ s.shots = 0 /\ s.pending = FALSE /\ s.failed = {}
      BY <1>1 DEF Connected
    <2> QED BY <1>3, <1>6, <1>7, <2>1 DEF Queue
  <1>11. /\ Capturing(s) /\ AnswersKept(s) /\ Trying(s) /\ DecKept(s)
         /\ Alive(s) /\ s.ctl \in Resting
    BY <1>1 DEF Connected, Capturing, AnswersKept, Trying, DecKept, Alive, Resting
  <1>12. Told(s) /\ Ready(s) /\ Guided(s)
    BY <1>1 DEF Connected, Told, Ready, Guided
  <1>13. Around(s.pulses, s.step, primary, secondary, events)
    <2>1. \A m \in Mounts : s.step[m] = FALSE
      BY <1>1 DEF Connected
    <2>2. StepsReported(s.step, events)
      BY <2>1 DEF StepsReported
    <2>3. BumpsAway(s.pulses, primary, secondary, events)
      BY <1>3, <1>5 DEF BumpsAway
    <2>4. FramesLast(primary, events)
      BY <1>3 DEF FramesLast
    <2> QED BY <1>4, <2>2, <2>3, <2>4 DEF Around
  <1> QED BY <1>8, <1>9, <1>10, <1>11, <1>12, <1>13 DEF Sound, Good, Core, Away

\* A stutter is sound.
LEMMA StutterSound == ASSUME Sound, UNCHANGED vars PROVE Sound'
  BY DEF vars, Sound

\* Every step is sound.
LEMMA NextSound == ASSUME Sound, [Next]_vars PROVE Sound'
  <1>1. CASE UserCommand
    BY <1>1, UserCommandSound
  <1>2. CASE Gui
    BY <1>2, HandleImageSound, HandleCaptureErrorSound, HandleReconnectSound,
       HandleMoveCompleteSound DEF Gui
  <1>3. CASE SettleTimeLimit
    BY <1>3, OtherCommands
  <1>4. CASE PrimaryWorker
    BY <1>4, PrimaryTakeSound, PrimaryMoveSound, PrimaryExposeSound DEF PrimaryWorker
  <1>5. CASE SecondaryWorker
    BY <1>5, SecondaryTakeSound, SecondaryMoveSound DEF SecondaryWorker
  <1>6. CASE UNCHANGED vars
    BY <1>6, StutterSound
  <1> QED BY <1>1, <1>2, <1>3, <1>4, <1>5, <1>6 DEF Next

\* The inductive invariant: the record is what a handler leaves, and the queues hold
\* what the record says, whatever the commands, the sky, the camera and the mounts do.
THEOREM SessionInvHolds == Spec => []SessionInv
  <1>1. Init => SessionInv
    BY InitSound, InvSound
  <1>2. SessionInv /\ [Next]_vars => SessionInv'
    <2>1. SessionInv /\ [Next]_vars => Sound'
      BY InvSound, NextSound
    <2> QED BY <2>1, InvSoundNext
  <1> QED BY <1>1, <1>2, PTL DEF Spec

\* The session's state is well typed.
THEOREM TypeOKHolds == Spec => []TypeOK
  <1>1. SessionInv => TypeOK
    BY DEF SessionInv
  <1> QED BY <1>1, SessionInvHolds, PTL

\* m_exposurePending is true exactly while one exposure is on its way, and
\* ScheduleExposure's assertion never fails.
THEOREM ExposureInFlightHolds == Spec => []ExposureInFlight
  <1>1. SessionInv => ExposureInFlight
    BY DEF SessionInv
  <1> QED BY <1>1, SessionInvHolds, PTL

\* m_requestCount is the number of outstanding moves of each mount, and the assertions of
\* Increment- and DecrementRequestCount never fail.
THEOREM RequestCountExactHolds == Spec => []RequestCountExact
  <1>1. SessionInv => RequestCountExact
    BY DEF SessionInv
  <1> QED BY <1>1, SessionInvHolds, PTL

\* An image reaches the guider only when the moves of the frame before it have been
\* handled (MyFrame::OnExposeComplete, Guider::UpdateGuideState).
THEOREM FrameNotBusyHolds == Spec => []FrameNotBusy
  <1>1. SessionInv => FrameNotBusy
    BY InvSound, NotBusy DEF FrameNotBusy
  <1> QED BY <1>1, SessionInvHolds, PTL

\* A capture that is to go on has an exposure pending or is fully paused.
THEOREM CaptureAliveHolds == Spec => []CaptureAlive
  <1>1. SessionInv => CaptureAlive
    BY DEF SessionInv
  <1> QED BY <1>1, SessionInvHolds, PTL

\* What the event server tells is in turn: guide steps while guiding, settling news while
\* settling, answers to operations that were accepted.
THEOREM InTurnHolds == Spec => []InTurn
  <1>1. SessionInv => InTurn
    BY DEF SessionInv, AnswersKept, InTurn
  <1> QED BY <1>1, SessionInvHolds, PTL

\* An accepted operation is answered once, when the controller goes idle
\* (PhdController::Guide and Dither, do_notify).
THEOREM OneAnswerHolds == Spec => []OneAnswer
  <1>1. SessionInv => OneAnswer
    BY DEF SessionInv, AnswersKept, OneAnswer
  <1> QED BY <1>1, SessionInvHolds, PTL

\* A controller that is idle has given the scope its Dec guide mode back
\* (PhdController's do_fail and STATE_FINISH).
THEOREM DecModeRestoredHolds == Spec => []DecModeRestored
  <1>1. SessionInv => DecModeRestored
    BY DEF SessionInv, DecKept, DecModeRestored
  <1> QED BY <1>1, SessionInvHolds, PTL

\* Guiding has a star, a lock position and calibrated mounts, as long as nobody clears a
\* calibration under the guider (the equipment dialog and clear_calibration do so).
THEOREM GuidingReadyHolds ==
    ASSUME "clear_calibration" \notin Commands PROVE Spec => []GuidingReady
  <1>1. SessionInv => GuidingReady
    BY DEF SessionInv, Ready, GuidingReady
  <1> QED BY <1>1, SessionInvHolds, PTL

\* A listener that knows of guiding is told of its end with the last move at the latest,
\* as long as no command is given that stops guiding silently: deselect_star resets the
\* guider, clear_calibration lets it calibrate again, and guide can force a calibration.
THEOREM StoppedIsToldHolds ==
    ASSUME Commands \cap Silent = {} PROVE Spec => []StoppedIsTold
  <1>1. SessionInv => StoppedIsTold
    BY DEF SessionInv, Told, StoppedIsTold
  <1> QED BY <1>1, SessionInvHolds, PTL

\* CaptureActive outlives m_continueCapturing only until the pending exposure completes,
\* as long as the guider is not fully paused, which leaves it set (MyFrame::OnExposeComplete).
THEOREM CaptureClearedHolds ==
    ASSUME "pause_full" \notin Commands PROVE Spec => []CaptureCleared
  <1>1. SessionInv => CaptureCleared
    BY DEF SessionInv
  <1> QED BY <1>1, SessionInvHolds, PTL
================================================================================
