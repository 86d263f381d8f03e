------------------------------- MODULE Backlash -------------------------------
(***************************************************************************)
(* The compensation of the Dec backlash: a move of guiding that reverses   *)
(* the direction of Dec gets an extra pulse, and the offsets that follow   *)
(* it are tracked to find out whether the pulse was too short or too long. *)
(* The worker thread tracks and compensates; the GUI thread changes the    *)
(* settings.                                                               *)
(*                                                                         *)
(* Offsets are whole units of which yRate moves one in a unit of time.     *)
(***************************************************************************)
EXTENDS Integers, Sequences, FiniteSets, SequencesExt

CONSTANTS Offsets,                   \* the offsets in Dec that a move may have
          MinMove,                   \* GetMinMove of the Dec algorithm
          HISTORY_DEPTH,
          MIN_COMP_AMOUNT, MAX_COMP_AMOUNT,
          Settings,                  \* pulse, floor and ceiling that a user may ask for
          MaxDec                     \* m_maxDecDuration at first

ASSUME BacklashAssumption ==
    /\ Offsets \subseteq Int \ {0} /\ MinMove \in Nat
    /\ HISTORY_DEPTH \in Nat \ {0}
    /\ MIN_COMP_AMOUNT \in Nat \ {0} /\ MAX_COMP_AMOUNT \in Nat
    /\ MIN_COMP_AMOUNT <= MAX_COMP_AMOUNT
    /\ Settings \subseteq Nat \X Nat \X Nat /\ MaxDec \in Nat
    /\ \A s \in Settings : s[1] >= MIN_COMP_AMOUNT    \* where the dialog's control begins

VARIABLES blc,      \* the fields of BacklashComp
          history,  \* those of BLCHistory: of an event, the misses that followed it
          maxDec,   \* m_maxDecDuration of the scope
          worker,   \* where the worker is in MoveOffset
          move      \* what it moves: the kind of the move and its raw offset

vars == <<blc, history, maxDec, worker, move>>

ENTRY_CAPACITY == 2                  \* without the deflection that caused the event
Kinds == {"guide", "deduce", "direct"}
NoMove == [kind |-> "direct", y |-> 0]

Smaller(a, b) == IF a < b THEN a ELSE b
Greater(a, b) == IF a > b THEN a ELSE b
Abs(i) == IF i < 0 THEN -i ELSE i
Direction(y) == IF y > 0 THEN "down" ELSE "up"

\* SetCompValues
CompValues(b, requested, floor, ceiling) ==
    LET pulse == Smaller(requested, MAX_COMP_AMOUNT)
        low == IF floor > pulse \/ floor < MIN_COMP_AMOUNT THEN MIN_COMP_AMOUNT ELSE floor
        high == Smaller(IF ceiling < pulse THEN (3 * pulse) \div 2 ELSE ceiling,
                        MAX_COMP_AMOUNT)
    IN [b EXCEPT !.pulse = pulse, !.floor = low, !.ceiling = high,
                 !.fixed = Abs(high - low) < MIN_COMP_AMOUNT]
Raised(b) == IF b.active THEN Greater(maxDec, b.pulse) ELSE maxDec

\* The settings of the profile; a new one has none.
Init ==
    /\ \E s \in Settings \cup {<<0, 0, 0>>}, enabled \in BOOLEAN :
          blc = CompValues([active |-> enabled /\ s[1] > 0, last |-> "none", pulse |-> 0,
                            floor |-> 0, ceiling |-> 0, fixed |-> FALSE],
                           s[1], s[2], s[3])
    /\ history = [events |-> <<>>, index |-> 0, open |-> FALSE]
    /\ maxDec = IF blc.active THEN Greater(MaxDec, blc.pulse) ELSE MaxDec
    /\ worker = "idle" /\ move = NoMove

-------------------------------------------------------------------------------
(* The history of the compensations.                                       *)

InitialOvershoot(e) == e # <<>> /\ e[1] < -MinMove
StictionSeen(e) == Len(e) = 2 /\ e[1] > 0 /\ e[2] < -MinMove

Closed(h) == [h EXCEPT !.open = FALSE]

RecordNewBLCPulse(h) ==
    LET kept == IF Len(h.events) >= HISTORY_DEPTH THEN Tail(h.events) ELSE h.events
    IN [events |-> Append(kept, <<>>), index |-> Len(kept), open |-> TRUE]

InHistory(h) == h.index + 1 \in DOMAIN h.events

\* A third deflection is not recorded: it closes the window.
AddDeflection(h, miss) ==
    IF Len(h.events[h.index + 1]) < ENTRY_CAPACITY
    THEN [h EXCEPT !.events[h.index + 1] = Append(@, miss)]
    ELSE Closed(h)

\* RemoveOldestOvershoots and RemoveOldestStictions, of one event: never the last.
Removed(h, i) ==
    IF i = 0 THEN h
    ELSE [h EXCEPT !.events = RemoveAt(@, i), !.index = Len(h.events) - 2]
RemoveOldestOvershoot(h) == Removed(h, SelectInSeq(Front(h.events), InitialOvershoot))
RemoveOldestStiction(h) == Removed(h, SelectInSeq(Front(h.events), StictionSeen))

\* GetStats, of the events up to the index: how many overshot and how many have seen
\* stiction, and the sums of the initial misses and of those of stiction.
Recent(h) == SubSeq(h.events, Greater(1, h.index + 2 - HISTORY_DEPTH), h.index + 1)
Missed(events) == Cardinality({n \in DOMAIN events : events[n] # <<>>})
Overshoots(events) == Cardinality({n \in DOMAIN events : InitialOvershoot(events[n])})
Stictions(events) == Cardinality({n \in DOMAIN events : StictionSeen(events[n])})

Total(misses) ==
    LET sum[n \in 0..Len(misses)] == IF n = 0 THEN 0 ELSE sum[n - 1] + misses[n]
    IN sum[Len(misses)]
TotalMissed(events) ==
    Total([n \in 1..Len(events) |-> IF events[n] = <<>> THEN 0 ELSE events[n][1]])
TotalStiction(events) ==
    Total([n \in 1..Len(events) |-> IF StictionSeen(events[n]) THEN events[n][2] ELSE 0])

\* (int)(floor(fabs(average) / yRate) + 0.5)
Nominal(total, count) == IF count = 0 THEN 0 ELSE Abs(total) \div count

\* What AdjustmentNeeded decides: whether to adjust, by how much, and the history.
Decision(adjust, correction, h) ==
    [adjust |-> adjust, correction |-> correction,
     history |-> IF adjust THEN Closed(h) ELSE h]
NoAdjustment(h) == Decision(FALSE, 0, h)

Undershoot(h) ==
    LET recent == Recent(h)
        total == TotalMissed(recent)
    IN IF total <= 0 THEN NoAdjustment(Closed(h))
       ELSE IF /\ Len(h.events[h.index + 1]) = ENTRY_CAPACITY
               /\ Stictions(recent) <= 2
               /\ Overshoots(recent) < 2
            THEN Decision(TRUE, Nominal(total, Missed(recent)), h)
            ELSE NoAdjustment(h)

Overshoot(h) ==
    LET recent == Recent(h)
        total == TotalMissed(recent)
        shorter == -Nominal(total, Missed(recent))
        long == Overshoots(recent)
    IN IF StictionSeen(h.events[h.index + 1])
       THEN IF Stictions(recent) > 1
            THEN Decision(TRUE, -Nominal(TotalStiction(recent), Stictions(recent)),
                          RemoveOldestStiction(h))
            ELSE NoAdjustment(h)
       ELSE IF long > Len(recent) - long /\ h.index >= 4
            THEN Decision(TRUE, shorter, RemoveOldestOvershoot(RemoveOldestOvershoot(h)))
            ELSE IF 10 * total <= -Missed(recent)             \* average <= -0.1
                 THEN Decision(TRUE, shorter, h)
                 ELSE NoAdjustment(Closed(h))

AdjustmentNeeded(h, miss) ==
    CASE Abs(miss) < MinMove -> NoAdjustment(h)
      [] Abs(miss) >= MinMove /\ miss > 0 -> Undershoot(h)
      [] Abs(miss) >= MinMove /\ miss <= 0 -> Overshoot(h)

\* The new pulse: at most a tenth longer, at most a fifth shorter.
UnlimitedPulse(b, correction) ==
    IF correction > 0 THEN Smaller((11 * b.pulse + 5) \div 10, b.pulse + correction)
    ELSE Greater((8 * b.pulse + 5) \div 10, b.pulse + correction)
AdjustedPulse(b, correction) ==
    IF correction > 0
    THEN Smaller(UnlimitedPulse(b, correction), b.ceiling)
    ELSE Greater(UnlimitedPulse(b, correction), b.floor)

-------------------------------------------------------------------------------
(* The worker: MoveOffset.                                                 *)

\* TrackBLCResults up to the test of the window: deduced moves are not tracked, and
\* moves that are not the algorithm's end the tracking.
Track ==
    /\ worker = "idle"
    /\ \E kind \in Kinds, y \in Offsets :
          /\ move' = [kind |-> kind, y |-> y]
          /\ history' = IF kind = "direct" /\ blc.active THEN Closed(history) ELSE history
          /\ worker' = IF kind = "guide" /\ blc.active /\ history.open /\ ~blc.fixed
                       THEN "adjust" ELSE "apply"
    /\ UNCHANGED <<blc, maxDec>>

\* The rest of it: the offset tells whether the pulse was too short or too long.
Adjust ==
    /\ worker = "adjust"
    /\ IF InHistory(history)
       THEN LET size == Abs(move.y)
                miss == IF Direction(move.y) = blc.last THEN size ELSE -size
                d == AdjustmentNeeded(AddDeflection(history, miss), miss)
            IN /\ history' = d.history
               /\ blc' = IF d.adjust
                         THEN CompValues(blc, AdjustedPulse(blc, d.correction),
                                         blc.floor, blc.ceiling)
                         ELSE blc
               /\ maxDec' = IF d.adjust THEN Raised(blc') ELSE maxDec
               /\ worker' = "apply"
       ELSE worker' = "crashed" /\ UNCHANGED <<history, blc, maxDec>>
    /\ UNCHANGED move

\* ApplyBacklashComp, of what the guide algorithm makes of the offset; a mount that
\* slews or an AO at its limit in RA makes no Dec move.
Apply ==
    /\ worker = "apply"
    /\ worker' = "idle" /\ move' = NoMove
    /\ \/ \E y \in IF move.kind = "direct" THEN {move.y} ELSE Offsets \cup {0} :
             IF ~blc.active \/ blc.pulse = 0 \/ y = 0 THEN UNCHANGED <<blc, history>>
             ELSE /\ blc' = [blc EXCEPT !.last = Direction(y)]
                  /\ history' = IF blc.last \in {"none", Direction(y)} THEN history
                                ELSE IF move.kind = "guide" THEN RecordNewBLCPulse(history)
                                ELSE Closed(history)
       \/ UNCHANGED <<blc, history>>
    /\ UNCHANGED maxDec

-------------------------------------------------------------------------------
(* The GUI thread.                                                         *)

\* ResetBLCState
Reset ==
    IF blc.active THEN /\ blc' = [blc EXCEPT !.last = "none"]
                       /\ history' = Closed(history)
    ELSE UNCHANGED <<blc, history>>

\* ClearHistory leaves the index as it is.
ClearedOpen(h) == [h EXCEPT !.events = <<>>]
Cleared(h) == [Closed(h) EXCEPT !.events = <<>>]

\* SetBacklashPulseWidth, and what is enabled after it: a pulse that changes by more
\* than 100 ms clears the history. There is no lock, and nobody looks at the worker: the
\* history may be cleared while it tracks.
SetBacklashPulseWidth(b, s, enable) ==
    LET new == CompValues(b, s[1], s[2], s[3])
    IN /\ worker # "crashed"
       /\ blc' = [new EXCEPT !.active = enable]
       /\ maxDec' = Raised(new)
       /\ \/ UNCHANGED history
          \/ new.pulse # b.pulse /\ history' = Cleared(history)
       /\ UNCHANGED <<worker, move>>

\* The settings of the scope. EnableBacklashComp asks for a reset before it enables,
\* which then does nothing.
SettingsChanged ==
    \E s \in Settings, enable \in BOOLEAN :
       SetBacklashPulseWidth([blc EXCEPT !.active = enable], s, enable)

\* What the guiding assistant recommends is set first, and then enabled.
Recommended ==
    \E s \in Settings, enable \in BOOLEAN :
       SetBacklashPulseWidth(blc, <<s[1], 0, 0>>, enable)

\* SetDecGuideMode: without both directions there is no compensation.
SetDecGuideMode ==
    /\ worker # "crashed"
    /\ \/ blc' = [blc EXCEPT !.active = FALSE] /\ UNCHANGED history
       \/ Reset
    /\ UNCHANGED <<maxDec, worker, move>>

\* NotifyGuidingStopped, when no move is under way.
GuidingStopped == worker = "idle" /\ Reset /\ UNCHANGED <<maxDec, worker, move>>

Next == \/ Track \/ Adjust \/ Apply
        \/ SettingsChanged \/ Recommended \/ SetDecGuideMode \/ GuidingStopped

Spec == Init /\ [][Next]_vars

-------------------------------------------------------------------------------
(* Properties.                                                             *)

TypeOK ==
    /\ blc \in [active : BOOLEAN, last : {"none", "up", "down"}, pulse : Nat,
                floor : Nat, ceiling : Nat, fixed : BOOLEAN]
    /\ history \in [events : Seq(Seq(Int)), index : Nat, open : BOOLEAN]
    /\ maxDec \in Nat
    /\ worker \in {"idle", "adjust", "apply", "crashed"}
    /\ move \in [kind : Kinds, y : Int]

\* The limits are those SetCompValues chooses: a pulse, once there is one, is within
\* them, and one that is not fixed has room there.
LimitsSound ==
    /\ MIN_COMP_AMOUNT <= blc.floor
    /\ blc.pulse > 0 => blc.floor <= blc.pulse
    /\ blc.pulse <= blc.ceiling /\ blc.ceiling <= MAX_COMP_AMOUNT
    /\ blc.fixed <=> Abs(blc.ceiling - blc.floor) < MIN_COMP_AMOUNT
    /\ blc.pulse = 0 => ~blc.active

\* The history ends at its index while offsets are tracked. What the worker goes on to
\* track has an event, although the window may be closed in the meantime, unless the
\* user clears the history under it; and only then does it read beyond the end.
WindowSound ==
    /\ history.open => history.events # <<>> /\ history.index = Len(history.events) - 1
    /\ Len(history.events) <= HISTORY_DEPTH
    /\ worker = "adjust" =>
          /\ move.y # 0 /\ blc.pulse > 0
          /\ InHistory(history) \/ history.events = <<>>
    /\ worker = "crashed" => history.events = <<>>

BacklashInv == TypeOK /\ LimitsSound /\ WindowSound

\* The index names the last event of the history for as long as the window is open,
\* although the user clears it, old events leave it and adjustments remove some. The
\* worker reads beyond its end in one case only, a history that SetBacklashPulseWidth
\* clears while TrackBLCResults is under way, as no lock keeps it from doing: resets,
\* a closed window and removed events never make it read there.
HistorySound ==
    /\ worker = "crashed" => history.events = <<>>
    /\ history.open => history.events # <<>> /\ history.index = Len(history.events) - 1
    /\ Len(history.events) <= HISTORY_DEPTH

\* Adjustments never move the limits the user has set and keep the pulse within them,
\* although both may change under the worker: the pulse grows after a move that fell
\* short, by a tenth at most, and shrinks after one that went too far, by a fifth at most.
AdjustmentBounded ==
    [][Adjust /\ blc' # blc =>
         /\ blc' = [blc EXCEPT !.pulse = blc'.pulse]
         /\ blc'.pulse \in blc.floor..blc.ceiling
         /\ 10 * blc'.pulse <= 11 * blc.pulse + 5
         /\ 10 * blc'.pulse >= 8 * blc.pulse - 5
         /\ blc'.pulse > blc.pulse <=> Direction(move.y) = blc.last]_vars
===============================================================================
