------------------------------ MODULE Operations ------------------------------
(***************************************************************************)
(* What the program promises a client of the event server about guide and  *)
(* dither (src/src/controller.cpp, src/src/server/event_server.cpp): one   *)
(* operation at a time, whose settling begins at most once and is answered *)
(* once; guiding does not stop under an operation that is still to be      *)
(* answered; and the scope has another Dec guide mode than the user's only *)
(* while a dither settles.  The guider, the frame, the workers and what    *)
(* makes an operation wait or fail are in GuideSession, which implements   *)
(* this specification.                                                     *)
(***************************************************************************)
CONSTANTS UserMode,      \* the Dec guide mode the user set
          Overridable    \* a dither may need the other direction of Dec

VARIABLES op,        \* the operation: "guide", "dither", "compat" or "none"
          phase,     \* it is "waiting" for the guider or "settling", or "idle"
          guiding,   \* the client was told that guiding runs
          dec        \* the scope's Dec guide mode

vars == <<op, phase, guiding, dec>>

Init == op = "none" /\ phase = "idle" /\ guiding = FALSE /\ dec = UserMode

\* A guide operation finds the guider ready, or makes it so.
Guide ==
    /\ phase = "idle"
    /\ op' = "guide" /\ phase' \in {"waiting", "settling"}
    /\ UNCHANGED <<guiding, dec>>

\* A dither needs guiding, and settles from the start.
Dither(kind) ==
    /\ guiding /\ phase = "idle"
    /\ op' = kind /\ phase' = "settling"
    /\ dec' \in IF kind = "dither" /\ Overridable THEN {dec, "AUTO"} ELSE {dec}
    /\ UNCHANGED guiding

\* A phd1-style move takes the place of the operation, which it aborts.
Replace ==
    /\ guiding /\ phase # "idle"
    /\ op' = "compat" /\ phase' = "settling" /\ dec' = UserMode
    /\ UNCHANGED guiding

\* Settling begins, in the frame that makes the guider ready or later.
Settle ==
    /\ phase = "waiting" /\ phase' = "settling"
    /\ guiding => guiding'
    /\ guiding' \in BOOLEAN
    /\ UNCHANGED <<op, dec>>

\* The operation has settled, failed, or was aborted by what stops guiding.
Answer ==
    /\ phase # "idle" /\ phase' = "idle"
    /\ op' = "none" /\ dec' = UserMode
    /\ guiding' \in BOOLEAN

\* Guiding starts at any time, and stops only when nothing is to be answered.
GuidingStarts == ~guiding /\ guiding' = TRUE /\ UNCHANGED <<op, phase, dec>>
GuidingStops ==
    /\ guiding /\ phase = "idle"
    /\ guiding' = FALSE
    /\ UNCHANGED <<op, phase, dec>>

Next == \/ Guide \/ Replace \/ Settle \/ Answer \/ GuidingStarts \/ GuidingStops
        \/ \E kind \in {"dither", "compat"} : Dither(kind)

Spec == Init /\ [][Next]_vars
===============================================================================
