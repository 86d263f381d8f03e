\* The primary worker: the GUI thread, the worker itself and a
\* second worker post to it.
CONSTANTS
    e1 = e1  e2 = e2  m1 = m1  m2 = m2  w2 = w2
    Exposures <- MCExposures
    Bumping <- MCBumping
    Moves <- MCMoves
    Others <- MCOthers
    Main = Main  Self = Self  Terminate = Terminate  None = None
SPECIFICATION FairSpec
INVARIANTS WorkerInv WakeupHasMessage AnsweredOnce
PROPERTIES TerminateSticks ImplementsWorkQueue EveryRequestAnswered StopReturns
CHECK_DEADLOCK FALSE
