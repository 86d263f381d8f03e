----------------------------- MODULE WorkerThread -----------------------------
(***************************************************************************)
(* One worker thread of the frame: the two priority queues with their      *)
(* wake-up queue, the requests other threads post under the critical       *)
(* section m_CSpWorkerThread, the thread's main loop, the exposure and     *)
(* move handlers, the interrupt flags, and MyFrame::StopWorkerThread.      *)
(*                                                                         *)
(* The steps are those other threads can observe: the critical section is  *)
(* taken, a flag is read or written, a queue is posted to or received      *)
(* from, an event is queued for the frame.                                 *)
(***************************************************************************)
EXTENDS Naturals, Sequences, FiniteSets

CONSTANTS Exposures, Moves, Terminate, None,
          Bumping, \* the moves, of an AO, that may ask for another move
          Main,    \* the GUI thread: schedules anything, stops the thread
          Self,    \* this worker, which posts the move of the second mount to
                   \* itself if that mount is SynchronousOnly
          Others   \* other workers that schedule moves on this one

ASSUME WorkerAssumption ==
    /\ Exposures \cap Moves = {} /\ Bumping \subseteq Moves
    /\ Terminate \notin Exposures \cup Moves
    /\ None \notin Exposures \cup Moves \cup {Terminate, Main, Self} \cup Others
    /\ Main # Self
    /\ {Main, Self} \cap Others = {}

Requests == Exposures \cup Moves \cup {Terminate}
Producers == {Main, Self} \cup Others
INT == {"STOP", "TERMINATE"}

VARIABLES
    lock,       \* the holder of m_CSpWorkerThread, or None
    stopping,   \* the GUI thread is in StopWorkerThread, waiting for the thread
    ppc,        \* [Producers -> where the producer is in its Enqueue call]
    posting,    \* [Producers -> the request it is posting, or None]
    flags,      \* [Producers -> m_interruptRequested as it last read it]
    high, low,  \* m_highPriorityQueue, m_lowPriorityQueue
    wakeup,     \* the number of entries of m_wakeupQueue
    interrupt,  \* m_interruptRequested
    skip,       \* m_skipSendExposeComplete
    wpc,        \* where the worker is in Entry()
    msg,        \* the message it serves, or None
    events      \* what it has queued for the frame, in order

qvars == <<high, low, wakeup>>
vars == <<lock, stopping, ppc, posting, flags, high, low, wakeup, interrupt, skip, wpc,
          msg, events>>

Queued == {high[i] : i \in DOMAIN high} \cup {low[i] : i \in DOMAIN low}
Stopping == posting[Main] = Terminate \/ stopping
Alive == wpc \notin {"ended", "killed"}
Answers(r) == {i \in DOMAIN events : events[i].req = r}

\* No earlier call has used r: every call builds a message of its own.
Fresh(r) == /\ r \notin Queued /\ r # msg
            /\ \A p \in Producers : posting[p] # r
            /\ Answers(r) = {}

Init ==
    /\ lock = None /\ stopping = FALSE
    /\ ppc = [p \in Producers |-> "idle"]
    /\ posting = [p \in Producers |-> None]
    /\ flags = [p \in Producers |-> {}]
    /\ high = <<>> /\ low = <<>> /\ wakeup = 0
    /\ interrupt = {} /\ skip = FALSE
    /\ wpc = "wait" /\ msg = None
    /\ events = <<>>

-------------------------------------------------------------------------------
(* Producers: MyFrame::ScheduleExposure, SchedulePrimaryMove,              *)
(* ScheduleSecondaryMove, ScheduleAxisMove and StopWorkerThread.           *)

\* Only the GUI thread schedules exposures and terminates a thread; another
\* worker, or this one in the middle of a move, schedules a move.  OnClose
\* stops the workers that schedule moves here before it stops this one.  While
\* it waits for the thread it dispatches events, and their handlers post more.
MayPost(p, r) ==
    \/ p = Main /\ (r = Terminate =>
                      ~stopping /\ \A o \in Others : ppc[o] = "idle")
    \/ p = Self /\ wpc = "serve" /\ msg \in Bumping /\ r \in Moves \ Bumping
    \/ p \in Others /\ r \in Moves /\ ~Stopping

\* The call is made; from here on the producer waits for the critical section.
Call(p, r) ==
    /\ ppc[p] = "idle" /\ (Alive \/ stopping)
    /\ MayPost(p, r) /\ Fresh(r)
    /\ posting' = [posting EXCEPT ![p] = r]
    /\ ppc' = [ppc EXCEPT ![p] = "calling"]
    /\ UNCHANGED <<lock, stopping, flags, high, low, wakeup, interrupt, skip, wpc, msg,
                   events>>

\* A producer that does not wait for the critical section.
EnterUnlocked(p) ==
    /\ ppc[p] = "calling"
    /\ lock' = p
    /\ ppc' = [ppc EXCEPT ![p] = "entered"]
    /\ UNCHANGED <<stopping, posting, flags, high, low, wakeup, interrupt, skip, wpc, msg,
                   events>>

\* wxCriticalSectionLocker lock(m_CSpWorkerThread), a recursive one: a handler
\* that runs while StopWorkerThread waits is inside it already.
Enter(p) ==
    /\ ppc[p] = "calling"
    /\ lock = None \/ (p = Main /\ stopping)
    /\ lock' = p
    /\ ppc' = [ppc EXCEPT ![p] = "entered"]
    /\ UNCHANGED <<stopping, posting, flags, high, low, wakeup, interrupt, skip, wpc, msg,
                   events>>

\* The load of m_interruptRequested &= ~INT_STOP; a termination stores both
\* bits without loading.
LoadFlags(p) ==
    /\ ppc[p] = "entered"
    /\ flags' = [flags EXCEPT ![p] = IF posting[p] = Terminate THEN INT
                                     ELSE interrupt \ {"STOP"}]
    /\ ppc' = [ppc EXCEPT ![p] = "loaded"]
    /\ UNCHANGED <<lock, stopping, posting, high, low, wakeup, interrupt, skip, wpc, msg,
                   events>>

StoreFlags(p) ==
    /\ ppc[p] = "loaded"
    /\ interrupt' = flags[p]
    /\ ppc' = [ppc EXCEPT ![p] = "stored"]
    /\ UNCHANGED <<lock, stopping, posting, flags, high, low, wakeup, skip, wpc, msg,
                   events>>

\* EnqueueMessage, first half: the message goes to its queue.
PostMessage(p) ==
    /\ ppc[p] = "stored"
    /\ IF posting[p] \in Exposures
       THEN low' = Append(low, posting[p]) /\ UNCHANGED high
       ELSE high' = Append(high, posting[p]) /\ UNCHANGED low
    /\ ppc' = [ppc EXCEPT ![p] = "posted"]
    /\ UNCHANGED <<lock, stopping, posting, flags, wakeup, interrupt, skip, wpc, msg,
                   events>>

\* A wake-up for each of the two queues.
PostWakeupTwice(p) ==
    /\ ppc[p] = "posted"
    /\ wakeup' = wakeup + 2
    /\ ppc' = [ppc EXCEPT ![p] = "woken"]
    /\ UNCHANGED <<lock, stopping, posting, flags, high, low, interrupt, skip, wpc, msg,
                   events>>

\* No second wake-up while there is one.
PostWakeupOnce(p) ==
    /\ ppc[p] = "posted"
    /\ wakeup' = 1
    /\ ppc' = [ppc EXCEPT ![p] = "woken"]
    /\ UNCHANGED <<lock, stopping, posting, flags, high, low, interrupt, skip, wpc, msg,
                   events>>

\* EnqueueMessage, second half: the wake-up is posted.
PostWakeup(p) ==
    /\ ppc[p] = "posted"
    /\ wakeup' = wakeup + 1
    /\ ppc' = [ppc EXCEPT ![p] = "woken"]
    /\ UNCHANGED <<lock, stopping, posting, flags, high, low, interrupt, skip, wpc, msg,
                   events>>

\* The locker goes out of scope.  StopWorkerThread keeps the section: it goes
\* on to wait for the thread.
Leave(p) ==
    /\ ppc[p] = "woken"
    /\ stopping' = (stopping \/ posting[p] = Terminate)
    /\ lock' = IF stopping' THEN lock ELSE None
    /\ ppc' = [ppc EXCEPT ![p] = "idle"]
    /\ posting' = [posting EXCEPT ![p] = None]
    /\ UNCHANGED <<flags, high, low, wakeup, interrupt, skip, wpc, msg, events>>

\* StopCapturing: m_pPrimaryWorkerThread->RequestStop(), by the GUI thread and
\* outside the critical section.
RequestStop ==
    /\ ppc[Main] = "idle" /\ (Alive \/ stopping)
    /\ interrupt' = interrupt \cup {"STOP"}
    /\ UNCHANGED <<lock, stopping, ppc, posting, flags, high, low, wakeup, skip, wpc, msg,
                   events>>

\* delete pWorkerThread, and the end of the critical section.
Delete ==
    /\ high' = <<>> /\ low' = <<>> /\ wakeup' = 0
    /\ lock' = None /\ stopping' = FALSE

\* StopWorkerThread: the thread has ended, Wait() returns.
Join ==
    /\ stopping /\ ppc[Main] = "idle" /\ wpc = "ended"
    /\ Delete
    /\ UNCHANGED <<ppc, posting, flags, interrupt, skip, wpc, msg, events>>

\* A worker that serves a move is not killed.
KillUnlessMoving ==
    /\ stopping /\ ppc[Main] = "idle" /\ Alive /\ wpc # "serve"
    /\ wpc' = "killed" /\ msg' = None
    /\ skip' = FALSE
    /\ Delete
    /\ UNCHANGED <<ppc, posting, flags, interrupt, events>>

\* StopWorkerThread: TIMEOUT_MS have passed and the thread is still alive.  No
\* code makes a thread unkillable (WorkerThreadKillGuard has no user).
Kill ==
    /\ stopping /\ ppc[Main] = "idle" /\ Alive
    /\ wpc' = "killed" /\ msg' = None
    /\ skip' = FALSE
    /\ Delete
    /\ UNCHANGED <<ppc, posting, flags, interrupt, events>>

-------------------------------------------------------------------------------
(* The worker: WorkerThread::Entry and the two handlers.                   *)

\* m_wakeupQueue.Receive
Wake ==
    /\ wpc = "wait" /\ wakeup > 0
    /\ wakeup' = wakeup - 1
    /\ wpc' = "awake"
    /\ UNCHANGED <<lock, stopping, ppc, posting, flags, high, low, interrupt, skip, msg,
                   events>>

\* Exposures before moves.
ReceiveHighLast ==
    /\ wpc = "awake"
    /\ \/ /\ low = <<>>
          /\ high' = Tail(high)
          /\ IF Head(high) = Terminate
             THEN wpc' = "ended" /\ UNCHANGED msg
             ELSE wpc' = "serve" /\ msg' = Head(high)
       \/ /\ low # <<>>
          /\ wpc' = "missed"
          /\ UNCHANGED <<high, msg>>
    /\ UNCHANGED <<lock, stopping, ppc, posting, flags, low, wakeup, interrupt, skip,
                   events>>

\* m_highPriorityQueue.ReceiveTimeout(0, message), and the dispatch on what
\* was received; a termination ends the loop.
ReceiveHigh ==
    /\ wpc = "awake"
    /\ \/ /\ high # <<>>
          /\ high' = Tail(high)
          /\ IF Head(high) = Terminate
             THEN wpc' = "ended" /\ UNCHANGED msg
             ELSE wpc' = "serve" /\ msg' = Head(high)
       \/ /\ high = <<>>
          /\ wpc' = "missed"
          /\ UNCHANGED <<high, msg>>
    /\ UNCHANGED <<lock, stopping, ppc, posting, flags, low, wakeup, interrupt, skip,
                   events>>

\* m_lowPriorityQueue.ReceiveTimeout(0, message), which must not time out.
ReceiveLow ==
    /\ wpc = "missed" /\ low # <<>>
    /\ low' = Tail(low)
    /\ msg' = Head(low)
    /\ wpc' = "serve"
    /\ UNCHANGED <<lock, stopping, ppc, posting, flags, high, wakeup, interrupt, skip,
                   events>>

\* HandleExpose: the time-lapse delay; an interrupt fails the exposure.
ExposeDelay ==
    /\ wpc = "serve" /\ msg \in Exposures
    /\ wpc' = IF interrupt = {} THEN "capture" ELSE "report"
    /\ UNCHANGED <<lock, stopping, ppc, posting, flags, high, low, wakeup, interrupt,
                   skip, msg, events>>

\* HandleExpose: the camera delivers an image, or fails.
Capture ==
    /\ wpc = "capture"
    /\ wpc' = "report"
    /\ UNCHANGED <<lock, stopping, ppc, posting, flags, high, low, wakeup, interrupt,
                   skip, msg, events>>

\* The camera timed out: InitiateReconnect marks the completion as deferred and
\* queues the reconnection for the GUI thread, which will answer instead.
CaptureTimeout ==
    /\ wpc = "capture"
    /\ skip' = TRUE
    /\ events' = Append(events, [kind |-> "reconnect", req |-> msg])
    /\ wpc' = "report"
    /\ UNCHANGED <<lock, stopping, ppc, posting, flags, high, low, wakeup, interrupt, msg>>

\* The completion is sent although the reconnection stands for it.
ReportAlways ==
    /\ wpc = "report"
    /\ events' = Append(events, [kind |-> "expose", req |-> msg])
    /\ skip' = FALSE
    /\ wpc' = "wait" /\ msg' = None
    /\ UNCHANGED <<lock, stopping, ppc, posting, flags, high, low, wakeup, interrupt>>

\* The deferral of one exposure is not reset.
ReportKeepsSkip ==
    /\ wpc = "report"
    /\ IF skip
       THEN UNCHANGED events
       ELSE events' = Append(events, [kind |-> "expose", req |-> msg])
    /\ wpc' = "wait" /\ msg' = None
    /\ UNCHANGED <<lock, stopping, ppc, posting, flags, high, low, wakeup, interrupt, skip>>

\* The end of REQUEST_EXPOSE: a deferred completion is not sent.
ReportExpose ==
    /\ wpc = "report"
    /\ IF skip
       THEN skip' = FALSE /\ UNCHANGED events
       ELSE /\ events' = Append(events, [kind |-> "expose", req |-> msg])
            /\ UNCHANGED skip
    /\ wpc' = "wait" /\ msg' = None
    /\ UNCHANGED <<lock, stopping, ppc, posting, flags, high, low, wakeup, interrupt>>

\* HandleMove and SendWorkerThreadMoveComplete, once the move has posted what
\* it had to post.
ServeMove ==
    /\ wpc = "serve" /\ msg \in Moves
    /\ ppc[Self] = "idle"
    /\ events' = Append(events, [kind |-> "move", req |-> msg])
    /\ wpc' = "wait" /\ msg' = None
    /\ UNCHANGED <<lock, stopping, ppc, posting, flags, high, low, wakeup, interrupt, skip>>

\* A worker that was killed in the middle of a move posts nothing more.
Enqueue(p) == /\ p = Self => Alive
              /\ \/ Enter(p) \/ LoadFlags(p) \/ StoreFlags(p)
                 \/ PostMessage(p) \/ PostWakeup(p) \/ Leave(p)

Worker == \/ Wake \/ ReceiveHigh \/ ReceiveLow
          \/ ExposeDelay \/ Capture \/ CaptureTimeout \/ ReportExpose
          \/ ServeMove

Next == \/ \E p \in Producers : Enqueue(p) \/ \E r \in Requests : Call(p, r)
        \/ RequestStop \/ Join \/ Kill
        \/ Worker

Spec == Init /\ [][Next]_vars

\* A thread that runs is scheduled; a call that has the critical section, or
\* waits for a free one, goes on; StopWorkerThread's wait is bounded.
Fairness == /\ WF_vars(Worker)
            /\ \A p \in Producers : SF_vars(Enqueue(p))
            /\ WF_vars(Join \/ Kill)
FairSpec == Spec /\ Fairness

-------------------------------------------------------------------------------
(* Properties.                                                             *)

TypeOK ==
    /\ lock \in Producers \cup {None} /\ stopping \in BOOLEAN
    /\ ppc \in [Producers -> {"idle", "calling", "entered", "loaded", "stored",
                              "posted", "woken"}]
    /\ posting \in [Producers -> Requests \cup {None}]
    /\ flags \in [Producers -> SUBSET INT]
    /\ high \in Seq(Moves \cup {Terminate}) /\ low \in Seq(Exposures)
    /\ wakeup \in Nat
    /\ interrupt \subseteq INT
    /\ skip \in BOOLEAN
    /\ wpc \in {"wait", "awake", "missed", "serve", "capture", "report", "ended",
                "killed"}
    /\ msg \in Exposures \cup Moves \cup {None}
    /\ events \in Seq([kind : {"reconnect", "expose", "move"},
                       req : Exposures \cup Moves])

\* The worker never finds both queues empty after a wake-up: the assertion
\* queueError != wxMSGQUEUE_TIMEOUT of Entry() (worker_thread.cpp:386), although
\* a message and its wake-up are posted one after the other and a message may
\* arrive between the two receives.
WakeupHasMessage ==
    /\ wpc = "awake" => high # <<>> \/ low # <<>>
    /\ wpc = "missed" => low # <<>>

\* Why WakeupHasMessage and TerminateSticks hold, as an inductive invariant.  The
\* critical section has one holder, the producer that is past Enter or the GUI
\* thread in StopWorkerThread.
Held == {"entered", "loaded", "stored", "posted", "woken"}
OneHolder == /\ \A p \in Producers : ppc[p] \in Held => lock = p
             /\ stopping => lock = Main

\* Only the GUI thread posts exposures and the termination.
PostsOnly ==
    \A p \in Producers :
        /\ posting[p] = None <=> ppc[p] = "idle"
        /\ p # Main => posting[p] \in Moves \cup {None}

\* It is an exposure that is being captured or reported.
ServesExposure == wpc \in {"capture", "report"} => msg \in Exposures

\* As long as the worker lives there is one message for each wake-up: those
\* queued, the one being posted and the one the worker has received.
WakeupsMatch ==
    LET posted == IF \E p \in Producers : ppc[p] = "posted" THEN 1 ELSE 0
        received == IF wpc \in {"awake", "missed"} THEN 1 ELSE 0
    IN Alive => Len(high) + Len(low) = wakeup + posted + received

\* A producer that is about to store the flags has seen the termination.
FlagsCurrent ==
    \A p \in Producers :
        ppc[p] = "loaded" /\ "TERMINATE" \in interrupt => "TERMINATE" \in flags[p]

QueueInv == /\ OneHolder /\ PostsOnly /\ ServesExposure
            /\ WakeupsMatch /\ FlagsCurrent
            /\ wpc = "missed" => low # <<>>

\* The worker has a message while it serves one, and defers only its report.
ServesMessage ==
    /\ msg # None <=> wpc \in {"serve", "capture", "report"}
    /\ skip => wpc = "report"

\* A request is in at most one place: with the producer that has not posted it yet, in
\* one entry of a queue, with the worker, or in one event.
Unposted(p) == ppc[p] \in {"calling", "entered", "loaded", "stored"}
Injective(q) == \A i, j \in DOMAIN q : q[i] = q[j] => i = j
OnePlace ==
    /\ Injective(high) /\ Injective(low)
    /\ \A i, j \in DOMAIN events : events[i].req = events[j].req => i = j
    /\ \A p, q \in Producers : posting[p] # None /\ posting[p] = posting[q] => p = q
    /\ \A p \in Producers :
          Unposted(p) => /\ posting[p] \notin Queued /\ posting[p] # msg
                         /\ Answers(posting[p]) = {}
    /\ \A r \in Queued : r # msg /\ Answers(r) = {}
    /\ msg # None => Answers(msg) = IF skip THEN {Len(events)} ELSE {}

\* The inductive invariant: queues and wake-ups agree under the critical section, and
\* no request is doubled, served again or answered by the completion of another,
\* whatever the GUI thread, another worker or a move post and whichever report is
\* deferred. That none is lost is NothingLost.
WorkerInv == TypeOK /\ QueueInv /\ ServesMessage /\ OnePlace

\* The frame has at most one answer for a request, the completion or the
\* reconnection that stands for it, and none before the request was taken.
AnsweredOnce ==
    \A r \in Requests : /\ Cardinality(Answers(r)) <= 1
                        /\ r \in Queued => Answers(r) = {}

\* As long as the thread lives no request is lost: from the call on it is with its
\* producer, in a queue, with the worker or answered, and a step takes it from one of
\* these to the next.  So a worker that waits with empty queues owes the frame nothing.
\* A deferral that is not reset would swallow the answer of the next exposure.
Kept(r) == \/ \E p \in Producers : Unposted(p) /\ posting[p] = r
           \/ r \in Queued \/ r = msg \/ Answers(r) # {}
NothingLost ==
    [][Alive' => \A r \in Exposures \cup Moves : Kept(r) => Kept(r)']_vars

\* Once a termination is requested its flag stays: no enqueued exposure or move
\* clears it, whoever enqueues it and whenever.
TerminateSticks ==
    [][ "TERMINATE" \in interrupt => "TERMINATE" \in interrupt' ]_interrupt

\* A request the queues hold is answered unless the thread stops first.
EveryRequestAnswered ==
    \A r \in Exposures \cup Moves : r \in Queued ~> Answers(r) # {} \/ ~Alive

\* StopWorkerThread comes back, and with the thread gone, even when the worker
\* waits for the critical section its caller holds.
StopReturns == Stopping ~> ~Alive /\ ~stopping

\* The steps above implement the queue of WorkQueue: an exposure is taken at
\* the moment the high-priority queue is found empty.
Taken == IF wpc = "missed" THEN Head(low) ELSE IF msg = None THEN None ELSE msg
Open == IF wpc = "report" /\ skip THEN None ELSE Taken
WQ == INSTANCE WorkQueue WITH
        low <- IF wpc = "missed" THEN Tail(low) ELSE low,
        current <- Open,
        answered <- {events[i].req : i \in DOMAIN events},
        running <- Alive
ImplementsWorkQueue == WQ!Spec
=============================================================================
