-------------------------- MODULE WorkerThread_proofs --------------------------
(***************************************************************************)
(* Proofs about WorkerThread, for any sets of requests and of workers that *)
(* post.                                                                   *)
(*                                                                         *)
(* The assertion of Entry() and the termination flag both rest on the      *)
(* critical section: one producer at a time is between its two posts, and  *)
(* between its load and its store of m_interruptRequested.  The second     *)
(* part is about the requests: each is in at most one place, is answered   *)
(* at most once and not lost while the thread lives, and the thread        *)
(* implements the two queues of WorkQueue.                                 *)
(***************************************************************************)
EXTENDS WorkerThread, SequenceTheorems, FiniteSetTheorems, TLAPS

-------------------------------------------------------------------------------
(* What posting to a queue and receiving from it do to its type and length. *)

\* Posting: one more element, of the type of what was posted.
LEMMA Posted ==
    ASSUME NEW S, NEW q \in Seq(S), NEW r \in S
    PROVE  Append(q, r) \in Seq(S) /\ Len(Append(q, r)) = Len(q) + 1
  OBVIOUS

\* Receiving: an element of the queue's type, and one fewer left.
LEMMA Received ==
    ASSUME NEW S, NEW q \in Seq(S), q # <<>>
    PROVE  Head(q) \in S /\ Tail(q) \in Seq(S) /\ Len(Tail(q)) = Len(q) - 1
  OBVIOUS

\* The empty queue has length 0, and only that one.
LEMMA Emptied ==
    ASSUME NEW S, NEW q \in Seq(S)
    PROVE  /\ <<>> \in Seq(S) /\ Len(<<>>) = 0
           /\ Len(q) \in Nat /\ (q = <<>> <=> Len(q) = 0)
  OBVIOUS

-------------------------------------------------------------------------------
(* Type correctness.                                                       *)

\* PostsOnly is inductive by itself: a call posts what MayPost allows, and only
\* the GUI thread posts a termination.
LEMMA PostsOnlyInductive ==
    ASSUME TypeOK, PostsOnly, [Next]_vars
    PROVE  PostsOnly'
  <1> USE WorkerAssumption DEF TypeOK, PostsOnly, Producers, Requests
  <1>1. CASE \E p \in Producers : Enqueue(p)
    <2> PICK p \in Producers : Enqueue(p)
      BY <1>1
    <2>1. CASE Enter(p) \/ LoadFlags(p) \/ StoreFlags(p) \/ PostMessage(p)
                 \/ PostWakeup(p)
      BY <2>1 DEF Enter, LoadFlags, StoreFlags, PostMessage, PostWakeup
    <2>2. CASE Leave(p)
      BY <2>2 DEF Leave
    <2> QED BY <2>1, <2>2 DEF Enqueue
  <1>2. CASE \E p \in Producers, r \in Requests : Call(p, r)
    BY <1>2 DEF Call, MayPost
  <1>3. CASE Join \/ Kill
    BY <1>3 DEF Join, Kill, Delete
  <1>4. CASE RequestStop \/ Worker \/ UNCHANGED vars
    BY <1>4 DEF RequestStop, Worker, Wake, ReceiveHigh, ReceiveLow, ExposeDelay,
                Capture, CaptureTimeout, ReportExpose, ServeMove, vars
  <1> QED BY <1>1, <1>2, <1>3, <1>4 DEF Next

\* A message that was an exposure when its capture began stays one until it is
\* reported.
LEMMA ServesExposureInductive ==
    ASSUME TypeOK, ServesExposure, [Next]_vars
    PROVE  ServesExposure'
  <1> USE DEF ServesExposure
  <1>1. CASE Worker
    BY <1>1 DEF Worker, Wake, ReceiveHigh, ReceiveLow, ExposeDelay, Capture,
                CaptureTimeout, ReportExpose, ServeMove
  <1>2. CASE Kill
    BY <1>2 DEF Kill
  <1>3. CASE \/ \E p \in Producers : Enqueue(p) \/ \E r \in Requests : Call(p, r)
             \/ RequestStop \/ Join \/ UNCHANGED vars
    BY <1>3 DEF Enqueue, Enter, LoadFlags, StoreFlags, PostMessage, PostWakeup,
                Leave, Call, RequestStop, Join, vars
  <1> QED BY <1>1, <1>2, <1>3 DEF Next

\* Every step keeps the types; what is posted and served has been restricted by
\* PostsOnly and ServesExposure.
LEMMA TypeInductive ==
    ASSUME TypeOK, PostsOnly, ServesExposure, [Next]_vars
    PROVE  TypeOK'
  <1> USE DEF TypeOK, Requests
  <1>1. ASSUME NEW p \in Producers, Enqueue(p)
        PROVE  TypeOK'
    <2>1. CASE Enter(p)
      BY <2>1 DEF Enter
    <2>2. CASE LoadFlags(p)
      BY <2>2 DEF LoadFlags
    <2>3. CASE StoreFlags(p)
      BY <2>3 DEF StoreFlags
    <2>4. CASE PostMessage(p)
      <3>1. posting[p] \in Requests
        BY <2>4 DEF PostMessage, PostsOnly
      <3>2. low' \in Seq(Exposures) /\ high' \in Seq(Moves \cup {Terminate})
        <4>1. CASE posting[p] \in Exposures
          <5>1. Append(low, posting[p]) \in Seq(Exposures)
            BY <4>1, Posted
          <5> QED BY <2>4, <4>1, <5>1 DEF PostMessage
        <4>2. CASE posting[p] \notin Exposures
          <5>1. posting[p] \in Moves \cup {Terminate}
            BY <3>1, <4>2
          <5>2. Append(high, posting[p]) \in Seq(Moves \cup {Terminate})
            BY <5>1, Posted
          <5> QED BY <2>4, <4>2, <5>2 DEF PostMessage
        <4> QED BY <4>1, <4>2
      <3> QED BY <2>4, <3>2 DEF PostMessage
    <2>5. CASE PostWakeup(p)
      BY <2>5 DEF PostWakeup
    <2>6. CASE Leave(p)
      BY <2>6 DEF Leave
    <2> QED BY <1>1, <2>1, <2>2, <2>3, <2>4, <2>5, <2>6 DEF Enqueue
  <1>2. ASSUME NEW p \in Producers, NEW r \in Requests, Call(p, r)
        PROVE  TypeOK'
    BY <1>2 DEF Call
  <1>3. CASE RequestStop
    BY <1>3 DEF RequestStop, INT
  <1>4. CASE Join \/ Kill
    <2>1. <<>> \in Seq(Exposures) /\ <<>> \in Seq(Moves \cup {Terminate})
      BY Emptied
    <2>2. CASE Join
      BY <2>1, <2>2 DEF Join, Delete
    <2>3. CASE Kill
      BY <2>1, <2>3 DEF Kill, Delete
    <2> QED BY <1>4, <2>2, <2>3
  <1>5. CASE Worker
    <2>1. CASE Wake
      BY <2>1 DEF Wake
    <2>2. CASE ReceiveHigh
      <3>1. high # <<>> => /\ Head(high) \in Moves \cup {Terminate}
                           /\ Tail(high) \in Seq(Moves \cup {Terminate})
        BY Received
      <3> QED BY <2>2, <3>1 DEF ReceiveHigh
    <2>3. CASE ReceiveLow
      <3>1. Head(low) \in Exposures /\ Tail(low) \in Seq(Exposures)
        BY <2>3, Received DEF ReceiveLow
      <3> QED BY <2>3, <3>1 DEF ReceiveLow
    <2>4. CASE ExposeDelay \/ Capture
      BY <2>4 DEF ExposeDelay, Capture
    <2> DEFINE Event == [kind : {"reconnect", "expose", "move"},
                         req : Exposures \cup Moves]
    <2>5. CASE CaptureTimeout
      <3>1. [kind |-> "reconnect", req |-> msg] \in Event
        BY <2>5 DEF CaptureTimeout, ServesExposure
      <3>2. events' \in Seq(Event)
        BY <2>5, <3>1, Posted DEF CaptureTimeout
      <3> QED BY <2>5, <3>2 DEF CaptureTimeout
    <2>6. CASE ReportExpose
      <3>1. [kind |-> "expose", req |-> msg] \in Event
        BY <2>6 DEF ReportExpose, ServesExposure
      <3>2. Append(events, [kind |-> "expose", req |-> msg]) \in Seq(Event)
        BY <3>1, Posted
      <3> QED BY <2>6, <3>2 DEF ReportExpose
    <2>7. CASE ServeMove
      <3>1. [kind |-> "move", req |-> msg] \in Event
        BY <2>7 DEF ServeMove
      <3>2. events' \in Seq(Event)
        BY <2>7, <3>1, Posted DEF ServeMove
      <3> QED BY <2>7, <3>2 DEF ServeMove
    <2> QED BY <1>5, <2>1, <2>2, <2>3, <2>4, <2>5, <2>6, <2>7 DEF Worker
  <1>6. CASE UNCHANGED vars
    BY <1>6 DEF vars
  <1> QED BY <1>1, <1>2, <1>3, <1>4, <1>5, <1>6 DEF Next

\* A worker that was just started has the types.
LEMMA InitTypes == Init => TypeOK /\ PostsOnly /\ ServesExposure
  <1> SUFFICES ASSUME Init PROVE TypeOK /\ PostsOnly /\ ServesExposure
    OBVIOUS
  <1>1. TypeOK
    <2>1. /\ <<>> \in Seq(Exposures) /\ <<>> \in Seq(Moves \cup {Terminate})
          /\ <<>> \in Seq([kind : {"reconnect", "expose", "move"},
                           req : Exposures \cup Moves])
      BY Emptied
    <2> QED BY <2>1 DEF Init, TypeOK
  <1>2. PostsOnly /\ ServesExposure
    BY DEF Init, PostsOnly, ServesExposure
  <1> QED BY <1>1, <1>2

\* The variables keep their types, for any requests and any workers that post.
THEOREM TypeCorrect == Spec => []TypeOK
  <1> DEFINE Inv == TypeOK /\ PostsOnly /\ ServesExposure
  <1>1. Init => Inv
    BY InitTypes
  <1>2. Inv /\ [Next]_vars => Inv'
    BY TypeInductive, PostsOnlyInductive, ServesExposureInductive
  <1>3. Inv => TypeOK
    OBVIOUS
  <1> QED BY <1>1, <1>2, <1>3, PTL DEF Spec

-------------------------------------------------------------------------------
(* The critical section.                                                   *)

\* Enter needs it free, Leave, Join and Kill give it back, and everything in
\* between is done by its holder.
LEMMA OneHolderInductive ==
    ASSUME TypeOK, PostsOnly, OneHolder, [Next]_vars
    PROVE  OneHolder'
  <1> USE DEF TypeOK, OneHolder, Held
  <1>1. ASSUME NEW p \in Producers, Enqueue(p)
        PROVE  OneHolder'
    <2>1. /\ \A q \in Producers : q # None
          /\ Main \in Producers /\ Terminate \notin Moves \cup {None}
      BY WorkerAssumption DEF Producers
    <2>2. CASE Enter(p)
      <3>1. CASE lock = None
        BY <2>1, <2>2, <3>1 DEF Enter
      <3>2. CASE p = Main /\ stopping
        BY <2>1, <2>2, <3>2 DEF Enter
      <3> QED BY <2>2, <3>1, <3>2 DEF Enter
    <2>3. CASE LoadFlags(p) \/ StoreFlags(p) \/ PostMessage(p) \/ PostWakeup(p)
      BY <2>3 DEF LoadFlags, StoreFlags, PostMessage, PostWakeup
    <2>4. CASE Leave(p)
      <3>1. lock = p /\ ppc' = [ppc EXCEPT ![p] = "idle"]
        BY <2>4 DEF Leave
      <3>2. \A q \in Producers : ppc'[q] \notin Held
        BY <2>1, <3>1
      <3>3. stopping' => p = Main
        <4>1. CASE posting[p] = Terminate
          BY <2>1, <4>1 DEF PostsOnly
        <4>2. CASE posting[p] # Terminate
          BY <2>4, <3>1, <4>2 DEF Leave
        <4> QED BY <4>1, <4>2
      <3> QED BY <2>4, <3>1, <3>2, <3>3 DEF Leave
    <2> QED BY <1>1, <2>2, <2>3, <2>4 DEF Enqueue
  <1>2. ASSUME NEW p \in Producers, NEW r \in Requests, Call(p, r)
        PROVE  OneHolder'
    BY <1>2 DEF Call
  <1>3. CASE Join \/ Kill
    <2>1. \A q \in Producers : q # None
      BY WorkerAssumption DEF Producers
    <2>2. Main \in Producers
      BY DEF Producers
    <2> QED BY <1>3, <2>1, <2>2 DEF Join, Kill, Delete
  <1>4. CASE RequestStop \/ Worker \/ UNCHANGED vars
    BY <1>4 DEF RequestStop, Worker, Wake, ReceiveHigh, ReceiveLow, ExposeDelay,
                Capture, CaptureTimeout, ReportExpose, ServeMove, vars
  <1> QED BY <1>1, <1>2, <1>3, <1>4 DEF Next

-------------------------------------------------------------------------------
(* Messages and wake-ups.                                                  *)

\* Each step that adds or takes a message or a wake-up is matched; what the
\* worker does in between changes neither.
LEMMA WakeupsMatchInductive ==
    ASSUME TypeOK, PostsOnly, OneHolder, WakeupsMatch, [Next]_vars
    PROVE  WakeupsMatch'
  <1> DEFINE posted == IF \E p \in Producers : ppc[p] = "posted" THEN 1 ELSE 0
             received == IF wpc \in {"awake", "missed"} THEN 1 ELSE 0
  <1>a. Alive => Len(high) + Len(low) = wakeup + posted + received
    BY DEF WakeupsMatch
  <1>b. Len(high) \in Nat /\ Len(low) \in Nat /\ wakeup \in Nat
    BY Emptied DEF TypeOK
  <1>c. posted \in Nat
    OBVIOUS
  <1> SUFFICES ASSUME Alive'
               PROVE  Len(high') + Len(low') = wakeup' + posted' + received'
    BY DEF WakeupsMatch
  <1>1. ASSUME NEW p \in Producers, Enqueue(p)
        PROVE  Len(high') + Len(low') = wakeup' + posted' + received'
    <2>0. Alive /\ received' = received
      BY <1>1 DEF Enqueue, Enter, LoadFlags, StoreFlags, PostMessage, PostWakeup,
                  Leave, Alive
    <2>1. CASE Enter(p) \/ LoadFlags(p) \/ StoreFlags(p) \/ Leave(p)
      <3>1. posted' = posted
        BY <2>1 DEF Enter, LoadFlags, StoreFlags, Leave, TypeOK
      <3>2. UNCHANGED qvars
        BY <2>1 DEF Enter, LoadFlags, StoreFlags, Leave, qvars
      <3> QED BY <1>a, <2>0, <3>1, <3>2 DEF qvars
    <2>2. CASE PostMessage(p)
      <3>1. posted = 0 /\ posted' = 1
        <4>1. \A q \in Producers : q # p => ppc[q] # "posted"
          BY <2>2 DEF PostMessage, OneHolder, Held
        <4>2. ppc[p] # "posted" /\ ppc'[p] = "posted"
          BY <2>2 DEF PostMessage, TypeOK
        <4> QED BY <4>1, <4>2
      <3>2. wakeup' = wakeup
        BY <2>2 DEF PostMessage
      <3>3. Len(high') + Len(low') = Len(high) + Len(low) + 1
        <4>1. CASE posting[p] \in Exposures
          <5>1. Len(Append(low, posting[p])) = Len(low) + 1
            BY <4>1, Posted DEF TypeOK
          <5> QED BY <1>b, <2>2, <4>1, <5>1 DEF PostMessage
        <4>2. CASE posting[p] \notin Exposures
          <5>1. posting[p] \in Moves \cup {Terminate}
            BY <2>2, <4>2 DEF PostMessage, PostsOnly, TypeOK, Requests
          <5>2. Len(Append(high, posting[p])) = Len(high) + 1
            BY <5>1, Posted DEF TypeOK
          <5> QED BY <1>b, <2>2, <4>2, <5>2 DEF PostMessage
        <4> QED BY <4>1, <4>2
      <3> QED BY <1>a, <1>b, <2>0, <3>1, <3>2, <3>3
    <2>3. CASE PostWakeup(p)
      <3>1. posted = 1
        BY <2>3 DEF PostWakeup
      <3>2. posted' = 0
        BY <2>3 DEF PostWakeup, OneHolder, Held, TypeOK
      <3>3. UNCHANGED <<high, low>> /\ wakeup' = wakeup + 1
        BY <2>3 DEF PostWakeup
      <3> QED BY <1>a, <1>b, <2>0, <3>1, <3>2, <3>3
    <2> QED BY <1>1, <2>1, <2>2, <2>3 DEF Enqueue
  <1>2. ASSUME NEW p \in Producers, NEW r \in Requests, Call(p, r)
        PROVE  Len(high') + Len(low') = wakeup' + posted' + received'
    <2>1. posted' = posted
      BY <1>2 DEF Call, TypeOK
    <2>2. received' = received /\ Alive /\ UNCHANGED qvars
      BY <1>2 DEF Call, Alive, qvars
    <2> QED BY <1>a, <2>1, <2>2 DEF qvars
  <1>3. CASE Join \/ Kill
    BY <1>3 DEF Join, Kill, Alive
  <1>4. CASE Worker
    <2>0. posted' = posted /\ Alive
      BY <1>4 DEF Worker, Wake, ReceiveHigh, ReceiveLow, ExposeDelay, Capture,
                  CaptureTimeout, ReportExpose, ServeMove, Alive
    <2>1. CASE Wake
      <3>1. received = 0 /\ received' = 1
        BY <2>1 DEF Wake
      <3>2. UNCHANGED <<high, low>> /\ wakeup' = wakeup - 1
        BY <2>1 DEF Wake
      <3> QED BY <1>a, <1>b, <2>0, <3>1, <3>2
    <2>2. CASE ReceiveHigh
      <3>1. CASE high = <<>>
        BY <1>a, <2>0, <2>2, <3>1 DEF ReceiveHigh
      <3>2. CASE high # <<>>
        <4>1. received = 1 /\ received' = 0
          BY <2>2, <3>2 DEF ReceiveHigh
        <4>2. Len(Tail(high)) = Len(high) - 1
          BY <3>2, Received DEF TypeOK
        <4>3. /\ Len(low') = Len(low) /\ wakeup' = wakeup
              /\ Len(high') = Len(high) - 1
          BY <2>2, <3>2, <4>2 DEF ReceiveHigh
        <4>4. Len(high) + Len(low) = wakeup + posted + 1
          BY <1>a, <2>0, <4>1
        <4> HIDE DEF posted, received
        <4> QED BY <1>b, <1>c, <2>0, <4>1, <4>3, <4>4
      <3> QED BY <3>1, <3>2
    <2>3. CASE ReceiveLow
      <3>1. received = 1 /\ received' = 0
        BY <2>3 DEF ReceiveLow
      <3>2. Len(Tail(low)) = Len(low) - 1
        BY <2>3, Received DEF ReceiveLow, TypeOK
      <3>3. /\ Len(high') = Len(high) /\ wakeup' = wakeup
            /\ Len(low') = Len(low) - 1
        BY <2>3, <3>2 DEF ReceiveLow
      <3>4. Len(high) + Len(low) = wakeup + posted + 1
        BY <1>a, <2>0, <3>1
      <3> HIDE DEF posted, received
      <3> QED BY <1>b, <1>c, <2>0, <3>1, <3>3, <3>4
    <2>4. CASE ExposeDelay \/ Capture \/ CaptureTimeout \/ ReportExpose \/ ServeMove
      <3>1. received' = received /\ UNCHANGED qvars
        BY <2>4 DEF ExposeDelay, Capture, CaptureTimeout, ReportExpose, ServeMove,
                    qvars
      <3> QED BY <1>a, <2>0, <3>1 DEF qvars
    <2> QED BY <1>4, <2>1, <2>2, <2>3, <2>4 DEF Worker
  <1>5. CASE RequestStop \/ UNCHANGED vars
    BY <1>a, <1>5 DEF RequestStop, vars, Alive
  <1> QED BY <1>1, <1>2, <1>3, <1>4, <1>5 DEF Next

\* The worker goes on to the low-priority queue with the wake-up of a message
\* that is not in the high-priority queue.
LEMMA MissedInductive ==
    ASSUME TypeOK, WakeupsMatch, wpc = "missed" => low # <<>>, [Next]_vars
    PROVE  (wpc = "missed" => low # <<>>)'
  <1> SUFFICES ASSUME wpc' = "missed" PROVE low' # <<>>
    OBVIOUS
  <1>1. ASSUME NEW p \in Producers, PostMessage(p)
        PROVE  low' # <<>>
    <2>1. low # <<>>
      BY <1>1 DEF PostMessage
    <2>2. Len(low) > 0
      BY <2>1, Emptied DEF TypeOK
    <2>3. CASE posting[p] \in Exposures
      <3>1. Append(low, posting[p]) \in Seq(Exposures)
        BY <2>3, Posted DEF TypeOK
      <3>2. Len(Append(low, posting[p])) = Len(low) + 1
        BY <2>3, Posted DEF TypeOK
      <3>3. Append(low, posting[p]) # <<>>
        BY <2>2, <3>1, <3>2, Emptied
      <3> QED BY <1>1, <2>3, <3>3 DEF PostMessage
    <2>4. CASE posting[p] \notin Exposures
      BY <1>1, <2>1, <2>4 DEF PostMessage
    <2> QED BY <2>3, <2>4
  <1>2. CASE ReceiveHigh
    <2>1. wpc = "awake" /\ high = <<>> /\ low' = low
      BY <1>2 DEF ReceiveHigh
    <2>2. Len(high) + Len(low) >= 1
      BY <2>1 DEF WakeupsMatch, Alive, TypeOK
    <2>3. Len(high) = 0 /\ Len(low) \in Nat /\ (low = <<>> <=> Len(low) = 0)
      BY <2>1, Emptied DEF TypeOK
    <2> QED BY <2>1, <2>2, <2>3
  <1>3. CASE \/ Wake \/ ReceiveLow \/ ExposeDelay \/ Capture \/ CaptureTimeout
             \/ ReportExpose \/ ServeMove
    BY <1>3 DEF Wake, ReceiveLow, ExposeDelay, Capture, CaptureTimeout,
                ReportExpose, ServeMove
  <1>4. CASE Join \/ Kill
    BY <1>4 DEF Join, Kill
  <1>5. CASE \/ RequestStop \/ UNCHANGED vars
             \/ \E p \in Producers : \/ Enter(p) \/ LoadFlags(p) \/ StoreFlags(p)
                                     \/ PostWakeup(p) \/ Leave(p)
                                     \/ \E r \in Requests : Call(p, r)
    BY <1>5 DEF RequestStop, vars, Enter, LoadFlags, StoreFlags, PostWakeup, Leave,
                Call
  <1> QED BY <1>1, <1>2, <1>3, <1>4, <1>5 DEF Next, Enqueue, Worker

-------------------------------------------------------------------------------
(* The interrupt flags.                                                    *)

\* While one producer has loaded the flags nobody else stores them, except for
\* RequestStop, which clears nothing.
LEMMA FlagsCurrentInductive ==
    ASSUME TypeOK, OneHolder, FlagsCurrent, [Next]_vars
    PROVE  FlagsCurrent'
  <1> USE DEF TypeOK, FlagsCurrent, INT
  <1>1. ASSUME NEW p \in Producers, Enqueue(p)
        PROVE  FlagsCurrent'
    <2>1. CASE Enter(p) \/ PostMessage(p) \/ PostWakeup(p) \/ Leave(p)
      BY <2>1 DEF Enter, PostMessage, PostWakeup, Leave
    <2>2. CASE LoadFlags(p)
      BY <2>2 DEF LoadFlags
    <2>3. CASE StoreFlags(p)
      <3>1. \A q \in Producers : ppc'[q] # "loaded"
        BY <2>3 DEF StoreFlags, OneHolder, Held
      <3> QED BY <3>1
    <2> QED BY <1>1, <2>1, <2>2, <2>3 DEF Enqueue
  <1>2. ASSUME NEW p \in Producers, NEW r \in Requests, Call(p, r)
        PROVE  FlagsCurrent'
    BY <1>2 DEF Call
  <1>3. CASE RequestStop
    BY <1>3 DEF RequestStop
  <1>4. CASE Join \/ Kill
    BY <1>4 DEF Join, Kill, Delete
  <1>5. CASE Worker \/ UNCHANGED vars
    BY <1>5 DEF Worker, Wake, ReceiveHigh, ReceiveLow, ExposeDelay, Capture,
                CaptureTimeout, ReportExpose, ServeMove, vars
  <1> QED BY <1>1, <1>2, <1>3, <1>4, <1>5 DEF Next

-------------------------------------------------------------------------------
(* The theorems.                                                           *)

\* A worker that was just started has nothing queued, posted or received.
LEMMA InitQueueInv == Init => TypeOK /\ QueueInv
  <1> SUFFICES ASSUME Init PROVE QueueInv
    BY InitTypes
  <1>1. OneHolder /\ FlagsCurrent /\ PostsOnly /\ ServesExposure
    <2>1. \A p \in Producers : p # None
      BY WorkerAssumption DEF Producers
    <2> QED BY <2>1, InitTypes DEF Init, OneHolder, Held, FlagsCurrent
  <1>2. WakeupsMatch
    <2>1. Len(<<>>) = 0
      BY Emptied
    <2> QED BY <2>1 DEF Init, WakeupsMatch
  <1>3. wpc # "missed"
    BY DEF Init
  <1> QED BY <1>1, <1>2, <1>3 DEF QueueInv

\* The conjuncts, each kept by a lemma of its own, are inductive together.
LEMMA QueueInvInductive == TypeOK /\ QueueInv /\ [Next]_vars => (TypeOK /\ QueueInv)'
  BY TypeInductive, PostsOnlyInductive, ServesExposureInductive,
     OneHolderInductive, WakeupsMatchInductive, FlagsCurrentInductive,
     MissedInductive
  DEF QueueInv

\* The critical section, the match of messages and wake-ups and the freshness of
\* loaded flags hold throughout.
LEMMA QueueInvHolds == Spec => [](TypeOK /\ QueueInv)
  BY InitQueueInv, QueueInvInductive, PTL DEF Spec

\* The assertion of Entry(): after a wake-up there is a message to receive.
THEOREM WakeupHasMessageHolds == Spec => []WakeupHasMessage
  <1>1. TypeOK /\ QueueInv => WakeupHasMessage
    <2> SUFFICES ASSUME TypeOK, QueueInv PROVE WakeupHasMessage
      OBVIOUS
    <2>1. wpc = "awake" => high # <<>> \/ low # <<>>
      <3> SUFFICES ASSUME wpc = "awake" PROVE high # <<>> \/ low # <<>>
        OBVIOUS
      <3>1. Len(high) + Len(low) >= 1
        BY DEF QueueInv, WakeupsMatch, Alive, TypeOK
      <3> QED BY <3>1, Emptied DEF TypeOK
    <2> QED BY <2>1 DEF WakeupHasMessage, QueueInv
  <1> QED BY <1>1, QueueInvHolds, PTL

\* A termination is not forgotten: the only step that could clear its flag
\* stores what a producer loaded, and that was loaded after the termination.
THEOREM TerminateSticksHolds == Spec => TerminateSticks
  <1>1. TypeOK /\ QueueInv /\ [Next]_vars
          => ["TERMINATE" \in interrupt => "TERMINATE" \in interrupt']_interrupt
    <2> SUFFICES ASSUME TypeOK, QueueInv, [Next]_vars,
                        "TERMINATE" \in interrupt, interrupt' # interrupt
                 PROVE  "TERMINATE" \in interrupt'
      OBVIOUS
    <2>1. ASSUME NEW p \in Producers, Enqueue(p)
          PROVE  "TERMINATE" \in interrupt'
      <3>1. StoreFlags(p)
        BY <2>1 DEF Enqueue, Enter, LoadFlags, PostMessage, PostWakeup, Leave
      <3> QED BY <3>1 DEF StoreFlags, QueueInv, FlagsCurrent
    <2>2. CASE RequestStop
      BY <2>2 DEF RequestStop
    <2>3. CASE \/ Join \/ Kill \/ Worker \/ UNCHANGED vars
               \/ \E p \in Producers, r \in Requests : Call(p, r)
      BY <2>3 DEF Join, Kill, Worker, Wake, ReceiveHigh, ReceiveLow, ExposeDelay,
                  Capture, CaptureTimeout, ReportExpose, ServeMove, Call, vars
    <2> QED BY <2>1, <2>2, <2>3 DEF Next
  <1> QED BY <1>1, QueueInvHolds, PTL DEF Spec, TerminateSticks
-------------------------------------------------------------------------------
(* Elements of sequences, and answers.                                     *)

Elements(q) == {q[i] : i \in DOMAIN q}

\* What is posted comes last, after the elements that were there.
LEMMA ElementsPosted ==
    ASSUME NEW S, NEW q \in Seq(S), NEW r \in S
    PROVE  /\ Elements(Append(q, r)) = Elements(q) \cup {r}
           /\ Injective(q) /\ r \notin Elements(q) => Injective(Append(q, r))
  <1>1. /\ DOMAIN q = 1..Len(q) /\ Len(q) \in Nat
        /\ DOMAIN Append(q, r) = 1..(Len(q) + 1)
    BY AppendProperties, LenProperties
  <1>2. /\ \A i \in 1..Len(q) : Append(q, r)[i] = q[i]
        /\ Append(q, r)[Len(q) + 1] = r
    BY AppendProperties
  <1>3. \A i \in DOMAIN Append(q, r) : i \in DOMAIN q \/ i = Len(q) + 1
    BY <1>1
  <1>4. DOMAIN q \subseteq DOMAIN Append(q, r) /\ Len(q) + 1 \in DOMAIN Append(q, r)
    BY <1>1
  <1>5. Elements(Append(q, r)) = Elements(q) \cup {r}
    BY <1>1, <1>2, <1>3, <1>4 DEF Elements
  <1>6. ASSUME Injective(q), r \notin Elements(q)
        PROVE  Injective(Append(q, r))
    BY <1>1, <1>2, <1>3, <1>6 DEF Injective, Elements
  <1> QED BY <1>5, <1>6

\* What is received came first, and is no longer there.
LEMMA ElementsReceived ==
    ASSUME NEW S, NEW q \in Seq(S), q # <<>>
    PROVE  /\ Head(q) \in Elements(q)
           /\ Elements(Tail(q)) \subseteq Elements(q)
           /\ Elements(q) = Elements(Tail(q)) \cup {Head(q)}
           /\ Injective(q) => Injective(Tail(q)) /\ Head(q) \notin Elements(Tail(q))
  <1>1. /\ DOMAIN q = 1..Len(q) /\ Len(q) \in Nat \ {0}
        /\ DOMAIN Tail(q) = 1..(Len(q) - 1)
    BY HeadTailProperties, LenProperties, EmptySeq
  <1>2. /\ \A i \in 1..(Len(q) - 1) : Tail(q)[i] = q[i + 1]
        /\ Head(q) = q[1]
    BY HeadTailProperties
  <1>3. Head(q) \in Elements(q)
    BY <1>1, <1>2 DEF Elements
  <1>4. Elements(Tail(q)) \subseteq Elements(q)
    BY <1>1, <1>2 DEF Elements
  <1>5. Elements(q) \subseteq Elements(Tail(q)) \cup {Head(q)}
    <2> SUFFICES ASSUME NEW i \in DOMAIN q, i # 1
                 PROVE  q[i] \in Elements(Tail(q))
      BY <1>2 DEF Elements
    <2>1. i - 1 \in DOMAIN Tail(q) /\ Tail(q)[i - 1] = q[i]
      BY <1>1, <1>2
    <2> QED BY <2>1 DEF Elements
  <1>6. ASSUME Injective(q)
        PROVE  Injective(Tail(q)) /\ Head(q) \notin Elements(Tail(q))
    <2>1. ASSUME NEW i \in DOMAIN Tail(q)
          PROVE  i + 1 \in DOMAIN q /\ Tail(q)[i] = q[i + 1] /\ i \in Nat /\ i # 0
      BY <1>1, <1>2
    <2>2. Injective(Tail(q))
      <3> SUFFICES ASSUME NEW i \in DOMAIN Tail(q), NEW j \in DOMAIN Tail(q),
                          Tail(q)[i] = Tail(q)[j]
                   PROVE  i = j
        BY DEF Injective
      <3>1. i + 1 = j + 1
        BY <1>6, <2>1 DEF Injective
      <3> QED BY <2>1, <3>1
    <2>3. Head(q) \notin Elements(Tail(q))
      <3> SUFFICES ASSUME NEW i \in DOMAIN Tail(q), Tail(q)[i] = Head(q)
                   PROVE  FALSE
        BY DEF Elements
      <3>1. i + 1 = 1
        BY <1>1, <1>2, <1>6, <2>1 DEF Injective
      <3> QED BY <2>1, <3>1
    <2> QED BY <2>2, <2>3
  <1> QED BY <1>3, <1>4, <1>5, <1>6

\* What is queued, in terms of the elements, and its type.
LEMMA QueuedElements == Queued = Elements(high) \cup Elements(low)
  BY DEF Queued, Elements

LEMMA QueuedRequests ==
    ASSUME TypeOK
    PROVE  /\ Elements(high) \subseteq Moves \cup {Terminate}
           /\ Elements(low) \subseteq Exposures
           /\ None \notin Queued /\ None \notin Requests
  <1>1. Elements(high) \subseteq Moves \cup {Terminate}
    BY LenProperties, ElementOfSeq DEF Elements, TypeOK
  <1>2. Elements(low) \subseteq Exposures
    BY LenProperties, ElementOfSeq DEF Elements, TypeOK
  <1> QED BY <1>1, <1>2, QueuedElements, WorkerAssumption DEF Requests

\* An event is one more answer for the request it names, and for no other.
LEMMA Answered ==
    ASSUME TypeOK, NEW k \in {"reconnect", "expose", "move"},
           NEW m \in Exposures \cup Moves,
           events' = Append(events, [kind |-> k, req |-> m])
    PROVE  /\ Len(events') = Len(events) + 1
           /\ \A r : Answers(r)' = IF r = m THEN Answers(r) \cup {Len(events) + 1}
                                   ELSE Answers(r)
  <1> DEFINE Event == [kind : {"reconnect", "expose", "move"},
                       req : Exposures \cup Moves]
             e == [kind |-> k, req |-> m]
  <1>1. events \in Seq(Event) /\ e \in Event /\ e.req = m
    BY DEF TypeOK
  <1> HIDE DEF Event, e
  <1>2. events' = Append(events, e)
    BY DEF e
  <1>3. /\ DOMAIN events = 1..Len(events) /\ Len(events) \in Nat
        /\ DOMAIN events' = 1..(Len(events) + 1)
        /\ Len(events') = Len(events) + 1
        /\ \A i \in 1..Len(events) : events'[i] = events[i]
        /\ events'[Len(events) + 1] = e
    BY <1>1, <1>2, AppendProperties, LenProperties
  <1>4. \A i : i \in 1..(Len(events) + 1) <=> i \in 1..Len(events) \/ i = Len(events) + 1
    BY <1>3
  <1>5. ASSUME NEW r
        PROVE  Answers(r)' = IF r = m THEN Answers(r) \cup {Len(events) + 1}
                             ELSE Answers(r)
    BY <1>1, <1>3, <1>4 DEF Answers
  <1> QED BY <1>3, <1>5

\* Only exposures and moves are answered.
LEMMA AnsweredRequests ==
    ASSUME TypeOK
    PROVE  /\ DOMAIN events = 1..Len(events) /\ Len(events) \in Nat
           /\ \A r : r \notin Exposures \cup Moves => Answers(r) = {}
  <1> DEFINE Event == [kind : {"reconnect", "expose", "move"},
                       req : Exposures \cup Moves]
  <1>1. events \in Seq(Event)
    BY DEF TypeOK
  <1>2. DOMAIN events = 1..Len(events) /\ Len(events) \in Nat
    BY <1>1, LenProperties
  <1>3. \A i \in DOMAIN events : events[i] \in Event
    BY <1>1, <1>2, ElementOfSeq
  <1> QED BY <1>2, <1>3 DEF Answers

\* A first answer repeats no other.
LEMMA EventsStayInjective ==
    ASSUME TypeOK, NEW k \in {"reconnect", "expose", "move"},
           NEW m \in Exposures \cup Moves, Answers(m) = {},
           \A i, j \in DOMAIN events : events[i].req = events[j].req => i = j,
           events' = Append(events, [kind |-> k, req |-> m])
    PROVE  \A i, j \in DOMAIN events' : events'[i].req = events'[j].req => i = j
  <1>1. ASSUME NEW i \in DOMAIN events', NEW j \in DOMAIN events', NEW r,
               events'[i].req = r, events'[j].req = r
        PROVE  i = j
    <2>1. i \in Answers(r)' /\ j \in Answers(r)'
      BY <1>1 DEF Answers
    <2>2. CASE r = m
      BY <2>1, <2>2, Answered
    <2>3. CASE r # m
      BY <2>1, <2>3, Answered DEF Answers
    <2> QED BY <2>2, <2>3
  <1> QED BY <1>1

-------------------------------------------------------------------------------
(* The worker and its message.                                             *)

\* Every step of the worker keeps its place and its message together, and a
\* capture that times out is the only one that defers a report.
LEMMA ServesMessageInductive ==
    ASSUME TypeOK, ServesMessage, [Next]_vars
    PROVE  ServesMessage'
  <1> USE DEF ServesMessage
  <1>1. None \notin Exposures \cup Moves \cup {Terminate}
    BY WorkerAssumption
  <1>2. CASE ReceiveHigh
    <2>1. high # <<>> => Head(high) \in Moves \cup {Terminate}
      BY Received DEF TypeOK
    <2> QED BY <1>1, <1>2, <2>1 DEF ReceiveHigh
  <1>3. CASE ReceiveLow
    <2>1. Head(low) \in Exposures
      BY <1>3, Received DEF TypeOK, ReceiveLow
    <2> QED BY <1>1, <1>3, <2>1 DEF ReceiveLow
  <1>4. CASE \/ Wake \/ ExposeDelay \/ Capture \/ CaptureTimeout \/ ReportExpose
             \/ ServeMove
    BY <1>1, <1>4 DEF Wake, ExposeDelay, Capture, CaptureTimeout, ReportExpose, ServeMove
  <1>5. CASE Join \/ Kill
    BY <1>5 DEF Join, Kill
  <1>6. CASE \/ RequestStop \/ UNCHANGED vars
             \/ \E p \in Producers : Enqueue(p) \/ \E r \in Requests : Call(p, r)
    BY <1>6 DEF RequestStop, vars, Enqueue, Enter, LoadFlags, StoreFlags, PostMessage,
                PostWakeup, Leave, Call
  <1> QED BY <1>2, <1>3, <1>4, <1>5, <1>6 DEF Next, Worker

-------------------------------------------------------------------------------
(* Every request is in at most one place.                                  *)

\* Steps that move no request, among them those of a call other than its post.
LEMMA OnePlaceQuiet ==
    ASSUME OnePlace, UNCHANGED <<posting, high, low, msg, skip, events>>,
           \A p \in Producers : Unposted(p)' => Unposted(p)
    PROVE  OnePlace'
  BY DEF OnePlace, Injective, Queued, Answers

\* A call uses a request that no earlier call has used.
LEMMA OnePlaceCall ==
    ASSUME TypeOK, PostsOnly, OnePlace,
           NEW p \in Producers, NEW r \in Requests, Call(p, r)
    PROVE  OnePlace'
  <1>1. /\ posting' = [posting EXCEPT ![p] = r] /\ ppc' = [ppc EXCEPT ![p] = "calling"]
        /\ UNCHANGED <<high, low, msg, skip, events>>
    BY DEF Call
  <1>2. /\ r \notin Queued /\ r # msg /\ Answers(r) = {}
        /\ \A q \in Producers : posting[q] # r
    BY DEF Call, Fresh
  <1>3. /\ \A q \in Producers : posting'[q] = IF q = p THEN r ELSE posting[q]
        /\ \A q \in Producers : ppc'[q] = IF q = p THEN "calling" ELSE ppc[q]
    BY <1>1 DEF TypeOK
  <1>4. Queued' = Queued /\ \A s : Answers(s)' = Answers(s)
    BY <1>1 DEF Queued, Answers
  <1>5. ASSUME NEW q \in Producers, Unposted(q)'
        PROVE  /\ posting'[q] \notin Queued /\ posting'[q] # msg
               /\ Answers(posting'[q]) = {}
    BY <1>2, <1>3, <1>5 DEF Unposted, OnePlace
  <1>6. \A q, s \in Producers : posting'[q] # None /\ posting'[q] = posting'[s] => q = s
    BY <1>2, <1>3 DEF OnePlace
  <1> QED BY <1>1, <1>4, <1>5, <1>6 DEF OnePlace, Injective

\* Posting moves a request from its producer to the end of a queue.
LEMMA OnePlacePost ==
    ASSUME TypeOK, PostsOnly, OnePlace, NEW p \in Producers, PostMessage(p)
    PROVE  OnePlace'
  <1> DEFINE r == posting[p]
  <1>1. /\ UNCHANGED <<posting, msg, skip, events>>
        /\ \A q \in Producers : ppc'[q] = IF q = p THEN "posted" ELSE ppc[q]
    BY DEF PostMessage, TypeOK
  <1>2. Unposted(p) /\ r \in Requests /\ r # None
    BY WorkerAssumption DEF PostMessage, Unposted, PostsOnly, TypeOK, Requests
  <1>3. r \notin Elements(high) /\ r \notin Elements(low) /\ r # msg /\ Answers(r) = {}
    BY <1>2, QueuedElements DEF OnePlace
  <1>4. Injective(high') /\ Injective(low') /\ Queued' = Queued \cup {r}
    <2>1. CASE r \in Exposures
      <3>1. low' = Append(low, r) /\ high' = high
        BY <2>1 DEF PostMessage
      <3>2. Elements(low') = Elements(low) \cup {r} /\ Injective(low')
        BY <1>3, <2>1, <3>1, ElementsPosted DEF TypeOK, OnePlace
      <3> QED BY <3>1, <3>2, QueuedElements DEF OnePlace, Elements, Queued
    <2>2. CASE r \notin Exposures
      <3>1. high' = Append(high, r) /\ low' = low
        BY <2>2 DEF PostMessage
      <3>2. r \in Moves \cup {Terminate}
        BY <1>2, <2>2 DEF Requests
      <3>3. Elements(high') = Elements(high) \cup {r} /\ Injective(high')
        BY <1>3, <3>1, <3>2, ElementsPosted DEF TypeOK, OnePlace
      <3> QED BY <3>1, <3>3, QueuedElements DEF OnePlace, Elements, Queued
    <2> QED BY <2>1, <2>2
  <1>5. \A s : Answers(s)' = Answers(s)
    BY <1>1 DEF Answers
  <1>6. ASSUME NEW q \in Producers, Unposted(q)'
        PROVE  /\ posting'[q] \notin Queued' /\ posting'[q] # msg'
               /\ Answers(posting'[q]) = {}
    <2>1. q # p /\ Unposted(q)
      BY <1>1, <1>6 DEF Unposted
    <2>2. posting[q] # r
      BY <1>2, <2>1 DEF OnePlace
    <2> QED BY <1>1, <1>4, <2>1, <2>2 DEF OnePlace
  <1>7. \A s \in Queued' : s # msg' /\ Answers(s)' = {}
    BY <1>1, <1>3, <1>4, <1>5 DEF OnePlace
  <1> QED BY <1>1, <1>4, <1>5, <1>6, <1>7 DEF OnePlace

\* Leaving the critical section, the producer forgets the request it has posted.
LEMMA OnePlaceLeave ==
    ASSUME TypeOK, OnePlace, NEW p \in Producers, Leave(p)
    PROVE  OnePlace'
  <1>1. /\ UNCHANGED <<high, low, msg, skip, events>>
        /\ \A q \in Producers : /\ posting'[q] = IF q = p THEN None ELSE posting[q]
                                /\ ppc'[q] = IF q = p THEN "idle" ELSE ppc[q]
    BY DEF Leave, TypeOK
  <1>2. Queued' = Queued /\ \A s : Answers(s)' = Answers(s)
    BY <1>1 DEF Queued, Answers
  <1>3. ASSUME NEW q \in Producers, Unposted(q)'
        PROVE  /\ posting'[q] \notin Queued /\ posting'[q] # msg
               /\ Answers(posting'[q]) = {}
    BY <1>1, <1>3 DEF Unposted, OnePlace
  <1>4. \A q, s \in Producers : posting'[q] # None /\ posting'[q] = posting'[s] => q = s
    BY <1>1 DEF OnePlace
  <1> QED BY <1>1, <1>2, <1>3, <1>4 DEF OnePlace, Injective

\* The worker receives the oldest request of a queue, or that is a termination.
LEMMA OnePlaceReceive ==
    ASSUME TypeOK, ServesMessage, OnePlace, ReceiveHigh \/ ReceiveLow
    PROVE  OnePlace'
  <1> DEFINE taken == IF wpc = "missed" THEN Head(low) ELSE Head(high)
  <1>1. CASE high = <<>> /\ wpc = "awake"
    <2>1. /\ UNCHANGED <<posting, high, low, msg, skip, events, ppc>>
      BY <1>1 DEF ReceiveHigh, ReceiveLow
    <2> QED BY <2>1, OnePlaceQuiet DEF Unposted
  <1>2. CASE ~(high = <<>> /\ wpc = "awake")
    <2>1. /\ UNCHANGED <<posting, ppc, skip, events>> /\ ~skip
          /\ msg' = IF taken = Terminate THEN msg ELSE taken
      <3>1. Terminate \notin Exposures
        BY WorkerAssumption
      <3>2. wpc = "missed" => Head(low) \in Exposures
        BY <1>2, Received DEF TypeOK, ReceiveHigh, ReceiveLow
      <3> QED BY <1>2, <3>1, <3>2 DEF ReceiveHigh, ReceiveLow, ServesMessage
    <2>2. /\ Injective(high') /\ Injective(low') /\ taken \in Queued
          /\ Queued' \subseteq Queued /\ taken \notin Queued'
      <3>1. CASE wpc = "awake"
        <4>1. high # <<>> /\ high' = Tail(high) /\ low' = low
          BY <1>2, <3>1 DEF ReceiveHigh, ReceiveLow
        <4>2. /\ Head(high) \in Elements(high) /\ Injective(high')
              /\ Elements(high') \subseteq Elements(high)
              /\ Head(high) \notin Elements(high')
              /\ Head(high) \in Moves \cup {Terminate}
          BY <4>1, ElementsReceived, Received DEF TypeOK, OnePlace
        <4>3. Head(high) \notin Elements(low)
          BY <4>2, QueuedRequests, WorkerAssumption
        <4>4. Queued' = Elements(high') \cup Elements(low)
          BY <4>1 DEF Queued, Elements
        <4> QED BY <3>1, <4>1, <4>2, <4>3, <4>4, QueuedElements DEF OnePlace
      <3>2. CASE wpc = "missed"
        <4>1. low # <<>> /\ low' = Tail(low) /\ high' = high
          BY <3>2 DEF ReceiveHigh, ReceiveLow
        <4>2. /\ Head(low) \in Elements(low) /\ Injective(low')
              /\ Elements(low') \subseteq Elements(low)
              /\ Head(low) \notin Elements(low')
              /\ Head(low) \in Exposures
          BY <4>1, ElementsReceived, Received DEF TypeOK, OnePlace
        <4>3. Head(low) \notin Elements(high)
          BY <4>2, QueuedRequests, WorkerAssumption
        <4>4. Queued' = Elements(high) \cup Elements(low')
          BY <4>1 DEF Queued, Elements
        <4> QED BY <3>2, <4>1, <4>2, <4>3, <4>4, QueuedElements DEF OnePlace
      <3> QED BY <3>1, <3>2 DEF ReceiveHigh, ReceiveLow
    <2> HIDE DEF taken
    <2>3. \A s : Answers(s)' = Answers(s)
      BY <2>1 DEF Answers
    <2>4. msg' # None => Answers(msg') = {}
      BY <2>1, <2>2 DEF OnePlace
    <2>5. ASSUME NEW q \in Producers, Unposted(q)'
          PROVE  /\ posting'[q] \notin Queued' /\ posting'[q] # msg'
                 /\ Answers(posting'[q]) = {}
      <3>1. Unposted(q) /\ posting'[q] = posting[q]
        BY <2>1, <2>5 DEF Unposted
      <3> QED BY <2>1, <2>2, <3>1 DEF OnePlace
    <2>6. \A s \in Queued' : s # msg' /\ Answers(s) = {}
      BY <2>1, <2>2 DEF OnePlace
    <2> QED BY <2>1, <2>2, <2>3, <2>4, <2>5, <2>6 DEF OnePlace
  <1> QED BY <1>1, <1>2

\* A reconnection stands for the completion of an exposure: its report is deferred,
\* and the worker keeps the message until then.
LEMMA OnePlaceTimeout ==
    ASSUME TypeOK, ServesMessage, ServesExposure, OnePlace, CaptureTimeout
    PROVE  OnePlace'
  <1>1. /\ msg \in Exposures /\ msg # None /\ ~skip /\ skip'
        /\ events' = Append(events, [kind |-> "reconnect", req |-> msg])
        /\ UNCHANGED <<posting, ppc, high, low, msg>>
    BY WorkerAssumption DEF CaptureTimeout, ServesExposure, ServesMessage
  <1>2. Answers(msg) = {}
    BY <1>1 DEF OnePlace
  <1>3. /\ Len(events') = Len(events) + 1
        /\ \A s : Answers(s)' = IF s = msg THEN Answers(s) \cup {Len(events) + 1}
                                ELSE Answers(s)
    BY <1>1, Answered
  <1>4. \A i, j \in DOMAIN events' : events'[i].req = events'[j].req => i = j
    BY <1>1, <1>2, EventsStayInjective DEF OnePlace
  <1>5. Queued' = Queued
    BY <1>1 DEF Queued
  <1>6. Answers(msg)' = {Len(events')}
    BY <1>1, <1>2, <1>3
  <1>7. ASSUME NEW q \in Producers, Unposted(q)'
        PROVE  /\ posting'[q] \notin Queued /\ posting'[q] # msg
               /\ Answers(posting[q])' = {}
    BY <1>1, <1>3, <1>7 DEF Unposted, OnePlace
  <1>8. \A s \in Queued : s # msg /\ Answers(s)' = {}
    BY <1>3 DEF OnePlace
  <1> QED BY <1>1, <1>4, <1>5, <1>6, <1>7, <1>8 DEF OnePlace, Injective

\* The worker answers its message, or has deferred that, and waits for the next one.
LEMMA OnePlaceAnswer ==
    ASSUME TypeOK, PostsOnly, ServesMessage, ServesExposure, OnePlace,
           ReportExpose \/ ServeMove
    PROVE  OnePlace'
  <1>1. /\ msg \in Exposures \cup Moves /\ msg # None /\ msg' = None /\ ~skip'
        /\ UNCHANGED <<posting, ppc, high, low>>
    BY WorkerAssumption DEF ReportExpose, ServeMove, ServesExposure, ServesMessage, TypeOK
  <1>2. Queued' = Queued /\ None \notin Queued
    BY <1>1, QueuedRequests DEF Queued
  <1>3. \A q \in Producers :
           Unposted(q)' => /\ posting'[q] = posting[q] /\ posting[q] # None
                           /\ posting[q] # msg /\ posting[q] \notin Queued
                           /\ Answers(posting[q]) = {}
    BY <1>1 DEF OnePlace, Unposted, PostsOnly
  <1>4. \A s \in Queued : s # msg /\ s # None /\ Answers(s) = {}
    BY <1>2 DEF OnePlace
  <1>5. CASE skip
    <2>1. events' = events
      BY <1>5 DEF ReportExpose, ServeMove, ServesMessage
    <2>2. \A s : Answers(s)' = Answers(s)
      BY <2>1 DEF Answers
    <2> QED BY <1>1, <1>2, <1>3, <1>4, <2>1, <2>2 DEF OnePlace, Injective
  <1>6. CASE ~skip
    <2>1. PICK k \in {"expose", "move"} :
             events' = Append(events, [kind |-> k, req |-> msg])
      BY <1>6 DEF ReportExpose, ServeMove
    <2>2. Answers(msg) = {}
      BY <1>1, <1>6 DEF OnePlace
    <2>3. \A s : Answers(s)' = IF s = msg THEN Answers(s) \cup {Len(events) + 1}
                               ELSE Answers(s)
      BY <1>1, <2>1, Answered
    <2>4. \A i, j \in DOMAIN events' : events'[i].req = events'[j].req => i = j
      BY <1>1, <2>1, <2>2, EventsStayInjective DEF OnePlace
    <2>5. /\ \A q \in Producers : Unposted(q)' => Answers(posting[q])' = {}
          /\ \A s \in Queued : Answers(s)' = {}
      BY <1>3, <1>4, <2>3
    <2> QED BY <1>1, <1>2, <1>3, <1>4, <2>4, <2>5 DEF OnePlace, Injective
  <1> QED BY <1>5, <1>6

\* With the thread its queues go away, and so does what it was doing.
LEMMA OnePlaceDelete ==
    ASSUME TypeOK, PostsOnly, ServesMessage, OnePlace, Join \/ Kill
    PROVE  OnePlace'
  <1>1. /\ high' = <<>> /\ low' = <<>> /\ msg' = None /\ ~skip'
        /\ UNCHANGED <<posting, ppc, events>>
    BY DEF Join, Kill, Delete, ServesMessage, TypeOK
  <1>2. Queued' = {} /\ Injective(high') /\ Injective(low')
    BY <1>1 DEF Queued, Injective
  <1>3. \A s : Answers(s)' = Answers(s)
    BY <1>1 DEF Answers
  <1>4. \A q \in Producers :
           Unposted(q)' => posting[q] # None /\ Answers(posting[q]) = {}
    BY <1>1 DEF OnePlace, Unposted, PostsOnly
  <1> QED BY <1>1, <1>2, <1>3, <1>4 DEF OnePlace

\* No step brings a request to two places.
LEMMA OnePlaceInductive ==
    ASSUME TypeOK, PostsOnly, ServesExposure, ServesMessage, OnePlace, [Next]_vars
    PROVE  OnePlace'
  <1>1. CASE \E p \in Producers : \/ Enter(p) \/ LoadFlags(p) \/ StoreFlags(p)
                                  \/ PostWakeup(p)
    <2>1. /\ UNCHANGED <<posting, high, low, msg, skip, events>>
          /\ \A p \in Producers : Unposted(p)' => Unposted(p)
      BY <1>1 DEF Enter, LoadFlags, StoreFlags, PostWakeup, Unposted, TypeOK
    <2> QED BY <2>1, OnePlaceQuiet
  <1>2. CASE \/ RequestStop \/ Wake \/ ExposeDelay \/ Capture \/ UNCHANGED vars
    <2>1. UNCHANGED <<posting, ppc, high, low, msg, skip, events>>
      BY <1>2 DEF RequestStop, Wake, ExposeDelay, Capture, vars
    <2> QED BY <2>1, OnePlaceQuiet DEF Unposted
  <1> QED BY <1>1, <1>2, OnePlaceCall, OnePlacePost, OnePlaceLeave, OnePlaceReceive,
             OnePlaceTimeout, OnePlaceAnswer, OnePlaceDelete
          DEF Next, Enqueue, Worker

-------------------------------------------------------------------------------
(* The theorems.                                                           *)

\* A worker that was just started has no request and has answered none.
LEMMA InitInv == Init => WorkerInv
  <1> SUFFICES ASSUME Init PROVE ServesMessage /\ OnePlace
    BY InitQueueInv DEF WorkerInv
  <1>1. ServesMessage
    BY DEF Init, ServesMessage
  <1>2. OnePlace
    <2>1. Queued = {} /\ \A r : Answers(r) = {}
      BY DEF Init, Queued, Answers
    <2> QED BY <2>1 DEF Init, OnePlace, Injective, Unposted
  <1> QED BY <1>1, <1>2

\* The inductive invariant: queues and wake-ups, the worker's message, and the place
\* of every request.
LEMMA InvInductive == WorkerInv /\ [Next]_vars => WorkerInv'
  BY QueueInvInductive, ServesMessageInductive, OnePlaceInductive DEF WorkerInv, QueueInv

\* The invariant of the worker thread holds, for any requests and any producers.
THEOREM InvHolds == Spec => []WorkerInv
  BY InitInv, InvInductive, PTL DEF Spec

\* The frame gets at most one answer for a request, the completion or the
\* reconnection that stands for it, and none while the request is queued.
THEOREM AnsweredOnceHolds == Spec => []AnsweredOnce
  <1>1. WorkerInv => AnsweredOnce
    <2> SUFFICES ASSUME TypeOK, OnePlace, NEW r \in Requests
                 PROVE  /\ Cardinality(Answers(r)) <= 1
                        /\ r \in Queued => Answers(r) = {}
      BY DEF AnsweredOnce, WorkerInv
    <2>1. \A i, j \in Answers(r) : i = j
      BY DEF OnePlace, Answers
    <2>2. CASE Answers(r) = {}
      BY <2>2, FS_EmptySet
    <2>3. CASE Answers(r) # {}
      <3>1. PICK i \in Answers(r) : Answers(r) = {i}
        BY <2>1, <2>3
      <3>2. Cardinality(Answers(r)) = 1
        BY <3>1, FS_Singleton
      <3> QED BY <2>3, <3>2 DEF OnePlace
    <2> QED BY <2>2, <2>3
  <1> QED BY <1>1, InvHolds, PTL

\* A step of the worker hands on what it takes: to its message from a queue, and to
\* the frame from its message.
LEMMA WorkerKeeps ==
    ASSUME TypeOK, ServesMessage, ServesExposure, OnePlace, Worker, Alive',
           NEW r \in Exposures \cup Moves, Kept(r)
    PROVE  Kept(r)'
  <1>1. UNCHANGED <<ppc, posting>>
    BY DEF Worker, Wake, ReceiveHigh, ReceiveLow, ExposeDelay, Capture, CaptureTimeout,
           ReportExpose, ServeMove
  <1>2. CASE Wake \/ ExposeDelay \/ Capture
    <2>1. UNCHANGED <<high, low, msg, events>>
      BY <1>2 DEF Wake, ExposeDelay, Capture
    <2> QED BY <1>1, <2>1 DEF Kept, Unposted, Queued, Answers
  <1>3. CASE ReceiveHigh
    <2>1. msg = None /\ None \notin Exposures \cup Moves /\ r # Terminate
          /\ UNCHANGED <<low, events>>
      BY <1>3, WorkerAssumption DEF ReceiveHigh, ServesMessage
    <2>2. CASE high = <<>>
      BY <1>1, <1>3, <2>1, <2>2 DEF ReceiveHigh, Kept, Unposted, Queued, Answers
    <2>3. CASE high # <<>>
      <3>1. high' = Tail(high) /\ msg' = Head(high)
        BY <1>3, <2>3 DEF ReceiveHigh, Alive
      <3>2. Elements(high) = Elements(Tail(high)) \cup {Head(high)}
        BY <2>3, ElementsReceived DEF TypeOK
      <3>3. r \in Queued => r \in Queued' \/ r = msg'
        BY <2>1, <3>1, <3>2, QueuedElements DEF Elements, Queued
      <3> QED BY <1>1, <2>1, <3>3 DEF Kept, Unposted, Answers
    <2> QED BY <2>2, <2>3
  <1>4. CASE ReceiveLow
    <2>1. /\ msg = None /\ None \notin Exposures \cup Moves
          /\ low # <<>> /\ low' = Tail(low) /\ msg' = Head(low) /\ UNCHANGED <<high, events>>
      BY <1>4, WorkerAssumption DEF ReceiveLow, ServesMessage
    <2>2. Elements(low) = Elements(Tail(low)) \cup {Head(low)}
      BY <2>1, ElementsReceived DEF TypeOK
    <2>3. r \in Queued => r \in Queued' \/ r = msg'
      BY <2>1, <2>2, QueuedElements DEF Elements, Queued
    <2> QED BY <1>1, <2>1, <2>3 DEF Kept, Unposted, Answers
  <1>5. CASE CaptureTimeout \/ (ReportExpose /\ ~skip) \/ ServeMove
    <2>1. /\ msg \in Exposures \cup Moves /\ UNCHANGED <<high, low>>
          /\ \E k \in {"reconnect", "expose", "move"} :
                events' = Append(events, [kind |-> k, req |-> msg])
      BY <1>5 DEF CaptureTimeout, ReportExpose, ServeMove, ServesExposure
    <2>2. Answers(r)' # {} <=> Answers(r) # {} \/ r = msg
      BY <2>1, Answered
    <2> QED BY <1>1, <2>1, <2>2 DEF Kept, Unposted, Queued
  <1>6. CASE ReportExpose /\ skip
    <2>1. /\ msg # None /\ Answers(msg) # {} /\ UNCHANGED <<high, low, events>>
      BY <1>6 DEF ReportExpose, ServesMessage, OnePlace
    <2> QED BY <1>1, <2>1 DEF Kept, Unposted, Queued, Answers
  <1> QED BY <1>2, <1>3, <1>4, <1>5, <1>6 DEF Worker

\* So does a step of a producer: from the call to the queue.
LEMMA ProducerKeeps ==
    ASSUME TypeOK, PostsOnly, NEW p \in Producers,
           Enqueue(p) \/ \E q \in Requests : Call(p, q),
           NEW r \in Exposures \cup Moves, Kept(r)
    PROVE  Kept(r)'
  <1>1. UNCHANGED <<msg, events>>
    BY DEF Enqueue, Call, Enter, LoadFlags, StoreFlags, PostMessage, PostWakeup, Leave
  <1>2. CASE PostMessage(p)
    <2>1. /\ posting' = posting
          /\ \A o \in Producers \ {p} : ppc'[o] = ppc[o]
      BY <1>2 DEF PostMessage, TypeOK
    <2>2. Queued' = Queued \cup {posting[p]}
      <3>1. CASE posting[p] \in Exposures
        <4>1. low' = Append(low, posting[p]) /\ high' = high
          BY <1>2, <3>1 DEF PostMessage
        <4>2. Elements(Append(low, posting[p])) = Elements(low) \cup {posting[p]}
          BY <3>1, ElementsPosted DEF TypeOK
        <4> QED BY <4>1, <4>2 DEF Elements, Queued
      <3>2. CASE posting[p] \notin Exposures
        <4>1. posting[p] \in Moves \cup {Terminate}
          BY <1>2, <3>2 DEF PostMessage, TypeOK, PostsOnly, Requests
        <4>2. high' = Append(high, posting[p]) /\ low' = low
          BY <1>2, <3>2 DEF PostMessage
        <4>3. Elements(Append(high, posting[p])) = Elements(high) \cup {posting[p]}
          BY <4>1, ElementsPosted DEF TypeOK
        <4> QED BY <4>2, <4>3 DEF Elements, Queued
      <3> QED BY <3>1, <3>2
    <2> QED BY <1>1, <2>1, <2>2 DEF Kept, Unposted, Answers
  <1>3. CASE ~PostMessage(p)
    <2>1. /\ UNCHANGED <<high, low>>
          /\ \A o \in Producers : Unposted(o) => Unposted(o)' /\ posting'[o] = posting[o]
      BY <1>3 DEF Enqueue, Call, Enter, LoadFlags, StoreFlags, PostWakeup, Leave, Unposted,
                  TypeOK
    <2> QED BY <1>1, <2>1 DEF Kept, Queued, Answers
  <1> QED BY <1>2, <1>3

\* No request is lost while the thread lives: from the call on it is on its way to a
\* queue, in one, being served or answered, for any requests and any producers.
THEOREM NothingLostHolds == Spec => NothingLost
  <1> DEFINE Handed == Alive' => \A r \in Exposures \cup Moves : Kept(r) => Kept(r)'
  <1>1. ASSUME WorkerInv, Next PROVE Handed
    <2> SUFFICES ASSUME Alive', NEW r \in Exposures \cup Moves, Kept(r) PROVE Kept(r)'
      OBVIOUS
    <2>1. TypeOK /\ PostsOnly /\ ServesMessage /\ ServesExposure /\ OnePlace
      BY <1>1 DEF WorkerInv, QueueInv
    <2>2. CASE RequestStop
      BY <2>2 DEF RequestStop, Kept, Unposted, Queued, Answers
    <2>3. ~(Join \/ Kill)
      BY DEF Join, Kill, Alive
    <2> QED BY <1>1, <2>1, <2>2, <2>3, WorkerKeeps, ProducerKeeps DEF Next
  <1>2. WorkerInv /\ [Next]_vars => [Handed]_vars
    BY <1>1
  <1> QED BY <1>2, InvHolds, PTL DEF Spec, NothingLost

-------------------------------------------------------------------------------
(* The refinement of WorkQueue.                                            *)

\* The abstract low-priority queue, which an exposure leaves when the high-priority
\* one has been found empty, and the abstract set of answered requests.
lowBar == IF wpc = "missed" THEN Tail(low) ELSE low
answeredBar == {events[i].req : i \in DOMAIN events}

\* A request is answered in the abstract specification when there is an event for it.
LEMMA AnsweredBar == \A r : r \in answeredBar <=> Answers(r) # {}
  BY DEF answeredBar, Answers

\* A new event answers one more request.
LEMMA AnswersOneMore ==
    ASSUME TypeOK, NEW k \in {"reconnect", "expose", "move"},
           msg \in Exposures \cup Moves,
           events' = Append(events, [kind |-> k, req |-> msg])
    PROVE  answeredBar' = answeredBar \cup {msg}
  <1>1. \A r : Answers(r)' # {} <=> Answers(r) # {} \/ r = msg
    BY Answered
  <1>2. \A r : r \in answeredBar' <=> Answers(r)' # {}
    BY DEF answeredBar, Answers
  <1> QED BY <1>1, <1>2, AnsweredBar

\* Posting is a post, although the worker may be between its two receives.
LEMMA RefinesPost ==
    ASSUME TypeOK, WorkerInv, NEW p \in Producers, PostMessage(p)
    PROVE  WQ!Post(posting[p])
  <1> DEFINE r == posting[p]
  <1>1. /\ UNCHANGED <<wpc, msg, skip, events>>
        /\ wpc = "missed" => low # <<>>
        /\ r \in Requests
    BY WorkerAssumption
       DEF PostMessage, WorkerInv, QueueInv, PostsOnly, TypeOK, Requests
  <1>2. r \notin Queued /\ r # msg /\ Answers(r) = {}
    BY DEF WorkerInv, OnePlace, PostMessage, Unposted
  <1>3. low \in Seq(Exposures)
    BY DEF TypeOK
  <1>4. r \notin Elements(high) \cup Elements(lowBar) \cup answeredBar \cup {Open}
    <2>1. r \notin Elements(high) \cup Elements(low) \cup answeredBar \cup {None, msg}
      BY <1>1, <1>2, QueuedElements, QueuedRequests, AnsweredBar
    <2>2. low # <<>> => /\ Head(low) \in Elements(low)
                        /\ Elements(Tail(low)) \subseteq Elements(low)
      BY <1>3, ElementsReceived
    <2>3. CASE wpc = "missed"
      <3>1. lowBar = Tail(low) /\ Open = Head(low)
        BY <2>3 DEF lowBar, Open, Taken
      <3>2. Elements(lowBar) \subseteq Elements(low) /\ Open \in Elements(low)
        BY <1>1, <2>2, <2>3, <3>1
      <3> QED BY <2>1, <3>2
    <2>4. CASE wpc # "missed"
      <3>1. lowBar = low /\ Open \in {None, msg}
        BY <2>4 DEF lowBar, Open, Taken
      <3> QED BY <2>1, <3>1
    <2> QED BY <2>3, <2>4
  <1>5. /\ Open' = Open /\ answeredBar' = answeredBar /\ Alive' = Alive
        /\ IF r \in Exposures
           THEN lowBar' = Append(lowBar, r) /\ high' = high
           ELSE high' = Append(high, r) /\ lowBar' = lowBar
    <2>1. low # <<>> => /\ Head(Append(low, r)) = Head(low)
                        /\ Tail(Append(low, r)) = Append(Tail(low), r)
      <3> HIDE DEF r
      <3> QED BY <1>3, HeadTailAppend
    <2>2. answeredBar' = answeredBar /\ Alive' = Alive
      BY <1>1 DEF answeredBar, Alive
    <2>3. CASE r \in Exposures
      <3>1. low' = Append(low, r) /\ high' = high
        BY <2>3 DEF PostMessage
      <3> QED BY <1>1, <2>1, <2>2, <2>3, <3>1 DEF lowBar, Open, Taken
    <2>4. CASE r \notin Exposures
      <3>1. high' = Append(high, r) /\ low' = low
        BY <2>4 DEF PostMessage
      <3> QED BY <1>1, <2>2, <2>4, <3>1 DEF lowBar, Open, Taken
    <2> QED BY <2>3, <2>4
  <1> QED BY <1>1, <1>4, <1>5 DEF WQ!Post, WQ!Queued, Elements, lowBar, answeredBar


\* An attempt to receive with the high-priority queue empty takes the exposure that
\* the second receive returns.
LEMMA RefinesReceiveHigh ==
    ASSUME TypeOK, WorkerInv, ReceiveHigh
    PROVE  WQ!TakeHigh \/ WQ!TakeLow
  <1>1. /\ Open = None /\ Alive /\ lowBar = low
        /\ UNCHANGED <<low, events, skip>> /\ answeredBar' = answeredBar
    BY DEF ReceiveHigh, WorkerInv, ServesMessage, Open, Taken, Alive, lowBar,
           answeredBar
  <1>2. CASE high # <<>>
    <2>1. Head(high) \in Moves \cup {Terminate}
      BY <1>2, HeadTailProperties DEF TypeOK
    <2>2. high' = Tail(high) /\ lowBar' = low
      BY <1>1, <1>2 DEF ReceiveHigh, lowBar
    <2>3. IF Head(high) = Terminate
          THEN ~Alive' /\ Open' = None
          ELSE Alive' /\ Open' = Head(high)
      BY <1>1, <1>2, <2>1, WorkerAssumption
         DEF ReceiveHigh, WorkerInv, ServesMessage, Open, Taken, Alive
    <2> QED BY <1>1, <1>2, <2>2, <2>3 DEF WQ!TakeHigh, lowBar, answeredBar, Alive
  <1>3. CASE high = <<>>
    <2>1. low # <<>>
      <3>1. Len(high) + Len(low) >= 1
        BY <1>1 DEF WorkerInv, QueueInv, WakeupsMatch, ReceiveHigh, TypeOK
      <3> QED BY <1>3, <3>1, Emptied DEF TypeOK
    <2>2. wpc' = "missed" /\ high' = high /\ msg' = msg
      BY <1>3 DEF ReceiveHigh
    <2>3. lowBar' = Tail(low) /\ Open' = Head(low) /\ Alive'
      BY <1>1, <2>2 DEF lowBar, Open, Taken, Alive
    <2> QED BY <1>1, <1>3, <2>1, <2>2, <2>3 DEF WQ!TakeLow, lowBar, answeredBar
  <1> QED BY <1>2, <1>3

\* The event for a request is its answer: the reconnection that will stand for the
\* completion, the completion of an exposure, the completion of a move.
LEMMA RefinesAnswer ==
    ASSUME TypeOK, WorkerInv, CaptureTimeout \/ (ReportExpose /\ ~skip) \/ ServeMove
    PROVE  WQ!Answer
  <1>1. /\ Alive /\ Alive' /\ msg \in Exposures \cup Moves /\ Open = msg
        /\ Open' = None
        /\ UNCHANGED <<high, low>> /\ lowBar' = lowBar
    BY WorkerAssumption
       DEF CaptureTimeout, ReportExpose, ServeMove, WorkerInv, QueueInv, ServesExposure,
           ServesMessage, TypeOK, Open, Taken, Alive, lowBar
  <1>2. PICK k \in {"reconnect", "expose", "move"} :
           events' = Append(events, [kind |-> k, req |-> msg])
    BY DEF CaptureTimeout, ReportExpose, ServeMove
  <1>3. answeredBar' = answeredBar \cup {msg}
    BY <1>1, <1>2, AnswersOneMore
  <1>4. Open # None
    BY <1>1, WorkerAssumption
  <1> QED BY <1>1, <1>3, <1>4 DEF WQ!Answer, lowBar, answeredBar

\* The steps that the frame does not see.
Silent == \/ \E p \in Producers :
                \/ Enter(p) \/ LoadFlags(p) \/ StoreFlags(p) \/ PostWakeup(p) \/ Leave(p)
                \/ \E r \in Requests : Call(p, r)
          \/ RequestStop \/ Wake \/ ReceiveLow \/ ExposeDelay \/ Capture
          \/ ReportExpose /\ skip
          \/ UNCHANGED vars

LEMMA RefinesSilent ==
    ASSUME TypeOK, WorkerInv, Silent
    PROVE  UNCHANGED WQ!vars
  <1>1. CASE ReceiveLow
    <2>1. /\ lowBar' = lowBar /\ high' = high /\ answeredBar' = answeredBar
          /\ Alive /\ Alive'
      BY <1>1 DEF ReceiveLow, lowBar, answeredBar, Alive
    <2>2. Head(low) \in Exposures /\ Head(low) # None
      <3>1. low \in Seq(Exposures) /\ low # <<>>
        BY <1>1 DEF TypeOK, ReceiveLow
      <3> QED BY <3>1, HeadTailProperties, WorkerAssumption
    <2>3. Open = Head(low) /\ Open' = Head(low)
      BY <1>1, <2>2 DEF ReceiveLow, Open, Taken
    <2> QED BY <2>1, <2>3 DEF WQ!vars, lowBar, answeredBar
  <1>2. CASE ~ReceiveLow
    <2>1. /\ UNCHANGED <<high, low, events>> /\ lowBar' = lowBar
          /\ answeredBar' = answeredBar
      BY <1>2 DEF Silent, Enter, LoadFlags, StoreFlags, PostWakeup, Leave, Call,
                  RequestStop, Wake, ExposeDelay, Capture, ReportExpose, vars, lowBar,
                  answeredBar
    <2>2. Open' = Open /\ Alive' = Alive
      BY <1>2 DEF Silent, Enter, LoadFlags, StoreFlags, PostWakeup, Leave, Call,
                  RequestStop, Wake, ExposeDelay, Capture, ReportExpose, vars, Open,
                  Taken, Alive, WorkerInv, ServesMessage
    <2> QED BY <2>1, <2>2 DEF WQ!vars, lowBar, answeredBar
  <1> QED BY <1>1, <1>2

\* Every step of the worker and its producers is one of WorkQueue, or changes nothing
\* that WorkQueue has.
LEMMA RefinesNext ==
    ASSUME TypeOK, WorkerInv, [Next]_vars
    PROVE  [WQ!Next]_(WQ!vars)
  <1>1. ASSUME NEW p \in Producers, PostMessage(p) PROVE WQ!Next
    <2>1. posting[p] \in WQ!Requests
      BY <1>1 DEF PostMessage, WorkerInv, QueueInv, PostsOnly, TypeOK, Requests,
                  WQ!Requests
    <2> QED BY <1>1, <2>1, RefinesPost DEF WQ!Next
  <1>2. CASE Join
    <2>1. /\ ~Alive /\ ~Alive' /\ high' = <<>> /\ lowBar' = <<>> /\ Open' = Open
          /\ answeredBar' = answeredBar
      BY <1>2 DEF Join, Delete, Alive, lowBar, answeredBar, Open, Taken
    <2>2. WQ!Delete
      BY <2>1 DEF WQ!Delete, lowBar, answeredBar, Alive
    <2> QED BY <2>2 DEF WQ!Next
  <1>3. CASE Kill
    <2>1. /\ Alive /\ ~Alive' /\ high' = <<>> /\ lowBar' = <<>> /\ Open' = None
          /\ answeredBar' = answeredBar
      BY <1>3 DEF Kill, Delete, Alive, lowBar, answeredBar, Open, Taken
    <2>2. WQ!Kill
      BY <2>1 DEF WQ!Kill, lowBar, answeredBar, Alive
    <2> QED BY <2>2 DEF WQ!Next
  <1>4. CASE ReceiveHigh
    BY <1>4, RefinesReceiveHigh DEF WQ!Next
  <1>5. CASE CaptureTimeout \/ (ReportExpose /\ ~skip) \/ ServeMove
    BY <1>5, RefinesAnswer DEF WQ!Next
  <1>6. CASE Silent
    BY <1>6, RefinesSilent
  <1>7. \/ \E p \in Producers : PostMessage(p)
        \/ Join \/ Kill \/ ReceiveHigh \/ Silent
        \/ CaptureTimeout \/ (ReportExpose /\ ~skip) \/ ServeMove
    BY DEF Next, Enqueue, Worker, Silent
  <1> QED BY <1>1, <1>2, <1>3, <1>4, <1>5, <1>6, <1>7

\* A worker that was just started is an empty queue with nothing in service.
LEMMA RefinesInit == Init => WQ!Init
  BY DEF Init, WQ!Init, Open, Taken, Alive

\* The thread, with its wake-up queue, its critical section and the steps inside a
\* request, implements the two queues of WorkQueue.
THEOREM WorkQueueImplemented == Spec => ImplementsWorkQueue
  <1>1. WorkerInv /\ [Next]_vars => [WQ!Next]_(WQ!vars)
    BY RefinesNext DEF WorkerInv
  <1> QED BY <1>1, RefinesInit, InvHolds, PTL DEF Spec, ImplementsWorkQueue, WQ!Spec
===============================================================================
