------------------------------ MODULE WorkQueue ------------------------------
(***************************************************************************)
(* What a worker thread promises to the frame (src/src/server/             *)
(* worker_thread.hpp): requests are posted in one of two classes, the      *)
(* worker takes one at a time, an exposure only when no move and no        *)
(* termination is waiting, in the order of posting within a class, and     *)
(* answers each request it took exactly once.  The wake-up queue, the      *)
(* critical section and the steps inside a request are in WorkerThread,    *)
(* which implements this specification.                                    *)
(***************************************************************************)
EXTENDS Naturals, Sequences, FiniteSets

CONSTANTS Exposures,    \* the exposure requests that may be posted
          Moves,        \* the move requests that may be posted
          Terminate,    \* the request that ends the thread
          None          \* no request

Requests == Exposures \cup Moves \cup {Terminate}

VARIABLES high,      \* moves and the termination, first in first out
          low,       \* exposures, first in first out
          current,   \* the request being served, or None
          answered,  \* the requests the frame has had an answer for
          running    \* the thread has neither ended nor been killed

vars == <<high, low, current, answered, running>>

Queued == {high[i] : i \in DOMAIN high} \cup {low[i] : i \in DOMAIN low}

Init == /\ high = <<>> /\ low = <<>>
        /\ current = None
        /\ answered = {}
        /\ running = TRUE

Post(r) ==
    /\ r \notin Queued \cup answered \cup {current}
    /\ IF r \in Exposures
       THEN low' = Append(low, r) /\ UNCHANGED high
       ELSE high' = Append(high, r) /\ UNCHANGED low
    /\ UNCHANGED <<current, answered, running>>

TakeHigh ==
    /\ running /\ current = None
    /\ high # <<>>
    /\ high' = Tail(high)
    /\ IF Head(high) = Terminate
       THEN running' = FALSE /\ UNCHANGED current
       ELSE current' = Head(high) /\ UNCHANGED running
    /\ UNCHANGED <<low, answered>>

TakeLow ==
    /\ running /\ current = None
    /\ high = <<>> /\ low # <<>>
    /\ low' = Tail(low)
    /\ current' = Head(low)
    /\ UNCHANGED <<high, answered, running>>

Answer ==
    /\ running /\ current # None
    /\ answered' = answered \cup {current}
    /\ current' = None
    /\ UNCHANGED <<high, low, running>>

\* A thread that does not end in time is killed, with whatever it was doing.
Kill ==
    /\ running
    /\ running' = FALSE
    /\ current' = None
    /\ high' = <<>> /\ low' = <<>>
    /\ UNCHANGED answered

\* The queues of a thread that has ended go away with it.
Delete ==
    /\ ~running
    /\ high' = <<>> /\ low' = <<>>
    /\ UNCHANGED <<current, answered, running>>

Next == \/ \E r \in Requests : Post(r)
        \/ TakeHigh \/ TakeLow \/ Answer \/ Kill \/ Delete

Spec == Init /\ [][Next]_vars
=============================================================================
