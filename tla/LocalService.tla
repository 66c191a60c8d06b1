------------------------------ MODULE LocalService ------------------------------
(***************************************************************************)
(* What SajLocalClient promises the rest of the integration, with nothing  *)
(* of connections, locks or requests: its callers are served one at a time *)
(* in the order they came, and a session is retained only by a read that   *)
(* succeeded.  Module LocalClient implements it; module Integration takes  *)
(* each entry's local client to be it.                                     *)
(***************************************************************************)
EXTENDS Naturals, Sequences

CONSTANTS
  Readers,   \* calls that read
  Closers    \* calls that close the session

VARIABLES
  queue,     \* the calls under way in the order they came; the first is served
  retained,  \* a session is kept for the next call
  result     \* result of the last read, "running" while one is under way

vars == <<queue, retained, result>>

Callers == Readers \cup Closers

Init == queue = <<>> /\ ~retained /\ result = "not_started"

Calling(t) == \E i \in DOMAIN queue : queue[i] = t

Without(i) == SubSeq(queue, 1, i - 1) \o SubSeq(queue, i + 1, Len(queue))

First(callers) == queue # <<>> /\ Head(queue) \in callers

Leave == queue' = Tail(queue)

Call(t) ==
  /\ ~Calling(t)
  /\ queue' = Append(queue, t)
  /\ UNCHANGED <<retained, result>>

\* The read of the first caller starts.
Begin ==
  /\ First(Readers)
  /\ result' = "running"
  /\ UNCHANGED <<queue, retained>>

\* It gives values, and keeps its session or closes it.
Succeed ==
  /\ First(Readers)
  /\ Leave
  /\ retained' \in BOOLEAN
  /\ result' = "success"

\* It raises; no session survives that.
Fail ==
  /\ First(Readers)
  /\ Leave
  /\ ~retained'
  /\ result' = "temporarily_unavailable"

Close ==
  /\ First(Closers)
  /\ Leave
  /\ ~retained'
  /\ UNCHANGED result

\* A retained session is given up while the first caller is served.
GiveUp ==
  /\ First(Callers)
  /\ ~retained'
  /\ UNCHANGED <<queue, result>>

\* A cancelled read leaves the queue, and the session as it is.
Cancel ==
  /\ \E i \in DOMAIN queue : queue[i] \in Readers /\ queue' = Without(i)
  /\ UNCHANGED <<retained, result>>

Next ==
  \/ \E t \in Callers : Call(t)
  \/ Begin \/ Succeed \/ Fail \/ Close \/ GiveUp \/ Cancel

Spec == Init /\ [][Next]_vars
=============================================================================
