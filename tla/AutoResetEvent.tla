--------------------------- MODULE AutoResetEvent ---------------------------
(***************************************************************************)
(* The event that Orbit's worker threads sleep on, of                      *)
(* external/multicore/common/autoresetevent.h.  An event is a record of    *)
(* its two fields: m_status is 1 when signaled, 0 when reset with nobody   *)
(* waiting and -N when N threads wait; m_sema counts the wake-ups handed   *)
(* to waiting threads and not yet taken.                                   *)
(*                                                                         *)
(* wait() is two steps, because the thread can be preempted between them:  *)
(* Arrive (the fetch_sub) and, when the status was not 1, Wake (the        *)
(* semaphore).  signal() is one step: the increment of the semaphore that  *)
(* follows its compare-exchange only delays the thread it wakes.           *)
(***************************************************************************)
EXTENDS Integers

\* The state of an event constructed with the default initialStatus.
NewEvent == [status |-> 0, sema |-> 0]

Events == [status : {i \in Int : i <= 1}, sema : Nat]

\* signal(): sticky at 1, and one wake-up when somebody waits.
Signal(e) ==
  [status |-> IF e.status < 1 THEN e.status + 1 ELSE 1,
   sema   |-> IF e.status < 0 THEN e.sema + 1 ELSE e.sema]

\* wait(), first step: the fetch_sub; the thread goes on to the semaphore
\* unless the event was signaled.
Signaled(e) == e.status = 1
Arrive(e)   == [e EXCEPT !.status = e.status - 1]

\* wait(), second step: the semaphore.
CanWake(e) == e.sema > 0
Wake(e)    == [e EXCEPT !.sema = e.sema - 1]

=============================================================================
