----------------------------- MODULE SendChannel -----------------------------
(***************************************************************************)
(* What TcpEntity promises to the threads that call Send: a packet that    *)
(* was sent may be lost, when the queue is flushed or no peer is there,    *)
(* but the others reach the socket once, the packets of a thread in the    *)
(* order it sent them, and nothing moves any more once Stop has returned.  *)
(***************************************************************************)
EXTENDS Integers, Sequences

CONSTANTS Producers, MaxSends

VARIABLES
  sent,      \* how many packets each producer has sent
  pending,   \* the packets on their way
  lost,      \* the packets that will not arrive
  wire,      \* what has been written to the socket, in order
  closed     \* Stop has returned

vars == <<sent, pending, lost, wire, closed>>

Init ==
  /\ sent = [p \in Producers |-> 0]
  /\ pending = {} /\ lost = {} /\ wire = <<>>
  /\ closed = FALSE

Older(k, m) == k[1] = m[1] /\ k[2] < m[2]

Submit(p) ==
  /\ sent[p] < MaxSends
  /\ sent' = [sent EXCEPT ![p] = sent[p] + 1]
  /\ pending' = pending \cup {<<p, sent[p] + 1>>}
  /\ UNCHANGED <<lost, wire, closed>>

Deliver(m) ==
  /\ ~closed
  /\ \A k \in pending : ~Older(k, m)
  /\ pending' = pending \ {m}
  /\ wire' = Append(wire, m)
  /\ UNCHANGED <<sent, lost, closed>>

Lose(S) ==
  /\ ~closed
  /\ pending' = pending \ S
  /\ lost' = lost \cup S
  /\ UNCHANGED <<sent, wire, closed>>

Close ==
  /\ ~closed /\ closed' = TRUE
  /\ UNCHANGED <<sent, pending, lost, wire>>

Next == \/ \E p \in Producers : Submit(p)
        \/ \E m \in pending : Deliver(m)
        \/ \E S \in SUBSET pending : Lose(S)
        \/ Close

Spec == Init /\ [][Next]_vars

=============================================================================
