------------------------------ MODULE FifoRelay ------------------------------
(***************************************************************************)
(* What a relay promises, without threads, sessions or lookups: every      *)
(* datagram is refused at once or takes its place at the back of a bounded *)
(* queue; the collector gets the messages in that order, each of them at   *)
(* least once unless it is dropped; the head leaves the queue as forwarded *)
(* only after it left the host; once the relay closes nothing enters, and  *)
(* when it has closed nothing is left.                                     *)
(*                                                                         *)
(* A datagram is known by its number, 1 for the first one received.        *)
(***************************************************************************)
EXTENDS Naturals, Sequences

CONSTANT Capacity    \* bound of the queue

VARIABLES
  received, forwarded, dropped,   \* how many
  pending,                        \* the queued datagrams, oldest first
  delivered,                      \* those that left the host, in order
  phase                           \* "open", "closing", "closed"

vars == <<received, forwarded, dropped, pending, delivered, phase>>

Init ==
  /\ received = 0 /\ forwarded = 0 /\ dropped = 0
  /\ pending = <<>>
  /\ delivered = <<>>
  /\ phase = "open"

Accept ==
  /\ phase = "open"
  /\ Len(pending) < Capacity
  /\ received' = received + 1
  /\ pending' = Append(pending, received')
  /\ UNCHANGED <<forwarded, dropped, delivered, phase>>

\* Also after the relay has closed: the input ends a little later.
Refuse ==
  /\ received' = received + 1
  /\ dropped' = dropped + 1
  /\ UNCHANGED <<forwarded, pending, delivered, phase>>

\* The oldest datagram leaves the host for the first time.
Deliver ==
  /\ phase # "closed"
  /\ pending # <<>>
  /\ delivered' = Append(delivered, Head(pending))
  /\ \A i \in DOMAIN delivered : delivered[i] < Head(pending)
  /\ UNCHANGED <<received, forwarded, dropped, pending, phase>>

Forward ==
  /\ phase # "closed"
  /\ pending # <<>> /\ delivered # <<>>
  /\ delivered[Len(delivered)] = Head(pending)
  /\ pending' = Tail(pending)
  /\ forwarded' = forwarded + 1
  /\ UNCHANGED <<received, dropped, delivered, phase>>

\* The oldest datagram does not fit the session.
Discard ==
  /\ phase # "closed"
  /\ pending # <<>>
  /\ pending' = Tail(pending)
  /\ dropped' = dropped + 1
  /\ UNCHANGED <<received, forwarded, delivered, phase>>

Close ==
  /\ phase = "open"
  /\ phase' = "closing"
  /\ UNCHANGED <<received, forwarded, dropped, pending, delivered>>

Abandon ==
  /\ phase = "closing"
  /\ phase' = "closed"
  /\ dropped' = dropped + Len(pending)
  /\ pending' = <<>>
  /\ UNCHANGED <<received, forwarded, delivered>>

Next == Accept \/ Refuse \/ Deliver \/ Forward \/ Discard \/ Close \/ Abandon

Spec == Init /\ [][Next]_vars
=============================================================================
