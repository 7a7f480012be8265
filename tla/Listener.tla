------------------------------ MODULE Listener ------------------------------
(***************************************************************************)
(* The UDP input thread (core/src/relay.rs, listen).  It looks at stop_at, *)
(* waits at most 50 ms for a datagram, and accounts for the datagram in    *)
(* one critical section.  stop() may take the lock between the two.        *)
(*                                                                         *)
(* A datagram carries the address it came from, its length, and whether it *)
(* is a valid RFC 5424 message (framing::valid_message).                   *)
(***************************************************************************)
EXTENDS RelayState

CONSTANTS
  AnySource,      \* source_access.mode = any
  AllowList,      \* source_access.allowed_ips, as configured
  Datagrams,      \* the datagrams the network may deliver
  MaxDatagrams    \* bound on the number of datagrams received

ASSUME ListenerAssumption ==
  /\ AnySource \in BOOLEAN
  /\ AllowList \subseteq Address
  /\ Datagrams \subseteq [peer : Address, size : Nat, valid : BOOLEAN]
  /\ MaxDatagrams \in Nat

VARIABLE listener    \* "check", "recv", or "done" when the thread has ended

ListenerTypeOK == listener \in {"check", "recv", "done"}
ListenerInit == listener = "check"

\* The top of the loop.
StopObserved ==
  /\ listener = "check"
  /\ stopping
  /\ listener' = "done"
  /\ UNCHANGED state_vars

StartReceive ==
  /\ listener = "check"
  /\ ~ stopping
  /\ listener' = "recv"
  /\ UNCHANGED state_vars

\* WouldBlock, TimedOut or Interrupted.
ReceiveTimesOut ==
  /\ listener = "recv"
  /\ listener' = "check"
  /\ UNCHANGED state_vars

\* Any other socket error ends the relay: stop_at is set to now, whatever
\* deadline was there before.
ReceiveFails ==
  /\ listener = "recv"
  /\ listener_status' = "failed"
  /\ stop_at' = "due"
  /\ listener' = "done"
  /\ UNCHANGED <<counters, queue_vars, in_flight, dtls_status, running, source_vars>>

allowed_ips == {canonical_ip(ip) : ip \in AllowList}
Allowed(ip) == AnySource \/ ip \in allowed_ips

\* queue.max_messages or queue.max_bytes would be exceeded by n more bytes.
QueueFull(n) == Len(queue) >= MaxMessages \/ queue_bytes + n > MaxBytes

\* What every datagram does first: it is received, also for its source.
CountReceived(d) ==
  /\ listener = "recv"
  /\ messages_received < MaxDatagrams
  /\ messages_received' = messages_received + 1
  /\ SourceReceived(canonical_ip(d.peer))
  /\ listener' = "check"
  /\ UNCHANGED <<messages_forwarded, source_forwarded, in_flight,
                 listener_status, dtls_status, running, stop_at>>

\* A datagram that is not queued.  Its source has just been looked up: the row
\* counted is the one `received` may have added.
Refuse(d, reason) ==
  /\ CountReceived(d)
  /\ CountDrop(reason)
  /\ SourceDropped(canonical_ip(d.peer), tracked')
  /\ UNCHANGED queue_vars

\* Mutation: the race with stop() is not looked at again under the lock.
AdmittedByLoop(d) == Allowed(canonical_ip(d.peer))

\* The early returns of the critical section, in the code's order.
Admitted(d) == Allowed(canonical_ip(d.peer)) /\ ~ stopping
WellFormed(d) == d.size <= MaxMessageBytes /\ d.valid

RefuseSource(d) == ~ Allowed(canonical_ip(d.peer)) /\ Refuse(d, "source_denied")

\* stop() came between the check of the loop and this datagram.
RefuseStopping(d) ==
  Allowed(canonical_ip(d.peer)) /\ stopping /\ Refuse(d, "shutdown")

RefuseOversized(d) ==
  Admitted(d) /\ d.size > MaxMessageBytes /\ Refuse(d, "oversized")

RefuseInvalid(d) ==
  Admitted(d) /\ d.size <= MaxMessageBytes /\ ~ d.valid /\ Refuse(d, "invalid")

AsMessage(d) ==
  [id |-> messages_received + 1, source |-> canonical_ip(d.peer), size |-> d.size]

RefuseFull(d) ==
  Admitted(d) /\ WellFormed(d) /\ QueueFull(d.size) /\ Refuse(d, "queue_full")

\* Mutation: push_front.
PushedFront(d) == <<AsMessage(d)>> \o queue

\* push_back.
Pushed(d) == Append(queue, AsMessage(d))

Accept(d) ==
  /\ Admitted(d) /\ WellFormed(d) /\ ~ QueueFull(d.size)
  /\ CountReceived(d)
  /\ queue' = Pushed(d)
  /\ queue_bytes' = queue_bytes + d.size
  /\ queue_depth' = Len(queue')
  /\ UNCHANGED <<messages_dropped, drops, source_dropped>>

HandleDatagram(d) ==
  \/ RefuseSource(d) \/ RefuseStopping(d) \/ RefuseOversized(d)
  \/ RefuseInvalid(d) \/ RefuseFull(d) \/ Accept(d)

ListenerNext ==
  \/ StopObserved
  \/ StartReceive
  \/ ReceiveTimesOut
  \/ ReceiveFails
  \/ \E d \in Datagrams : HandleDatagram(d)
=============================================================================
