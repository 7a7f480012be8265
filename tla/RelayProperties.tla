--------------------------- MODULE RelayProperties ---------------------------
(***************************************************************************)
(* What must hold of a relay.  TypeOK is in Relay.                         *)
(***************************************************************************)
EXTENDS Relay, SequencesExt

\* "received = forwarded + dropped + queue_depth" (README.md, Counter
\* semantics), every drop has its reason, and the depth gauge is the depth, in
\* every state another thread can see, whoever was interrupted.
DropTotal == drops["source_denied"] + drops["shutdown"] + drops["oversized"]
             + drops["invalid"] + drops["queue_full"]

Accounting ==
  /\ messages_received = messages_forwarded + messages_dropped + queue_depth
  /\ messages_dropped = DropTotal
  /\ queue_depth = Len(queue)

\* The same law for every row of the source table; an address without a row
\* has no counts although its messages pass through the queue, and a host has
\* one row however its datagrams spell its address.
PerSourceAccounting ==
  \A ip \in Address :
    IF ip \in tracked
      THEN /\ source_received[ip] = source_forwarded[ip] + source_dropped[ip] + QueuedFrom(ip)
           /\ ~ ip.mapped
      ELSE source_received[ip] + source_forwarded[ip] + source_dropped[ip] = 0

\* The queue stays within both limits; the byte limit is compared with a gauge
\* that two threads add to and subtract from.
WithinLimits ==
  /\ Len(queue) <= MaxMessages
  /\ queue_bytes <= MaxBytes

\* That gauge never drifts: it is the sum over the messages in the queue.
ByteSum(q) == SumFunction([i \in DOMAIN q |-> q[i].size])
BytesExact == queue_bytes = ByteSum(queue)

\* Messages leave the host in the order of their reception, across sessions
\* and retries: first transmissions never go back.
Increasing(s) == \A i, j \in DOMAIN s : i < j => s[i] < s[j]
QueueIds == [i \in DOMAIN queue |-> queue[i].id]

Fifo ==
  /\ Increasing(wire)
  /\ Increasing(QueueIds)
  /\ wire # <<>> /\ queue # <<>> => wire[Len(wire)] <= Head(queue).id

\* The frame being written, and the one just sent without the lock, is that of
\* the head of the queue: the pop that follows removes the message that was
\* sent, although the listener pushed in between.
FrontIsInFlight ==
  /\ pending_frame # NoFrame /\ sender # "done" =>
       queue # <<>> /\ pending_frame = frame(Head(queue))
  /\ sender = "sent" => pending_frame # NoFrame /\ wire # <<>>
                        /\ wire[Len(wire)] = pending_frame.id

\* The collector gets what was received in the order of reception, and the
\* queue loses at its head what the collector got, over sessions and retries
\* and although two threads change the queue around a write without the lock.
InOrder == Fifo /\ FrontIsInFlight

\* The caller's side of the session (dtls-openssl/src/lib.rs:288 and 310): no
\* poll while a write is unfinished, an unfinished write is repeated with the
\* same frame, and no frame exceeds the budget of the session it is sent on.
RetryContract ==
  /\ sender = "poll" => session.unfinished = NoFrame
  /\ sender = "write" => /\ session # NoSession
                         /\ session.unfinished \in {NoFrame, pending_frame}
                         /\ pending_frame.len <= session.mtu

\* What a snapshot shows of the session.  Sessions are made and closed without
\* the lock, so it may run behind them, but by no more than the one critical
\* section the sender is about to enter: a session that is not yet shown was
\* made just now, one that is shown and gone was closed just now.
ShownSession ==
  /\ session # NoSession /\ dtls_status # "established" => sender = "connected"
  /\ session = NoSession /\ dtls_status = "established" => sender \in {"broken", "drain"}

\* A snapshot that says a message is in flight says that there is a session and
\* a message, whenever it is taken; and but for a session closed just now, it
\* says so exactly while the sender holds a frame.
ShownFlight ==
  /\ in_flight => dtls_status = "established" /\ queue # <<>>
  /\ sender \notin {"broken", "done"} => (in_flight <=> pending_frame # NoFrame)

\* The gauges of a status snapshot are coherent among themselves and with what
\* the sender holds, and `running` is false only when the sender has ended.
StatusCoherent ==
  /\ ShownSession
  /\ ShownFlight
  /\ running <=> sender # "done"
  /\ sender = "done" => ~ in_flight /\ dtls_status = "stopped"

\* After the sender's last drain the queue is empty and stays so: a datagram
\* that lost the race with stop() is counted as dropped, never queued for
\* nobody; so after stop() everything received is accounted for.
DrainedAtEnd ==
  /\ sender = "done" => stopping /\ queue = <<>> /\ queue_bytes = 0
  /\ owner = "stopped" => /\ listener = "done" /\ sender = "done"
                          /\ messages_received = messages_forwarded + messages_dropped

\* The drain deadline bounds delivery: at most the write that was on its way
\* completes after it.
AtMostOneLateWrite == late_writes <= 1

\* A stop cuts the input off at once and the output at the deadline, and leaves
\* nothing behind that was not counted, whichever thread it met where.
StopHonoured == DrainedAtEnd /\ AtMostOneLateWrite

\* "At most one OS DNS call is outstanding per relay" (relay.rs:243), though
\* attempts time out and are repeated while it hangs.
AtMostOneLookup == os_calls <= 1 /\ (os_calls = 1 <=> dns = "waiting")

\* A stop is never taken back, and stop() does not move a deadline that is
\* already set: in particular not the one of a failed listener.
StopIsFinal ==
  [][/\ stopping => stop_at' # "none"
     /\ expired => stop_at' = "due"]_vars

\* "stop never waits on OS DNS" (relay.rs:243), nor on the collector: with
\* only the threads scheduled and time passing, a relay that is told to stop,
\* or whose listener or start fails, ends.
StopCompletes ==
  /\ stopping ~> (sender = "done" \/ owner = "aborted")
  /\ owner = "join_listener" ~> owner = "stopped"

\* No message blocks the queue for ever when the network works again and
\* again: each one that was queued leaves it, whatever sessions fail and
\* however the budget of the sessions varies.  (A relay that failed to start
\* is given up with what its listener had queued; its status is never seen.)
Queued(id) == \E i \in DOMAIN queue : queue[i].id = id
NoneStuck ==
  NetworkFairness =>
    \A id \in 1..MaxDatagrams : Queued(id) ~> (~ Queued(id) \/ owner = "aborted")

\* The relay implements its abstract promise.  It has closed when its sender
\* has ended; until then it delivers from the queue.
Promise == INSTANCE FifoRelay WITH
  Capacity <- MaxMessages,
  received <- messages_received,
  forwarded <- messages_forwarded,
  dropped <- messages_dropped,
  pending <- QueueIds,
  delivered <- wire,
  phase <- IF ~ stopping THEN "open" ELSE IF sender = "done" THEN "closed" ELSE "closing"

ImplementsPromise == Promise!Spec

\* The sender, over any number of sessions that block and fail, calls them as
\* transport.rs and its implementation demand (the other side is DtlsSession).
Contract == INSTANCE Transport WITH
  Budgets <- Mtus, budget <- session.mtu, unfinished <- session.unfinished
KeepsContract == Contract!Spec
=============================================================================
