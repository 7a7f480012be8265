----------------------------- MODULE RelayState -----------------------------
(***************************************************************************)
(* What the listener thread, the sender thread and the owner of a relay    *)
(* share behind one mutex (core/src/relay.rs, State), and the operations   *)
(* on it that more than one of them uses.  One critical section of the     *)
(* code is one step of the model.                                          *)
(*                                                                         *)
(* A message is a record of its reception number `id` (the value of        *)
(* messages_received when it arrived; the code does not number messages,   *)
(* the model does so that properties can name them), its source and its    *)
(* length in bytes.                                                        *)
(***************************************************************************)
EXTENDS Naturals, Sequences, Sources, Framing

CONSTANTS
  MaxMessageBytes,   \* listener.max_message_bytes
  MaxMessages,       \* queue.max_messages
  MaxBytes           \* queue.max_bytes

ASSUME LimitsAssumption ==
  /\ MaxMessageBytes \in Nat \ {0}
  /\ MaxMessages \in Nat \ {0}
  /\ MaxBytes \in Nat \ {0}

VARIABLES
  messages_received, messages_forwarded, messages_dropped,
  drops,             \* the same drops, counted by reason
  queue,             \* VecDeque<Message>
  queue_depth, queue_bytes,
  in_flight,         \* a frame of the head of the queue is being written
  listener_status, dtls_status, running,
  stop_at            \* "none", "armed" (still ahead) or "due" (now >= at)

counters == <<messages_received, messages_forwarded, messages_dropped, drops>>
queue_vars == <<queue, queue_depth, queue_bytes>>
state_vars == <<counters, queue_vars, in_flight, listener_status, dtls_status,
                running, stop_at, source_vars>>

Message == [id : Nat, source : Address, size : Nat]
DropReasons == {"source_denied", "shutdown", "oversized", "invalid", "queue_full"}
StopTimes == {"none", "armed", "due"}

StateTypeOK ==
  /\ messages_received \in Nat
  /\ messages_forwarded \in Nat
  /\ messages_dropped \in Nat
  /\ drops \in [DropReasons -> Nat]
  /\ queue \in Seq(Message)
  /\ queue_depth \in Nat
  /\ queue_bytes \in Nat
  /\ in_flight \in BOOLEAN
  /\ listener_status \in {"listening", "failed", "stopped"}
  /\ dtls_status \in {"resolving", "handshaking", "established", "retrying", "stopped"}
  /\ running \in BOOLEAN
  /\ stop_at \in StopTimes
  /\ SourcesTypeOK

\* The State that Relay::start creates.
StateInit ==
  /\ messages_received = 0
  /\ messages_forwarded = 0
  /\ messages_dropped = 0
  /\ drops = [reason \in DropReasons |-> 0]
  /\ queue = <<>>
  /\ queue_depth = 0
  /\ queue_bytes = 0
  /\ in_flight = FALSE
  /\ listener_status = "listening"
  /\ dtls_status = "resolving"
  /\ running = TRUE
  /\ stop_at = "none"
  /\ SourcesInit

stopping == stop_at # "none"      \* stop_at.is_some()
expired == stop_at = "due"        \* now >= stop_at

\* Mutation: a drop site that counts the reason only.
CountReasonOnly(reason) ==
  /\ drops' = [drops EXCEPT ![reason] = @ + 1]
  /\ UNCHANGED messages_dropped

\* A message counted as dropped for `reason`.
CountDrop(reason) ==
  /\ messages_dropped' = messages_dropped + 1
  /\ drops' = [drops EXCEPT ![reason] = @ + 1]

\* Mutation: the bytes of the message are not released.
PopNoBytes ==
  /\ queue' = Tail(queue)
  /\ queue_depth' = Len(queue')
  /\ UNCHANGED queue_bytes

\* The pop of finish_front and its effect on the queue gauges.  With an empty
\* queue the code still goes on to count, so the guard is inside.
PopFront ==
  LET popped == IF queue = <<>> THEN <<>> ELSE Tail(queue)
  IN  /\ queue' = popped
      /\ queue_depth' = Len(popped)
      /\ queue_bytes' = IF queue = <<>> THEN queue_bytes
                                        ELSE queue_bytes - Head(queue).size

\* finish_front(forwarded = true): the head of the queue has been handed over.
FinishForwarded ==
  /\ PopFront
  /\ IF queue = <<>> THEN UNCHANGED source_forwarded
                     ELSE SourceForwarded(Head(queue).source, tracked)
  /\ in_flight' = FALSE
  /\ messages_forwarded' = messages_forwarded + 1
  /\ UNCHANGED <<messages_received, messages_dropped, drops, listener_status,
                 dtls_status, running, stop_at, tracked, source_received,
                 source_dropped, untracked_messages>>

\* finish_front(forwarded = false): its frame exceeds the session's budget.
FinishOversized ==
  /\ PopFront
  /\ IF queue = <<>> THEN UNCHANGED source_dropped
                     ELSE SourceDropped(Head(queue).source, tracked)
  /\ in_flight' = FALSE
  /\ CountDrop("oversized")
  /\ UNCHANGED <<messages_received, messages_forwarded, listener_status,
                 dtls_status, running, stop_at, tracked, source_received,
                 source_forwarded, untracked_messages>>
=============================================================================
