------------------------------- MODULE Sender -------------------------------
(***************************************************************************)
(* The sender thread (core/src/relay.rs, send): it keeps one DTLS session, *)
(* writes the head of the queue to it, and pops the head only after the    *)
(* session took the whole frame.  The frame is built under the lock, sent  *)
(* without it, and the pop takes the lock again.  So are sessions made and *)
(* closed without the lock, and shown as made or lost in a critical        *)
(* section of its own.                                                     *)
(*                                                                         *)
(* Pauses are part of the step before them: they read the clock and        *)
(* stop_at and change nothing.  Back-off delays, jitter, retry_attempts    *)
(* and the choice of the address are left out, so an attempt may follow    *)
(* the previous one after any time.                                        *)
(*                                                                         *)
(* The session is the trait core/src/transport.rs: `mtu` is max_plaintext, *)
(* and `unfinished` is the frame that an earlier send left half written    *)
(* (WouldBlock); the OpenSSL implementation demands the same frame again   *)
(* and no read before it is written (dtls-openssl/src/lib.rs:288, 310).    *)
(*                                                                         *)
(* Two history variables stand for what the collector and a bystander      *)
(* see: `wire`, the ids that left the host in order, consecutive           *)
(* repetitions as one, and `late_writes`, the writes that took the whole   *)
(* frame after the drain deadline.                                         *)
(***************************************************************************)
EXTENDS RelayState, Resolver

CONSTANT Mtus      \* payload budgets a session may have

ASSUME MtusAssumption == Mtus \subseteq Nat \ {0}

VARIABLES
  sender,          \* program counter of the thread
  session,         \* Option<Box<dyn Session>>
  pending_frame,   \* Option<Vec<u8>>
  wire, late_writes

sender_locals == <<session, pending_frame>>
history_vars == <<wire, late_writes>>
sender_vars == <<sender, sender_locals, history_vars>>

Frame == [id : Nat, len : Nat]
NoFrame == [id |-> 0, len |-> 0]
frame(m) == [id |-> m.id, len |-> FrameLen(m.size)]

NoSession == [mtu |-> 0, unfinished |-> NoFrame]
NewSession(m) == [mtu |-> m, unfinished |-> NoFrame]

SenderSteps == {"unborn", "top", "connect", "lookup", "recv_lookup", "handshake",
                "connected", "failed", "poll", "write", "sent", "broken", "final",
                "drain", "done"}

SenderTypeOK ==
  /\ sender \in SenderSteps
  /\ session \in [mtu : Nat, unfinished : Frame]
  /\ pending_frame \in Frame
  /\ wire \in Seq(Nat)
  /\ late_writes \in Nat

SenderInit ==
  /\ sender = "unborn"
  /\ session = NoSession
  /\ pending_frame = NoFrame
  /\ wire = <<>>
  /\ late_writes = 0

\* Steps that leave the shared state alone, or all of it but dtls_status and
\* in_flight.
SharedUnchanged == UNCHANGED state_vars
SetStatus(status, flight) ==
  /\ dtls_status' = status
  /\ in_flight' = flight
  /\ UNCHANGED <<counters, queue_vars, listener_status, running, stop_at, source_vars>>

Goto(from, to) == sender = from /\ sender' = to

(***************************************************************************)
(* The top of the loop.                                                    *)
(***************************************************************************)
\* Mutation: the drain has no deadline.
LeaveWhenEmpty == stopping /\ queue = <<>>

MustLeave == stopping /\ (expired \/ queue = <<>>)

LeaveLoop ==
  /\ Goto("top", "final")
  /\ MustLeave
  /\ SharedUnchanged /\ UNCHANGED <<sender_locals, history_vars, resolver_vars>>

\* Mutation: the session is polled in every iteration.
PollFirst == IF session = NoSession THEN "connect" ELSE "poll"

\* Without a session one is made; with a frame pending nothing is polled.
FirstStep ==
  IF session = NoSession THEN "connect"
  ELSE IF pending_frame = NoFrame THEN "poll" ELSE "write"

EnterIteration ==
  /\ Goto("top", FirstStep)
  /\ ~ MustLeave
  /\ SharedUnchanged /\ UNCHANGED <<sender_locals, history_vars, resolver_vars>>

(***************************************************************************)
(* A connection attempt: resolve, then the connector.                      *)
(***************************************************************************)
BeginAttempt ==
  /\ Goto("connect", "lookup")
  /\ SetStatus("resolving", FALSE)
  /\ SpawnLookup
  /\ UNCHANGED <<sender_locals, history_vars>>

\* The thread of a new lookup could not be spawned.
SpawnFails ==
  /\ Goto("connect", "failed")
  /\ dns = "none"
  /\ SetStatus("resolving", FALSE)
  /\ UNCHANGED <<sender_locals, history_vars, resolver_vars>>

\* The loop of resolve: it looks at the clock, then waits up to 20 ms.
WaitForLookup ==
  /\ sender = "lookup"
  /\ sender' = IF expired THEN "failed" ELSE "recv_lookup"
  /\ SharedUnchanged /\ UNCHANGED <<sender_locals, history_vars, resolver_vars>>

LookupStillRuns ==
  /\ Goto("recv_lookup", "lookup")
  /\ dns = "waiting"
  /\ SharedUnchanged /\ UNCHANGED <<sender_locals, history_vars, resolver_vars>>

\* The attempt gives up; the channel stays for the next one.
LookupTimesOut ==
  /\ Goto("recv_lookup", "failed")
  /\ dns = "waiting"
  /\ SharedUnchanged /\ UNCHANGED <<sender_locals, history_vars, resolver_vars>>

LookupFailed ==
  /\ Goto("recv_lookup", "failed")
  /\ dns \in {"failed", "lost"}
  /\ dns' = "none"
  /\ SharedUnchanged /\ UNCHANGED <<sender_locals, history_vars, os_calls>>

LookupFound ==
  /\ Goto("recv_lookup", "handshake")
  /\ dns = "found"
  /\ dns' = "none"
  /\ SetStatus("handshaking", in_flight)
  /\ UNCHANGED <<sender_locals, history_vars, os_calls>>

\* The connector returns a session; the status follows under the lock.
HandshakeSucceeds(m) ==
  /\ Goto("handshake", "connected")
  /\ session' = NewSession(m)
  /\ SharedUnchanged /\ UNCHANGED <<pending_frame, history_vars, resolver_vars>>

ShowEstablished ==
  /\ Goto("connected", "poll")
  /\ pending_frame' = NoFrame
  /\ SetStatus("established", in_flight)
  /\ UNCHANGED <<session, history_vars, resolver_vars>>

\* Refused, timed out, or cancelled because the drain deadline passed.
HandshakeFails ==
  /\ Goto("handshake", "failed")
  /\ SharedUnchanged /\ UNCHANGED <<sender_locals, history_vars, resolver_vars>>

\* The Err arm of the attempt.
AttemptFailed ==
  /\ sender = "failed"
  /\ IF expired
       THEN sender' = "final" /\ SharedUnchanged
       ELSE sender' = "top" /\ SetStatus("retrying", in_flight)
  /\ UNCHANGED <<sender_locals, history_vars, resolver_vars>>

(***************************************************************************)
(* One iteration with a session.                                           *)
(***************************************************************************)
\* A failed poll or write gives the session up, without the lock, and retains
\* the message; what a snapshot shows follows in a step of its own.
DropSession ==
  /\ sender' = "broken"
  /\ session' = NoSession
  /\ pending_frame' = NoFrame
  /\ SharedUnchanged /\ UNCHANGED resolver_vars

\* Mutation: in_flight is left as it was.
TellStatusOnly ==
  /\ Goto("broken", "top")
  /\ SetStatus("retrying", in_flight)
  /\ UNCHANGED <<sender_locals, history_vars, resolver_vars>>

TellFailure ==
  /\ Goto("broken", "top")
  /\ SetStatus("retrying", FALSE)
  /\ UNCHANGED <<sender_locals, history_vars, resolver_vars>>

PollFails == sender = "poll" /\ DropSession /\ UNCHANGED history_vars

\* The poll succeeded, and nothing is to be sent now: the queue is empty or
\* the next send is not due.
Idle ==
  /\ Goto("poll", "top")
  /\ SharedUnchanged /\ UNCHANGED <<sender_locals, history_vars, resolver_vars>>

TakeFront ==
  /\ Goto("poll", "write")
  /\ queue # <<>>
  /\ FrameLen(Head(queue).size) <= session.mtu
  /\ pending_frame' = frame(Head(queue))
  /\ SetStatus(dtls_status, TRUE)
  /\ UNCHANGED <<session, history_vars, resolver_vars>>

\* Mutation: a head that does not fit waits for a session it fits.
KeepFront ==
  /\ Goto("poll", "top")
  /\ queue # <<>>
  /\ FrameLen(Head(queue).size) > session.mtu
  /\ SharedUnchanged /\ UNCHANGED <<sender_locals, history_vars, resolver_vars>>

DropFront ==
  /\ Goto("poll", "top")
  /\ queue # <<>>
  /\ FrameLen(Head(queue).size) > session.mtu
  /\ FinishOversized
  /\ UNCHANGED <<sender_locals, history_vars, resolver_vars>>

\* The frame reached the network; a repetition of the last one counts once.
OnWire ==
  wire' = IF wire # <<>> /\ wire[Len(wire)] = pending_frame.id
            THEN wire ELSE Append(wire, pending_frame.id)

\* Session::send refuses a frame above its budget; otherwise it may take it.
WriteSent ==
  /\ Goto("write", "sent")
  /\ pending_frame.len <= session.mtu
  /\ OnWire
  /\ late_writes' = IF expired THEN late_writes + 1 ELSE late_writes
  /\ session' = [session EXCEPT !.unfinished = NoFrame]
  /\ SharedUnchanged /\ UNCHANGED <<pending_frame, resolver_vars>>

\* Mutation: WouldBlock is taken for Sent.
WriteBlockedIsSent ==
  /\ Goto("write", "sent")
  /\ pending_frame.len <= session.mtu
  /\ session' = [session EXCEPT !.unfinished = pending_frame]
  /\ SharedUnchanged /\ UNCHANGED <<pending_frame, history_vars, resolver_vars>>

WriteBlocks ==
  /\ Goto("write", "top")
  /\ pending_frame.len <= session.mtu
  /\ session' = [session EXCEPT !.unfinished = pending_frame]
  /\ SharedUnchanged /\ UNCHANGED <<pending_frame, history_vars, resolver_vars>>

\* An error, or still blocked when the write has taken too long.  Whether the
\* message left the host is not known.
WriteFails ==
  /\ sender = "write"
  /\ OnWire \/ UNCHANGED wire
  /\ UNCHANGED late_writes
  /\ DropSession

\* The lock is taken again: the head of the queue is the message sent.
FinishSent ==
  /\ Goto("sent", "top")
  /\ FinishForwarded
  /\ pending_frame' = NoFrame
  /\ UNCHANGED <<session, history_vars, resolver_vars>>

(***************************************************************************)
(* After the loop: the session is closed without the lock, then what is    *)
(* left in the queue is dropped.                                           *)
(***************************************************************************)
CloseLast ==
  /\ Goto("final", "drain")
  /\ session' = NoSession
  /\ SharedUnchanged /\ UNCHANGED <<pending_frame, history_vars, resolver_vars>>

QueuedFrom(ip) == Cardinality({i \in DOMAIN queue : queue[i].source = ip})

ShutdownDrain ==
  /\ Goto("drain", "done")
  /\ messages_dropped' = messages_dropped + Len(queue)
  /\ drops' = [drops EXCEPT !["shutdown"] = @ + Len(queue)]
  /\ source_dropped' = [ip \in Address |->
        source_dropped[ip] + (IF ip \in tracked THEN QueuedFrom(ip) ELSE 0)]
  /\ queue' = <<>> /\ queue_depth' = 0 /\ queue_bytes' = 0
  /\ in_flight' = FALSE
  /\ dtls_status' = "stopped"
  /\ running' = FALSE
  /\ UNCHANGED <<messages_received, messages_forwarded, listener_status, stop_at,
                 tracked, source_received, source_forwarded, untracked_messages,
                 sender_locals, history_vars, resolver_vars>>

ConnectStep ==
  \/ BeginAttempt \/ SpawnFails \/ WaitForLookup \/ LookupStillRuns
  \/ LookupTimesOut \/ LookupFailed \/ LookupFound
  \/ (\E m \in Mtus : HandshakeSucceeds(m)) \/ ShowEstablished
  \/ HandshakeFails \/ AttemptFailed

SendStep ==
  \/ PollFails \/ Idle \/ TakeFront \/ DropFront
  \/ WriteSent \/ WriteBlocks \/ WriteFails \/ FinishSent \/ TellFailure

SenderNext ==
  LeaveLoop \/ EnterIteration \/ ConnectStep \/ SendStep \/ CloseLast \/ ShutdownDrain
=============================================================================
