----------------------------- MODULE DtlsSession -----------------------------
(***************************************************************************)
(* The OpenSSL transport (dtls-openssl/src/lib.rs) and the part of the     *)
(* sender that uses it (core/src/relay.rs, send): the handshake loop with  *)
(* its deadline and cancellation, the writes that may block, and the end   *)
(* of a session.  OpenSSL and the peer are the choice among the results of *)
(* SSL_connect, SSL_read and SSL_write; the sockets never block.           *)
(*                                                                         *)
(* `elapsed` is the time since the handshake, or the current write, began. *)
(* It grows at any time, so a pause of 10 ms, or a thread that is not      *)
(* scheduled, may take any time.  When the sender tries again, and that it *)
(* leaves its loop after a cancellation, is in the modules Sender and      *)
(* Retry; here it may do another round.                                    *)
(***************************************************************************)
EXTENDS Naturals

CONSTANTS
  Timeout,       \* dtls.handshake_timeout_ms, in pauses of the loops
  DataMtus,      \* what DTLS_get_data_mtu may return
  MaxRecord,     \* 16384
  Frames         \* frames that the relay may want to send

ASSUME DtlsAssumption ==
  /\ Timeout \in Nat \ {0}
  /\ DataMtus \subseteq Nat
  /\ MaxRecord \in Nat \ {0}
  /\ Frames \subseteq [id : Nat \ {0}, len : Nat]

VARIABLES
  at,            \* where the thread is
  elapsed,
  cancelled,     \* the drain deadline has passed
  mtu,           \* of the OpenSslSession, ...
  retained,      \* ... the write that OpenSSL wants repeated, ...
  shutdowns,     \* ... and history: how often SSL_shutdown was called on it
  pending_frame, \* of the sender
  late_tries,    \* history: calls of SSL_connect after the deadline, ...
  cancelled_tries  \* ... and after the cancellation, for this session

ssl == <<mtu, retained, shutdowns>>

\* The flag is set with the call of SSL_shutdown, and nowhere else.
closed == shutdowns # 0
tries == <<late_tries, cancelled_tries>>
vars == <<at, elapsed, cancelled, ssl, pending_frame, tries>>

NoFrame == [id |-> 0, len |-> 0]
Handshaking == {"check", "connect", "deadline"}
\* In a session; "blocked" is between a write that did not go through and the
\* look at its clock.
Open == {"open", "blocked"}

TypeOK ==
  /\ at \in Handshaking \cup Open \cup {"none"}
  /\ elapsed \in 0..(Timeout + 1)
  /\ cancelled \in BOOLEAN
  /\ mtu \in 0..MaxRecord /\ shutdowns \in Nat
  /\ retained \in Frames \cup {NoFrame}
  /\ pending_frame \in Frames \cup {NoFrame}
  /\ late_tries \in Nat /\ cancelled_tries \in Nat

Init ==
  /\ at = "none"
  /\ elapsed = 0
  /\ cancelled = FALSE
  /\ mtu = 0 /\ shutdowns = 1 /\ retained = NoFrame    \* a session that is over
  /\ pending_frame = NoFrame
  /\ late_tries = 0 /\ cancelled_tries = 0

(***************************************************************************)
(* The end of a session.                                                   *)
(***************************************************************************)
\* Mutation: the flag is not looked at.
ShutdownEachTime(calls) == calls
\* How often so many calls of close call SSL_shutdown.
Shutdowns(calls) == IF closed THEN 0 ELSE 1

close(calls) == shutdowns' = shutdowns + Shutdowns(calls)

\* Every error return of connect drops the session that was being made.
DropUnfinished ==
  /\ at' = "none"
  /\ close(1)
  /\ UNCHANGED <<mtu, retained>>

\* The sender closes the session and drops it, which closes it once more.
GiveUp ==
  /\ at' = "none"
  /\ close(2)
  /\ mtu' = 0 /\ retained' = NoFrame
  /\ pending_frame' = NoFrame
  /\ UNCHANGED <<elapsed, cancelled, tries>>

(***************************************************************************)
(* connect.                                                                *)
(***************************************************************************)
\* The socket and the SSL object are made; a failure so far leaves nothing.
Begin ==
  /\ at = "none"
  /\ at' = "check"
  /\ mtu' = 0 /\ shutdowns' = 0 /\ retained' = NoFrame
  /\ elapsed' = 0
  /\ late_tries' = 0 /\ cancelled_tries' = 0
  /\ UNCHANGED <<cancelled, pending_frame>>

\* Mutation: the closure is not asked again.
NeverAsked == at = "check" /\ at' = "connect" /\ UNCHANGED ssl
AskCancelled ==
  /\ at = "check"
  /\ IF cancelled THEN DropUnfinished ELSE at' = "connect" /\ UNCHANGED ssl

CheckCancelled == AskCancelled /\ UNCHANGED <<elapsed, cancelled, pending_frame, tries>>

CountTry ==
  /\ late_tries' = IF elapsed >= Timeout THEN late_tries + 1 ELSE late_tries
  /\ cancelled_tries' = IF cancelled THEN cancelled_tries + 1 ELSE cancelled_tries

\* SSL_connect wants to read or write, and no timer failed.
ConnectWaits ==
  /\ at = "connect"
  /\ at' = "deadline"
  /\ CountTry
  /\ UNCHANGED <<elapsed, cancelled, ssl, pending_frame>>

\* check_result or handle_timeout ends it: refused, closed, or rejected.
ConnectFails ==
  /\ at = "connect"
  /\ DropUnfinished
  /\ CountTry
  /\ UNCHANGED <<elapsed, cancelled, pending_frame>>

Budget(m) == IF m <= MaxRecord THEN m ELSE MaxRecord

\* The handshake is done; the peer must have shown a certificate that verifies,
\* and the record must have room for data.
ConnectDone(m, trusted) ==
  /\ at = "connect"
  /\ IF trusted /\ Budget(m) # 0
       THEN at' = "open" /\ mtu' = Budget(m) /\ UNCHANGED <<retained, shutdowns>>
       ELSE DropUnfinished
  /\ CountTry
  /\ UNCHANGED <<elapsed, cancelled, pending_frame>>

AskDeadline ==
  /\ at = "deadline"
  /\ IF elapsed >= Timeout THEN DropUnfinished ELSE at' = "check" /\ UNCHANGED ssl

CheckDeadline == AskDeadline /\ UNCHANGED <<elapsed, cancelled, pending_frame, tries>>

(***************************************************************************)
(* A session.  One read and, when a message is due, one write in each      *)
(* iteration; while a write is unfinished nothing is read.                 *)
(***************************************************************************)
InSession == at = "open"

\* SSL_read failed: the peer closed, or an error, ICMP ones among them.
PollFails == InSession /\ pending_frame = NoFrame /\ GiveUp

TakeFront(f) ==
  /\ InSession /\ pending_frame = NoFrame
  /\ pending_frame' = f
  /\ elapsed' = 0
  /\ UNCHANGED <<at, cancelled, ssl, tries>>

\* Mutation: any frame is handed to SSL_write.
AnyFrame(f) == TRUE
Accepted(f) == f.len <= mtu /\ f.len # 0

Writing == InSession /\ pending_frame # NoFrame

SendRefused == Writing /\ ~ Accepted(pending_frame) /\ GiveUp

SendDone ==
  /\ Writing /\ Accepted(pending_frame)
  /\ retained' = NoFrame
  /\ pending_frame' = NoFrame
  /\ UNCHANGED <<mtu, shutdowns, at, elapsed, cancelled, tries>>

\* Mutation: each retry starts the clock again.
ClockRestarted == elapsed' = 0
\* write_started stays what it was at the first write of the frame.
WriteClock == UNCHANGED elapsed

\* SSL_write wants to read or write; OpenSSL retains the frame.
SendBlocks ==
  /\ Writing /\ Accepted(pending_frame)
  /\ at' = "blocked"
  /\ retained' = pending_frame
  /\ WriteClock
  /\ UNCHANGED <<mtu, shutdowns, cancelled, pending_frame, tries>>

\* SSL_write or a timer of OpenSSL fails.
SendFails == Writing /\ Accepted(pending_frame) /\ GiveUp

\* The sender looks at the clock of a blocked write: it repeats it after a
\* pause, or it gives the session up.
Repeat == at' = "open" /\ UNCHANGED <<elapsed, cancelled, ssl, pending_frame, tries>>
CheckWrite ==
  /\ at = "blocked"
  /\ IF elapsed > Timeout THEN GiveUp ELSE Repeat

\* The relay stops: at once after the cancellation, with the frame written or
\* not, else with nothing to send.
Finish == InSession /\ (cancelled \/ pending_frame = NoFrame) /\ GiveUp

(***************************************************************************)
(* Around the thread.                                                      *)
(***************************************************************************)
Tick ==
  /\ elapsed <= Timeout
  /\ elapsed' = elapsed + 1
  /\ UNCHANGED <<at, cancelled, ssl, pending_frame, tries>>

Cancel ==
  /\ ~ cancelled
  /\ cancelled' = TRUE
  /\ UNCHANGED <<at, elapsed, ssl, pending_frame, tries>>

ThreadStep ==
  \/ Begin \/ CheckCancelled \/ ConnectWaits \/ ConnectFails
  \/ (\E m \in DataMtus, t \in BOOLEAN : ConnectDone(m, t))
  \/ CheckDeadline \/ PollFails
  \/ \E f \in Frames : TakeFront(f)
  \/ SendRefused \/ SendDone \/ SendBlocks \/ SendFails \/ CheckWrite
  \/ Finish

Next == ThreadStep \/ Tick \/ Cancel

Spec == Init /\ [][Next]_vars

\* The thread is scheduled while it makes a handshake or writes a frame, and
\* time passes; OpenSSL and the peer do what they like: each call may want to
\* be repeated, for ever.
Waits == (at \in Handshaking \/ pending_frame # NoFrame) /\ ThreadStep
FairSpec == Spec /\ WF_vars(Waits) /\ WF_vars(Tick)

(***************************************************************************)
(* Properties.                                                             *)
(***************************************************************************)
\* A handshake that the peer keeps alive without finishing it ends, with the
\* deadline or the drain: the loop of connect gives up by itself.
ConnectEnds == at \in Handshaking ~> at \notin Handshaking

\* A write that stays blocked holds the head of the queue for a bounded time,
\* although each retry is a new call that knows nothing of the others: it is
\* the look at the clock of the first one (relay.rs:404) that ends it.
WriteEnds == pending_frame # NoFrame ~> pending_frame = NoFrame

\* So OpenSSL and the peer cannot keep the sender: each wait for them ends.
EndsInTime == ConnectEnds /\ WriteEnds

\* The loop asks in every round: after the deadline, and after the drain was
\* cut off, it calls SSL_connect once at most, and a session that this call
\* still makes is a session like any other.
OneLateTry == late_tries <= 1 /\ cancelled_tries <= 1

\* OpenSSL is told once of the end of each session: not twice by close and
\* drop, and not never by an error return inside connect.
OneShutdown == shutdowns = IF at = "none" THEN 1 ELSE 0

\* The sender and OpenSSL together keep the contract of Transport.
Contract == INSTANCE Transport
              WITH Budgets <- 1..MaxRecord, budget <- mtu, unfinished <- retained
KeepsContract == Contract!Spec
=============================================================================
