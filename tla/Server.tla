------------------------------- MODULE Server -------------------------------
(***************************************************************************)
(* The agent process (main.rs): how run() starts up, serves HTTP requests  *)
(* one by one on a single thread, and ends - by a signal, by a failure, or *)
(* without HTTP, when its relay ends.  What a request does to settings and *)
(* counters is in Agent; here it matters which requests start and stop the *)
(* relay, and that each is answered.                                       *)
(*                                                                         *)
(* The thread reads a command's body from the client and writes the answer *)
(* to it without a timeout of its own: when such a transfer ends is up to  *)
(* the client.                                                             *)
(***************************************************************************)
EXTENDS Naturals, Sequences

CONSTANT Clients   \* who sends requests, each one at a time

VARIABLES at,        \* where run() stands
          http,      \* it was not started with --no-http
          stopping,  \* the flag that the signal handler sets
          relay,     \* the agent's relay
          waiting,   \* the requests the server has accepted, oldest first
          ended,     \* how the process ended
          late       \* requests taken up after the signal

vars == <<at, http, stopping, relay, waiting, ended, late>>

\* Ways through handle(): a route or a check that leaves the agent alone, a
\* step of a login, a command, and the two commands that touch the relay.
Requests == {"refused", "page", "login", "command", "start", "stop"}
\* Those whose body is read; a request refused earlier needs none.
Commands == {"command", "start", "stop"}

\* What there is to do before the loop; without HTTP there is nobody to log in
\* and no port to bind.  Mutation: the signal handler is set after the relay.
StartupLate ==
  IF http THEN <<"load", "auth", "bind", "credentials", "relay", "handler">>
          ELSE <<"load", "credentials", "relay", "handler">>

Startup ==
  IF http THEN <<"load", "auth", "bind", "credentials", "handler", "relay">>
          ELSE <<"load", "credentials", "handler", "relay">>

Starting == \E i \in DOMAIN Startup : at = Startup[i]

TypeOK ==
  /\ Starting \/ at \in {"loop", "recv", "body", "handle", "answer", "stop", "gone"}
  /\ http \in BOOLEAN /\ stopping \in BOOLEAN
  /\ relay \in {"none", "running", "failed"}
  /\ waiting \in Seq([from : Clients, what : Requests])
  /\ at \in {"body", "handle", "answer"} => http /\ waiting # <<>>
  /\ ended \in {"no", "error", "stopped", "killed"}
  /\ (at = "gone") = (ended # "no")
  /\ late \in Nat

Init ==
  /\ at = "load" /\ http \in BOOLEAN /\ stopping = FALSE /\ relay = "none"
  /\ waiting = <<>> /\ ended = "no" /\ late = 0

-----------------------------------------------------------------------------
(* run().                                                                  *)

StepUp ==
  /\ \E i \in DOMAIN Startup :
       Startup[i] = at /\ at' = IF i = Len(Startup) THEN "loop" ELSE Startup[i + 1]
  /\ relay' = IF at = "relay" THEN "running" ELSE relay
  /\ UNCHANGED <<http, stopping, waiting, ended, late>>

\* Every `?' returns from run() and drops what there is, which stops a relay.
Fails ==
  /\ Starting \/ (at = "recv" /\ http)
  /\ at' = "gone" /\ ended' = "error"
  /\ relay' = "none"
  /\ UNCHANGED <<http, stopping, waiting, late>>

\* Mutation: the loop does not look at the flag.
IgnoresSignal == http \/ relay = "running"
Running == ~stopping /\ (http \/ relay = "running")

LoopHead ==
  /\ at = "loop"
  /\ at' = IF Running THEN "recv" ELSE "stop"
  /\ UNCHANGED <<http, stopping, relay, waiting, ended, late>>

\* Mutation: requests are received only while there is a relay to manage.
OnlyWhileRelaying == http /\ relay = "running" /\ waiting # <<>>
Receives == http /\ waiting # <<>>
TakenUp == IF Head(waiting).what \in Commands THEN "body" ELSE "handle"

\* The oldest request, or none for 100 ms.
Receive ==
  /\ at = "recv"
  /\ at' = IF Receives THEN TakenUp ELSE "loop"
  /\ late' = IF Receives /\ stopping THEN late + 1 ELSE late
  /\ UNCHANGED <<http, stopping, relay, waiting, ended>>

\* A command's relay.  A start is refused while one runs or when its settings
\* are wrong; else it gives up the old one, and may fail to start the new one.
After(what) ==
  CASE what = "stop" -> {"none"}
    [] what = "start" /\ relay # "running" -> {relay, "running", "none"}
    [] OTHER -> {relay}

\* The rest of handle(): each way through it ends in respond().
Handle ==
  /\ at = "handle"
  /\ relay' \in After(Head(waiting).what)
  /\ at' = "answer"
  /\ UNCHANGED <<http, stopping, waiting, ended, late>>

\* agent.stop(), which drains the relay; the last status is printed.
Stop ==
  /\ at = "stop"
  /\ relay' = "none"
  /\ at' = "gone" /\ ended' = "stopped"
  /\ UNCHANGED <<http, stopping, waiting, late>>

Run == StepUp \/ LoopHead \/ Receive \/ Handle \/ Stop

-----------------------------------------------------------------------------
(* The world around the process.                                           *)

\* The body of a command has come, or its connection is broken and there will
\* be no command.
BodyRead ==
  /\ at = "body"
  /\ at' \in {"handle", "answer"}
  /\ UNCHANGED <<http, stopping, relay, waiting, ended, late>>

\* The client has taken the answer, or its connection is broken.
AnswerWritten ==
  /\ at = "answer"
  /\ waiting' = Tail(waiting)
  /\ at' = "loop"
  /\ UNCHANGED <<http, stopping, relay, ended, late>>

\* The step that sets the handler is behind.
HandlerSet ==
  \A i, j \in DOMAIN Startup : Startup[i] = at /\ Startup[j] = "handler" => i > j

Signal ==
  /\ at # "gone" /\ HandlerSet /\ ~stopping
  /\ stopping' = TRUE
  /\ UNCHANGED <<at, http, relay, waiting, ended, late>>

\* Before a handler is set a signal ends the process on the spot.
Killed ==
  /\ at # "gone" /\ ~HandlerSet
  /\ at' = "gone" /\ ended' = "killed"
  /\ UNCHANGED <<http, stopping, relay, waiting, late>>

\* The relay's listener fails.
RelayEnds ==
  /\ at # "gone" /\ relay = "running"
  /\ relay' = "failed"
  /\ UNCHANGED <<at, http, stopping, waiting, ended, late>>

\* The port takes requests as soon as it is bound.
Ask(c, what) ==
  /\ http /\ at \notin {"load", "auth", "bind", "gone"}
  /\ \A i \in DOMAIN waiting : waiting[i].from # c
  /\ waiting' = Append(waiting, [from |-> c, what |-> what])
  /\ UNCHANGED <<at, http, stopping, relay, ended, late>>

Next ==
  \/ Run \/ Fails \/ BodyRead \/ AnswerWritten \/ Signal \/ Killed \/ RelayEnds
  \/ \E c \in Clients, what \in Requests : Ask(c, what)

Spec == Init /\ [][Next]_vars

\* The thread runs: its own steps end, stop() (StopCompletes of the relay) and
\* calls of the provider, which have timeouts, among them.  Clients owe nothing.
FairSpec == Spec /\ WF_vars(Run)

-----------------------------------------------------------------------------
(* Properties.                                                             *)

(***************************************************************************)
(* However the process ends - a failed start, a signal at any moment, a    *)
(* socket that fails - it does not take a running relay with it: whatever  *)
(* is still queued was drained or counted by stop() or drop.               *)
(***************************************************************************)
NoRelayLeft == at = "gone" => relay = "none"

(***************************************************************************)
(* After the signal at most one more request is taken up, so that a busy   *)
(* console cannot keep the process from ending.                            *)
(***************************************************************************)
OneLateRequest == late <= 1

(***************************************************************************)
(* With HTTP the process outlives its relay: only a signal ends it in      *)
(* order, so that an operator can read why the relay failed.               *)
(***************************************************************************)
OutlivesRelay == ended = "stopped" /\ http => stopping

(* No client keeps the thread for ever in the transfer of its body or of   *)
(* the answer to it.                                                       *)
TransfersEnd == []<>(at \notin {"body", "answer"})

(* A signal ends the process, unless a client never ends its transfer.     *)
SignalObeyed == TransfersEnd => (stopping ~> at = "gone")

(* Without HTTP nobody could start the relay again: the process ends.      *)
HeadlessEnds == (~http /\ relay = "failed") ~> at = "gone"

(***************************************************************************)
(* The process ends when it should and, in order, only then: by a signal   *)
(* at any moment, or when nobody is left who could restart its relay.      *)
(* However many requests keep coming, they do not keep it; one client that *)
(* stalls in its transfer does (web.rs:176), and so it is the premise.     *)
(***************************************************************************)
EndsWhenItShould == SignalObeyed /\ HeadlessEnds /\ []OutlivesRelay

(***************************************************************************)
(* Each request is answered unless the process ends, also those that came  *)
(* before the loop or while the relay is down, as long as no other client  *)
(* keeps the only thread in its transfer.                                  *)
(***************************************************************************)
EachAnswered ==
  TransfersEnd =>
    \A c \in Clients :
      (\E i \in DOMAIN waiting : waiting[i].from = c)
        ~> (at = "gone" \/ \A i \in DOMAIN waiting : waiting[i].from # c)
=============================================================================
