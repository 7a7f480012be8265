------------------------------- MODULE Desktop -------------------------------
(***************************************************************************)
(* The desktop shell (desktop/src/main.rs): start and stop run on worker   *)
(* threads and share the relay behind a mutex, which they hold while they  *)
(* stop a relay (it drains) or start one.  The command status, which is    *)
(* not async, and the exit handler run on the main thread and take the     *)
(* same mutex; after the handler the process ends, whatever the workers    *)
(* do.                                                                     *)
(*                                                                         *)
(* A relay is known by its number.  The commands that only read files or   *)
(* validate settings take no lock and are left out.                        *)
(***************************************************************************)
EXTENDS Naturals

CONSTANTS
  Workers,      \* threads that run commands
  MaxStarts     \* bound on the number of relays started

Free == "free"      \* the mutex is held by nobody

ASSUME DesktopAssumption == MaxStarts \in Nat /\ Free \notin Workers

VARIABLES
  app,          \* "open", "exit" (event raised), "handled", "gone"
  task,         \* what each worker does
  asking,       \* the main thread is in the command status
  lock,         \* the worker that holds the mutex
  relay, alive, \* AppState.relay (0 if none), and whether it runs
  last,         \* AppState.last
  started,      \* history: relays started
  stopped,      \* history: relays that were stopped (and so drained)
  early,        \* history: the mutex was got before the exit handler ran
  in_time       \* history: relays started by a command of which that holds

relay_vars == <<relay, alive, last, started, stopped, in_time>>
vars == <<app, task, asking, lock, early, relay_vars>>

Tasks == {"none", "start", "stop"}

TypeOK ==
  /\ app \in {"open", "exit", "handled", "gone"}
  /\ task \in [Workers -> Tasks] /\ asking \in BOOLEAN
  /\ lock \in Workers \cup {Free} /\ early \in BOOLEAN
  /\ relay \in 0..MaxStarts /\ alive \in BOOLEAN /\ last \in 0..MaxStarts
  /\ started \in 0..MaxStarts
  /\ stopped \subseteq 1..MaxStarts /\ in_time \subseteq 1..MaxStarts

Init ==
  /\ app = "open"
  /\ task = [w \in Workers |-> "none"] /\ asking = FALSE
  /\ lock = Free /\ early = TRUE
  /\ relay = 0 /\ alive = FALSE /\ last = 0
  /\ started = 0 /\ stopped = {} /\ in_time = {}

Invoke(w, what) ==
  /\ app = "open"
  /\ task[w] = "none"
  /\ task' = [task EXCEPT ![w] = what]
  /\ UNCHANGED <<app, asking, lock, early, relay_vars>>

Lock(w) ==
  /\ app # "gone"
  /\ task[w] # "none"
  /\ lock = Free
  /\ lock' = w
  /\ early' = (app # "handled")
  /\ UNCHANGED <<app, task, asking, relay_vars>>

Holds(w, what) == app # "gone" /\ lock = w /\ task[w] = what

\* Mutation: the guard outlives its command.
ReleaseNot(w) == task' = [task EXCEPT ![w] = "none"] /\ UNCHANGED <<app, asking, lock, early>>
Release(w) ==
  /\ lock' = Free
  /\ task' = [task EXCEPT ![w] = "none"]
  /\ UNCHANGED <<app, asking, early>>

\* Mutation: only the counters that stop returns to its caller are kept.
LastForgotten == last
\* s.last = relay.stop(): a number stands for the counters of its relay.
LastAfterStop == relay

\* relay.take() and relay.stop(), its status kept.
TakeAndStop ==
  /\ relay' = 0 /\ alive' = FALSE
  /\ last' = LastAfterStop
  /\ stopped' = stopped \cup {relay}
  /\ UNCHANGED <<started, in_time>>

StopRelay == IF relay # 0 THEN TakeAndStop ELSE UNCHANGED relay_vars

\* start, while its worker holds the lock: a relay that ended by itself is
\* given up first; then the connector or the relay may fail.
StartRefused(w) ==
  /\ Holds(w, "start") /\ alive
  /\ Release(w) /\ UNCHANGED relay_vars

StopOld(w) ==
  /\ Holds(w, "start") /\ ~ alive /\ relay # 0
  /\ TakeAndStop
  /\ UNCHANGED <<app, task, asking, lock, early>>

StartFails(w) ==
  /\ Holds(w, "start") /\ relay = 0
  /\ Release(w) /\ UNCHANGED relay_vars

StartSucceeds(w) ==
  /\ Holds(w, "start") /\ relay = 0
  /\ started < MaxStarts
  /\ started' = started + 1
  /\ relay' = started' /\ alive' = TRUE
  /\ in_time' = IF early THEN in_time \cup {started'} ELSE in_time
  /\ Release(w)
  /\ UNCHANGED <<last, stopped>>

Stop(w) ==
  /\ Holds(w, "stop")
  /\ StopRelay
  /\ Release(w)

Work(w) ==
  \/ StartRefused(w) \/ StopOld(w) \/ StartFails(w) \/ StartSucceeds(w)
  \/ Stop(w)

RelayEnds ==
  /\ alive
  /\ alive' = FALSE
  /\ UNCHANGED <<app, task, asking, lock, early, relay, last, started, stopped, in_time>>

(***************************************************************************)
(* The main thread.                                                        *)
(***************************************************************************)
\* Mutation: the handler does not wait for the mutex.
WithoutLock == TRUE
CanLock == lock = Free

AskStatus ==
  /\ app = "open" /\ ~ asking
  /\ asking' = TRUE
  /\ UNCHANGED <<app, task, lock, early, relay_vars>>

\* What the command returns.
status == IF relay # 0 THEN relay ELSE last

\* It has waited for the workers, and the window with it.
ReadStatus ==
  /\ asking /\ lock = Free
  /\ asking' = FALSE
  /\ UNCHANGED <<app, task, lock, early, relay_vars>>

Close ==
  /\ app = "open"
  /\ app' = "exit"
  /\ UNCHANGED <<task, asking, lock, early, relay_vars>>

\* The exit handler; a worker that waits for the mutex may come later.
HandleExit ==
  /\ app = "exit" /\ ~ asking /\ CanLock
  /\ app' = "handled"
  /\ relay' = 0 /\ alive' = FALSE
  /\ stopped' = stopped \cup ({relay} \ {0})
  /\ UNCHANGED <<task, asking, lock, early, last, started, in_time>>

ProcessEnds ==
  /\ app = "handled"
  /\ app' = "gone"
  /\ UNCHANGED <<task, asking, lock, early, relay_vars>>

Next ==
  \/ \E w \in Workers :
       \/ \E what \in Tasks \ {"none"} : Invoke(w, what)
       \/ Lock(w) \/ Work(w)
  \/ AskStatus \/ ReadStatus
  \/ RelayEnds \/ Close \/ HandleExit \/ ProcessEnds

Spec == Init /\ [][Next]_vars

\* Workers that hold the mutex go on, and so does the main thread; a mutex that
\* is free again and again is got by the main thread at last.
FairSpec ==
  /\ Spec
  /\ \A w \in Workers : WF_vars(Work(w))
  /\ SF_vars(ReadStatus) /\ SF_vars(HandleExit) /\ WF_vars(ProcessEnds)

(***************************************************************************)
(* Properties.                                                             *)
(***************************************************************************)
\* The counters shown are those of the latest relay, whatever has become of it
\* and however the starts after it failed: a relay that ended by itself is given
\* up by a start (main.rs:48) that may then have none to put in its place.
LatestStatusShown == app \in {"open", "exit"} => status = started

\* "Closing the app stops the relay" (README.md, desktop): the end of
\* the process cuts off none whose start had the mutex before the exit handler
\* ran, so not one whose start was under way when the window closed.
StoppedOnExit == app = "gone" => in_time \subseteq stopped

\* The application does end, although the main thread waits for the workers.
ExitCompletes == app = "exit" ~> app = "gone"
=============================================================================
