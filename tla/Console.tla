------------------------------ MODULE Console -------------------------------
(***************************************************************************)
(* Pages of the browser console (ui/app.js) on one agent (Agent).  A page  *)
(* polls the status and sends one command at a time; it shows what the     *)
(* last answer said that it received, be it of a poll or of a command.     *)
(* Polls and commands travel separately, so that an old status may arrive  *)
(* after the answer of a later command.  The pages have been loaded, and   *)
(* no one signs in or out: how one page loads, ends and catches up with    *)
(* the relay is in Page.                                                   *)
(***************************************************************************)
EXTENDS Agent

CONSTANTS
  Pages,
  MaxClicks     \* bound on the number of commands

ASSUME ConsoleAssumption == MaxClicks \in Nat

VARIABLES
  running,      \* what each page shows
  poll,         \* refresh: the request under way
  command,      \* action: the command under way; the page is busy meanwhile
  clicks        \* number of commands so far

page_vars == <<running, poll, command, clicks>>
vars == <<agent_vars, page_vars>>

\* A request is not there, on its way, or answered.
Idle == [at |-> "idle", what |-> "none", config |-> NoConfig, answer |-> Silent]
Sent(what, c) == [at |-> "sent", what |-> what, config |-> c, answer |-> Silent]
Back(request) == [request EXCEPT !.at = "back", !.answer = answer']
Failed == [kind |-> "error", running |-> FALSE]
Commands == {"start", "stop", "save", "load"}

Requests == [at : {"idle", "sent", "back"}, what : {"none", "status"} \cup Commands,
             config : Configs \cup {NoConfig, Invalid},
             answer : [kind : {"none", "done", "error"}, running : BOOLEAN]]

TypeOK ==
  /\ AgentTypeOK
  /\ running \in [Pages -> BOOLEAN]
  /\ poll \in [Pages -> Requests]
  /\ command \in [Pages -> Requests]
  /\ clicks \in 0..MaxClicks

Init ==
  /\ AgentInit
  /\ running = [p \in Pages |-> FALSE]
  /\ poll = [p \in Pages |-> Idle]
  /\ command = [p \in Pages |-> Idle]
  /\ clicks = 0

busy(p) == command[p] # Idle

(***************************************************************************)
(* The page.                                                               *)
(***************************************************************************)
\* The buttons that are enabled: the toggle does what the page shows.
Enabled(p, what) ==
  IF what = "stop" THEN running[p] ELSE ~ running[p]

Click(p, what, c) ==
  /\ ~ busy(p)
  /\ clicks < MaxClicks
  /\ Enabled(p, what)
  /\ clicks' = clicks + 1
  /\ command' = [command EXCEPT ![p] = Sent(what, c)]
  /\ UNCHANGED <<agent_vars, running, poll>>

\* start and stop render the status that they return.
Rendered(p, request) ==
  IF request.answer.kind = "done" /\ request.what \in {"start", "stop", "status"}
    THEN [running EXCEPT ![p] = request.answer.running]
    ELSE running

\* The finally clause of action.
Freed(p) == [command EXCEPT ![p] = Idle]

CommandReturns(p) ==
  /\ command[p].at = "back"
  /\ running' = Rendered(p, command[p])
  /\ command' = Freed(p)
  /\ UNCHANGED <<agent_vars, poll, clicks>>

\* refresh: the timer.  It is set again when the poll returned.
Refresh(p) ==
  /\ poll[p] = Idle
  /\ ~ busy(p)
  /\ poll' = [poll EXCEPT ![p] = Sent("status", NoConfig)]
  /\ UNCHANGED <<agent_vars, running, command, clicks>>

NextPoll(p) == [poll EXCEPT ![p] = Idle]

PollReturns(p) ==
  /\ poll[p].at = "back"
  /\ running' = Rendered(p, poll[p])
  /\ poll' = NextPoll(p)
  /\ UNCHANGED <<agent_vars, command, clicks>>

(***************************************************************************)
(* The agent serves a request; without an agent, or when it goes away, the *)
(* request fails.                                                          *)
(***************************************************************************)
Serve(request) ==
  LET c == request.config
  IN  \/ request.what = "status" /\ Status
      \/ request.what = "stop" /\ Stop
      \/ request.what = "start" /\ (Refused \/ StartFails(c) \/ StartSucceeds(c))
      \/ request.what = "save" /\ (Refused \/ SaveFails(c) \/ SaveSucceeds(c))
      \/ request.what = "load" /\ (Refused \/ Load)

ServePoll(p) ==
  /\ up /\ poll[p].at = "sent"
  /\ Serve(poll[p])
  /\ poll' = [poll EXCEPT ![p] = Back(@)]
  /\ UNCHANGED <<up, running, command, clicks>>

ServeCommand(p) ==
  /\ up /\ command[p].at = "sent"
  /\ Serve(command[p])
  /\ command' = [command EXCEPT ![p] = Back(@)]
  /\ UNCHANGED <<up, running, poll, clicks>>

\* The process crashes while it serves a save.
CrashInSave(p) ==
  /\ command[p].at = "sent" /\ command[p].what = "save"
  /\ SaveInterrupted(command[p].config)
  /\ UNCHANGED page_vars

\* The answer of a request that was sent, or even served, is lost.
Broken(request) == [request EXCEPT !.at = "back", !.answer = Failed]
PollLost(p) ==
  /\ poll[p].at # "idle" /\ poll[p].answer # Failed
  /\ poll' = [poll EXCEPT ![p] = Broken(@)]
  /\ UNCHANGED <<agent_vars, running, command, clicks>>
CommandLost(p) ==
  /\ command[p].at # "idle" /\ command[p].answer # Failed
  /\ command' = [command EXCEPT ![p] = Broken(@)]
  /\ UNCHANGED <<agent_vars, running, poll, clicks>>

Environment == BesideCommands /\ UNCHANGED page_vars

Next ==
  \/ Environment
  \/ \E p \in Pages :
       \/ \E what \in {"start", "save"}, c \in Configs \cup {Invalid} : Click(p, what, c)
       \/ \E what \in {"stop", "load"} : Click(p, what, NoConfig)
       \/ CommandReturns(p) \/ Refresh(p) \/ PollReturns(p)
       \/ ServePoll(p) \/ ServeCommand(p) \/ CrashInSave(p)
       \/ PollLost(p) \/ CommandLost(p)

Spec == Init /\ [][Next]_vars
=============================================================================
