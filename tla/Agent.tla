------------------------------- MODULE Agent --------------------------------
(***************************************************************************)
(* The management side of the agent process (cli/src/web.rs, Agent;        *)
(* cli/src/main.rs, run; core/src/config.rs, save and load).  It owns at   *)
(* most one relay, keeps the settings in force, and writes settings to     *)
(* the file it was started with.                                           *)
(*                                                                         *)
(* One thread serves one command at a time, so a command is one step.      *)
(* What runs beside it is the relay, which may end by itself, and what may *)
(* interrupt it is the end of the process.  A save that is interrupted, or *)
(* that fails half way, leaves a file cut short: it may not load, or load  *)
(* with defaults in the place of the sections at its end.                  *)
(*                                                                         *)
(* A relay is its number, its settings and whether it still runs; the      *)
(* module Relay has the rest.  A command may be refused for reasons that   *)
(* are not modelled: unreadable credentials, a malformed request.          *)
(***************************************************************************)
EXTENDS Naturals

CONSTANTS
  Configs,      \* valid settings
  MaxStarts     \* bound on the number of relays started

ASSUME AgentAssumption == Configs # {} /\ MaxStarts \in Nat

VARIABLES
  up,           \* the process runs
  relay, config, last,   \* the fields of Agent
  file,
  answer,       \* of the command just served, else that of None
  started       \* history: number of relays started

agent == <<relay, config, last>>
agent_vars == <<up, agent, file, answer, started>>

NoConfig == "none"
Invalid == "invalid"      \* settings that validation refuses
Cut == "cut"              \* a file that does not load
NoRelay == [id |-> 0, config |-> NoConfig, running |-> FALSE]
Present == relay # NoRelay

\* No command has been served.
Silent == [kind |-> "none", running |-> FALSE]

AgentTypeOK ==
  /\ up \in BOOLEAN
  /\ relay \in [id : Nat, config : Configs \cup {NoConfig}, running : BOOLEAN]
  /\ config \in Configs \cup {NoConfig}
  /\ last \in Nat
  /\ file \in Configs \cup {Cut}
  /\ answer \in [kind : {"none", "done", "error"}, running : BOOLEAN]
  /\ started \in 0..MaxStarts

AgentInit ==
  /\ up = FALSE
  /\ relay = NoRelay /\ config = NoConfig /\ last = 0
  /\ file \in Configs
  /\ answer = Silent
  /\ started = 0

\* Agent::status: a relay's number stands for the counters that belong to it; a
\* stopped relay leaves its last status, which is not running.
status == IF Present THEN [id |-> relay.id, running |-> relay.running]
                     ELSE [id |-> last, running |-> FALSE]

Done == answer' = [kind |-> "done", running |-> status'.running]
Error == answer' = [kind |-> "error", running |-> FALSE]

(***************************************************************************)
(* Commands.                                                               *)
(***************************************************************************)
\* Mutation: the status of a stopped relay is not kept.
LastForgotten == last
\* Agent::stop: the relay is drained and joined, and its status kept.
LastAfterStop == IF Present THEN relay.id ELSE last

Status ==
  /\ UNCHANGED <<agent, file, started>>
  /\ Done

Stop ==
  /\ relay' = NoRelay
  /\ last' = LastAfterStop
  /\ UNCHANGED <<config, file, started>>
  /\ Done

\* Invalid settings or credentials, a running relay, an unreadable file.
Refused ==
  /\ Error
  /\ UNCHANGED <<agent, file, started>>

\* Config::validate.
validate(c) == c \in Configs

MayApply == ~ status.running

\* Mutation: the settings are kept before the relay is started.
KeptEarly(c) == c
KeptOnFailure(c) == config

\* Relay::start fails: the port cannot be bound, or no thread.
StartFails(c) ==
  /\ validate(c) /\ MayApply
  /\ relay' = NoRelay
  /\ last' = LastAfterStop
  /\ config' = KeptOnFailure(c)
  /\ Error
  /\ UNCHANGED <<file, started>>

StartSucceeds(c) ==
  /\ validate(c) /\ MayApply
  /\ started < MaxStarts
  /\ started' = started + 1
  /\ relay' = [id |-> started', config |-> c, running |-> TRUE]
  /\ last' = LastAfterStop
  /\ config' = c
  /\ UNCHANGED file
  /\ Done

SaveSucceeds(c) ==
  /\ validate(c) /\ MayApply
  /\ file' = c
  /\ config' = c
  /\ UNCHANGED <<relay, last, started>>
  /\ Done

\* What a save that was begun and not completed leaves: the file as it was, a
\* file cut short, or, cut before a section that has defaults, other settings.
LeftBySave == Configs \cup {Cut}

\* The file cannot be opened or restricted, truncated, or written completely.
SaveFails(c) ==
  /\ validate(c) /\ MayApply
  /\ file' \in LeftBySave
  /\ Error
  /\ UNCHANGED <<agent, started>>

\* load_config only reads; the settings go to the console.
Load ==
  /\ MayApply
  /\ file # Cut
  /\ UNCHANGED <<agent, file, started>>
  /\ Done

(***************************************************************************)
(* Beside the commands.                                                    *)
(***************************************************************************)
Beside == answer' = Silent

\* run: the file is loaded and a relay started, or the process ends at once.
Boot ==
  /\ ~ up
  /\ file \in Configs
  /\ started < MaxStarts
  /\ up' = TRUE
  /\ started' = started + 1
  /\ config' = file
  /\ relay' = [id |-> started', config |-> file, running |-> TRUE]
  /\ last' = 0
  /\ Beside
  /\ UNCHANGED file

\* The listener failed, and with it the relay.
RelayEnds ==
  /\ relay.running
  /\ relay' = [relay EXCEPT !.running = FALSE]
  /\ Beside
  /\ UNCHANGED <<up, config, last, file, started>>

ProcessGone ==
  /\ up
  /\ up' = FALSE
  /\ relay' = NoRelay /\ config' = NoConfig /\ last' = 0
  /\ Beside
  /\ UNCHANGED started

\* Ctrl-C, SIGTERM, an error or a crash between two commands.
ProcessEnds ==
  /\ ProcessGone
  /\ UNCHANGED file

\* A crash while the file is written.
SaveInterrupted(c) ==
  /\ validate(c) /\ MayApply
  /\ ProcessGone
  /\ file' \in LeftBySave

\* The operator repairs or edits the file while the agent does not run.
HandEdit(c) ==
  /\ ~ up
  /\ file' = c
  /\ Beside
  /\ UNCHANGED <<up, agent, started>>

BesideCommands ==
  \/ Boot \/ RelayEnds \/ ProcessEnds
  \/ \E c \in Configs : HandEdit(c)

(***************************************************************************)
(* Properties.                                                             *)
(***************************************************************************)
SettingsInForce == relay.running => config = relay.config
LatestStatusShown == up => status.id = started

\* The settings that a page is given (default_config) are those of the relay
\* that runs, although saves and starts of other pages come in between, and the
\* counters shown are those of the latest relay, also after it was stopped and
\* after a start that failed when the old relay was already given up.
ShowsWhatRuns == SettingsInForce /\ LatestStatusShown

\* A running relay is not exchanged for another: starts of two pages, or of a
\* page that shows an old status, cannot end a relay that nobody stopped.
NeverReplaced ==
  [][relay.running /\ relay' # NoRelay => relay'.id = relay.id]_agent_vars

\* A command that answers with an error has left the settings in force, the
\* counters shown and the running relay as they were.
ErrorsChangeNothing ==
  [][answer'.kind = "error" => config' = config /\ status' = status]_agent_vars
=============================================================================
