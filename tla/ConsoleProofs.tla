---------------------------- MODULE ConsoleProofs ----------------------------
(***************************************************************************)
(* Theorems about the agent under any number of pages, settings, starts    *)
(* and commands.                                                           *)
(***************************************************************************)
EXTENDS Console, TLAPS

(***************************************************************************)
(* What a step of the composition is for the agent.                        *)
(***************************************************************************)
\* A command that is served.  c is what it carries.
CommandStep(c) ==
  /\ up /\ UNCHANGED up
  /\ \/ Status \/ Stop \/ Refused \/ StartFails(c) \/ StartSucceeds(c)
     \/ SaveFails(c) \/ SaveSucceeds(c) \/ Load

AgentStep ==
  \/ \E c : CommandStep(c)
  \/ \E c : SaveInterrupted(c)
  \/ BesideCommands
  \/ UNCHANGED agent_vars

LEMMA StepsOfAgent == [Next]_vars => AgentStep
<1>. SUFFICES ASSUME [Next]_vars PROVE AgentStep
  OBVIOUS
<1>1. ASSUME NEW p \in Pages, ServePoll(p) PROVE AgentStep
  <2>. DEFINE c == poll[p].config
  <2>1. CommandStep(c)
    BY <1>1 DEF ServePoll, Serve, CommandStep
  <2>. QED
    BY <2>1 DEF AgentStep
<1>2. ASSUME NEW p \in Pages, ServeCommand(p) PROVE AgentStep
  <2>. DEFINE c == command[p].config
  <2>1. CommandStep(c)
    BY <1>2 DEF ServeCommand, Serve, CommandStep
  <2>. QED
    BY <2>1 DEF AgentStep
<1>3. ASSUME NEW p \in Pages, CrashInSave(p) PROVE AgentStep
  BY <1>3 DEF CrashInSave, AgentStep
<1>4. CASE Environment
  BY <1>4 DEF Environment, AgentStep
<1>5. ASSUME NEW p \in Pages,
             \/ \E what \in {"start", "save"}, c \in Configs \cup {Invalid} : Click(p, what, c)
             \/ \E what \in {"stop", "load"} : Click(p, what, NoConfig)
             \/ CommandReturns(p) \/ Refresh(p) \/ PollReturns(p)
             \/ PollLost(p) \/ CommandLost(p)
      PROVE  AgentStep
  BY <1>5 DEF Click, CommandReturns, Refresh, PollReturns, PollLost, CommandLost, AgentStep
<1>6. CASE UNCHANGED vars
  BY <1>6 DEF vars, AgentStep
<1>. QED
  BY <1>1, <1>2, <1>3, <1>4, <1>5, <1>6 DEF Next

(***************************************************************************)
(* The invariant: beside the properties, a relay that is there has a       *)
(* number, so that it is not mistaken for none when it ends, and a process *)
(* around it.                                                              *)
(***************************************************************************)
Numbered ==
  /\ started \in Nat
  /\ Present => up /\ relay.id \in Nat \ {0}
IsRelay == relay \in [id : Nat, config : Configs \cup {NoConfig}, running : BOOLEAN]

AgentInv ==
  /\ IsRelay
  /\ Numbered
  /\ SettingsInForce
  /\ LatestStatusShown

LEMMA AgentInvInit == Init => AgentInv
BY DEF Init, AgentInit, AgentInv, IsRelay, Numbered, Present, NoRelay, SettingsInForce,
       LatestStatusShown

LEMMA AgentInvStep == AgentInv /\ AgentStep => AgentInv'
<1>. SUFFICES ASSUME AgentInv, AgentStep PROVE AgentInv'
  OBVIOUS
<1>. USE DEF AgentInv, IsRelay, Numbered, SettingsInForce, LatestStatusShown
<1>1. ASSUME NEW c, CommandStep(c) PROVE AgentInv'
  <2>1. CASE Status \/ Refused \/ Load
    BY <1>1, <2>1 DEF CommandStep, Status, Refused, Load, agent, Present, status
  <2>2. CASE Stop
    BY <1>1, <2>2 DEF CommandStep, Stop, LastAfterStop, Present, status, NoRelay
  <2>3. CASE StartFails(c)
    BY <1>1, <2>3 DEF CommandStep, StartFails, LastAfterStop, Present, status, NoRelay
  <2>4. CASE StartSucceeds(c)
    <3>1. relay' = [id |-> started + 1, config |-> c, running |-> TRUE] /\ c \in Configs
      BY <2>4 DEF StartSucceeds, validate
    <3>2. relay'.running # NoRelay.running
      BY <3>1 DEF NoRelay
    <3>3. Present'
      BY <3>2 DEF Present
    <3>4. IsRelay' /\ SettingsInForce'
      BY <2>4, <3>1 DEF StartSucceeds
    <3>5. Numbered' /\ LatestStatusShown'
      BY <1>1, <2>4, <3>1, <3>3 DEF CommandStep, StartSucceeds, status
    <3>. QED
      BY <3>4, <3>5
  <2>5. CASE SaveFails(c)
    BY <1>1, <2>5 DEF CommandStep, SaveFails, agent, Present, status
  <2>6. CASE SaveSucceeds(c)
    BY <1>1, <2>6 DEF CommandStep, SaveSucceeds, MayApply, Present, status, NoRelay
  <2>. QED
    BY <1>1, <2>1, <2>2, <2>3, <2>4, <2>5, <2>6 DEF CommandStep
<1>2. CASE (\E c : SaveInterrupted(c)) \/ ProcessEnds
  <2>1. ProcessGone
    BY <1>2 DEF SaveInterrupted, ProcessEnds
  <2>. QED
    BY <2>1 DEF ProcessGone, Present, NoRelay
<1>3. CASE Boot
  BY <1>3 DEF Boot, Present, status, NoRelay
<1>4. CASE RelayEnds
  <2>1. relay' = [relay EXCEPT !.running = FALSE] /\ relay.running
    BY <1>4 DEF RelayEnds
  <2>2. Present
    BY <2>1 DEF Present, NoRelay
  <2>3. relay'.id = relay.id /\ relay'.id # NoRelay.id
    BY <2>1, <2>2 DEF NoRelay
  <2>4. Present'
    BY <2>3 DEF Present
  <2>. QED
    BY <1>4, <2>1, <2>2, <2>3, <2>4 DEF RelayEnds, status
<1>5. ASSUME NEW c \in Configs, HandEdit(c) PROVE AgentInv'
  BY <1>5 DEF HandEdit, agent, Present, status
<1>6. CASE UNCHANGED agent_vars
  BY <1>6 DEF agent_vars, agent, Present, status
<1>. QED
  BY <1>1, <1>2, <1>3, <1>4, <1>5, <1>6 DEF AgentStep, BesideCommands

LEMMA AgentInvAlways == Spec => []AgentInv
<1>1. AgentInv /\ [Next]_vars => AgentInv'
  BY AgentInvStep, StepsOfAgent
<1>. QED
  BY <1>1, AgentInvInit, PTL DEF Spec

(***************************************************************************)
(* Theorems.                                                               *)
(***************************************************************************)
\* The settings given to pages are those of the running relay, and the counters
\* shown are those of the latest.
THEOREM ShownIsWhatRuns == Spec => []ShowsWhatRuns
<1>1. AgentInv => ShowsWhatRuns
  BY DEF AgentInv, ShowsWhatRuns
<1>. QED
  BY <1>1, AgentInvAlways, PTL

\* A relay that runs is not exchanged for another.
THEOREM RunningRelayStays == Spec => NeverReplaced
<1>. DEFINE Kept == relay.running /\ relay' # NoRelay => relay'.id = relay.id
<1>1. ASSUME AgentInv, AgentStep PROVE Kept
  <2>. SUFFICES ASSUME relay.running, relay' # NoRelay PROVE relay'.id = relay.id
    OBVIOUS
  <2>1. Present
    BY DEF Present, NoRelay
  <2>2. ASSUME NEW c, CommandStep(c) PROVE relay'.id = relay.id
    BY <2>1, <2>2 DEF CommandStep, Status, Stop, Refused, StartFails, StartSucceeds, SaveFails,
                      SaveSucceeds, Load, MayApply, status, agent
  <2>3. CASE (\E c : SaveInterrupted(c)) \/ BesideCommands
    <3>2. CASE Boot
      BY <3>2, <2>1, <1>1 DEF Boot, AgentInv, Numbered
    <3>3. CASE ~ Boot
      BY <2>3, <3>3, <1>1 DEF SaveInterrupted, BesideCommands, ProcessGone, ProcessEnds, RelayEnds,
                         HandEdit, agent, AgentInv, IsRelay
    <3>. QED
      BY <3>2, <3>3
  <2>4. CASE UNCHANGED agent_vars
    BY <2>4 DEF agent_vars, agent
  <2>. QED
    BY <1>1, <2>2, <2>3, <2>4 DEF AgentStep
<1>2. AgentInv /\ [Next]_vars => [Kept]_agent_vars
  BY <1>1, StepsOfAgent
<1>. QED
  BY <1>2, AgentInvAlways, PTL DEF Spec, NeverReplaced

\* A command that ends in an error has left settings, counters and running relay
\* as they were.
THEOREM ErrorsAreHarmless == Spec => ErrorsChangeNothing
<1>. DEFINE Harmless == answer'.kind = "error" => config' = config /\ status' = status
<1>1. ASSUME AgentInv, AgentStep, ~ UNCHANGED agent_vars PROVE Harmless
  <2>. SUFFICES ASSUME answer'.kind = "error" PROVE config' = config /\ status' = status
    OBVIOUS
  <2>1. ASSUME NEW c, CommandStep(c) PROVE config' = config /\ status' = status
    <3>1. CASE Refused \/ SaveFails(c)
      BY <3>1 DEF Refused, SaveFails, agent, status, Present
    <3>2. CASE StartFails(c)
      <4>1. ~ Present' /\ config' = config /\ last' = LastAfterStop
        BY <3>2 DEF StartFails, KeptOnFailure, Present
      <4>2. status' = [id |-> LastAfterStop, running |-> FALSE]
        BY <4>1 DEF status
      <4>3. Present => relay.running = FALSE
        BY <3>2, <1>1 DEF StartFails, MayApply, status, AgentInv, IsRelay
      <4>. QED
        BY <4>1, <4>2, <4>3 DEF status, LastAfterStop
    <3>3. CASE Status \/ Stop \/ StartSucceeds(c) \/ SaveSucceeds(c) \/ Load
      BY <3>3 DEF Status, Stop, StartSucceeds, SaveSucceeds, Load, Done
    <3>. QED
      BY <2>1, <3>1, <3>2, <3>3 DEF CommandStep
  <2>2. CASE (\E c : SaveInterrupted(c)) \/ BesideCommands
    BY <2>2 DEF SaveInterrupted, BesideCommands, Boot, RelayEnds, ProcessEnds, ProcessGone,
                HandEdit, Beside, Silent
  <2>. QED
    BY <1>1, <2>1, <2>2 DEF AgentStep
<1>2. AgentInv /\ [Next]_vars => [Harmless]_agent_vars
  BY <1>1, StepsOfAgent
<1>. QED
  BY <1>2, AgentInvAlways, PTL DEF Spec, ErrorsChangeNothing

(***************************************************************************)
(* Types: those of the agent, which it keeps by itself, and those of the   *)
(* pages, whose requests carry its answers.                                *)
(***************************************************************************)
Fields ==
  /\ up \in BOOLEAN
  /\ IsRelay
  /\ config \in Configs \cup {NoConfig}
  /\ last \in Nat
  /\ file \in Configs \cup {Cut}
  /\ started \in 0..MaxStarts
AnswerTypes == [kind : {"none", "done", "error"}, running : BOOLEAN]

LEMMA FieldsStep == Fields /\ AgentStep => Fields'
<1>. SUFFICES ASSUME Fields, AgentStep PROVE Fields'
  OBVIOUS
<1>. USE AgentAssumption DEF Fields, IsRelay
<1>1. NoRelay \in [id : Nat, config : Configs \cup {NoConfig}, running : BOOLEAN]
  BY DEF NoRelay
<1>2. LastAfterStop \in Nat
  BY DEF LastAfterStop
<1>3. ASSUME NEW c, CommandStep(c) PROVE Fields'
  <2>1. CASE Status \/ Refused \/ Load
    BY <1>3, <2>1 DEF CommandStep, Status, Refused, Load, agent
  <2>2. CASE Stop
    BY <1>1, <1>2, <1>3, <2>2 DEF CommandStep, Stop
  <2>3. CASE StartFails(c)
    BY <1>1, <1>2, <1>3, <2>3 DEF CommandStep, StartFails, KeptOnFailure
  <2>4. CASE StartSucceeds(c)
    BY <1>2, <1>3, <2>4 DEF CommandStep, StartSucceeds, validate
  <2>5. CASE SaveFails(c)
    BY <1>3, <2>5 DEF CommandStep, SaveFails, LeftBySave, agent
  <2>6. CASE SaveSucceeds(c)
    BY <1>3, <2>6 DEF CommandStep, SaveSucceeds, validate
  <2>. QED
    BY <1>3, <2>1, <2>2, <2>3, <2>4, <2>5, <2>6 DEF CommandStep
<1>4. CASE \E c : SaveInterrupted(c)
  <2>1. ProcessGone /\ file' \in Configs \cup {Cut}
    BY <1>4 DEF SaveInterrupted, LeftBySave
  <2>. QED
    BY <1>1, <2>1 DEF ProcessGone
<1>5. CASE Boot
  BY <1>5 DEF Boot
<1>6. CASE RelayEnds
  BY <1>6 DEF RelayEnds
<1>7. CASE ProcessEnds
  BY <1>1, <1>7 DEF ProcessEnds, ProcessGone
<1>8. ASSUME NEW c \in Configs, HandEdit(c) PROVE Fields'
  BY <1>8 DEF HandEdit, agent
<1>9. CASE UNCHANGED agent_vars
  BY <1>9 DEF agent_vars, agent
<1>. QED
  BY <1>3, <1>4, <1>5, <1>6, <1>7, <1>8, <1>9 DEF AgentStep, BesideCommands

LEMMA AnswerStep ==
  Fields /\ answer \in AnswerTypes /\ AgentStep => answer' \in AnswerTypes
<1>. SUFFICES ASSUME Fields, answer \in AnswerTypes, AgentStep PROVE answer' \in AnswerTypes
  OBVIOUS
<1>1. Fields'
  BY FieldsStep
<1>2. status'.running \in BOOLEAN
  BY <1>1 DEF Fields, IsRelay, status
<1>3. Done \/ Error \/ Beside \/ UNCHANGED answer
  BY DEF AgentStep, CommandStep, Status, Stop, Refused, StartFails, StartSucceeds, SaveFails,
         SaveSucceeds, Load, SaveInterrupted, BesideCommands, Boot, RelayEnds, ProcessEnds,
         ProcessGone, HandEdit, agent_vars
<1>4. /\ [kind |-> "done", running |-> TRUE] \in AnswerTypes
      /\ [kind |-> "done", running |-> FALSE] \in AnswerTypes
      /\ [kind |-> "error", running |-> FALSE] \in AnswerTypes
      /\ [kind |-> "none", running |-> FALSE] \in AnswerTypes
  BY DEF AnswerTypes
<1>5. CASE Done
  <2>1. status'.running = TRUE \/ status'.running = FALSE
    BY <1>2
  <2>. QED
    BY <2>1, <1>4, <1>5 DEF Done
<1>6. CASE Error \/ Beside
  BY <1>4, <1>6 DEF Error, Beside, Silent
<1>. QED
  BY <1>3, <1>5, <1>6

PageTypes ==
  /\ running \in [Pages -> BOOLEAN]
  /\ poll \in [Pages -> Requests]
  /\ command \in [Pages -> Requests]
  /\ clicks \in 0..MaxClicks

LEMMA PageStep == answer' \in AnswerTypes /\ PageTypes /\ [Next]_vars => PageTypes'
<1>. SUFFICES ASSUME answer' \in AnswerTypes, PageTypes, [Next]_vars PROVE PageTypes'
  OBVIOUS
<1>. USE DEF PageTypes, AnswerTypes
<1>1. Idle \in Requests /\ Failed \in AnswerTypes
  BY DEF Idle, Requests, Silent, Failed
<1>2. ASSUME NEW request \in Requests
      PROVE  Back(request) \in Requests /\ Broken(request) \in Requests
  BY <1>1 DEF Back, Broken, Requests
<1>3. ASSUME NEW p \in Pages, NEW what \in Commands, NEW c \in Configs \cup {NoConfig, Invalid},
             Click(p, what, c)
      PROVE  PageTypes'
  <2>1. Sent(what, c) \in Requests
    BY DEF Sent, Requests, Silent
  <2>. QED
    BY <1>3, <2>1, ConsoleAssumption DEF Click
<1>4. ASSUME NEW p \in Pages, NEW request \in Requests PROVE Rendered(p, request) \in [Pages -> BOOLEAN]
  BY DEF Rendered, Requests
<1>5. ASSUME NEW p \in Pages, CommandReturns(p) \/ PollReturns(p) PROVE PageTypes'
  <2>1. /\ running' \in [Pages -> BOOLEAN]
        /\ clicks' = clicks
    BY <1>4, <1>5 DEF CommandReturns, PollReturns
  <2>2. command' \in [Pages -> Requests]
    BY <1>1, <1>5 DEF CommandReturns, PollReturns, Freed
  <2>3. poll' \in [Pages -> Requests]
    BY <1>1, <1>5 DEF CommandReturns, PollReturns, NextPoll
  <2>. QED
    BY <2>1, <2>2, <2>3
<1>6. ASSUME NEW p \in Pages, Refresh(p) PROVE PageTypes'
  <2>1. Sent("status", NoConfig) \in Requests
    BY DEF Sent, Requests, Silent
  <2>. QED
    BY <1>6, <2>1 DEF Refresh
<1>7. ASSUME NEW p \in Pages, ServePoll(p) \/ ServeCommand(p) \/ PollLost(p) \/ CommandLost(p)
      PROVE  PageTypes'
  BY <1>2, <1>7 DEF ServePoll, ServeCommand, PollLost, CommandLost
<1>8. CASE UNCHANGED page_vars
  BY <1>8 DEF page_vars
<1>. QED
  BY <1>3, <1>5, <1>6, <1>7, <1>8 DEF Next, vars, Commands, Environment, CrashInSave

\* All values are of their types; in particular every answer that a page gets is
\* that of a command, and no more relays and clicks happen than are allowed.
THEOREM TypeCorrect == Spec => []TypeOK
<1>. DEFINE Types == Fields /\ answer \in AnswerTypes /\ PageTypes
<1>1. ASSUME Init PROVE Types
  <2>1. Fields
    <3>1. IsRelay
      BY <1>1 DEF Init, AgentInit, IsRelay, NoRelay
    <3>2. up \in BOOLEAN
      BY <1>1 DEF Init, AgentInit
    <3>. QED
      BY <1>1, <3>1, <3>2, AgentAssumption DEF Init, AgentInit, Fields
  <2>2. answer \in AnswerTypes
    BY <1>1 DEF Init, AgentInit, AnswerTypes, Silent
  <2>3. Idle \in Requests
    BY DEF Idle, Requests, Silent
  <2>4. PageTypes
    BY <1>1, <2>3, ConsoleAssumption DEF Init, PageTypes
  <2>. QED
    BY <2>1, <2>2, <2>4
<1>2. Types /\ [Next]_vars => Types'
  BY StepsOfAgent, FieldsStep, AnswerStep, PageStep
<1>3. Types => TypeOK
  BY DEF Fields, IsRelay, AnswerTypes, PageTypes, TypeOK, AgentTypeOK
<1>. QED
  BY <1>1, <1>2, <1>3, PTL DEF Spec

=============================================================================
