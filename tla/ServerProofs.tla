----------------------------- MODULE ServerProofs -----------------------------
(***************************************************************************)
(* How the agent's process ends, for any number of clients, and what a     *)
(* page behind its login does (Page).                                      *)
(*                                                                         *)
(* LifeInv says where run() may stand while there is a relay, and after    *)
(* the signal: one request may be taken up by a receive that had begun.    *)
(***************************************************************************)
EXTENDS Server, Page, TLAPS

Loop == {"loop", "recv", "body", "handle", "answer", "stop"}

LifeInv ==
  /\ relay # "none" => at \in Loop
  /\ at = "stop" /\ http => stopping
  /\ OutlivesRelay
  /\ late = 0 \/ (late = 1 /\ stopping /\ at # "recv")

IInv == TypeOK /\ LifeInv

\* The steps before the loop, by name.
StartupStages == {"load", "auth", "bind", "credentials", "handler", "relay"}

LEMMA StartupFacts ==
  /\ Starting => at \in StartupStages
  /\ StepUp => /\ at \in StartupStages
               /\ at' = "loop" <=> at = "relay"
               /\ at' # "loop" => \E i \in DOMAIN Startup : at' = Startup[i]
               /\ at' \in StartupStages \cup {"loop"}
<1>1. CASE http
  <2>1. Startup = <<"load", "auth", "bind", "credentials", "handler", "relay">>
    BY <1>1 DEF Startup
  <2>2. DOMAIN Startup = 1..6 /\ Len(Startup) = 6
    BY <2>1
  <2>3. /\ Startup[1] = "load" /\ Startup[2] = "auth" /\ Startup[3] = "bind"
        /\ Startup[4] = "credentials" /\ Startup[5] = "handler" /\ Startup[6] = "relay"
    BY <2>1
  <2>4. \A i \in 1..6 : i = 1 \/ i = 2 \/ i = 3 \/ i = 4 \/ i = 5 \/ i = 6
    OBVIOUS
  <2> HIDE DEF Startup
  <2> QED  BY <2>2, <2>3, <2>4 DEF Starting, StepUp, StartupStages
<1>2. CASE ~ http
  <2>1. Startup = <<"load", "credentials", "handler", "relay">>
    BY <1>2 DEF Startup
  <2>2. DOMAIN Startup = 1..4 /\ Len(Startup) = 4
    BY <2>1
  <2>3. /\ Startup[1] = "load" /\ Startup[2] = "credentials" /\ Startup[3] = "handler"
        /\ Startup[4] = "relay"
    BY <2>1
  <2>4. \A i \in 1..4 : i = 1 \/ i = 2 \/ i = 3 \/ i = 4
    OBVIOUS
  <2> QED  BY <2>2, <2>3, <2>4 DEF Starting, StepUp, StartupStages
<1> QED  BY <1>1, <1>2

LEMMA InitInv == Init => IInv
<1> SUFFICES ASSUME Init PROVE IInv
  OBVIOUS
<1>1. Starting
  <2>1. 1 \in DOMAIN Startup /\ Startup[1] = "load"
    BY DEF Startup
  <2> QED  BY <2>1 DEF Init, Starting
<1>2. TypeOK
  <2>1. at = "load" /\ ended = "no" /\ waiting = <<>> /\ relay = "none" /\ late = 0
        /\ http \in BOOLEAN /\ stopping \in BOOLEAN
    BY DEF Init
  <2>2. waiting \in Seq([from : Clients, what : Requests])
    BY <2>1
  <2> QED  BY <1>1, <2>1, <2>2 DEF TypeOK
<1>3. LifeInv
  BY DEF Init, LifeInv, OutlivesRelay
<1> QED  BY <1>2, <1>3 DEF IInv

LEMMA StepUpKeeps ==
  ASSUME IInv, StepUp
  PROVE  IInv'
<1>1. /\ at \in StartupStages /\ (at' = "loop" <=> at = "relay")
      /\ at' # "loop" => \E i \in DOMAIN Startup : at' = Startup[i]
      /\ at' \in StartupStages \cup {"loop"}
  BY StartupFacts
<1>2. /\ relay' = (IF at = "relay" THEN "running" ELSE relay)
      /\ UNCHANGED <<http, stopping, waiting, ended, late>>
  BY DEF StepUp
<1>3. UNCHANGED Startup
  BY <1>2 DEF Startup
<1>4. Starting' \/ at' = "loop"
  BY <1>1, <1>3 DEF Starting
<1>5. at \notin Loop /\ at # "gone" /\ at' # "gone" /\ at' \notin Loop \ {"loop"}
  BY <1>1 DEF StartupStages, Loop
<1>6. TypeOK'
  BY <1>2, <1>4, <1>5 DEF IInv, TypeOK, Loop
<1>7. LifeInv'
  BY <1>1, <1>2, <1>5 DEF IInv, LifeInv, OutlivesRelay, Loop
<1> QED  BY <1>6, <1>7 DEF IInv

LEMMA NextInv ==
  ASSUME IInv, [Next]_vars
  PROVE  IInv'
<1>1. UNCHANGED http /\ UNCHANGED Startup
  <2>1. UNCHANGED http
    BY DEF Next, Run, StepUp, LoopHead, Receive, Handle, Stop, Fails, BodyRead,
       AnswerWritten, Signal, Killed, RelayEnds, Ask, vars
  <2> QED  BY <2>1 DEF Startup
<1>2. at \notin Loop \cup {"gone"} => Starting
  BY DEF IInv, TypeOK, Loop
<1>3. UNCHANGED at => (Starting => Starting')
  BY <1>1 DEF Starting
<1>4. Starting => at \notin Loop /\ at # "gone"
  BY StartupFacts DEF StartupStages, Loop
<1>5. CASE LoopHead
  BY <1>5 DEF LoopHead, Running, IInv, TypeOK, LifeInv, OutlivesRelay, Loop
<1>6. CASE Receive
  BY <1>6 DEF Receive, Receives, TakenUp, IInv, TypeOK, LifeInv, OutlivesRelay, Loop
<1>7. CASE Handle
  <2>1. relay' \in {"none", "running", "failed"}
    BY <1>7 DEF Handle, After, IInv, TypeOK
  <2> QED  BY <1>7, <2>1 DEF Handle, IInv, TypeOK, LifeInv, OutlivesRelay, Loop
<1>15. CASE BodyRead
  BY <1>15 DEF BodyRead, IInv, TypeOK, LifeInv, OutlivesRelay, Loop
<1>16. CASE AnswerWritten
  <2>1. waiting' \in Seq([from : Clients, what : Requests])
    BY <1>16 DEF AnswerWritten, IInv, TypeOK
  <2> QED  BY <1>16, <2>1 DEF AnswerWritten, IInv, TypeOK, LifeInv, OutlivesRelay, Loop
<1>8. CASE Stop
  BY <1>8 DEF Stop, IInv, TypeOK, LifeInv, OutlivesRelay, Loop
<1>9. CASE Fails
  <2>1. at # "gone" /\ late \in {0, 1}
    BY <1>4, <1>9 DEF Fails, IInv, LifeInv
  <2>2. late = 1 => stopping
    BY DEF IInv, LifeInv
  <2>3. at' = "gone" /\ ended' = "error" /\ relay' = "none"
        /\ UNCHANGED <<http, stopping, waiting, late>>
    BY <1>9 DEF Fails
  <2>4. TypeOK'
    BY <2>1, <2>3 DEF IInv, TypeOK
  <2>5. LifeInv'
    BY <2>1, <2>2, <2>3 DEF LifeInv, OutlivesRelay
  <2> QED  BY <2>4, <2>5 DEF IInv
<1>10. CASE Signal
  BY <1>3, <1>10 DEF Signal, IInv, TypeOK, LifeInv, OutlivesRelay, Loop
<1>11. CASE Killed
  <2>1. relay = "none"
    <3>1. at \notin Loop
      <4>1. \E i, j \in DOMAIN Startup : Startup[i] = at /\ Startup[j] = "handler"
        BY <1>11 DEF Killed, HandlerSet
      <4> QED  BY <1>4, <4>1 DEF Starting
    <3> QED  BY <3>1 DEF IInv, LifeInv
  <2>2. late = 1 => stopping
    BY DEF IInv, LifeInv
  <2>3. late \in {0, 1}
    BY DEF IInv, LifeInv
  <2>4. at' = "gone" /\ ended' = "killed" /\ UNCHANGED <<http, stopping, relay, waiting, late>>
    BY <1>11 DEF Killed
  <2>5. TypeOK'
    BY <2>3, <2>4 DEF IInv, TypeOK
  <2>6. LifeInv'
    BY <2>1, <2>2, <2>3, <2>4 DEF LifeInv, OutlivesRelay
  <2> QED  BY <2>5, <2>6 DEF IInv
<1>12. CASE RelayEnds
  BY <1>3, <1>12 DEF RelayEnds, IInv, TypeOK, LifeInv, OutlivesRelay, Loop
<1>13. ASSUME NEW c \in Clients, NEW what \in Requests, Ask(c, what) PROVE IInv'
  <2>1. waiting' \in Seq([from : Clients, what : Requests]) /\ waiting' # <<>>
    BY <1>13 DEF Ask, IInv, TypeOK
  <2>2. UNCHANGED <<at, http, stopping, relay, ended, late>>
    BY <1>13 DEF Ask
  <2>3. TypeOK'
    BY <1>3, <2>1, <2>2 DEF IInv, TypeOK
  <2>4. LifeInv'
    BY <2>2 DEF IInv, LifeInv, OutlivesRelay
  <2> QED  BY <2>3, <2>4 DEF IInv
<1>14. CASE UNCHANGED vars
  BY <1>3, <1>14 DEF vars, IInv, TypeOK, LifeInv, OutlivesRelay
<1> QED
  BY <1>5, <1>6, <1>7, <1>8, <1>9, <1>10, <1>11, <1>12, <1>13, <1>14, <1>15, <1>16, StepUpKeeps
  DEF Next, Run

LEMMA Invariance == Spec => []IInv
BY InitInv, NextInv, PTL DEF Spec

\* The variables keep their types.
THEOREM TypeCorrect == Spec => []TypeOK
BY Invariance, PTL DEF IInv

\* However the process ends, it does not take a running relay with it.
THEOREM NoRelayIsLeft == Spec => []NoRelayLeft
<1>1. IInv => NoRelayLeft
  BY DEF IInv, LifeInv, Loop, NoRelayLeft
<1> QED  BY <1>1, Invariance, PTL

\* With HTTP only a signal ends the process in order.
THEOREM OutlivesItsRelay == Spec => []OutlivesRelay
BY Invariance, PTL DEF IInv, LifeInv

\* After the signal at most one more request is taken up.
THEOREM OneMoreRequest == Spec => []OneLateRequest
<1>1. IInv => OneLateRequest
  BY DEF IInv, LifeInv, OneLateRequest
<1> QED  BY <1>1, Invariance, PTL

(***************************************************************************)
(* The page.                                                               *)
(***************************************************************************)
LEMMA PageTypeStep ==
  ASSUME PageTypeOK, [PageNext]_browser_vars
  PROVE  PageTypeOK'
<1> USE DEF PageTypeOK, Stages, Awaits, Answers, Fine,
            Works, SignOuts, Await, Answered, ToLogin
<1>1. CASE LoadGoesOn
  <2>1. /\ stage \in {"user", "config", "status"} /\ stage' = NextStage
        /\ net' = [net EXCEPT !["load"] = Following]
        /\ UNCHANGED <<work, loggingOut, going, told, session, runs, signed_out>>
    BY <1>1 DEF LoadGoesOn, Proceed, agent_vars
  <2>2. running' \in BOOLEAN
    BY <1>1 DEF LoadGoesOn, Render
  <2>3. /\ stage' \in {"config", "status", "live"}
        /\ net'["load"] = (IF stage' = "live" THEN "none" ELSE "sent")
        /\ net' \in [Awaits -> Answers \cup {"none", "sent"}]
        /\ net'["poll"] = net["poll"] /\ net["poll"] = "none"
    BY <2>1 DEF NextStage, Following
  <2> QED  BY <2>1, <2>2, <2>3
<1>2. CASE UserDenied
  BY <1>2 DEF UserDenied, Proceed, NextStage, Following,
     agent_vars
<1>3. CASE LoadFails
  BY <1>3 DEF LoadFails, ReportFailure, agent_vars
<1>4. CASE PollReturns
  BY <1>4 DEF PollReturns, NextPoll, Render, agent_vars
<1>5. CASE CommandReturns
  BY <1>5 DEF CommandReturns, Render, agent_vars
<1>6. CASE SignOutSucceeds
  BY <1>6 DEF SignOutSucceeds, agent_vars
<1>7. CASE SignOutFails
  <2>1. /\ loggingOut' = FALSE /\ told' = TRUE /\ net' = [net EXCEPT !["button"] = "none"]
        /\ UNCHANGED <<stage, work, going, running, session, runs, signed_out>>
    BY <1>7 DEF SignOutFails, BackToNormal, agent_vars
  <2>2. net' \in [Awaits -> Answers \cup {"none", "sent"}]
        /\ net'["load"] = net["load"] /\ net'["poll"] = net["poll"]
    BY <2>1
  <2> QED  BY <2>1, <2>2
<1>8. CASE SessionEnds \/ RelayChanges
  <2>1. UNCHANGED <<stage, net, work, loggingOut, going, told, running, signed_out>>
    BY <1>8 DEF SessionEnds, RelayChanges, page_vars
  <2>2. session' \in BOOLEAN /\ runs' \in BOOLEAN
    BY <1>8 DEF SessionEnds, RelayChanges, page_vars
  <2> QED  BY <2>1, <2>2
<1>9. CASE Refresh
  <2>1. /\ stage = "live" /\ net' = [net EXCEPT !["poll"] = "sent"]
        /\ UNCHANGED <<stage, work, loggingOut, going, told, running, session, runs, signed_out>>
    BY <1>9 DEF Refresh, agent_vars
  <2>2. net' \in [Awaits -> Answers \cup {"none", "sent"}]
        /\ net'["load"] = net["load"]
    BY <2>1
  <2> QED  BY <2>1, <2>2
<1>10. CASE Leave
  <2>1. /\ stage' = "left"
        /\ UNCHANGED <<net, work, loggingOut, going, told, running, session, runs, signed_out>>
    BY <1>10 DEF Leave, agent_vars
  <2> QED  BY <2>1
<1>11. CASE Reopen
  BY <1>11 DEF Reopen, FirstRequest
<1>12. ASSUME NEW w \in Works, Click(w) PROVE PageTypeOK'
  BY <1>12 DEF Click, agent_vars
<1>13. ASSUME NEW a \in Awaits, Serve(a) PROVE PageTypeOK'
  BY <1>13 DEF Serve, Status
<1>14. ASSUME NEW a \in Awaits, Lose(a) PROVE PageTypeOK'
  BY <1>14 DEF Lose, agent_vars
<1>15. CASE UNCHANGED browser_vars
  BY <1>15 DEF browser_vars, page_vars, agent_vars
<1> QED
  BY <1>1, <1>2, <1>3, <1>4, <1>5, <1>6, <1>7, <1>8, <1>9, <1>10, <1>11, <1>12, <1>13, <1>14,
     <1>15
  DEF PageNext, Returns

\* The page's variables keep their types; while it loads, and only then, it
\* awaits an answer for its script.
THEOREM PageTypeCorrect == PageSpec => []PageTypeOK
<1>1. PageInit => PageTypeOK
  BY DEF PageInit, PageTypeOK, FirstRequest, Stages, Awaits,
     Answers, Fine, Works, SignOuts
<1> QED  BY <1>1, PageTypeStep, PTL DEF PageSpec

\* The flag stays up from the sign-out's answer to the navigation, since only a
\* sign-out that fails takes it back.
LeavingInv ==
  /\ work = "sign_out" /\ busy => loggingOut
  /\ signed_out = "done" =>
       /\ loggingOut /\ going = "goodbye" /\ stage # "user"
       /\ work = "sign_out" => ~ busy

LEMMA LeavingStep == LeavingInv /\ PageTypeOK /\ [PageNext]_browser_vars => LeavingInv'
<1> SUFFICES ASSUME LeavingInv, PageTypeOK, [PageNext]_browser_vars PROVE LeavingInv'
  OBVIOUS
<1>. USE DEF LeavingInv, Await, agent_vars, busy
<1>0. net \in [Awaits -> Answers \cup {"none", "sent"}] /\ "button" \in Awaits
  BY DEF PageTypeOK, Awaits
<1>1. CASE LoadGoesOn
  <2>1. net'["button"] = net["button"] /\ UNCHANGED <<loggingOut, going, work, signed_out>>
    BY <1>0, <1>1 DEF LoadGoesOn, Proceed
  <2>2. stage # "user" => stage' # "user"
    BY <1>1 DEF LoadGoesOn, Proceed, NextStage
  <2> QED  BY <2>1, <2>2
<1>2. CASE UserDenied
  <2>1. signed_out' # "done" /\ net'["button"] = net["button"]
        /\ UNCHANGED <<loggingOut, work>>
    BY <1>0, <1>2 DEF UserDenied, Proceed
  <2> QED  BY <2>1
<1>3. CASE LoadFails \/ PollReturns
  <2>1. net'["button"] = net["button"] /\ UNCHANGED <<loggingOut, work, signed_out>>
    BY <1>0, <1>3 DEF LoadFails, PollReturns, NextPoll
  <2>2. stage # "user" => stage' # "user"
    BY <1>3 DEF LoadFails, PollReturns
  <2>3. loggingOut => going' = going
    BY <1>3 DEF LoadFails, PollReturns, ToLogin
  <2> QED  BY <2>1, <2>2, <2>3
<1>4. CASE CommandReturns
  <2>1. work' # "sign_out" /\ UNCHANGED <<stage, loggingOut, work, signed_out>>
    BY <1>4 DEF CommandReturns
  <2>2. loggingOut => going' = going
    BY <1>4 DEF CommandReturns, ToLogin
  <2> QED  BY <2>1, <2>2
<1>5. CASE SignOutSucceeds
  <2>1. Answered("button") /\ net' = [net EXCEPT !["button"] = "none"] /\ going' = "goodbye"
        /\ signed_out' = (IF stage = "user" THEN "early" ELSE "done")
        /\ UNCHANGED <<stage, work, loggingOut>> /\ work = "sign_out"
    BY <1>5 DEF SignOutSucceeds
  <2>2. net'["button"] = "none"
    BY <2>1, <1>0
  <2>3. loggingOut
    BY <2>1 DEF Answered, Answers, Fine
  <2> QED  BY <2>1, <2>2, <2>3
<1>6. CASE SignOutFails
  <2>1. signed_out # "done" /\ net' = [net EXCEPT !["button"] = "none"]
    BY <1>6 DEF SignOutFails, Answered, Answers, Fine
  <2>2. net'["button"] = "none" /\ signed_out' # "done"
    BY <2>1, <1>0, <1>6 DEF SignOutFails
  <2> QED  BY <2>2
<1>7. ASSUME NEW w \in Works, Click(w) PROVE LeavingInv'
  BY <1>7, <1>0 DEF Click
<1>8. ASSUME NEW a \in Awaits, Serve(a) \/ Lose(a) PROVE LeavingInv'
  <2>1. net[a] # "none" /\ UNCHANGED <<stage, loggingOut, going, work, signed_out>>
    BY <1>8 DEF Serve, Lose, Fine
  <2>2. a # "button" => net'["button"] = net["button"]
    BY <1>8, <1>0 DEF Serve, Lose
  <2> QED  BY <2>1, <2>2
<1>9. CASE Refresh \/ Leave
  BY <1>9, <1>0 DEF Refresh, Leave
<1>10. CASE Reopen \/ SessionEnds \/ RelayChanges \/ UNCHANGED browser_vars
  BY <1>10 DEF Reopen, FirstRequest, SessionEnds, RelayChanges, browser_vars, page_vars
<1> QED
  BY <1>1, <1>2, <1>3, <1>4, <1>5, <1>6, <1>7, <1>8, <1>9, <1>10 DEF PageNext, Returns

\* A page that was told that it is signed out goes to the end of the session at
\* the provider, whatever answers come late.
THEOREM SignOutIsKept == PageSpec => []SignOutStays
<1>1. PageInit => LeavingInv
  BY DEF PageInit, LeavingInv, FirstRequest
<1>2. LeavingInv => SignOutStays
  BY DEF LeavingInv, SignOutStays
<1> QED  BY <1>1, <1>2, LeavingStep, PageTypeCorrect, PTL DEF PageSpec
=============================================================================
