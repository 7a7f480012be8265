-------------------------------- MODULE Page --------------------------------
(***************************************************************************)
(* One page of the browser console behind a login: how it loads, how it    *)
(* learns that its session has ended, how it signs out, and how it comes   *)
(* to show what the relay does (app.js).  The script awaits one request at *)
(* a time while it loads, one poll of the timer and one of a button, and   *)
(* these three wait side by side.  An answer that holds a status says      *)
(* whether the relay runs.  What commands do to the agent is in Console.   *)
(***************************************************************************)

VARIABLES stage,       \* how far the script's last lines have come
          net,         \* the request each of the three awaits, or its answer
          work,        \* what the button that keeps the page busy does
          loggingOut,  \* the script's flag
          going,       \* the navigation under way
          told,        \* an error was shown to the user
          running,     \* what the page shows
          session,     \* the agent knows the session of this browser
          runs,        \* the agent's relay runs
          signed_out   \* history: a sign-out of this page was answered

page_vars == <<stage, net, work, loggingOut, going, told, running>>
agent_vars == <<session, runs>>
browser_vars == <<page_vars, agent_vars, signed_out>>

Stages == {"user", "config", "status", "live", "failed", "left"}
Awaits == {"load", "poll", "button"}
Fine == {"ok", "on", "off"}
Answers == Fine \cup {"denied", "failed"}
\* Of the commands, only start and stop answer with a status.
Works == {"start_stop", "command", "sign_out"}
\* "early" if /auth/session was still awaited then, "again" if the user asked
\* for another one since.
SignOuts == {"no", "early", "done", "again"}

PageTypeOK ==
  /\ stage \in Stages
  /\ net \in [Awaits -> Answers \cup {"none", "sent"}]
  /\ work \in Works
  /\ loggingOut \in BOOLEAN /\ told \in BOOLEAN /\ running \in BOOLEAN
  /\ session \in BOOLEAN /\ runs \in BOOLEAN
  /\ going \in {"here", "login", "goodbye"} /\ signed_out \in SignOuts
  /\ stage # "left" =>
       /\ (net["load"] # "none") = (stage \in {"user", "config", "status"})
       /\ net["poll"] # "none" => stage = "live"

FirstRequest == [a \in Awaits |-> IF a = "load" THEN "sent" ELSE "none"]

PageInit ==
  /\ stage = "user" /\ net = FirstRequest /\ work = "command"
  /\ loggingOut = FALSE /\ going = "here" /\ told = FALSE /\ running = FALSE
  /\ session = TRUE /\ runs \in BOOLEAN /\ signed_out = "no"

Loading == stage \in {"user", "config", "status"}
busy == net["button"] # "none"
Answered(a) == stage # "left" /\ net[a] \in Answers
Await(a, value) == net' = [net EXCEPT ![a] = value]

\* render(): what the answer says of the relay, if it is a status.
Render(a) ==
  running' = CASE net[a] = "on" -> TRUE [] net[a] = "off" -> FALSE [] OTHER -> running

ToLoginAlways(denied) == going' = IF denied THEN "login" ELSE going

\* A 401 in invoke() sends the page to the login, except while it signs out.
ToLogin(denied) ==
  going' = IF denied /\ ~loggingOut THEN "login" ELSE going

-----------------------------------------------------------------------------
(* Loading.                                                                *)

NextStage ==
  CASE stage = "user" -> "config" [] stage = "config" -> "status"
    [] stage = "status" -> "live" [] OTHER -> stage

\* The answer in hand lets the script go on: its next request, or the timer.
Following == IF stage = "status" THEN "none" ELSE "sent"

Proceed ==
  /\ stage' = NextStage
  /\ Await("load", Following)

LoadGoesOn ==
  /\ Answered("load") /\ net["load"] \in Fine
  /\ Proceed
  /\ Render("load")
  /\ UNCHANGED <<work, loggingOut, going, told, agent_vars, signed_out>>

\* loadUser() looks at the status itself, not at loggingOut, and returns.
UserDenied ==
  /\ Answered("load") /\ stage = "user" /\ net["load"] = "denied"
  /\ Proceed
  /\ going' = "login"
  /\ UNCHANGED <<work, loggingOut, told, running, agent_vars, signed_out>>

\* Any other error ends the script's last statement: no timer is started.
SwallowFailure == told' = told
ReportFailure == told' = TRUE

LoadFails ==
  /\ Answered("load")
  /\ net["load"] = "failed" \/ (net["load"] = "denied" /\ stage # "user")
  /\ stage' = "failed"
  /\ Await("load", "none")
  /\ ToLogin(net["load"] = "denied")
  /\ ReportFailure
  /\ UNCHANGED <<work, loggingOut, running, agent_vars, signed_out>>

-----------------------------------------------------------------------------
(* The timer, which runs when no poll is under way, and the buttons.       *)

Refresh ==
  /\ stage = "live" /\ net["poll"] = "none" /\ ~busy
  /\ Await("poll", "sent")
  /\ UNCHANGED <<stage, work, loggingOut, going, told, running, agent_vars, signed_out>>

\* Mutation: the timer is set again only after a status was read.
NextPollOnSuccess ==
  IF net["poll"] \in Fine THEN Await("poll", "none") ELSE UNCHANGED net
NextPoll == Await("poll", "none")

PollReturns ==
  /\ Answered("poll")
  /\ NextPoll
  /\ Render("poll")
  /\ ToLogin(net["poll"] = "denied")
  /\ told' = (told \/ net["poll"] \notin Fine)
  /\ UNCHANGED <<stage, work, loggingOut, agent_vars, signed_out>>

Click(w) ==
  /\ stage # "left" /\ ~busy
  /\ work' = w
  /\ loggingOut' = (loggingOut \/ w = "sign_out")
  /\ Await("button", "sent")
  /\ signed_out' = IF w = "sign_out" /\ signed_out # "no" THEN "again" ELSE signed_out
  /\ UNCHANGED <<stage, going, told, running, agent_vars>>

CommandReturns ==
  /\ Answered("button") /\ work # "sign_out"
  /\ Await("button", "none")
  /\ Render("button")
  /\ ToLogin(net["button"] = "denied")
  /\ told' = (told \/ net["button"] \notin Fine)
  /\ UNCHANGED <<stage, work, loggingOut, agent_vars, signed_out>>

SignOutSucceeds ==
  /\ Answered("button") /\ work = "sign_out" /\ net["button"] \in Fine
  /\ Await("button", "none")
  /\ going' = "goodbye"
  /\ signed_out' = IF stage = "user" THEN "early" ELSE "done"
  /\ UNCHANGED <<stage, work, loggingOut, told, running, agent_vars>>

StillLeaving == loggingOut' = loggingOut
BackToNormal == loggingOut' = FALSE

SignOutFails ==
  /\ Answered("button") /\ work = "sign_out" /\ net["button"] \notin Fine
  /\ Await("button", "none")
  /\ BackToNormal    \* also if an earlier sign-out had succeeded
  /\ told' = TRUE
  /\ UNCHANGED <<stage, work, going, running, agent_vars, signed_out>>

-----------------------------------------------------------------------------
(* The browser, the network and the agent.                                 *)

\* The navigation that was asked for last takes place and ends the script.
Leave ==
  /\ going # "here" /\ stage # "left"
  /\ stage' = "left"
  /\ UNCHANGED <<net, work, loggingOut, going, told, running, agent_vars, signed_out>>

\* A new login loads the page again.
Reopen ==
  /\ stage = "left"
  /\ stage' = "user" /\ net' = FirstRequest /\ work' = "command"
  /\ loggingOut' = FALSE /\ going' = "here" /\ told' = FALSE /\ running' = FALSE
  /\ session' = TRUE /\ signed_out' = "no" /\ UNCHANGED runs

AsksStatus(a) ==
  CASE a = "load" -> stage = "status" [] a = "button" -> work = "start_stop" [] OTHER -> TRUE
Status == IF runs' THEN "on" ELSE "off"

\* The gate: a sign-out takes the session; without one it is forbidden.  A
\* command may start or stop the relay.
Serve(a) ==
  /\ stage # "left" /\ net[a] = "sent"
  /\ session' = (session /\ ~(a = "button" /\ work = "sign_out"))
  /\ runs' \in IF session /\ a = "button" /\ work = "start_stop" THEN BOOLEAN ELSE {runs}
  /\ Await(a, IF ~session THEN "denied" ELSE IF AsksStatus(a) THEN Status ELSE "ok")
  /\ UNCHANGED <<stage, work, loggingOut, going, told, running, signed_out>>

\* The request, or its answer after it was served, is lost or is an error.
Lose(a) ==
  /\ stage # "left" /\ net[a] \in {"sent", "denied"} \cup Fine
  /\ Await(a, "failed")
  /\ UNCHANGED <<stage, work, loggingOut, going, told, running, agent_vars, signed_out>>

\* Its hour is over, or the agent was started anew.
SessionEnds ==
  /\ session /\ session' = FALSE
  /\ UNCHANGED <<page_vars, runs, signed_out>>

\* The relay fails, or another page starts or stops one.
RelayChanges ==
  /\ runs' = ~runs
  /\ UNCHANGED <<page_vars, session, signed_out>>

Returns ==
  \/ LoadGoesOn \/ UserDenied \/ LoadFails
  \/ PollReturns \/ CommandReturns \/ SignOutSucceeds \/ SignOutFails

PageNext ==
  \/ Returns \/ Refresh \/ Leave \/ Reopen \/ SessionEnds \/ RelayChanges
  \/ \E w \in Works : Click(w)
  \/ \E a \in Awaits : Serve(a) \/ Lose(a)

PageSpec == PageInit /\ [][PageNext]_browser_vars

\* The script runs on when an answer is there, its timer fires, a navigation
\* takes place, every request is served or fails, and not every poll fails.
FairPageSpec ==
  /\ PageSpec
  /\ WF_browser_vars(LoadGoesOn \/ UserDenied \/ LoadFails)
  /\ WF_browser_vars(PollReturns) /\ SF_browser_vars(PollReturns /\ net["poll"] # "failed")
  /\ WF_browser_vars(CommandReturns \/ SignOutSucceeds \/ SignOutFails)
  /\ WF_browser_vars(Leave) /\ SF_browser_vars(Refresh)
  /\ WF_browser_vars(Serve("load") \/ Lose("load")) /\ SF_browser_vars(Serve("poll"))
  /\ WF_browser_vars(Serve("button") \/ Lose("button"))

-----------------------------------------------------------------------------
(* Properties.                                                             *)

(***************************************************************************)
(* A page that was told that it is signed out goes to the end of the       *)
(* session at the provider and nowhere else, whatever was under way when   *)
(* the session was taken: a poll, the rest of the loading, or a command    *)
(* clicked after it, is refused late, and none of them may turn the        *)
(* sign-out into a new login, which the provider would grant without a     *)
(* question.  Two ways in which the code does that are left out here and   *)
(* in SignOutHonoured: /auth/session awaited meanwhile, and a second click *)
(* on "Sign out", whose refusal takes loggingOut back.                     *)
(***************************************************************************)
SignOutStays == signed_out = "done" => going = "goodbye"

(***************************************************************************)
(* Whoever was signed out arrives at the sign-out of the provider or,      *)
(* without one, at the farewell page: "the browser then submits an OIDC    *)
(* logout POST" (README.md).                                               *)
(***************************************************************************)
SignOutHonoured == signed_out # "no" => going = "goodbye"

(***************************************************************************)
(* A page that polls and whose session has ended leaves, once the user     *)
(* lets it, also after a sign-out that failed, half done or not.           *)
(***************************************************************************)
ExpiryNoticed ==
  [](stage = "live" /\ ~session /\ []~busy => <>(stage = "left"))

(***************************************************************************)
(* Once the relay stays as it is, a page that polls comes to show it: an   *)
(* old status that arrives after the answer of a later command, and any    *)
(* number of polls that fail, leave no wrong picture behind.               *)
(***************************************************************************)
CatchesUp ==
  \A r \in BOOLEAN :
    <>[](stage = "live" /\ session /\ runs = r) => <>[](running = r)

(***************************************************************************)
(* Loading does not end in silence: the page polls, or has left, or has    *)
(* told the user that it will not go on, since then nothing will renew     *)
(* what it shows.  (A request that is never answered keeps it waiting: the *)
(* script has no timeout of its own, see FairPageSpec.)                    *)
(***************************************************************************)
LoadSettles ==
  Loading ~> (stage \in {"live", "left"} \/ (stage = "failed" /\ told))
=============================================================================
