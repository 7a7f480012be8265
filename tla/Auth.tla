-------------------------------- MODULE Auth --------------------------------
(***************************************************************************)
(* Browser sessions of the management page (cli/src/auth.rs, Auth): login  *)
(* flows, sessions and pending provider logouts, each a table with a limit *)
(* and with entries that expire.                                           *)
(*                                                                         *)
(* One HTTP request is handled at a time (cli/src/main.rs:114), so one     *)
(* request is one step, although a handler that asks the identity provider *)
(* takes a while: the clock moves inside the step.  Every request passes   *)
(* the gate, which first prunes the three tables.                          *)
(*                                                                         *)
(* Logins are numbered.  The number stands for the random keys of the      *)
(* flow, of the session it leads to and of the logout that ends it, and    *)
(* for the flow's `state` parameter: at most one of each exists for a      *)
(* login.  A browser may present any key that it was ever given, or none:  *)
(* requests of several tabs, late answers and dropped cookies.             *)
(*                                                                         *)
(* Time is in ticks, TicksPerSecond to the second, because the code        *)
(* computes the life of a session from whole seconds.                      *)
(***************************************************************************)
EXTENDS Naturals, FiniteSets

CONSTANTS
  Browsers,
  MaxFlows, MaxSessions, MaxLogouts,      \* 64, 128, 128
  FlowSeconds, SessionSeconds, LogoutSeconds,   \* 300, 3600, 60
  TicksPerSecond,
  ProviderTicks,        \* longest time a handler waits for the provider
  MaxLogins, MaxTime    \* bounds

ASSUME AuthAssumption ==
  /\ MaxFlows \in Nat /\ MaxSessions \in Nat /\ MaxLogouts \in Nat
  /\ FlowSeconds \in Nat /\ SessionSeconds \in Nat /\ LogoutSeconds \in Nat
  /\ TicksPerSecond \in Nat \ {0}
  /\ ProviderTicks \in Nat /\ MaxLogins \in Nat /\ MaxTime \in Nat

VARIABLES
  now,
  flows, sessions, logouts,   \* the three HashMaps
  logins,                     \* number of logins begun
  begun_by,                   \* who was given the flow key of a login
  held_by,                    \* who was given the session key, and the logout key
  reply,                      \* history: whether the answer just given was that
                              \* there are too many logins, or the content, and
                              \* for which login
  signed_out,                 \* history: logins whose user has signed out
  exchanges, handoffs         \* history: code exchanges and logouts sent to
                              \* the provider, per login

tables == <<flows, sessions, logouts>>
histories == <<signed_out, exchanges, handoffs>>
vars == <<now, tables, logins, begun_by, held_by, reply, histories>>

Logins == 1..MaxLogins
Nobody == "nobody"
NoKey == 0

Flow == [expires : Nat, endpoint : BOOLEAN]
\* The last three fields are history: the state that came with the callback,
\* the second at which the ID token expires, and the time of the login.
Session == [expires : Nat, endpoint : BOOLEAN, state : Nat, token_expiry : Nat, at : Nat]
Logout == [expires : Nat]
Answers == {"none", "busy", "admitted"}

\* A HashMap with keys among the logins.
IsMap(table, V) == DOMAIN table \subseteq Logins /\ table \in [DOMAIN table -> V]

TypeOK ==
  /\ now \in Nat
  /\ IsMap(flows, Flow) /\ IsMap(sessions, Session) /\ IsMap(logouts, Logout)
  /\ logins \in 0..MaxLogins
  /\ begun_by \in [Logins -> Browsers \cup {Nobody}]
  /\ held_by \in [Logins -> Browsers \cup {Nobody}]
  /\ reply \in [what : Answers, login : Nat]
  /\ signed_out \subseteq Logins
  /\ exchanges \in [Logins -> Nat]
  /\ handoffs \in [Logins -> Nat]

Init ==
  /\ now = 0
  /\ flows = <<>> /\ sessions = <<>> /\ logouts = <<>>
  /\ logins = 0
  /\ begun_by = [k \in Logins |-> Nobody]
  /\ held_by = [k \in Logins |-> Nobody]
  /\ reply = [what |-> "none", login |-> NoKey]
  /\ signed_out = {}
  /\ exchanges = [k \in Logins |-> 0]
  /\ handoffs = [k \in Logins |-> 0]

\* HashMap::remove, insert and retain.
Without(table, key) == [k \in DOMAIN table \ {key} |-> table[k]]
With(table, key, entry) ==
  [k \in DOMAIN table \cup {key} |-> IF k = key THEN entry ELSE table[k]]
Size(table) == Cardinality(DOMAIN table)

\* prune, at the entry of the gate.
Live(table) == [k \in {x \in DOMAIN table : table[x].expires > now} |-> table[k]]
LiveFlows == Live(flows)
\* Mutation: sessions are not pruned.
AllSessions == sessions
LiveSessions == Live(sessions)
LiveLogouts == Live(logouts)

Answer(what, key) == reply' = [what |-> what, login |-> key]
Other == Answer("none", NoKey)
Later == {t \in now..MaxTime : t <= now + ProviderTicks}

FlowKeys(b) == {k \in Logins : begun_by[k] = b} \cup {NoKey}
SessionKeys(b) == {k \in Logins : held_by[k] = b} \cup {NoKey}

(***************************************************************************)
(* GET /auth/login                                                         *)
(***************************************************************************)
\* Mutation: one flow more than the limit.
FlowsOverfull == Size(LiveFlows) > MaxFlows
FlowsFull == Size(LiveFlows) >= MaxFlows

LoginRefused ==
  /\ FlowsFull
  /\ Answer("busy", NoKey)
  /\ flows' = LiveFlows
  /\ UNCHANGED <<now, logins, begun_by>>

\* Discovery, keys or metadata are unavailable or invalid.
LoginUnavailable ==
  /\ ~ FlowsFull
  /\ now' \in Later
  /\ Other
  /\ flows' = LiveFlows
  /\ UNCHANGED <<logins, begun_by>>

\* `endpoint`: discovery advertises a valid end_session_endpoint.
LoginBegins(b, old, endpoint) ==
  /\ ~ FlowsFull
  /\ logins < MaxLogins
  /\ now' \in Later
  /\ logins' = logins + 1
  /\ begun_by' = [begun_by EXCEPT ![logins'] = b]
  /\ flows' = With(Without(LiveFlows, old), logins',
                   [expires |-> now' + FlowSeconds * TicksPerSecond, endpoint |-> endpoint])
  /\ Other

Login(b) ==
  /\ \/ LoginRefused
     \/ LoginUnavailable
     \/ \E old \in FlowKeys(b), endpoint \in BOOLEAN : LoginBegins(b, old, endpoint)
  /\ sessions' = LiveSessions /\ logouts' = LiveLogouts
  /\ UNCHANGED <<held_by, histories>>

(***************************************************************************)
(* GET /auth/callback: the provider sends the browser back with a state.   *)
(***************************************************************************)
\* Mutation: the flow is looked up, not removed.
PeekFlow(key) == LiveFlows

\* The flow of the cookie is used up, whatever comes of it.
FlowTaken(key) == Without(LiveFlows, key)

\* Mutation: any state of a login that was begun will do.
AnyState(key, state) == key \in DOMAIN LiveFlows /\ state # NoKey

\* The checks up to the code: a flow, its state, no error, the issuer.
StateMatches(key, state) == key \in DOMAIN LiveFlows /\ state = key

\* The callback is not for this flow, or the provider says no in it.
CallbackDenied(key) ==
  /\ Other
  /\ flows' = FlowTaken(key)
  /\ UNCHANGED <<now, held_by, exchanges>>
  /\ sessions' = LiveSessions

\* The code is exchanged, but gets no token, an invalid or an expired one, or
\* one without the required group.
ExchangeDenied(key, state) ==
  /\ StateMatches(key, state)
  /\ now' \in Later
  /\ exchanges' = [exchanges EXCEPT ![key] = @ + 1]
  /\ Other
  /\ flows' = FlowTaken(key)
  /\ sessions' = LiveSessions
  /\ UNCHANGED <<held_by>>

\* Seconds left of a token at time t, at most SessionSeconds.
Lifetime(expiry, t) ==
  LET left == expiry - t \div TicksPerSecond
  IN  IF left < SessionSeconds THEN left ELSE SessionSeconds

\* A session gets a key of its own.
SessionKey(key, old) == key

SessionsFull == Size(LiveSessions) >= MaxSessions

\* `expiry` is the second at which a valid ID token expires.
LoginCompletes(b, key, state, old, expiry) ==
  /\ StateMatches(key, state)
  /\ now' \in Later
  /\ expiry * TicksPerSecond > now'
  /\ exchanges' = [exchanges EXCEPT ![key] = @ + 1]
  /\ flows' = FlowTaken(key)
  /\ Other
  /\ IF SessionsFull
       THEN sessions' = LiveSessions /\ UNCHANGED held_by
       ELSE /\ sessions' = With(Without(LiveSessions, old), SessionKey(key, old),
                 [expires |-> now' + Lifetime(expiry, now') * TicksPerSecond,
                  endpoint |-> flows[key].endpoint,
                  state |-> state, token_expiry |-> expiry, at |-> now'])
            /\ held_by' = [held_by EXCEPT ![key] = b]

\* From the second in progress to beyond the longest session.
Expiries == {now \div TicksPerSecond + n : n \in 0..(SessionSeconds + 1)}

Callback(b) ==
  /\ \E key \in FlowKeys(b), state \in 0..logins :
       \/ CallbackDenied(key)
       \/ ExchangeDenied(key, state)
       \/ \E old \in SessionKeys(b), expiry \in Expiries :
            LoginCompletes(b, key, state, old, expiry)
  /\ logouts' = LiveLogouts
  /\ UNCHANGED <<logins, begun_by, signed_out, handoffs>>

(***************************************************************************)
(* POST /auth/logout, GET /auth/end-session                                *)
(***************************************************************************)
LogoutsFull == Size(LiveLogouts) >= MaxLogouts

SessionTaken(key) == Without(LiveSessions, key)

\* The provider is handed over to only with an endpoint and a free place.
SignOut(b, key, old) ==
  /\ key \in DOMAIN LiveSessions
  /\ sessions' = SessionTaken(key)
  /\ signed_out' = signed_out \cup {key}
  /\ IF sessions[key].endpoint /\ ~ LogoutsFull
       THEN /\ logouts' = With(Without(LiveLogouts, old), key,
                               [expires |-> now + LogoutSeconds * TicksPerSecond])
       ELSE logouts' = LiveLogouts
  /\ Other
  /\ flows' = LiveFlows
  /\ UNCHANGED <<now, logins, begun_by, held_by, exchanges, handoffs>>

LogoutTaken(key) == Without(LiveLogouts, key)

EndSession(key) ==
  /\ logouts' = LogoutTaken(key)
  /\ IF key \in DOMAIN LiveLogouts
       THEN handoffs' = [handoffs EXCEPT ![key] = @ + 1]
       ELSE UNCHANGED handoffs
  /\ Other
  /\ flows' = LiveFlows /\ sessions' = LiveSessions
  /\ UNCHANGED <<now, logins, begun_by, held_by, signed_out, exchanges>>

(***************************************************************************)
(* Every other request: assets, /auth/session, /api/...                    *)
(***************************************************************************)
Gate(key) ==
  /\ IF key \in DOMAIN LiveSessions THEN Answer("admitted", key)
                                    ELSE Other
  /\ flows' = LiveFlows /\ sessions' = LiveSessions /\ logouts' = LiveLogouts
  /\ UNCHANGED <<now, logins, begun_by, held_by, histories>>

Request(b) ==
  \/ Login(b)
  \/ Callback(b)
  \/ \E key, old \in SessionKeys(b) : SignOut(b, key, old)
  \/ \E key \in SessionKeys(b) : EndSession(key) \/ Gate(key)

\* The agent process is restarted: the tables are in memory only.
Restart ==
  /\ flows' = <<>> /\ sessions' = <<>> /\ logouts' = <<>>
  /\ Other
  /\ UNCHANGED <<now, logins, begun_by, held_by, histories>>

Tick ==
  /\ now < MaxTime
  /\ now' = now + 1
  /\ Other
  /\ UNCHANGED <<tables, logins, begun_by, held_by, histories>>

Next == (\E b \in Browsers : Request(b)) \/ Restart \/ Tick

Spec == Init /\ [][Next]_vars

(***************************************************************************)
(* Properties.                                                             *)
(***************************************************************************)
\* "Up to 64 pending login flows and 128 active sessions are retained"
\* (README.md), and not more logouts than their limit, although handlers make
\* room for a browser's old entry only after they looked at the limit.
TablesBounded ==
  /\ Size(flows) <= MaxFlows
  /\ Size(sessions) <= MaxSessions
  /\ Size(logouts) <= MaxLogouts

\* A request is let through only on a session that its user has not ended,
\* within SessionSeconds of the login, and less than a second after the ID
\* token expired: the lifetime is cut to seconds of the login's own second.
AdmittedInTime ==
  reply.what = "admitted" =>
    LET session == sessions[reply.login]
    IN  /\ reply.login \notin signed_out
        /\ now < session.at + SessionSeconds * TicksPerSecond
        /\ now < (session.token_expiry + 1) * TicksPerSecond

\* The login that a session rests on was begun and completed by the same
\* browser, though the callback's state and its cookie travel apart.
CompletedWhereBegun ==
  \A k \in DOMAIN sessions : sessions[k].state = k /\ held_by[k] = begun_by[k]

\* A flow's code is exchanged at most once, also when the exchange, the token
\* or the session limit denies the login and the callback is repeated.
ExchangedOnce == \A k \in Logins : exchanges[k] <= 1

\* The provider gets a logout at most once, and only for a user who has
\* signed out here: whose session is gone.
HandedOverOnce ==
  \A k \in Logins :
    /\ handoffs[k] <= 1
    /\ handoffs[k] = 1 \/ k \in DOMAIN logouts => k \in signed_out /\ k \notin DOMAIN sessions

\* A login is refused for lack of room only while MaxFlows flows could still
\* be completed.
RefusedOnlyWhenFull ==
  reply.what = "busy" =>
    Cardinality({k \in DOMAIN flows : flows[k].expires > now}) >= MaxFlows

\* The limits: never exceeded, and never a reason to refuse a login while fewer
\* logins than allowed are under way; entries whose time is over do not count.
LimitsExact == TablesBounded /\ RefusedOnlyWhenFull

\* Whatever is given out to be used once is used once: codes and handoffs, by
\* repeated, late and concurrent requests of a browser's tabs.
SingleUse == ExchangedOnce /\ HandedOverOnce

\* "If discovery advertises a valid `end_session_endpoint`, the browser then
\* submits an OIDC logout POST to it" (README.md:263): so a user of a session
\* with an endpoint gets a handoff to it when signing out.
ProviderLogoutOffered ==
  [][\A k \in Logins :
       k \in signed_out' \ signed_out /\ sessions[k].endpoint => k \in DOMAIN logouts']_vars
=============================================================================
