------------------------------ MODULE AuthProofs ------------------------------
(***************************************************************************)
(* The safety of logins and sessions, for any number of browsers and       *)
(* logins and for all limits, lifetimes and clock resolutions.             *)
(*                                                                         *)
(* A login passes from the flows to the sessions to the logouts and is in  *)
(* one table at a time; IInv says so, with what each table implies for the *)
(* counts of exchanges and handoffs and for the time a session may last.   *)
(***************************************************************************)
EXTENDS Auth, FiniteSetTheorems, TLAPS

(***************************************************************************)
(* Tables.                                                                 *)
(***************************************************************************)
\* `new` holds some of the entries of `old`, as they were.
Part(new, old) ==
  /\ DOMAIN new \subseteq DOMAIN old
  /\ \A k \in DOMAIN new : new[k] = old[k]

LEMMA Sizes ==
  /\ \A S \in SUBSET Logins : IsFiniteSet(S) /\ Cardinality(S) \in Nat
  /\ \A S, T \in SUBSET Logins : S \subseteq T => Cardinality(S) <= Cardinality(T)
  /\ \A S \in SUBSET Logins, k \in Logins : Cardinality(S \cup {k}) <= Cardinality(S) + 1
<1>1. IsFiniteSet(Logins)
  BY AuthAssumption, FS_Interval DEF Logins
<1>2. \A S \in SUBSET Logins : IsFiniteSet(S) /\ Cardinality(S) \in Nat
  BY <1>1, FS_Subset, FS_CardinalityType
<1>3. \A S, T \in SUBSET Logins : S \subseteq T => Cardinality(S) <= Cardinality(T)
  BY <1>2, FS_Subset
<1>4. \A S \in SUBSET Logins, k \in Logins : Cardinality(S \cup {k}) <= Cardinality(S) + 1
  <2> SUFFICES ASSUME NEW S \in SUBSET Logins, NEW k \in Logins
               PROVE  Cardinality(S \cup {k}) <= Cardinality(S) + 1
    OBVIOUS
  <2>1. IsFiniteSet(S) /\ Cardinality(S) \in Nat
    BY <1>2
  <2>2. Cardinality(S \cup {k}) = IF k \in S THEN Cardinality(S) ELSE Cardinality(S) + 1
    BY <2>1, FS_AddElement
  <2> QED  BY <2>1, <2>2
<1> QED  BY <1>2, <1>3, <1>4

LEMMA PartSize ==
  ASSUME NEW V, NEW old, NEW new, IsMap(old, V), Part(new, old)
  PROVE  Size(new) <= Size(old) /\ Size(new) \in Nat /\ Size(old) \in Nat
BY Sizes DEF IsMap, Part, Size

LEMMA LiveFacts ==
  ASSUME NEW V, NEW table, IsMap(table, V)
  PROVE  /\ IsMap(Live(table), V) /\ Part(Live(table), table)
         /\ DOMAIN Live(table) = {k \in DOMAIN table : table[k].expires > now}
BY DEF IsMap, Live, Part

LEMMA WithoutFacts ==
  ASSUME NEW V, NEW table, IsMap(table, V), NEW key
  PROVE  /\ IsMap(Without(table, key), V) /\ Part(Without(table, key), table)
         /\ DOMAIN Without(table, key) = DOMAIN table \ {key}
BY DEF IsMap, Without, Part

LEMMA WithFacts ==
  ASSUME NEW V, NEW table, IsMap(table, V), NEW key \in Logins, NEW entry \in V
  PROVE  /\ IsMap(With(table, key, entry), V)
         /\ DOMAIN With(table, key, entry) = DOMAIN table \cup {key}
         /\ With(table, key, entry)[key] = entry
         /\ \A k \in DOMAIN table : k # key => With(table, key, entry)[k] = table[k]
         /\ Size(With(table, key, entry)) <= Size(table) + 1
<1>1. /\ IsMap(With(table, key, entry), V)
      /\ DOMAIN With(table, key, entry) = DOMAIN table \cup {key}
      /\ With(table, key, entry)[key] = entry
      /\ \A k \in DOMAIN table : k # key => With(table, key, entry)[k] = table[k]
  BY DEF IsMap, With
<1> QED  BY <1>1, Sizes DEF IsMap, Size

\* Every handler begins with the live entries, and may then remove one.
LEMMA Pruned ==
  ASSUME TypeOK
  PROVE  /\ IsMap(LiveFlows, Flow) /\ Part(LiveFlows, flows)
         /\ IsMap(LiveSessions, Session) /\ Part(LiveSessions, sessions)
         /\ IsMap(LiveLogouts, Logout) /\ Part(LiveLogouts, logouts)
         /\ \A k : /\ IsMap(Without(LiveFlows, k), Flow) /\ Part(Without(LiveFlows, k), LiveFlows)
                   /\ IsMap(Without(LiveSessions, k), Session)
                   /\ Part(Without(LiveSessions, k), LiveSessions)
                   /\ IsMap(Without(LiveLogouts, k), Logout)
                   /\ Part(Without(LiveLogouts, k), LiveLogouts)
BY LiveFacts, WithoutFacts DEF TypeOK, LiveFlows, LiveSessions, LiveLogouts

LEMMA PartOfPart ==
  ASSUME NEW a, NEW b, NEW c, Part(a, b), Part(b, c)
  PROVE  Part(a, c)
BY DEF Part

(***************************************************************************)
(* Time: whole seconds of a token, counted from the second in progress.    *)
(***************************************************************************)
LEMMA SecondsAndTicks ==
  ASSUME NEW t \in Nat
  PROVE  /\ t \div TicksPerSecond \in Nat
         /\ (t \div TicksPerSecond) * TicksPerSecond <= t
         /\ t < ((t \div TicksPerSecond) + 1) * TicksPerSecond
BY AuthAssumption

LEMMA Durations ==
  /\ FlowSeconds * TicksPerSecond \in Nat
  /\ SessionSeconds * TicksPerSecond \in Nat
  /\ LogoutSeconds * TicksPerSecond \in Nat
<1>1. \A a, b \in Nat : a * b \in Nat
  OBVIOUS
<1> QED  BY <1>1, AuthAssumption

LEMMA Longer ==
  ASSUME NEW a \in Int, NEW b \in Int, a <= b
  PROVE  a * TicksPerSecond <= b * TicksPerSecond
BY AuthAssumption

LEMMA LifetimeFacts ==
  ASSUME NEW t \in Nat, NEW expiry \in Nat, expiry * TicksPerSecond > t
  PROVE  LET end == t + Lifetime(expiry, t) * TicksPerSecond
         IN  /\ end \in Nat
             /\ end <= t + SessionSeconds * TicksPerSecond
             /\ end < (expiry + 1) * TicksPerSecond
<1> DEFINE second == t \div TicksPerSecond
           life == Lifetime(expiry, t)
<1>1. second \in Nat /\ second * TicksPerSecond <= t /\ t < (second + 1) * TicksPerSecond
  BY SecondsAndTicks
<1>2. expiry >= second
  <2>1. CASE expiry + 1 <= second
    <3>1. (expiry + 1) * TicksPerSecond <= second * TicksPerSecond
      BY <1>1, <2>1, Longer
    <3>2. (expiry + 1) * TicksPerSecond = expiry * TicksPerSecond + TicksPerSecond
      BY AuthAssumption
    <3> QED  BY <1>1, <3>1, <3>2, AuthAssumption
  <2> QED  BY <1>1, <2>1
<1>3. life \in Nat /\ life <= SessionSeconds /\ life <= expiry - second
  BY <1>1, <1>2, AuthAssumption DEF Lifetime
<1>4. life * TicksPerSecond <= SessionSeconds * TicksPerSecond /\ life * TicksPerSecond \in Nat
  BY <1>3, Longer, AuthAssumption
<1>5. life * TicksPerSecond <= (expiry - second) * TicksPerSecond
  BY <1>1, <1>3, Longer
<1>6. (expiry - second) * TicksPerSecond + (second + 1) * TicksPerSecond = (expiry + 1) * TicksPerSecond
  BY <1>1, AuthAssumption
<1> HIDE DEF second, life
<1>7. t + life * TicksPerSecond \in Nat
  BY <1>4
<1>8. t + life * TicksPerSecond <= t + SessionSeconds * TicksPerSecond
  <2>1. SessionSeconds * TicksPerSecond \in Nat
    BY AuthAssumption
  <2> QED  BY <1>4, <2>1
<1>9. t + life * TicksPerSecond < (expiry + 1) * TicksPerSecond
  <2>1. /\ (expiry - second) * TicksPerSecond \in Int /\ (second + 1) * TicksPerSecond \in Int
        /\ (expiry + 1) * TicksPerSecond \in Int
    BY <1>1, AuthAssumption
  <2> QED  BY <1>1, <1>4, <1>5, <1>6, <2>1
<1> QED  BY <1>7, <1>8, <1>9 DEF life

(***************************************************************************)
(* The invariant.                                                          *)
(***************************************************************************)
FlowsInv ==
  \A k \in DOMAIN flows :
    k <= logins /\ exchanges[k] = 0 /\ k \notin DOMAIN sessions /\ k \notin signed_out

Lasts(session) ==
  /\ session.expires <= session.at + SessionSeconds * TicksPerSecond
  /\ session.expires < (session.token_expiry + 1) * TicksPerSecond

SessionsInv ==
  \A k \in DOMAIN sessions :
    /\ k <= logins /\ k \notin signed_out
    /\ sessions[k].state = k /\ held_by[k] = begun_by[k]
    /\ Lasts(sessions[k])

LogoutsInv == \A k \in DOMAIN logouts : k \in signed_out /\ handoffs[k] = 0

CountsInv ==
  /\ \A k \in Logins : exchanges[k] <= 1 /\ (k > logins => exchanges[k] = 0)
  /\ \A k \in Logins : handoffs[k] <= 1 /\ (handoffs[k] = 1 => k \in signed_out)
  /\ \A k \in signed_out : k <= logins

IInv == TypeOK /\ TablesBounded /\ FlowsInv /\ SessionsInv /\ LogoutsInv /\ CountsInv

LEMMA InitInv == Init => IInv
<1> SUFFICES ASSUME Init PROVE IInv
  OBVIOUS
<1>1. \A table, V : table = <<>> => IsMap(table, V) /\ DOMAIN table = {}
  BY DEF IsMap
<1>2. TypeOK
  BY <1>1, AuthAssumption DEF Init, TypeOK, Answers, NoKey
<1>3. TablesBounded
  BY <1>1, FS_EmptySet, AuthAssumption DEF Init, TablesBounded, Size
<1>4. FlowsInv /\ SessionsInv /\ LogoutsInv
  BY <1>1 DEF Init, FlowsInv, SessionsInv, LogoutsInv
<1>5. CountsInv
  BY DEF Init, CountsInv
<1> QED  BY <1>2, <1>3, <1>4, <1>5 DEF IInv

(***************************************************************************)
(* Steps that at most let entries go: refused and failed requests, the     *)
(* gate, a restart, the clock.                                             *)
(***************************************************************************)
Fewer ==
  /\ IsMap(flows', Flow) /\ Part(flows', flows)
  /\ IsMap(sessions', Session) /\ Part(sessions', sessions)
  /\ IsMap(logouts', Logout) /\ Part(logouts', logouts)

LEMMA FewerBounded ==
  ASSUME IInv, Fewer
  PROVE  TablesBounded'
<1>1. /\ Size(flows') <= Size(flows) /\ Size(flows) \in Nat /\ Size(flows') \in Nat
      /\ Size(sessions') <= Size(sessions) /\ Size(sessions) \in Nat /\ Size(sessions') \in Nat
      /\ Size(logouts') <= Size(logouts) /\ Size(logouts) \in Nat /\ Size(logouts') \in Nat
  BY PartSize DEF IInv, TypeOK, Fewer
<1> QED  BY <1>1, AuthAssumption DEF IInv, TablesBounded

LEMMA FewerKeeps ==
  ASSUME IInv, Fewer, now' \in Nat, reply' \in [what : Answers, login : Nat],
         UNCHANGED <<logins, begun_by, held_by, histories>>
  PROVE  IInv'
<1>1. TypeOK'
  BY DEF IInv, TypeOK, Fewer, histories
<1>2. FlowsInv' /\ SessionsInv' /\ LogoutsInv' /\ CountsInv'
  BY DEF IInv, FlowsInv, SessionsInv, LogoutsInv, CountsInv, Fewer, Part, histories
<1> QED  BY <1>1, <1>2, FewerBounded DEF IInv

LEMMA Replies ==
  ASSUME NEW what \in Answers, NEW key \in Nat, Answer(what, key)
  PROVE  reply' \in [what : Answers, login : Nat]
BY DEF Answer

LEMMA LaterIsNat == TypeOK => \A t \in Later : t \in Nat /\ t >= now
BY AuthAssumption DEF TypeOK, Later

LEMMA OtherIsReply == Other => reply' \in [what : Answers, login : Nat]
BY Replies DEF Other, Answers, NoKey

LEMMA FlowType ==
  \A n \in Nat, e \in BOOLEAN : [expires |-> n, endpoint |-> e] \in Flow
BY Zenon DEF Flow

LEMMA LoginKeeps ==
  ASSUME IInv, NEW b \in Browsers, Login(b)
  PROVE  IInv'
<1>1. /\ TypeOK /\ sessions' = LiveSessions /\ logouts' = LiveLogouts
      /\ UNCHANGED <<held_by, histories>>
  BY DEF IInv, Login
<1>2. CASE LoginRefused \/ LoginUnavailable
  <2>1. Fewer
    BY <1>1, <1>2, Pruned DEF Fewer, LoginRefused, LoginUnavailable
  <2>2. now' \in Nat /\ UNCHANGED <<logins, begun_by>>
    BY <1>1, <1>2, LaterIsNat DEF LoginRefused, LoginUnavailable, TypeOK
  <2>3. reply' \in [what : Answers, login : Nat]
    BY <1>2, Replies, OtherIsReply DEF LoginRefused, LoginUnavailable, Answers, NoKey
  <2> QED  BY <1>1, <2>1, <2>2, <2>3, FewerKeeps
<1>3. ASSUME NEW old \in FlowKeys(b), NEW endpoint \in BOOLEAN, LoginBegins(b, old, endpoint)
      PROVE  IInv'
  <2> DEFINE entry == [expires |-> now' + FlowSeconds * TicksPerSecond, endpoint |-> endpoint]
             kept == Without(LiveFlows, old)
  <2>1. /\ Size(LiveFlows) < MaxFlows \/ ~ (Size(LiveFlows) >= MaxFlows)
        /\ logins < MaxLogins /\ logins' = logins + 1 /\ now' \in Later
        /\ begun_by' = [begun_by EXCEPT ![logins'] = b]
        /\ flows' = With(kept, logins', entry) /\ Other
    BY <1>3 DEF LoginBegins, FlowsFull
  <2>2. logins \in 0..MaxLogins /\ logins' \in Logins /\ now' \in Nat
    BY <1>1, <2>1, LaterIsNat, AuthAssumption DEF TypeOK, Logins
  <2>3. entry \in Flow
    <3>1. now' + FlowSeconds * TicksPerSecond \in Nat
      BY <2>2, Durations
    <3> HIDE DEF entry
    <3>2. [expires |-> now' + FlowSeconds * TicksPerSecond, endpoint |-> endpoint] \in Flow
      BY <3>1, FlowType, Zenon
    <3> QED  BY <3>2, Zenon DEF entry
  <2>4. IsMap(kept, Flow) /\ Part(kept, flows) /\ Size(kept) <= Size(LiveFlows)
        /\ Size(LiveFlows) \in Nat /\ Size(kept) \in Nat
    BY <1>1, Pruned, PartOfPart, PartSize
  <2> HIDE DEF entry, kept
  <2>5. /\ IsMap(flows', Flow) /\ DOMAIN flows' = DOMAIN kept \cup {logins'}
        /\ Size(flows') <= Size(kept) + 1
    BY <2>1, <2>2, <2>3, <2>4, WithFacts
  <2>6. /\ IsMap(sessions', Session) /\ Part(sessions', sessions)
        /\ IsMap(logouts', Logout) /\ Part(logouts', logouts)
    BY <1>1, Pruned
  <2>7. TypeOK'
    <3>1. begun_by' \in [Logins -> Browsers \cup {Nobody}]
      BY <1>1, <2>1, <2>2 DEF TypeOK
    <3>2. logins' \in 0..MaxLogins
      BY <2>2, AuthAssumption DEF Logins
    <3> QED  BY <1>1, <2>1, <2>2, <2>5, <2>6, <3>1, <3>2, OtherIsReply DEF TypeOK, histories
  <2>8. TablesBounded'
    <3>1. Size(flows') <= MaxFlows
      <4>1. Size(flows') \in Nat
        BY <2>5, Sizes DEF IsMap, Size
      <4> QED  BY <2>1, <2>4, <2>5, <4>1, AuthAssumption
    <3>2. Size(sessions') <= MaxSessions /\ Size(logouts') <= MaxLogouts
      <4>1. /\ Size(sessions') <= Size(sessions) /\ Size(sessions) \in Nat /\ Size(sessions') \in Nat
            /\ Size(logouts') <= Size(logouts) /\ Size(logouts) \in Nat /\ Size(logouts') \in Nat
        BY <1>1, <2>6, PartSize DEF TypeOK
      <4> QED  BY <4>1, AuthAssumption DEF IInv, TablesBounded
    <3> QED  BY <3>1, <3>2 DEF TablesBounded
  <2>9. FlowsInv'
    <3>1. ASSUME NEW k \in DOMAIN kept
          PROVE  k <= logins' /\ exchanges'[k] = 0 /\ k \notin DOMAIN sessions' /\ k \notin signed_out'
      <4>1. k \in Nat /\ k \in DOMAIN flows
        BY <2>4 DEF IsMap, Part, Logins
      <4> QED  BY <1>1, <2>1, <2>2, <2>6, <4>1 DEF IInv, FlowsInv, Part, histories
    <3>2. exchanges'[logins'] = 0 /\ logins' \notin DOMAIN sessions' /\ logins' \notin signed_out'
      <4>1. ~ (logins' <= logins) /\ logins' > logins
        BY <2>1, <2>2
      <4> QED  BY <1>1, <2>2, <2>6, <4>1 DEF IInv, CountsInv, SessionsInv, Part, histories
    <3>3. logins' <= logins'
      BY <2>2 DEF Logins
    <3> QED  BY <2>5, <3>1, <3>2, <3>3 DEF FlowsInv
  <2>10. SessionsInv'
    <3> SUFFICES ASSUME NEW k \in DOMAIN sessions'
                 PROVE  /\ k <= logins' /\ k \notin signed_out'
                        /\ sessions'[k].state = k /\ held_by'[k] = begun_by'[k]
                        /\ Lasts(sessions'[k])
      BY DEF SessionsInv, Lasts
    <3>1. k \in DOMAIN sessions /\ sessions'[k] = sessions[k] /\ k \in Logins
      BY <2>6 DEF Part, IsMap
    <3>2. k <= logins /\ k # logins' /\ k <= logins'
      BY <2>1, <2>2, <3>1 DEF IInv, SessionsInv, Logins
    <3> QED  BY <1>1, <2>1, <3>1, <3>2 DEF IInv, SessionsInv, TypeOK, histories
  <2>11. LogoutsInv'
    BY <1>1, <2>6 DEF IInv, LogoutsInv, Part, histories
  <2>12. CountsInv'
    <3>1. \A k \in Logins : k > logins' => k > logins
      BY <2>1, <2>2 DEF Logins
    <3>2. \A k \in signed_out : k <= logins => k <= logins'
      BY <1>1, <2>1, <2>2 DEF TypeOK, Logins
    <3> QED  BY <1>1, <3>1, <3>2 DEF IInv, CountsInv, histories
  <2> QED  BY <2>7, <2>8, <2>9, <2>10, <2>11, <2>12 DEF IInv
<1> QED  BY <1>2, <1>3 DEF Login

\* The exchange of the code of a flow, which is removed in the same step.
LEMMA ExchangeKeeps ==
  ASSUME IInv, NEW key \in DOMAIN LiveFlows, flows' = FlowTaken(key),
         exchanges' = [exchanges EXCEPT ![key] = @ + 1],
         UNCHANGED <<logins, signed_out, handoffs>>, logouts' = LiveLogouts
  PROVE  /\ key \in Logins /\ key \in DOMAIN flows /\ key <= logins
         /\ key \notin DOMAIN sessions /\ key \notin signed_out
         /\ IsMap(flows', Flow) /\ Part(flows', flows) /\ key \notin DOMAIN flows'
         /\ exchanges' \in [Logins -> Nat]
         /\ CountsInv' /\ LogoutsInv'
         /\ \A k \in DOMAIN flows' : /\ k <= logins' /\ exchanges'[k] = 0
                                     /\ k \notin signed_out'
                                     /\ k \notin DOMAIN sessions /\ k # key
<1>1. TypeOK /\ IsMap(LiveFlows, Flow) /\ Part(LiveFlows, flows)
  BY Pruned DEF IInv
<1>2. key \in Logins /\ key \in DOMAIN flows
  BY <1>1 DEF IsMap, Part
<1>3. key <= logins /\ exchanges[key] = 0 /\ key \notin DOMAIN sessions /\ key \notin signed_out
  BY <1>2 DEF IInv, FlowsInv
<1>4. /\ IsMap(flows', Flow) /\ Part(flows', flows) /\ DOMAIN flows' = DOMAIN LiveFlows \ {key}
  BY <1>1, Pruned, PartOfPart, WithoutFacts DEF FlowTaken
<1>5. exchanges' \in [Logins -> Nat] /\ exchanges'[key] = 1
      /\ \A k \in Logins : k # key => exchanges'[k] = exchanges[k]
  BY <1>1, <1>2, <1>3 DEF TypeOK
<1>6. CountsInv'
  <2>1. \A k \in Logins : exchanges'[k] <= 1 /\ (k > logins' => exchanges'[k] = 0)
    <3>1. ~ (key > logins)
      BY <1>1, <1>2, <1>3 DEF TypeOK, Logins
    <3> QED  BY <1>5, <3>1 DEF IInv, CountsInv
  <2> QED  BY <2>1 DEF IInv, CountsInv
<1>7. LogoutsInv'
  BY <1>1, Pruned DEF IInv, LogoutsInv, Part
<1>8. \A k \in DOMAIN flows' : /\ k <= logins' /\ exchanges'[k] = 0
                               /\ k \notin signed_out' /\ k \notin DOMAIN sessions /\ k # key
  <2>1. \A k \in DOMAIN flows' : k \in DOMAIN flows /\ k # key /\ k \in Logins
    BY <1>4 DEF Part, IsMap
  <2> QED  BY <1>5, <2>1 DEF IInv, FlowsInv
<1> QED  BY <1>2, <1>3, <1>4, <1>5, <1>6, <1>7, <1>8

LEMMA CallbackKeeps ==
  ASSUME IInv, NEW b \in Browsers, Callback(b)
  PROVE  IInv'
<1>1. TypeOK /\ logouts' = LiveLogouts /\ UNCHANGED <<logins, begun_by, signed_out, handoffs>>
  BY DEF IInv, Callback
<1>2. IsMap(logouts', Logout) /\ Part(logouts', logouts)
      /\ IsMap(LiveSessions, Session) /\ Part(LiveSessions, sessions)
  BY <1>1, Pruned
<1>3. ASSUME NEW key, CallbackDenied(key) PROVE IInv'
  <2>1. Fewer
    BY <1>1, <1>2, <1>3, Pruned, PartOfPart DEF CallbackDenied, FlowTaken, Fewer
  <2> QED
    BY <1>1, <1>3, <2>1, FewerKeeps, OtherIsReply DEF CallbackDenied, histories, TypeOK
<1>4. ASSUME NEW key, NEW state, ExchangeDenied(key, state) PROVE IInv'
  <2>1. /\ key \in DOMAIN LiveFlows /\ flows' = FlowTaken(key) /\ now' \in Later
        /\ exchanges' = [exchanges EXCEPT ![key] = @ + 1]
        /\ Other /\ sessions' = LiveSessions /\ UNCHANGED held_by
    BY <1>4 DEF ExchangeDenied, StateMatches
  <2>2. /\ IsMap(flows', Flow) /\ Part(flows', flows) /\ exchanges' \in [Logins -> Nat]
        /\ CountsInv' /\ LogoutsInv'
        /\ \A k \in DOMAIN flows' : /\ k <= logins' /\ exchanges'[k] = 0
                                    /\ k \notin signed_out' /\ k \notin DOMAIN sessions
    BY <1>1, <2>1, ExchangeKeeps
  <2>3. Fewer
    BY <1>1, <1>2, <2>1, <2>2 DEF Fewer
  <2>4. TypeOK'
    BY <1>1, <1>2, <2>1, <2>2, OtherIsReply, LaterIsNat DEF TypeOK
  <2>5. FlowsInv' /\ SessionsInv'
    BY <1>1, <1>2, <2>1, <2>2 DEF IInv, FlowsInv, SessionsInv, Part
  <2> QED  BY <2>2, <2>3, <2>4, <2>5, FewerBounded DEF IInv
<1>5. ASSUME NEW key, NEW state \in 0..logins, NEW old, NEW expiry \in Expiries,
             key \in FlowKeys(b), LoginCompletes(b, key, state, old, expiry)
      PROVE  IInv'
  <2> DEFINE entry == [expires |-> now' + Lifetime(expiry, now') * TicksPerSecond,
                       endpoint |-> flows[key].endpoint,
                       state |-> state, token_expiry |-> expiry, at |-> now']
             kept == Without(LiveSessions, old)
  <2>1. /\ key \in DOMAIN LiveFlows /\ state = key /\ flows' = FlowTaken(key) /\ now' \in Later
        /\ expiry * TicksPerSecond > now'
        /\ exchanges' = [exchanges EXCEPT ![key] = @ + 1] /\ Other
        /\ \/ sessions' = LiveSessions /\ UNCHANGED held_by
           \/ /\ ~ SessionsFull /\ sessions' = With(kept, key, entry)
              /\ held_by' = [held_by EXCEPT ![key] = b]
    BY <1>5 DEF LoginCompletes, StateMatches, SessionKey
  <2>2. /\ key \in Logins /\ key \in DOMAIN flows /\ key <= logins
        /\ key \notin DOMAIN sessions /\ key \notin signed_out
        /\ IsMap(flows', Flow) /\ Part(flows', flows) /\ exchanges' \in [Logins -> Nat]
        /\ CountsInv' /\ LogoutsInv'
        /\ \A k \in DOMAIN flows' : /\ k <= logins' /\ exchanges'[k] = 0
                                    /\ k \notin signed_out'
                                    /\ k \notin DOMAIN sessions /\ k # key
    BY <1>1, <2>1, ExchangeKeeps
  <2>3. begun_by[key] = b
    BY <1>5, <2>2 DEF FlowKeys, NoKey, Logins
  <2>4. now' \in Nat /\ expiry \in Nat /\ state \in Nat
    <3>1. now' \in Nat /\ now \in Nat
      BY <1>1, <2>1, LaterIsNat DEF TypeOK
    <3>2. now \div TicksPerSecond \in Nat
      BY <3>1, SecondsAndTicks
    <3> QED  BY <2>1, <2>2, <3>1, <3>2, AuthAssumption DEF Expiries, Logins
  <2>5. /\ now' + Lifetime(expiry, now') * TicksPerSecond \in Nat
        /\ Lasts(entry)
    <3>1. LET end == now' + Lifetime(expiry, now') * TicksPerSecond
          IN  /\ end \in Nat
              /\ end <= now' + SessionSeconds * TicksPerSecond
              /\ end < (expiry + 1) * TicksPerSecond
      BY <2>1, <2>4, LifetimeFacts
    <3> QED  BY <3>1 DEF Lasts
  <2>6. entry \in Session /\ entry.state = key
    <3>1. flows[key] \in Flow
      BY <1>1, <2>2 DEF TypeOK, IsMap
    <3>2. flows[key].endpoint \in BOOLEAN
      BY <3>1 DEF Flow
    <3>3. \A n, s, t, a \in Nat, e \in BOOLEAN :
            [expires |-> n, endpoint |-> e, state |-> s, token_expiry |-> t, at |-> a] \in Session
      BY Zenon DEF Session
    <3>4. entry \in Session
      BY <2>4, <2>5, <3>2, <3>3, Zenon
    <3> QED  BY <2>1, <3>4
  <2> HIDE DEF entry, kept
  <2>7. CASE sessions' = LiveSessions /\ UNCHANGED held_by
    <3>1. Fewer
      BY <1>1, <1>2, <2>2, <2>7 DEF Fewer
    <3>2. TypeOK'
      BY <1>1, <1>2, <2>1, <2>2, <2>4, <2>7, OtherIsReply DEF TypeOK
    <3>3. FlowsInv' /\ SessionsInv'
      BY <1>1, <1>2, <2>2, <2>7 DEF IInv, FlowsInv, SessionsInv, Part
    <3> QED  BY <2>2, <3>1, <3>2, <3>3, FewerBounded DEF IInv
  <2>8. CASE /\ ~ SessionsFull /\ sessions' = With(kept, key, entry)
             /\ held_by' = [held_by EXCEPT ![key] = b]
    <3>1. IsMap(kept, Session) /\ Part(kept, sessions) /\ Size(kept) <= Size(LiveSessions)
          /\ Size(LiveSessions) \in Nat /\ Size(kept) \in Nat
      BY <1>1, Pruned, PartOfPart, PartSize DEF kept
    <3>2. /\ IsMap(sessions', Session) /\ DOMAIN sessions' = DOMAIN kept \cup {key}
          /\ sessions'[key] = entry
          /\ \A k \in DOMAIN kept : k # key => sessions'[k] = kept[k]
          /\ Size(sessions') <= Size(kept) + 1
      <4>1. key \in Logins /\ entry \in Session /\ IsMap(kept, Session)
        BY <2>2, <2>6, <3>1
      <4>2. /\ IsMap(With(kept, key, entry), Session)
            /\ DOMAIN With(kept, key, entry) = DOMAIN kept \cup {key}
            /\ With(kept, key, entry)[key] = entry
            /\ \A k \in DOMAIN kept : k # key => With(kept, key, entry)[k] = kept[k]
            /\ Size(With(kept, key, entry)) <= Size(kept) + 1
        BY <4>1, WithFacts
      <4> QED  BY <2>8, <4>2
    <3>3. held_by' \in [Logins -> Browsers \cup {Nobody}]
          /\ held_by'[key] = b /\ \A k \in Logins : k # key => held_by'[k] = held_by[k]
      BY <1>1, <2>2, <2>8 DEF TypeOK
    <3>4. TypeOK'
      BY <1>1, <1>2, <2>1, <2>2, <2>4, <3>2, <3>3, OtherIsReply DEF TypeOK
    <3>5. TablesBounded'
      <4>1. ~ (Size(LiveSessions) >= MaxSessions)
        BY <2>8 DEF SessionsFull
      <4>2. Size(sessions') \in Nat
        BY <3>2, Sizes DEF IsMap, Size
      <4>3. /\ Size(flows') <= Size(flows) /\ Size(flows) \in Nat /\ Size(flows') \in Nat
            /\ Size(logouts') <= Size(logouts) /\ Size(logouts) \in Nat /\ Size(logouts') \in Nat
        BY <1>1, <1>2, <2>2, PartSize DEF TypeOK
      <4> QED  BY <3>1, <3>2, <4>1, <4>2, <4>3, AuthAssumption DEF IInv, TablesBounded
    <3>6. FlowsInv'
      BY <2>2, <3>1, <3>2 DEF FlowsInv, Part
    <3>7. SessionsInv'
      <4> SUFFICES ASSUME NEW k \in DOMAIN sessions'
                   PROVE  /\ k <= logins' /\ k \notin signed_out'
                          /\ sessions'[k].state = k /\ held_by'[k] = begun_by'[k]
                          /\ Lasts(sessions'[k])
        BY DEF SessionsInv, Lasts
      <4>1. CASE k = key
        BY <1>1, <2>2, <2>3, <2>5, <2>6, <3>2, <3>3, <4>1
      <4>2. CASE k # key
        <5>1. k \in DOMAIN sessions /\ sessions'[k] = sessions[k] /\ k \in Logins
          BY <3>1, <3>2, <4>2 DEF Part, IsMap
        <5> QED  BY <1>1, <3>3, <4>2, <5>1 DEF IInv, SessionsInv
      <4> QED  BY <4>1, <4>2
    <3> QED  BY <2>2, <3>4, <3>5, <3>6, <3>7 DEF IInv
  <2> QED  BY <2>1, <2>7, <2>8
<1> QED  BY <1>3, <1>4, <1>5 DEF Callback

LEMMA SignOutKeeps ==
  ASSUME IInv, NEW b \in Browsers, NEW key, NEW old, SignOut(b, key, old)
  PROVE  IInv'
<1> DEFINE entry == [expires |-> now + LogoutSeconds * TicksPerSecond]
           kept == Without(LiveLogouts, old)
<1>1. /\ TypeOK /\ key \in DOMAIN LiveSessions /\ sessions' = SessionTaken(key)
      /\ signed_out' = signed_out \cup {key} /\ flows' = LiveFlows /\ Other
      /\ UNCHANGED <<now, logins, begun_by, held_by, exchanges, handoffs>>
      /\ \/ logouts' = LiveLogouts
         \/ ~ LogoutsFull /\ logouts' = With(kept, key, entry)
  BY DEF IInv, SignOut
<1>2. /\ key \in Logins /\ key \in DOMAIN sessions /\ key <= logins /\ key \notin signed_out
      /\ key \notin DOMAIN flows
  <2>1. key \in Logins /\ key \in DOMAIN sessions
    BY <1>1, Pruned DEF Part, IsMap
  <2> QED  BY <2>1 DEF IInv, SessionsInv, FlowsInv
<1>3. /\ IsMap(sessions', Session) /\ Part(sessions', sessions) /\ key \notin DOMAIN sessions'
      /\ IsMap(flows', Flow) /\ Part(flows', flows)
  <2>1. IsMap(sessions', Session) /\ Part(sessions', LiveSessions) /\ Part(LiveSessions, sessions)
    BY <1>1, Pruned DEF SessionTaken
  <2>2. DOMAIN sessions' = DOMAIN LiveSessions \ {key}
    BY <1>1, Pruned, WithoutFacts DEF SessionTaken
  <2>3. IsMap(flows', Flow) /\ Part(flows', flows)
    BY <1>1, Pruned
  <2> QED  BY <2>1, <2>2, <2>3, PartOfPart
<1>4. handoffs[key] = 0
  BY <1>1, <1>2 DEF IInv, CountsInv, TypeOK
<1>5. entry \in Logout /\ now \in Nat
  BY <1>1, Durations DEF Logout, TypeOK
<1> HIDE DEF entry
<1>6. /\ IsMap(kept, Logout) /\ Part(kept, logouts) /\ Size(kept) <= Size(LiveLogouts)
      /\ Size(LiveLogouts) \in Nat /\ Size(kept) \in Nat
  BY <1>1, Pruned, PartOfPart, PartSize
<1> HIDE DEF kept
<1>7. /\ IsMap(With(kept, key, entry), Logout)
      /\ DOMAIN With(kept, key, entry) = DOMAIN kept \cup {key}
      /\ Size(With(kept, key, entry)) <= Size(kept) + 1
  BY <1>2, <1>5, <1>6, WithFacts
<1>8. IsMap(logouts', Logout) /\ DOMAIN logouts' \subseteq DOMAIN logouts \cup {key}
  BY <1>1, <1>6, <1>7, Pruned DEF Part
<1>9. Size(logouts') <= MaxLogouts
  <2>1. CASE logouts' = LiveLogouts
    <3>1. Size(logouts') <= Size(logouts) /\ Size(logouts) \in Nat /\ Size(logouts') \in Nat
      BY <1>1, <2>1, Pruned, PartSize DEF TypeOK
    <3> QED  BY <3>1, AuthAssumption DEF IInv, TablesBounded
  <2>2. CASE ~ LogoutsFull /\ logouts' = With(kept, key, entry)
    <3>1. ~ (Size(LiveLogouts) >= MaxLogouts)
      BY <2>2 DEF LogoutsFull
    <3>2. Size(logouts') \in Nat
      BY <1>8, Sizes DEF IsMap, Size
    <3> QED  BY <1>6, <1>7, <2>2, <3>1, <3>2, AuthAssumption
  <2> QED  BY <1>1, <2>1, <2>2
<1>10. TypeOK'
  BY <1>1, <1>2, <1>3, <1>8, OtherIsReply DEF TypeOK
<1>11. TablesBounded'
  <2>1. /\ Size(flows') <= Size(flows) /\ Size(flows) \in Nat /\ Size(flows') \in Nat
        /\ Size(sessions') <= Size(sessions) /\ Size(sessions) \in Nat /\ Size(sessions') \in Nat
    BY <1>1, <1>3, PartSize DEF TypeOK
  <2> QED  BY <1>9, <2>1, AuthAssumption DEF IInv, TablesBounded
<1>12. FlowsInv' /\ SessionsInv'
  BY <1>1, <1>2, <1>3 DEF IInv, FlowsInv, SessionsInv, Part
<1>13. LogoutsInv'
  BY <1>1, <1>4, <1>8 DEF IInv, LogoutsInv
<1>14. CountsInv'
  BY <1>1, <1>2 DEF IInv, CountsInv
<1> QED  BY <1>10, <1>11, <1>12, <1>13, <1>14 DEF IInv

LEMMA EndSessionKeeps ==
  ASSUME IInv, NEW key, EndSession(key)
  PROVE  IInv'
<1>1. /\ TypeOK /\ logouts' = LogoutTaken(key) /\ Other
      /\ flows' = LiveFlows /\ sessions' = LiveSessions
      /\ UNCHANGED <<now, logins, begun_by, held_by, signed_out, exchanges>>
      /\ \/ UNCHANGED handoffs
         \/ key \in DOMAIN LiveLogouts /\ handoffs' = [handoffs EXCEPT ![key] = @ + 1]
  BY DEF IInv, EndSession
<1>2. Fewer /\ key \notin DOMAIN logouts'
  <2>1. IsMap(logouts', Logout) /\ Part(logouts', LiveLogouts) /\ Part(LiveLogouts, logouts)
    BY <1>1, Pruned DEF LogoutTaken
  <2>2. DOMAIN logouts' = DOMAIN LiveLogouts \ {key}
    BY <1>1, Pruned, WithoutFacts DEF LogoutTaken
  <2>3. /\ IsMap(flows', Flow) /\ Part(flows', flows)
        /\ IsMap(sessions', Session) /\ Part(sessions', sessions)
    BY <1>1, Pruned
  <2> QED  BY <2>1, <2>2, <2>3, PartOfPart DEF Fewer
<1>3. now' \in Nat /\ reply' \in [what : Answers, login : Nat]
  BY <1>1, OtherIsReply DEF TypeOK
<1>4. CASE UNCHANGED handoffs
  BY <1>1, <1>2, <1>3, <1>4, FewerKeeps DEF histories
<1>5. CASE key \in DOMAIN LiveLogouts /\ handoffs' = [handoffs EXCEPT ![key] = @ + 1]
  <2>1. key \in Logins /\ key \in DOMAIN logouts
    BY <1>1, <1>5, Pruned DEF Part, IsMap
  <2>2. handoffs[key] = 0 /\ key \in signed_out
    BY <2>1 DEF IInv, LogoutsInv
  <2>3. handoffs' \in [Logins -> Nat] /\ handoffs'[key] = 1
        /\ \A k \in Logins : k # key => handoffs'[k] = handoffs[k]
    BY <1>1, <1>5, <2>1, <2>2 DEF TypeOK
  <2>4. TypeOK'
    BY <1>1, <1>2, <1>3, <2>3 DEF TypeOK, Fewer
  <2>5. FlowsInv' /\ SessionsInv'
    BY <1>1, <1>2 DEF IInv, FlowsInv, SessionsInv, Fewer, Part
  <2>6. LogoutsInv'
    <3>1. \A k \in DOMAIN logouts' : k \in DOMAIN logouts /\ k # key /\ k \in Logins
      BY <1>2 DEF Fewer, Part, IsMap
    <3> QED  BY <1>1, <2>3, <3>1 DEF IInv, LogoutsInv
  <2>7. CountsInv'
    BY <1>1, <2>2, <2>3 DEF IInv, CountsInv
  <2> QED  BY <1>2, <2>4, <2>5, <2>6, <2>7, FewerBounded DEF IInv
<1> QED  BY <1>1, <1>4, <1>5

LEMMA GateKeeps ==
  ASSUME IInv, NEW key, Gate(key)
  PROVE  IInv'
<1>1. TypeOK /\ Fewer /\ UNCHANGED <<now, logins, begun_by, held_by, histories>>
  BY Pruned DEF IInv, Gate, Fewer
<1>2. reply' \in [what : Answers, login : Nat]
  <2>1. key \in DOMAIN LiveSessions => key \in Nat
    BY <1>1, Pruned DEF IsMap, Logins
  <2> QED  BY <2>1, Replies, OtherIsReply DEF Gate, Answers
<1> QED  BY <1>1, <1>2, FewerKeeps DEF TypeOK

LEMMA RestartKeeps ==
  ASSUME IInv, Restart
  PROVE  IInv'
<1>1. \A old, V : IsMap(<<>>, V) /\ Part(<<>>, old)
  BY DEF IsMap, Part
<1> QED  BY <1>1, FewerKeeps, OtherIsReply DEF IInv, TypeOK, Restart, Fewer

LEMMA NextInv ==
  ASSUME IInv, [Next]_vars
  PROVE  IInv'
<1>1. ASSUME NEW b \in Browsers, Request(b) PROVE IInv'
  BY <1>1, LoginKeeps, CallbackKeeps, SignOutKeeps, EndSessionKeeps, GateKeeps DEF Request
<1>2. CASE Tick
  <2>1. Fewer
    BY <1>2 DEF IInv, TypeOK, Tick, tables, Fewer, Part
  <2> QED  BY <1>2, <2>1, FewerKeeps, OtherIsReply DEF IInv, TypeOK, Tick
<1>3. CASE UNCHANGED vars
  <2>1. Fewer
    BY <1>3 DEF IInv, TypeOK, vars, tables, Fewer, Part
  <2> QED  BY <1>3, <2>1, FewerKeeps DEF IInv, TypeOK, vars
<1> QED  BY <1>1, <1>2, <1>3, RestartKeeps DEF Next

LEMMA Invariance == Spec => []IInv
BY InitInv, NextInv, PTL DEF Spec

(***************************************************************************)
(* The theorems.                                                           *)
(***************************************************************************)
\* The variables keep their types.
THEOREM TypeCorrect == Spec => []TypeOK
BY Invariance, PTL DEF IInv

\* A session belongs to the browser that began its login, and rests on the
\* state of that login.
THEOREM SessionsAreOwn == Spec => []CompletedWhereBegun
<1>1. IInv => CompletedWhereBegun
  BY DEF IInv, SessionsInv, CompletedWhereBegun
<1> QED  BY <1>1, Invariance, PTL

\* A code is exchanged once and a logout handed over once, and then for a
\* session that its user has ended.
THEOREM UsedOnce == Spec => []SingleUse
<1>1. IInv => ExchangedOnce
  BY DEF IInv, CountsInv, ExchangedOnce
<1>2. IInv => HandedOverOnce
  <2> SUFFICES ASSUME IInv, NEW k \in Logins
               PROVE  /\ handoffs[k] <= 1
                      /\ handoffs[k] = 1 \/ k \in DOMAIN logouts =>
                           k \in signed_out /\ k \notin DOMAIN sessions
    BY DEF HandedOverOnce
  <2>1. handoffs[k] = 1 \/ k \in DOMAIN logouts => k \in signed_out
    BY DEF IInv, CountsInv, LogoutsInv
  <2>2. k \in signed_out => k \notin DOMAIN sessions
    BY DEF IInv, SessionsInv
  <2> QED  BY <2>1, <2>2 DEF IInv, CountsInv
<1> QED  BY <1>1, <1>2, Invariance, PTL DEF SingleUse

\* Which steps answer with more than nothing.
LEMMA AnswerKinds ==
  ASSUME [Next]_vars
  PROVE  Other \/ LoginRefused \/ (\E key : Gate(key)) \/ UNCHANGED vars
<1>1. ASSUME NEW b \in Browsers, Login(b) PROVE Other \/ LoginRefused
  BY <1>1 DEF Login, LoginUnavailable, LoginBegins
<1>2. ASSUME NEW b \in Browsers, Callback(b) PROVE Other
  BY <1>2 DEF Callback, CallbackDenied, ExchangeDenied, LoginCompletes
<1>3. ASSUME NEW b \in Browsers, NEW key, NEW old, SignOut(b, key, old) PROVE Other
  BY <1>3 DEF SignOut
<1>4. ASSUME NEW key, EndSession(key) PROVE Other
  BY <1>4 DEF EndSession
<1>5. Restart \/ Tick => Other
  BY DEF Restart, Tick
<1> QED  BY <1>1, <1>2, <1>3, <1>4, <1>5 DEF Next, Request

LEMMA BusyStep == IInv /\ [Next]_vars /\ RefusedOnlyWhenFull => RefusedOnlyWhenFull'
<1> SUFFICES ASSUME IInv, [Next]_vars, RefusedOnlyWhenFull, reply'.what = "busy"
             PROVE  Cardinality({k \in DOMAIN flows' : flows'[k].expires > now'}) >= MaxFlows
  BY DEF RefusedOnlyWhenFull
<1>1. CASE UNCHANGED vars
  BY <1>1 DEF vars, tables, RefusedOnlyWhenFull
<1>2. CASE LoginRefused
  <2>1. /\ Size(LiveFlows) >= MaxFlows /\ flows' = LiveFlows /\ now' = now
    BY <1>2 DEF LoginRefused, FlowsFull
  <2>2. {k \in DOMAIN flows' : flows'[k].expires > now'} = DOMAIN flows'
    <3>1. \A k \in DOMAIN LiveFlows : LiveFlows[k] = flows[k] /\ flows[k].expires > now
      BY DEF LiveFlows, Live
    <3> QED  BY <2>1, <3>1
  <2> QED  BY <2>1, <2>2 DEF Size
<1>3. CASE Other
  BY <1>3 DEF Other, Answer
<1>4. ASSUME NEW key, Gate(key) PROVE FALSE
  BY <1>4 DEF Gate, Other, Answer
<1> QED  BY <1>1, <1>2, <1>3, <1>4, AnswerKinds

\* The limits hold, and a login is refused for lack of room only when there is none.
THEOREM LimitsAreExact == Spec => []LimitsExact
<1>1. Init => RefusedOnlyWhenFull
  BY DEF Init, RefusedOnlyWhenFull
<1>2. IInv => TablesBounded
  BY DEF IInv
<1> QED  BY <1>1, <1>2, BusyStep, Invariance, PTL DEF LimitsExact, Spec

LEMMA AdmittedStep == IInv /\ [Next]_vars /\ AdmittedInTime => AdmittedInTime'
<1> SUFFICES ASSUME IInv, [Next]_vars, AdmittedInTime PROVE AdmittedInTime'
  OBVIOUS
<1>1. CASE UNCHANGED vars
  BY <1>1 DEF vars, tables, histories, AdmittedInTime
<1>2. ASSUME NEW key, Gate(key), reply'.what = "admitted" PROVE AdmittedInTime'
  <2>1. /\ key \in DOMAIN LiveSessions /\ reply' = [what |-> "admitted", login |-> key]
        /\ sessions' = LiveSessions /\ UNCHANGED <<now, signed_out>>
    BY <1>2 DEF Gate, Other, Answer, histories
  <2>2. /\ key \in DOMAIN sessions /\ sessions'[key] = sessions[key]
        /\ sessions[key].expires > now /\ sessions[key] \in Session
    <3>1. key \in DOMAIN sessions /\ LiveSessions[key] = sessions[key] /\ sessions[key].expires > now
      BY <2>1 DEF LiveSessions, Live
    <3>2. sessions \in [DOMAIN sessions -> Session]
      BY DEF IInv, TypeOK, IsMap
    <3>3. sessions[key] \in Session
      BY <3>1, <3>2
    <3> QED  BY <2>1, <3>1, <3>3
  <2>3. key \notin signed_out /\ Lasts(sessions[key])
    BY <2>2 DEF IInv, SessionsInv
  <2>4. sessions[key].expires \in Nat /\ sessions[key].at \in Nat
        /\ sessions[key].token_expiry \in Nat /\ now \in Nat
    <3>1. \A session \in Session :
            session.expires \in Nat /\ session.at \in Nat /\ session.token_expiry \in Nat
      BY DEF Session
    <3>2. now \in Nat
      BY DEF IInv, TypeOK
    <3> QED  BY <2>2, <3>1, <3>2
  <2>5. /\ now < sessions[key].at + SessionSeconds * TicksPerSecond
        /\ now < (sessions[key].token_expiry + 1) * TicksPerSecond
    <3>1. sessions[key].at + SessionSeconds * TicksPerSecond \in Nat
      BY <2>4, Durations
    <3>2. (sessions[key].token_expiry + 1) * TicksPerSecond \in Int
      BY <2>4, AuthAssumption
    <3> QED  BY <2>2, <2>3, <2>4, <3>1, <3>2 DEF Lasts
  <2> QED  BY <2>1, <2>2, <2>3, <2>5 DEF AdmittedInTime
<1>3. CASE reply'.what # "admitted"
  BY <1>3 DEF AdmittedInTime
<1>4. Other \/ LoginRefused => reply'.what # "admitted"
  BY DEF LoginRefused, Other, Answer
<1> QED  BY <1>1, <1>2, <1>3, <1>4, AnswerKinds

\* Who is let through has not signed out, and the time of the session and of its
\* token is not over.
THEOREM AdmissionsInTime == Spec => []AdmittedInTime
<1>1. Init => AdmittedInTime
  BY DEF Init, AdmittedInTime
<1> QED  BY <1>1, AdmittedStep, Invariance, PTL DEF Spec
=============================================================================
