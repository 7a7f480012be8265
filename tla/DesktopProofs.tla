---------------------------- MODULE DesktopProofs ----------------------------
(***************************************************************************)
(* The safety of the desktop shell, for any number of workers and starts.  *)
(*                                                                         *)
(* RelayInv relates the relay at hand to the numbers given out; ExitInv    *)
(* says that a worker which got the mutex before the exit handler has      *)
(* given it back when the handler runs.                                    *)
(***************************************************************************)
EXTENDS Desktop, TLAPS

\* Every relay but the one at hand was stopped.
EarlierStopped == 1..started \ {relay} \subseteq stopped

RelayInv ==
  /\ relay \in {0, started}
  /\ alive => relay # 0
  /\ in_time \subseteq 1..started
  /\ EarlierStopped
  /\ LatestStatusShown

ExitInv ==
  /\ app \in {"handled", "gone"} => in_time \subseteq stopped
  /\ app = "handled" /\ lock # Free => ~ early

IInv == TypeOK /\ RelayInv /\ ExitInv

LEMMA InitInv == Init => IInv
<1> SUFFICES ASSUME Init PROVE IInv
  OBVIOUS
<1>1. TypeOK
  <2>1. 0 \in 0..MaxStarts /\ {} \subseteq 1..MaxStarts
    BY DesktopAssumption
  <2>2. relay \in 0..MaxStarts /\ last \in 0..MaxStarts /\ started \in 0..MaxStarts
    BY <2>1 DEF Init
  <2>3. stopped \subseteq 1..MaxStarts /\ in_time \subseteq 1..MaxStarts
    BY DEF Init
  <2> QED  BY <2>2, <2>3 DEF Init, TypeOK, Tasks
<1>2. RelayInv
  <2>1. 1..started = {} /\ in_time = {} /\ relay = 0 /\ last = 0 /\ started = 0 /\ ~ alive
    BY DEF Init
  <2> QED  BY <2>1 DEF RelayInv, EarlierStopped, LatestStatusShown, status
<1>3. ExitInv
  BY DEF Init, ExitInv
<1> QED  BY <1>1, <1>2, <1>3 DEF IInv

\* Steps that leave the relay and the numbers alone.
LEMMA OtherSteps ==
  ASSUME IInv, UNCHANGED relay_vars,
         app' = app \/ (app = "open" /\ app' = "exit") \/ (app = "handled" /\ app' = "gone"),
         task' \in [Workers -> Tasks], asking' \in BOOLEAN,
         lock' \in Workers \cup {Free}, early' \in BOOLEAN,
         app' = "handled" /\ lock' # Free => ~ early'
  PROVE  IInv'
<1>1. TypeOK'
  BY DEF IInv, TypeOK, relay_vars
<1>2. RelayInv'
  BY DEF IInv, RelayInv, EarlierStopped, LatestStatusShown, relay_vars, status
<1>3. ExitInv'
  BY DEF IInv, ExitInv, relay_vars
<1> QED  BY <1>1, <1>2, <1>3 DEF IInv

LEMMA Released ==
  ASSUME IInv, NEW w \in Workers, Release(w)
  PROVE  /\ task' \in [Workers -> Tasks] /\ lock' = Free /\ UNCHANGED <<app, asking, early>>
         /\ early \in BOOLEAN /\ asking \in BOOLEAN
BY DEF Release, IInv, TypeOK, Tasks

LEMMA TakeAndStopKeeps ==
  ASSUME IInv, TakeAndStop, relay # 0, UNCHANGED <<app, asking, early>>, app # "gone",
         task' \in [Workers -> Tasks], lock' \in {lock, Free}
  PROVE  IInv'
<1>1. relay = started /\ relay \in 1..MaxStarts
  BY DesktopAssumption DEF IInv, RelayInv, TypeOK
<1>2. TypeOK'
  <2>1. relay' \in 0..MaxStarts /\ last' \in 0..MaxStarts /\ started' \in 0..MaxStarts
    BY <1>1, DesktopAssumption DEF IInv, TypeOK, TakeAndStop, LastAfterStop
  <2>2. stopped' \subseteq 1..MaxStarts /\ in_time' \subseteq 1..MaxStarts
    BY <1>1 DEF IInv, TypeOK, TakeAndStop
  <2> QED  BY <2>1, <2>2 DEF IInv, TypeOK, TakeAndStop
<1>3. RelayInv'
  <2>1. /\ relay' = 0 /\ alive' = FALSE /\ last' = started /\ started' = started
        /\ in_time' = in_time /\ stopped' = stopped \cup {started}
    BY <1>1 DEF TakeAndStop, LastAfterStop
  <2>2. 1..started \subseteq stopped' /\ in_time \subseteq 1..started
    BY <1>1, <2>1 DEF IInv, RelayInv, EarlierStopped
  <2> QED  BY <2>1, <2>2 DEF RelayInv, EarlierStopped, LatestStatusShown, status
<1>4. ExitInv'
  BY DEF IInv, ExitInv, TakeAndStop
<1> QED  BY <1>2, <1>3, <1>4 DEF IInv

LEMMA WorkKeeps ==
  ASSUME IInv, NEW w \in Workers, Work(w)
  PROVE  IInv'
<1>1. CASE StartRefused(w) \/ StartFails(w) \/ (Stop(w) /\ relay = 0)
  <2>1. Release(w) /\ UNCHANGED relay_vars
    BY <1>1 DEF StartRefused, StartFails, Stop, StopRelay
  <2> QED  BY <2>1, Released, OtherSteps
<1>2. CASE StopOld(w) \/ (Stop(w) /\ relay # 0)
  <2>1. TakeAndStop /\ relay # 0 /\ app # "gone"
    BY <1>2 DEF StopOld, Stop, StopRelay, Holds
  <2>2. CASE StopOld(w)
    <3>1. UNCHANGED <<app, task, asking, lock, early>> /\ task \in [Workers -> Tasks]
      BY <2>2 DEF StopOld, IInv, TypeOK
    <3> QED  BY <2>1, <3>1, TakeAndStopKeeps
  <2>3. CASE Stop(w)
    <3>1. Release(w)
      BY <2>3 DEF Stop
    <3> QED  BY <2>1, <3>1, Released, TakeAndStopKeeps
  <2> QED  BY <1>2, <2>2, <2>3
<1>3. CASE StartSucceeds(w)
  <2>1. /\ Release(w) /\ relay = 0 /\ started < MaxStarts /\ started' = started + 1
        /\ relay' = started' /\ alive' = TRUE /\ UNCHANGED <<last, stopped>>
        /\ in_time' = IF early THEN in_time \cup {started'} ELSE in_time
        /\ app # "gone" /\ lock = w
    BY <1>3 DEF StartSucceeds, Holds
  <2>2. started \in 0..MaxStarts /\ in_time \subseteq 1..started /\ 1..started \subseteq stopped
    BY <2>1 DEF IInv, TypeOK, RelayInv, EarlierStopped
  <2>3. started' \in 1..MaxStarts /\ 1..started' = 1..started \cup {started'}
    BY <2>1, <2>2, DesktopAssumption
  <2>4. in_time' \subseteq 1..started'
    BY <2>1, <2>2, <2>3
  <2>5. TypeOK'
    BY <2>1, <2>2, <2>3, <2>4, Released DEF IInv, TypeOK
  <2>6. RelayInv'
    <3>1. 1..started' \ {relay'} \subseteq stopped'
      BY <2>1, <2>2, <2>3
    <3>2. relay' # 0 /\ relay' = started'
      BY <2>1, <2>3
    <3> QED  BY <2>4, <3>1, <3>2 DEF RelayInv, EarlierStopped, LatestStatusShown, status
  <2>7. app = "handled" => ~ early
    BY <2>1, DesktopAssumption DEF IInv, ExitInv
  <2>8. ExitInv'
    BY <2>1, <2>7, Released DEF IInv, ExitInv
  <2> QED  BY <2>5, <2>6, <2>8 DEF IInv
<1> QED  BY <1>1, <1>2, <1>3 DEF Work

LEMMA NextInv ==
  ASSUME IInv, [Next]_vars
  PROVE  IInv'
<1>1. ASSUME NEW w \in Workers, NEW what \in Tasks \ {"none"}, Invoke(w, what) PROVE IInv'
  BY <1>1, OtherSteps DEF Invoke, IInv, TypeOK, ExitInv
<1>2. ASSUME NEW w \in Workers, Lock(w) PROVE IInv'
  BY <1>2, OtherSteps DEF Lock, IInv, TypeOK
<1>3. CASE RelayEnds
  BY <1>3 DEF RelayEnds, IInv, TypeOK, RelayInv, ExitInv, EarlierStopped, LatestStatusShown, status
<1>4. CASE AskStatus \/ ReadStatus
  BY <1>4, OtherSteps DEF AskStatus, ReadStatus, IInv, TypeOK, ExitInv
<1>6. CASE Close \/ ProcessEnds \/ UNCHANGED vars
  BY <1>6, OtherSteps DEF Close, ProcessEnds, vars, IInv, TypeOK, ExitInv
<1>5. CASE HandleExit
  <2>1. started \in 0..MaxStarts /\ relay \in {0, started} /\ in_time \subseteq 1..started
        /\ 1..started \ {relay} \subseteq stopped
    BY DEF IInv, TypeOK, RelayInv, EarlierStopped
  <2>2. 1..started \subseteq stopped' /\ stopped' \subseteq 1..MaxStarts
    BY <1>5, <2>1, DesktopAssumption DEF HandleExit, IInv, TypeOK
  <2>3. TypeOK'
    <3>1. relay' \in 0..MaxStarts /\ last' \in 0..MaxStarts /\ started' \in 0..MaxStarts
      BY <1>5, DesktopAssumption DEF HandleExit, IInv, TypeOK
    <3> QED  BY <1>5, <2>2, <3>1 DEF HandleExit, IInv, TypeOK
  <2>4. RelayInv'
    BY <1>5, <2>1, <2>2 DEF HandleExit, RelayInv, EarlierStopped, LatestStatusShown
  <2>5. ExitInv'
    BY <1>5, <2>1, <2>2 DEF HandleExit, CanLock, ExitInv
  <2> QED  BY <2>3, <2>4, <2>5 DEF IInv
<1> QED
  BY <1>1, <1>2, <1>3, <1>4, <1>5, <1>6, WorkKeeps DEF Next

LEMMA Invariance == Spec => []IInv
BY InitInv, NextInv, PTL DEF Spec

\* The variables keep their types.
THEOREM TypeCorrect == Spec => []TypeOK
BY Invariance, PTL DEF IInv

\* The status shown is that of the latest relay.
THEOREM LatestIsShown == Spec => []LatestStatusShown
<1>1. IInv => LatestStatusShown
  BY DEF IInv, RelayInv, LatestStatusShown
<1> QED  BY <1>1, Invariance, PTL

\* The end of the process cuts off no relay whose start had the mutex before
\* the exit handler ran.
THEOREM ExitStopsRelays == Spec => []StoppedOnExit
<1>1. IInv => StoppedOnExit
  BY DEF IInv, ExitInv, StoppedOnExit
<1> QED  BY <1>1, Invariance, PTL
=============================================================================
