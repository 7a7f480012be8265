----------------------------- MODULE DtlsProofs -----------------------------
(***************************************************************************)
(* Theorems about the OpenSSL transport and its use, for every timeout,    *)
(* every set of frames and every result of OpenSSL.                        *)
(***************************************************************************)
EXTENDS DtlsSession, TLAPS

\* What the place of the thread says about its session.
SslInv ==
  /\ at \notin Open => mtu = 0 /\ retained = NoFrame /\ pending_frame = NoFrame
  /\ at \in Open => mtu # 0 /\ retained \in {NoFrame, pending_frame}
  /\ retained # NoFrame => retained.len \in 1..mtu
  /\ OneShutdown

LEMMA DtlsType == TypeOK /\ [Next]_vars => TypeOK'
<1> SUFFICES ASSUME TypeOK, [Next]_vars PROVE TypeOK'
  OBVIOUS
<1> USE DtlsAssumption DEF ssl, TypeOK, Handshaking, Open
<1>1. CASE Begin  BY <1>1 DEF Begin
<1>2. CASE CheckCancelled
  BY <1>2 DEF DropUnfinished, close, Shutdowns, closed, CheckCancelled, AskCancelled, tries
<1>3. CASE ConnectWaits  BY <1>3 DEF ConnectWaits, CountTry
<1>4. CASE ConnectFails  BY <1>4 DEF DropUnfinished, close, Shutdowns, closed, ConnectFails, CountTry
<1>5. ASSUME NEW m \in DataMtus, NEW t \in BOOLEAN, ConnectDone(m, t) PROVE TypeOK'
  <2>1. Budget(m) \in 0..MaxRecord
    BY DEF Budget
  <2>2. late_tries' \in Nat /\ cancelled_tries' \in Nat
    BY <1>5 DEF ConnectDone, CountTry
  <2> QED  BY <1>5, <2>1, <2>2 DEF ConnectDone, DropUnfinished, close, Shutdowns, closed
<1>6. CASE CheckDeadline
  BY <1>6 DEF DropUnfinished, close, Shutdowns, closed, CheckDeadline, AskDeadline, tries
<1>7. CASE GiveUp  BY <1>7 DEF close, Shutdowns, closed, GiveUp, tries
<1>8. ASSUME NEW f \in Frames, TakeFront(f) PROVE TypeOK'
  BY <1>8 DEF TakeFront, tries
<1>9. CASE SendDone  BY <1>9 DEF SendDone, tries
<1>10. CASE SendBlocks  BY <1>10 DEF SendBlocks, WriteClock, tries
<1>14. CASE at = "blocked" /\ Repeat  BY <1>14 DEF Repeat, tries
<1>11. CASE Tick  BY <1>11 DEF Tick, tries
<1>12. CASE Cancel
  <2>1. cancelled' \in BOOLEAN  BY <1>12 DEF Cancel
  <2>2. UNCHANGED <<at, elapsed, ssl, pending_frame, tries>>  BY <1>12 DEF Cancel
  <2> QED  BY <2>1, <2>2 DEF tries
<1>13. CASE UNCHANGED vars  BY <1>13 DEF vars, tries
<1> QED
  BY <1>1, <1>2, <1>3, <1>4, <1>5, <1>6, <1>7, <1>8, <1>9, <1>10, <1>11, <1>12, <1>13, <1>14
  DEF Next, ThreadStep, PollFails, SendRefused, SendFails, CheckWrite, Finish

LEMMA SslStep == TypeOK /\ SslInv /\ [Next]_vars => SslInv'
<1> SUFFICES ASSUME TypeOK, SslInv, [Next]_vars PROVE SslInv'
  OBVIOUS
<1> USE DtlsAssumption DEF TypeOK, SslInv, OneShutdown, Handshaking, Open, ssl, tries, closed
<1>1. CASE Begin  BY <1>1 DEF Begin
<1>2. CASE CheckCancelled
  BY <1>2 DEF DropUnfinished, close, Shutdowns, closed, CheckCancelled, AskCancelled
<1>3. CASE ConnectWaits  BY <1>3 DEF ConnectWaits
<1>4. CASE ConnectFails  BY <1>4 DEF DropUnfinished, close, Shutdowns, closed, ConnectFails
<1>5. ASSUME NEW m \in DataMtus, NEW t \in BOOLEAN, ConnectDone(m, t) PROVE SslInv'
  BY <1>5 DEF ConnectDone, DropUnfinished, close, Shutdowns, closed
<1>6. CASE CheckDeadline
  BY <1>6 DEF DropUnfinished, close, Shutdowns, closed, CheckDeadline, AskDeadline
<1>7. CASE GiveUp /\ at \in Open  BY <1>7 DEF close, Shutdowns, closed, GiveUp
<1>8. ASSUME NEW f \in Frames, TakeFront(f) PROVE SslInv'
  BY <1>8 DEF TakeFront, InSession
<1>9. CASE SendDone  BY <1>9 DEF SendDone, Writing, InSession
<1>10. CASE SendBlocks
  <2>1. pending_frame \in Frames /\ pending_frame.len \in 1..mtu
    BY <1>10 DEF SendBlocks, Writing, Accepted
  <2> QED  BY <1>10, <2>1 DEF SendBlocks, Writing, InSession
<1>12. CASE at = "blocked" /\ Repeat  BY <1>12 DEF Repeat
<1>11. CASE Tick \/ Cancel \/ UNCHANGED vars  BY <1>11 DEF Tick, Cancel, vars
<1> HIDE DEF TypeOK, SslInv, OneShutdown, Handshaking, Open, ssl, tries, closed
<1> QED
  BY <1>1, <1>2, <1>3, <1>4, <1>5, <1>6, <1>7, <1>8, <1>9, <1>10, <1>11, <1>12
  DEF Next, ThreadStep, PollFails, SendRefused, SendFails, CheckWrite, Finish, Writing, InSession,
      Open

LEMMA DtlsInit == Init => TypeOK /\ SslInv
<1> SUFFICES ASSUME Init PROVE TypeOK /\ SslInv
  OBVIOUS
<1>1. cancelled \in BOOLEAN
  BY DEF Init
<1>2. /\ at = "none" /\ elapsed = 0 /\ late_tries = 0 /\ cancelled_tries = 0
      /\ mtu = 0 /\ shutdowns = 1 /\ retained = NoFrame /\ pending_frame = NoFrame
  BY DEF Init
<1> QED
  BY <1>1, <1>2, DtlsAssumption DEF TypeOK, SslInv, OneShutdown, Handshaking, Open

\* OpenSSL is told once of the end of each session, whatever ends it (lib.rs,
\* close, called by the sender and by drop).
THEOREM ToldOnce == Spec => []OneShutdown
<1>1. TypeOK /\ SslInv => OneShutdown
  BY DEF SslInv
<1> QED  BY <1>1, DtlsInit, DtlsType, SslStep, PTL DEF Spec

\* The sender and the OpenSSL session keep the contract of transport.rs: every
\* step is a step of Transport or leaves its state alone.
THEOREM DtlsKeepsContract == Spec => KeepsContract
<1>1. Init => Contract!Init
  BY DEF Init, Contract!Init, NoFrame, Contract!NoFrame
<1>2. TypeOK /\ SslInv /\ SslInv' /\ [Next]_vars => [Contract!Next]_<<mtu, retained>>
  <2> SUFFICES ASSUME TypeOK, SslInv, SslInv', [Next]_vars
               PROVE  [Contract!Next]_<<mtu, retained>>
    OBVIOUS
  <2> USE DtlsAssumption DEF ssl, TypeOK, SslInv, Contract!NoFrame, NoFrame, Open
  <2>1. CASE at \notin Open /\ at' \notin Open
    BY <2>1
  <2>2. CASE at \notin Open /\ at' \in Open
    <3>1. PICK m \in DataMtus, t \in BOOLEAN : ConnectDone(m, t)
      BY <2>2 DEF Next, ThreadStep, Begin, CheckCancelled, AskCancelled, DropUnfinished,
         ConnectWaits, ConnectFails, CheckDeadline, AskDeadline, PollFails, TakeFront,
         SendRefused, SendDone, SendBlocks, SendFails, CheckWrite, Repeat, Finish, GiveUp,
         Writing, InSession, Tick, Cancel, vars
    <3>2. mtu' \in 1..MaxRecord /\ retained' = NoFrame
      BY <2>2, <3>1 DEF ConnectDone, Budget, DropUnfinished
    <3> QED  BY <2>2, <3>2 DEF Contract!Next, Contract!Open
  <2>3. CASE at \in Open /\ at' \notin Open
    BY <2>3 DEF Contract!Next, Contract!Close
  <2>4. CASE at \in Open /\ at' \in Open
    <3>1. <<mtu, retained>>' = <<mtu, retained>> \/ SendDone \/ SendBlocks
      BY <2>4 DEF Next, ThreadStep, Begin, CheckCancelled, AskCancelled, DropUnfinished,
         ConnectWaits, ConnectFails, ConnectDone, CheckDeadline, AskDeadline, PollFails,
         TakeFront, SendRefused, SendFails, CheckWrite, Repeat, Finish, GiveUp, Tick, Cancel, vars
    <3>2. CASE SendDone
      BY <2>4, <3>2 DEF SendDone, Contract!Next, Contract!Complete
    <3>3. CASE SendBlocks
      <4>1. mtu' = mtu /\ retained' = pending_frame /\ pending_frame # NoFrame
        BY <3>3 DEF SendBlocks, Writing
      <4>2. CASE retained = NoFrame
        BY <2>4, <4>1, <4>2 DEF Contract!Next, Contract!Block
      <4>3. CASE retained = pending_frame
        BY <4>1, <4>3
      <4> QED  BY <2>4, <4>2, <4>3
    <3> QED  BY <3>1, <3>2, <3>3
  <2> QED  BY <2>1, <2>2, <2>3, <2>4
<1> QED
  BY <1>1, <1>2, DtlsInit, DtlsType, SslStep, PTL DEF Spec, KeepsContract, Contract!Spec

\* After the deadline, and after a cancellation, connect calls SSL_connect once
\* at most (lib.rs:169-186, the order of the loop).
TriesInv ==
  /\ OneLateTry
  /\ at = "connect" => cancelled_tries = 0
  /\ at = "check" => (cancelled_tries # 0 => cancelled)
  /\ at \in {"check", "connect"} => late_tries = 0
  /\ late_tries # 0 /\ at = "deadline" => elapsed >= Timeout
  /\ cancelled_tries # 0 => cancelled

LEMMA TriesStep == TypeOK /\ TriesInv /\ [Next]_vars => TriesInv'
<1> SUFFICES ASSUME TypeOK, TriesInv, [Next]_vars PROVE TriesInv'
  OBVIOUS
<1> USE DtlsAssumption DEF TypeOK, TriesInv, OneLateTry, Handshaking
<1>1. CASE Begin  BY <1>1 DEF Begin
<1>2. CASE CheckCancelled
  BY <1>2 DEF CheckCancelled, AskCancelled, DropUnfinished, tries
<1>3. CASE ConnectWaits  BY <1>3 DEF ConnectWaits, CountTry
<1>4. CASE ConnectFails  BY <1>4 DEF ConnectFails, CountTry, DropUnfinished
<1>5. ASSUME NEW m \in DataMtus, NEW t \in BOOLEAN, ConnectDone(m, t) PROVE TriesInv'
  BY <1>5 DEF ConnectDone, CountTry, DropUnfinished
<1>6. CASE CheckDeadline
  BY <1>6 DEF CheckDeadline, AskDeadline, DropUnfinished, tries
<1>7. CASE GiveUp  BY <1>7 DEF GiveUp, tries
<1>8. ASSUME NEW f \in Frames, TakeFront(f) PROVE TriesInv'
  BY <1>8 DEF TakeFront, InSession, tries
<1>9. CASE SendDone  BY <1>9 DEF SendDone, tries
<1>10. CASE SendBlocks  BY <1>10 DEF SendBlocks, WriteClock, tries
<1>14. CASE at = "blocked" /\ Repeat  BY <1>14 DEF Repeat, tries
<1>11. CASE Tick  BY <1>11 DEF Tick, tries
<1>12. CASE Cancel  BY <1>12 DEF Cancel, tries
<1>13. CASE UNCHANGED vars  BY <1>13 DEF vars, tries
<1> QED
  BY <1>1, <1>2, <1>3, <1>4, <1>5, <1>6, <1>7, <1>8, <1>9, <1>10, <1>11, <1>12, <1>13, <1>14
  DEF Next, ThreadStep, PollFails, SendRefused, SendFails, CheckWrite, Finish

\* The loop of connect calls SSL_connect at most once after its deadline and at
\* most once after the cancellation, whatever the peer sends (lib.rs:169-187).
THEOREM HandshakeGivesUp == Spec => []OneLateTry
<1>1. Init => TriesInv
  BY DEF Init, TriesInv, OneLateTry
<1>2. TriesInv => OneLateTry
  BY DEF TriesInv
<1> QED  BY <1>1, <1>2, DtlsInit, DtlsType, TriesStep, PTL DEF Spec
=============================================================================
