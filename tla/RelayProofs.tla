----------------------------- MODULE RelayProofs -----------------------------
(***************************************************************************)
(* The safety of the relay, for all limits, hosts, datagrams and budgets.  *)
(*                                                                         *)
(* Each theorem comes from an inductive invariant that contains TypeInv:   *)
(* the types, and with them that queue_bytes is the sum over the queue.    *)
(* OwnerInv says who has been spawned, stopped and joined; FrameInv        *)
(* relates the program counter of the sender, its session, the pending     *)
(* frame and the head of the queue; the others build on these two.  They   *)
(* lead to the promise of FifoRelay, which the relay implements, to the    *)
(* error that is shown, and to the rows of the source table.               *)
(***************************************************************************)
EXTENDS RelayProperties, RelayErrors, FoldLemmas, SequenceTheorems

(***************************************************************************)
(* Sums over the queue.                                                    *)
(***************************************************************************)
Sizes(q) == [i \in DOMAIN q |-> q[i].size]

LEMMA SizesOf ==
  ASSUME NEW q \in Seq(Message)
  PROVE  /\ Len(q) \in Nat /\ IsFiniteSet(1..Len(q))
         /\ ByteSum(q) = SumFunctionOnSet(Sizes(q), 1..Len(q))
         /\ \A i \in 1..Len(q) : Sizes(q)[i] = q[i].size /\ Sizes(q)[i] \in Nat
<1>1. Len(q) \in Nat /\ DOMAIN q = 1..Len(q) /\ \A i \in 1..Len(q) : q[i] \in Message
  OBVIOUS
<1>2. \A i \in 1..Len(q) : Sizes(q)[i] = q[i].size /\ Sizes(q)[i] \in Nat
  BY <1>1 DEF Sizes, Message
<1>3. IsFiniteSet(1..Len(q))
  BY <1>1, FS_Interval
<1>4. DOMAIN Sizes(q) = DOMAIN q
  BY DEF Sizes
<1>5. ByteSum(q) = SumFunctionOnSet(Sizes(q), 1..Len(q))
  BY <1>1, <1>4 DEF ByteSum, SumFunction, Sizes
<1>. QED
  BY <1>1, <1>2, <1>3, <1>5

LEMMA EmptyByteSum == ByteSum(<<>>) = 0
<1>1. <<>> \in Seq(Message) /\ Len(<<>>) = 0 /\ 1..0 = {}
  OBVIOUS
<1>2. ByteSum(<<>>) = SumFunctionOnSet(Sizes(<<>>), {})
  BY <1>1, SizesOf
<1>. QED
  BY <1>2, SumOfNone

LEMMA AppendByteSum ==
  ASSUME NEW q \in Seq(Message), NEW m \in Message
  PROVE  ByteSum(Append(q, m)) = ByteSum(q) + m.size
<1>. DEFINE r == Append(q, m)
            n == Len(q)
            f == Sizes(q)
            g == Sizes(r)
<1>1. r \in Seq(Message) /\ n \in Nat /\ Len(r) = n + 1 /\ r[n + 1] = m
      /\ \A i \in 1..n : r[i] = q[i]
  OBVIOUS
<1>. HIDE DEF r, n
<1>2. /\ IsFiniteSet(1..n) /\ ByteSum(q) = SumFunctionOnSet(f, 1..n)
      /\ \A i \in 1..n : f[i] = q[i].size /\ f[i] \in Nat
  BY SizesOf DEF n
<1>3. /\ IsFiniteSet(1..(n + 1)) /\ ByteSum(r) = SumFunctionOnSet(g, 1..(n + 1))
      /\ \A i \in 1..(n + 1) : g[i] = r[i].size /\ g[i] \in Nat
  BY <1>1, SizesOf
<1>. HIDE DEF f, g
<1>4. n + 1 \in 1..(n + 1) /\ 1..(n + 1) \ {n + 1} = 1..n
  BY <1>1
<1>5. SumFunctionOnSet(g, 1..(n + 1)) = g[n + 1] + SumFunctionOnSet(g, 1..n)
  <2>1. \A i \in 1..(n + 1) : g[i] \in Int
    BY <1>3
  <2>2. SumFunctionOnSet(g, 1..(n + 1)) = g[n + 1] + SumFunctionOnSet(g, 1..(n + 1) \ {n + 1})
    BY <1>3, <1>4, <2>1, SumSplits
  <2>. QED
    BY <1>4, <2>2
<1>6. SumFunctionOnSet(f, 1..n) = SumFunctionOnSet(g, 1..n)
  <2>1. \A i \in 1..n : f[i] \in Int /\ f[i] = g[i]
    BY <1>1, <1>2, <1>3
  <2>. QED
    BY <1>2, <2>1, SumOfEquals
<1>7. g[n + 1] = m.size /\ m.size \in Nat /\ SumFunctionOnSet(f, 1..n) \in Nat
  BY <1>1, <1>2, <1>3, <1>4, SumOfNaturals DEF Message
<1>8. ByteSum(r) = ByteSum(q) + m.size
  BY <1>2, <1>3, <1>5, <1>6, <1>7
<1>. QED
  BY <1>8 DEF r

LEMMA TailByteSum ==
  ASSUME NEW q \in Seq(Message), q # <<>>
  PROVE  ByteSum(q) - Head(q).size \in Nat /\ ByteSum(Tail(q)) = ByteSum(q) - Head(q).size
<1>. DEFINE r == Tail(q)
            n == Len(r)
            f == Sizes(q)
            g == Sizes(r)
            h == [i \in 1..n |-> i + 1]
<1>1. r \in Seq(Message) /\ n \in Nat /\ Len(q) = n + 1 /\ Head(q) = q[1]
      /\ \A i \in 1..n : r[i] = q[i + 1]
  OBVIOUS
<1>. HIDE DEF r, n
<1>2. /\ IsFiniteSet(1..n) /\ ByteSum(r) = SumFunctionOnSet(g, 1..n)
      /\ \A i \in 1..n : g[i] = r[i].size /\ g[i] \in Nat
  BY <1>1, SizesOf DEF n
<1>3. /\ IsFiniteSet(1..(n + 1)) /\ ByteSum(q) = SumFunctionOnSet(f, 1..(n + 1))
      /\ \A i \in 1..(n + 1) : f[i] = q[i].size /\ f[i] \in Nat
  BY <1>1, SizesOf
<1>. HIDE DEF f, g
<1>4. 1 \in 1..(n + 1) /\ 1..(n + 1) \ {1} = 2..(n + 1) /\ 2..(n + 1) \subseteq 1..(n + 1)
  BY <1>1
<1>5. SumFunctionOnSet(f, 1..(n + 1)) = f[1] + SumFunctionOnSet(f, 2..(n + 1))
  <2>1. \A i \in 1..(n + 1) : f[i] \in Int
    BY <1>3
  <2>2. SumFunctionOnSet(f, 1..(n + 1)) = f[1] + SumFunctionOnSet(f, 1..(n + 1) \ {1})
    BY <1>3, <1>4, <2>1, SumSplits
  <2>. QED
    BY <1>4, <2>2
<1>6. SumFunctionOnSet(g, 1..n) = SumFunctionOnSet(f, 2..(n + 1))
  <2>1. h \in [1..n -> 2..(n + 1)] /\ \A i \in 1..n : h[i] = i + 1
    BY <1>1
  <2>. HIDE DEF h
  <2>2. \A i, j \in 1..n : h[i] = h[j] => i = j
    BY <1>1, <2>1
  <2>3. \A i \in 1..n : i + 1 \in 1..(n + 1) /\ f[h[i]] = g[i] /\ g[i] \in Int
    BY <1>1, <1>2, <1>3, <2>1
  <2>. DEFINE S == 1..n
              T == 2..(n + 1)
  <2>4. IsFiniteSet(T) /\ (\A i \in T : f[i] \in Int) /\ (\A i \in S : g[i] \in Int)
        /\ (\A i \in S : f[h[i]] = g[i])
    <3>1. T \in SUBSET (1..(n + 1)) /\ \A i \in 1..(n + 1) : f[i] \in Int
      BY <1>3, <1>4
    <3>2. IsFiniteSet(T)
      <4>. HIDE DEF T
      <4>. QED
        BY <1>3, <3>1, FS_Subset
    <3>. QED
      BY <2>3, <3>1, <3>2
  <2>5. SumFunctionOnSet(g, S) = SumFunctionOnSet(f, {h[i] : i \in S})
    <3>1. IsFiniteSet(S) /\ h \in [S -> T] /\ \A i, j \in S : h[i] = h[j] => i = j
      BY <1>2, <2>1, <2>2
    <3>. HIDE DEF S, T
    <3>. QED
      BY <2>4, <3>1, SumOfImage
  <2>6. {h[i] : i \in 1..n} = 2..(n + 1)
    <3>1. ASSUME NEW j \in 2..(n + 1) PROVE \E i \in 1..n : h[i] = j
      <4>1. j - 1 \in 1..n /\ h[j - 1] = j
        BY <1>1, <2>1
      <4>. QED
        BY <4>1
    <3>. QED
      BY <2>1, <3>1
  <2>. QED
    BY <2>5, <2>6
<1>7. f[1] = Head(q).size /\ f[1] \in Nat /\ SumFunctionOnSet(g, 1..n) \in Nat
  BY <1>1, <1>2, <1>3, <1>4, SumOfNaturals
<1>. QED
  BY <1>2, <1>3, <1>5, <1>6, <1>7 DEF r

(***************************************************************************)
(* Types.  queue_bytes can only be shown to stay a natural number together *)
(* with its being the sum over the queue: finish_front subtracts from it.  *)
(***************************************************************************)
TypeInv == TypeOK /\ BytesExact

LEMMA CanonicalType ==
  ASSUME NEW ip \in Address
  PROVE  canonical_ip(ip) \in Address
BY DEF canonical_ip, Address

LEMMA SourceReceivedType ==
  ASSUME SourcesTypeOK, NEW ip \in Address, SourceReceived(ip)
  PROVE  /\ tracked' \subseteq Address
         /\ source_received' \in [Address -> Nat]
         /\ untracked_messages' \in Nat
BY DEF SourcesTypeOK, SourceReceived

LEMMA SourceDroppedType ==
  ASSUME SourcesTypeOK, NEW ip \in Address, NEW rows, SourceDropped(ip, rows)
  PROVE  source_dropped' \in [Address -> Nat]
BY DEF SourcesTypeOK, SourceDropped

LEMMA SourceForwardedType ==
  ASSUME SourcesTypeOK, NEW ip \in Address, NEW rows, SourceForwarded(ip, rows)
  PROVE  source_forwarded' \in [Address -> Nat]
BY DEF SourcesTypeOK, SourceForwarded

LEMMA CountDropType ==
  ASSUME StateTypeOK, NEW reason \in DropReasons, CountDrop(reason)
  PROVE  messages_dropped' \in Nat /\ drops' \in [DropReasons -> Nat]
BY DEF StateTypeOK, CountDrop

LEMMA HeadType ==
  ASSUME NEW q \in Seq(Message), q # <<>>
  PROVE  Head(q) \in Message /\ Head(q).source \in Address /\ Head(q).size \in Nat
<1>1. Head(q) \in Message
  OBVIOUS
<1> QED  BY <1>1 DEF Message

LEMMA PopFrontType ==
  ASSUME TypeInv, PopFront
  PROVE  /\ queue' \in Seq(Message) /\ queue_depth' \in Nat /\ queue_bytes' \in Nat
         /\ queue_bytes' = ByteSum(queue')
<1>1. queue \in Seq(Message) /\ queue_bytes \in Nat /\ queue_bytes = ByteSum(queue)
  BY DEF TypeInv, BytesExact, TypeOK, StateTypeOK
<1>2. CASE queue = <<>>
  BY <1>1, <1>2, EmptyByteSum DEF PopFront
<1>3. CASE queue # <<>>
  <2>1. queue' = Tail(queue) /\ queue_bytes' = queue_bytes - Head(queue).size
        /\ queue_depth' = Len(Tail(queue))
    BY <1>3 DEF PopFront
  <2>2. Tail(queue) \in Seq(Message) /\ Len(Tail(queue)) \in Nat
    BY <1>1, <1>3
  <2>3. queue_bytes - Head(queue).size \in Nat
        /\ queue_bytes - Head(queue).size = ByteSum(Tail(queue))
    BY <1>1, <1>3, TailByteSum
  <2> QED  BY <2>1, <2>2, <2>3
<1> QED  BY <1>2, <1>3

LEMMA StateUnchangedType ==
  ASSUME TypeInv, UNCHANGED state_vars
  PROVE  StateTypeOK' /\ queue_bytes' = ByteSum(queue')
BY DEF TypeInv, BytesExact, TypeOK, StateTypeOK, SourcesTypeOK, state_vars, counters, queue_vars,
       source_vars

LEMMA SetStatusType ==
  ASSUME TypeInv, NEW status \in {"resolving", "handshaking", "established", "retrying", "stopped"},
         NEW flight \in BOOLEAN, SetStatus(status, flight)
  PROVE  StateTypeOK' /\ queue_bytes' = ByteSum(queue')
BY DEF TypeInv, BytesExact, TypeOK, StateTypeOK, SourcesTypeOK, SetStatus, counters, queue_vars,
       source_vars

LEMMA FinishForwardedType ==
  ASSUME TypeInv, FinishForwarded
  PROVE  StateTypeOK' /\ queue_bytes' = ByteSum(queue')
<1>1. StateTypeOK /\ SourcesTypeOK
  BY DEF TypeInv, BytesExact, TypeOK, StateTypeOK
<1>2. /\ queue' \in Seq(Message) /\ queue_depth' \in Nat /\ queue_bytes' \in Nat
      /\ queue_bytes' = ByteSum(queue')
  BY PopFrontType DEF FinishForwarded
<1>3. source_forwarded' \in [Address -> Nat]
  <2>1. CASE queue = <<>>
    BY <2>1, <1>1 DEF FinishForwarded, SourcesTypeOK
  <2>2. CASE queue # <<>>
    <3>1. Head(queue).source \in Address
      BY <1>1, <2>2, HeadType DEF StateTypeOK
    <3> QED  BY <1>1, <2>2, <3>1, SourceForwardedType DEF FinishForwarded
  <2> QED  BY <2>1, <2>2
<1>4. SourcesTypeOK'
  BY <1>1, <1>3 DEF FinishForwarded, SourcesTypeOK
<1>5. /\ UNCHANGED <<messages_received, messages_dropped, drops, listener_status,
                     dtls_status, running, stop_at>>
      /\ messages_forwarded' = messages_forwarded + 1
      /\ in_flight' = FALSE
  BY DEF FinishForwarded
<1>6. messages_forwarded \in Nat
  BY <1>1 DEF StateTypeOK
<1>7. messages_forwarded' \in Nat
  BY <1>5, <1>6
<1>8. /\ messages_received' \in Nat /\ messages_dropped' \in Nat
      /\ drops' \in [DropReasons -> Nat] /\ in_flight' \in BOOLEAN
      /\ listener_status' \in {"listening", "failed", "stopped"}
      /\ dtls_status' \in {"resolving", "handshaking", "established", "retrying", "stopped"}
      /\ running' \in BOOLEAN /\ stop_at' \in StopTimes
  BY <1>1, <1>5 DEF StateTypeOK
<1> QED  BY <1>2, <1>4, <1>7, <1>8 DEF StateTypeOK

LEMMA FinishOversizedType ==
  ASSUME TypeInv, FinishOversized
  PROVE  StateTypeOK' /\ queue_bytes' = ByteSum(queue')
<1>1. StateTypeOK /\ SourcesTypeOK
  BY DEF TypeInv, BytesExact, TypeOK, StateTypeOK
<1>2. /\ queue' \in Seq(Message) /\ queue_depth' \in Nat /\ queue_bytes' \in Nat
      /\ queue_bytes' = ByteSum(queue')
  BY PopFrontType DEF FinishOversized
<1>3. source_dropped' \in [Address -> Nat]
  <2>1. CASE queue = <<>>
    BY <2>1, <1>1 DEF FinishOversized, SourcesTypeOK
  <2>2. CASE queue # <<>>
    <3>1. Head(queue).source \in Address
      BY <1>1, <2>2, HeadType DEF StateTypeOK
    <3> QED  BY <1>1, <2>2, <3>1, SourceDroppedType DEF FinishOversized
  <2> QED  BY <2>1, <2>2
<1>4. messages_dropped' \in Nat /\ drops' \in [DropReasons -> Nat]
  BY <1>1, CountDropType DEF FinishOversized, DropReasons
<1>5. SourcesTypeOK'
  BY <1>1, <1>3 DEF FinishOversized, SourcesTypeOK
<1> QED  BY <1>1, <1>2, <1>4, <1>5 DEF FinishOversized, StateTypeOK

LEMMA ListenerType ==
  ASSUME TypeInv, ListenerNext
  PROVE  StateTypeOK' /\ queue_bytes' = ByteSum(queue') /\ ListenerTypeOK'
<1>1. StateTypeOK /\ SourcesTypeOK /\ queue_bytes = ByteSum(queue)
  BY DEF TypeInv, BytesExact, TypeOK, StateTypeOK
<1>2. CASE StopObserved \/ StartReceive \/ ReceiveTimesOut
  BY <1>2, StateUnchangedType
     DEF StopObserved, StartReceive, ReceiveTimesOut, ListenerTypeOK
<1>3. CASE ReceiveFails
  BY <1>1, <1>3 DEF ReceiveFails, ListenerTypeOK, StateTypeOK, SourcesTypeOK, StopTimes,
       counters, queue_vars, source_vars
<1>4. ASSUME NEW d \in Datagrams, CountReceived(d)
      PROVE  /\ messages_received' \in Nat
             /\ canonical_ip(d.peer) \in Address /\ d.size \in Nat
             /\ tracked' \subseteq Address
             /\ source_received' \in [Address -> Nat]
             /\ untracked_messages' \in Nat
             /\ ListenerTypeOK'
  <2>1. d.peer \in Address /\ d.size \in Nat
    BY ListenerAssumption
  <2>2. canonical_ip(d.peer) \in Address
    BY <2>1, CanonicalType
  <2>3. SourceReceived(canonical_ip(d.peer))
    BY <1>4 DEF CountReceived
  <2>4. messages_received' \in Nat
    BY <1>1, <1>4 DEF CountReceived, StateTypeOK
  <2>5. ListenerTypeOK'
    BY <1>4 DEF CountReceived, ListenerTypeOK
  <2> QED  BY <1>1, <2>1, <2>2, <2>3, <2>4, <2>5, SourceReceivedType
<1>5. ASSUME NEW d \in Datagrams, NEW reason \in DropReasons, Refuse(d, reason)
      PROVE  StateTypeOK' /\ queue_bytes' = ByteSum(queue') /\ ListenerTypeOK'
  <2>1. CountReceived(d) /\ CountDrop(reason)
        /\ SourceDropped(canonical_ip(d.peer), tracked') /\ UNCHANGED queue_vars
    BY <1>5 DEF Refuse
  <2>2. messages_dropped' \in Nat /\ drops' \in [DropReasons -> Nat]
    BY <1>1, <2>1, CountDropType
  <2>3. SourcesTypeOK'
    <3>1. canonical_ip(d.peer) \in Address
      BY <2>1, <1>4
    <3>2. source_dropped' \in [Address -> Nat]
      BY <1>1, <2>1, <3>1, SourceDroppedType
    <3>3. source_forwarded' \in [Address -> Nat]
      BY <1>1, <2>1 DEF CountReceived, SourcesTypeOK
    <3> QED  BY <2>1, <1>4, <3>2, <3>3 DEF SourcesTypeOK
  <2>4. /\ queue' \in Seq(Message) /\ queue_depth' \in Nat /\ queue_bytes' \in Nat
        /\ queue_bytes' = ByteSum(queue')
    BY <1>1, <2>1 DEF queue_vars, StateTypeOK
  <2>5. /\ messages_forwarded' \in Nat /\ in_flight' \in BOOLEAN
        /\ listener_status' \in {"listening", "failed", "stopped"}
        /\ dtls_status' \in {"resolving", "handshaking", "established", "retrying", "stopped"}
        /\ running' \in BOOLEAN /\ stop_at' \in StopTimes
    BY <1>1, <2>1 DEF CountReceived, StateTypeOK
  <2> QED  BY <2>1, <2>2, <2>3, <2>4, <2>5, <1>4 DEF StateTypeOK
<1>6. ASSUME NEW d \in Datagrams, Accept(d)
      PROVE  StateTypeOK' /\ queue_bytes' = ByteSum(queue') /\ ListenerTypeOK'
  <2>1. /\ CountReceived(d)
        /\ queue' = Append(queue, AsMessage(d))
        /\ queue_bytes' = queue_bytes + d.size
        /\ queue_depth' = Len(queue')
        /\ UNCHANGED <<messages_dropped, drops, source_dropped>>
    BY <1>6 DEF Accept, Pushed
  <2>2. queue \in Seq(Message) /\ queue_bytes \in Nat /\ messages_received \in Nat
    BY <1>1 DEF StateTypeOK
  <2>3. AsMessage(d) \in Message /\ AsMessage(d).size = d.size /\ d.size \in Nat
    BY <2>1, <2>2, <1>4 DEF AsMessage, Message
  <2>4. /\ queue' \in Seq(Message) /\ queue_depth' \in Nat /\ queue_bytes' \in Nat
        /\ queue_bytes' = ByteSum(queue')
    BY <1>1, <2>1, <2>2, <2>3, AppendByteSum
  <2>5. SourcesTypeOK'
    BY <1>1, <2>1, <1>4 DEF CountReceived, SourcesTypeOK
  <2>6. /\ messages_forwarded' \in Nat /\ in_flight' \in BOOLEAN
        /\ messages_dropped' \in Nat /\ drops' \in [DropReasons -> Nat]
        /\ listener_status' \in {"listening", "failed", "stopped"}
        /\ dtls_status' \in {"resolving", "handshaking", "established", "retrying", "stopped"}
        /\ running' \in BOOLEAN /\ stop_at' \in StopTimes
    BY <1>1, <2>1 DEF CountReceived, StateTypeOK
  <2> QED  BY <2>1, <2>4, <2>5, <2>6, <1>4 DEF StateTypeOK
<1>7. ASSUME NEW d \in Datagrams, HandleDatagram(d)
      PROVE  (\E reason \in DropReasons : Refuse(d, reason)) \/ Accept(d)
  BY <1>7 DEF HandleDatagram, RefuseSource, RefuseStopping, RefuseOversized, RefuseInvalid,
       RefuseFull, DropReasons
<1> QED  BY <1>2, <1>3, <1>5, <1>6, <1>7 DEF ListenerNext

\* What a source has in the queue can be counted.
LEMMA QueuedFromType ==
  ASSUME NEW ip, queue \in Seq(Message)
  PROVE  /\ IsFiniteSet({i \in DOMAIN queue : queue[i].source = ip})
         /\ QueuedFrom(ip) \in Nat
<1>1. DOMAIN queue = 1..Len(queue) /\ Len(queue) \in Nat
  OBVIOUS
<1>2. IsFiniteSet(DOMAIN queue)
  BY <1>1, FS_Interval
<1> QED  BY <1>2, FS_Subset, FS_CardinalityType DEF QueuedFrom

LEMMA FrameType ==
  ASSUME NEW m \in Message
  PROVE  frame(m) \in Frame
<1>1. m.id \in Nat /\ m.size \in Nat
  BY DEF Message
<1>2. DecimalDigits(m.size) \in Nat
  BY <1>1 DEF DecimalDigits
<1> QED  BY <1>1, <1>2 DEF frame, Frame, FrameLen

LEMMA SenderLocalsType ==
  ASSUME TypeInv, UNCHANGED sender_locals
  PROVE  session' \in [mtu : Nat, unfinished : Frame] /\ pending_frame' \in Frame
BY DEF TypeInv, BytesExact, TypeOK, SenderTypeOK, sender_locals

LEMMA HistoryType ==
  ASSUME TypeInv, UNCHANGED history_vars
  PROVE  wire' \in Seq(Nat) /\ late_writes' \in Nat
BY DEF TypeInv, BytesExact, TypeOK, SenderTypeOK, history_vars

LEMMA OnWireType ==
  ASSUME TypeInv, OnWire
  PROVE  wire' \in Seq(Nat)
<1>1. wire \in Seq(Nat) /\ pending_frame.id \in Nat
  BY DEF TypeInv, BytesExact, TypeOK, SenderTypeOK, Frame
<1> QED  BY <1>1 DEF OnWire

LEMMA ResolverUnchangedType ==
  ASSUME TypeInv, UNCHANGED resolver_vars
  PROVE  ResolverTypeOK'
BY DEF TypeInv, BytesExact, TypeOK, ResolverTypeOK, resolver_vars

LEMMA SenderType ==
  ASSUME TypeInv, SenderNext
  PROVE  StateTypeOK' /\ queue_bytes' = ByteSum(queue') /\ SenderTypeOK' /\ ResolverTypeOK'
<1> USE DEF SenderSteps, Goto, SharedUnchanged
<1>1. /\ StateTypeOK /\ SourcesTypeOK /\ SenderTypeOK /\ ResolverTypeOK
      /\ in_flight \in BOOLEAN
      /\ dtls_status \in {"resolving", "handshaking", "established", "retrying", "stopped"}
  BY DEF TypeInv, BytesExact, TypeOK, StateTypeOK
<1>2. CASE LeaveLoop \/ EnterIteration \/ WaitForLookup \/ LookupStillRuns \/ LookupTimesOut
           \/ HandshakeFails \/ Idle
  BY <1>2, StateUnchangedType, SenderLocalsType, HistoryType, ResolverUnchangedType
     DEF LeaveLoop, EnterIteration, FirstStep, WaitForLookup, LookupStillRuns, LookupTimesOut,
         HandshakeFails, Idle, SenderTypeOK
<1>3. CASE BeginAttempt
  <2>1. StateTypeOK' /\ queue_bytes' = ByteSum(queue')
    BY <1>3, SetStatusType DEF BeginAttempt
  <2>2. SenderTypeOK'
    BY <1>3, SenderLocalsType, HistoryType DEF BeginAttempt, SenderTypeOK
  <2>3. ResolverTypeOK'
    BY <1>1, <1>3 DEF BeginAttempt, SpawnLookup, ResolverTypeOK, resolver_vars
  <2> QED  BY <2>1, <2>2, <2>3
<1>4. CASE SpawnFails
  BY <1>4, SetStatusType, SenderLocalsType, HistoryType, ResolverUnchangedType
     DEF SpawnFails, SenderTypeOK
<1>5. CASE LookupFailed
  <2>1. StateTypeOK' /\ queue_bytes' = ByteSum(queue')
    BY <1>5, StateUnchangedType DEF LookupFailed
  <2>2. SenderTypeOK'
    BY <1>5, SenderLocalsType, HistoryType DEF LookupFailed, SenderTypeOK
  <2>3. ResolverTypeOK'
    BY <1>1, <1>5 DEF LookupFailed, ResolverTypeOK
  <2> QED  BY <2>1, <2>2, <2>3
<1>6. CASE LookupFound
  <2>1. StateTypeOK' /\ queue_bytes' = ByteSum(queue')
    BY <1>1, <1>6, SetStatusType DEF LookupFound
  <2>2. SenderTypeOK'
    BY <1>6, SenderLocalsType, HistoryType DEF LookupFound, SenderTypeOK
  <2>3. ResolverTypeOK'
    BY <1>1, <1>6 DEF LookupFound, ResolverTypeOK
  <2> QED  BY <2>1, <2>2, <2>3
<1>7. ASSUME NEW m \in Mtus, HandshakeSucceeds(m)
      PROVE  StateTypeOK' /\ queue_bytes' = ByteSum(queue') /\ SenderTypeOK' /\ ResolverTypeOK'
  <2>1. StateTypeOK' /\ queue_bytes' = ByteSum(queue')
    BY <1>7, StateUnchangedType DEF HandshakeSucceeds
  <2>2. NewSession(m) \in [mtu : Nat, unfinished : Frame]
    BY MtusAssumption DEF NewSession, NoFrame, Frame
  <2>3. SenderTypeOK'
    BY <1>1, <1>7, <2>2, HistoryType DEF HandshakeSucceeds, SenderTypeOK
  <2> QED  BY <1>7, <2>1, <2>3, ResolverUnchangedType DEF HandshakeSucceeds
<1>8. CASE AttemptFailed
  <2>1. StateTypeOK' /\ queue_bytes' = ByteSum(queue')
    BY <1>1, <1>8, StateUnchangedType, SetStatusType DEF AttemptFailed
  <2>2. SenderTypeOK'
    BY <1>8, SenderLocalsType, HistoryType DEF AttemptFailed, SenderTypeOK
  <2> QED  BY <1>8, <2>1, <2>2, ResolverUnchangedType DEF AttemptFailed
<1>9. ASSUME DropSession, wire' \in Seq(Nat), late_writes' \in Nat
      PROVE  StateTypeOK' /\ queue_bytes' = ByteSum(queue') /\ SenderTypeOK' /\ ResolverTypeOK'
  <2>1. StateTypeOK' /\ queue_bytes' = ByteSum(queue')
    BY <1>9, StateUnchangedType DEF DropSession
  <2>2. NoSession \in [mtu : Nat, unfinished : Frame] /\ NoFrame \in Frame
    BY DEF NoSession, NoFrame, Frame
  <2>3. SenderTypeOK'
    BY <1>9, <2>2 DEF DropSession, SenderTypeOK
  <2> QED  BY <1>9, <2>1, <2>3, ResolverUnchangedType DEF DropSession
<1>10. CASE PollFails
  BY <1>9, <1>10, HistoryType DEF PollFails
<1>11. CASE WriteFails
  <2>1. wire' \in Seq(Nat)
    BY <1>1, <1>11, OnWireType DEF WriteFails, SenderTypeOK
  <2>2. late_writes' \in Nat
    BY <1>1, <1>11 DEF WriteFails, SenderTypeOK
  <2> QED  BY <1>9, <1>11, <2>1, <2>2 DEF WriteFails
<1>12. CASE TakeFront
  <2>1. StateTypeOK' /\ queue_bytes' = ByteSum(queue')
    BY <1>1, <1>12, SetStatusType DEF TakeFront
  <2>2. frame(Head(queue)) \in Frame
    BY <1>1, <1>12, HeadType, FrameType DEF TakeFront, StateTypeOK
  <2>3. SenderTypeOK'
    BY <1>1, <1>12, <2>2, HistoryType DEF TakeFront, SenderTypeOK
  <2> QED  BY <1>12, <2>1, <2>3, ResolverUnchangedType DEF TakeFront
<1>13. CASE DropFront
  BY <1>13, FinishOversizedType, SenderLocalsType, HistoryType, ResolverUnchangedType
     DEF DropFront, SenderTypeOK
<1>14. CASE WriteSent
  <2>1. StateTypeOK' /\ queue_bytes' = ByteSum(queue')
    BY <1>14, StateUnchangedType DEF WriteSent
  <2>2. session' \in [mtu : Nat, unfinished : Frame]
    BY <1>1, <1>14 DEF WriteSent, SenderTypeOK, NoFrame, Frame
  <2>3. wire' \in Seq(Nat) /\ late_writes' \in Nat
    BY <1>1, <1>14, OnWireType DEF WriteSent, SenderTypeOK
  <2>4. SenderTypeOK'
    BY <1>1, <1>14, <2>2, <2>3 DEF WriteSent, SenderTypeOK
  <2> QED  BY <1>14, <2>1, <2>4, ResolverUnchangedType DEF WriteSent
<1>15. CASE WriteBlocks
  <2>1. StateTypeOK' /\ queue_bytes' = ByteSum(queue')
    BY <1>15, StateUnchangedType DEF WriteBlocks
  <2>2. session' \in [mtu : Nat, unfinished : Frame]
    BY <1>1, <1>15 DEF WriteBlocks, SenderTypeOK
  <2>3. SenderTypeOK'
    BY <1>1, <1>15, <2>2, HistoryType DEF WriteBlocks, SenderTypeOK
  <2> QED  BY <1>15, <2>1, <2>3, ResolverUnchangedType DEF WriteBlocks
<1>16. CASE FinishSent
  <2>1. StateTypeOK' /\ queue_bytes' = ByteSum(queue')
    BY <1>16, FinishForwardedType DEF FinishSent
  <2>2. SenderTypeOK'
    BY <1>1, <1>16, HistoryType DEF FinishSent, SenderTypeOK, NoFrame, Frame
  <2> QED  BY <1>16, <2>1, <2>2, ResolverUnchangedType DEF FinishSent
<1>17. CASE ShutdownDrain
  <2>1. queue_bytes' = ByteSum(queue') /\ queue' \in Seq(Message) /\ queue_bytes' \in Nat
    BY <1>17, EmptyByteSum DEF ShutdownDrain
  <2>2. SenderTypeOK'
    BY <1>17, SenderLocalsType, HistoryType DEF ShutdownDrain, SenderTypeOK
  <2>3. source_dropped' \in [Address -> Nat]
    <3>1. ASSUME NEW ip \in Address
          PROVE source_dropped[ip] + (IF ip \in tracked THEN QueuedFrom(ip) ELSE 0) \in Nat
      <4>1. QueuedFrom(ip) \in Nat /\ source_dropped[ip] \in Nat
        BY <1>1, QueuedFromType DEF StateTypeOK, SourcesTypeOK
      <4> QED  BY <4>1
    <3> QED  BY <1>17, <3>1 DEF ShutdownDrain
  <2>4. SourcesTypeOK'
    BY <1>1, <1>17, <2>3 DEF ShutdownDrain, SourcesTypeOK
  <2>5. messages_dropped' \in Nat /\ drops' \in [DropReasons -> Nat]
    <3>1. Len(queue) \in Nat /\ messages_dropped \in Nat /\ drops \in [DropReasons -> Nat]
      BY <1>1 DEF StateTypeOK
    <3>2. drops["shutdown"] + Len(queue) \in Nat /\ messages_dropped + Len(queue) \in Nat
      BY <3>1 DEF DropReasons
    <3>3. /\ messages_dropped' = messages_dropped + Len(queue)
          /\ drops' = [drops EXCEPT !["shutdown"] = @ + Len(queue)]
      BY <1>17 DEF ShutdownDrain
    <3> QED  BY <3>1, <3>2, <3>3
  <2>6. /\ messages_received' \in Nat /\ messages_forwarded' \in Nat
        /\ queue_depth' \in Nat /\ in_flight' \in BOOLEAN
        /\ listener_status' \in {"listening", "failed", "stopped"}
        /\ dtls_status' \in {"resolving", "handshaking", "established", "retrying", "stopped"}
        /\ running' \in BOOLEAN /\ stop_at' \in StopTimes
    BY <1>1, <1>17 DEF ShutdownDrain, StateTypeOK
  <2>7. StateTypeOK'
    BY <2>1, <2>4, <2>5, <2>6 DEF StateTypeOK
  <2> QED  BY <1>17, <2>1, <2>2, <2>7, ResolverUnchangedType DEF ShutdownDrain
<1>18. CASE ShowEstablished
  <2>1. StateTypeOK' /\ queue_bytes' = ByteSum(queue')
    BY <1>1, <1>18, SetStatusType DEF ShowEstablished
  <2>2. SenderTypeOK'
    BY <1>1, <1>18, HistoryType DEF ShowEstablished, SenderTypeOK, NoFrame, Frame
  <2> QED  BY <1>18, <2>1, <2>2, ResolverUnchangedType DEF ShowEstablished
<1>19. CASE TellFailure
  <2>1. StateTypeOK' /\ queue_bytes' = ByteSum(queue')
    BY <1>19, SetStatusType DEF TellFailure
  <2>2. SenderTypeOK'
    BY <1>19, SenderLocalsType, HistoryType DEF TellFailure, SenderTypeOK
  <2> QED  BY <1>19, <2>1, <2>2, ResolverUnchangedType DEF TellFailure
<1>20. CASE CloseLast
  <2>1. StateTypeOK' /\ queue_bytes' = ByteSum(queue')
    BY <1>20, StateUnchangedType DEF CloseLast
  <2>2. SenderTypeOK'
    BY <1>1, <1>20, HistoryType DEF CloseLast, SenderTypeOK, NoSession, NoFrame, Frame
  <2> QED  BY <1>20, <2>1, <2>2, ResolverUnchangedType DEF CloseLast
<1> QED
  BY <1>2, <1>3, <1>4, <1>5, <1>6, <1>7, <1>8, <1>10, <1>11, <1>12, <1>13, <1>14, <1>15,
     <1>16, <1>17, <1>18, <1>19, <1>20
  DEF SenderNext, ConnectStep, SendStep

LEMMA OwnerType ==
  ASSUME TypeInv, OwnerNext \/ DeadlinePasses
  PROVE  TypeInv'
<1>1. StateTypeOK /\ SourcesTypeOK /\ TypeOK /\ queue_bytes = ByteSum(queue)
  BY DEF TypeInv, BytesExact, TypeOK, StateTypeOK
<1>2. StateTypeOK' /\ queue_bytes' = ByteSum(queue')
  <2>1. CASE StartSender \/ AbortJoinsListener \/ JoinListener
    BY <1>1, <2>1 DEF StartSender, AbortJoinsListener, JoinListener, StateTypeOK, SourcesTypeOK,
       state_vars, counters, queue_vars, source_vars
  <2>2. CASE StartFails
    BY <1>1, <2>2 DEF StartFails, ArmedStop, StopTimes, StateTypeOK, SourcesTypeOK, counters, queue_vars,
       source_vars
  <2>3. CASE RequestStop
    BY <1>1, <2>3 DEF RequestStop, ArmedStop, StopTimes, StateTypeOK, SourcesTypeOK, counters, queue_vars,
       source_vars
  <2>4. CASE JoinSender
    BY <1>1, <2>4 DEF JoinSender, StateTypeOK, SourcesTypeOK, counters, queue_vars, source_vars
  <2>5. CASE DeadlinePasses
    BY <1>1, <2>5 DEF DeadlinePasses, StopTimes, StateTypeOK, SourcesTypeOK, counters, queue_vars, source_vars
  <2> QED  BY <2>1, <2>2, <2>3, <2>4, <2>5 DEF OwnerNext
<1>3. ListenerTypeOK' /\ ResolverTypeOK' /\ SenderTypeOK' /\ owner' \in OwnerSteps
  BY <1>1 DEF OwnerNext, StartSender, StartFails, AbortJoinsListener, RequestStop, JoinListener,
     JoinSender, DeadlinePasses, TypeOK, ListenerTypeOK, ResolverTypeOK, SenderTypeOK,
     SenderSteps, OwnerSteps, thread_vars, resolver_vars, sender_vars, sender_locals,
     history_vars
<1> QED  BY <1>2, <1>3 DEF TypeInv, BytesExact, TypeOK

LEMMA TypeInit == Init => TypeInv
<1> SUFFICES ASSUME Init PROVE TypeInv
  OBVIOUS
<1>1. SourcesTypeOK
  BY DEF Init, StateInit, SourcesInit, SourcesTypeOK
<1>2. StateTypeOK
  <2>1. drops \in [DropReasons -> Nat] /\ queue \in Seq(Message)
    BY DEF Init, StateInit
  <2> QED  BY <1>1, <2>1 DEF Init, StateInit, StateTypeOK, StopTimes
<1>3. ListenerTypeOK /\ ResolverTypeOK /\ SenderTypeOK /\ owner \in OwnerSteps
  BY DEF Init, ListenerInit, ResolverInit, SenderInit, ListenerTypeOK, ResolverTypeOK,
     SenderTypeOK, SenderSteps, OwnerSteps, NoSession, NoFrame, Frame
<1>4. queue_bytes = ByteSum(queue)
  BY EmptyByteSum DEF Init, StateInit
<1> QED  BY <1>2, <1>3, <1>4 DEF TypeInv, BytesExact, TypeOK

LEMMA TypeStep == TypeInv /\ [Next]_vars => TypeInv'
<1> SUFFICES ASSUME TypeInv, [Next]_vars PROVE TypeInv'
  OBVIOUS
<1>1. TypeOK /\ owner \in OwnerSteps
  BY DEF TypeInv, BytesExact, TypeOK
<1>2. CASE ListenerStep
  <2>1. SenderTypeOK' /\ ResolverTypeOK' /\ owner' \in OwnerSteps
    BY <1>1, <1>2 DEF ListenerStep, TypeOK, SenderTypeOK, ResolverTypeOK, resolver_vars,
       sender_vars, sender_locals, history_vars
  <2> QED  BY <1>2, <2>1, ListenerType DEF ListenerStep, TypeInv, BytesExact, TypeOK
<1>3. CASE SenderStep
  <2>1. ListenerTypeOK' /\ owner' \in OwnerSteps
    BY <1>1, <1>3 DEF SenderStep, TypeOK, ListenerTypeOK
  <2> QED  BY <1>3, <2>1, SenderType DEF SenderStep, TypeInv, BytesExact, TypeOK
<1>4. CASE LookupStep
  <2>1. StateTypeOK' /\ queue_bytes' = ByteSum(queue')
    BY <1>4, StateUnchangedType DEF LookupStep
  <2>2. SenderTypeOK' /\ ListenerTypeOK' /\ owner' \in OwnerSteps
    BY <1>1, <1>4 DEF LookupStep, TypeOK, SenderTypeOK, ListenerTypeOK,
       sender_vars, sender_locals, history_vars
  <2>3. ResolverTypeOK'
    BY <1>1, <1>4 DEF LookupStep, LookupThread, LookupEnds, TypeOK, ResolverTypeOK
  <2> QED  BY <2>1, <2>2, <2>3 DEF TypeInv, BytesExact, TypeOK
<1>5. CASE OwnerNext \/ DeadlinePasses
  BY <1>5, OwnerType
<1>6. CASE UNCHANGED vars
  <2>1. StateTypeOK' /\ queue_bytes' = ByteSum(queue')
    BY <1>6, StateUnchangedType DEF vars
  <2> QED
    BY <1>1, <1>6, <2>1 DEF vars, TypeInv, BytesExact, TypeOK, SenderTypeOK, ListenerTypeOK, ResolverTypeOK,
       resolver_vars, sender_vars, sender_locals, history_vars
<1> QED  BY <1>2, <1>3, <1>4, <1>5, <1>6 DEF Next

\* Every variable keeps its type in every reachable state; in particular
\* queue_bytes, a usize that finish_front decreases, never wraps below zero.
THEOREM TypeCorrect == Spec => []TypeOK
<1>1. TypeInv => TypeOK
  BY DEF TypeInv, BytesExact
<1> QED  BY <1>1, TypeInit, TypeStep, PTL DEF Spec

\* The gauge of the byte limit never drifts from the queue: it is the sum over
\* the messages in it, whoever pushed, popped or drained (relay.rs:177-188,
\* 223-225, 449).
THEOREM BytesAgree == Spec => []BytesExact
<1>1. TypeInv => BytesExact
  BY DEF TypeInv
<1> QED  BY <1>1, TypeInit, TypeStep, PTL DEF Spec

(***************************************************************************)
(* Which steps touch the queue and its counters.                           *)
(***************************************************************************)
LEMMA StepKinds ==
  ASSUME [Next]_vars
  PROVE  \/ UNCHANGED <<counters, queue_vars, source_vars>>
         \/ \E d \in Datagrams, reason \in DropReasons :
               Refuse(d, reason) /\ UNCHANGED sender_vars
         \/ \E d \in Datagrams : Accept(d) /\ UNCHANGED sender_vars
         \/ FinishSent \/ DropFront \/ ShutdownDrain
<1>1. CASE ListenerStep
  <2>1. CASE StopObserved \/ StartReceive \/ ReceiveTimesOut \/ ReceiveFails
    BY <2>1 DEF StopObserved, StartReceive, ReceiveTimesOut, ReceiveFails, state_vars
  <2>2. ASSUME NEW d \in Datagrams, HandleDatagram(d)
        PROVE  (\E reason \in DropReasons : Refuse(d, reason)) \/ Accept(d)
    BY <2>2 DEF HandleDatagram, RefuseSource, RefuseStopping, RefuseOversized, RefuseInvalid,
       RefuseFull, DropReasons
  <2> QED  BY <1>1, <2>1, <2>2 DEF ListenerStep, ListenerNext
<1>2. CASE SenderStep
  <2>1. CASE LeaveLoop \/ EnterIteration \/ WaitForLookup \/ LookupStillRuns \/ LookupTimesOut
             \/ LookupFailed \/ HandshakeFails \/ Idle \/ WriteSent \/ WriteBlocks
    BY <2>1 DEF LeaveLoop, EnterIteration, FirstStep, WaitForLookup, LookupStillRuns, LookupTimesOut,
       LookupFailed, HandshakeFails, Idle, WriteSent, WriteBlocks, SharedUnchanged, state_vars
  <2>2. CASE BeginAttempt \/ SpawnFails \/ LookupFound \/ (\E m \in Mtus : HandshakeSucceeds(m))
             \/ AttemptFailed \/ PollFails \/ WriteFails \/ TakeFront
             \/ ShowEstablished \/ TellFailure \/ CloseLast
    BY <2>2 DEF BeginAttempt, SpawnFails, LookupFound, HandshakeSucceeds, AttemptFailed,
       PollFails, WriteFails, DropSession, ShowEstablished, TellFailure, CloseLast,
       TakeFront, SetStatus, SharedUnchanged, state_vars
  <2> QED  BY <1>2, <2>1, <2>2 DEF SenderStep, SenderNext, ConnectStep, SendStep
<1>3. CASE LookupStep
  BY <1>3 DEF LookupStep, state_vars
<1>4. CASE OwnerNext \/ DeadlinePasses
  BY <1>4 DEF OwnerNext, StartSender, StartFails, AbortJoinsListener, RequestStop, JoinListener,
     JoinSender, DeadlinePasses, state_vars
<1>5. CASE UNCHANGED vars
  BY <1>5 DEF vars, state_vars
<1> QED  BY <1>1, <1>2, <1>3, <1>4, <1>5 DEF Next

(***************************************************************************)
(* Starting and stopping.                                                  *)
(***************************************************************************)
LEMMA StopAtStep ==
  ASSUME [Next]_vars
  PROVE  UNCHANGED stop_at \/ stop_at' = "due" \/ stop_at' = ArmedStop
<1>1. CASE ListenerStep
  BY <1>1 DEF ListenerStep, ListenerNext, StopObserved, StartReceive, ReceiveTimesOut,
     ReceiveFails, HandleDatagram, RefuseSource, RefuseStopping, RefuseOversized,
     RefuseInvalid, RefuseFull, Refuse, Accept, CountReceived, state_vars
<1>2. CASE SenderStep
  <2>1. CASE LeaveLoop \/ EnterIteration \/ WaitForLookup \/ LookupStillRuns \/ LookupTimesOut
             \/ LookupFailed \/ HandshakeFails \/ Idle \/ WriteSent \/ WriteBlocks
    BY <2>1 DEF LeaveLoop, EnterIteration, FirstStep, WaitForLookup, LookupStillRuns, LookupTimesOut,
       LookupFailed, HandshakeFails, Idle, WriteSent, WriteBlocks, SharedUnchanged, state_vars
  <2>2. CASE BeginAttempt \/ SpawnFails \/ LookupFound \/ (\E m \in Mtus : HandshakeSucceeds(m))
             \/ AttemptFailed \/ PollFails \/ WriteFails \/ TakeFront
             \/ ShowEstablished \/ TellFailure \/ CloseLast
    BY <2>2 DEF BeginAttempt, SpawnFails, LookupFound, HandshakeSucceeds, AttemptFailed,
       PollFails, WriteFails, DropSession, ShowEstablished, TellFailure, CloseLast,
       TakeFront, SetStatus, SharedUnchanged, state_vars
  <2>3. CASE DropFront \/ FinishSent \/ ShutdownDrain
    BY <2>3 DEF DropFront, FinishSent, FinishForwarded, FinishOversized, ShutdownDrain
  <2> QED  BY <1>2, <2>1, <2>2, <2>3 DEF SenderStep, SenderNext, ConnectStep, SendStep
<1>3. CASE LookupStep
  BY <1>3 DEF LookupStep, state_vars
<1>4. CASE OwnerNext \/ DeadlinePasses
  BY <1>4 DEF OwnerNext, StartSender, StartFails, AbortJoinsListener, RequestStop, JoinListener,
     JoinSender, DeadlinePasses, state_vars
<1>5. CASE UNCHANGED vars
  BY <1>5 DEF vars, state_vars
<1> QED  BY <1>1, <1>2, <1>3, <1>4, <1>5 DEF Next

\* No step takes a stop back or moves a deadline that has passed: stop() after
\* a listener failure finds stop_at set and leaves it.
THEOREM StopNeverTakenBack == Spec => StopIsFinal
<1>1. TypeInv /\ [Next]_vars => [/\ stopping => stop_at' # "none"
                                 /\ expired => stop_at' = "due"]_vars
  BY StopAtStep DEF ArmedStop, stopping, expired
<1> QED  BY <1>1, TypeInit, TypeStep, PTL DEF Spec, StopIsFinal

LEMMA SenderGoes ==
  ASSUME SenderNext
  PROVE  /\ sender # "unborn" /\ sender # "done" /\ sender' # "unborn"
         /\ sender' = "done" => sender = "drain"
         /\ sender' = "drain" => sender = "final"
         /\ sender' = "final" => stopping
BY DEF SenderNext, ConnectStep, SendStep, LeaveLoop, EnterIteration, FirstStep, WaitForLookup,
   LookupStillRuns, LookupTimesOut, LookupFailed, HandshakeFails, Idle, WriteSent, WriteBlocks,
   BeginAttempt, SpawnFails, LookupFound, HandshakeSucceeds, AttemptFailed, PollFails,
   WriteFails, DropSession, ShowEstablished, TellFailure, CloseLast,
   TakeFront, DropFront, FinishSent, ShutdownDrain, MustLeave, Goto,
   stopping, expired

\* Who has been spawned, told to stop, and joined.
OwnerInv ==
  /\ (owner \in {"starting", "aborting", "aborted"}) = (sender = "unborn")
  /\ owner \notin {"starting", "running"} => stopping
  /\ owner \in {"join_sender", "stopped", "aborted"} => listener = "done"
  /\ owner = "stopped" => sender = "done"
  /\ sender \in {"final", "drain", "done"} => stopping
  /\ listener = "done" => stopping

LEMMA OwnerInit == Init => OwnerInv
BY DEF Init, SenderInit, ListenerInit, OwnerInv

LEMMA OwnerStep ==
  ASSUME TypeInv, OwnerInv, [Next]_vars
  PROVE  OwnerInv'
<1>1. owner \in OwnerSteps /\ sender \in SenderSteps
  BY DEF TypeInv, TypeOK, SenderTypeOK
<1>2. stopping => stopping'
  BY StopAtStep DEF ArmedStop, stopping
<1>3. CASE ListenerStep
  <2>1. UNCHANGED <<sender, owner>>
    BY <1>3 DEF ListenerStep, sender_vars
  <2>2. listener # "done" /\ (listener' = "done" => stopping')
    BY <1>2, <1>3 DEF ListenerStep, ListenerNext, StopObserved, StartReceive, ReceiveTimesOut,
       ReceiveFails, HandleDatagram, RefuseSource, RefuseStopping, RefuseOversized,
       RefuseInvalid, RefuseFull, Refuse, Accept, CountReceived, stopping
  <2> QED  BY <1>2, <2>1, <2>2 DEF OwnerInv
<1>4. CASE SenderStep
  <2>1. UNCHANGED <<listener, owner>> /\ SenderNext
    BY <1>4 DEF SenderStep
  <2> QED  BY <1>2, <2>1, SenderGoes DEF OwnerInv
<1>5. CASE LookupStep \/ UNCHANGED vars
  <2>1. UNCHANGED <<sender, listener, owner>>
    BY <1>5 DEF LookupStep, vars, sender_vars
  <2> QED  BY <1>2, <2>1 DEF OwnerInv
<1>6. CASE OwnerNext \/ DeadlinePasses
  BY <1>1, <1>2, <1>6 DEF OwnerNext, StartSender, StartFails, AbortJoinsListener, RequestStop,
     JoinListener, JoinSender, DeadlinePasses, ArmedStop, stopping, OwnerInv, OwnerSteps,
     thread_vars, sender_vars
<1> QED  BY <1>3, <1>4, <1>5, <1>6 DEF Next

(***************************************************************************)
(* The frame being written and the head of the queue.  FrontIsInFlight and *)
(* RetryContract speak of the steps "poll", "write" and "sent"; what makes *)
(* them inductive is what the top of the loop may rely on: a session that  *)
(* is kept holds exactly the frame that is pending.                        *)
(***************************************************************************)
IdsPositive == \A i \in DOMAIN queue : queue[i].id > 0

SessionInv ==
  /\ session.mtu = 0 => session = NoSession
  /\ sender \in {"unborn", "connect", "lookup", "recv_lookup", "handshake", "failed",
                 "broken"} =>
       session = NoSession /\ pending_frame = NoFrame
  /\ sender = "connected" =>
       session # NoSession /\ session.unfinished = NoFrame /\ pending_frame = NoFrame
  /\ sender \in {"drain", "done"} => session = NoSession
  /\ sender = "top" =>
       IF session = NoSession
         THEN pending_frame = NoFrame
         ELSE session.unfinished = pending_frame /\ pending_frame.len <= session.mtu
  /\ sender = "poll" =>
       session # NoSession /\ session.unfinished = NoFrame /\ pending_frame = NoFrame
  /\ sender = "write" =>
       /\ session # NoSession /\ pending_frame # NoFrame
       /\ session.unfinished \in {NoFrame, pending_frame}
       /\ pending_frame.len <= session.mtu
  /\ sender = "sent" =>
       /\ session # NoSession /\ pending_frame # NoFrame /\ session.unfinished = NoFrame
       /\ wire # <<>> /\ wire[Len(wire)] = pending_frame.id

HeadInv ==
  pending_frame # NoFrame /\ sender # "done" =>
    queue # <<>> /\ pending_frame = frame(Head(queue))

FrameInv == IdsPositive /\ SessionInv /\ HeadInv

LEMMA FrameInit == Init => FrameInv
BY DEF Init, StateInit, SenderInit, FrameInv, IdsPositive, SessionInv, HeadInv

LEMMA PendingWritten ==
  ASSUME TypeInv, OnWire
  PROVE  wire' # <<>> /\ wire'[Len(wire')] = pending_frame.id
<1>1. wire \in Seq(Nat) /\ pending_frame.id \in Nat
  BY DEF TypeInv, TypeOK, SenderTypeOK, Frame
<1> QED  BY <1>1 DEF OnWire

LEMMA SessionStep ==
  ASSUME TypeInv, FrameInv, SenderNext
  PROVE  SessionInv'
<1> USE DEF Goto, NoSession, NoFrame
<1>1. /\ session \in [mtu : Nat, unfinished : Frame] /\ pending_frame \in Frame
      /\ queue \in Seq(Message)
  BY DEF TypeInv, TypeOK, SenderTypeOK, StateTypeOK
<1>2. SessionInv /\ HeadInv /\ IdsPositive
  BY DEF FrameInv
<1>3. CASE LeaveLoop \/ EnterIteration \/ WaitForLookup \/ LookupStillRuns \/ LookupTimesOut
           \/ LookupFailed \/ HandshakeFails
  BY <1>1, <1>2, <1>3 DEF LeaveLoop, EnterIteration, FirstStep, WaitForLookup, LookupStillRuns,
     LookupTimesOut, LookupFailed, HandshakeFails, SessionInv, sender_locals, Frame
<1>4. CASE BeginAttempt \/ SpawnFails \/ LookupFound \/ AttemptFailed
  BY <1>1, <1>2, <1>4 DEF BeginAttempt, SpawnFails, LookupFound, AttemptFailed, SessionInv,
     sender_locals, Frame
<1>5. ASSUME NEW m \in Mtus, HandshakeSucceeds(m) PROVE SessionInv'
  BY <1>2, <1>5, MtusAssumption DEF HandshakeSucceeds, SessionInv, NewSession
<1>6. CASE PollFails \/ WriteFails
  BY <1>6 DEF PollFails, WriteFails, DropSession, SessionInv
<1>7. CASE Idle
  BY <1>1, <1>2, <1>7 DEF Idle, SessionInv, sender_locals, Frame
<1>8. CASE TakeFront
  <2>1. Head(queue).id > 0 /\ Head(queue) \in Message
    BY <1>1, <1>2, <1>8, HeadType DEF TakeFront, IdsPositive
  <2>2. pending_frame' # NoFrame /\ pending_frame'.len <= session.mtu
    BY <2>1, <1>8 DEF TakeFront, frame
  <2> QED  BY <1>2, <1>8, <2>2 DEF TakeFront, SessionInv
<1>9. CASE DropFront
  BY <1>1, <1>2, <1>9 DEF DropFront, SessionInv, sender_locals, Frame
<1>10. CASE WriteSent
  <2>1. /\ wire' # <<>> /\ wire'[Len(wire')] = pending_frame.id
    BY <1>10, PendingWritten DEF WriteSent
  <2> QED  BY <1>1, <1>2, <1>10, <2>1 DEF WriteSent, SessionInv
<1>11. CASE WriteBlocks
  BY <1>1, <1>2, <1>11 DEF WriteBlocks, SessionInv
<1>12. CASE FinishSent
  BY <1>1, <1>2, <1>12 DEF FinishSent, SessionInv
<1>13. CASE ShutdownDrain
  BY <1>2, <1>13 DEF ShutdownDrain, SessionInv, sender_locals
<1>14. CASE ShowEstablished
  BY <1>2, <1>14 DEF ShowEstablished, SessionInv
<1>15. CASE TellFailure
  BY <1>1, <1>2, <1>15 DEF TellFailure, SessionInv, sender_locals, Frame
<1>16. CASE CloseLast
  BY <1>16 DEF CloseLast, SessionInv
<1> QED
  BY <1>3, <1>4, <1>5, <1>6, <1>7, <1>8, <1>9, <1>10, <1>11, <1>12, <1>13, <1>14, <1>15, <1>16
  DEF SenderNext, ConnectStep, SendStep

LEMMA PopFacts ==
  ASSUME NEW q \in Seq(Message), q # <<>>
  PROVE  /\ Tail(q) \in Seq(Message) /\ Len(q) \in Nat \ {0} /\ Len(Tail(q)) = Len(q) - 1
         /\ Head(q) = q[1]
         /\ \A i \in DOMAIN Tail(q) : i + 1 \in DOMAIN q /\ Tail(q)[i] = q[i + 1]
OBVIOUS

LEMMA PushFacts ==
  ASSUME NEW q \in Seq(Message), NEW m \in Message
  PROVE  /\ Append(q, m) \in Seq(Message) /\ Append(q, m) # <<>>
         /\ Len(q) \in Nat /\ Len(Append(q, m)) = Len(q) + 1
         /\ q # <<>> => Head(Append(q, m)) = Head(q)
         /\ q = <<>> => Head(Append(q, m)) = m
         /\ Append(q, m)[Len(q) + 1] = m
         /\ \A i \in DOMAIN q : i \in DOMAIN Append(q, m) /\ Append(q, m)[i] = q[i]
         /\ \A i \in DOMAIN Append(q, m) : i \in DOMAIN q \/ i = Len(q) + 1
OBVIOUS

LEMMA NewMessageType ==
  ASSUME TypeInv, NEW d \in Datagrams
  PROVE  AsMessage(d) \in Message /\ AsMessage(d).id = messages_received + 1
         /\ AsMessage(d).size = d.size /\ d.size \in Nat
         /\ AsMessage(d).source = canonical_ip(d.peer)
<1>1. messages_received \in Nat
  BY DEF TypeInv, TypeOK, StateTypeOK
<1>2. d.peer \in Address /\ d.size \in Nat
  BY ListenerAssumption
<1> QED  BY <1>1, <1>2, CanonicalType DEF AsMessage, Message

LEMMA IdsStep ==
  ASSUME TypeInv, IdsPositive, [Next]_vars
  PROVE  IdsPositive'
<1>1. queue \in Seq(Message) /\ messages_received \in Nat
  BY DEF TypeInv, TypeOK, StateTypeOK
<1>2. CASE queue' = queue
  BY <1>2 DEF IdsPositive
<1>3. ASSUME NEW d \in Datagrams, Accept(d) PROVE IdsPositive'
  <2>1. AsMessage(d) \in Message /\ AsMessage(d).id > 0
    BY <1>1, NewMessageType
  <2>2. queue' = Append(queue, AsMessage(d))
    BY <1>3 DEF Accept, Pushed
  <2> QED  BY <1>1, <2>1, <2>2, PushFacts DEF IdsPositive
<1>4. CASE PopFront
  <2>1. CASE queue = <<>>
    BY <1>4, <2>1 DEF PopFront, IdsPositive
  <2>2. CASE queue # <<>>
    BY <1>1, <1>4, <2>2, PopFacts DEF PopFront, IdsPositive
  <2> QED  BY <2>1, <2>2
<1>5. CASE queue' = <<>>
  BY <1>5 DEF IdsPositive
<1> QED
  BY <1>2, <1>3, <1>4, <1>5, StepKinds
  DEF Refuse, queue_vars, FinishSent, FinishForwarded, DropFront, FinishOversized, ShutdownDrain

LEMMA HeadStep ==
  ASSUME TypeInv, OwnerInv, FrameInv, [Next]_vars
  PROVE  HeadInv'
<1>1. /\ queue \in Seq(Message) /\ SessionInv /\ HeadInv
  BY DEF TypeInv, TypeOK, StateTypeOK, FrameInv
<1>2. CASE UNCHANGED <<sender, pending_frame, queue>>
  BY <1>1, <1>2 DEF HeadInv
<1>3. ASSUME NEW d \in Datagrams, Accept(d), UNCHANGED sender_vars PROVE HeadInv'
  <2>1. queue' = Append(queue, AsMessage(d)) /\ AsMessage(d) \in Message
    BY <1>3, NewMessageType DEF Accept, Pushed
  <2>2. UNCHANGED <<sender, pending_frame>>
    BY <1>3 DEF sender_vars, sender_locals
  <2> QED  BY <1>1, <2>1, <2>2, PushFacts DEF HeadInv
<1>4. CASE SenderStep
  <2>1. CASE pending_frame' = NoFrame
    BY <2>1 DEF HeadInv
  <2>2. CASE UNCHANGED <<pending_frame, queue>> /\ sender # "done"
    BY <1>1, <2>2 DEF HeadInv
  <2>3. CASE TakeFront
    BY <1>1, <2>3 DEF TakeFront, HeadInv, SetStatus, queue_vars
  <2>4. CASE DropFront
    BY <1>1, <2>1, <2>4 DEF DropFront, SessionInv, sender_locals, Goto
  <2>5. CASE ShutdownDrain
    BY <2>5 DEF ShutdownDrain, Goto, HeadInv
  <2>6. CASE LeaveLoop \/ EnterIteration \/ WaitForLookup \/ LookupStillRuns \/ LookupTimesOut
             \/ LookupFailed \/ HandshakeFails \/ Idle \/ WriteSent \/ WriteBlocks
    BY <2>2, <2>6 DEF LeaveLoop, EnterIteration, FirstStep, WaitForLookup, LookupStillRuns, LookupTimesOut,
       LookupFailed, HandshakeFails, Idle, WriteSent, WriteBlocks, SharedUnchanged, state_vars,
       queue_vars, sender_locals, Goto
  <2>7. CASE BeginAttempt \/ SpawnFails \/ LookupFound \/ AttemptFailed
    BY <2>2, <2>7 DEF BeginAttempt, SpawnFails, LookupFound, AttemptFailed, SetStatus,
       SharedUnchanged, state_vars, queue_vars, sender_locals, Goto
  <2>8. CASE PollFails \/ WriteFails \/ FinishSent \/ ShowEstablished
    BY <2>1, <2>8 DEF PollFails, WriteFails, DropSession, FinishSent, ShowEstablished
  <2>9. CASE (\E m \in Mtus : HandshakeSucceeds(m)) \/ TellFailure \/ CloseLast
    BY <2>2, <2>9 DEF HandshakeSucceeds, TellFailure, CloseLast, SetStatus, SharedUnchanged,
       state_vars, queue_vars, sender_locals, Goto
  <2> QED
    BY <1>4, <2>3, <2>4, <2>5, <2>6, <2>7, <2>8, <2>9 DEF SenderStep, SenderNext, ConnectStep, SendStep
<1>5. CASE ListenerStep
  <2>1. UNCHANGED sender_vars
    BY <1>5 DEF ListenerStep
  <2>2. CASE UNCHANGED queue
    BY <1>2, <2>1, <2>2 DEF sender_vars, sender_locals
  <2>3. (\E d \in Datagrams : Accept(d)) \/ UNCHANGED queue
    BY <1>5 DEF ListenerStep, ListenerNext, StopObserved, StartReceive, ReceiveTimesOut,
       ReceiveFails, HandleDatagram, RefuseSource, RefuseStopping, RefuseOversized,
       RefuseInvalid, RefuseFull, Refuse, state_vars, queue_vars
  <2> QED  BY <1>3, <2>1, <2>2, <2>3
<1>6. CASE LookupStep
  BY <1>2, <1>6 DEF LookupStep, state_vars, queue_vars, sender_vars, sender_locals
<1>7. CASE OwnerNext \/ DeadlinePasses
  <2>1. CASE StartSender
    <3>1. UNCHANGED <<pending_frame, queue>> /\ sender' = "top"
      BY <2>1 DEF StartSender, state_vars, queue_vars, sender_locals
    <3>2. sender = "unborn"
      BY <2>1 DEF StartSender, OwnerInv
    <3> QED  BY <3>1, <3>2, <1>1 DEF SessionInv, HeadInv
  <2>2. CASE ~ StartSender
    BY <1>2, <1>7, <2>2 DEF OwnerNext, StartFails, AbortJoinsListener, RequestStop, JoinListener,
       JoinSender, DeadlinePasses, state_vars, queue_vars, thread_vars, sender_vars,
       sender_locals
  <2> QED  BY <2>1, <2>2
<1>8. CASE UNCHANGED vars
  BY <1>2, <1>8 DEF vars, state_vars, queue_vars, sender_vars, sender_locals
<1> QED  BY <1>4, <1>5, <1>6, <1>7, <1>8 DEF Next

LEMMA FrameStep ==
  ASSUME TypeInv, OwnerInv, FrameInv, [Next]_vars
  PROVE  FrameInv'
<1>1. IdsPositive' /\ HeadInv'
  BY IdsStep, HeadStep DEF FrameInv
<1>2. CASE SenderStep
  BY <1>1, <1>2, SessionStep DEF SenderStep, FrameInv
<1>3. CASE StartSender
  <2>1. sender' = "top" /\ sender = "unborn" /\ UNCHANGED <<session, pending_frame, wire>>
    BY <1>3 DEF StartSender, OwnerInv, sender_locals, history_vars
  <2> QED  BY <1>1, <2>1 DEF FrameInv, SessionInv
<1>4. CASE UNCHANGED sender_vars
  BY <1>1, <1>4 DEF FrameInv, SessionInv, sender_vars, sender_locals, history_vars
<1>5. SenderStep \/ StartSender \/ UNCHANGED sender_vars
  BY DEF Next, ListenerStep, LookupStep, OwnerNext, StartFails, AbortJoinsListener, RequestStop,
     JoinListener, JoinSender, DeadlinePasses, thread_vars, vars
<1> QED  BY <1>2, <1>3, <1>4, <1>5

LEMMA FrameImplies ==
  ASSUME FrameInv
  PROVE  FrontIsInFlight /\ RetryContract
BY DEF FrameInv, HeadInv, SessionInv, FrontIsInFlight, RetryContract

\* The message that finish_front(true) pops is the one whose frame the session
\* took, although the lock was free in between.
THEOREM HeadIsInFlight == Spec => []FrontIsInFlight
<1> DEFINE I == TypeInv /\ OwnerInv /\ FrameInv
<1>1. Init => I
  BY TypeInit, OwnerInit, FrameInit
<1>2. I /\ [Next]_vars => I'
  BY TypeStep, OwnerStep, FrameStep
<1>3. I => FrontIsInFlight
  BY FrameImplies
<1> QED  BY <1>1, <1>2, <1>3, PTL DEF Spec

\* The sender keeps the contract of the DTLS session: a blocked write is
\* repeated with the same frame, no poll comes between, and no frame exceeds
\* the budget of its session.
THEOREM WritesAreRepeated == Spec => []RetryContract
<1> DEFINE I == TypeInv /\ OwnerInv /\ FrameInv
<1>1. Init => I
  BY TypeInit, OwnerInit, FrameInit
<1>2. I /\ [Next]_vars => I'
  BY TypeStep, OwnerStep, FrameStep
<1>3. I => RetryContract
  BY FrameImplies
<1> QED  BY <1>1, <1>2, <1>3, PTL DEF Spec

(***************************************************************************)
(* Accounting.                                                             *)
(***************************************************************************)
LEMMA DropTotalGrows ==
  ASSUME drops \in [DropReasons -> Nat], NEW reason \in DropReasons, NEW n \in Nat,
         drops' = [drops EXCEPT ![reason] = @ + n]
  PROVE  DropTotal' = DropTotal + n
<1>1. \A k \in DropReasons : drops[k] \in Nat
  OBVIOUS
<1>2. \A k \in DropReasons : drops'[k] = IF k = reason THEN drops[k] + n ELSE drops[k]
  OBVIOUS
<1> DEFINE a == drops["source_denied"]   b == drops["shutdown"]   c == drops["oversized"]
           d == drops["invalid"]         e == drops["queue_full"]
<1>3. a \in Nat /\ b \in Nat /\ c \in Nat /\ d \in Nat /\ e \in Nat
  BY <1>1 DEF DropReasons
<1>4. /\ drops'["source_denied"] = IF reason = "source_denied" THEN a + n ELSE a
      /\ drops'["shutdown"] = IF reason = "shutdown" THEN b + n ELSE b
      /\ drops'["oversized"] = IF reason = "oversized" THEN c + n ELSE c
      /\ drops'["invalid"] = IF reason = "invalid" THEN d + n ELSE d
      /\ drops'["queue_full"] = IF reason = "queue_full" THEN e + n ELSE e
  BY <1>2 DEF DropReasons
<1>5. DropTotal = a + b + c + d + e
  BY DEF DropTotal
<1> HIDE DEF a, b, c, d, e
<1>6. CASE reason = "source_denied"  BY <1>3, <1>4, <1>5, <1>6 DEF DropTotal
<1>7. CASE reason = "shutdown"  BY <1>3, <1>4, <1>5, <1>7 DEF DropTotal
<1>8. CASE reason = "oversized"  BY <1>3, <1>4, <1>5, <1>8 DEF DropTotal
<1>9. CASE reason = "invalid"  BY <1>3, <1>4, <1>5, <1>9 DEF DropTotal
<1>10. CASE reason = "queue_full"  BY <1>3, <1>4, <1>5, <1>10 DEF DropTotal
<1> QED  BY <1>6, <1>7, <1>8, <1>9, <1>10 DEF DropReasons

LEMMA AccountingStep ==
  ASSUME TypeInv, FrameInv, Accounting, [Next]_vars
  PROVE  Accounting'
<1> USE DEF Accounting
<1>1. /\ messages_received \in Nat /\ messages_forwarded \in Nat /\ messages_dropped \in Nat
      /\ drops \in [DropReasons -> Nat] /\ queue \in Seq(Message) /\ queue_depth \in Nat
  BY DEF TypeInv, TypeOK, StateTypeOK
<1>2. CASE UNCHANGED <<counters, queue_vars>>
  BY <1>2 DEF counters, queue_vars, DropTotal
<1>3. ASSUME NEW reason \in DropReasons, CountDrop(reason)
      PROVE  DropTotal' = DropTotal + 1 /\ messages_dropped' = messages_dropped + 1
  BY <1>1, <1>3, DropTotalGrows DEF CountDrop
<1>4. ASSUME NEW d \in Datagrams, NEW reason \in DropReasons, Refuse(d, reason)
      PROVE  Accounting'
  <2>1. DropTotal' = DropTotal + 1 /\ messages_dropped' = messages_dropped + 1
    BY <1>3, <1>4 DEF Refuse
  <2>2. UNCHANGED <<messages_forwarded, queue, queue_depth>>
        /\ messages_received' = messages_received + 1
    BY <1>4 DEF Refuse, CountReceived, queue_vars
  <2> QED  BY <1>1, <2>1, <2>2
<1>5. ASSUME NEW d \in Datagrams, Accept(d) PROVE Accounting'
  <2>1. /\ UNCHANGED <<messages_forwarded, messages_dropped, drops>>
        /\ messages_received' = messages_received + 1
        /\ queue' = Append(queue, AsMessage(d)) /\ queue_depth' = Len(queue')
    BY <1>5 DEF Accept, Pushed, CountReceived
  <2>2. Len(queue') = Len(queue) + 1 /\ Len(queue) \in Nat
    BY <1>1, <2>1, NewMessageType, PushFacts
  <2>3. DropTotal' = DropTotal
    BY <2>1 DEF DropTotal
  <2>4. queue_depth' = queue_depth + 1 /\ queue_depth' = Len(queue')
    BY <2>1, <2>2
  <2>5. messages_received' = messages_forwarded' + messages_dropped' + queue_depth'
    <3>1. /\ messages_forwarded' = messages_forwarded /\ messages_dropped' = messages_dropped
          /\ messages_received' = messages_received + 1
      BY <2>1
    <3> QED  BY <3>1, <2>4, <1>1
  <2> QED  BY <2>1, <2>3, <2>4, <2>5
<1>6. CASE FinishSent
  <2>1. queue # <<>>
    BY <1>6 DEF FinishSent, Goto, FrameInv, SessionInv, HeadInv
  <2>2. /\ UNCHANGED <<messages_received, messages_dropped, drops>>
        /\ messages_forwarded' = messages_forwarded + 1
        /\ queue' = Tail(queue) /\ queue_depth' = Len(queue')
    BY <1>6, <2>1 DEF FinishSent, FinishForwarded, PopFront
  <2>3. DropTotal' = DropTotal
    BY <2>2 DEF DropTotal
  <2>4. Len(queue') = Len(queue) - 1 /\ Len(queue) \in Nat
    BY <1>1, <2>1, <2>2, PopFacts
  <2>5. messages_received = messages_forwarded + messages_dropped + Len(queue)
        /\ messages_dropped = DropTotal
    OBVIOUS
  <2>6. messages_received' = messages_forwarded' + messages_dropped' + queue_depth'
    <3>1. queue_depth' = Len(queue) - 1
      BY <2>2, <2>4
    <3>2. /\ messages_received' = messages_received /\ messages_dropped' = messages_dropped
          /\ messages_forwarded' = messages_forwarded + 1
      BY <2>2
    <3> HIDE DEF Accounting
    <3> QED  BY <1>1, <2>4, <2>5, <3>1, <3>2
  <2> QED  BY <2>2, <2>3, <2>5, <2>6
<1>7. CASE DropFront
  <2>1. DropTotal' = DropTotal + 1 /\ messages_dropped' = messages_dropped + 1
    BY <1>3, <1>7 DEF DropFront, FinishOversized, DropReasons
  <2>2. /\ UNCHANGED <<messages_received, messages_forwarded>>
        /\ queue # <<>> /\ queue' = Tail(queue) /\ queue_depth' = Len(queue')
    BY <1>7 DEF DropFront, FinishOversized, PopFront
  <2>3. Len(queue') = Len(queue) - 1 /\ Len(queue) \in Nat
    BY <1>1, <2>2, PopFacts
  <2> QED  BY <1>1, <2>1, <2>2, <2>3
<1>8. CASE ShutdownDrain
  <2>1. /\ UNCHANGED <<messages_received, messages_forwarded>>
        /\ messages_dropped' = messages_dropped + Len(queue)
        /\ drops' = [drops EXCEPT !["shutdown"] = @ + Len(queue)]
        /\ queue' = <<>> /\ queue_depth' = 0
    BY <1>8 DEF ShutdownDrain
  <2>2. Len(queue) \in Nat /\ Len(queue') = 0
    BY <1>1, <2>1
  <2>3. DropTotal' = DropTotal + Len(queue)
    BY <1>1, <2>1, <2>2, DropTotalGrows DEF DropReasons
  <2> QED  BY <1>1, <2>1, <2>2, <2>3
<1> QED  BY <1>2, <1>4, <1>5, <1>6, <1>7, <1>8, StepKinds

\* received = forwarded + dropped + queue_depth, and every drop has a reason,
\* in every state that a status() call can see.
THEOREM CountersAgree == Spec => []Accounting
<1> DEFINE I == TypeInv /\ OwnerInv /\ FrameInv /\ Accounting
<1>1. Init => Accounting
  BY DEF Init, StateInit, Accounting, DropTotal, DropReasons
<1>2. Init => I
  BY <1>1, TypeInit, OwnerInit, FrameInit
<1>3. I /\ [Next]_vars => I'
  BY TypeStep, OwnerStep, FrameStep, AccountingStep
<1> QED  BY <1>2, <1>3, PTL DEF Spec

(***************************************************************************)
(* The limits of the queue, and its end.                                   *)
(***************************************************************************)
LEMMA WithinLimitsStep ==
  ASSUME TypeInv, WithinLimits, [Next]_vars
  PROVE  WithinLimits'
<1>1. /\ queue \in Seq(Message) /\ queue_bytes \in Nat /\ queue_bytes' \in Nat
      /\ MaxMessages \in Nat /\ MaxBytes \in Nat
  BY TypeStep, LimitsAssumption DEF TypeInv, TypeOK, StateTypeOK
<1>2. CASE UNCHANGED queue_vars
  BY <1>2 DEF queue_vars, WithinLimits
<1>3. ASSUME NEW d \in Datagrams, Accept(d) PROVE WithinLimits'
  <2>1. /\ queue' = Append(queue, AsMessage(d)) /\ queue_bytes' = queue_bytes + d.size
        /\ ~ QueueFull(d.size)
    BY <1>3 DEF Accept, Pushed
  <2>2. Len(queue') = Len(queue) + 1 /\ Len(queue) \in Nat /\ d.size \in Nat
    BY <1>1, <2>1, NewMessageType, PushFacts
  <2> QED  BY <1>1, <2>1, <2>2 DEF WithinLimits, QueueFull
<1>4. CASE PopFront
  <2>1. CASE queue = <<>>
    BY <1>4, <2>1 DEF PopFront, WithinLimits
  <2>2. CASE queue # <<>>
    <3>1. /\ Len(queue') = Len(queue) - 1 /\ Len(queue) \in Nat
          /\ queue_bytes' = queue_bytes - Head(queue).size /\ Head(queue).size \in Nat
      BY <1>1, <1>4, <2>2, PopFacts, HeadType DEF PopFront
    <3> QED  BY <1>1, <3>1 DEF WithinLimits
  <2> QED  BY <2>1, <2>2
<1>5. CASE queue' = <<>> /\ queue_bytes' = 0
  BY <1>1, <1>5 DEF WithinLimits
<1> QED
  BY <1>2, <1>3, <1>4, <1>5, StepKinds
  DEF Refuse, FinishSent, FinishForwarded, DropFront, FinishOversized, ShutdownDrain

\* The queue never holds more messages or bytes than configured.
THEOREM QueueStaysWithinLimits == Spec => []WithinLimits
<1>1. Init => WithinLimits
  BY LimitsAssumption DEF Init, StateInit, WithinLimits
<1>2. TypeInv /\ WithinLimits /\ [Next]_vars => (TypeInv /\ WithinLimits)'
  BY TypeStep, WithinLimitsStep
<1> QED  BY <1>1, <1>2, TypeInit, PTL DEF Spec

DrainInv == sender = "done" => queue = <<>> /\ queue_bytes = 0

LEMMA DrainStep ==
  ASSUME TypeInv, OwnerInv, DrainInv, [Next]_vars
  PROVE  DrainInv'
<1>1. CASE UNCHANGED <<counters, queue_vars>>
  <2>1. sender' = "done" => sender = "done" \/ ShutdownDrain
    BY DEF Next, ListenerStep, LookupStep, OwnerNext, StartSender, StartFails,
       AbortJoinsListener, RequestStop, JoinListener, JoinSender, DeadlinePasses, thread_vars,
       vars, sender_vars, SenderStep, SenderNext, ConnectStep, SendStep, LeaveLoop,
       EnterIteration, FirstStep, WaitForLookup, LookupStillRuns, LookupTimesOut, LookupFailed,
       HandshakeFails, Idle, WriteSent, WriteBlocks, BeginAttempt, SpawnFails, LookupFound,
       HandshakeSucceeds, AttemptFailed, PollFails, WriteFails, DropSession, ShowEstablished, TellFailure, CloseLast,
       TakeFront,
       DropFront, FinishSent, Goto
  <2>2. ShutdownDrain => queue' = <<>> /\ queue_bytes' = 0
    BY DEF ShutdownDrain
  <2> QED  BY <1>1, <2>1, <2>2 DEF DrainInv, queue_vars
<1>2. ASSUME NEW d \in Datagrams, NEW reason \in DropReasons, Refuse(d, reason),
             UNCHANGED sender_vars
      PROVE  DrainInv'
  BY <1>2 DEF Refuse, DrainInv, queue_vars, sender_vars
<1>3. ASSUME NEW d \in Datagrams, Accept(d), UNCHANGED sender_vars PROVE DrainInv'
  BY <1>3 DEF Accept, Admitted, OwnerInv, DrainInv, sender_vars
<1>4. CASE FinishSent \/ DropFront
  BY <1>4 DEF FinishSent, DropFront, Goto, DrainInv
<1>5. CASE ShutdownDrain
  BY <1>5 DEF ShutdownDrain, DrainInv
<1> QED  BY <1>1, <1>2, <1>3, <1>4, <1>5, StepKinds

\* Nothing is queued after the sender has drained the queue for the last time,
\* although the listener may still be running: stop() leaves nothing behind.
THEOREM NothingLeftBehind == Spec => []DrainedAtEnd
<1> DEFINE I == TypeInv /\ OwnerInv /\ FrameInv /\ Accounting /\ DrainInv
<1>1. Init => Accounting /\ DrainInv
  BY DEF Init, StateInit, SenderInit, Accounting, DropTotal, DropReasons, DrainInv
<1>2. Init => I
  BY <1>1, TypeInit, OwnerInit, FrameInit
<1>3. I /\ [Next]_vars => I'
  BY TypeStep, OwnerStep, FrameStep, AccountingStep, DrainStep
<1>4. I => DrainedAtEnd
  <2> SUFFICES ASSUME I PROVE DrainedAtEnd
    OBVIOUS
  <2>1. sender = "done" => queue = <<>> /\ queue_bytes = 0 /\ stopping
    BY DEF DrainInv, OwnerInv
  <2>2. owner = "stopped" => sender = "done" /\ listener = "done"
    BY DEF OwnerInv
  <2>3. messages_received \in Nat /\ messages_forwarded \in Nat /\ messages_dropped \in Nat
    BY DEF TypeInv, TypeOK, StateTypeOK
  <2>4. queue = <<>> => messages_received = messages_forwarded + messages_dropped + 0
    BY DEF Accounting
  <2> QED  BY <2>1, <2>2, <2>3, <2>4 DEF DrainedAtEnd
<1> QED  BY <1>2, <1>3, <1>4, PTL DEF Spec

(***************************************************************************)
(* The drain deadline, and the lookups.                                    *)
(***************************************************************************)
LateInv ==
  /\ late_writes <= 1
  /\ late_writes # 0 => expired /\ sender \in {"sent", "top", "final", "drain", "done"}

LEMMA LateStep ==
  ASSUME TypeInv, OwnerInv, LateInv, [Next]_vars
  PROVE  LateInv'
<1>1. late_writes \in Nat
  BY DEF TypeInv, TypeOK, SenderTypeOK
<1>2. expired => expired'
  BY StopAtStep DEF ArmedStop, expired
<1>3. CASE UNCHANGED <<sender, late_writes>>
  BY <1>2, <1>3 DEF LateInv
<1>4. CASE SenderStep
  <2>1. CASE WriteSent
    BY <1>1, <2>1 DEF WriteSent, LateInv, Goto, SharedUnchanged, state_vars, expired
  <2>2. CASE LeaveLoop \/ FinishSent \/ CloseLast \/ ShutdownDrain
    BY <1>2, <2>2 DEF LeaveLoop, FinishSent, CloseLast, ShutdownDrain, LateInv, Goto, history_vars
  <2>3. CASE EnterIteration
    <3>1. ~ expired
      BY <2>3 DEF EnterIteration, FirstStep, MustLeave, stopping, expired
    <3> QED  BY <2>3, <3>1, <1>1 DEF EnterIteration, FirstStep, LateInv, history_vars
  <2>4. CASE ~ (WriteSent \/ LeaveLoop \/ FinishSent \/ CloseLast \/ ShutdownDrain
                \/ EnterIteration)
    <3>1. sender \notin {"sent", "top", "final", "drain", "done"} /\ UNCHANGED late_writes
      BY <1>4, <2>4 DEF SenderStep, SenderNext, ConnectStep, SendStep, BeginAttempt, SpawnFails,
         WaitForLookup, LookupStillRuns, LookupTimesOut, LookupFailed, LookupFound,
         HandshakeSucceeds, HandshakeFails, AttemptFailed, PollFails, Idle, TakeFront,
         DropFront, WriteBlocks, WriteFails, ShowEstablished, TellFailure, Goto, history_vars
    <3> QED  BY <3>1, <1>1 DEF LateInv
  <2> QED  BY <2>1, <2>2, <2>3, <2>4
<1>5. CASE StartSender
  BY <1>1, <1>5 DEF StartSender, OwnerInv, LateInv, history_vars
<1>6. SenderStep \/ StartSender \/ UNCHANGED <<sender, late_writes>>
  BY DEF Next, ListenerStep, LookupStep, OwnerNext, StartFails, AbortJoinsListener, RequestStop,
     JoinListener, JoinSender, DeadlinePasses, thread_vars, vars, sender_vars, history_vars
<1> QED  BY <1>3, <1>4, <1>5, <1>6

\* However the deadline falls between the steps of the sender, at most the one
\* write already on its way completes after it.
THEOREM DeadlineBoundsDelivery == Spec => []AtMostOneLateWrite
<1> DEFINE I == TypeInv /\ OwnerInv /\ LateInv
<1>1. Init => I
  BY TypeInit, OwnerInit DEF Init, SenderInit, LateInv
<1>2. I /\ [Next]_vars => I'
  BY TypeStep, OwnerStep, LateStep
<1>3. I => AtMostOneLateWrite
  BY DEF LateInv, AtMostOneLateWrite
<1> QED  BY <1>1, <1>2, <1>3, PTL DEF Spec

LEMMA LookupInvStep ==
  ASSUME TypeInv, AtMostOneLookup, [Next]_vars
  PROVE  AtMostOneLookup'
<1>1. os_calls \in Nat
  BY DEF TypeInv, TypeOK, ResolverTypeOK
<1>2. CASE UNCHANGED resolver_vars
  BY <1>2 DEF resolver_vars, AtMostOneLookup
<1>3. CASE SpawnLookup
  BY <1>1, <1>3 DEF SpawnLookup, AtMostOneLookup, resolver_vars
<1>4. CASE dns # "waiting" /\ dns' = "none" /\ UNCHANGED os_calls
  BY <1>1, <1>4 DEF AtMostOneLookup
<1>5. CASE LookupThread
  BY <1>1, <1>5 DEF LookupThread, LookupEnds, AtMostOneLookup
<1>6. CASE SenderStep
  BY <1>2, <1>3, <1>4, <1>6 DEF SenderStep, SenderNext, ConnectStep, SendStep, LeaveLoop,
     EnterIteration, FirstStep, WaitForLookup, LookupStillRuns, LookupTimesOut, LookupFailed,
     HandshakeFails, Idle, WriteSent, WriteBlocks, BeginAttempt, SpawnFails, LookupFound,
     HandshakeSucceeds, AttemptFailed, PollFails, WriteFails, DropSession, ShowEstablished, TellFailure, CloseLast,
     TakeFront,
     DropFront, FinishSent, ShutdownDrain
<1> QED
  BY <1>2, <1>5, <1>6 DEF Next, ListenerStep, LookupStep, OwnerNext, StartSender, StartFails,
     AbortJoinsListener, RequestStop, JoinListener, JoinSender, DeadlinePasses, thread_vars, vars

\* However often an attempt gives up waiting for a lookup and a new attempt
\* begins, there is at most one OS call, also after the relay has stopped.
THEOREM OneLookup == Spec => []AtMostOneLookup
<1>1. Init => AtMostOneLookup
  BY DEF Init, ResolverInit, AtMostOneLookup
<1>2. TypeInv /\ AtMostOneLookup /\ [Next]_vars => (TypeInv /\ AtMostOneLookup)'
  BY TypeStep, LookupInvStep
<1> QED  BY <1>1, <1>2, TypeInit, PTL DEF Spec

(***************************************************************************)
(* The status gauges.                                                      *)
(***************************************************************************)
LEMMA StatusStep ==
  ASSUME TypeInv, OwnerInv, FrameInv, StatusCoherent, [Next]_vars
  PROVE  StatusCoherent'
<1> USE DEF Goto, ShownSession, ShownFlight
<1>1. /\ session \in [mtu : Nat, unfinished : Frame] /\ SessionInv /\ in_flight \in BOOLEAN
      /\ running \in BOOLEAN /\ queue \in Seq(Message)
  BY DEF TypeInv, TypeOK, SenderTypeOK, StateTypeOK, FrameInv
<1>2. CASE /\ UNCHANGED <<dtls_status, session, in_flight, pending_frame, running, sender>>
           /\ queue # <<>> => queue' # <<>>
  BY <1>2 DEF StatusCoherent
<1>3. CASE SenderStep
  <2>1. CASE LeaveLoop \/ EnterIteration \/ WaitForLookup \/ LookupStillRuns \/ LookupTimesOut
             \/ LookupFailed \/ HandshakeFails \/ Idle
    <3>1. /\ UNCHANGED <<dtls_status, session, in_flight, pending_frame, running, queue>>
          /\ sender \notin {"connected", "broken", "drain", "done"}
          /\ sender' \notin {"connected", "broken", "drain", "done"}
      BY <2>1 DEF LeaveLoop, EnterIteration, FirstStep, WaitForLookup, LookupStillRuns,
         LookupTimesOut, LookupFailed, HandshakeFails, Idle, SharedUnchanged, state_vars,
         queue_vars, sender_locals
    <3> QED  BY <3>1 DEF StatusCoherent
  <2>2. CASE WriteSent \/ WriteBlocks
    <3>1. session # NoSession /\ session'.mtu = session.mtu /\ session.mtu # 0
      BY <1>1, <2>2 DEF WriteSent, WriteBlocks, SessionInv
    <3>2. session' # NoSession
      BY <3>1 DEF NoSession
    <3>3. /\ UNCHANGED <<dtls_status, in_flight, pending_frame, running, queue>>
          /\ sender = "write" /\ sender' \in {"sent", "top"}
      BY <2>2 DEF WriteSent, WriteBlocks, SharedUnchanged, state_vars, queue_vars
    <3> QED  BY <3>1, <3>2, <3>3 DEF StatusCoherent
  <2>3. CASE BeginAttempt \/ SpawnFails \/ LookupFound \/ AttemptFailed
    <3>1. session = NoSession /\ pending_frame = NoFrame /\ session' = NoSession
          /\ pending_frame' = NoFrame /\ sender \notin {"broken", "drain", "done"}
          /\ sender' \notin {"broken", "drain", "done"} /\ UNCHANGED <<running, queue>>
      BY <1>1, <2>3 DEF BeginAttempt, SpawnFails, LookupFound, AttemptFailed, sender_locals,
         SessionInv, SetStatus, SharedUnchanged, state_vars, queue_vars
    <3>2. ~ in_flight /\ dtls_status # "established"
      BY <1>1, <3>1 DEF StatusCoherent
    <3>3. in_flight' = FALSE /\ dtls_status' # "established"
      BY <1>1, <2>3, <3>2 DEF BeginAttempt, SpawnFails, LookupFound, AttemptFailed, SetStatus,
         SharedUnchanged, state_vars
    <3> QED  BY <3>1, <3>2, <3>3 DEF StatusCoherent
  <2>4. ASSUME NEW m \in Mtus, HandshakeSucceeds(m) PROVE StatusCoherent'
    <3>1. session' # NoSession /\ sender = "handshake" /\ sender' = "connected"
      BY <2>4, MtusAssumption DEF HandshakeSucceeds, NewSession, NoSession
    <3>2. UNCHANGED <<dtls_status, in_flight, pending_frame, running, queue>>
      BY <2>4 DEF HandshakeSucceeds, SharedUnchanged, state_vars, queue_vars
    <3> QED  BY <3>1, <3>2 DEF StatusCoherent
  <2>5. CASE ShowEstablished
    <3>1. /\ session # NoSession /\ session' = session /\ pending_frame = NoFrame
          /\ pending_frame' = NoFrame /\ sender = "connected" /\ sender' = "poll"
          /\ dtls_status' = "established" /\ UNCHANGED <<in_flight, running, queue>>
      BY <1>1, <2>5 DEF ShowEstablished, SetStatus, queue_vars, SessionInv
    <3> QED  BY <3>1 DEF StatusCoherent
  <2>6. CASE PollFails \/ WriteFails
    <3>1. /\ session' = NoSession /\ sender \in {"poll", "write"} /\ sender' = "broken"
          /\ UNCHANGED <<dtls_status, in_flight, running, queue>>
      BY <2>6 DEF PollFails, WriteFails, DropSession, SharedUnchanged, state_vars, queue_vars
    <3> QED  BY <3>1 DEF StatusCoherent
  <2>7. CASE TellFailure
    <3>1. /\ session' = NoSession /\ pending_frame' = NoFrame /\ dtls_status' = "retrying"
          /\ in_flight' = FALSE /\ sender = "broken" /\ sender' = "top" /\ running' = running
      BY <1>1, <2>7 DEF TellFailure, SetStatus, sender_locals, SessionInv
    <3> QED  BY <3>1 DEF StatusCoherent
  <2>8. CASE TakeFront
    <3>1. pending_frame' # NoFrame /\ queue # <<>>
      <4>1. IdsPositive /\ queue # <<>>
        BY <2>8 DEF FrameInv, TakeFront
      <4>2. Head(queue).id > 0
        BY <1>1, <4>1, PopFacts DEF IdsPositive
      <4> QED  BY <2>8, <4>1, <4>2 DEF TakeFront, frame, NoFrame
    <3>2. /\ UNCHANGED <<dtls_status, session, running, queue>> /\ in_flight' = TRUE
          /\ sender = "poll" /\ sender' = "write"
      BY <2>8 DEF TakeFront, SetStatus, queue_vars
    <3>3. session # NoSession
      BY <1>1, <3>2 DEF SessionInv
    <3> QED  BY <3>1, <3>2, <3>3 DEF StatusCoherent
  <2>9. CASE DropFront \/ FinishSent
    <3>1. pending_frame' = NoFrame /\ session' = session /\ in_flight' = FALSE
          /\ UNCHANGED <<dtls_status, running>> /\ sender \in {"poll", "sent"}
          /\ sender' = "top"
      BY <1>1, <2>9 DEF DropFront, FinishSent, FinishForwarded, FinishOversized, sender_locals,
         SessionInv
    <3> QED  BY <3>1 DEF StatusCoherent
  <2>10. CASE CloseLast
    <3>1. /\ session' = NoSession /\ sender = "final" /\ sender' = "drain"
          /\ UNCHANGED <<dtls_status, in_flight, pending_frame, running, queue>>
      BY <2>10 DEF CloseLast, SharedUnchanged, state_vars, queue_vars
    <3> QED  BY <3>1 DEF StatusCoherent
  <2>11. CASE ShutdownDrain
    <3>1. session' = NoSession /\ dtls_status' = "stopped" /\ in_flight' = FALSE
          /\ running' = FALSE /\ sender' = "done"
      BY <1>1, <2>11 DEF ShutdownDrain, sender_locals, SessionInv
    <3> QED  BY <3>1 DEF StatusCoherent
  <2> QED
    BY <1>3, <2>1, <2>2, <2>3, <2>4, <2>5, <2>6, <2>7, <2>8, <2>9, <2>10, <2>11
    DEF SenderStep, SenderNext, ConnectStep, SendStep
<1>4. CASE StartSender
  BY <1>4 DEF StartSender, OwnerInv, StatusCoherent, state_vars, queue_vars, sender_locals
<1>5. CASE JoinSender
  <2>1. /\ sender = "done" /\ in_flight' = FALSE /\ running' = FALSE /\ dtls_status' = "stopped"
        /\ UNCHANGED <<sender, session, pending_frame>>
    BY <1>5 DEF JoinSender, thread_vars, sender_vars, sender_locals
  <2>2. session = NoSession
    BY <1>1, <2>1 DEF SessionInv
  <2> QED  BY <2>1, <2>2 DEF StatusCoherent
<1>6. \/ SenderStep \/ StartSender \/ JoinSender
      \/ /\ UNCHANGED <<dtls_status, session, in_flight, pending_frame, running, sender>>
         /\ queue # <<>> => queue' # <<>>
  <2>1. CASE ListenerStep
    <3>1. UNCHANGED <<dtls_status, session, in_flight, pending_frame, running, sender>>
      BY <2>1 DEF ListenerStep, ListenerNext, StopObserved, StartReceive, ReceiveTimesOut,
         ReceiveFails, HandleDatagram, RefuseSource, RefuseStopping, RefuseOversized,
         RefuseInvalid, RefuseFull, Refuse, Accept, CountReceived, state_vars, sender_vars,
         sender_locals
    <3>2. (\E d \in Datagrams : Accept(d)) \/ UNCHANGED queue
      BY <2>1 DEF ListenerStep, ListenerNext, StopObserved, StartReceive, ReceiveTimesOut,
         ReceiveFails, HandleDatagram, RefuseSource, RefuseStopping, RefuseOversized,
         RefuseInvalid, RefuseFull, Refuse, state_vars, queue_vars
    <3>3. ASSUME NEW d \in Datagrams, Accept(d) PROVE queue' # <<>>
      <4>1. queue' = Append(queue, AsMessage(d))
        BY <3>3 DEF Accept, Pushed
      <4>2. Len(queue') = Len(queue) + 1 /\ Len(queue) \in Nat
        BY <1>1, <4>1, NewMessageType, PushFacts
      <4>3. Len(queue') # 0
        BY <4>2
      <4> QED  BY <4>3
    <3> QED  BY <3>1, <3>2, <3>3
  <2>2. CASE ~ ListenerStep
    BY <2>2 DEF Next, LookupStep, OwnerNext, StartFails, AbortJoinsListener, RequestStop,
       JoinListener, DeadlinePasses, thread_vars, vars, state_vars, queue_vars, sender_vars,
       sender_locals
  <2> QED  BY <2>1, <2>2
<1> QED  BY <1>2, <1>3, <1>4, <1>5, <1>6

\* What a snapshot shows of the session, of the frame in flight and of the relay
\* running runs behind the sender by no more than its next critical section,
\* whichever thread wrote each gauge last.
THEOREM StatusIsTrue == Spec => []StatusCoherent
<1> DEFINE I == TypeInv /\ OwnerInv /\ FrameInv /\ StatusCoherent
<1>1. Init => StatusCoherent
  BY DEF Init, StateInit, SenderInit, StatusCoherent, ShownSession, ShownFlight
<1>2. Init => I
  BY <1>1, TypeInit, OwnerInit, FrameInit
<1>3. I /\ [Next]_vars => I'
  BY TypeStep, OwnerStep, FrameStep, StatusStep
<1> QED  BY <1>2, <1>3, PTL DEF Spec

(***************************************************************************)
(* Order.  Messages are numbered as they are received, so everything that  *)
(* is queued or has left the host is numbered up to messages_received.     *)
(***************************************************************************)
FifoInv ==
  /\ \A i, j \in DOMAIN queue : i < j => queue[i].id < queue[j].id
  /\ \A i \in DOMAIN queue : queue[i].id <= messages_received
  /\ \A i, j \in DOMAIN wire : i < j => wire[i] < wire[j]
  /\ \A i \in DOMAIN wire : wire[i] <= messages_received
  /\ \A i \in DOMAIN wire, j \in DOMAIN queue : wire[i] <= queue[j].id

LEMMA FifoStep ==
  ASSUME TypeInv, FrameInv, FifoInv, [Next]_vars
  PROVE  FifoInv'
<1>1. /\ queue \in Seq(Message) /\ wire \in Seq(Nat) /\ messages_received \in Nat
      /\ SessionInv /\ HeadInv
  BY DEF TypeInv, TypeOK, SenderTypeOK, StateTypeOK, FrameInv
<1>2. \A i \in DOMAIN queue : queue[i].id \in Nat
  <2>1. \A i \in DOMAIN queue : queue[i] \in Message
    BY <1>1
  <2> QED  BY <2>1 DEF Message
<1>3. CASE UNCHANGED <<queue, wire>> /\ messages_received' \in {messages_received, messages_received + 1}
  <2>1. messages_received <= messages_received'
    BY <1>1, <1>3
  <2> QED  BY <1>1, <1>2, <1>3, <2>1 DEF FifoInv
<1>4. ASSUME NEW d \in Datagrams, Accept(d), UNCHANGED wire PROVE FifoInv'
  <2>1. queue' = Append(queue, AsMessage(d)) /\ messages_received' = messages_received + 1
    BY <1>4 DEF Accept, Pushed, CountReceived
  <2>2. AsMessage(d) \in Message /\ AsMessage(d).id = messages_received + 1
    BY NewMessageType
  <2> DEFINE q == Append(queue, AsMessage(d))
  <2>3. /\ Len(queue) \in Nat /\ DOMAIN queue = 1..Len(queue)
        /\ q[Len(queue) + 1].id = messages_received + 1
        /\ \A i \in DOMAIN queue : q[i] = queue[i]
        /\ \A i \in DOMAIN q : i \in DOMAIN queue \/ i = Len(queue) + 1
    BY <1>1, <2>2, PushFacts
  <2> HIDE DEF q
  <2>4. \A i, j \in DOMAIN q : i < j => q[i].id < q[j].id
    BY <1>1, <1>2, <2>3 DEF FifoInv
  <2>5. \A i \in DOMAIN q : q[i].id <= messages_received + 1
    BY <1>1, <1>2, <2>3 DEF FifoInv
  <2>6. \A i \in DOMAIN wire : wire[i] <= messages_received + 1
    BY <1>1 DEF FifoInv
  <2>7. \A i \in DOMAIN wire, j \in DOMAIN q : wire[i] <= q[j].id
    BY <1>1, <1>2, <2>3 DEF FifoInv
  <2>8. queue' = q /\ messages_received' = messages_received + 1 /\ wire' = wire
    BY <1>4, <2>1 DEF q
  <2>9. \A i, j \in DOMAIN wire : i < j => wire[i] < wire[j]
    BY DEF FifoInv
  <2> QED  BY <2>4, <2>5, <2>6, <2>7, <2>8, <2>9 DEF FifoInv
<1>5. CASE queue # <<>> /\ queue' = Tail(queue) /\ UNCHANGED <<wire, messages_received>>
  <2>1. /\ \A i \in DOMAIN Tail(queue) : i + 1 \in DOMAIN queue /\ Tail(queue)[i] = queue[i + 1]
        /\ DOMAIN Tail(queue) \subseteq Nat /\ DOMAIN queue \subseteq Nat
    BY <1>1, <1>5, PopFacts
  <2> QED  BY <1>1, <1>5, <2>1 DEF FifoInv
<1>6. CASE queue' = <<>> /\ UNCHANGED <<wire, messages_received>>
  BY <1>6 DEF FifoInv
<1>7. CASE OnWire /\ UNCHANGED <<queue, messages_received>> /\ sender = "write"
  <2>1. queue # <<>> /\ pending_frame.id = queue[1].id /\ 1 \in DOMAIN queue
    BY <1>1, <1>7, PopFacts DEF HeadInv, SessionInv, frame
  <2>2. CASE wire' = wire
    BY <1>7, <2>2 DEF FifoInv
  <2>3. CASE wire' # wire
    <3> DEFINE p == queue[1].id   w == Append(wire, p)
    <3>1. wire' = w /\ (wire # <<>> => wire[Len(wire)] # p)
      BY <1>7, <2>1, <2>3 DEF OnWire
    <3>2. p \in Nat /\ p <= messages_received /\ \A j \in DOMAIN queue : p <= queue[j].id
      <4>1. \A j \in DOMAIN queue : j \in Nat /\ 1 <= j
        BY <1>1
      <4>2. ASSUME NEW j \in DOMAIN queue PROVE p <= queue[j].id
        <5>1. CASE j = 1  BY <1>2, <2>1, <5>1
        <5>2. CASE 1 < j  BY <1>2, <2>1, <5>2 DEF FifoInv
        <5> QED  BY <4>1, <5>1, <5>2
      <4> QED  BY <1>2, <2>1, <4>2 DEF FifoInv
    <3>3. \A i \in DOMAIN wire : wire[i] <= p
      BY <2>1 DEF FifoInv
    <3>4. \A i \in DOMAIN wire : wire[i] < p
      <4>1. ASSUME NEW i \in DOMAIN wire PROVE wire[i] < p
        <5>1. wire # <<>> /\ Len(wire) \in DOMAIN wire /\ i <= Len(wire) /\ i \in Nat
              /\ Len(wire) \in Nat /\ wire[i] \in Nat /\ wire[Len(wire)] \in Nat
          BY <1>1, <4>1
        <5>2. wire[Len(wire)] < p
          BY <3>1, <3>2, <3>3, <5>1
        <5>3. CASE i = Len(wire)  BY <5>2, <5>3
        <5>4. CASE i < Len(wire)
          <6>1. wire[i] < wire[Len(wire)]
            BY <5>1, <5>4 DEF FifoInv
          <6> QED  BY <3>2, <5>1, <5>2, <6>1
        <5> QED  BY <5>1, <5>3, <5>4
      <4> QED  BY <4>1
    <3>5. /\ Len(wire) \in Nat /\ DOMAIN wire = 1..Len(wire)
          /\ w[Len(wire) + 1] = p /\ \A i \in DOMAIN wire : w[i] = wire[i]
          /\ \A i \in DOMAIN w : i \in DOMAIN wire \/ i = Len(wire) + 1
      BY <1>1, <3>2
    <3> HIDE DEF w, p
    <3>6. \A i, j \in DOMAIN w : i < j => w[i] < w[j]
      BY <1>1, <3>2, <3>4, <3>5 DEF FifoInv
    <3>7. \A i \in DOMAIN w : w[i] <= messages_received
      BY <1>1, <3>2, <3>5 DEF FifoInv
    <3>8. \A i \in DOMAIN w, j \in DOMAIN queue : w[i] <= queue[j].id
      BY <1>1, <3>2, <3>5 DEF FifoInv
    <3> QED  BY <1>7, <3>1, <3>6, <3>7, <3>8 DEF FifoInv
  <2> QED  BY <2>2, <2>3
<1>8. CASE WriteSent \/ WriteFails
  <2>1. UNCHANGED <<queue, messages_received>> /\ sender = "write" /\ (OnWire \/ UNCHANGED wire)
    BY <1>8 DEF WriteSent, WriteFails, Goto, SharedUnchanged, state_vars, counters, queue_vars,
       DropSession
  <2> QED  BY <1>1, <1>3, <1>7, <2>1
<1>9. CASE ~ (WriteSent \/ WriteFails)
  <2>1. UNCHANGED wire
    BY <1>9 DEF Next, ListenerStep, LookupStep, OwnerNext, StartSender, StartFails,
       AbortJoinsListener, RequestStop, JoinListener, JoinSender, DeadlinePasses, thread_vars,
       vars, sender_vars, SenderStep, SenderNext, ConnectStep, SendStep, LeaveLoop,
       EnterIteration, FirstStep, WaitForLookup, LookupStillRuns, LookupTimesOut, LookupFailed,
       HandshakeFails, Idle, WriteBlocks, BeginAttempt, SpawnFails, LookupFound,
       HandshakeSucceeds, AttemptFailed, PollFails, ShowEstablished, TellFailure, CloseLast,
       TakeFront,
   DropFront, FinishSent,
       ShutdownDrain, history_vars
  <2>2. CASE UNCHANGED <<counters, queue_vars>>
    BY <1>3, <2>1, <2>2 DEF counters, queue_vars
  <2>3. ASSUME NEW d \in Datagrams, NEW reason \in DropReasons, Refuse(d, reason) PROVE FifoInv'
    BY <1>3, <2>1, <2>3 DEF Refuse, CountReceived, queue_vars
  <2>4. ASSUME NEW d \in Datagrams, Accept(d) PROVE FifoInv'
    BY <1>4, <2>1, <2>4
  <2>5. CASE FinishSent \/ DropFront
    <3>1. UNCHANGED messages_received /\ queue' = (IF queue = <<>> THEN <<>> ELSE Tail(queue))
      BY <2>5 DEF FinishSent, DropFront, FinishForwarded, FinishOversized, PopFront
    <3> QED  BY <1>5, <1>6, <2>1, <3>1
  <2>6. CASE ShutdownDrain
    BY <1>6, <2>1, <2>6 DEF ShutdownDrain
  <2> QED  BY <2>2, <2>3, <2>4, <2>5, <2>6, StepKinds
<1> QED  BY <1>8, <1>9

\* First transmissions leave the host in the order of reception, whatever
\* sessions fail and however often a message is written again.
THEOREM OrderIsKept == Spec => []Fifo
<1> DEFINE I == TypeInv /\ OwnerInv /\ FrameInv /\ FifoInv
<1>1. Init => FifoInv
  BY DEF Init, StateInit, SenderInit, FifoInv
<1>2. Init => I
  BY <1>1, TypeInit, OwnerInit, FrameInit
<1>3. I /\ [Next]_vars => I'
  BY TypeStep, OwnerStep, FrameStep, FifoStep
<1>4. I => Fifo
  <2> SUFFICES ASSUME I PROVE Fifo
    OBVIOUS
  <2>1. queue \in Seq(Message) /\ wire \in Seq(Nat)
    BY DEF TypeInv, TypeOK, SenderTypeOK, StateTypeOK
  <2>2. Increasing(wire) /\ Increasing(QueueIds)
    BY DEF FifoInv, Increasing, QueueIds
  <2>3. wire # <<>> => Len(wire) \in DOMAIN wire
    BY <2>1
  <2>4. queue # <<>> => 1 \in DOMAIN queue /\ Head(queue) = queue[1]
    BY <2>1
  <2> QED  BY <2>2, <2>3, <2>4 DEF FifoInv, Fifo
<1> QED  BY <1>2, <1>3, <1>4, PTL DEF Spec

(***************************************************************************)
(* The contract with the session, as a refinement.                         *)
(***************************************************************************)
LEMMA FramesNotEmpty == ASSUME NEW n \in Nat PROVE FrameLen(n) \in Nat \ {0}
BY DEF FrameLen, DecimalDigits

LEMMA ContractStep ==
  ASSUME TypeInv, FrameInv, [Next]_vars
  PROVE  [Contract!Next]_<<session.mtu, session.unfinished>>
<1>1. /\ session \in [mtu : Nat, unfinished : Frame] /\ pending_frame \in Frame
      /\ queue \in Seq(Message) /\ SessionInv /\ HeadInv
  BY DEF TypeInv, TypeOK, SenderTypeOK, StateTypeOK, FrameInv
<1>2. CASE UNCHANGED session
  BY <1>2
<1>3. ASSUME NEW m \in Mtus, HandshakeSucceeds(m)
      PROVE  [Contract!Next]_<<session.mtu, session.unfinished>>
  <2>1. session = NoSession /\ session' = NewSession(m)
    BY <1>1, <1>3 DEF HandshakeSucceeds, Goto, SessionInv
  <2> QED
    BY <2>1 DEF NoSession, NewSession, NoFrame, Contract!Next, Contract!Open, Contract!NoFrame
<1>4. CASE session' = NoSession
  <2>1. session.mtu = 0 => session = NoSession
    BY <1>1 DEF SessionInv
  <2> QED
    BY <1>4, <2>1 DEF NoSession, NoFrame, Contract!Next, Contract!Close, Contract!NoFrame
<1>5. CASE WriteSent
  <2>1. session.mtu # 0
    BY <1>1, <1>5 DEF WriteSent, Goto, SessionInv
  <2>2. session'.mtu = session.mtu /\ session'.unfinished = NoFrame
    BY <1>1, <1>5 DEF WriteSent
  <2> QED  BY <2>1, <2>2 DEF NoFrame, Contract!Next, Contract!Complete, Contract!NoFrame
<1>6. CASE WriteBlocks
  <2>1. /\ session.mtu # 0 /\ session.unfinished \in {NoFrame, pending_frame}
        /\ pending_frame # NoFrame /\ pending_frame.len <= session.mtu /\ sender = "write"
    BY <1>1, <1>6 DEF WriteBlocks, Goto, SessionInv
  <2>2. session'.mtu = session.mtu /\ session'.unfinished = pending_frame
    BY <1>1, <1>6 DEF WriteBlocks
  <2>3. pending_frame.len \in 1..session.mtu
    <3>1. queue # <<>> /\ pending_frame = frame(Head(queue))
      BY <1>1, <2>1 DEF HeadInv
    <3>2. Head(queue).size \in Nat
      <4>1. queue # <<>> /\ queue \in Seq(Message)
        BY <1>1, <3>1
      <4>2. Head(queue) \in Message
        BY <4>1
      <4> QED  BY <4>2 DEF Message
    <3>3. pending_frame.len = FrameLen(Head(queue).size)
      BY <3>1 DEF frame
    <3>4. pending_frame.len \in Nat \ {0}
      BY <3>2, <3>3, FramesNotEmpty
    <3>5. pending_frame.len \in Nat /\ session.mtu \in Nat
      BY <1>1 DEF Frame
    <3> QED  BY <2>1, <3>4, <3>5
  <2>4. CASE session.unfinished = NoFrame
    BY <2>1, <2>2, <2>3, <2>4 DEF NoFrame, Contract!Next, Contract!Block, Contract!NoFrame
  <2>5. CASE session.unfinished = pending_frame
    BY <2>2, <2>5
  <2> QED  BY <2>1, <2>4, <2>5
<1> QED
  BY <1>2, <1>3, <1>4, <1>5, <1>6
  DEF Next, vars, thread_vars, sender_vars, sender_locals, ListenerStep, LookupStep, OwnerNext,
      StartSender, StartFails, AbortJoinsListener, RequestStop, JoinListener, JoinSender,
      DeadlinePasses, SenderStep, SenderNext, LeaveLoop, EnterIteration, ConnectStep, SendStep,
      BeginAttempt, SpawnFails, WaitForLookup, LookupStillRuns, LookupTimesOut, LookupFailed,
      LookupFound, ShowEstablished, HandshakeFails, AttemptFailed, PollFails, DropSession, Idle,
      TakeFront, DropFront, WriteFails, FinishSent, TellFailure, CloseLast, ShutdownDrain

\* The sender uses its sessions as transport.rs and the OpenSSL implementation
\* demand: frames that fit, a blocked frame repeated until it is taken or the
\* session is given up, one session after the other.
THEOREM SenderKeepsContract == Spec => KeepsContract
<1> DEFINE I == TypeInv /\ OwnerInv /\ FrameInv
<1>1. Init => I /\ Contract!Init
  <2>1. Init => Contract!Init
    BY DEF Init, SenderInit, Contract!Init, NoSession, NoFrame, Contract!NoFrame
  <2> QED  BY <2>1, TypeInit, OwnerInit, FrameInit
<1>2. I /\ [Next]_vars => I'
  BY TypeStep, OwnerStep, FrameStep
<1>3. I /\ [Next]_vars => [Contract!Next]_<<session.mtu, session.unfinished>>
  BY ContractStep
<1> QED  BY <1>1, <1>2, <1>3, PTL DEF Spec, KeepsContract, Contract!Spec

(***************************************************************************)
(* The promise of FifoRelay.                                               *)
(***************************************************************************)
Ids(q) == [i \in DOMAIN q |-> q[i].id]
Phase == IF ~ stopping THEN "open" ELSE IF sender = "done" THEN "closed" ELSE "closing"
Promised == <<messages_received, messages_forwarded, messages_dropped, QueueIds, wire, Phase>>

LEMMA IdsFacts ==
  ASSUME NEW q \in Seq(Message)
  PROVE  /\ Ids(q) \in Seq(Nat) /\ Len(Ids(q)) = Len(q) /\ Len(q) \in Nat
         /\ q = <<>> => Ids(q) = <<>>
         /\ q # <<>> => /\ Ids(q) # <<>> /\ Head(Ids(q)) = Head(q).id
                        /\ Tail(Ids(q)) = Ids(Tail(q))
         /\ \A m \in Message : Ids(Append(q, m)) = Append(Ids(q), m.id)
<1>1. \A i \in DOMAIN q : q[i] \in Message /\ q[i].id \in Nat
  <2>1. \A i \in DOMAIN q : q[i] \in Message
    BY LenProperties
  <2>2. \A m \in Message : m.id \in Nat
    BY DEF Message
  <2>. QED  BY <2>1, <2>2
<1>2. Len(q) \in Nat /\ DOMAIN q = 1..Len(q)
  OBVIOUS
<1>3. Ids(q) \in Seq(Nat) /\ Len(Ids(q)) = Len(q)
  <2>1. Ids(q) \in [1..Len(q) -> Nat]
    BY <1>1, <1>2 DEF Ids
  <2>2. Ids(q) \in Seq(Nat)
    BY <1>2, <2>1, SeqDef
  <2>. QED  BY <1>2, <2>1, <2>2, LenProperties
<1>4. q = <<>> => Ids(q) = <<>>
  BY <1>2, <1>3
<1>5. ASSUME q # <<>>
      PROVE  Ids(q) # <<>> /\ Head(Ids(q)) = Head(q).id /\ Tail(Ids(q)) = Ids(Tail(q))
  <2>1. Ids(q) # <<>> /\ Head(Ids(q)) = Head(q).id
    BY <1>2, <1>3, <1>5, PopFacts DEF Ids
  <2>2. /\ Tail(q) \in Seq(Message) /\ Len(Tail(q)) = Len(q) - 1
        /\ \A i \in DOMAIN Tail(q) : i + 1 \in DOMAIN q /\ Tail(q)[i] = q[i + 1]
    BY <1>5, PopFacts
  <2>3. /\ Ids(Tail(q)) \in Seq(Nat) /\ Len(Ids(Tail(q))) = Len(q) - 1
        /\ \A i \in 1..(Len(q) - 1) : Ids(Tail(q))[i] = q[i + 1].id
    <3>1. DOMAIN Tail(q) = 1..(Len(q) - 1)
      BY <2>2
    <3>2. Ids(Tail(q)) \in [1..(Len(q) - 1) -> Nat]
      BY <1>1, <2>2, <3>1 DEF Ids
    <3>3. Len(q) - 1 \in Nat
      BY <1>2, <1>5, EmptySeq
    <3>4. Ids(Tail(q)) \in Seq(Nat)
      BY <3>2, <3>3, SeqDef
    <3>. QED  BY <2>2, <3>1, <3>2, <3>3, <3>4, LenProperties DEF Ids
  <2>4. /\ Tail(Ids(q)) \in Seq(Nat) /\ Len(Tail(Ids(q))) = Len(q) - 1
        /\ \A i \in 1..(Len(q) - 1) : Tail(Ids(q))[i] = Ids(q)[i + 1]
    BY <1>2, <1>3, <2>1, HeadTailProperties
  <2>5. \A i \in 1..(Len(q) - 1) : Ids(q)[i + 1] = q[i + 1].id
    BY <1>2 DEF Ids
  <2>6. Tail(Ids(q)) = Ids(Tail(q))
    BY <2>3, <2>4, <2>5, SeqEqual
  <2>. QED  BY <2>1, <2>6
<1>6. ASSUME NEW m \in Message PROVE Ids(Append(q, m)) = Append(Ids(q), m.id)
  <2>1. /\ Append(q, m) \in Seq(Message) /\ Len(Append(q, m)) = Len(q) + 1
        /\ Append(q, m)[Len(q) + 1] = m
        /\ \A i \in DOMAIN q : Append(q, m)[i] = q[i]
    BY PushFacts
  <2>2. m.id \in Nat
    BY DEF Message
  <2>3. Append(Ids(q), m.id) = [i \in 1..(Len(q) + 1) |-> IF i = Len(q) + 1 THEN m.id ELSE Ids(q)[i]]
    BY <1>3, <1>2, <2>2
  <2>4. Ids(Append(q, m)) = [i \in 1..(Len(q) + 1) |-> Append(q, m)[i].id]
    BY <2>1, <1>2 DEF Ids
  <2>5. \A i \in 1..(Len(q) + 1) :
          Append(q, m)[i].id = IF i = Len(q) + 1 THEN m.id ELSE Ids(q)[i]
    BY <2>1, <1>2 DEF Ids
  <2>. QED  BY <2>3, <2>4, <2>5
<1>. QED  BY <1>2, <1>3, <1>4, <1>5, <1>6

LEMMA WireStays ==
  ASSUME [Next]_vars, ~ (WriteSent \/ WriteFails)
  PROVE  UNCHANGED wire
BY DEF Next, ListenerStep, LookupStep, OwnerNext, StartSender, StartFails,
   AbortJoinsListener, RequestStop, JoinListener, JoinSender, DeadlinePasses, thread_vars,
   vars, sender_vars, SenderStep, SenderNext, ConnectStep, SendStep, LeaveLoop,
   EnterIteration, FirstStep, WaitForLookup, LookupStillRuns, LookupTimesOut, LookupFailed,
   HandshakeFails, Idle, WriteBlocks, BeginAttempt, SpawnFails, LookupFound,
   HandshakeSucceeds, AttemptFailed, PollFails, ShowEstablished, TellFailure, CloseLast, TakeFront,
   DropFront, FinishSent,
   ShutdownDrain, history_vars

LEMMA StopIsAStep ==
  ASSUME [Next]_vars
  PROVE  UNCHANGED stop_at \/ UNCHANGED <<counters, queue_vars, sender_vars>>
<1>1. CASE SenderStep
  <2>1. CASE LeaveLoop \/ EnterIteration \/ WaitForLookup \/ LookupStillRuns \/ LookupTimesOut
             \/ LookupFailed \/ HandshakeFails \/ Idle \/ WriteSent \/ WriteBlocks
    BY <2>1 DEF LeaveLoop, EnterIteration, FirstStep, WaitForLookup, LookupStillRuns, LookupTimesOut,
       LookupFailed, HandshakeFails, Idle, WriteSent, WriteBlocks, SharedUnchanged, state_vars
  <2>2. CASE BeginAttempt \/ SpawnFails \/ LookupFound \/ (\E m \in Mtus : HandshakeSucceeds(m))
             \/ AttemptFailed \/ PollFails \/ WriteFails \/ TakeFront
             \/ ShowEstablished \/ TellFailure \/ CloseLast
    BY <2>2 DEF BeginAttempt, SpawnFails, LookupFound, HandshakeSucceeds, AttemptFailed,
       PollFails, WriteFails, DropSession, ShowEstablished, TellFailure, CloseLast,
       TakeFront, SetStatus, SharedUnchanged, state_vars
  <2>3. CASE DropFront \/ FinishSent \/ ShutdownDrain
    BY <2>3 DEF DropFront, FinishSent, FinishForwarded, FinishOversized, ShutdownDrain
  <2> QED  BY <1>1, <2>1, <2>2, <2>3 DEF SenderStep, SenderNext, ConnectStep, SendStep
<1>2. CASE ListenerStep
  BY <1>2 DEF ListenerStep, ListenerNext, StopObserved, StartReceive, ReceiveTimesOut,
     ReceiveFails, HandleDatagram, RefuseSource, RefuseStopping, RefuseOversized,
     RefuseInvalid, RefuseFull, Refuse, Accept, CountReceived, state_vars
<1>3. CASE LookupStep \/ OwnerNext \/ DeadlinePasses \/ UNCHANGED vars
  BY <1>3 DEF LookupStep, OwnerNext, StartSender, StartFails, AbortJoinsListener, RequestStop,
     JoinListener, JoinSender, DeadlinePasses, state_vars, thread_vars, vars
<1> QED  BY <1>1, <1>2, <1>3 DEF Next

LEMMA DoneByDrain ==
  ASSUME OwnerInv, [Next]_vars, ~ ShutdownDrain
  PROVE  (sender' = "done") = (sender = "done")
<1>1. CASE SenderStep
  BY <1>1 DEF SenderStep, SenderNext, ConnectStep, SendStep, LeaveLoop,
     EnterIteration, FirstStep, WaitForLookup, LookupStillRuns, LookupTimesOut, LookupFailed,
     HandshakeFails, Idle, WriteSent, WriteBlocks, BeginAttempt, SpawnFails, LookupFound,
     HandshakeSucceeds, AttemptFailed, PollFails, WriteFails, DropSession, ShowEstablished, TellFailure, CloseLast,
     TakeFront,
     DropFront, FinishSent, Goto
<1>2. CASE StartSender
  BY <1>2 DEF StartSender, OwnerInv
<1>3. SenderStep \/ StartSender \/ UNCHANGED sender
  BY DEF Next, ListenerStep, LookupStep, OwnerNext, StartFails, AbortJoinsListener, RequestStop,
     JoinListener, JoinSender, DeadlinePasses, thread_vars, vars, sender_vars
<1> QED  BY <1>1, <1>2, <1>3

LEMMA PromiseStep ==
  ASSUME TypeInv, OwnerInv, FrameInv, FifoInv, FifoInv', [Next]_vars
  PROVE  [Promise!Next]_Promised
<1>1. /\ queue \in Seq(Message) /\ wire \in Seq(Nat)
      /\ messages_received \in Nat /\ messages_forwarded \in Nat /\ messages_dropped \in Nat
      /\ SessionInv /\ HeadInv
  BY DEF TypeInv, TypeOK, SenderTypeOK, StateTypeOK, FrameInv
<1>2. QueueIds = Ids(queue) /\ QueueIds' = Ids(queue')
  BY DEF QueueIds, Ids
<1>3. Phase' = Phase \/ (Phase = "open" /\ Phase' = "closing" /\ stop_at' # stop_at) \/ ShutdownDrain
  BY StopAtStep, DoneByDrain DEF Phase, ArmedStop, stopping, OwnerInv
<1>4. CASE Phase' # Phase /\ ~ ShutdownDrain
  <2>1. UNCHANGED <<counters, queue_vars, sender_vars>>
    BY <1>3, <1>4, StopIsAStep
  <2>2. Promise!Close
    BY <1>2, <1>3, <1>4, <2>1
    DEF Promise!Close, Phase, counters, queue_vars, sender_vars, history_vars
  <2>. QED  BY <2>2 DEF Promise!Next
<1>5. CASE ShutdownDrain
  <2>1. /\ UNCHANGED <<messages_received, messages_forwarded, wire>>
        /\ messages_dropped' = messages_dropped + Len(queue)
        /\ queue' = <<>> /\ UNCHANGED stop_at /\ sender = "drain" /\ sender' = "done"
    BY <1>5 DEF ShutdownDrain, Goto, history_vars
  <2>2. Phase = "closing" /\ Phase' = "closed"
    BY <2>1 DEF Phase, OwnerInv, stopping
  <2>3. Len(QueueIds) = Len(queue) /\ QueueIds' = <<>>
    BY <1>1, <1>2, <2>1, IdsFacts DEF Ids
  <2>. QED  BY <2>1, <2>2, <2>3 DEF Promise!Next, Promise!Abandon, Phase
<1>6. ASSUME NEW d \in Datagrams, NEW reason \in DropReasons, Refuse(d, reason),
             UNCHANGED sender_vars, Phase' = Phase
      PROVE  [Promise!Next]_Promised
  <2>1. /\ messages_received' = messages_received + 1 /\ messages_dropped' = messages_dropped + 1
        /\ UNCHANGED <<messages_forwarded, queue, wire>>
    BY <1>6 DEF Refuse, CountReceived, CountDrop, queue_vars, sender_vars, history_vars
  <2>2. QueueIds' = QueueIds
    BY <1>2, <2>1
  <2>. QED  BY <1>6, <2>1, <2>2 DEF Promise!Next, Promise!Refuse, Phase
<1>7. ASSUME NEW d \in Datagrams, Accept(d), UNCHANGED sender_vars, Phase' = Phase
      PROVE  [Promise!Next]_Promised
  <2>1. /\ messages_received' = messages_received + 1 /\ queue' = Append(queue, AsMessage(d))
        /\ UNCHANGED <<messages_forwarded, messages_dropped, wire>>
        /\ Phase = "open" /\ ~ (Len(queue) >= MaxMessages)
    BY <1>7 DEF Accept, Admitted, Pushed, CountReceived, QueueFull, sender_vars, history_vars, Phase
  <2>2. AsMessage(d) \in Message /\ AsMessage(d).id = messages_received + 1
    BY NewMessageType
  <2>3. QueueIds' = Append(QueueIds, messages_received') /\ Len(QueueIds) = Len(queue) /\ Len(queue) \in Nat
    BY <1>1, <1>2, <2>1, <2>2, IdsFacts
  <2>4. Len(QueueIds) < MaxMessages
    BY <2>1, <2>3, LimitsAssumption
  <2>. QED  BY <1>7, <2>1, <2>3, <2>4 DEF Promise!Next, Promise!Accept, Phase
<1>8. ASSUME PopFront, queue # <<>> PROVE QueueIds # <<>> /\ QueueIds' = Tail(QueueIds)
  <2>1. queue' = Tail(queue)
    BY <1>8 DEF PopFront
  <2>. QED  BY <1>1, <1>2, <1>8, <2>1, IdsFacts
<1>9. CASE FinishSent /\ Phase' = Phase
  <2>1. /\ sender = "sent" /\ PopFront /\ messages_forwarded' = messages_forwarded + 1
        /\ UNCHANGED <<messages_received, messages_dropped, wire>>
    BY <1>9 DEF FinishSent, Goto, FinishForwarded, history_vars
  <2>2. /\ queue # <<>> /\ wire # <<>> /\ wire[Len(wire)] = Head(queue).id
    BY <1>1, <2>1 DEF SessionInv, HeadInv, frame
  <2>3. QueueIds # <<>> /\ QueueIds' = Tail(QueueIds) /\ Head(QueueIds) = Head(queue).id
    BY <1>1, <1>2, <1>8, <2>1, <2>2, IdsFacts
  <2>4. Phase # "closed"
    BY <2>1 DEF Phase
  <2>. QED  BY <1>9, <2>1, <2>2, <2>3, <2>4 DEF Promise!Next, Promise!Forward, Phase
<1>10. CASE DropFront /\ Phase' = Phase
  <2>1. /\ sender = "poll" /\ PopFront /\ queue # <<>> /\ messages_dropped' = messages_dropped + 1
        /\ UNCHANGED <<messages_received, messages_forwarded, wire>>
    BY <1>10 DEF DropFront, Goto, FinishOversized, CountDrop, history_vars
  <2>2. QueueIds # <<>> /\ QueueIds' = Tail(QueueIds)
    BY <1>8, <2>1
  <2>3. Phase # "closed"
    BY <2>1 DEF Phase
  <2>. QED  BY <1>10, <2>1, <2>2, <2>3 DEF Promise!Next, Promise!Discard, Phase
<1>11. CASE UNCHANGED <<counters, queue_vars>> /\ Phase' = Phase
  <2>1. UNCHANGED <<messages_received, messages_forwarded, messages_dropped, queue>>
    BY <1>11 DEF counters, queue_vars
  <2>2. CASE UNCHANGED wire
    BY <1>2, <1>11, <2>1, <2>2 DEF Promised
  <2>3. CASE wire' # wire
    <3>1. sender = "write" /\ OnWire
      BY <2>3, WireStays DEF WriteSent, WriteFails, Goto
    <3>2. queue # <<>> /\ pending_frame.id = Head(queue).id
      BY <1>1, <3>1 DEF SessionInv, HeadInv, frame
    <3>3. wire' = Append(wire, Head(queue).id)
      BY <2>3, <3>1, <3>2 DEF OnWire
    <3>4. Head(QueueIds) = Head(queue).id /\ QueueIds # <<>> /\ Head(queue).id \in Nat
      <4>1. Head(queue) \in Message
        BY <1>1, <3>2, HeadType
      <4>. QED  BY <1>1, <1>2, <3>2, <4>1, IdsFacts DEF Message
    <3>5. ASSUME NEW i \in DOMAIN wire PROVE wire[i] < Head(queue).id
      <4>1. /\ i \in DOMAIN wire' /\ Len(wire) + 1 \in DOMAIN wire' /\ i < Len(wire) + 1
            /\ wire'[i] = wire[i] /\ wire'[Len(wire) + 1] = Head(queue).id
        BY <1>1, <3>3, <3>4
      <4>. QED  BY <4>1 DEF FifoInv
    <3>6. Phase # "closed"
      BY <3>1 DEF Phase
    <3>7. QueueIds' = QueueIds
      BY <1>2, <2>1
    <3>. QED
      BY <1>11, <2>1, <3>3, <3>4, <3>5, <3>6, <3>7 DEF Promise!Next, Promise!Deliver, Phase
  <2>. QED  BY <2>2, <2>3
<1>. QED
  BY <1>4, <1>5, <1>6, <1>7, <1>9, <1>10, <1>11, StepKinds

\* The relay, its threads, sessions and lookups together, keeps the promise of a
\* bounded queue that delivers in order and accounts for every datagram.
THEOREM PromiseKept == Spec => ImplementsPromise
<1> DEFINE I == TypeInv /\ OwnerInv /\ FrameInv /\ FifoInv
<1>1. Init => I /\ Promise!Init
  <2>1. Init => Promise!Init
    BY DEF Init, StateInit, SenderInit, Promise!Init, QueueIds, stopping
  <2>2. Init => FifoInv
    BY DEF Init, StateInit, SenderInit, FifoInv
  <2> QED  BY <2>1, <2>2, TypeInit, OwnerInit, FrameInit
<1>2. I /\ [Next]_vars => I'
  BY TypeStep, OwnerStep, FrameStep, FifoStep
<1>3. I /\ I' /\ [Next]_vars => [Promise!Next]_Promised
  BY PromiseStep
<1> QED  BY <1>1, <1>2, <1>3, PTL DEF Spec, ImplementsPromise, Promise!Spec, Promise!vars, Promised, Phase

(***************************************************************************)
(* What the runs check, put together.                                      *)
(***************************************************************************)
\* The collector gets what was received in the order of reception, and each
\* message leaves the queue as what was sent.
THEOREM DeliveredInOrder == Spec => []InOrder
BY OrderIsKept, HeadIsInFlight, PTL DEF InOrder

\* A stop leaves nothing behind uncounted and lets at most one write past the
\* deadline.
THEOREM StopIsHonoured == Spec => []StopHonoured
BY NothingLeftBehind, DeadlineBoundsDelivery, PTL DEF StopHonoured

(***************************************************************************)
(* The error shown.  Two threads write it, each in the critical section    *)
(* that changes a status; the listener's comes with a stop.                *)
(***************************************************************************)
ErrorInv ==
  /\ dtls_status = "retrying" => last_error \in {"listener", "dtls"}
  /\ dtls_status = "established" => last_error # "dtls"
  /\ last_error = "listener" => stopping

LEMMA StatusKinds ==
  ASSUME [Next]_vars
  PROVE  \/ UNCHANGED dtls_status
         \/ dtls_status' \in {"resolving", "handshaking", "stopped"}
         \/ Established
         \/ DtlsFailed
<1>1. CASE SenderStep
  <2>1. CASE LeaveLoop \/ EnterIteration \/ WaitForLookup \/ LookupStillRuns \/ LookupTimesOut
             \/ LookupFailed \/ HandshakeFails \/ Idle \/ WriteSent \/ WriteBlocks
    BY <2>1 DEF LeaveLoop, EnterIteration, FirstStep, WaitForLookup, LookupStillRuns, LookupTimesOut,
       LookupFailed, HandshakeFails, Idle, WriteSent, WriteBlocks, SharedUnchanged, state_vars
  <2>2. CASE BeginAttempt \/ SpawnFails \/ LookupFound \/ ShowEstablished
    BY <2>2 DEF BeginAttempt, SpawnFails, LookupFound, ShowEstablished, SetStatus, Goto, Established
  <2>3. CASE AttemptFailed
    BY <2>3 DEF AttemptFailed, SetStatus, SharedUnchanged, state_vars, DtlsFailed
  <2>4. CASE TellFailure
    BY <2>4 DEF TellFailure, Goto, SetStatus, DtlsFailed
  <2>5. CASE TakeFront \/ DropFront \/ FinishSent \/ ShutdownDrain
    BY <2>5 DEF TakeFront, DropFront, FinishSent, FinishForwarded, FinishOversized, ShutdownDrain,
       SetStatus
  <2>6. CASE (\E m \in Mtus : HandshakeSucceeds(m)) \/ PollFails \/ WriteFails \/ CloseLast
    BY <2>6 DEF HandshakeSucceeds, PollFails, WriteFails, DropSession, CloseLast,
       SharedUnchanged, state_vars
  <2> QED  BY <1>1, <2>1, <2>2, <2>3, <2>4, <2>5, <2>6 DEF SenderStep, SenderNext, ConnectStep, SendStep
<1>2. CASE ListenerStep
  BY <1>2 DEF ListenerStep, ListenerNext, StopObserved, StartReceive, ReceiveTimesOut,
     ReceiveFails, HandleDatagram, RefuseSource, RefuseStopping, RefuseOversized,
     RefuseInvalid, RefuseFull, Refuse, Accept, CountReceived, state_vars
<1>3. CASE LookupStep \/ OwnerNext \/ DeadlinePasses \/ UNCHANGED vars
  BY <1>3 DEF LookupStep, OwnerNext, StartSender, StartFails, AbortJoinsListener, RequestStop,
     JoinListener, JoinSender, DeadlinePasses, state_vars, vars
<1> QED  BY <1>1, <1>2, <1>3 DEF Next

\* Only the listener's own step fails it, and that step sets stop_at.
LEMMA FailureStops ==
  ASSUME [Next]_vars, ListenerFailed
  PROVE  stopping' /\ UNCHANGED <<sender, dtls_status>>
<1>1. CASE SenderStep
  <2>1. CASE LeaveLoop \/ EnterIteration \/ WaitForLookup \/ LookupStillRuns \/ LookupTimesOut
             \/ LookupFailed \/ HandshakeFails \/ Idle \/ WriteSent \/ WriteBlocks
    BY <2>1 DEF LeaveLoop, EnterIteration, FirstStep, WaitForLookup, LookupStillRuns, LookupTimesOut,
       LookupFailed, HandshakeFails, Idle, WriteSent, WriteBlocks, SharedUnchanged, state_vars,
       ListenerFailed
  <2>2. CASE BeginAttempt \/ SpawnFails \/ LookupFound \/ (\E m \in Mtus : HandshakeSucceeds(m))
             \/ AttemptFailed \/ PollFails \/ WriteFails \/ TakeFront
             \/ ShowEstablished \/ TellFailure \/ CloseLast
    BY <2>2 DEF BeginAttempt, SpawnFails, LookupFound, HandshakeSucceeds, AttemptFailed,
       PollFails, WriteFails, DropSession, ShowEstablished, TellFailure, CloseLast,
       TakeFront, SetStatus, SharedUnchanged, state_vars,
       ListenerFailed
  <2>3. CASE DropFront \/ FinishSent \/ ShutdownDrain
    BY <2>3 DEF DropFront, FinishSent, FinishForwarded, FinishOversized, ShutdownDrain, ListenerFailed
  <2> QED  BY <1>1, <2>1, <2>2, <2>3 DEF SenderStep, SenderNext, ConnectStep, SendStep
<1>2. CASE ListenerStep
  BY <1>2 DEF ListenerStep, ListenerNext, StopObserved, StartReceive, ReceiveTimesOut,
     ReceiveFails, HandleDatagram, RefuseSource, RefuseStopping, RefuseOversized,
     RefuseInvalid, RefuseFull, Refuse, Accept, CountReceived, state_vars, sender_vars,
     ListenerFailed, stopping
<1>3. CASE LookupStep \/ OwnerNext \/ DeadlinePasses \/ UNCHANGED vars
  BY <1>3 DEF LookupStep, OwnerNext, StartSender, StartFails, AbortJoinsListener, RequestStop,
     JoinListener, JoinSender, DeadlinePasses, state_vars, vars, ListenerFailed
<1> QED  BY <1>1, <1>2, <1>3 DEF Next

LEMMA ErrorStep ==
  ASSUME ErrorInv, [ErrorNext]_error_vars
  PROVE  ErrorInv'
<1>1. [Next]_vars /\ (last_error' = NextError \/ UNCHANGED error_vars)
  BY DEF ErrorNext, error_vars
<1>2. stopping => stopping'
  BY <1>1, StopAtStep DEF ArmedStop, stopping
<1>3. CASE UNCHANGED error_vars
  BY <1>3 DEF error_vars, vars, state_vars, ErrorInv, stopping
<1>4. CASE last_error' = NextError
  <2>1. CASE ListenerFailed
    <3>1. ~ Established /\ ~ DtlsFailed /\ stopping' /\ UNCHANGED dtls_status
      BY <1>1, <2>1, FailureStops DEF Established, DtlsFailed
    <3>2. last_error' = "listener"
      BY <1>4, <2>1, <3>1 DEF NextError
    <3>. QED  BY <3>1, <3>2 DEF ErrorInv
  <2>2. CASE ~ ListenerFailed /\ Established
    <3>1. last_error' = "none"
      <4>1. ~ DtlsFailed
        BY <2>2 DEF Established, DtlsFailed
      <4>. QED  BY <1>4, <2>2, <4>1 DEF NextError
    <3>2. dtls_status' = "established"
      BY <1>1, <2>2 DEF Established, Next, ListenerStep, LookupStep, OwnerNext, StartSender,
         StartFails, AbortJoinsListener, RequestStop, JoinListener, JoinSender, DeadlinePasses,
         thread_vars, vars, sender_vars, SenderStep, SenderNext, ConnectStep, SendStep,
         LeaveLoop, EnterIteration, FirstStep, WaitForLookup, LookupStillRuns, LookupTimesOut,
         LookupFailed, HandshakeFails, HandshakeSucceeds, Idle, WriteSent, WriteBlocks,
         BeginAttempt, SpawnFails, LookupFound, AttemptFailed, PollFails, WriteFails,
         DropSession, ShowEstablished, TellFailure, CloseLast,
         TakeFront, DropFront, FinishSent, ShutdownDrain, Goto, SetStatus
    <3>. QED  BY <3>1, <3>2 DEF ErrorInv
  <2>3. CASE ~ ListenerFailed /\ ~ Established /\ DtlsFailed
    BY <1>4, <2>3 DEF NextError, DtlsFailed, ErrorInv
  <2>4. CASE ~ ListenerFailed /\ ~ Established /\ ~ DtlsFailed
    <3>1. last_error' = last_error
      BY <1>4, <2>4 DEF NextError
    <3>2. UNCHANGED dtls_status \/ dtls_status' \in {"resolving", "handshaking", "stopped"}
      BY <1>1, <2>4, StatusKinds
    <3>. QED  BY <1>2, <3>1, <3>2 DEF ErrorInv
  <2>. QED  BY <2>1, <2>2, <2>3, <2>4
<1>. QED  BY <1>1, <1>3, <1>4

\* Whoever sees "retrying" is told why, and an established session is never
\* shown with the error of an earlier one.
THEOREM ErrorIsTold == ErrorSpec => []ErrorTold
<1>1. ErrorInit => ErrorInv
  BY DEF ErrorInit, Init, StateInit, ErrorInv
<1>2. ErrorInv /\ [ErrorNext]_error_vars => ErrorInv'
  BY ErrorStep
<1>3. ErrorInv => ErrorTold
  BY DEF ErrorInv, ErrorTold, RetryingExplained, ErrorIsCurrent
<1>. QED  BY <1>1, <1>2, <1>3, PTL DEF ErrorSpec

(***************************************************************************)
(* The source table.                                                       *)
(***************************************************************************)
CountFrom(q, ip) == Cardinality({i \in DOMAIN q : q[i].source = ip})

LEMMA CountFromType ==
  ASSUME NEW q \in Seq(Message), NEW ip
  PROVE  /\ IsFiniteSet({i \in DOMAIN q : q[i].source = ip})
         /\ CountFrom(q, ip) \in Nat
<1>1. DOMAIN q = 1..Len(q) /\ Len(q) \in Nat
  OBVIOUS
<1>2. IsFiniteSet(DOMAIN q)
  BY <1>1, FS_Interval
<1> QED  BY <1>2, FS_Subset, FS_CardinalityType DEF CountFrom

LEMMA CountFromEmpty == ASSUME NEW ip PROVE CountFrom(<<>>, ip) = 0
BY FS_EmptySet DEF CountFrom

LEMMA CountFromPush ==
  ASSUME NEW q \in Seq(Message), NEW m \in Message, NEW ip
  PROVE  CountFrom(Append(q, m), ip) =
           IF m.source = ip THEN CountFrom(q, ip) + 1 ELSE CountFrom(q, ip)
<1> DEFINE old == {i \in DOMAIN q : q[i].source = ip}
           new == {i \in DOMAIN Append(q, m) : Append(q, m)[i].source = ip}
<1>1. IsFiniteSet(old) /\ Len(q) + 1 \notin old
  <2>1. Len(q) + 1 \notin DOMAIN q
    OBVIOUS
  <2> QED  BY <2>1, CountFromType
<1>2. new = IF m.source = ip THEN old \cup {Len(q) + 1} ELSE old
  <2>1. DOMAIN Append(q, m) = DOMAIN q \cup {Len(q) + 1}
    OBVIOUS
  <2>2. Append(q, m)[Len(q) + 1] = m /\ \A i \in DOMAIN q : Append(q, m)[i] = q[i]
    BY PushFacts
  <2> QED  BY <2>1, <2>2
<1>3. CountFrom(q, ip) = Cardinality(old) /\ CountFrom(Append(q, m), ip) = Cardinality(new)
  BY DEF CountFrom
<1> HIDE DEF old, new
<1> QED  BY <1>1, <1>2, <1>3, FS_AddElement

\* The places after the head move up by one.
LEMMA CountFromPop ==
  ASSUME NEW q \in Seq(Message), q # <<>>, NEW ip
  PROVE  CountFrom(q, ip) =
           IF Head(q).source = ip THEN CountFrom(Tail(q), ip) + 1 ELSE CountFrom(Tail(q), ip)
<1> DEFINE old == {i \in DOMAIN q : q[i].source = ip}
           new == {i \in DOMAIN Tail(q) : Tail(q)[i].source = ip}
           Up == [i \in new |-> i + 1]
<1>1. /\ DOMAIN q = 1..Len(q) /\ DOMAIN Tail(q) = 1..(Len(q) - 1) /\ Len(q) \in Nat \ {0}
      /\ Head(q) = q[1] /\ \A i \in DOMAIN Tail(q) : Tail(q)[i] = q[i + 1]
  BY PopFacts
<1>2. IsFiniteSet(old) /\ IsFiniteSet(new)
  <2>1. Tail(q) \in Seq(Message)
    BY PopFacts
  <2>2. IsFiniteSet(old)
    BY CountFromType
  <2>3. IsFiniteSet(new)
    BY <2>1, CountFromType
  <2> QED  BY <2>2, <2>3
<1>3. ExistsBijection(new, old \ {1})
  <2>1. Up \in [new -> old \ {1}]
    BY <1>1
  <2>2. \A i, j \in new : Up[i] = Up[j] => i = j
    BY <1>1
  <2>3. \A k \in old \ {1} : \E i \in new : Up[i] = k
    <3> SUFFICES ASSUME NEW k \in old \ {1} PROVE \E i \in new : Up[i] = k
      OBVIOUS
    <3>1. k - 1 \in new /\ Up[k - 1] = k
      BY <1>1
    <3> QED  BY <3>1
  <2> HIDE DEF old, new, Up
  <2>4. Up \in Bijection(new, old \ {1})
    BY <2>1, <2>2, <2>3 DEF Bijection, Injection, IsInjective, Surjection
  <2> QED  BY <2>4 DEF ExistsBijection
<1>4. 1 \in old <=> Head(q).source = ip
  BY <1>1
<1>5. CountFrom(q, ip) = Cardinality(old) /\ CountFrom(Tail(q), ip) = Cardinality(new)
  BY DEF CountFrom
<1> HIDE DEF old, new
<1>6. Cardinality(old \ {1}) = Cardinality(new)
  BY <1>2, <1>3, FS_Bijection
<1>7. Cardinality(old) \in Nat
  BY <1>2, FS_CardinalityType
<1>8. Cardinality(old \ {1}) = IF 1 \in old THEN Cardinality(old) - 1 ELSE Cardinality(old)
  BY <1>2, FS_RemoveElement
<1> QED  BY <1>4, <1>5, <1>6, <1>7, <1>8
\* A source gets its row when it is first heard of or never: once the table is
\* full it stays full, so a row never starts with messages in the queue.
SourceInv ==
  /\ PerSourceAccounting
  /\ IsFiniteSet(tracked)
  /\ \A ip \in Address \ tracked : QueuedFrom(ip) = 0 \/ Cardinality(tracked) >= SourceLimit

LEMMA RowAfterPop ==
  ASSUME NEW r \in Nat, NEW f \in Nat, NEW d \in Nat, NEW q \in Nat,
         NEW f2 \in Nat, NEW d2 \in Nat, NEW q2 \in Nat,
         r = f + d + q, q = q2 + 1, f2 + d2 = f + d + 1
  PROVE  r = f2 + d2 + q2
OBVIOUS

LEMMA SumZero ==
  ASSUME NEW a \in Nat, NEW b \in Nat, NEW c \in Nat, a + b + c = 0
  PROVE  a = 0 /\ b = 0 /\ c = 0
OBVIOUS

LEMMA SourceInit == Init => SourceInv
<1> SUFFICES ASSUME Init PROVE SourceInv
  OBVIOUS
<1>1. /\ tracked = {} /\ queue = <<>>
      /\ source_received = [ip \in Address |-> 0]
      /\ source_forwarded = [ip \in Address |-> 0]
      /\ source_dropped = [ip \in Address |-> 0]
  BY DEF Init, StateInit, SourcesInit
<1>2. ASSUME NEW ip \in Address
      PROVE  /\ QueuedFrom(ip) = 0
             /\ source_received[ip] + source_forwarded[ip] + source_dropped[ip] = 0
  <2>1. QueuedFrom(ip) = 0
    BY <1>1, CountFromEmpty DEF QueuedFrom, CountFrom
  <2>2. source_received[ip] = 0 /\ source_forwarded[ip] = 0 /\ source_dropped[ip] = 0
    BY <1>1
  <2> QED  BY <2>1, <2>2
<1>3. IsFiniteSet(tracked)
  BY <1>1, FS_EmptySet
<1> QED  BY <1>1, <1>2, <1>3 DEF SourceInv, PerSourceAccounting

\* What `received` does, for the source of the datagram and for all others.
LEMMA ReceivedFacts ==
  ASSUME TypeInv, SourceInv, NEW ip \in Address, ~ ip.mapped, SourceReceived(ip)
  PROVE  /\ IsFiniteSet(tracked') /\ tracked \subseteq tracked' /\ tracked' \subseteq tracked \cup {ip}
         /\ Cardinality(tracked) \in Nat /\ Cardinality(tracked') \in Nat
         /\ Cardinality(tracked') >= Cardinality(tracked)
         /\ \A other \in Address : source_received'[other] =
              IF other = ip /\ ip \in tracked' THEN source_received[other] + 1
                                               ELSE source_received[other]
         /\ ip \notin tracked' => Cardinality(tracked') >= SourceLimit
         /\ ip \in tracked' \ tracked =>
              /\ QueuedFrom(ip) = 0 /\ source_received[ip] = 0
              /\ source_forwarded[ip] = 0 /\ source_dropped[ip] = 0
<1>1. /\ source_received \in [Address -> Nat] /\ source_forwarded \in [Address -> Nat]
      /\ source_dropped \in [Address -> Nat] /\ queue \in Seq(Message)
      /\ IsFiniteSet(tracked) /\ SourceLimit \in Nat
  BY SourcesAssumption DEF TypeInv, TypeOK, StateTypeOK, SourcesTypeOK, SourceInv
<1>2. Cardinality(tracked) \in Nat
  BY <1>1, FS_CardinalityType
<1>3. CASE TableFullFor(ip)
  <2>1. UNCHANGED <<tracked, source_received>> /\ ip \notin tracked
    BY <1>3 DEF SourceReceived, TableFullFor
  <2>2. Cardinality(tracked) >= SourceLimit
    BY <1>3 DEF TableFullFor
  <2> QED  BY <1>1, <1>2, <2>1, <2>2
<1>4. CASE ~ TableFullFor(ip)
  <2>1. /\ tracked' = tracked \cup {ip}
        /\ source_received' = [source_received EXCEPT ![ip] = @ + 1]
    BY <1>4 DEF SourceReceived
  <2>2. /\ IsFiniteSet(tracked') /\ Cardinality(tracked') \in Nat
        /\ Cardinality(tracked') >= Cardinality(tracked)
    <3>1. /\ IsFiniteSet(tracked \cup {ip})
          /\ \/ Cardinality(tracked \cup {ip}) = Cardinality(tracked)
             \/ Cardinality(tracked \cup {ip}) = Cardinality(tracked) + 1
      BY <1>1, FS_AddElement
    <3> QED  BY <1>2, <2>1, <3>1
  <2>3. ASSUME ip \notin tracked
        PROVE  /\ QueuedFrom(ip) = 0 /\ source_received[ip] = 0
               /\ source_forwarded[ip] = 0 /\ source_dropped[ip] = 0
    <3>1. ~ (Cardinality(tracked) >= SourceLimit)
      BY <1>4, <2>3 DEF TableFullFor
    <3>2. source_received[ip] + source_forwarded[ip] + source_dropped[ip] = 0
      BY <2>3 DEF SourceInv, PerSourceAccounting
    <3>3. source_received[ip] \in Nat /\ source_forwarded[ip] \in Nat /\ source_dropped[ip] \in Nat
      BY <1>1
    <3>4. source_received[ip] = 0 /\ source_forwarded[ip] = 0 /\ source_dropped[ip] = 0
      BY <3>2, <3>3, SumZero
    <3>5. QueuedFrom(ip) = 0
      BY <2>3, <3>1 DEF SourceInv
    <3> QED  BY <3>4, <3>5
  <2> QED  BY <1>1, <1>2, <2>1, <2>2, <2>3
<1> QED  BY <1>3, <1>4

LEMMA SourceRefuse ==
  ASSUME TypeInv, SourceInv, NEW d \in Datagrams, NEW reason \in DropReasons, Refuse(d, reason)
  PROVE  SourceInv'
<1> DEFINE ip == canonical_ip(d.peer)
<1>1. ip \in Address /\ ~ ip.mapped
  BY ListenerAssumption, CanonicalType DEF canonical_ip
<1>2. /\ SourceReceived(ip) /\ SourceDropped(ip, tracked')
      /\ UNCHANGED <<source_forwarded, queue>>
  BY DEF Refuse, CountReceived, queue_vars
<1> HIDE DEF ip
<1>3. /\ source_received \in [Address -> Nat] /\ source_forwarded \in [Address -> Nat]
      /\ source_dropped \in [Address -> Nat] /\ SourceLimit \in Nat
      /\ queue \in Seq(Message)
  BY SourcesAssumption DEF TypeInv, TypeOK, StateTypeOK, SourcesTypeOK
<1>4. ASSUME NEW other \in Address
      PROVE  source_dropped'[other] =
               IF other = ip /\ ip \in tracked' THEN source_dropped[other] + 1
                                               ELSE source_dropped[other]
  BY <1>2, <1>3, <1>4 DEF SourceDropped
<1>5. \A other \in Address : QueuedFrom(other)' = QueuedFrom(other) /\ QueuedFrom(other) \in Nat
  BY <1>2, <1>3, CountFromType DEF QueuedFrom, CountFrom
<1>6. ASSUME NEW other \in Address
      PROVE  /\ IF other \in tracked'
                  THEN /\ source_received'[other] =
                            source_forwarded'[other] + source_dropped'[other] + QueuedFrom(other)'
                       /\ ~ other.mapped
                  ELSE source_received'[other] + source_forwarded'[other] + source_dropped'[other] = 0
             /\ other \notin tracked' => QueuedFrom(other)' = 0 \/ Cardinality(tracked') >= SourceLimit
  <2>1. /\ source_received[other] \in Nat /\ source_forwarded[other] \in Nat
        /\ source_dropped[other] \in Nat /\ QueuedFrom(other) \in Nat
        /\ source_forwarded'[other] = source_forwarded[other]
        /\ QueuedFrom(other)' = QueuedFrom(other)
    BY <1>2, <1>3, <1>5
  <2>2. /\ source_received'[other] = IF other = ip /\ ip \in tracked' THEN source_received[other] + 1
                                                                    ELSE source_received[other]
        /\ source_dropped'[other] = IF other = ip /\ ip \in tracked' THEN source_dropped[other] + 1
                                                                   ELSE source_dropped[other]
    BY <1>1, <1>2, <1>4, ReceivedFacts
  <2>3. /\ tracked \subseteq tracked' /\ tracked' \subseteq tracked \cup {ip}
        /\ Cardinality(tracked) \in Nat /\ Cardinality(tracked') \in Nat
        /\ Cardinality(tracked') >= Cardinality(tracked)
        /\ ip \in tracked' \ tracked =>
             /\ QueuedFrom(ip) = 0 /\ source_received[ip] = 0
             /\ source_forwarded[ip] = 0 /\ source_dropped[ip] = 0
    BY <1>1, <1>2, ReceivedFacts
  <2>4. /\ IF other \in tracked
             THEN /\ source_received[other] =
                       source_forwarded[other] + source_dropped[other] + QueuedFrom(other)
                  /\ ~ other.mapped
             ELSE source_received[other] + source_forwarded[other] + source_dropped[other] = 0
        /\ other \notin tracked => QueuedFrom(other) = 0 \/ Cardinality(tracked) >= SourceLimit
    BY DEF SourceInv, PerSourceAccounting
  <2>5. CASE other = ip /\ ip \in tracked'
    BY <1>1, <2>1, <2>2, <2>3, <2>4, <2>5
  <2>6. CASE ~ (other = ip /\ ip \in tracked')
    <3>1. (other \in tracked') = (other \in tracked)
      BY <2>3, <2>6
    <3> QED  BY <1>3, <2>1, <2>2, <2>3, <2>4, <2>6, <3>1
  <2> QED  BY <2>5, <2>6
<1>7. IsFiniteSet(tracked')
  BY <1>1, <1>2, ReceivedFacts
<1> QED  BY <1>6, <1>7 DEF SourceInv, PerSourceAccounting

LEMMA SourceAccept ==
  ASSUME TypeInv, SourceInv, NEW d \in Datagrams, Accept(d)
  PROVE  SourceInv'
<1> DEFINE ip == canonical_ip(d.peer)
<1>1. ip \in Address /\ ~ ip.mapped
  BY ListenerAssumption, CanonicalType DEF canonical_ip
<1>2. /\ SourceReceived(ip) /\ UNCHANGED <<source_forwarded, source_dropped>>
      /\ queue' = Append(queue, AsMessage(d))
      /\ AsMessage(d) \in Message /\ AsMessage(d).source = ip
  BY NewMessageType DEF Accept, CountReceived, Pushed
<1> HIDE DEF ip
<1>3. /\ source_received \in [Address -> Nat] /\ source_forwarded \in [Address -> Nat]
      /\ source_dropped \in [Address -> Nat] /\ SourceLimit \in Nat
      /\ queue \in Seq(Message)
  BY SourcesAssumption DEF TypeInv, TypeOK, StateTypeOK, SourcesTypeOK
<1>4. ASSUME NEW other \in Address
      PROVE  /\ QueuedFrom(other) \in Nat
             /\ QueuedFrom(other)' = IF other = ip THEN QueuedFrom(other) + 1 ELSE QueuedFrom(other)
  <2>1. /\ QueuedFrom(other) = CountFrom(queue, other)
        /\ QueuedFrom(other)' = CountFrom(Append(queue, AsMessage(d)), other)
    BY <1>2 DEF QueuedFrom, CountFrom
  <2>2. CountFrom(queue, other) \in Nat
    BY <1>3, CountFromType
  <2>3. CountFrom(Append(queue, AsMessage(d)), other) =
          IF AsMessage(d).source = other THEN CountFrom(queue, other) + 1 ELSE CountFrom(queue, other)
    BY <1>2, <1>3, CountFromPush
  <2> QED  BY <1>2, <2>1, <2>2, <2>3
<1>6. ASSUME NEW other \in Address
      PROVE  /\ IF other \in tracked'
                  THEN /\ source_received'[other] =
                            source_forwarded'[other] + source_dropped'[other] + QueuedFrom(other)'
                       /\ ~ other.mapped
                  ELSE source_received'[other] + source_forwarded'[other] + source_dropped'[other] = 0
             /\ other \notin tracked' => QueuedFrom(other)' = 0 \/ Cardinality(tracked') >= SourceLimit
  <2>1. /\ source_received[other] \in Nat /\ source_forwarded[other] \in Nat
        /\ source_dropped[other] \in Nat /\ QueuedFrom(other) \in Nat
        /\ source_forwarded'[other] = source_forwarded[other]
        /\ source_dropped'[other] = source_dropped[other]
    BY <1>2, <1>3, <1>4
  <2>2. source_received'[other] = IF other = ip /\ ip \in tracked' THEN source_received[other] + 1
                                                                  ELSE source_received[other]
    BY <1>1, <1>2, ReceivedFacts
  <2>3. /\ tracked \subseteq tracked' /\ tracked' \subseteq tracked \cup {ip}
        /\ Cardinality(tracked) \in Nat /\ Cardinality(tracked') \in Nat
        /\ Cardinality(tracked') >= Cardinality(tracked)
        /\ ip \notin tracked' => Cardinality(tracked') >= SourceLimit
        /\ ip \in tracked' \ tracked =>
             /\ QueuedFrom(ip) = 0 /\ source_received[ip] = 0
             /\ source_forwarded[ip] = 0 /\ source_dropped[ip] = 0
    BY <1>1, <1>2, ReceivedFacts
  <2>4. /\ IF other \in tracked
             THEN /\ source_received[other] =
                       source_forwarded[other] + source_dropped[other] + QueuedFrom(other)
                  /\ ~ other.mapped
             ELSE source_received[other] + source_forwarded[other] + source_dropped[other] = 0
        /\ other \notin tracked => QueuedFrom(other) = 0 \/ Cardinality(tracked) >= SourceLimit
    BY DEF SourceInv, PerSourceAccounting
  <2>5. CASE other = ip /\ ip \in tracked'
    BY <1>1, <1>4, <2>1, <2>2, <2>3, <2>4, <2>5
  <2>6. CASE other = ip /\ ip \notin tracked'
    BY <2>1, <2>2, <2>3, <2>4, <2>6
  <2>7. CASE other # ip
    <3>1. (other \in tracked') = (other \in tracked) /\ QueuedFrom(other)' = QueuedFrom(other)
      BY <1>4, <2>3, <2>7
    <3> QED  BY <1>3, <2>1, <2>2, <2>3, <2>4, <2>7, <3>1
  <2> QED  BY <2>5, <2>6, <2>7
<1>7. IsFiniteSet(tracked')
  BY <1>1, <1>2, ReceivedFacts
<1> QED  BY <1>6, <1>7 DEF SourceInv, PerSourceAccounting

\* A message that leaves at the head is counted once more for its source.
LEMMA SourcePop ==
  ASSUME TypeInv, SourceInv, queue # <<>>, queue' = Tail(queue),
         UNCHANGED <<tracked, source_received>>,
         \/ SourceForwarded(Head(queue).source, tracked) /\ UNCHANGED source_dropped
         \/ SourceDropped(Head(queue).source, tracked) /\ UNCHANGED source_forwarded
  PROVE  SourceInv'
<1>1. /\ source_received \in [Address -> Nat] /\ source_forwarded \in [Address -> Nat]
      /\ source_dropped \in [Address -> Nat] /\ SourceLimit \in Nat
      /\ queue \in Seq(Message) /\ Tail(queue) \in Seq(Message)
      /\ IsFiniteSet(tracked) /\ Cardinality(tracked) \in Nat
  BY SourcesAssumption, PopFacts, FS_CardinalityType
  DEF TypeInv, TypeOK, StateTypeOK, SourcesTypeOK, SourceInv
<1> DEFINE ip == Head(queue).source
<1>2. ip \in Address
  BY <1>1, HeadType DEF Message
<1>3. ASSUME NEW other \in Address
      PROVE  /\ QueuedFrom(other) \in Nat /\ QueuedFrom(other)' \in Nat
             /\ QueuedFrom(other) = IF other = ip THEN QueuedFrom(other)' + 1 ELSE QueuedFrom(other)'
  <2>1. /\ QueuedFrom(other) = CountFrom(queue, other)
        /\ QueuedFrom(other)' = CountFrom(Tail(queue), other)
    BY DEF QueuedFrom, CountFrom
  <2>2. CountFrom(queue, other) \in Nat /\ CountFrom(Tail(queue), other) \in Nat
    BY <1>1, CountFromType
  <2>3. CountFrom(queue, other) =
          IF ip = other THEN CountFrom(Tail(queue), other) + 1 ELSE CountFrom(Tail(queue), other)
    BY <1>1, CountFromPop
  <2> QED  BY <2>1, <2>2, <2>3
<1>4. ASSUME NEW other \in Address
      PROVE  source_forwarded'[other] + source_dropped'[other] =
               IF other = ip /\ ip \in tracked
                 THEN source_forwarded[other] + source_dropped[other] + 1
                 ELSE source_forwarded[other] + source_dropped[other]
  <2>1. source_forwarded[other] \in Nat /\ source_dropped[other] \in Nat
    BY <1>1
  <2>2. CASE SourceForwarded(ip, tracked) /\ UNCHANGED source_dropped
    <3>1. source_forwarded'[other] = IF other = ip /\ ip \in tracked THEN source_forwarded[other] + 1
                                                                    ELSE source_forwarded[other]
      BY <1>1, <2>2 DEF SourceForwarded
    <3> QED  BY <2>1, <2>2, <3>1
  <2>3. CASE SourceDropped(ip, tracked) /\ UNCHANGED source_forwarded
    <3>1. source_dropped'[other] = IF other = ip /\ ip \in tracked THEN source_dropped[other] + 1
                                                                  ELSE source_dropped[other]
      BY <1>1, <2>3 DEF SourceDropped
    <3> QED  BY <2>1, <2>3, <3>1
  <2> QED  BY <2>2, <2>3
<1>5. source_forwarded' \in [Address -> Nat] /\ source_dropped' \in [Address -> Nat]
  <2>1. ASSUME NEW f \in [Address -> Nat] PROVE [f EXCEPT ![ip] = @ + 1] \in [Address -> Nat]
    BY <1>2
  <2>2. source_forwarded' \in [Address -> Nat]
    BY <1>1, <2>1 DEF SourceForwarded
  <2>3. source_dropped' \in [Address -> Nat]
    BY <1>1, <2>1 DEF SourceDropped
  <2> QED  BY <2>2, <2>3
<1> HIDE DEF ip
<1>6. ASSUME NEW other \in Address
      PROVE  /\ IF other \in tracked
                  THEN /\ source_received[other] =
                            source_forwarded'[other] + source_dropped'[other] + QueuedFrom(other)'
                       /\ ~ other.mapped
                  ELSE source_received[other] + source_forwarded'[other] + source_dropped'[other] = 0
             /\ other \notin tracked => QueuedFrom(other)' = 0 \/ Cardinality(tracked) >= SourceLimit
  <2>1. /\ source_received[other] \in Nat /\ source_forwarded[other] \in Nat
        /\ source_dropped[other] \in Nat /\ source_forwarded'[other] \in Nat
        /\ source_dropped'[other] \in Nat
    BY <1>1, <1>5
  <2>2. /\ IF other \in tracked
             THEN /\ source_received[other] =
                       source_forwarded[other] + source_dropped[other] + QueuedFrom(other)
                  /\ ~ other.mapped
             ELSE source_received[other] + source_forwarded[other] + source_dropped[other] = 0
        /\ other \notin tracked => QueuedFrom(other) = 0 \/ Cardinality(tracked) >= SourceLimit
    BY DEF SourceInv, PerSourceAccounting
  <2>3. CASE other = ip
    <3>1. QueuedFrom(other) \in Nat /\ QueuedFrom(other)' \in Nat /\ QueuedFrom(other) = QueuedFrom(other)' + 1
      BY <1>3, <2>3
    <3>2. other \in tracked =>
            source_forwarded'[other] + source_dropped'[other] =
              source_forwarded[other] + source_dropped[other] + 1
      BY <1>4, <2>3
    <3>3. other \notin tracked =>
            source_forwarded'[other] + source_dropped'[other] =
              source_forwarded[other] + source_dropped[other]
      BY <1>4, <2>3
    <3>4. other \notin tracked => Cardinality(tracked) >= SourceLimit
      BY <2>2, <3>1
    <3>5. CASE other \in tracked
      <4>1. source_received[other] =
              source_forwarded[other] + source_dropped[other] + QueuedFrom(other)
        BY <2>2, <3>5
      <4>2. source_received[other] =
              source_forwarded'[other] + source_dropped'[other] + QueuedFrom(other)'
        <5>1. source_forwarded'[other] + source_dropped'[other] =
                source_forwarded[other] + source_dropped[other] + 1
          BY <3>2, <3>5
        <5>2. QueuedFrom(other) = QueuedFrom(other)' + 1
          BY <3>1
        <5>3. QueuedFrom(other) \in Nat /\ QueuedFrom(other)' \in Nat
          BY <3>1
        <5>. QED  BY ONLY <2>1, <4>1, <5>1, <5>2, <5>3, RowAfterPop
      <4> QED  BY <2>2, <3>5, <4>2
    <3>6. CASE other \notin tracked
      BY <2>1, <2>2, <3>3, <3>4, <3>6
    <3> QED  BY <3>5, <3>6
  <2>4. CASE other # ip
    BY <1>1, <1>3, <1>4, <2>1, <2>2, <2>4
  <2> QED  BY <2>3, <2>4
<1> QED  BY <1>1, <1>6 DEF SourceInv, PerSourceAccounting

LEMMA SourceStep ==
  ASSUME TypeInv, FrameInv, SourceInv, [Next]_vars
  PROVE  SourceInv'
<1>1. CASE UNCHANGED <<counters, queue_vars, source_vars>>
  BY <1>1 DEF queue_vars, source_vars, SourceInv, PerSourceAccounting, QueuedFrom
<1>2. CASE FinishSent
  <2>1. queue # <<>>
    BY <1>2 DEF FinishSent, Goto, FrameInv, SessionInv, HeadInv
  <2> QED
    BY <1>2, <2>1, SourcePop DEF FinishSent, FinishForwarded, PopFront
<1>3. CASE DropFront
  BY <1>3, SourcePop DEF DropFront, FinishOversized, PopFront
<1>4. CASE ShutdownDrain
  <2>1. /\ source_received \in [Address -> Nat] /\ source_forwarded \in [Address -> Nat]
        /\ source_dropped \in [Address -> Nat] /\ queue \in Seq(Message)
    BY DEF TypeInv, TypeOK, StateTypeOK, SourcesTypeOK
  <2>2. /\ UNCHANGED <<tracked, source_received, source_forwarded>> /\ queue' = <<>>
        /\ source_dropped' = [ip \in Address |->
              source_dropped[ip] + (IF ip \in tracked THEN QueuedFrom(ip) ELSE 0)]
    BY <1>4 DEF ShutdownDrain
  <2>3. ASSUME NEW ip \in Address
        PROVE  /\ IF ip \in tracked
                    THEN /\ source_received[ip] =
                              source_forwarded[ip] + source_dropped'[ip] + QueuedFrom(ip)'
                         /\ ~ ip.mapped
                    ELSE source_received[ip] + source_forwarded[ip] + source_dropped'[ip] = 0
               /\ QueuedFrom(ip)' = 0
    <3>1. QueuedFrom(ip)' = 0
      BY <2>2, CountFromEmpty DEF QueuedFrom, CountFrom
    <3>2. QueuedFrom(ip) \in Nat
      BY <2>1, CountFromType DEF QueuedFrom, CountFrom
    <3>3. source_received[ip] \in Nat /\ source_forwarded[ip] \in Nat /\ source_dropped[ip] \in Nat
      BY <2>1
    <3>4. source_dropped'[ip] = source_dropped[ip] + (IF ip \in tracked THEN QueuedFrom(ip) ELSE 0)
      BY <2>2
    <3>5. IF ip \in tracked
            THEN /\ source_received[ip] = source_forwarded[ip] + source_dropped[ip] + QueuedFrom(ip)
                 /\ ~ ip.mapped
            ELSE source_received[ip] + source_forwarded[ip] + source_dropped[ip] = 0
      BY DEF SourceInv, PerSourceAccounting
    <3> QED  BY <3>1, <3>2, <3>3, <3>4, <3>5
  <2> QED  BY <2>2, <2>3 DEF SourceInv, PerSourceAccounting
<1> QED  BY <1>1, <1>2, <1>3, <1>4, StepKinds, SourceRefuse, SourceAccept

\* Every row of the source table accounts for the messages of its source, for
\* any number of hosts and any limit of the table.
THEOREM SourcesAgree == Spec => []PerSourceAccounting
<1> DEFINE I == TypeInv /\ OwnerInv /\ FrameInv /\ SourceInv
<1>1. Init => I
  BY TypeInit, OwnerInit, FrameInit, SourceInit
<1>2. I /\ [Next]_vars => I'
  BY TypeStep, OwnerStep, FrameStep, SourceStep
<1>3. I => PerSourceAccounting
  BY DEF SourceInv
<1> QED  BY <1>1, <1>2, <1>3, PTL DEF Spec
=============================================================================
