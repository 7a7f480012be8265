----------------------------- MODULE SequentialProofs -----------------------------
(***************************************************************************)
(* Theorems about the parts that run on one thread and share no state: the *)
(* retries of the sender (Retry), the traffic windows (Windows), the       *)
(* settings (Settings) and the reader of messages (Rfc5424), for all       *)
(* values of their constants.                                              *)
(***************************************************************************)
EXTENDS Retry, Windows, Settings, Rfc5424, FoldLemmas, SequenceTheorems

(***************************************************************************)
(* Types, and the bounds of a wait that do not need the exact delay.       *)
(***************************************************************************)
LEMMA DoubledType ==
  ASSUME delay \in RetryInitial..RetryMax
  PROVE  Doubled \in RetryInitial..RetryMax
BY RetryAssumption DEF Doubled, Smaller

LEMMA JitteredBounds ==
  ASSUME delay \in RetryInitial..RetryMax, NEW j \in 0..(delay \div 2)
  PROVE  /\ Jittered(j) \in Nat
         /\ Jittered(j) <= RetryMax
         /\ Jittered(j) >= (3 * RetryInitial) \div 4
<1>. DEFINE low == (3 * RetryInitial) \div 4
           base == (delay * 3) \div 4
<1>1. base \in Nat /\ low \in Nat /\ low <= base /\ low <= RetryInitial
  BY RetryAssumption
<1>2. j \in Nat
  BY RetryAssumption
<1>. QED
  BY <1>1, <1>2, RetryAssumption DEF Jittered, Smaller

\* After a failure the sender is quiet for at least three quarters of the
\* initial delay, and never for longer than the maximal one.
WaitInv ==
  failures > 0 => /\ wake >= failed_at + (3 * RetryInitial) \div 4
                  /\ wake <= failed_at + RetryMax

LEMMA FailKeeps ==
  ASSUME TimingTypeOK, NEW pause \in Nat, Fail(pause),
         pause >= (3 * RetryInitial) \div 4, pause <= RetryMax
  PROVE  /\ phase' = "connect" /\ wake' \in Nat /\ failures' \in Nat /\ failed_at' \in Nat
         /\ delay' \in RetryInitial..RetryMax
         /\ now' \in Nat /\ next_send' \in Nat /\ sent_at' \in Int
         /\ WaitInv'
BY DoubledType, RetryAssumption DEF Fail, TimingTypeOK, WaitInv

LEMMA AddressOf ==
  ASSUME NEW answer \in Answers, NEW a \in Nat
  PROVE  /\ answer \in Seq(Addresses) /\ Len(answer) \in Nat \ {0}
         /\ (a % Len(answer)) + 1 \in 1..Len(answer)
         /\ answer[(a % Len(answer)) + 1] \in Addresses
<1>1. answer \in Seq(Addresses) /\ answer # <<>>
  BY RetryAssumption
<1>2. Len(answer) \in Nat \ {0}
  BY <1>1
<1>. DEFINE n == Len(answer)
<1>3. n \in Nat \ {0}
  BY <1>2
<1>. HIDE DEF n
<1>4. (a % n) + 1 \in 1..n
  BY <1>3
<1>. QED
  BY <1>1, <1>2, <1>4 DEF n

LEMMA TryKeeps ==
  ASSUME TimingTypeOK, NEW answer \in Answers, TryAddress(answer)
  PROVE  attempts' \in Nat /\ tried' \in [answer : {<<>>} \cup Answers, addresses : Seq(Addresses)]
<1>1. attempts \in Nat /\ tried.addresses \in Seq(Addresses)
  BY DEF TimingTypeOK
<1>2. Address(answer) \in Addresses
  BY <1>1, AddressOf DEF Address
<1>3. Append(tried.addresses, Address(answer)) \in Seq(Addresses)
      /\ <<Address(answer)>> \in Seq(Addresses)
  BY <1>1, <1>2
<1>. QED
  BY <1>1, <1>3 DEF TryAddress

Typed == TimingTypeOK /\ WaitInv

LEMMA TypedStep == Typed /\ [TimingNext]_timing_vars => Typed'
<1>. SUFFICES ASSUME TimingTypeOK, WaitInv, [TimingNext]_timing_vars PROVE TimingTypeOK' /\ WaitInv'
  BY DEF Typed
<1>1. ASSUME FailAttempt, UNCHANGED <<attempts, tried>> PROVE TimingTypeOK' /\ WaitInv'
  <2>1. PICK j \in 0..(delay \div 2) : Fail(Jittered(j))
    BY <1>1 DEF FailAttempt
  <2>. QED
    BY <2>1, <1>1, JitteredBounds, FailKeeps DEF TimingTypeOK
<1>2. ASSUME FailAttempt, NEW answer \in Answers, TryAddress(answer) PROVE TimingTypeOK' /\ WaitInv'
  <2>1. PICK j \in 0..(delay \div 2) : Fail(Jittered(j))
    BY <1>2 DEF FailAttempt
  <2>. QED
    BY <2>1, <1>2, JitteredBounds, FailKeeps, TryKeeps DEF TimingTypeOK
<1>3. ASSUME NEW answer \in Answers, Connects(answer) PROVE TimingTypeOK' /\ WaitInv'
  BY <1>3, TryKeeps DEF Connects, TimingTypeOK, WaitInv
<1>4. CASE SessionFails
  <2>1. delay \in Nat /\ delay >= (3 * RetryInitial) \div 4 /\ delay <= RetryMax
    BY RetryAssumption DEF TimingTypeOK
  <2>. QED
    BY <2>1, <1>4, FailKeeps DEF SessionFails, TimingTypeOK
<1>5. CASE TakeFront
  BY <1>5 DEF TakeFront, TimingTypeOK, WaitInv
<1>6. CASE WriteSent
  BY <1>6, RetryAssumption DEF WriteSent, TimingTypeOK, WaitInv
<1>7. CASE Tick
  BY <1>7 DEF Tick, TimingTypeOK, WaitInv
<1>8. CASE UNCHANGED timing_vars
  BY <1>8 DEF timing_vars, TimingTypeOK, WaitInv
<1>. QED
  BY <1>1, <1>2, <1>3, <1>4, <1>5, <1>6, <1>7, <1>8
     DEF TimingNext, ResolveFails, ConnectFails

LEMMA TypedInit == TimingInit => Typed
BY RetryAssumption DEF TimingInit, Typed, TimingTypeOK, WaitInv

LEMMA TypedAlways == TimingSpec => []Typed
BY TypedInit, TypedStep, PTL DEF TimingSpec

\* The delay stays between its two settings, and every local in its type.
THEOREM RetryTypeCorrect == TimingSpec => []TimingTypeOK
<1>1. Typed => TimingTypeOK
  BY DEF Typed
<1>. QED
  BY <1>1, TypedAlways, PTL

\* No failure is followed by an immediate retry, and no wait exceeds the
\* maximal delay (relay.rs:362-368, 425).
THEOREM RetriesAreSpaced == TimingSpec => []WaitInv
<1>1. Typed => WaitInv
  BY DEF Typed
<1>. QED
  BY <1>1, TypedAlways, PTL

(***************************************************************************)
(* Back-off.                                                               *)
(***************************************************************************)
LEMMA DelayAfterFirst == DelayAfter(0) = RetryInitial
BY PowersOfTwo, RetryAssumption DEF DelayAfter, Smaller

\* One failure more doubles the delay, up to RetryMax.
LEMMA DelayAfterNext ==
  ASSUME NEW k \in Nat
  PROVE  /\ DelayAfter(k) \in RetryInitial..RetryMax
         /\ DelayAfter(k + 1) = Smaller(2 * DelayAfter(k), RetryMax)
<1>1. PICK p \in Nat \ {0} : p = 2 ^ k /\ 2 ^ (k + 1) = 2 * p
  BY PowersOfTwo
<1>2. PICK d \in Nat : d = RetryInitial * p /\ d >= RetryInitial
  BY RetryAssumption
<1>3. RetryInitial * (2 * p) = 2 * d
  BY <1>2, RetryAssumption
<1>4. DelayAfter(k) = Smaller(d, RetryMax) /\ DelayAfter(k + 1) = Smaller(2 * d, RetryMax)
  BY <1>1, <1>2, <1>3 DEF DelayAfter
<1>. QED
  BY <1>2, <1>4, RetryAssumption DEF Smaller

LEMMA FailBacksOff ==
  ASSUME TimingTypeOK, BackedOff, NEW pause \in Nat, Fail(pause),
         pause >= (3 * delay) \div 4, pause <= RetryMax
  PROVE  BackedOff'
<1>1. failures \in Nat /\ failures' = failures + 1 /\ delay = DelayAfter(failures)
      /\ now \in Nat /\ failed_at' = now /\ wake' = now + pause
      /\ delay' = Smaller(2 * delay, RetryMax)
  BY DEF TimingTypeOK, BackedOff, Fail, Doubled
<1>2. delay' = DelayAfter(failures')
  BY <1>1, DelayAfterNext
<1>3. failures' - 1 = failures
  BY <1>1
<1>4. wake' - failed_at' = pause
  BY <1>1
<1>. QED
  BY <1>1, <1>2, <1>3, <1>4 DEF BackedOff

LEMMA BackOffStep == TimingTypeOK /\ BackedOff /\ [TimingNext]_timing_vars => BackedOff'
<1>. SUFFICES ASSUME TimingTypeOK, BackedOff, [TimingNext]_timing_vars PROVE BackedOff'
  OBVIOUS
<1>1. delay \in Nat /\ delay >= (3 * delay) \div 4 /\ delay <= RetryMax
  BY RetryAssumption DEF TimingTypeOK
<1>2. ASSUME NEW j \in 0..(delay \div 2)
      PROVE  Jittered(j) \in Nat /\ Jittered(j) <= RetryMax /\ Jittered(j) >= (3 * delay) \div 4
  BY <1>1, RetryAssumption DEF Jittered, Smaller
<1>3. ASSUME FailAttempt PROVE BackedOff'
  BY <1>2, <1>3, FailBacksOff DEF FailAttempt
<1>4. CASE SessionFails
  BY <1>1, <1>4, FailBacksOff DEF SessionFails
<1>5. CASE WriteSent
  BY <1>5, DelayAfterFirst DEF WriteSent, BackedOff
<1>6. ASSUME UNCHANGED <<delay, failures, wake, failed_at>> PROVE BackedOff'
  BY <1>6 DEF BackedOff
<1>. QED
  BY <1>3, <1>4, <1>5, <1>6
     DEF TimingNext, ResolveFails, ConnectFails, Connects, TakeFront, Tick, timing_vars

\* After k failures since the last message the delay is the initial one times
\* two to the power of k, or the maximal one, and the pause before the next
\* attempt is between three quarters of it and the maximum (relay.rs:362-368).
THEOREM RetriesBackOff == TimingSpec => []BackedOff
<1>1. TimingInit => BackedOff
  BY DelayAfterFirst DEF TimingInit, BackedOff
<1>. QED
  BY <1>1, BackOffStep, RetryTypeCorrect, PTL DEF TimingSpec

(***************************************************************************)
(* Pacing.                                                                 *)
(***************************************************************************)
PaceInv ==
  /\ sent_at >= 0 => next_send = sent_at + SendGap
  /\ phase = "writing" => now >= next_send

LEMMA PaceStep == TimingTypeOK /\ PaceInv /\ [TimingNext]_timing_vars => PaceInv'
<1>. SUFFICES ASSUME TimingTypeOK, PaceInv, [TimingNext]_timing_vars PROVE PaceInv'
  OBVIOUS
<1>1. ASSUME NEW pause, Fail(pause) PROVE PaceInv'
  BY <1>1 DEF Fail, PaceInv
<1>2. ASSUME NEW answer, Connects(answer) PROVE PaceInv'
  BY <1>2 DEF Connects, PaceInv
<1>3. CASE TakeFront
  BY <1>3 DEF TakeFront, SendDue, PaceInv
<1>4. CASE WriteSent
  BY <1>4 DEF WriteSent, PaceInv
<1>5. CASE Tick
  BY <1>5 DEF Tick, PaceInv, TimingTypeOK
<1>6. CASE UNCHANGED timing_vars
  BY <1>6 DEF timing_vars, PaceInv
<1>. QED
  BY <1>1, <1>2, <1>3, <1>4, <1>5, <1>6
     DEF TimingNext, ResolveFails, ConnectFails, SessionFails, FailAttempt

LEMMA PaceInit == TimingInit => PaceInv
BY DEF TimingInit, PaceInv

\* Only WriteSent moves sent_at, and only when the last message is old enough.
THEOREM WritesArePaced == TimingSpec => Paced
<1>1. ASSUME TimingTypeOK, PaceInv, [TimingNext]_timing_vars
      PROVE  [sent_at' # sent_at /\ sent_at >= 0 => sent_at' >= sent_at + SendGap]_timing_vars
  <2>1. CASE WriteSent
    BY <2>1, <1>1 DEF WriteSent, PaceInv
  <2>2. CASE ~ WriteSent
    BY <2>2, <1>1
       DEF TimingNext, ResolveFails, ConnectFails, Connects, SessionFails, FailAttempt, Fail,
           TakeFront, Tick, timing_vars
  <2>. QED
    BY <2>1, <2>2
<1>. QED
  BY <1>1, PaceInit, PaceStep, RetryTypeCorrect, PTL DEF TimingSpec, Paced

(***************************************************************************)
(* Rotation.                                                               *)
(***************************************************************************)
LEMMA ModDiffers ==
  ASSUME NEW a \in Nat, NEW b \in Nat, NEW n \in Nat \ {0}, a < b, b < a + n
  PROVE  a % n # b % n
<1>. DEFINE p == a \div n
            q == b \div n
<1>1. p \in Int /\ q \in Int /\ a = (n * p) + (a % n) /\ b = (n * q) + (b % n)
  OBVIOUS
<1>2. SUFFICES ASSUME a % n = b % n PROVE FALSE
  OBVIOUS
<1>. HIDE DEF p, q
<1>3. b - a = n * (q - p)
  BY <1>1, <1>2
<1>4. PICK k \in Int : k = q - p
  BY <1>1
<1>5. n * k > 0 /\ n * k < n
  BY <1>3, <1>4
<1>6. CASE k <= 0
  <2>1. n * k <= 0
    BY <1>6
  <2>. QED
    BY <2>1, <1>5
<1>7. CASE k >= 1
  <2>1. n * k >= n
    BY <1>7
  <2>. QED
    BY <2>1, <1>5
<1>. QED
  BY <1>6, <1>7

\* A quotient and a remainder are unique.
LEMMA RemainderOf ==
  ASSUME NEW n \in Nat \ {0}, NEW q \in Int, NEW r \in 0..(n - 1), NEW t \in Int,
         t = (n * q) + r
  PROVE  t % n = r
<1>. DEFINE p == t \div n
            m == t % n
<1>1. p \in Int /\ m \in 0..(n - 1) /\ t = (n * p) + m
  OBVIOUS
<1>. HIDE DEF p, m
<1>2. n * (q - p) = m - r
  BY <1>1
<1>3. PICK k \in Int : k = q - p
  BY <1>1
<1>4. n * k > -n /\ n * k < n
  BY <1>1, <1>2, <1>3
<1>5. ~(k >= 1)
  <2>1. k >= 1 => n * k >= n
    OBVIOUS
  <2>. QED
    BY <2>1, <1>4
<1>6. ~(k <= -1)
  <2>1. k <= -1 => n * k <= -n
    OBVIOUS
  <2>. QED
    BY <2>1, <1>4
<1>7. k = 0
  BY <1>5, <1>6
<1>8. n * k = 0
  BY <1>7
<1>9. m = r
  BY <1>1, <1>2, <1>3, <1>8
<1>. QED
  BY <1>9 DEF m

\* Among n numbers in a row each remainder is met.
LEMMA RemainderMet ==
  ASSUME NEW f \in Nat, NEW n \in Nat \ {0}, NEW r \in 0..(n - 1)
  PROVE  \E d \in 0..(n - 1) : (f + d) % n = r
<1>. DEFINE p == f \div n
            m == f % n
<1>1. p \in Int /\ m \in 0..(n - 1) /\ f = (n * p) + m
  OBVIOUS
<1>. HIDE DEF p, m
<1>2. CASE m <= r
  <2>1. r - m \in 0..(n - 1) /\ f + (r - m) = (n * p) + r
    BY <1>1, <1>2
  <2>2. (f + (r - m)) % n = r
    BY <2>1, <1>1, RemainderOf
  <2>. QED
    BY <2>1, <2>2
<1>3. CASE m > r
  <2>1. (n + r) - m \in 0..(n - 1)
    BY <1>1, <1>3
  <2>2. n * (p + 1) = (n * p) + n
    BY <1>1
  <2>3. f + ((n + r) - m) = (n * (p + 1)) + r
    BY <1>1, <2>2
  <2>4. (f + ((n + r) - m)) % n = r
    BY <2>1, <2>3, <1>1, RemainderOf
  <2>. QED
    BY <2>1, <2>4
<1>. QED
  BY <1>1, <1>2, <1>3

\* The addresses tried are those of the latest attempts, all by one answer.
IsTrace(s, answer, a) ==
  /\ Len(s) <= a
  /\ \A i \in 1..Len(s) : s[i] = answer[((a - Len(s) + i - 1) % Len(answer)) + 1]

RotationInv ==
  /\ IsTrace(tried.addresses, tried.answer, attempts)
  /\ tried.answer = <<>> => tried.addresses = <<>>

LEMMA TraceGrows ==
  ASSUME NEW s \in Seq(Addresses), NEW a \in Nat, NEW answer, NEW new \in Addresses,
         new = answer[(a % Len(answer)) + 1], IsTrace(s, answer, a)
  PROVE  IsTrace(Append(s, new), answer, a + 1)
<1>. DEFINE t == Append(s, new)
<1>1. Len(s) \in Nat
  OBVIOUS
<1>2. t \in Seq(Addresses) /\ Len(t) = Len(s) + 1 /\ t[Len(s) + 1] = new
      /\ \A i \in 1..Len(s) : t[i] = s[i]
  OBVIOUS
<1>3. Len(s) <= a
      /\ \A i \in 1..Len(s) : s[i] = answer[((a - Len(s) + i - 1) % Len(answer)) + 1]
  BY DEF IsTrace
<1>. HIDE DEF t
<1>4. ASSUME NEW i \in 1..Len(t)
      PROVE  t[i] = answer[((a + 1 - Len(t) + i - 1) % Len(answer)) + 1]
  <2>1. CASE i \in 1..Len(s)
    <3>1. a + 1 - Len(t) + i - 1 = a - Len(s) + i - 1
      BY <1>1, <1>2, <2>1
    <3>. QED
      BY <3>1, <1>2, <1>3, <2>1
  <2>2. CASE i = Len(s) + 1
    <3>1. a + 1 - Len(t) + i - 1 = a
      BY <1>1, <1>2, <2>2
    <3>. QED
      BY <3>1, <1>2, <2>2
  <2>. QED
    BY <1>1, <1>2, <2>1, <2>2
<1>5. IsTrace(t, answer, a + 1)
  BY <1>1, <1>2, <1>3, <1>4 DEF IsTrace
<1>. QED
  BY <1>5 DEF t

LEMMA TraceStarts ==
  ASSUME NEW a \in Nat, NEW answer, NEW new, new = answer[(a % Len(answer)) + 1]
  PROVE  IsTrace(<<new>>, answer, a + 1)
<1>1. Len(<<new>>) = 1 /\ <<new>>[1] = new
  OBVIOUS
<1>2. a + 1 - 1 + 1 - 1 = a /\ 1 <= a + 1
  OBVIOUS
<1>. QED
  BY <1>1, <1>2 DEF IsTrace

LEMMA RotationStep == TimingTypeOK /\ RotationInv /\ [TimingNext]_timing_vars => RotationInv'
<1>. SUFFICES ASSUME TimingTypeOK, RotationInv, [TimingNext]_timing_vars PROVE RotationInv'
  OBVIOUS
<1>1. ASSUME UNCHANGED <<attempts, tried>> PROVE RotationInv'
  BY <1>1 DEF RotationInv
<1>2. ASSUME NEW answer \in Answers, TryAddress(answer) PROVE RotationInv'
  <2>. DEFINE new == answer[(attempts % Len(answer)) + 1]
  <2>1. attempts \in Nat /\ tried.addresses \in Seq(Addresses)
    BY DEF TimingTypeOK
  <2>2. answer # <<>> /\ new \in Addresses
    BY <2>1, AddressOf, RetryAssumption
  <2>3. attempts' = attempts + 1 /\ tried'.answer = answer
    BY <1>2 DEF TryAddress
  <2>4. CASE answer = tried.answer
    <3>1. tried'.addresses = Append(tried.addresses, new)
      BY <1>2, <2>4 DEF TryAddress, Address
    <3>2. IsTrace(tried.addresses, answer, attempts)
      BY <2>4 DEF RotationInv
    <3>. HIDE DEF new
    <3>3. IsTrace(Append(tried.addresses, new), answer, attempts + 1)
      BY <2>1, <2>2, <3>2, TraceGrows DEF new
    <3>. QED
      BY <3>1, <3>3, <2>2, <2>3 DEF RotationInv
  <2>5. CASE answer # tried.answer
    <3>1. tried'.addresses = <<new>>
      BY <1>2, <2>5 DEF TryAddress, Address
    <3>2. IsTrace(<<new>>, answer, attempts + 1)
      BY <2>1, TraceStarts
    <3>. QED
      BY <3>1, <3>2, <2>2, <2>3 DEF RotationInv
  <2>. QED
    BY <2>4, <2>5
<1>. QED
  BY <1>1, <1>2
     DEF TimingNext, ResolveFails, ConnectFails, Connects, SessionFails, TakeFront,
         WriteSent, Tick, timing_vars

\* Any n attempts in a row with one answer of n addresses reach each of them
\* (relay.rs:325-326).
THEOREM AllAddressesTried == TimingSpec => []Rotation
<1>1. TimingInit => RotationInv
  BY DEF TimingInit, RotationInv, IsTrace
<1>2. ASSUME TimingTypeOK, RotationInv PROVE Rotation
  <2>. DEFINE p == tried.answer
              s == tried.addresses
              n == Len(p)
              l == Len(s)
  <2>1. SUFFICES ASSUME NEW k \in 0..(l - n), NEW r \in 1..n
                 PROVE  \E i \in (k + 1)..(k + n) : s[i] = p[r]
    BY DEF Rotation
  <2>2. s \in Seq(Addresses) /\ attempts \in Nat /\ p \in {<<>>} \cup Answers
    BY <1>2 DEF TimingTypeOK
  <2>3. l \in Nat /\ n \in Nat
    BY <2>2, RetryAssumption
  <2>4. l <= attempts
        /\ \A i \in 1..l : s[i] = p[((attempts - l + i - 1) % n) + 1]
    BY <1>2 DEF RotationInv, IsTrace
  <2>. HIDE DEF p, s, n, l
  <2>5. n \in Nat \ {0} /\ r - 1 \in 0..(n - 1) /\ k \in Nat /\ k + n <= l
    BY <2>1, <2>3
  <2>6. (attempts - l) + k \in Nat
    BY <2>2, <2>3, <2>4, <2>5
  <2>7. PICK d \in 0..(n - 1) : (((attempts - l) + k) + d) % n = r - 1
    BY <2>5, <2>6, RemainderMet
  <2>8. (k + d) + 1 \in (k + 1)..(k + n) /\ (k + d) + 1 \in 1..l
    BY <2>3, <2>5
  <2>9. attempts - l + ((k + d) + 1) - 1 = ((attempts - l) + k) + d
    BY <2>2, <2>3, <2>5
  <2>a. s[(k + d) + 1] = p[((attempts - l + ((k + d) + 1) - 1) % n) + 1]
    BY <2>4, <2>8
  <2>b. (r - 1) + 1 = r
    BY <2>1, <2>3
  <2>c. s[(k + d) + 1] = p[r]
    BY <2>7, <2>9, <2>a, <2>b
  <2>. QED
    BY <2>8, <2>c
<1>. QED
  BY <1>1, <1>2, RotationStep, RetryTypeCorrect, PTL DEF TimingSpec

(***************************************************************************)
(* Traffic windows.                                                        *)
(***************************************************************************)
\* Ring b of n slots counts f, a function of the ticks 0..last, up to tick c: a
\* slot in use holds the count of its tick, and a tick that was counted is either
\* in its slot or has been followed by a later one there.
Counts(b, n, f, last, c) ==
  /\ f \in [0..last -> Nat]
  /\ b \in [0..(n - 1) -> [tick : 0..last, count : Nat]]
  /\ \A i \in 0..(n - 1) :
       b[i].tick <= c /\ (b[i].count > 0 => b[i].tick % n = i /\ b[i].count = f[b[i].tick])
  /\ \A t \in 0..last :
       f[t] > 0 => t <= c /\ b[t % n].count > 0 /\ b[t % n].tick >= t

LEMMA SlotOf ==
  ASSUME NEW t \in Nat, NEW n \in Nat \ {0}
  PROVE  t % n \in 0..(n - 1)
OBVIOUS

\* Counting in the present tick, and the passage of time.
LEMMA CountsOneMore ==
  ASSUME NEW n \in Nat \ {0}, NEW last \in Nat, NEW f \in [0..last -> Nat],
         NEW c \in 0..last, NEW b, Counts(b, n, f, last, c)
  PROVE  Counts([b EXCEPT ![c % n] = increment(@, c)], n, [f EXCEPT ![c] = @ + 1], last, c)
<1>. DEFINE k == c % n
            d == [b EXCEPT ![k] = increment(@, c)]
            g == [f EXCEPT ![c] = @ + 1]
<1>1. k \in 0..(n - 1) /\ k = c % n
  BY SlotOf
<1>2. b \in [0..(n - 1) -> [tick : 0..last, count : Nat]]
  BY DEF Counts
<1>3. /\ f[c] \in Nat /\ b[k].tick \in Nat /\ b[k].count \in Nat /\ b[k].tick <= c
      /\ f[c] > 0 => b[k].count > 0 /\ b[k].tick >= c
      /\ b[k].count > 0 => b[k].count = f[b[k].tick]
  <2>1. f[c] > 0 => b[c % n].count > 0 /\ b[c % n].tick >= c
    BY Zenon DEF Counts
  <2>2. b[k].tick <= c /\ (b[k].count > 0 => b[k].count = f[b[k].tick])
    BY <1>1, Zenon DEF Counts
  <2>. HIDE DEF k
  <2>3. f[c] \in Nat
    OBVIOUS
  <2>4. b[k] \in [tick : 0..last, count : Nat]
    BY <1>1, <1>2
  <2>5. b[k].tick \in Nat /\ b[k].count \in Nat
    BY <2>4
  <2>. QED
    BY <1>1, <2>1, <2>2, <2>3, <2>5
<1>4. (b[k].tick = c => b[k].count = f[c]) /\ (b[k].tick # c => f[c] = 0)
  BY <1>3
<1>a. d[k] = increment(b[k], c)
  BY <1>1, <1>2
<1>5. d[k].tick = c /\ d[k].count = f[c] + 1 /\ d[k] = [tick |-> c, count |-> f[c] + 1]
  <2>. HIDE DEF d, k
  <2>1. CASE b[k].tick = c
    BY <1>a, <1>4, <2>1 DEF increment
  <2>2. CASE b[k].tick # c
    BY <1>a, <1>3, <1>4, <2>2 DEF increment
  <2>. QED
    BY <2>1, <2>2
<1>6. \A i \in 0..(n - 1) : i # k => d[i] = b[i]
  BY <1>2
<1>7. d \in [0..(n - 1) -> [tick : 0..last, count : Nat]]
  <2>1. increment(b[k], c) \in [tick : 0..last, count : Nat]
    BY <1>a, <1>3, <1>5
  <2>. QED
    BY <1>1, <1>2, <2>1
<1>8. /\ \A t \in 0..last : t # c => g[t] = f[t]
      /\ g[c] = f[c] + 1 /\ f[c] \in Nat
  OBVIOUS
<1>. HIDE DEF k, d, g
<1>9. ASSUME NEW i \in 0..(n - 1)
      PROVE  d[i].tick <= c /\ (d[i].count > 0 => d[i].tick % n = i /\ d[i].count = g[d[i].tick])
  <2>1. CASE i = k
    BY <1>1, <1>5, <1>8, <2>1
  <2>2. CASE i # k
    <3>1. d[i] = b[i] /\ b[i].tick \in 0..last
      BY <1>2, <1>6, <2>2
    <3>2. b[i].tick <= c /\ (b[i].count > 0 => b[i].tick % n = i /\ b[i].count = f[b[i].tick])
      BY DEF Counts
    <3>3. b[i].count > 0 => b[i].tick # c
      BY <1>1, <2>2, <3>2
    <3>. QED
      BY <1>8, <3>1, <3>2, <3>3
  <2>. QED
    BY <2>1, <2>2
<1>10. ASSUME NEW t \in 0..last, g[t] > 0
       PROVE  t <= c /\ d[t % n].count > 0 /\ d[t % n].tick >= t
  <2>1. CASE t = c
    BY <1>1, <1>5, <1>8, <2>1
  <2>2. CASE t # c
    <3>0. f[t] > 0
      BY <1>8, <1>10, <2>2
    <3>1. t <= c /\ b[t % n].count > 0 /\ b[t % n].tick >= t
      BY <3>0, Zenon DEF Counts
    <3>4. t % n \in 0..(n - 1)
      <4>1. t \in Nat
        OBVIOUS
      <4>. QED
        BY <4>1, SlotOf
    <3>2. CASE t % n = k
      <4>1. d[t % n].tick = c /\ d[t % n].count = f[c] + 1
        BY <1>5, <3>2, Zenon
      <4>. QED
        BY <1>8, <3>1, <4>1
    <3>3. CASE t % n # k
      BY <1>6, <3>1, <3>3, <3>4, Zenon
    <3>. QED
      BY <3>2, <3>3
  <2>. QED
    BY <2>1, <2>2
<1>12. g \in [0..last -> Nat]
  BY DEF g
<1>11. Counts(d, n, g, last, c)
  BY <1>7, <1>9, <1>10, <1>12, Zenon DEF Counts
<1>. QED
  BY <1>11 DEF d, g, k

LEMMA CountsLater ==
  ASSUME NEW n \in Nat \ {0}, NEW last \in Nat, NEW f \in [0..last -> Nat],
         NEW c \in Nat, NEW later \in Nat, c <= later, NEW b, Counts(b, n, f, last, c)
  PROVE  Counts(b, n, f, last, later)
<1>1. /\ f \in [0..last -> Nat] /\ b \in [0..(n - 1) -> [tick : 0..last, count : Nat]]
      /\ \A i \in 0..(n - 1) : b[i].tick \in Nat
  BY DEF Counts
<1>2. ASSUME NEW i \in 0..(n - 1)
      PROVE  /\ b[i].tick <= later
             /\ b[i].count > 0 => b[i].tick % n = i /\ b[i].count = f[b[i].tick]
  <2>1. /\ b[i].tick <= c
        /\ b[i].count > 0 => b[i].tick % n = i /\ b[i].count = f[b[i].tick]
    BY Zenon DEF Counts
  <2>. QED
    BY <1>1, <2>1
<1>3. ASSUME NEW t \in 0..last, f[t] > 0
      PROVE  t <= later /\ b[t % n].count > 0 /\ b[t % n].tick >= t
  <2>1. t <= c /\ b[t % n].count > 0 /\ b[t % n].tick >= t
    BY <1>3, Zenon DEF Counts
  <2>2. t <= later
    BY <2>1
  <2>. QED
    BY <2>1, <2>2
<1>. QED
  BY <1>1, <1>2, <1>3, Zenon DEF Counts

\* Any n ticks up to the present one are counted exactly by the slots that hold
\* one of them.
IsWindow(W, n, last, c) == W \subseteq 0..last /\ \A t \in W : t <= c /\ c - t < n

CountIn(b, W) ==
  SumFunctionOnSet([i \in DOMAIN b |-> b[i].count], {i \in DOMAIN b : b[i].tick \in W})

LEMMA WindowExact ==
  ASSUME NEW n \in Nat \ {0}, NEW last \in Nat, NEW c \in Nat, NEW f, NEW b, NEW W,
         Counts(b, n, f, last, c), IsWindow(W, n, last, c)
  PROVE  CountIn(b, W) = SumFunctionOnSet(f, W)
<1>. DEFINE counts == [i \in DOMAIN b |-> b[i].count]
            slots == {i \in DOMAIN b : b[i].tick \in W}
            h == [t \in W |-> t % n]
<1>0. W \in SUBSET (0..last) /\ \A t \in W : t <= c /\ c - t < n
  BY DEF IsWindow
<1>1. /\ b \in [0..(n - 1) -> [tick : 0..last, count : Nat]] /\ DOMAIN b = 0..(n - 1)
      /\ f \in [0..last -> Nat]
  BY DEF Counts
<1>2. IsFiniteSet(W) /\ IsFiniteSet(slots)
  <2>1. IsFiniteSet(0..last) /\ IsFiniteSet(0..(n - 1))
    BY FS_Interval
  <2>2. slots \in SUBSET (0..(n - 1))
    BY <1>1
  <2>. QED
    BY <1>0, <2>1, <2>2, FS_Subset
<1>3. ASSUME NEW t \in W, f[t] # 0
      PROVE  t % n \in slots /\ b[t % n].tick = t /\ b[t % n].count = f[t]
  <2>1. t \in 0..last /\ f[t] > 0 /\ t \in Nat
    BY <1>0, <1>1, <1>3
  <2>2. t <= c /\ c - t < n /\ t % n \in 0..(n - 1)
    BY <1>0, <2>1, SlotOf
  <2>3. b[t % n].count > 0 /\ b[t % n].tick >= t /\ b[t % n].tick \in Nat
    BY <1>1, <2>1, <2>2 DEF Counts
  <2>4. b[t % n].tick <= c /\ b[t % n].tick % n = t % n /\ b[t % n].count = f[b[t % n].tick]
    BY <2>2, <2>3 DEF Counts
  <2>5. b[t % n].tick = t
    <3>1. SUFFICES ASSUME t < b[t % n].tick PROVE FALSE
      BY <2>1, <2>3
    <3>2. b[t % n].tick < t + n
      BY <2>1, <2>2, <2>3, <2>4
    <3>. QED
      BY <2>1, <2>3, <2>4, <3>1, <3>2, ModDiffers
  <2>. QED
    BY <1>1, <2>1, <2>2, <2>4, <2>5
<1>4. \A i \in slots : /\ i \in 0..(n - 1) /\ b[i].tick \in W
                       /\ counts[i] = b[i].count /\ counts[i] \in Int
  BY <1>1
<1>5. ASSUME NEW i \in slots, counts[i] # 0
      PROVE  \E t \in W : f[t] # 0 /\ h[t] = i
  <2>1. i \in 0..(n - 1) /\ b[i].count > 0 /\ b[i].tick \in W
    BY <1>1, <1>5
  <2>2. b[i].tick % n = i /\ b[i].count = f[b[i].tick]
    BY <2>1 DEF Counts
  <2>. QED
    BY <2>1, <2>2
<1>6. (\A t \in W : h[t] = t % n) /\ \A t \in W : f[t] \in Int
  BY <1>0, <1>1
<1>. HIDE DEF counts, slots, h
<1>7. \A x \in W : f[x] # 0 => h[x] \in slots /\ counts[h[x]] = f[x]
  BY <1>3, <1>4, <1>6
<1>8. \A x, y \in W : f[x] # 0 /\ f[y] # 0 /\ h[x] = h[y] => x = y
  <2>. SUFFICES ASSUME NEW x \in W, NEW y \in W, f[x] # 0, f[y] # 0, h[x] = h[y]
                PROVE  x = y
    OBVIOUS
  <2>1. b[x % n].tick = x /\ b[y % n].tick = y
    BY <1>3
  <2>2. x % n = y % n
    BY <1>6, Zenon
  <2>. QED
    BY <2>1, <2>2, Zenon
<1>9. Matches(h, f, W, counts, slots)
  BY <1>2, <1>4, <1>5, <1>6, <1>7, <1>8 DEF Matches
<1>10. SumFunctionOnSet(f, W) = SumFunctionOnSet(counts, slots)
  BY <1>9, SumsMatch
<1>. QED
  BY <1>10 DEF counts, slots, CountIn

(***************************************************************************)
(* Minutes.                                                                *)
(***************************************************************************)
LEMMA DivGrows ==
  ASSUME NEW a \in Nat, NEW b \in Nat, NEW n \in Nat \ {0}, a <= b
  PROVE  a \div n \in Nat /\ a \div n <= b \div n
<1>1. PICK p \in Nat, r \in Nat : p = a \div n /\ r = a % n /\ a = (n * p) + r /\ r < n
  OBVIOUS
<1>2. PICK q \in Nat, s \in Nat : q = b \div n /\ s = b % n /\ b = (n * q) + s /\ s < n
  OBVIOUS
<1>3. SUFFICES ASSUME p > q PROVE FALSE
  BY <1>1, <1>2
<1>4. PICK k \in Nat : p = q + (k + 1)
  <2>1. p - (q + 1) \in Nat /\ p = q + ((p - (q + 1)) + 1)
    BY <1>3
  <2>. QED
    BY <2>1
<1>5. n * p = n * q + (n * k + n)
  BY <1>4
<1>6. n * k \in Nat /\ n * q \in Nat /\ n * p \in Nat
  OBVIOUS
<1>7. a = n * p + r /\ b = n * q + s /\ s < n
  BY <1>1, <1>2
<1>. QED
  BY <1>5, <1>6, <1>7

LEMMA MinuteGrows ==
  ASSUME NEW s \in Nat, NEW t \in Nat, s <= t
  PROVE  Minute(s) \in Nat /\ Minute(s) <= Minute(t)
BY DivGrows, WindowsAssumption DEF Minute

\* The ticks a clock that stops at MaxSecond has.
LastMinute == Minute(MaxSecond)
AllSeconds == 0..MaxSecond
AllMinutes == 0..LastMinute

SecondsIn(M) == {s \in AllSeconds : Minute(s) \in M}

\* What f counts by the second, counted by the minute.
PerMinute(f) == [m \in AllMinutes |-> SumFunctionOnSet(f, SecondsIn({m}))]

LEMMA MinuteOf ==
  ASSUME NEW s \in AllSeconds
  PROVE  Minute(s) \in AllMinutes
<1>1. s \in Nat /\ s <= MaxSecond /\ MaxSecond \in Nat
  BY WindowsAssumption DEF AllSeconds
<1>2. Minute(s) \in Nat /\ Minute(s) <= Minute(MaxSecond) /\ Minute(MaxSecond) \in Nat
  BY <1>1, MinuteGrows
<1>. QED
  BY <1>2 DEF LastMinute, AllMinutes

LEMMA TicksFinite ==
  /\ IsFiniteSet(AllSeconds) /\ IsFiniteSet(AllMinutes)
  /\ AllSeconds \subseteq Nat /\ AllMinutes \subseteq Nat
<1>1. MaxSecond \in Nat /\ LastMinute \in Nat
  BY MinuteGrows, WindowsAssumption DEF LastMinute
<1>. QED
  BY <1>1, FS_Interval DEF AllSeconds, AllMinutes

LEMMA PerMinuteType ==
  ASSUME NEW f \in [AllSeconds -> Nat]
  PROVE  PerMinute(f) \in [AllMinutes -> Nat]
<1>1. ASSUME NEW m PROVE SumFunctionOnSet(f, SecondsIn({m})) \in Nat
  <2>1. SecondsIn({m}) \in SUBSET AllSeconds /\ IsFiniteSet(AllSeconds)
    BY TicksFinite DEF SecondsIn
  <2>2. IsFiniteSet(SecondsIn({m})) /\ \A s \in SecondsIn({m}) : f[s] \in Nat
    BY <2>1, FS_Subset
  <2>. QED
    BY <2>2, SumOfNaturals
<1>. QED
  BY <1>1 DEF PerMinute

LEMMA PerMinuteIncrements ==
  ASSUME NEW f \in [AllSeconds -> Nat], NEW s \in AllSeconds
  PROVE  PerMinute([f EXCEPT ![s] = @ + 1]) = [PerMinute(f) EXCEPT ![Minute(s)] = @ + 1]
<1>. DEFINE g == [f EXCEPT ![s] = @ + 1]
<1>1. ASSUME NEW m \in AllMinutes
      PROVE  SumFunctionOnSet(g, SecondsIn({m}))
               = IF m = Minute(s) THEN SumFunctionOnSet(f, SecondsIn({m})) + 1
                                  ELSE SumFunctionOnSet(f, SecondsIn({m}))
  <2>1. SecondsIn({m}) \in SUBSET AllSeconds /\ IsFiniteSet(AllSeconds)
    BY TicksFinite DEF SecondsIn
  <2>2. s \in SecondsIn({m}) <=> m = Minute(s)
    BY DEF SecondsIn
  <2>3. \A x \in AllSeconds : f[x] \in Int /\ g[x] = IF x = s THEN f[x] + 1 ELSE f[x]
    OBVIOUS
  <2>. DEFINE A == SecondsIn({m})
  <2>4. A \in SUBSET AllSeconds
    BY <2>1
  <2>. HIDE DEF A, g
  <2>5. SumFunctionOnSet(g, A)
          = IF s \in A THEN SumFunctionOnSet(f, A) + 1 ELSE SumFunctionOnSet(f, A)
    BY <2>1, <2>3, <2>4, SumIncrements
  <2>. QED
    BY <2>2, <2>5 DEF A
<1>2. Minute(s) \in AllMinutes
  BY MinuteOf
<1>. HIDE DEF g
<1>3. PerMinute(g) = [PerMinute(f) EXCEPT ![Minute(s)] = @ + 1]
  BY <1>1, <1>2 DEF PerMinute
<1>. QED
  BY <1>3 DEF g

\* The minutes of a set count what its seconds do.
LEMMA MinutesAddUp ==
  ASSUME NEW f \in [AllSeconds -> Nat], NEW W \in SUBSET AllMinutes
  PROVE  SumFunctionOnSet(PerMinute(f), W) = SumFunctionOnSet(f, SecondsIn(W))
<1>. DEFINE P == {U \in SUBSET W : SumFunctionOnSet(PerMinute(f), U)
                                     = SumFunctionOnSet(f, SecondsIn(U))}
<1>1. IsFiniteSet(W)
  BY TicksFinite, FS_Subset
<1>2. {} \in P
  <2>1. SecondsIn({}) = {}
    BY DEF SecondsIn
  <2>. QED
    BY <2>1, SumOfNone
<1>3. ASSUME NEW U \in SUBSET W, NEW m \in W \ U, U \in P PROVE U \cup {m} \in P
  <2>1. \A x \in W : PerMinute(f)[x] \in Int
    BY PerMinuteType
  <2>2. SumFunctionOnSet(PerMinute(f), U \cup {m})
          = PerMinute(f)[m] + SumFunctionOnSet(PerMinute(f), U)
    BY <1>1, <2>1, SumGrows
  <2>3. PerMinute(f)[m] = SumFunctionOnSet(f, SecondsIn({m}))
    BY DEF PerMinute
  <2>4. /\ IsFiniteSet(AllSeconds) /\ \A s \in AllSeconds : f[s] \in Int
        /\ SecondsIn(U) \in SUBSET AllSeconds /\ SecondsIn({m}) \in SUBSET AllSeconds
        /\ SecondsIn({m}) \cap SecondsIn(U) = {}
    BY TicksFinite DEF SecondsIn
  <2>5. SumFunctionOnSet(f, SecondsIn({m}) \cup SecondsIn(U))
          = SumFunctionOnSet(f, SecondsIn({m})) + SumFunctionOnSet(f, SecondsIn(U))
    <3>. DEFINE A == SecondsIn({m})
                B == SecondsIn(U)
    <3>1. /\ IsFiniteSet(AllSeconds) /\ \A s \in AllSeconds : f[s] \in Int
          /\ A \in SUBSET AllSeconds /\ B \in SUBSET AllSeconds /\ A \cap B = {}
      BY <2>4
    <3>. HIDE DEF A, B
    <3>2. SumFunctionOnSet(f, A \cup B) = SumFunctionOnSet(f, A) + SumFunctionOnSet(f, B)
      BY <3>1, SumOfUnion
    <3>. QED
      BY <3>2 DEF A, B
  <2>6. SecondsIn({m}) \cup SecondsIn(U) = SecondsIn(U \cup {m})
    BY DEF SecondsIn
  <2>7. SumFunctionOnSet(PerMinute(f), U) = SumFunctionOnSet(f, SecondsIn(U))
    BY <1>3
  <2>8. U \cup {m} \in SUBSET W
    OBVIOUS
  <2>9. SumFunctionOnSet(PerMinute(f), U \cup {m}) = SumFunctionOnSet(f, SecondsIn(U \cup {m}))
    BY <2>2, <2>3, <2>5, <2>6, <2>7, Zenon
  <2>. QED
    BY <2>8, <2>9
<1>. HIDE DEF P
<1>4. W \in P
  BY <1>1, <1>2, <1>3, SubsetInduction
<1>. QED
  BY <1>4 DEF P

(***************************************************************************)
(* Both rings count the history: the seconds by the second, the minutes by *)
(* the minute.                                                             *)
(***************************************************************************)
RatesInv ==
  /\ second \in AllSeconds /\ forwards \in [AllSeconds -> Nat]
  /\ Counts(seconds, SecondSlots, forwards, MaxSecond, second)
  /\ Counts(minutes, MinuteSlots, PerMinute(forwards), LastMinute, Minute(second))

\* The two rings have slots, and their ticks are numbers.
LEMMA RingSizes ==
  /\ SecondSlots \in Nat \ {0} /\ MinuteSlots \in Nat \ {0}
  /\ MaxSecond \in Nat /\ LastMinute \in Nat
  /\ AllSeconds = 0..MaxSecond /\ AllMinutes = 0..LastMinute
BY WindowsAssumption, MinuteGrows DEF SecondSlots, LastMinute, AllSeconds, AllMinutes

LEMMA EmptyCounts ==
  ASSUME NEW n \in Nat \ {0}, NEW last \in Nat, NEW f \in [0..last -> Nat],
         \A t \in 0..last : f[t] = 0
  PROVE  Counts(EmptySlots(n), n, f, last, 0)
BY DEF Counts, EmptySlots

LEMMA RatesStart == RatesInit => RatesInv
<1>. SUFFICES ASSUME RatesInit PROVE RatesInv
  OBVIOUS
<1>1. /\ second = 0 /\ second \in AllSeconds
      /\ forwards = [s \in AllSeconds |-> 0] /\ forwards \in [AllSeconds -> Nat]
  BY RingSizes DEF RatesInit
<1>2. Counts(seconds, SecondSlots, forwards, MaxSecond, second)
  BY <1>1, RingSizes, EmptyCounts DEF RatesInit
<1>3. \A m \in AllMinutes : PerMinute(forwards)[m] = 0
  <2>1. ASSUME NEW S \in SUBSET AllSeconds PROVE SumFunctionOnSet(forwards, S) = 0
    <3>1. IsFiniteSet(S) /\ {} \in SUBSET S
      BY TicksFinite, FS_Subset
    <3>2. (\A s \in S : forwards[s] \in Int) /\ \A s \in S \ {} : forwards[s] = 0
      BY <1>1
    <3>3. SumFunctionOnSet(forwards, S) = SumFunctionOnSet(forwards, {})
      BY <3>1, <3>2, SumOverSupport
    <3>. QED
      BY <3>3, SumOfNone
  <2>2. \A m \in AllMinutes : SecondsIn({m}) \in SUBSET AllSeconds
    BY DEF SecondsIn
  <2>. QED
    BY <2>1, <2>2 DEF PerMinute
<1>4. Minute(second) = 0
  BY <1>1, WindowsAssumption DEF Minute
<1>5. Counts(minutes, MinuteSlots, PerMinute(forwards), LastMinute, 0)
  <2>. DEFINE g == PerMinute(forwards)
  <2>1. g \in [0..LastMinute -> Nat] /\ \A m \in 0..LastMinute : g[m] = 0
    BY <1>1, <1>3, RingSizes, PerMinuteType
  <2>. HIDE DEF g
  <2>2. Counts(minutes, MinuteSlots, g, LastMinute, 0)
    BY <2>1, RingSizes, EmptyCounts DEF RatesInit
  <2>. QED
    BY <2>2 DEF g
<1>. QED
  BY <1>1, <1>2, <1>4, <1>5 DEF RatesInv

LEMMA RatesStep == RatesInv /\ [RatesNext]_rates_vars => RatesInv'
<1>. SUFFICES ASSUME RatesInv, [RatesNext]_rates_vars PROVE RatesInv'
  OBVIOUS
<1>0. /\ second \in AllSeconds /\ second \in Nat /\ forwards \in [AllSeconds -> Nat]
      /\ Minute(second) \in AllMinutes /\ Minute(second) \in Nat
      /\ PerMinute(forwards) \in [AllMinutes -> Nat]
      /\ Counts(seconds, SecondSlots, forwards, MaxSecond, second)
      /\ Counts(minutes, MinuteSlots, PerMinute(forwards), LastMinute, Minute(second))
  BY MinuteOf, PerMinuteType, TicksFinite DEF RatesInv
<1>1. CASE Forwarded
  <2>. DEFINE f == [forwards EXCEPT ![second] = @ + 1]
  <2>1. /\ second' = second /\ forwards' = f
        /\ seconds' = [seconds EXCEPT ![second % SecondSlots] = increment(@, second)]
        /\ minutes' = [minutes EXCEPT ![Minute(second) % MinuteSlots]
                                        = increment(@, Minute(second))]
    BY <1>1 DEF Forwarded, SecondSlot, MinuteSlot
  <2>2. f \in [AllSeconds -> Nat]
    BY <1>0
  <2>3. Counts(seconds', SecondSlots, f, MaxSecond, second)
    BY <1>0, <2>1, RingSizes, CountsOneMore
  <2>4. PerMinute(f) = [PerMinute(forwards) EXCEPT ![Minute(second)] = @ + 1]
    BY <1>0, PerMinuteIncrements
  <2>5. Counts(minutes', MinuteSlots, PerMinute(f), LastMinute, Minute(second))
    <3>. DEFINE g == PerMinute(forwards)
                minute == Minute(second)
    <3>1. /\ g \in [0..LastMinute -> Nat] /\ minute \in 0..LastMinute
          /\ Counts(minutes, MinuteSlots, g, LastMinute, minute)
      BY <1>0, RingSizes
    <3>. HIDE DEF g, minute
    <3>2. Counts([minutes EXCEPT ![minute % MinuteSlots] = increment(@, minute)],
                 MinuteSlots, [g EXCEPT ![minute] = @ + 1], LastMinute, minute)
      BY <3>1, RingSizes, CountsOneMore
    <3>. QED
      BY <2>1, <2>4, <3>2 DEF g, minute
  <2>. HIDE DEF f
  <2>6. PerMinute(forwards)' = PerMinute(f) /\ Minute(second)' = Minute(second)
    BY <2>1 DEF PerMinute, Minute
  <2>. QED
    BY <1>0, <2>1, <2>2, <2>3, <2>5, <2>6 DEF RatesInv
<1>2. CASE ClockAdvances
  <2>1. second' \in AllSeconds /\ second' \in Nat /\ second <= second'
    BY <1>0, <1>2, RingSizes DEF ClockAdvances
  <2>2. seconds' = seconds /\ minutes' = minutes /\ forwards' = forwards
    BY <1>2 DEF ClockAdvances
  <2>3. Minute(second') \in Nat /\ Minute(second) <= Minute(second')
    BY <1>0, <2>1, MinuteGrows
  <2>4. Counts(seconds, SecondSlots, forwards, MaxSecond, second')
    BY <1>0, <2>1, RingSizes, CountsLater
  <2>5. Counts(minutes, MinuteSlots, PerMinute(forwards), LastMinute, Minute(second'))
    BY <1>0, <2>3, RingSizes, CountsLater
  <2>6. PerMinute(forwards)' = PerMinute(forwards) /\ Minute(second)' = Minute(second')
    BY <2>2 DEF PerMinute, Minute
  <2>. QED
    BY <1>0, <2>1, <2>2, <2>4, <2>5, <2>6 DEF RatesInv
<1>3. CASE UNCHANGED rates_vars
  BY <1>3 DEF rates_vars, RatesInv, PerMinute, Minute
<1>. QED
  BY <1>1, <1>2, <1>3 DEF RatesNext

\* The slots a window selects are those with a tick of a set W.
LEMMA RatesFollow == RatesInv => RatesExact
<1>. SUFFICES ASSUME RatesInv PROVE RatesExact
  OBVIOUS
<1>0. /\ second \in Nat /\ Minute(second) \in Nat /\ forwards \in [AllSeconds -> Nat]
      /\ PerMinute(forwards) \in [AllMinutes -> Nat]
      /\ Counts(seconds, SecondSlots, forwards, MaxSecond, second)
      /\ Counts(minutes, MinuteSlots, PerMinute(forwards), LastMinute, Minute(second))
  BY MinuteOf, PerMinuteType, TicksFinite DEF RatesInv
<1>1. /\ \A i \in DOMAIN seconds : seconds[i].tick \in AllSeconds
      /\ \A i \in DOMAIN minutes : minutes[i].tick \in AllMinutes
  BY <1>0, RingSizes DEF Counts
<1>2. ASSUME NEW W \in SUBSET AllSeconds, \A t \in W : t <= second /\ second - t < SecondSlots
      PROVE  CountIn(seconds, W) = ForwardsIn(W)
  <2>1. IsWindow(W, SecondSlots, MaxSecond, second)
    BY <1>2, RingSizes DEF IsWindow
  <2>. QED
    BY <1>0, <2>1, RingSizes, WindowExact DEF ForwardsIn
<1>3. messages_per_second = ForwardsIn({s \in AllSeconds : s + 1 = second})
  <2>. DEFINE W == {s \in AllSeconds : s + 1 = second}
  <2>1. \A t \in W : t <= second /\ second - t < SecondSlots
    BY <1>0, TicksFinite, WindowsAssumption DEF SecondSlots
  <2>6. \A t \in AllSeconds : t < second /\ second - t = 1 <=> t \in W
    BY <1>0, TicksFinite
  <2>2. {i \in DOMAIN seconds : seconds[i].tick < second /\ second - seconds[i].tick = 1}
          = {i \in DOMAIN seconds : seconds[i].tick \in W}
    BY <1>1, <2>6
  <2>. HIDE DEF W
  <2>3. messages_per_second = CountIn(seconds, W)
    BY <2>2 DEF messages_per_second, SumWhere, CountIn
  <2>4. W \in SUBSET AllSeconds
    BY DEF W
  <2>5. CountIn(seconds, W) = ForwardsIn(W)
    BY <1>2, <2>1, <2>4
  <2>. QED
    BY <2>3, <2>5 DEF W
<1>4. messages_per_minute
        = ForwardsIn({s \in AllSeconds : s < second /\ second - s <= SecondsPerMinute})
  <2>. DEFINE W == {s \in AllSeconds : s < second /\ second - s <= SecondsPerMinute}
  <2>1. \A t \in W : t <= second /\ second - t < SecondSlots
    BY <1>0, TicksFinite, WindowsAssumption DEF SecondSlots
  <2>2. {i \in DOMAIN seconds : /\ seconds[i].tick < second
                                /\ second - seconds[i].tick <= SecondsPerMinute}
          = {i \in DOMAIN seconds : seconds[i].tick \in W}
    BY <1>0, <1>1
  <2>. HIDE DEF W
  <2>3. messages_per_minute = CountIn(seconds, W)
    BY <2>2 DEF messages_per_minute, SumWhere, CountIn
  <2>4. W \in SUBSET AllSeconds
    BY DEF W
  <2>5. CountIn(seconds, W) = ForwardsIn(W)
    BY <1>2, <2>1, <2>4
  <2>. QED
    BY <2>3, <2>5 DEF W
<1>5. messages_last_24h
        = ForwardsIn({s \in AllSeconds : /\ Minute(s) <= Minute(second)
                                         /\ Minute(second) - Minute(s) < MinuteSlots})
  <2>. DEFINE minute == Minute(second)
              W == {m \in AllMinutes : m <= minute /\ minute - m < MinuteSlots}
  <2>1. W \in SUBSET AllMinutes /\ \A t \in W : t <= minute /\ minute - t < MinuteSlots
    OBVIOUS
  <2>2. {i \in DOMAIN minutes : minutes[i].tick <= minute /\ minute - minutes[i].tick < MinuteSlots}
          = {i \in DOMAIN minutes : minutes[i].tick \in W}
    BY <1>1
  <2>3. {s \in AllSeconds : Minute(s) <= minute /\ minute - Minute(s) < MinuteSlots} = SecondsIn(W)
    BY MinuteOf DEF SecondsIn
  <2>. HIDE DEF W
  <2>4. messages_last_24h = CountIn(minutes, W)
    BY <2>2 DEF messages_last_24h, SumWhere, CountIn
  <2>5. CountIn(minutes, W) = SumFunctionOnSet(PerMinute(forwards), W)
    <3>. DEFINE g == PerMinute(forwards)
    <3>1. IsWindow(W, MinuteSlots, LastMinute, minute)
      BY <2>1, RingSizes DEF IsWindow
    <3>2. g \in [0..LastMinute -> Nat] /\ Counts(minutes, MinuteSlots, g, LastMinute, minute)
          /\ minute \in Nat
      BY <1>0, RingSizes
    <3>. HIDE DEF g, minute
    <3>3. CountIn(minutes, W) = SumFunctionOnSet(g, W)
      BY <3>1, <3>2, RingSizes, WindowExact
    <3>. QED
      BY <3>3 DEF g
  <2>6. SumFunctionOnSet(PerMinute(forwards), W) = ForwardsIn(SecondsIn(W))
    BY <1>0, <2>1, MinutesAddUp DEF ForwardsIn
  <2>. QED
    BY <2>3, <2>4, <2>5, <2>6
<1>. QED
  BY <1>3, <1>4, <1>5 DEF RatesExact, AllSeconds

\* The rates of a snapshot are exact (sources.rs:52-66,158-200).
THEOREM RatesAreExact == RatesSpec => []RatesExact
BY RatesStart, RatesStep, RatesFollow, PTL DEF RatesSpec

(***************************************************************************)
(* Settings.                                                               *)
(***************************************************************************)
\* Every entry has a value of its kind: a number of any size, or one of the
\* classes the rules tell apart.
Entries(section) == DOMAIN EntryValues[section]
Kind(section, entry) == IF section = "numbers" THEN Nat ELSE EntryValues[section][entry]

FileTypeOK ==
  /\ input = [section \in DOMAIN EntryValues |-> input[section]]
  /\ \A section \in DOMAIN EntryValues :
       /\ input[section] = [entry \in Entries(section) |-> input[section][entry]]
       /\ \A entry \in Entries(section) : input[section][entry] \in Kind(section, entry)

LEMMA FileStep == FileTypeOK /\ [FileNext]_file_vars => FileTypeOK'
<1>. SUFFICES ASSUME FileTypeOK, [FileNext]_file_vars PROVE FileTypeOK'
  OBVIOUS
<1>1. CASE FileNext
  <2>1. PICK section \in DOMAIN EntryValues : \E entry \in DOMAIN EntryValues[section] :
          \E value \in EntryValues[section][entry] :
            input' = [input EXCEPT ![section][entry] = value]
    BY <1>1 DEF FileNext
  <2>2. PICK entry \in Entries(section) :
          \E value \in EntryValues[section][entry] :
            input' = [input EXCEPT ![section][entry] = value]
    BY <2>1 DEF Entries
  <2>3. PICK value \in EntryValues[section][entry] :
          input' = [input EXCEPT ![section][entry] = value]
    BY <2>2
  <2>4. value \in Kind(section, entry)
    <3>1. CASE section = "numbers"
      <4>1. \A e \in DOMAIN EntryValues["numbers"] : EntryValues["numbers"][e] \subseteq Nat
        BY DEF EntryValues
      <4>. QED
        BY <3>1, <4>1, <2>2, <2>3 DEF Kind, Entries
    <3>2. CASE section # "numbers"
      BY <3>2, <2>3 DEF Kind
    <3>. QED
      BY <3>1, <3>2
  <2>5. ASSUME NEW other \in DOMAIN EntryValues
        PROVE  /\ input'[other] = [e \in Entries(other) |-> input'[other][e]]
               /\ \A e \in Entries(other) : input'[other][e] \in Kind(other, e)
    BY <2>3, <2>4 DEF FileTypeOK
  <2>6. input' = [s \in DOMAIN EntryValues |-> input'[s]]
    BY <2>3 DEF FileTypeOK
  <2>. QED
    BY <2>5, <2>6 DEF FileTypeOK, Entries, Kind
<1>2. CASE UNCHANGED file_vars
  BY <1>2 DEF file_vars, FileTypeOK, Entries, Kind
<1>. QED
  BY <1>1, <1>2

LEMMA FileStart == FileInit => FileTypeOK
<1>. SUFFICES ASSUME FileInit PROVE FileTypeOK
  OBVIOUS
<1>1. DOMAIN EntryValues = {"oidc", "numbers", "names", "paths"}
  BY DEF EntryValues
<1>2. input = DefaultFile
  BY DEF FileInit
<1>3. input = [section \in DOMAIN EntryValues |-> input[section]]
  BY <1>1, <1>2, SMT DEF DefaultFile
<1>4. /\ input["oidc"] = [entry \in Entries("oidc") |-> input["oidc"][entry]]
      /\ \A entry \in Entries("oidc") : input["oidc"][entry] \in Kind("oidc", entry)
  <2>1. input["oidc"] = DefaultLogin
    BY <1>2, SMT DEF DefaultFile
  <2>2. Entries("oidc") = {"enabled", "issuer_url", "discovery_uri", "public_url", "client_id",
                           "groups_claim", "required_group", "client_secret",
                           "client_secret_env", "scopes"}
    BY DEF Entries, EntryValues
  <2>3. DefaultLogin = [entry \in Entries("oidc") |-> DefaultLogin[entry]]
    BY <2>2 DEF DefaultLogin
  <2>4. \A entry \in Entries("oidc") : DefaultLogin[entry] \in EntryValues["oidc"][entry]
    <3>. DEFINE kinds == EntryValues["oidc"]
    <3>1. kinds["enabled"] = BOOLEAN /\ DefaultLogin["enabled"] = FALSE
      BY DEF EntryValues, DefaultLogin
    <3>2. DefaultLogin["enabled"] \in kinds["enabled"]
      <4>. HIDE DEF kinds
      <4>. QED
        BY <3>1, Zenon
    <3>3. \A entry \in Entries("oidc") \ {"enabled"} : DefaultLogin[entry] \in kinds[entry]
      <4>1. /\ DefaultLogin["issuer_url"] \in kinds["issuer_url"]
            /\ DefaultLogin["discovery_uri"] \in kinds["discovery_uri"]
            /\ DefaultLogin["public_url"] \in kinds["public_url"]
        BY DEF DefaultLogin, EntryValues, Urls
      <4>2. /\ DefaultLogin["client_id"] \in kinds["client_id"]
            /\ DefaultLogin["groups_claim"] \in kinds["groups_claim"]
            /\ DefaultLogin["required_group"] \in kinds["required_group"]
        BY DEF DefaultLogin, EntryValues, Words
      <4>3. /\ DefaultLogin["client_secret"] \in kinds["client_secret"]
            /\ DefaultLogin["client_secret_env"] \in kinds["client_secret_env"]
            /\ DefaultLogin["scopes"] \in kinds["scopes"]
        BY DEF DefaultLogin, EntryValues
      <4>. HIDE DEF kinds
      <4>. QED
        BY <2>2, <4>1, <4>2, <4>3
    <3>. QED
      BY <3>2, <3>3
  <2>. QED
    BY <2>1, <2>3, <2>4 DEF Kind
<1>5. /\ input["numbers"] = [entry \in Entries("numbers") |-> input["numbers"][entry]]
      /\ \A entry \in Entries("numbers") : input["numbers"][entry] \in Kind("numbers", entry)
  BY <1>2, SMT DEF Entries, EntryValues, Kind, DefaultFile, Limits, LimitsUpTo
<1>6. /\ input["names"] = [entry \in Entries("names") |-> input["names"][entry]]
      /\ \A entry \in Entries("names") : input["names"][entry] \in Kind("names", entry)
  BY <1>2, SMT DEF Entries, EntryValues, Kind, DefaultFile
<1>7. /\ input["paths"] = [entry \in Entries("paths") |-> input["paths"][entry]]
      /\ \A entry \in Entries("paths") : input["paths"][entry] \in Kind("paths", entry)
  BY <1>2, SMT DEF Entries, EntryValues, Kind, DefaultFile, Paths
<1>. QED
  BY <1>1, <1>3, <1>4, <1>5, <1>6, <1>7 DEF FileTypeOK

THEOREM FileTypeCorrect == FileSpec => []FileTypeOK
BY FileStart, FileStep, PTL DEF FileSpec

LEMMA NumbersSuffice == FileTypeOK => ValidSuffices
<1>. SUFFICES ASSUME FileTypeOK, accepted PROVE ValidSuffices
  BY DEF ValidSuffices
<1>. DEFINE n == parse(input).numbers
<1>1. n = input.numbers
  <2>1. DOMAIN input = {"oidc", "numbers", "names", "paths"}
    BY DEF FileTypeOK, EntryValues
  <2>. QED
    BY <2>1 DEF parse
<1>2. /\ n.max_message_bytes \in Nat /\ n.max_bytes \in Nat /\ n.retry_initial_ms \in Nat
      /\ n.retry_max_ms \in Nat /\ n.messages_per_second \in Nat
  <2>1. "numbers" \in DOMAIN EntryValues /\ Entries("numbers") = DOMAIN Limits
    BY SMT DEF EntryValues, Entries
  <2>2. \A entry \in DOMAIN Limits : input["numbers"][entry] \in Nat
    BY <2>1 DEF FileTypeOK, Kind
  <2>. QED
    BY <1>1, <2>2, SMT DEF Limits, LimitsUpTo
<1>3. /\ validate(parse(input))
      /\ \A entry \in DOMAIN Limits : Limits[entry][1] <= n[entry] /\ n[entry] <= Limits[entry][2]
      /\ n.retry_max_ms >= n.retry_initial_ms
  BY DEF accepted, accepts, validate
<1>4. /\ 1 <= n.max_message_bytes /\ n.max_message_bytes <= 16378
      /\ n.max_bytes <= 1073741824 /\ 100 <= n.retry_initial_ms
      /\ 1 <= n.messages_per_second /\ n.messages_per_second <= 100000
  BY <1>3, SMT DEF Limits, LimitsUpTo
<1>. HIDE DEF n
<1>5. FrameLen(n.max_message_bytes) <= 16384
  BY <1>2, <1>4, SMT DEF FrameLen, DecimalDigits
<1>6. n.max_bytes + n.max_message_bytes <= 2147483647
  BY <1>2, <1>4, SMT
<1>7. n.retry_initial_ms \div 2 > 0 /\ 1000000000 \div n.messages_per_second > 0
  BY <1>2, <1>4, SMT
<1>. QED
  BY <1>3, <1>5, <1>6, <1>7, SMT DEF ValidSuffices, n

\* Accepted numbers are fit for the relay (config.rs:240-262).
THEOREM AcceptedNumbersSuffice == FileSpec => []ValidSuffices
BY FileTypeCorrect, NumbersSuffice, PTL


LEMMA ResolvedTwice == ASSUME NEW p PROVE Resolved(Resolved(p)) = Resolved(p)
BY DEF Resolved

\* Migration is over after one reading: what is saved has no old entry, and is
\* not changed by another.
LEMMA MigratedOnce ==
  ASSUME NEW o, NEW s, DOMAIN s = DOMAIN o,
         {"issuer_url", "client_secret_env", "discovery_uri", "client_secret"} \subseteq DOMAIN o,
         s = [entry \in DOMAIN o |->
                IF entry \in DOMAIN Migrated(o) THEN Migrated(o)[entry] ELSE "absent"]
  PROVE  ~SecretElsewhere(s) /\ Migrated(s) = Migrated(o)
<1>1. DOMAIN Migrated(o) = DOMAIN o \ {"issuer_url", "client_secret_env"}
  BY DEF Migrated
<1>2. s.client_secret_env = "absent" /\ s.issuer_url = "absent"
  BY <1>1
<1>3. \A entry \in DOMAIN Migrated(o) : s[entry] = Migrated(o)[entry]
  BY <1>1
<1>4. s.discovery_uri = Migrated(o).discovery_uri
  BY <1>1, <1>3
<1>5. \A entry \in DOMAIN Migrated(o) : Migrated(s)[entry] = Migrated(o)[entry]
  <2>1. ASSUME NEW entry \in DOMAIN Migrated(o) PROVE Migrated(s)[entry] = s[entry]
    <3>1. entry \in DOMAIN s \ {"issuer_url", "client_secret_env"}
      BY <1>1
    <3>2. WellKnown(s.issuer_url) = ""
      BY <1>2 DEF WellKnown
    <3>. QED
      BY <3>1, <3>2 DEF Migrated
  <2>. QED
    BY <1>3, <2>1
<1>6. Migrated(s) = Migrated(o)
  <2>1. DOMAIN Migrated(s) = DOMAIN Migrated(o)
    BY <1>1 DEF Migrated
  <2>2. /\ Migrated(s) = [entry \in DOMAIN Migrated(s) |-> Migrated(s)[entry]]
        /\ Migrated(o) = [entry \in DOMAIN Migrated(o) |-> Migrated(o)[entry]]
    BY DEF Migrated
  <2>. QED
    BY <1>5, <2>1, <2>2
<1>. QED
  BY <1>2, <1>6 DEF SecretElsewhere

LEMMA SavingKeeps == FileTypeOK => SavedLoads
<1>. SUFFICES ASSUME FileTypeOK, accepted PROVE SavedLoads
  BY DEF SavedLoads
<1>. DEFINE settings == parse(input)
            saved == Saved(settings)
            resolved(paths) == [p \in DOMAIN paths |-> Resolved(paths[p])]
<1>1. /\ input = [section \in {"oidc", "numbers", "names", "paths"} |-> input[section]]
      /\ input.oidc = [entry \in Entries("oidc") |-> input.oidc[entry]]
      /\ DOMAIN input.oidc = Entries("oidc")
      /\ {"issuer_url", "client_secret_env", "discovery_uri", "client_secret", "enabled"}
           \subseteq Entries("oidc")
  BY DEF FileTypeOK, EntryValues, Entries
<1>2. /\ settings = [input EXCEPT !.oidc = Migrated(input.oidc), !.paths = resolved(input.paths)]
      /\ DOMAIN settings = {"oidc", "numbers", "names", "paths"}
      /\ settings.oidc = Migrated(input.oidc) /\ settings.paths = resolved(input.paths)
  BY <1>1 DEF parse
<1>3. /\ saved.oidc = [entry \in DOMAIN input.oidc |->
           IF entry \in DOMAIN settings.oidc THEN settings.oidc[entry] ELSE "absent"]
      /\ saved = [settings EXCEPT !.oidc = saved.oidc]
      /\ DOMAIN saved = {"oidc", "numbers", "names", "paths"}
      /\ saved.paths = settings.paths
  BY <1>2 DEF Saved
<1>4. ~SecretElsewhere(saved.oidc) /\ Migrated(saved.oidc) = Migrated(input.oidc)
  <2>. DEFINE o == input.oidc
              s == saved.oidc
  <2>1. s = [entry \in DOMAIN o |->
               IF entry \in DOMAIN Migrated(o) THEN Migrated(o)[entry] ELSE "absent"]
    BY <1>2, <1>3
  <2>2. {"issuer_url", "client_secret_env", "discovery_uri", "client_secret"} \subseteq DOMAIN o
    BY <1>1
  <2>. HIDE DEF o, s
  <2>3. DOMAIN s = DOMAIN o
    BY <2>1
  <2>4. ~SecretElsewhere(s) /\ Migrated(s) = Migrated(o)
    BY <2>1, <2>2, <2>3, MigratedOnce
  <2>. QED
    BY <2>4 DEF o, s
<1>5. resolved(saved.paths) = resolved(input.paths)
  <2>. DEFINE q == resolved(input.paths)
  <2>1. saved.paths = q /\ DOMAIN q = DOMAIN input.paths
    BY <1>2, <1>3
  <2>2. \A p \in DOMAIN q : Resolved(q[p]) = q[p]
    BY ResolvedTwice
  <2>3. q = [p \in DOMAIN q |-> q[p]]
    OBVIOUS
  <2>. HIDE DEF q
  <2>4. resolved(q) = q
    BY <2>2, <2>3
  <2>. HIDE DEF resolved, saved, settings
  <2>. QED
    BY <2>1, <2>4 DEF q
<1>6. parse(saved) = settings
  <2>1. parse(saved) = [saved EXCEPT !.oidc = Migrated(input.oidc), !.paths = resolved(input.paths)]
    BY <1>4, <1>5 DEF parse
  <2>. HIDE DEF saved, settings
  <2>. QED
    BY <1>2, <1>3, <2>1
<1>7. ~SecretElsewhere(input.oidc) /\ validate(settings)
  BY DEF accepted, accepts
<1>8. accepts(saved)
  BY <1>4, <1>6, <1>7 DEF accepts
<1>9. ASSUME input.oidc.enabled
      PROVE  /\ http_url(settings.oidc.discovery_uri)
             /\ input.oidc.client_secret_env = "NAME" => settings.oidc.client_secret # ""
  <2>1. settings.oidc.enabled = input.oidc.enabled
    BY <1>1, <1>2 DEF Migrated
  <2>2. settings.oidc.client_secret = input.oidc.client_secret
    BY <1>1, <1>2 DEF Migrated
  <2>3. http_url(settings.oidc.discovery_uri)
    BY <1>7, <1>9, <2>1, Zenon DEF validate, ValidLogin
  <2>4. input.oidc.client_secret_env = "NAME" => input.oidc.client_secret # ""
    BY <1>7, <1>9 DEF SecretElsewhere
  <2>. QED
    BY <2>2, <2>3, <2>4
<1>. QED
  BY <1>6, <1>8, <1>9 DEF SavedLoads

\* What was read and saved is read again, and is the same (config.rs:195-236).
THEOREM SavingLosesNothing == FileSpec => []SavedLoads
BY FileTypeCorrect, SavingKeeps, PTL

(***************************************************************************)
(* The recursive definitions are functions.                                *)
(***************************************************************************)
IsClosingQuote(end, s) ==
  end = [i \in 1..(Len(s) + 1) |->
          IF i > Len(s) \/ is(s, i, "]") THEN 0
          ELSE IF s[i] = Quote THEN i
          ELSE IF s[i] = Backslash /\ i < Len(s) /\ s[i + 1] \in Escapable THEN end[i + 2]
          ELSE end[i + 1]]

LEMMA ClosingQuoteExists ==
  ASSUME NEW s \in Seq(Characters)
  PROVE  IsClosingQuote(ClosingQuote(s), s)
<1>. DEFINE D == 1..(Len(s) + 1)
            m == [i \in D |-> Len(s) + 1 - i]
            end(i, g) == IF i > Len(s) \/ is(s, i, "]") THEN 0
                         ELSE IF s[i] = Quote THEN i
                         ELSE IF s[i] = Backslash /\ i < Len(s) /\ s[i + 1] \in Escapable
                              THEN g[i + 2]
                         ELSE g[i + 1]
            step == [g \in [D -> Nat] |-> [i \in D |-> end(i, g)]]
<1>1. Len(s) \in Nat /\ \A i \in D : m[i] \in 0..Len(s)
  OBVIOUS
<1>2. ASSUME NEW i \in D, NEW g \in [D -> Nat] PROVE end(i, g) \in Nat
  <2>1. i <= Len(s) => g[i + 1] \in Nat
    OBVIOUS
  <2>2. i < Len(s) => g[i + 2] \in Nat
    OBVIOUS
  <2>. QED
    BY <2>1, <2>2
<1>3. ASSUME NEW i \in D, NEW g \in [D -> Nat], NEW h \in [D -> Nat],
             \A j \in D : m[j] < m[i] => g[j] = h[j]
      PROVE  end(i, g) = end(i, h)
  <2>1. i <= Len(s) => g[i + 1] = h[i + 1]
    BY <1>3
  <2>2. i < Len(s) => g[i + 2] = h[i + 2]
    BY <1>3
  <2>. QED
    BY <2>1, <2>2
<1>4. LooksBelow(step, m, D, Nat)
  <2>. HIDE DEF D, m, end
  <2>1. \A g \in [D -> Nat] : step[g] \in [D -> Nat]
    BY <1>2
  <2>2. \A g \in [D -> Nat], i \in D : step[g][i] = end(i, g)
    OBVIOUS
  <2>3. step = [g \in [D -> Nat] |-> step[g]]
    OBVIOUS
  <2>. HIDE DEF step
  <2>4. step \in [[D -> Nat] -> [D -> Nat]]
    BY <2>1, <2>3
  <2>5. ASSUME NEW i \in D, NEW g \in [D -> Nat], NEW h \in [D -> Nat],
               \A j \in D : m[j] < m[i] => g[j] = h[j]
        PROVE  step[g][i] = step[h][i]
    <3>1. end(i, g) = end(i, h)
      BY <1>3, <2>5
    <3>. QED
      BY <2>2, <3>1
  <2>. QED
    BY <1>1, <2>4, <2>5 DEF LooksBelow
<1>5. PICK f \in [D -> Nat] : f = step[f]
  <2>. DEFINE V == Nat
  <2>1. V # {} /\ LooksBelow(step, m, D, V)
    <3>. HIDE DEF D, m, step
    <3>. QED
      BY <1>4
  <2>. HIDE DEF D, m, step, V
  <2>2. \E f \in [D -> V] : f = step[f]
    BY <2>1, RecursionExists
  <2>. QED
    BY <2>2 DEF V
<1>6. f = [i \in D |-> end(i, f)]
  <2>. HIDE DEF D, end
  <2>. QED
    BY <1>5
<1>7. ClosingQuote(s) = CHOOSE g : IsClosingQuote(g, s)
  BY DEF ClosingQuote, IsClosingQuote
<1>. QED
  BY <1>6, <1>7 DEF IsClosingQuote

(***************************************************************************)
(* Escapes.                                                                *)
(***************************************************************************)
\* Exactly k backslashes precede position i.
IsRun(s, i, k) ==
  /\ k \in 0..(i - 1)
  /\ \A j \in (i - k)..(i - 1) : s[j] = Backslash
  /\ i - k > 1 => s[i - k - 1] # Backslash

LEMMA RunExists ==
  ASSUME NEW s, NEW i \in Nat \ {0}
  PROVE  \E k \in 0..(i - 1) : IsRun(s, i, k)
<1>. DEFINE S == {n \in 1..i : \A j \in n..(i - 1) : s[j] = Backslash}
            n == Min(S)
<1>1. i \in S
  OBVIOUS
<1>2. n \in S /\ \A m \in S : n <= m
  <2>1. S \subseteq Nat /\ S # {}
    BY <1>1
  <2>. HIDE DEF S
  <2>. QED
    BY <2>1, MinOfNaturals
<1>. HIDE DEF n
<1>3. n > 1 => s[n - 1] # Backslash
  BY <1>2
<1>4. IsRun(s, i, i - n)
  BY <1>2, <1>3 DEF IsRun
<1>. QED
  BY <1>2, <1>4

LEMMA RunUnique ==
  ASSUME NEW s, NEW i \in Nat \ {0}, NEW k, NEW l, IsRun(s, i, k), IsRun(s, i, l)
  PROVE  k = l
BY DEF IsRun

LEMMA EscapedByRun ==
  ASSUME NEW s, NEW i \in Nat \ {0}, NEW k, IsRun(s, i, k)
  PROVE  Escaped(s, i) <=> k % 2 = 1
<1>1. Escaped(s, i) <=> \E l \in 0..(i - 1) : l % 2 = 1 /\ IsRun(s, i, l)
  BY DEF Escaped, IsRun
<1>2. k \in 0..(i - 1)
  BY DEF IsRun
<1>. QED
  BY <1>1, <1>2, RunUnique

\* A character is escaped by a backslash that is not.
LEMMA EscapedNext ==
  ASSUME NEW s, NEW i \in Nat \ {0}
  PROVE  Escaped(s, i + 1) <=> s[i] = Backslash /\ ~Escaped(s, i)
<1>1. PICK k \in 0..(i - 1) : IsRun(s, i, k)
  BY RunExists
<1>2. Escaped(s, i) <=> k % 2 = 1
  BY <1>1, EscapedByRun
<1>3. CASE s[i] = Backslash
  <2>1. IsRun(s, i + 1, k + 1)
    BY <1>1, <1>3 DEF IsRun
  <2>2. Escaped(s, i + 1) <=> (k + 1) % 2 = 1
    BY <2>1, EscapedByRun
  <2>3. (k + 1) % 2 = 1 <=> k % 2 # 1
    OBVIOUS
  <2>. QED
    BY <1>2, <1>3, <2>2, <2>3
<1>4. CASE s[i] # Backslash
  <2>1. IsRun(s, i + 1, 0)
    BY <1>4 DEF IsRun
  <2>2. Escaped(s, i + 1) <=> 0 % 2 = 1
    BY <2>1, EscapedByRun
  <2>. QED
    BY <1>4, <2>2
<1>. QED
  BY <1>3, <1>4

\* The value from i on ends at e.
EndsValue(s, i, e) ==
  /\ s[e] = Quote /\ ~Escaped(s, e)
  /\ \A k \in i..(e - 1) : s[k] \in {Quote, "]"} => Escaped(s, k)

\* A place where the reader may take a character for what it is.
Readable(s, i) ==
  i <= Len(s) /\ s[i] \in {Quote, Backslash, "]"} => ~Escaped(s, i)

LEMMA ClosingQuoteExact ==
  ASSUME NEW s \in Seq(Characters), NEW i \in 1..(Len(s) + 1), Readable(s, i)
  PROVE  /\ ClosingQuote(s)[i] \in {0} \cup i..Len(s)
         /\ \A e \in i..Len(s) : EndsValue(s, i, e) <=> ClosingQuote(s)[i] = e
<1>. DEFINE c == ClosingQuote(s)
            claim(k) == /\ c[k] \in {0} \cup k..Len(s)
                        /\ \A e \in k..Len(s) : EndsValue(s, k, e) <=> c[k] = e
            n == Len(s) + 1
            P == {k \in 1..n : Readable(s, k) => claim(k)}
<1>1. n \in Nat /\ Len(s) \in Nat /\ n = Len(s) + 1
  OBVIOUS
<1>2. \A k \in 1..n :
        c[k] = IF k > Len(s) \/ is(s, k, "]") THEN 0
               ELSE IF s[k] = Quote THEN k
               ELSE IF s[k] = Backslash /\ k < Len(s) /\ s[k + 1] \in Escapable THEN c[k + 2]
               ELSE c[k + 1]
  BY ClosingQuoteExists DEF IsClosingQuote
<1>. HIDE DEF c, n
<1>3. ASSUME NEW k \in 1..n, \A j \in (k + 1)..n : j \in P PROVE k \in P
  <2>1. SUFFICES ASSUME Readable(s, k) PROVE claim(k)
    OBVIOUS
  <2>2. CASE k > Len(s)
    BY <1>1, <1>2, <2>2
  <2>3. CASE k <= Len(s) /\ s[k] = "]"
    <3>1. c[k] = 0 /\ ~Escaped(s, k) /\ "]" # Quote
      BY <1>2, <2>1, <2>3 DEF is, Readable, Quote
    <3>2. ASSUME NEW e \in k..Len(s) PROVE ~EndsValue(s, k, e)
      BY <1>1, <3>1, <2>3 DEF EndsValue
    <3>. QED
      BY <1>1, <3>1, <3>2
  <2>4. CASE k <= Len(s) /\ s[k] = Quote
    <3>1. c[k] = k /\ ~Escaped(s, k)
      BY <1>1, <1>2, <2>1, <2>4 DEF is, Readable, Quote
    <3>2. ASSUME NEW e \in k..Len(s) PROVE EndsValue(s, k, e) <=> e = k
      BY <1>1, <3>1, <2>4 DEF EndsValue
    <3>. QED
      BY <1>1, <2>4, <3>1, <3>2
  <2>5. CASE k < Len(s) /\ s[k] = Backslash /\ s[k + 1] \in Escapable
    <3>1. c[k] = c[k + 2]
      BY <1>1, <1>2, <2>5 DEF is, Quote, Backslash
    <3>2. ~Escaped(s, k)
      BY <2>1, <2>5 DEF Readable
    <3>3. Escaped(s, k + 1)
      <4>1. k \in Nat \ {0} /\ s[k] = Backslash
        BY <2>5
      <4>. QED
        BY <3>2, <4>1, EscapedNext
    <3>4. ~Escaped(s, k + 2)
      BY <1>1, <3>3, EscapedNext
    <3>5. claim(k + 2)
      <4>1. k + 2 \in P /\ Readable(s, k + 2)
        BY <1>1, <1>3, <2>5, <3>4 DEF Readable
      <4>. QED
        BY <4>1
    <3>6. ASSUME NEW e \in k..Len(s) PROVE EndsValue(s, k, e) <=> c[k + 2] = e
      <4>1. CASE e = k
        BY <1>1, <2>5, <3>5, <4>1 DEF EndsValue, Quote, Backslash
      <4>2. CASE e = k + 1
        BY <1>1, <3>3, <3>5, <4>2 DEF EndsValue
      <4>3. CASE e >= k + 2
        <5>1. EndsValue(s, k, e) <=> EndsValue(s, k + 2, e)
          BY <1>1, <2>5, <3>3, <4>3 DEF EndsValue, Quote, Backslash
        <5>. QED
          BY <1>1, <3>5, <4>3, <5>1
      <4>. QED
        BY <1>1, <4>1, <4>2, <4>3
    <3>7. c[k] \in {0} \cup k..Len(s)
      BY <1>1, <2>5, <3>1, <3>5
    <3>. QED
      BY <3>1, <3>6, <3>7
  <2>6. CASE /\ k <= Len(s) /\ s[k] # "]" /\ s[k] # Quote
             /\ ~(k < Len(s) /\ s[k] = Backslash /\ s[k + 1] \in Escapable)
    <3>1. c[k] = c[k + 1]
      BY <1>1, <1>2, <2>6 DEF is
    <3>2. Readable(s, k + 1)
      <4>1. SUFFICES ASSUME k + 1 <= Len(s), s[k + 1] \in Escapable PROVE ~Escaped(s, k + 1)
        BY DEF Readable, Escapable
      <4>2. s[k] # Backslash
        BY <1>1, <2>6, <4>1
      <4>. QED
        BY <1>1, <4>2, EscapedNext
    <3>3. claim(k + 1)
      BY <1>1, <1>3, <2>6, <3>2
    <3>4. ASSUME NEW e \in k..Len(s) PROVE EndsValue(s, k, e) <=> c[k + 1] = e
      <4>1. CASE e = k
        BY <1>1, <2>6, <3>3, <4>1 DEF EndsValue
      <4>2. CASE e >= k + 1
        <5>1. EndsValue(s, k, e) <=> EndsValue(s, k + 1, e)
          BY <1>1, <2>6, <4>2 DEF EndsValue
        <5>. QED
          BY <1>1, <3>3, <4>2, <5>1
      <4>. QED
        BY <1>1, <4>1, <4>2
    <3>. QED
      BY <1>1, <3>1, <3>3, <3>4
  <2>. QED
    BY <1>1, <2>2, <2>3, <2>4, <2>5, <2>6
<1>4. \A k \in 1..n : k \in P
  <2>. HIDE DEF P
  <2>. QED
    BY <1>1, <1>3, DownInduction
<1>. QED
  BY <1>4 DEF c, n

LEMMA FindFacts ==
  ASSUME NEW s \in Seq(Characters), NEW i \in 1..(Len(s) + 1), NEW chars
  PROVE  /\ Find(s, i, chars) \in i..(Len(s) + 1)
         /\ Find(s, i, chars) <= Len(s) => s[Find(s, i, chars)] \in chars
         /\ \A k \in i..(Find(s, i, chars) - 1) : s[k] \notin chars
<1>. DEFINE S == {n \in i..Len(s) : s[n] \in chars} \cup {Len(s) + 1}
<1>1. Len(s) \in Nat /\ S \subseteq Nat /\ S # {}
  OBVIOUS
<1>2. Min(S) \in S /\ \A n \in S : Min(S) <= n
  <2>. HIDE DEF S
  <2>. QED
    BY <1>1, MinOfNaturals
<1>3. Find(s, i, chars) = Min(S)
  BY DEF Find
<1>. DEFINE m == Min(S)
<1>. HIDE DEF m
<1>4. m \in S /\ (\A n \in S : m <= n) /\ Find(s, i, chars) = m
  BY <1>2, <1>3 DEF m
<1>5. m \in i..(Len(s) + 1) /\ (m <= Len(s) => s[m] \in chars)
  BY <1>1, <1>4
<1>6. ASSUME NEW k \in i..(m - 1) PROVE s[k] \notin chars
  BY <1>1, <1>4, <1>5
<1>. QED
  BY <1>4, <1>5, <1>6

IsAfterParameters(after, s) ==
  after = [i \in 1..(Len(s) + 1) |->
            IF ~is(s, i, Blank) THEN i
            ELSE IF ParameterEnd(s, i) = 0 THEN 0 ELSE after[ParameterEnd(s, i) + 1]]

LEMMA ParameterExact ==
  ASSUME NEW s \in Seq(Characters), NEW i \in 1..Len(s), s[i] = Blank
  PROVE  /\ ParameterEnd(s, i) \in {0} \cup (i + 1)..Len(s)
         /\ \A j \in i..Len(s) : SD_PARAM(s, i, j) <=> ParameterEnd(s, i) = j
<1>. DEFINE n == Find(s, i + 1, {"="})
            c == ClosingQuote(s)[n + 2]
            name == sd_name(s, i + 1, n - 1)
<1>1. /\ Len(s) \in Nat
      /\ n \in (i + 1)..(Len(s) + 1)
      /\ n <= Len(s) => s[n] = "="
      /\ \A k \in (i + 1)..(n - 1) : s[k] # "="
  <2>1. i + 1 \in 1..(Len(s) + 1)
    OBVIOUS
  <2>. QED
    BY <2>1, FindFacts
<1>2. ParameterEnd(s, i) =
        LET end == IF is(s, n + 1, Quote) THEN c ELSE 0
        IN IF name /\ utf8(s, n + 2, end - 1) THEN end ELSE 0
  BY DEF ParameterEnd
<1>. HIDE DEF n
<1>3. ASSUME NEW j \in i..Len(s)
      PROVE  SD_PARAM(s, i, j) <=>
               /\ n \in (i + 2)..(j - 2) /\ name /\ s[n] = "=" /\ s[n + 1] = Quote
               /\ EndsValue(s, n + 2, j) /\ utf8(s, n + 2, j)
  <2>1. ASSUME NEW m \in (i + 2)..(j - 2), s[m] = "=", sd_name(s, i + 1, m - 1) PROVE m = n
    <3>1. \A k \in (i + 1)..(m - 1) : s[k] # "="
      BY <2>1 DEF sd_name
    <3>. QED
      BY <1>1, <2>1, <3>1
  <2>2. SD_PARAM(s, i, j) <=>
          \E m \in (i + 2)..(j - 2) :
            /\ sd_name(s, i + 1, m - 1) /\ s[m] = "=" /\ s[m + 1] = Quote
            /\ EndsValue(s, m + 2, j) /\ utf8(s, m + 2, j)
    BY DEF SD_PARAM, EndsValue
  <2>. QED
    BY <2>1, <2>2
<1>4. CASE is(s, n + 1, Quote)
  <2>1. n + 1 <= Len(s) /\ s[n + 1] = Quote /\ s[n] = "=" /\ n + 2 \in 1..(Len(s) + 1)
    BY <1>1, <1>4 DEF is
  <2>2. Readable(s, n + 2)
    <3>1. n + 1 \in Nat \ {0} /\ s[n + 1] # Backslash /\ (n + 1) + 1 = n + 2
      BY <1>1, <2>1 DEF Quote, Backslash
    <3>. QED
      BY <3>1, EscapedNext DEF Readable
  <2>3. /\ c \in {0} \cup (n + 2)..Len(s)
        /\ \A e \in (n + 2)..Len(s) : EndsValue(s, n + 2, e) <=> c = e
    BY <2>1, <2>2, ClosingQuoteExact
  <2>4. ParameterEnd(s, i) = IF name /\ utf8(s, n + 2, c - 1) THEN c ELSE 0
    BY <1>2, <1>4
  <2>5. name => n >= i + 2
    BY <1>1 DEF sd_name
  <2>. HIDE DEF c, name
  <2>6. ASSUME NEW j \in i..Len(s) PROVE SD_PARAM(s, i, j) <=> ParameterEnd(s, i) = j
    <3>1. CASE j < n + 2
      BY <1>1, <1>3, <2>3, <2>4, <3>1
    <3>2. CASE j >= n + 2
      <4>1. EndsValue(s, n + 2, j) => (utf8(s, n + 2, j) <=> utf8(s, n + 2, j - 1))
        BY <1>1, <3>2 DEF EndsValue, utf8, Quote
      <4>2. EndsValue(s, n + 2, j) <=> c = j
        BY <1>1, <2>3, <3>2
      <4>3. SD_PARAM(s, i, j) <=> name /\ EndsValue(s, n + 2, j) /\ utf8(s, n + 2, j)
        BY <1>1, <1>3, <2>1, <2>5, <3>2
      <4>. QED
        BY <2>4, <4>1, <4>2, <4>3
    <3>. QED
      BY <1>1, <3>1, <3>2
  <2>. QED
    BY <1>1, <2>3, <2>4, <2>6
<1>5. CASE ~is(s, n + 1, Quote)
  <2>1. ParameterEnd(s, i) = 0
    BY <1>2, <1>5
  <2>2. ASSUME NEW j \in i..Len(s) PROVE ~SD_PARAM(s, i, j)
    BY <1>1, <1>3, <1>5, <2>2 DEF is
  <2>. QED
    BY <2>1, <2>2
<1>. QED
  BY <1>4, <1>5

LEMMA AfterParametersExists ==
  ASSUME NEW s \in Seq(Characters)
  PROVE  IsAfterParameters(AfterParameters(s), s)
<1>. DEFINE V == Nat
            D == 1..(Len(s) + 1)
            m == [i \in D |-> Len(s) + 1 - i]
            after(i, g) == IF ~is(s, i, Blank) THEN i
                           ELSE IF ParameterEnd(s, i) = 0 THEN 0 ELSE g[ParameterEnd(s, i) + 1]
            step == [g \in [D -> V] |-> [i \in D |-> after(i, g)]]
<1>1. Len(s) \in Nat /\ \A i \in D : m[i] \in 0..Len(s)
  OBVIOUS
<1>2. ASSUME NEW i \in D, is(s, i, Blank), ParameterEnd(s, i) # 0
      PROVE  ParameterEnd(s, i) + 1 \in D /\ ParameterEnd(s, i) + 1 > i
  <2>1. i \in 1..Len(s) /\ s[i] = Blank
    BY <1>2 DEF is
  <2>2. ParameterEnd(s, i) \in (i + 1)..Len(s)
    BY <1>2, <2>1, ParameterExact
  <2>. QED
    BY <1>1, <2>2
<1>3. ASSUME NEW i \in D, NEW g \in [D -> V] PROVE after(i, g) \in V
  <2>. HIDE DEF D
  <2>. QED
    BY <1>2 DEF D
<1>4. ASSUME NEW i \in D, NEW g \in [D -> V], NEW h \in [D -> V],
             \A j \in D : m[j] < m[i] => g[j] = h[j]
      PROVE  after(i, g) = after(i, h)
  <2>1. is(s, i, Blank) /\ ParameterEnd(s, i) # 0
          => g[ParameterEnd(s, i) + 1] = h[ParameterEnd(s, i) + 1]
    BY <1>1, <1>2, <1>4
  <2>. QED
    BY <2>1
<1>5. LooksBelow(step, m, D, V)
  <2>. HIDE DEF D, m, V, after
  <2>1. \A g \in [D -> V] : step[g] \in [D -> V]
    BY <1>3
  <2>2. \A g \in [D -> V], i \in D : step[g][i] = after(i, g)
    OBVIOUS
  <2>3. step = [g \in [D -> V] |-> step[g]]
    OBVIOUS
  <2>. HIDE DEF step
  <2>4. step \in [[D -> V] -> [D -> V]]
    BY <2>1, <2>3
  <2>5. ASSUME NEW i \in D, NEW g \in [D -> V], NEW h \in [D -> V],
               \A j \in D : m[j] < m[i] => g[j] = h[j]
        PROVE  step[g][i] = step[h][i]
    BY <1>4, <2>2, <2>5
  <2>. QED
    BY <1>1, <2>4, <2>5 DEF LooksBelow
<1>6. PICK f \in [D -> V] : f = step[f]
  <2>1. V # {}
    OBVIOUS
  <2>. HIDE DEF D, m, step, V
  <2>. QED
    BY <2>1, <1>5, RecursionExists
<1>7. f = [i \in D |-> after(i, f)]
  <2>. HIDE DEF D, after, V
  <2>. QED
    BY <1>6
<1>8. AfterParameters(s) = CHOOSE g : IsAfterParameters(g, s)
  BY DEF AfterParameters, IsAfterParameters
<1>. QED
  BY <1>7, <1>8 DEF IsAfterParameters

IsParameters(params, s, j) ==
  params = [i \in 1..(j + 1) |-> i = j + 1 \/ \E n \in i..j : SD_PARAM(s, i, n) /\ params[n + 1]]

LEMMA ParametersExist ==
  ASSUME NEW s, NEW n \in Nat
  PROVE  IsParameters(SD_PARAMS(s, n), s, n)
<1>. DEFINE V == BOOLEAN
            D == 1..(n + 1)
            m == [i \in D |-> n + 1 - i]
            params(i, g) == i = n + 1 \/ \E k \in i..n : SD_PARAM(s, i, k) /\ g[k + 1]
            step == [g \in [D -> V] |-> [i \in D |-> params(i, g)]]
<1>1. \A i \in D : m[i] \in 0..n
  OBVIOUS
<1>2. ASSUME NEW i \in D, NEW g \in [D -> V] PROVE params(i, g) \in V
  OBVIOUS
<1>3. ASSUME NEW i \in D, NEW g \in [D -> V], NEW h \in [D -> V],
             \A j \in D : m[j] < m[i] => g[j] = h[j]
      PROVE  params(i, g) = params(i, h)
  <2>1. \A k \in i..n : g[k + 1] = h[k + 1]
    BY <1>3
  <2>. QED
    BY <2>1
<1>4. LooksBelow(step, m, D, V)
  <2>. HIDE DEF D, m, V, params
  <2>1. \A g \in [D -> V] : step[g] \in [D -> V]
    BY <1>2
  <2>2. \A g \in [D -> V], i \in D : step[g][i] = params(i, g)
    OBVIOUS
  <2>3. step = [g \in [D -> V] |-> step[g]]
    OBVIOUS
  <2>. HIDE DEF step
  <2>4. step \in [[D -> V] -> [D -> V]]
    BY <2>1, <2>3
  <2>5. ASSUME NEW i \in D, NEW g \in [D -> V], NEW h \in [D -> V],
               \A j \in D : m[j] < m[i] => g[j] = h[j]
        PROVE  step[g][i] = step[h][i]
    BY <1>3, <2>2, <2>5
  <2>. QED
    BY <1>1, <2>4, <2>5 DEF LooksBelow
<1>5. PICK f \in [D -> V] : f = step[f]
  <2>1. V # {}
    OBVIOUS
  <2>. HIDE DEF D, m, step, V
  <2>. QED
    BY <2>1, <1>4, RecursionExists
<1>6. f = [i \in D |-> params(i, f)]
  <2>. HIDE DEF D, params, V
  <2>. QED
    BY <1>5
<1>7. SD_PARAMS(s, n) = CHOOSE g : IsParameters(g, s, n)
  BY DEF SD_PARAMS, IsParameters
<1>8. IsParameters(f, s, n)
  BY <1>6 DEF IsParameters
<1>. QED
  BY <1>7, <1>8

LEMMA AfterParametersRange ==
  ASSUME NEW s \in Seq(Characters), NEW i \in 1..(Len(s) + 1)
  PROVE  /\ AfterParameters(s)[i] \in {0} \cup i..(Len(s) + 1)
         /\ AfterParameters(s)[i] = IF ~is(s, i, Blank) THEN i
                                    ELSE IF ParameterEnd(s, i) = 0 THEN 0
                                    ELSE AfterParameters(s)[ParameterEnd(s, i) + 1]
<1>. DEFINE n == Len(s) + 1
            after == AfterParameters(s)
            P == {k \in 1..n : after[k] \in {0} \cup k..n}
<1>1. n \in Nat /\ n = Len(s) + 1
  OBVIOUS
<1>2. \A k \in 1..n :
        after[k] = IF ~is(s, k, Blank) THEN k
                   ELSE IF ParameterEnd(s, k) = 0 THEN 0 ELSE after[ParameterEnd(s, k) + 1]
  BY AfterParametersExists DEF IsAfterParameters
<1>. HIDE DEF n, after
<1>3. ASSUME NEW k \in 1..n, \A j \in (k + 1)..n : j \in P PROVE k \in P
  <2>1. CASE is(s, k, Blank) /\ ParameterEnd(s, k) # 0
    <3>1. k \in 1..Len(s) /\ s[k] = Blank
      BY <1>1, <2>1 DEF is
    <3>2. ParameterEnd(s, k) \in (k + 1)..Len(s)
      BY <2>1, <3>1, ParameterExact
    <3>3. ParameterEnd(s, k) + 1 \in P
      BY <1>1, <1>3, <3>2
    <3>. QED
      BY <1>1, <1>2, <2>1, <3>2, <3>3
  <2>2. CASE ~(is(s, k, Blank) /\ ParameterEnd(s, k) # 0)
    BY <1>1, <1>2, <2>2
  <2>. QED
    BY <2>1, <2>2
<1>4. \A k \in 1..n : k \in P
  <2>. HIDE DEF P
  <2>. QED
    BY <1>1, <1>3, DownInduction
<1>. QED
  BY <1>2, <1>4 DEF n, after

\* Up to a closing bracket there are only parameters if they end there.
LEMMA ParametersExact ==
  ASSUME NEW s \in Seq(Characters), NEW j \in 0..(Len(s) - 1), s[j + 1] = "]",
         NEW i \in 1..(j + 1)
  PROVE  SD_PARAMS(s, j)[i] <=> AfterParameters(s)[i] = j + 1
<1>. DEFINE n == j + 1
            after == AfterParameters(s)
            params == SD_PARAMS(s, j)
            P == {k \in 1..n : params[k] <=> after[k] = n}
<1>1. n \in Nat /\ n = j + 1 /\ Len(s) \in Nat /\ n \in 1..Len(s) /\ s[n] # Blank
  BY DEF Blank
<1>2. \A k \in 1..n : params[k] <=> k = n \/ \E e \in k..j : SD_PARAM(s, k, e) /\ params[e + 1]
  <2>1. j \in Nat
    OBVIOUS
  <2>2. IsParameters(params, s, j)
    BY <2>1, ParametersExist
  <2>. HIDE DEF params
  <2>. QED
    BY <2>2 DEF IsParameters
<1>. HIDE DEF n, params
<1>3. ASSUME NEW k \in 1..n, \A l \in (k + 1)..n : l \in P PROVE k \in P
  <2>1. k \in 1..Len(s) /\ k \in 1..(Len(s) + 1)
    BY <1>1
  <2>2. CASE s[k] = Blank
    <3>. DEFINE e == ParameterEnd(s, k)
    <3>1. /\ e \in {0} \cup (k + 1)..Len(s)
          /\ \A l \in k..Len(s) : SD_PARAM(s, k, l) <=> e = l
      BY <2>1, <2>2, ParameterExact
    <3>2. after[k] = IF e = 0 THEN 0 ELSE after[e + 1]
      BY <2>1, <2>2, AfterParametersRange DEF is
    <3>3. k # n
      BY <1>1, <2>2
    <3>. HIDE DEF e
    <3>4. params[k] <=> e \in k..j /\ params[e + 1]
      <4>1. params[k] <=> \E l \in k..j : SD_PARAM(s, k, l) /\ params[l + 1]
        BY <1>2, <3>3
      <4>2. \A l \in k..j : SD_PARAM(s, k, l) <=> e = l
        BY <1>1, <3>1
      <4>. QED
        BY <4>1, <4>2
    <3>5. CASE e = 0
      BY <1>1, <2>1, <3>2, <3>4, <3>5
    <3>6. CASE e \in (k + 1)..j
      <4>1. e + 1 \in P
        BY <1>1, <1>3, <3>6
      <4>. QED
        BY <1>1, <3>2, <3>4, <3>6, <4>1
    <3>7. CASE e \in (j + 1)..Len(s)
      <4>1. e + 1 \in 1..(Len(s) + 1)
        BY <1>1, <3>7
      <4>2. after[e + 1] \in {0} \cup (e + 1)..(Len(s) + 1)
        BY <4>1, AfterParametersRange
      <4>. QED
        BY <1>1, <3>2, <3>4, <3>7, <4>2
    <3>. QED
      BY <1>1, <3>1, <3>5, <3>6, <3>7
  <2>3. CASE s[k] # Blank
    <3>1. after[k] = k
      BY <2>1, <2>3, AfterParametersRange DEF is
    <3>2. params[k] <=> k = n
      BY <1>2, <2>3 DEF SD_PARAM
    <3>. QED
      BY <3>1, <3>2
  <2>. QED
    BY <2>2, <2>3
<1>4. \A k \in 1..n : k \in P
  <2>. HIDE DEF P
  <2>. QED
    BY <1>1, <1>3, DownInduction
<1>. QED
  BY <1>4 DEF n, params

LEMMA NameEndRange ==
  ASSUME NEW s \in Seq(Characters), NEW i \in 1..Len(s)
  PROVE  /\ NameEnd(s, i) \in i..Len(s)
         /\ NameEnd(s, i) < Len(s) => s[NameEnd(s, i) + 1] \in {Blank, "]"}
         /\ \A k \in (i + 1)..NameEnd(s, i) : s[k] \notin {Blank, "]"}
<1>1. i + 1 \in 1..(Len(s) + 1)
  OBVIOUS
<1>. QED
  BY <1>1, FindFacts DEF NameEnd

LEMMA ElementExact ==
  ASSUME NEW s \in Seq(Characters), NEW i \in 1..Len(s), s[i] = "["
  PROVE  /\ ElementEnd(s, i) \in {0} \cup (i + 1)..Len(s)
         /\ \A j \in i..Len(s) :
              SD_ID(s, i, j) = IF ElementEnd(s, i) = j THEN {ElementId(s, i)} ELSE {}
<1>. DEFINE m == NameEnd(s, i)
            after == AfterParameters(s)[m + 1]
            name == sd_name(s, i + 1, m)
<1>1. /\ Len(s) \in Nat /\ m \in i..Len(s)
      /\ m < Len(s) => s[m + 1] \in {Blank, "]"}
      /\ \A k \in (i + 1)..m : s[k] \notin {Blank, "]"}
  BY NameEndRange
<1>2. after \in {0} \cup (m + 1)..(Len(s) + 1)
  <2>. HIDE DEF m
  <2>1. m + 1 \in 1..(Len(s) + 1)
    BY <1>1
  <2>. QED
    BY <2>1, AfterParametersRange
<1>3. ElementEnd(s, i) = IF name /\ after > 0 /\ is(s, after, "]") THEN after ELSE 0
  BY DEF ElementEnd
<1>4. name => m >= i + 1
  BY <1>1 DEF sd_name
<1>5. ElementId(s, i) = SubSeq(s, i + 1, m)
  BY DEF ElementId
<1>. HIDE DEF m
<1>6. ASSUME NEW j \in i..Len(s), s[j] = "]", NEW k \in (i + 1)..(j - 1),
             sd_name(s, i + 1, k), SD_PARAMS(s, j - 1)[k + 1]
      PROVE  k = m /\ after = j
  <2>1. j - 1 \in 0..(Len(s) - 1) /\ s[(j - 1) + 1] = "]" /\ k + 1 \in 1..((j - 1) + 1)
    BY <1>6
  <2>2. AfterParameters(s)[k + 1] = j
    BY <1>6, <2>1, ParametersExact
  <2>3. k + 1 \in 1..(Len(s) + 1)
    BY <2>1
  <2>4. s[k + 1] \in {Blank, "]"}
    <3>1. CASE is(s, k + 1, Blank)
      BY <3>1 DEF is
    <3>2. CASE ~is(s, k + 1, Blank)
      <4>1. AfterParameters(s)[k + 1] = k + 1
        BY <2>3, <3>2, AfterParametersRange
      <4>. QED
        BY <1>6, <2>2, <4>1
    <3>. QED
      BY <3>1, <3>2
  <2>5. \A l \in (i + 1)..k : s[l] \notin {Blank, "]"}
    BY <1>6 DEF sd_name, Printable
  <2>6. k = m
    BY <1>1, <2>1, <2>4, <2>5
  <2>. QED
    BY <2>2, <2>6
<1>7. ASSUME NEW j \in i..Len(s), s[j] = "]", name, after = j
      PROVE  m \in (i + 1)..(j - 1) /\ SD_PARAMS(s, j - 1)[m + 1]
  <2>1. m \in (i + 1)..(j - 1)
    BY <1>1, <1>2, <1>4, <1>7
  <2>2. j - 1 \in 0..(Len(s) - 1) /\ s[(j - 1) + 1] = "]" /\ m + 1 \in 1..((j - 1) + 1)
    BY <1>1, <1>7, <2>1
  <2>. QED
    BY <1>7, <2>1, <2>2, ParametersExact
<1>. HIDE DEF after
<1>8. ASSUME NEW j \in i..Len(s)
      PROVE  SD_ID(s, i, j) = IF ElementEnd(s, i) = j THEN {ElementId(s, i)} ELSE {}
  <2>. DEFINE ends(k) == s[j] = "]" /\ sd_name(s, i + 1, k) /\ SD_PARAMS(s, j - 1)[k + 1]
              Ends == {k \in (i + 1)..(j - 1) : ends(k)}
  <2>1. SD_ID(s, i, j) = {SubSeq(s, i + 1, k) : k \in Ends}
    BY DEF SD_ID
  <2>2. CASE ElementEnd(s, i) = j
    <3>1. s[j] = "]" /\ name /\ after = j
      BY <1>3, <2>2 DEF is
    <3>2. Ends = {m}
      BY <1>6, <1>7, <3>1
    <3>. QED
      BY <1>5, <2>1, <2>2, <3>2
  <2>3. CASE ElementEnd(s, i) # j
    <3>1. ~(s[j] = "]" /\ name /\ after = j)
      BY <1>3, <2>3 DEF is
    <3>2. Ends = {}
      BY <1>6, <3>1
    <3>. QED
      BY <2>1, <2>3, <3>2
  <2>. QED
    BY <2>2, <2>3
<1>9. ElementEnd(s, i) \in {0} \cup (i + 1)..Len(s)
  BY <1>1, <1>2, <1>3 DEF is
<1>. QED
  BY <1>8, <1>9

LEMMA IdsAreTexts ==
  ASSUME NEW s \in Seq(Characters), NEW i \in 1..Len(s)
  PROVE  /\ ElementId(s, i) \in Seq(Characters)
         /\ \A j \in i..Len(s) : SD_ID(s, i, j) \subseteq Seq(Characters)
         /\ s[i] # "[" => \A j \in i..Len(s) : SD_ID(s, i, j) = {}
<1>1. ASSUME NEW k \in i..Len(s) PROVE SubSeq(s, i + 1, k) \in Seq(Characters)
  <2>1. i + 1 \in 1..(Len(s) + 1) /\ k \in ((i + 1) - 1)..Len(s)
    OBVIOUS
  <2>. QED
    BY <2>1, SubSeqProperties
<1>2. NameEnd(s, i) \in i..Len(s)
  BY NameEndRange
<1>3. ASSUME NEW j \in i..Len(s) PROVE SD_ID(s, i, j) \subseteq Seq(Characters)
  <2>1. \A k \in (i + 1)..(j - 1) : k \in i..Len(s)
    OBVIOUS
  <2>. QED
    BY <1>1, <2>1 DEF SD_ID
<1>4. s[i] # "[" => \A j \in i..Len(s) : SD_ID(s, i, j) = {}
  BY DEF SD_ID
<1>. QED
  BY <1>1, <1>2, <1>3, <1>4 DEF ElementId

IsValidElements(valid, s) ==
  valid = [p \in Places(Len(s) + 1) |->
            IF ~is(s, p[1], "[") THEN p[2] # {} /\ valid_tail(s, p[1])
            ELSE /\ ElementEnd(s, p[1]) > 0 /\ ElementId(s, p[1]) \notin p[2]
                 /\ valid[<<ElementEnd(s, p[1]) + 1, p[2] \cup {ElementId(s, p[1])}>>]]

LEMMA ValidElementsExist ==
  ASSUME NEW s \in Seq(Characters)
  PROVE  IsValidElements(ValidElements(s), s)
<1>. DEFINE V == BOOLEAN
            D == Places(Len(s) + 1)
            m == [p \in D |-> Len(s) + 1 - p[1]]
            next(p) == <<ElementEnd(s, p[1]) + 1, p[2] \cup {ElementId(s, p[1])}>>
            valid(p, g) == IF ~is(s, p[1], "[") THEN p[2] # {} /\ valid_tail(s, p[1])
                           ELSE /\ ElementEnd(s, p[1]) > 0 /\ ElementId(s, p[1]) \notin p[2]
                                /\ g[next(p)]
            step == [g \in [D -> V] |-> [p \in D |-> valid(p, g)]]
<1>1. Len(s) \in Nat /\ \A p \in D : p[1] \in 1..(Len(s) + 1) /\ m[p] \in 0..Len(s)
  BY DEF Places
<1>2. ASSUME NEW p \in D, is(s, p[1], "["), ElementEnd(s, p[1]) > 0
      PROVE  next(p) \in D /\ next(p)[1] > p[1]
  <2>1. p[1] \in 1..Len(s) /\ s[p[1]] = "[" /\ p[2] \in SUBSET Seq(Characters)
    BY <1>1, <1>2 DEF is, Places
  <2>2. ElementEnd(s, p[1]) \in (p[1] + 1)..Len(s)
    BY <1>2, <2>1, ElementExact
  <2>3. ElementId(s, p[1]) \in Seq(Characters)
    BY <2>1, IdsAreTexts
  <2>. QED
    BY <1>1, <2>1, <2>2, <2>3 DEF Places
<1>3. ASSUME NEW p \in D, NEW g \in [D -> V] PROVE valid(p, g) \in V
  <2>. HIDE DEF D, next
  <2>. QED
    BY <1>2 DEF valid_tail
<1>4. ASSUME NEW p \in D, NEW g \in [D -> V], NEW h \in [D -> V],
             \A q \in D : m[q] < m[p] => g[q] = h[q]
      PROVE  valid(p, g) = valid(p, h)
  <2>1. is(s, p[1], "[") /\ ElementEnd(s, p[1]) > 0 => m[next(p)] < m[p] /\ next(p) \in D
    <3>1. \A q \in D : m[q] = Len(s) + 1 - q[1]
      OBVIOUS
    <3>. HIDE DEF m, D, next
    <3>. QED
      BY <1>1, <1>2, <3>1
  <2>2. is(s, p[1], "[") /\ ElementEnd(s, p[1]) > 0 => g[next(p)] = h[next(p)]
    <3>. HIDE DEF D, m, next
    <3>. QED
      BY <1>4, <2>1
  <2>. HIDE DEF D, m, next
  <2>. QED
    BY <2>2
<1>5. LooksBelow(step, m, D, V)
  <2>. HIDE DEF D, m, V, valid
  <2>1. \A g \in [D -> V] : step[g] \in [D -> V]
    BY <1>3
  <2>2. \A g \in [D -> V], p \in D : step[g][p] = valid(p, g)
    OBVIOUS
  <2>3. step = [g \in [D -> V] |-> step[g]]
    OBVIOUS
  <2>. HIDE DEF step
  <2>4. step \in [[D -> V] -> [D -> V]]
    BY <2>1, <2>3
  <2>5. ASSUME NEW p \in D, NEW g \in [D -> V], NEW h \in [D -> V],
               \A q \in D : m[q] < m[p] => g[q] = h[q]
        PROVE  step[g][p] = step[h][p]
    BY <1>4, <2>2, <2>5
  <2>. QED
    BY <1>1, <2>4, <2>5 DEF LooksBelow
<1>6. PICK f \in [D -> V] : f = step[f]
  <2>1. V # {}
    OBVIOUS
  <2>. HIDE DEF D, m, step, V
  <2>. QED
    BY <2>1, <1>5, RecursionExists
<1>7. f = [p \in D |-> valid(p, f)]
  <2>. HIDE DEF D, valid, V
  <2>. QED
    BY <1>6
<1>8. IsValidElements(f, s)
  BY <1>7 DEF IsValidElements
<1>9. ValidElements(s) = CHOOSE g : IsValidElements(g, s)
  BY DEF ValidElements, IsValidElements
<1>. QED
  BY <1>8, <1>9

IsElements(elements, s, j) ==
  elements = [p \in Places(j + 1) |->
               \/ p[1] = j + 1 /\ p[2] # {}
               \/ \E n \in p[1]..j :
                    \E id \in SD_ID(s, p[1], n) \ p[2] : elements[<<n + 1, p[2] \cup {id}>>]]

LEMMA ElementsExist ==
  ASSUME NEW s \in Seq(Characters), NEW j \in 0..Len(s)
  PROVE  IsElements(SD_ELEMENTS(s, j), s, j)
<1>. DEFINE V == BOOLEAN
            D == Places(j + 1)
            m == [p \in D |-> j + 1 - p[1]]
            elements(p, g) == \/ p[1] = j + 1 /\ p[2] # {}
                              \/ \E n \in p[1]..j :
                                   \E id \in SD_ID(s, p[1], n) \ p[2] : g[<<n + 1, p[2] \cup {id}>>]
            step == [g \in [D -> V] |-> [p \in D |-> elements(p, g)]]
<1>1. j \in Nat /\ \A p \in D : p[1] \in 1..(j + 1) /\ m[p] \in 0..j
  BY DEF Places
<1>2. ASSUME NEW p \in D, NEW n \in p[1]..j, NEW id \in SD_ID(s, p[1], n)
      PROVE  <<n + 1, p[2] \cup {id}>> \in D /\ m[<<n + 1, p[2] \cup {id}>>] < m[p]
  <2>1. p[1] \in 1..Len(s) /\ n \in p[1]..Len(s) /\ p[2] \in SUBSET Seq(Characters)
    BY <1>1 DEF Places
  <2>2. id \in Seq(Characters)
    BY <2>1, IdsAreTexts
  <2>3. <<n + 1, p[2] \cup {id}>> \in D
    BY <1>1, <2>1, <2>2 DEF Places
  <2>. QED
    BY <1>1, <2>3
<1>3. ASSUME NEW p \in D, NEW g \in [D -> V] PROVE elements(p, g) \in V
  OBVIOUS
<1>4. ASSUME NEW p \in D, NEW g \in [D -> V], NEW h \in [D -> V],
             \A q \in D : m[q] < m[p] => g[q] = h[q]
      PROVE  elements(p, g) = elements(p, h)
  <2>1. \A n \in p[1]..j : \A id \in SD_ID(s, p[1], n) :
          g[<<n + 1, p[2] \cup {id}>>] = h[<<n + 1, p[2] \cup {id}>>]
    <3>. HIDE DEF D, m
    <3>. QED
      BY <1>2, <1>4
  <2>. HIDE DEF D, m
  <2>. QED
    BY <2>1
<1>5. LooksBelow(step, m, D, V)
  <2>. HIDE DEF D, m, V, elements
  <2>1. \A g \in [D -> V] : step[g] \in [D -> V]
    BY <1>3
  <2>2. \A g \in [D -> V], p \in D : step[g][p] = elements(p, g)
    OBVIOUS
  <2>3. step = [g \in [D -> V] |-> step[g]]
    OBVIOUS
  <2>. HIDE DEF step
  <2>4. step \in [[D -> V] -> [D -> V]]
    BY <2>1, <2>3
  <2>5. ASSUME NEW p \in D, NEW g \in [D -> V], NEW h \in [D -> V],
               \A q \in D : m[q] < m[p] => g[q] = h[q]
        PROVE  step[g][p] = step[h][p]
    BY <1>4, <2>2, <2>5
  <2>. QED
    BY <1>1, <2>4, <2>5 DEF LooksBelow
<1>6. PICK f \in [D -> V] : f = step[f]
  <2>1. V # {}
    OBVIOUS
  <2>. HIDE DEF D, m, step, V
  <2>. QED
    BY <2>1, <1>5, RecursionExists
<1>7. f = [p \in D |-> elements(p, f)]
  <2>. HIDE DEF D, elements, V
  <2>. QED
    BY <1>6
<1>8. IsElements(f, s, j)
  BY <1>7 DEF IsElements
<1>9. SD_ELEMENTS(s, j) = CHOOSE g : IsElements(g, s, j)
  BY DEF SD_ELEMENTS, IsElements
<1>. QED
  BY <1>8, <1>9

\* What may follow structured data that ends at n.
TailFits(s, n) ==
  \/ n = Len(s)
  \/ s[n + 1] = Blank /\ (n + 1 < Len(s) /\ s[n + 2] = "BOM" => utf8(s, n + 2, Len(s)))

LEMMA TailExact ==
  ASSUME NEW s \in Seq(Characters), NEW n \in 0..Len(s)
  PROVE  valid_tail(s, n + 1) <=> TailFits(s, n)
<1>1. CASE n = Len(s)
  BY <1>1 DEF valid_tail, TailFits
<1>2. CASE n < Len(s)
  <2>1. n + 1 <= Len(s) /\ n # Len(s) /\ (n + 1) + 1 = n + 2 /\ (n + 2 <= Len(s) <=> n + 1 < Len(s))
    BY <1>2
  <2>. QED
    BY <2>1 DEF valid_tail, TailFits, is
<1>. QED
  BY <1>1, <1>2

LEMMA ElementsExact ==
  ASSUME NEW s \in Seq(Characters), NEW i \in 1..(Len(s) + 1),
         NEW ids \in SUBSET Seq(Characters)
  PROVE  ValidElements(s)[<<i, ids>>]
           <=> \E n \in (i - 1)..Len(s) : SD_ELEMENTS(s, n)[<<i, ids>>] /\ TailFits(s, n)
<1>. DEFINE N == Len(s) + 1
            Ids == SUBSET Seq(Characters)
            valid == ValidElements(s)
            grammar(k, x) ==
              \E n \in (k - 1)..Len(s) : SD_ELEMENTS(s, n)[<<k, x>>] /\ TailFits(s, n)
            P == {k \in 1..N : \A x \in Ids : valid[<<k, x>>] <=> grammar(k, x)}
<1>1. Len(s) \in Nat /\ N \in Nat /\ N = Len(s) + 1
  OBVIOUS
<1>2. ASSUME NEW k \in 1..N, NEW x \in Ids
      PROVE  valid[<<k, x>>] <=>
               IF ~is(s, k, "[") THEN x # {} /\ valid_tail(s, k)
               ELSE /\ ElementEnd(s, k) > 0 /\ ElementId(s, k) \notin x
                    /\ valid[<<ElementEnd(s, k) + 1, x \cup {ElementId(s, k)}>>]
  <2>1. IsValidElements(valid, s)
    BY ValidElementsExist
  <2>2. <<k, x>> \in Places(Len(s) + 1) /\ <<k, x>>[1] = k /\ <<k, x>>[2] = x
    BY DEF Places
  <2>. HIDE DEF valid
  <2>. QED
    BY <2>1, <2>2 DEF IsValidElements
<1>3. ASSUME NEW k \in 1..N, NEW x \in Ids, NEW n \in (k - 1)..Len(s)
      PROVE  SD_ELEMENTS(s, n)[<<k, x>>] <=>
               \/ k = n + 1 /\ x # {}
               \/ \E l \in k..n :
                    \E id \in SD_ID(s, k, l) \ x : SD_ELEMENTS(s, n)[<<l + 1, x \cup {id}>>]
  <2>1. n \in 0..Len(s)
    BY <1>1
  <2>2. IsElements(SD_ELEMENTS(s, n), s, n)
    BY <2>1, ElementsExist
  <2>3. <<k, x>> \in Places(n + 1) /\ <<k, x>>[1] = k /\ <<k, x>>[2] = x
    BY <1>1 DEF Places
  <2>. QED
    BY <2>2, <2>3 DEF IsElements
<1>. HIDE DEF N, valid
<1>4. ASSUME NEW k \in 1..N, \A l \in (k + 1)..N : l \in P PROVE k \in P
  <2>1. SUFFICES ASSUME NEW x \in Ids PROVE valid[<<k, x>>] <=> grammar(k, x)
    OBVIOUS
  <2>2. CASE ~is(s, k, "[")
    <3>1. \A n \in k..Len(s) : \A l \in k..n : SD_ID(s, k, l) = {}
      <4>1. SUFFICES ASSUME NEW n \in k..Len(s), NEW l \in k..n PROVE SD_ID(s, k, l) = {}
        OBVIOUS
      <4>2. k \in 1..Len(s) /\ s[k] # "[" /\ l \in k..Len(s)
        BY <1>1, <2>2 DEF is
      <4>. QED
        BY <4>2, IdsAreTexts
    <3>2. \A n \in (k - 1)..Len(s) : SD_ELEMENTS(s, n)[<<k, x>>] <=> k = n + 1 /\ x # {}
      <4>1. SUFFICES ASSUME NEW n \in (k - 1)..Len(s)
                     PROVE  SD_ELEMENTS(s, n)[<<k, x>>] <=> k = n + 1 /\ x # {}
        OBVIOUS
      <4>2. ~\E l \in k..n : \E id \in SD_ID(s, k, l) \ x : SD_ELEMENTS(s, n)[<<l + 1, x \cup {id}>>]
        <5>1. ASSUME NEW l \in k..n PROVE SD_ID(s, k, l) = {}
          <6>1. n \in k..Len(s)
            BY <1>1, <5>1
          <6>. QED
            BY <3>1, <5>1, <6>1
        <5>. QED
          BY <5>1
      <4>. QED
        BY <1>3, <4>2
    <3>3. k - 1 \in 0..Len(s) /\ k - 1 \in (k - 1)..Len(s) /\ (k - 1) + 1 = k
      BY <1>1
    <3>4. valid_tail(s, k) <=> TailFits(s, k - 1)
      BY <3>3, TailExact
    <3>5. grammar(k, x) <=> x # {} /\ TailFits(s, k - 1)
      <4>1. \A n \in (k - 1)..Len(s) : k = n + 1 <=> n = k - 1
        BY <1>1
      <4>. QED
        BY <3>2, <3>3, <4>1
    <3>6. valid[<<k, x>>] <=> x # {} /\ valid_tail(s, k)
      BY <1>2, <2>2
    <3>. QED
      BY <3>4, <3>5, <3>6
  <2>3. CASE is(s, k, "[")
    <3>. DEFINE e == ElementEnd(s, k)
                id == ElementId(s, k)
    <3>1. k \in 1..Len(s) /\ s[k] = "["
      BY <1>1, <2>3 DEF is
    <3>2. /\ e \in {0} \cup (k + 1)..Len(s)
          /\ \A l \in k..Len(s) : SD_ID(s, k, l) = IF e = l THEN {id} ELSE {}
      BY <3>1, ElementExact
    <3>3. id \in Seq(Characters)
      BY <3>1, IdsAreTexts
    <3>. HIDE DEF e, id
    <3>4. ASSUME NEW n \in (k - 1)..Len(s), TailFits(s, n) PROVE n # k - 1
      BY <1>1, <3>1, <3>4 DEF TailFits, Blank
    <3>5. ASSUME NEW n \in k..Len(s)
          PROVE  SD_ELEMENTS(s, n)[<<k, x>>] <=>
                   e \in k..n /\ id \notin x /\ SD_ELEMENTS(s, n)[<<e + 1, x \cup {id}>>]
      <4>1. n \in (k - 1)..Len(s) /\ k # n + 1 /\ \A l \in k..n : l \in k..Len(s)
        BY <1>1
      <4>2. SD_ELEMENTS(s, n)[<<k, x>>] <=>
              \E l \in k..n :
                \E d \in SD_ID(s, k, l) \ x : SD_ELEMENTS(s, n)[<<l + 1, x \cup {d}>>]
        BY <1>3, <4>1
      <4>3. \A l \in k..n : SD_ID(s, k, l) = IF e = l THEN {id} ELSE {}
        BY <3>2, <4>1
      <4>. QED
        BY <4>2, <4>3
    <3>6. grammar(k, x) <=>
            \E n \in k..Len(s) :
              /\ e \in k..n /\ id \notin x /\ SD_ELEMENTS(s, n)[<<e + 1, x \cup {id}>>]
              /\ TailFits(s, n)
      <4>1. \A n : n \in k..Len(s) <=> n \in (k - 1)..Len(s) /\ n # k - 1
        BY <1>1
      <4>. QED
        BY <3>4, <3>5, <4>1
    <3>7. valid[<<k, x>>] <=> e > 0 /\ id \notin x /\ valid[<<e + 1, x \cup {id}>>]
      BY <1>2, <2>3 DEF e, id
    <3>8. CASE e = 0
      <4>1. k >= 1
        BY <3>1
      <4>2. ~(e > 0)
        BY <3>8
      <4>3. ASSUME NEW n \in k..Len(s) PROVE e \notin k..n
        <5>. HIDE DEF grammar
        <5>1. n \in Nat
          BY <1>1, <3>1
        <5>. QED
          BY <3>1, <3>8, <4>1, <5>1
      <4>. HIDE DEF grammar
      <4>. QED
        BY <3>6, <3>7, <4>2, <4>3
    <3>9. CASE e # 0
      <4>1. e \in (k + 1)..Len(s)
        BY <3>2, <3>9
      <4>2. e + 1 \in (k + 1)..N
        BY <1>1, <4>1
      <4>3. valid[<<e + 1, x \cup {id}>>] <=> grammar(e + 1, x \cup {id})
        <5>. HIDE DEF grammar
        <5>1. e + 1 \in P
          BY <1>4, <4>2
        <5>2. x \cup {id} \in Ids
          BY <3>3
        <5>. QED
          BY <5>1, <5>2
      <4>4. grammar(e + 1, x \cup {id}) <=>
              \E n \in e..Len(s) : SD_ELEMENTS(s, n)[<<e + 1, x \cup {id}>>] /\ TailFits(s, n)
        <5>1. (e + 1) - 1 = e
          BY <4>1
        <5>. QED
          BY <5>1
      <4>5. \A n : n \in e..Len(s) <=> n \in k..Len(s) /\ e \in k..n
        BY <1>1, <4>1
      <4>. HIDE DEF grammar
      <4>6. e > 0
        BY <1>1, <4>1
      <4>. QED
        BY <3>6, <3>7, <4>3, <4>4, <4>5, <4>6
    <3>. QED
      BY <3>8, <3>9
  <2>. QED
    BY <2>2, <2>3
<1>5. \A k \in 1..N : k \in P
  <2>. HIDE DEF P
  <2>. QED
    BY <1>1, <1>4, DownInduction
<1>. QED
  BY <1>5 DEF N, valid

\* Every text is accepted by the reader if the grammar derives it.
LEMMA DataExact ==
  ASSUME NEW s \in Seq(Characters)
  PROVE  ValidRest(s) <=> STRUCTURED_DATA(s)
<1>1. Len(s) \in Nat
  OBVIOUS
<1>2. STRUCTURED_DATA(s) <=>
        \E n \in 1..Len(s) :
          ((n = 1 /\ s[1] = "-") \/ SD_ELEMENTS(s, n)[<<1, {}>>]) /\ TailFits(s, n)
  BY DEF STRUCTURED_DATA, TailFits
<1>3. ASSUME NEW n \in 0..Len(s)
      PROVE  SD_ELEMENTS(s, n)[<<1, {}>>] => n >= 1 /\ s[1] = "["
  <2>1. <<1, {}>> \in Places(n + 1) /\ <<1, {}>>[1] = 1 /\ <<1, {}>>[2] = {}
    BY <1>1 DEF Places
  <2>2. SD_ELEMENTS(s, n)[<<1, {}>>] => \E l \in 1..n : SD_ID(s, 1, l) # {}
    <3>1. SD_ELEMENTS(s, n)[<<1, {}>>] <=>
            \/ 1 = n + 1 /\ {} # {}
            \/ \E l \in 1..n :
                 \E id \in SD_ID(s, 1, l) \ {} : SD_ELEMENTS(s, n)[<<l + 1, {} \cup {id}>>]
      <4>1. IsElements(SD_ELEMENTS(s, n), s, n)
        BY ElementsExist
      <4>. QED
        BY <2>1, <4>1 DEF IsElements
    <3>. QED
      BY <3>1
  <2>3. (\E l \in 1..n : SD_ID(s, 1, l) # {}) => n >= 1
    BY <1>1
  <2>. QED
    BY <2>2, <2>3 DEF SD_ID
<1>4. CASE is(s, 1, "-")
  <2>1. s[1] = "-" /\ 1 \in 1..Len(s) /\ s[1] # "["
    BY <1>1, <1>4 DEF is
  <2>2. ValidRest(s) <=> TailFits(s, 1)
    <3>1. valid_tail(s, 1 + 1) <=> TailFits(s, 1)
      BY <1>1, <2>1, TailExact
    <3>. QED
      BY <1>4, <3>1 DEF ValidRest
  <2>3. \A n \in 1..Len(s) : ~SD_ELEMENTS(s, n)[<<1, {}>>]
    BY <1>1, <1>3, <2>1
  <2>. QED
    BY <1>2, <2>1, <2>2, <2>3
<1>5. CASE ~is(s, 1, "-")
  <2>1. 1 \in 1..(Len(s) + 1) /\ {} \in SUBSET Seq(Characters) /\ 1 - 1 = 0
    BY <1>1
  <2>2. ValidRest(s)
          <=> \E n \in 0..Len(s) : SD_ELEMENTS(s, n)[<<1, {}>>] /\ TailFits(s, n)
    BY <1>5, <2>1, ElementsExact DEF ValidRest
  <2>3. \A n \in 1..Len(s) : ~(n = 1 /\ s[1] = "-")
    BY <1>1, <1>5 DEF is
  <2>4. \A n \in 0..Len(s) : SD_ELEMENTS(s, n)[<<1, {}>>] => n \in 1..Len(s)
    BY <1>1, <1>3
  <2>5. 1..Len(s) \subseteq 0..Len(s)
    BY <1>1
  <2>. QED
    BY <1>2, <2>2, <2>3, <2>4, <2>5
<1>. QED
  BY <1>4, <1>5

(***************************************************************************)
(* The priority.                                                           *)
(***************************************************************************)
IsValue(value, p) ==
  value = [i \in 0..Len(p) |-> IF i = 0 THEN 0 ELSE 10 * value[i - 1] + p[i]]

LEMMA ValueExists ==
  ASSUME NEW p, Len(p) \in Nat, \A i \in 1..Len(p) : p[i] \in Nat
  PROVE  \E f : IsValue(f, p) /\ Value(p) = f[Len(p)]
<1>. DEFINE V == Nat
            D == 0..Len(p)
            m == [i \in D |-> i]
            value(i, g) == IF i = 0 THEN 0 ELSE 10 * g[i - 1] + p[i]
            step == [g \in [D -> V] |-> [i \in D |-> value(i, g)]]
<1>1. \A i \in D : m[i] \in 0..Len(p)
  OBVIOUS
<1>2. ASSUME NEW i \in D, NEW g \in [D -> V] PROVE value(i, g) \in V
  <2>1. i # 0 => i \in 1..Len(p) /\ i - 1 \in D
    OBVIOUS
  <2>2. i # 0 => g[i - 1] \in Nat /\ p[i] \in Nat
    <3>. HIDE DEF D
    <3>. QED
      BY <2>1
  <2>3. \A x, y \in Nat : 10 * x + y \in Nat
    OBVIOUS
  <2>. QED
    BY <2>2, <2>3
<1>3. ASSUME NEW i \in D, NEW g \in [D -> V], NEW h \in [D -> V],
             \A j \in D : m[j] < m[i] => g[j] = h[j]
      PROVE  value(i, g) = value(i, h)
  <2>1. i # 0 => g[i - 1] = h[i - 1]
    BY <1>3
  <2>. QED
    BY <2>1
<1>4. LooksBelow(step, m, D, V)
  <2>. HIDE DEF D, m, V, value
  <2>1. \A g \in [D -> V] : step[g] \in [D -> V]
    BY <1>2
  <2>2. \A g \in [D -> V], i \in D : step[g][i] = value(i, g)
    OBVIOUS
  <2>3. step = [g \in [D -> V] |-> step[g]]
    OBVIOUS
  <2>. HIDE DEF step
  <2>4. step \in [[D -> V] -> [D -> V]]
    BY <2>1, <2>3
  <2>5. ASSUME NEW i \in D, NEW g \in [D -> V], NEW h \in [D -> V],
               \A j \in D : m[j] < m[i] => g[j] = h[j]
        PROVE  step[g][i] = step[h][i]
    BY <1>3, <2>2, <2>5
  <2>. QED
    BY <1>1, <2>4, <2>5 DEF LooksBelow
<1>5. PICK f \in [D -> V] : f = step[f]
  <2>1. V # {}
    OBVIOUS
  <2>. HIDE DEF D, m, step, V
  <2>. QED
    BY <2>1, <1>4, RecursionExists
<1>6. f = [i \in D |-> value(i, f)]
  <2>. HIDE DEF D, value, V
  <2>. QED
    BY <1>5
<1>7. IsValue(f, p)
  BY <1>6 DEF IsValue
<1>8. Value(p) = (CHOOSE g : IsValue(g, p))[Len(p)]
  BY DEF Value, IsValue
<1>. QED
  BY <1>7, <1>8

LEMMA ValueOfDigits ==
  ASSUME NEW p, Len(p) \in 1..3, \A i \in 1..Len(p) : p[i] \in Nat
  PROVE  /\ Len(p) = 1 => Value(p) = p[1]
         /\ Len(p) = 2 => Value(p) = 10 * p[1] + p[2]
         /\ Len(p) = 3 => Value(p) = 10 * (10 * p[1] + p[2]) + p[3]
<1>1. PICK f : IsValue(f, p) /\ Value(p) = f[Len(p)]
  BY ValueExists
<1>2. f[0] = 0 /\ \A i \in 1..Len(p) : f[i] = 10 * f[i - 1] + p[i]
  <2>1. \A i \in 0..Len(p) : f[i] = IF i = 0 THEN 0 ELSE 10 * f[i - 1] + p[i]
    BY <1>1 DEF IsValue
  <2>. QED
    BY <2>1
<1>3. f[1] = p[1] /\ p[1] \in Nat
  <2>1. 1 \in 1..Len(p)
    <3>1. \A l \in 1..3 : 1 \in 1..l
      OBVIOUS
    <3>. QED
      BY <3>1
  <2>2. p[1] \in Nat
    BY <2>1
  <2>3. f[1] = 10 * f[0] + p[1]
    BY <1>2, <2>1
  <2>. QED
    BY <1>2, <2>2, <2>3
<1>4. Len(p) \in 2..3 => f[2] = 10 * p[1] + p[2]
  <2>1. Len(p) \in 2..3 => 2 \in 1..Len(p) /\ 2 - 1 = 1
    OBVIOUS
  <2>. QED
    BY <1>2, <1>3, <2>1
<1>5. Len(p) = 3 => f[3] = 10 * (10 * p[1] + p[2]) + p[3]
  <2>1. Len(p) = 3 => 3 \in 1..Len(p) /\ 3 - 1 = 2 /\ Len(p) \in 2..3
    OBVIOUS
  <2>. QED
    BY <1>2, <1>4, <2>1
<1>6. 2 \in 2..3
  OBVIOUS
<1>. QED
  BY <1>1, <1>3, <1>4, <1>5, <1>6, Zenon

LEMMA DecimalOfOne == ASSUME NEW a \in 0..9 PROVE a \in 0..191 /\ Decimal(a) = <<a>>
BY DEF Decimal

LEMMA DecimalOfTwo ==
  ASSUME NEW a \in 1..9, NEW b \in 0..9
  PROVE  10 * a + b \in 0..191 /\ Decimal(10 * a + b) = <<a, b>>
<1>1. PICK n \in 10..99 : n = 10 * a + b
  OBVIOUS
<1>2. n \div 10 = a /\ n % 10 = b
  BY <1>1
<1>3. ~(n < 10) /\ n < 100 /\ n \in 0..191
  OBVIOUS
<1>. QED
  BY <1>1, <1>2, <1>3 DEF Decimal

LEMMA DecimalOfThree ==
  ASSUME NEW a \in 1..9, NEW b \in 0..9, NEW c \in 0..9
  PROVE  Decimal(10 * (10 * a + b) + c) = <<a, b, c>>
<1>1. PICK n \in 100..999 : n = 10 * (10 * a + b) + c
  OBVIOUS
<1>2. n % 10 = c /\ n \div 10 = 10 * a + b /\ n \div 100 = a
  BY <1>1
<1>3. (n \div 10) % 10 = b
  BY <1>2
<1>4. ~(n < 10) /\ ~(n < 100)
  OBVIOUS
<1>. QED
  BY <1>1, <1>2, <1>3, <1>4 DEF Decimal

\* The digits of a number and no other text of digits have its value.
LEMMA DigitsOf ==
  ASSUME NEW n \in 0..999
  PROVE  \/ n \in 0..9
         \/ \E a \in 1..9, b \in 0..9 : n = 10 * a + b
         \/ \E a \in 1..9, b, c \in 0..9 : n = 10 * (10 * a + b) + c
<1>. DEFINE m == n \div 10
            c == n % 10
<1>1. m \in 0..99 /\ c \in 0..9 /\ n = 10 * m + c
  OBVIOUS
<1>2. ASSUME NEW k \in 0..99 PROVE \E a \in 0..9, b \in 0..9 : k = 10 * a + b
  <2>1. k \div 10 \in 0..9 /\ k % 10 \in 0..9 /\ k = 10 * (k \div 10) + (k % 10)
    OBVIOUS
  <2>. QED
    BY <2>1
<1>3. PICK a \in 0..9, b \in 0..9 : m = 10 * a + b
  <2>. HIDE DEF m
  <2>. QED
    BY <1>1, <1>2
<1>. HIDE DEF m, c
<1>4. CASE m = 0
  BY <1>1, <1>4
<1>5. CASE m \in 1..9
  BY <1>1, <1>5
<1>6. CASE m \in 10..99
  <2>1. a \in 1..9
    BY <1>3, <1>6
  <2>2. n = 10 * (10 * a + b) + c
    BY <1>1, <1>3
  <2>. QED
    BY <1>1, <2>1, <2>2
<1>. QED
  BY <1>1, <1>4, <1>5, <1>6

LEMMA PriorityExact ==
  ASSUME NEW p \in Seq(Digits \cup {NoDigit})
  PROVE  ValidPri(p) <=> p \in PRIVAL
<1>1. Len(p) \in Nat /\ DOMAIN p = 1..Len(p) /\ (p # <<>> <=> Len(p) > 0)
  OBVIOUS
<1>2. \A i \in 1..Len(p) : p[i] \in Nat
  <2>1. \A i \in 1..Len(p) : p[i] \in Digits \cup {NoDigit}
    OBVIOUS
  <2>. QED
    BY <2>1 DEF Digits, NoDigit
<1>3. ValidPri(p) <=>
        /\ Len(p) \in 1..3 /\ \A i \in 1..Len(p) : p[i] \in 0..9
        /\ Len(p) > 1 => p[1] # 0
        /\ Value(p) <= 191
  <2>1. ToSet(p) \subseteq Digits <=> \A i \in 1..Len(p) : p[i] \in 0..9
    BY <1>1 DEF ToSet, Digits
  <2>2. Len(p) > 0 /\ Len(p) <= 3 <=> Len(p) \in 1..3
    BY <1>1
  <2>. QED
    BY <1>1, <2>1, <2>2 DEF ValidPri
<1>4. ASSUME ValidPri(p) PROVE p \in PRIVAL
  <2>1. /\ Len(p) \in 1..3 /\ \A i \in 1..Len(p) : p[i] \in 0..9
        /\ Len(p) > 1 => p[1] # 0
        /\ Value(p) <= 191
    BY <1>3, <1>4
  <2>2. CASE Len(p) = 1
    <3>1. p = <<p[1]>>
      BY <2>2
    <3>2. p[1] \in 0..9
      BY <2>1, <2>2
    <3>. QED
      BY <3>1, <3>2, DecimalOfOne DEF PRIVAL
  <2>3. CASE Len(p) = 2
    <3>1. p = <<p[1], p[2]>>
      BY <2>3
    <3>2. p[1] \in 1..9 /\ p[2] \in 0..9
      <4>1. 1 \in 1..Len(p) /\ 2 \in 1..Len(p) /\ Len(p) > 1
        BY <2>3
      <4>2. p[1] \in 0..9 /\ p[1] # 0 /\ p[2] \in 0..9
        BY <2>1, <4>1
      <4>. QED
        BY <4>2
    <3>3. 10 * p[1] + p[2] \in 0..191 /\ Decimal(10 * p[1] + p[2]) = p
      BY <3>1, <3>2, DecimalOfTwo
    <3>. QED
      BY <3>3 DEF PRIVAL
  <2>4. CASE Len(p) = 3
    <3>1. p = <<p[1], p[2], p[3]>>
      BY <2>4
    <3>2. p[1] \in 1..9 /\ p[2] \in 0..9 /\ p[3] \in 0..9
      <4>1. 1 \in 1..Len(p) /\ 2 \in 1..Len(p) /\ 3 \in 1..Len(p) /\ Len(p) > 1
        BY <2>4
      <4>2. p[1] \in 0..9 /\ p[1] # 0 /\ p[2] \in 0..9 /\ p[3] \in 0..9
        BY <2>1, <4>1
      <4>. QED
        BY <4>2
    <3>. DEFINE n == 10 * (10 * p[1] + p[2]) + p[3]
    <3>3. Value(p) = n
      BY <1>2, <2>1, <2>4, ValueOfDigits
    <3>4. n \in Nat
      <4>1. \A a \in 1..9, b, c \in 0..9 : 10 * (10 * a + b) + c \in Nat
        OBVIOUS
      <4>. QED
        BY <3>2, <4>1
    <3>5. Decimal(n) = p
      BY <3>1, <3>2, DecimalOfThree
    <3>. HIDE DEF n
    <3>6. n \in 0..191
      BY <2>1, <3>3, <3>4
    <3>. QED
      BY <3>5, <3>6 DEF PRIVAL
  <2>. QED
    BY <2>1, <2>2, <2>3, <2>4
<1>5. ASSUME p \in PRIVAL PROVE ValidPri(p)
  <2>1. PICK n \in 0..191 : p = Decimal(n)
    BY <1>5 DEF PRIVAL
  <2>2. n \in 0..999
    OBVIOUS
  <2>3. CASE n \in 0..9
    <3>1. p = <<n>>
      BY <2>1, <2>3, DecimalOfOne
    <3>2. Len(p) = 1 /\ p[1] = n
      BY <3>1
    <3>3. Len(p) \in 1..3 /\ Value(p) = n
      BY <1>2, <3>2, ValueOfDigits
    <3>4. \A i \in 1..Len(p) : p[i] \in 0..9
      BY <2>3, <3>2
    <3>. QED
      BY <1>3, <3>2, <3>3, <3>4
  <2>4. ASSUME NEW a \in 1..9, NEW b \in 0..9, n = 10 * a + b PROVE ValidPri(p)
    <3>1. p = <<a, b>>
      BY <2>1, <2>4, DecimalOfTwo
    <3>2. Len(p) = 2 /\ p[1] = a /\ p[2] = b
      BY <3>1
    <3>3. Len(p) \in 1..3 /\ Value(p) = n
      BY <1>2, <2>4, <3>2, ValueOfDigits
    <3>4. \A i \in 1..Len(p) : p[i] \in 0..9
      <4>1. \A i \in 1..Len(p) : i = 1 \/ i = 2
        BY <3>2
      <4>. QED
        BY <3>2, <4>1
    <3>. QED
      BY <1>3, <3>2, <3>3, <3>4
  <2>5. ASSUME NEW a \in 1..9, NEW b \in 0..9, NEW c \in 0..9, n = 10 * (10 * a + b) + c
        PROVE  ValidPri(p)
    <3>1. p = <<a, b, c>>
      <4>1. Decimal(10 * (10 * a + b) + c) = <<a, b, c>>
        BY DecimalOfThree
      <4>. QED
        BY <2>1, <2>5, <4>1
    <3>2. Len(p) = 3 /\ p[1] = a /\ p[2] = b /\ p[3] = c
      BY <3>1
    <3>3. Len(p) \in 1..3 /\ Value(p) = n
      <4>1. Len(p) \in 1..3
        BY <3>2
      <4>2. Value(p) = 10 * (10 * p[1] + p[2]) + p[3]
        BY <1>2, <3>2, <4>1, ValueOfDigits
      <4>. QED
        BY <2>5, <3>2, <4>1, <4>2
    <3>4. \A i \in 1..Len(p) : p[i] \in 0..9
      <4>1. SUFFICES ASSUME NEW i \in 1..Len(p) PROVE p[i] \in 0..9
        OBVIOUS
      <4>2. p[1] \in 0..9 /\ p[2] \in 0..9 /\ p[3] \in 0..9
        <5>1. \A d \in 1..9 : d \in 0..9
          OBVIOUS
        <5>. QED
          BY <3>2, <5>1
      <4>3. i = 1 \/ i = 2 \/ i = 3
        BY <3>2
      <4>. QED
        BY <4>2, <4>3, Zenon
    <3>5. p[1] # 0
      BY <3>2
    <3>6. Value(p) <= 191
      BY <3>3
    <3>. QED
      BY <1>3, <3>3, <3>4, <3>5, <3>6, Zenon
  <2>. QED
    BY <2>2, <2>3, <2>4, <2>5, DigitsOf
<1>. QED
  BY <1>4, <1>5

LEMMA TimestampExact ==
  ASSUME NEW ts \in Timestamps
  PROVE  ValidTimestamp(ts) <=> TIMESTAMP(ts)
<1>1. /\ ts = [t |-> ts.t, zone |-> ts.zone, fraction |-> ts.fraction, second60 |-> ts.second60]
      /\ ts.fraction \in {0, 1, 6, 7} /\ ts.second60 \in BOOLEAN
  BY DEF Timestamps
<1>2. TIMESTAMP(ts) <=> /\ ts.t = "T" /\ ts.zone \in {"Z", "offset"}
                        /\ ts.fraction \in 0..6 /\ ts.second60 = FALSE
  BY <1>1 DEF TIMESTAMP
<1>3. ts.fraction \in 0..6 <=> ts.fraction <= 6
  BY <1>1
<1>. QED
  BY <1>1, <1>2, <1>3 DEF ValidTimestamp, Parses

(***************************************************************************)
(* The messages compared.                                                  *)
(***************************************************************************)
LEMMA EditedType ==
  ASSUME NEW C, NEW s \in Seq(C), NEW chars \in SUBSET C
  PROVE  Edited(s, chars) \subseteq Seq(C)
<1>1. Len(s) \in Nat /\ DOMAIN s = 1..Len(s)
  OBVIOUS
<1>2. ASSUME NEW i \in 1..(Len(s) + 1)
      PROVE  SubSeq(s, 1, i - 1) \in Seq(C) /\ SubSeq(s, i, Len(s)) \in Seq(C)
  <2>1. /\ 1 \in 1..(Len(s) + 1) /\ i - 1 \in (1 - 1)..Len(s)
        /\ Len(s) \in (i - 1)..Len(s)
    BY <1>1
  <2>. QED
    BY <1>2, <2>1, SubSeqProperties
<1>3. ASSUME NEW i \in 1..Len(s) PROVE RemoveAt(s, i) \in Seq(C)
  <2>1. i \in 1..(Len(s) + 1) /\ i + 1 \in 1..(Len(s) + 1)
    BY <1>1
  <2>2. SubSeq(s, 1, i - 1) \in Seq(C) /\ SubSeq(s, i + 1, Len(s)) \in Seq(C)
    BY <1>2, <2>1
  <2>. QED
    BY <2>2 DEF RemoveAt
<1>4. ASSUME NEW i \in 1..Len(s), NEW c \in chars PROVE ReplaceAt(s, i, c) \in Seq(C)
  BY DEF ReplaceAt
<1>5. ASSUME NEW i \in 1..(Len(s) + 1), NEW c \in chars PROVE InsertAt(s, i, c) \in Seq(C)
  <2>1. <<c>> \in Seq(C)
    OBVIOUS
  <2>. QED
    BY <1>2, <2>1 DEF InsertAt
<1>. QED
  BY <1>1, <1>3, <1>4, <1>5 DEF Edited

LEMMA ReaderStart == ReaderInit => ReaderTypeOK
<1>1. <<1, 9>> \in Seq(Digits \cup {NoDigit})
  BY DEF Digits, NoDigit
<1>. QED
  BY <1>1, ReaderAssumption DEF ReaderInit, ReaderTypeOK, Timestamps

LEMMA ReaderStep == ReaderTypeOK /\ [ReaderNext]_reader_vars => ReaderTypeOK'
<1>. SUFFICES ASSUME ReaderTypeOK, [ReaderNext]_reader_vars PROVE ReaderTypeOK'
  OBVIOUS
<1>1. CASE EditPri
  <2>1. {0, 1, 2, 9, NoDigit} \subseteq Digits \cup {NoDigit}
    BY DEF Digits
  <2>2. Edited(pri, {0, 1, 2, 9, NoDigit}) \subseteq Seq(Digits \cup {NoDigit})
    BY <2>1, EditedType DEF ReaderTypeOK
  <2>. QED
    BY <1>1, <2>2 DEF EditPri, ReaderTypeOK
<1>2. CASE EditTimestamp
  BY <1>2 DEF EditTimestamp, ReaderTypeOK
<1>3. CASE EditRest
  <2>1. Edited(rest, Characters) \subseteq Seq(Characters)
    BY EditedType DEF ReaderTypeOK
  <2>. QED
    BY <1>3, <2>1 DEF EditRest, ReaderTypeOK
<1>4. CASE UNCHANGED reader_vars
  BY <1>4 DEF reader_vars, ReaderTypeOK
<1>. QED
  BY <1>1, <1>2, <1>3, <1>4 DEF ReaderNext

LEMMA ReaderFollows == ReaderTypeOK => ReaderExact
BY PriorityExact, TimestampExact, DataExact DEF ReaderTypeOK, ReaderExact

(***************************************************************************)
(* Whatever text arrives, valid_message() accepts of its priority, its     *)
(* time and its data what RFC 5424 derives, for names of any length.       *)
(***************************************************************************)
THEOREM ReaderIsExact == ReaderSpec => []ReaderExact
<1>1. ReaderSpec => []ReaderTypeOK
  BY ReaderStart, ReaderStep, PTL DEF ReaderSpec
<1>. QED
  BY <1>1, ReaderFollows, PTL
=============================================================================
