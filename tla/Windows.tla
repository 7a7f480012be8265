------------------------------- MODULE Windows -------------------------------
(***************************************************************************)
(* The traffic windows of one row of the source table                      *)
(* (core/src/sources.rs, Source.seconds and Source.minutes).  Time is cut  *)
(* into ticks; tick t is counted in slot t modulo the number of slots, and *)
(* a slot that still holds an older tick is reset when it is next used,    *)
(* never before.  The rates of a snapshot sum the slots whose tick lies in *)
(* the window.                                                             *)
(*                                                                         *)
(* The code has 61 slots for the last 60 completed seconds, and 1440 slots *)
(* for the 1440 minutes that end with the current one.                     *)
(***************************************************************************)
EXTENDS Naturals, Functions

CONSTANTS
  SecondsPerMinute,   \* 60: the length of a minute, and of the seconds window
  MinuteSlots,        \* 1440
  MaxSecond,          \* bound on the clock
  MaxForwards         \* bound on the number of messages forwarded

ASSUME WindowsAssumption ==
  /\ SecondsPerMinute \in Nat \ {0} /\ MinuteSlots \in Nat \ {0}
  /\ MaxSecond \in Nat /\ MaxForwards \in Nat

SecondSlots == SecondsPerMinute + 1

VARIABLES
  second,             \* s.started.elapsed().as_secs()
  seconds, minutes,   \* the two arrays of buckets
  forwards            \* history: messages forwarded in each second

rates_vars == <<second, seconds, minutes, forwards>>

Minute(s) == s \div SecondsPerMinute

\* [Bucket::default(); n]
EmptySlots(n) == [i \in 0..(n - 1) |-> [tick |-> 0, count |-> 0]]

RatesInit ==
  /\ second = 0
  /\ seconds = EmptySlots(SecondSlots)
  /\ minutes = EmptySlots(MinuteSlots)
  /\ forwards = [s \in 0..MaxSecond |-> 0]

increment(bucket, t) ==
  [tick |-> t, count |-> IF bucket.tick = t THEN bucket.count + 1 ELSE 1]

\* Mutation: one slot too few is used for the seconds.
ShortSlot(s) == s % SecondsPerMinute

SecondSlot(s) == s % SecondSlots
MinuteSlot(s) == Minute(s) % MinuteSlots

\* Sources::forwarded at the current second.
Forwarded ==
  /\ SumFunction(forwards) < MaxForwards
  /\ seconds' = [seconds EXCEPT ![SecondSlot(second)] = increment(@, second)]
  /\ minutes' = [minutes EXCEPT ![MinuteSlot(second)] = increment(@, Minute(second))]
  /\ forwards' = [forwards EXCEPT ![second] = @ + 1]
  /\ UNCHANGED second

\* Time passes, by any number of seconds in which nothing is forwarded.
ClockAdvances ==
  /\ second' \in (second + 1)..MaxSecond
  /\ UNCHANGED <<seconds, minutes, forwards>>

RatesNext == Forwarded \/ ClockAdvances

RatesSpec == RatesInit /\ [][RatesNext]_rates_vars

(***************************************************************************)
(* Sources::snapshot at the current second.                                *)
(***************************************************************************)
SumWhere(buckets, InWindow(_)) ==
  SumFunctionOnSet([i \in DOMAIN buckets |-> buckets[i].count],
                   {i \in DOMAIN buckets : InWindow(buckets[i].tick)})

messages_per_second == SumWhere(seconds, LAMBDA t : t < second /\ second - t = 1)

messages_per_minute ==
  SumWhere(seconds, LAMBDA t : t < second /\ second - t <= SecondsPerMinute)

messages_last_24h ==
  SumWhere(minutes, LAMBDA t : t <= Minute(second) /\ Minute(second) - t < MinuteSlots)

(***************************************************************************)
(* What the rates are meant to be, counted from the history.               *)
(***************************************************************************)
ForwardsIn(S) == SumFunctionOnSet(forwards, S)

\* The rates are exact, for the last completed second, the last SecondsPerMinute
\* completed seconds, and the MinuteSlots minutes that end with the current one:
\* no slot is reused while its tick is in the window, and no stale slot is
\* summed, however long the source was idle.
RatesExact ==
  /\ messages_per_second = ForwardsIn({s \in 0..MaxSecond : s + 1 = second})
  /\ messages_per_minute =
       ForwardsIn({s \in 0..MaxSecond : s < second /\ second - s <= SecondsPerMinute})
  /\ messages_last_24h =
       ForwardsIn({s \in 0..MaxSecond : /\ Minute(s) <= Minute(second)
                                        /\ Minute(second) - Minute(s) < MinuteSlots})
=============================================================================
