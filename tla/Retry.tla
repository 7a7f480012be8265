-------------------------------- MODULE Retry --------------------------------
(***************************************************************************)
(* When the sender tries again, where, and how fast it sends               *)
(* (core/src/relay.rs, send: the locals attempts, delay, next_send and     *)
(* jitter, which the module Sender leaves out).  The steps are those of    *)
(* Sender that touch these locals; a clock is added, and everything that   *)
(* does not depend on time is left out.                                    *)
(*                                                                         *)
(* A pause lasts until `wake`.  It ends early only when the drain deadline *)
(* has passed, and then the sender leaves its loop.                        *)
(***************************************************************************)
EXTENDS Integers, FiniteSets, Sequences

CONSTANTS
  RetryInitial, RetryMax,   \* dtls.retry_initial_ms, retry_max_ms
  SendGap,                  \* 1 / dtls.messages_per_second
  Addresses,                \* the addresses of the collector's host
  Answers,                  \* what a lookup may return: non-empty sequences of them
  MaxTime                   \* bound on the clock

ASSUME RetryAssumption ==
  /\ RetryInitial \in Nat \ {0}
  /\ RetryMax \in Nat /\ RetryInitial <= RetryMax
  /\ SendGap \in Nat
  /\ Answers \subseteq Seq(Addresses) \ {<<>>}
  /\ MaxTime \in Nat

VARIABLES
  now,
  phase,        \* "connect" (no session), "session" or "writing"
  wake,         \* end of the current pause
  delay, attempts, next_send,
  failures,     \* history: failures since the last message was sent
  failed_at,    \* history: when the last failure was
  sent_at,      \* history: when the last message was sent, -1 before
  tried         \* history: the addresses tried since lookups return their
                \* present answer, with that answer

timing_vars == <<now, phase, wake, delay, attempts, next_send, failures, failed_at,
          sent_at, tried>>

Smaller(a, b) == IF a < b THEN a ELSE b

TimingTypeOK ==
  /\ now \in Nat
  /\ phase \in {"connect", "session", "writing"}
  /\ wake \in Nat
  /\ delay \in RetryInitial..RetryMax
  /\ attempts \in Nat
  /\ next_send \in Nat
  /\ failures \in Nat
  /\ failed_at \in Nat
  /\ sent_at \in Int
  /\ tried \in [answer : {<<>>} \cup Answers, addresses : Seq(Addresses)]

TimingInit ==
  /\ now = 0
  /\ phase = "connect"
  /\ wake = 0
  /\ delay = RetryInitial
  /\ attempts = 0
  /\ next_send = 0
  /\ failures = 0
  /\ failed_at = 0
  /\ sent_at = -1
  /\ tried = [answer |-> <<>>, addresses |-> <<>>]

Awake == now >= wake

\* Mutation: the doubled delay is not capped.
DoubledFreely == 2 * delay
Doubled == Smaller(2 * delay, RetryMax)

Fail(pause) ==
  /\ phase' = "connect"
  /\ wake' = now + pause
  /\ delay' = Doubled
  /\ failures' = failures + 1
  /\ failed_at' = now
  /\ UNCHANGED <<now, next_send, sent_at>>

\* The pause after a failed attempt; j is jitter % (delay / 2 + 1).
Jittered(j) == Smaller((delay * 3) \div 4 + j, RetryMax)
FailAttempt == \E j \in 0..(delay \div 2) : Fail(Jittered(j))

\* resolve failed: no address was chosen.
ResolveFails ==
  /\ phase = "connect" /\ Awake
  /\ FailAttempt
  /\ UNCHANGED <<attempts, tried>>

\* Mutation: the counter advances by two.
SkipAddress(answer) == answer[((2 * attempts) % Len(answer)) + 1]
\* addresses[attempts % addresses.len()], of the answer to a lookup of this
\* attempt: it need not be the answer to the one before, nor in its order.
Address(answer) == answer[(attempts % Len(answer)) + 1]

TryAddress(answer) ==
  /\ attempts' = attempts + 1
  /\ tried' = [answer |-> answer,
               addresses |-> IF answer = tried.answer
                               THEN Append(tried.addresses, Address(answer))
                               ELSE <<Address(answer)>>]

ConnectFails(answer) ==
  /\ phase = "connect" /\ Awake
  /\ TryAddress(answer)
  /\ FailAttempt

Connects(answer) ==
  /\ phase = "connect" /\ Awake
  /\ TryAddress(answer)
  /\ phase' = "session"
  /\ UNCHANGED <<now, wake, delay, next_send, failures, failed_at, sent_at>>

\* Mutation: a session is paced by its own messages only.
DueInSession == failed_at > sent_at \/ now >= next_send

\* A message is taken from the queue only when the last one is old enough.
SendDue == now >= next_send

TakeFront ==
  /\ phase = "session" /\ Awake
  /\ SendDue
  /\ phase' = "writing"
  /\ UNCHANGED <<now, wake, delay, attempts, next_send, failures, failed_at, sent_at, tried>>

WriteSent ==
  /\ phase = "writing" /\ Awake
  /\ phase' = "session"
  /\ delay' = RetryInitial
  /\ next_send' = now + SendGap
  /\ failures' = 0
  /\ sent_at' = now
  /\ UNCHANGED <<now, wake, attempts, failed_at, tried>>

\* A poll or a write failed: the pause is the whole delay.
SessionFails ==
  /\ phase \in {"session", "writing"} /\ Awake
  /\ Fail(delay)
  /\ UNCHANGED <<attempts, tried>>

Tick ==
  /\ now < MaxTime
  /\ now' = now + 1
  /\ UNCHANGED <<phase, wake, delay, attempts, next_send, failures, failed_at, sent_at, tried>>

TimingNext ==
  \/ ResolveFails
  \/ \E answer \in Answers : ConnectFails(answer) \/ Connects(answer)
  \/ TakeFront \/ WriteSent \/ SessionFails
  \/ Tick

TimingSpec == TimingInit /\ [][TimingNext]_timing_vars

(***************************************************************************)
(* Properties.                                                             *)
(***************************************************************************)
\* The delay before the last failure: RetryInitial, doubled by each failure
\* since the last message was sent, up to RetryMax.
DelayAfter(k) == Smaller(RetryInitial * 2 ^ k, RetryMax)

\* Back-off (README.md, "Retries with backoff") is by messages, not by
\* sessions: a collector that accepts handshakes and then fails is backed off
\* from like one that does not answer, and only a sent message starts over.
\* After a failure nothing is tried for three quarters of the delay it found,
\* and the wait is never longer than RetryMax, jitter included.
BackedOff ==
  /\ delay = DelayAfter(failures)
  /\ failures > 0 =>
       LET found == DelayAfter(failures - 1)
       IN  /\ wake - failed_at >= (3 * found) \div 4
           /\ wake - failed_at <= RetryMax

\* While lookups return the same n addresses in the same order, any n attempts
\* in a row reach all of them, whatever mixture of failed lookups, failed
\* handshakes and short sessions comes in between.  A resolver that changes the
\* order of its answers between two attempts starts anew: then an address may
\* be passed over, and nothing in the repository says otherwise.
Rotation ==
  LET n == Len(tried.answer)
      s == tried.addresses
  IN  \A k \in 0..(Len(s) - n) : \A r \in 1..n :
        \E i \in (k + 1)..(k + n) : s[i] = tried.answer[r]

\* Messages are at least SendGap apart, also across sessions: a reconnect does
\* not release a burst.
Paced ==
  [][sent_at' # sent_at /\ sent_at >= 0 => sent_at' >= sent_at + SendGap]_timing_vars
=============================================================================
