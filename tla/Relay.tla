-------------------------------- MODULE Relay --------------------------------
(***************************************************************************)
(* A relay (core/src/relay.rs, Relay): the listener, the sender and its    *)
(* detached lookups, and the owner that starts and stops them.  Time is    *)
(* one step: the drain deadline that stop() armed passes.                  *)
(***************************************************************************)
EXTENDS Listener, Sender

VARIABLE owner
  \* Where the caller of Relay::start and Relay::stop is: "starting" (the
  \* listener runs, the sender is not spawned yet), "running", "join_listener",
  \* "join_sender", "stopped", and "aborting", "aborted" for a failed start.

vars == <<state_vars, listener, resolver_vars, sender_vars, owner>>
thread_vars == <<listener, resolver_vars, sender_vars>>

OwnerSteps == {"starting", "running", "join_listener", "join_sender", "stopped",
               "aborting", "aborted"}

TypeOK ==
  /\ StateTypeOK
  /\ ListenerTypeOK
  /\ ResolverTypeOK
  /\ SenderTypeOK
  /\ owner \in OwnerSteps

\* Relay::start up to the spawn of the listener.
Init ==
  /\ StateInit
  /\ ListenerInit
  /\ ResolverInit
  /\ SenderInit
  /\ owner = "starting"

StartSender ==
  /\ owner = "starting"
  /\ owner' = "running"
  /\ sender' = "top"
  /\ UNCHANGED <<state_vars, listener, resolver_vars, sender_locals, history_vars>>

\* The thread could not be spawned: start stops and joins the listener.
StartFails ==
  /\ owner = "starting"
  /\ owner' = "aborting"
  /\ stop_at' = "due"
  /\ UNCHANGED <<counters, queue_vars, in_flight, listener_status, dtls_status,
                 running, source_vars, thread_vars>>

AbortJoinsListener ==
  /\ owner = "aborting"
  /\ listener = "done"
  /\ owner' = "aborted"
  /\ UNCHANGED <<state_vars, thread_vars>>

\* stop(), or the drop of the relay, arms the deadline once.
ArmedStop == IF stop_at = "none" THEN "armed" ELSE stop_at

RequestStop ==
  /\ owner = "running"
  /\ owner' = "join_listener"
  /\ stop_at' = ArmedStop
  /\ UNCHANGED <<counters, queue_vars, in_flight, listener_status, dtls_status,
                 running, source_vars, thread_vars>>

JoinListener ==
  /\ owner = "join_listener"
  /\ listener = "done"
  /\ owner' = "join_sender"
  /\ UNCHANGED <<state_vars, thread_vars>>

\* The last join and the final status of stop().
JoinSender ==
  /\ owner = "join_sender"
  /\ sender = "done"
  /\ owner' = "stopped"
  /\ running' = FALSE
  /\ listener_status' = "stopped"
  /\ dtls_status' = "stopped"
  /\ in_flight' = FALSE
  /\ UNCHANGED <<counters, queue_vars, stop_at, source_vars, thread_vars>>

OwnerNext ==
  \/ StartSender \/ StartFails \/ AbortJoinsListener
  \/ RequestStop \/ JoinListener \/ JoinSender

\* The clock reaches stop_at.
DeadlinePasses ==
  /\ stop_at = "armed"
  /\ stop_at' = "due"
  /\ UNCHANGED <<counters, queue_vars, in_flight, listener_status, dtls_status,
                 running, source_vars, thread_vars, owner>>

ListenerStep == ListenerNext /\ UNCHANGED <<resolver_vars, sender_vars, owner>>
SenderStep == SenderNext /\ UNCHANGED <<listener, owner>>
LookupStep == LookupThread /\ UNCHANGED <<state_vars, listener, sender_vars, owner>>

Next == ListenerStep \/ SenderStep \/ LookupStep \/ OwnerNext \/ DeadlinePasses

Spec == Init /\ [][Next]_vars

(***************************************************************************)
(* Fairness.  The threads and the owner are scheduled, and time passes.    *)
(* Nothing is assumed of the network, of the OS lookup, or of anybody      *)
(* calling stop().                                                         *)
(***************************************************************************)
ScheduledOwner == OwnerNext /\ owner # "running"
Fairness ==
  /\ WF_vars(ListenerStep)
  /\ WF_vars(SenderStep)
  /\ WF_vars(ScheduledOwner)
  /\ WF_vars(DeadlinePasses)

FairSpec == Spec /\ Fairness

\* A host and a network on which each thing that is tried again and again
\* succeeds infinitely often, and a clock that lets next_send come.
SenderDoes(A) == A /\ UNCHANGED <<listener, owner>>
NetworkFairness ==
  /\ SF_vars(LookupEnds("found") /\ UNCHANGED <<state_vars, listener, sender_vars, owner>>)
  /\ SF_vars(SenderDoes(BeginAttempt))
  /\ SF_vars(SenderDoes(\E m \in Mtus : HandshakeSucceeds(m)))
  /\ SF_vars(SenderDoes(TakeFront \/ DropFront))
  /\ SF_vars(SenderDoes(WriteSent))
=============================================================================
