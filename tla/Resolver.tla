------------------------------ MODULE Resolver ------------------------------
(***************************************************************************)
(* Name resolution (core/src/relay.rs, resolve).  The OS lookup runs in a  *)
(* detached thread that nobody joins: it may hang for as long as the OS    *)
(* likes, also after the relay has stopped.  The sender keeps the channel  *)
(* on which the answer will come (`pending`, the local `dns` of send) and  *)
(* gives up waiting, but keeps the channel, when the attempt times out.    *)
(*                                                                         *)
(* `dns` is that channel: "none", "waiting" (empty), "found" or "failed"   *)
(* (an unread answer), or "lost" (the thread ended without answering).     *)
(* An empty list of addresses is a failed answer (relay.rs:280).           *)
(***************************************************************************)
EXTENDS Naturals

VARIABLES
  dns,
  os_calls    \* threads inside to_socket_addrs

resolver_vars == <<dns, os_calls>>

ResolverTypeOK ==
  /\ dns \in {"none", "waiting", "found", "failed", "lost"}
  /\ os_calls \in Nat

ResolverInit == dns = "none" /\ os_calls = 0

\* Mutation: every attempt starts a lookup of its own.
SpawnAnotherLookup == dns' = "waiting" /\ os_calls' = os_calls + 1

\* resolve starts a lookup only when no channel is pending.
SpawnLookup ==
  IF dns = "none"
    THEN dns' = "waiting" /\ os_calls' = os_calls + 1
    ELSE UNCHANGED resolver_vars

\* The end of the detached thread: it sends its result, or ends without.
LookupEnds(answer) ==
  /\ os_calls > 0
  /\ os_calls' = os_calls - 1
  /\ dns' = IF dns = "waiting" THEN answer ELSE dns

LookupThread == \E answer \in {"found", "failed", "lost"} : LookupEnds(answer)
=============================================================================
