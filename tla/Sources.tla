------------------------------- MODULE Sources -------------------------------
(***************************************************************************)
(* The per-source traffic table of core/src/sources.rs.  It tracks at most *)
(* SourceLimit source addresses, never evicts one, and counts what the     *)
(* relay received, forwarded and dropped for each.  Messages of addresses  *)
(* that found the table full are only counted in untracked_messages.       *)
(*                                                                         *)
(* The BTreeMap is the set `tracked` of its keys and three counters per    *)
(* address, zero for an address without a row.  The time windows of a row  *)
(* (seconds, minutes) and the wall-clock fields are left out.              *)
(*                                                                         *)
(* The operations are the methods of Sources: actions on these variables   *)
(* that the relay performs inside its own critical sections.               *)
(***************************************************************************)
EXTENDS Naturals, FiniteSets

CONSTANTS
  Hosts,         \* hosts that send to the listener
  SourceLimit    \* SOURCE_LIMIT, 256 in the code

ASSUME SourcesAssumption == SourceLimit \in Nat

VARIABLES
  tracked,            \* keys of Sources.entries
  source_received,    \* SourceStatus.messages_received of each row
  source_forwarded,   \* SourceStatus.messages_forwarded
  source_dropped,     \* SourceStatus.messages_dropped
  untracked_messages

source_vars == <<tracked, source_received, source_forwarded, source_dropped,
                 untracked_messages>>

\* An IpAddr: IPv6 sockets also see IPv4 hosts under their mapped form.
Address == [host : Hosts, mapped : BOOLEAN]

\* config::canonical_ip: the mapped form of an IPv4 address becomes the
\* address itself.
canonical_ip(ip) == [ip EXCEPT !.mapped = FALSE]

SourcesTypeOK ==
  /\ tracked \subseteq Address
  /\ source_received \in [Address -> Nat]
  /\ source_forwarded \in [Address -> Nat]
  /\ source_dropped \in [Address -> Nat]
  /\ untracked_messages \in Nat

SourcesInit ==
  /\ tracked = {}
  /\ source_received = [ip \in Address |-> 0]
  /\ source_forwarded = [ip \in Address |-> 0]
  /\ source_dropped = [ip \in Address |-> 0]
  /\ untracked_messages = 0

\* Mutation: the table is full for everybody once it has SourceLimit rows.
TableFullForAll(ip) == Cardinality(tracked) >= SourceLimit

\* The early return of Sources::received.
TableFullFor(ip) == ip \notin tracked /\ Cardinality(tracked) >= SourceLimit

\* Sources::received, the two counters it may touch and the row it may add.
SourceReceived(ip) ==
  IF TableFullFor(ip)
    THEN /\ untracked_messages' = untracked_messages + 1
         /\ UNCHANGED <<tracked, source_received>>
    ELSE /\ tracked' = tracked \cup {ip}
         /\ source_received' = [source_received EXCEPT ![ip] = @ + 1]
         /\ UNCHANGED untracked_messages

\* Sources::dropped: no row, no count.
SourceDropped(ip, rows) ==
  source_dropped' =
    IF ip \in rows THEN [source_dropped EXCEPT ![ip] = @ + 1] ELSE source_dropped

\* Sources::forwarded.
SourceForwarded(ip, rows) ==
  source_forwarded' =
    IF ip \in rows THEN [source_forwarded EXCEPT ![ip] = @ + 1] ELSE source_forwarded
=============================================================================
