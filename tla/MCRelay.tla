------------------------------- MODULE MCRelay -------------------------------
(***************************************************************************)
(* Instances of the relay for TLC.                                         *)
(***************************************************************************)
EXTENDS RelayProperties

CONSTANTS h1, h2, h3    \* hosts

From(h, as_mapped) == [host |-> h, mapped |-> as_mapped]
Datagram(h, as_mapped, n, ok) == [peer |-> From(h, as_mapped), size |-> n, valid |-> ok]

\* h1 is listed by its mapped address, h2 is listed, h3 is not.
MCAllowList == {From(h1, TRUE), From(h2, FALSE)}

\* One kind of datagram for each way through the critical section.  Sizes are
\* bytes scaled down: a frame of a message of 1 or 2 bytes has length 3 or 4.
MCDatagrams == {
  Datagram(h1, FALSE, 1, TRUE),
  Datagram(h1, TRUE, 2, TRUE),
  Datagram(h1, FALSE, 3, TRUE),     \* longer than MaxMessageBytes
  Datagram(h2, FALSE, 1, FALSE),    \* not a syslog message
  Datagram(h2, FALSE, 2, TRUE),
  Datagram(h3, FALSE, 1, TRUE) }    \* not allowed

\* The messages that reach the queue, and one that is refused.
MCFewDatagrams == {
  Datagram(h1, FALSE, 1, TRUE),
  Datagram(h2, FALSE, 2, TRUE),
  Datagram(h3, FALSE, 1, TRUE) }

\* Both sizes fit a session of 4, only the smaller one a session of 3.
MCMtus == {3, 4}
=============================================================================
