----------------------------- MODULE RelayErrors -----------------------------
(***************************************************************************)
(* The error that a relay shows (Status::last_error), as a superposition   *)
(* on Relay: the three places of the code that write it - the listener     *)
(* that fails, a session that is established, an attempt or a session that *)
(* fails - do so in the critical sections of steps of Relay, which are     *)
(* told by what they do to the relay's own variables.                      *)
(***************************************************************************)
EXTENDS RelayProperties

VARIABLE last_error   \* "none", or whose error it is: "listener" or "dtls"

error_vars == <<vars, last_error>>

ErrorInit == Init /\ last_error = "none"

ListenerFailed == listener_status # "failed" /\ listener_status' = "failed"

\* Mutation: a session that is established leaves the error alone.
NeverCleared == FALSE
Established == sender = "connected" /\ sender' = "poll"

\* The two ways back to the top that show "retrying".
DtlsFailed ==
  sender \in {"failed", "broken"} /\ sender' = "top" /\ dtls_status' = "retrying"

NextError ==
  CASE ListenerFailed -> "listener"
    [] Established -> "none"
    [] DtlsFailed -> "dtls"
    [] OTHER -> last_error

ErrorNext == Next /\ last_error' = NextError

ErrorSpec == ErrorInit /\ [][ErrorNext]_error_vars

-----------------------------------------------------------------------------
(***************************************************************************)
(* Whoever sees "retrying" is told why, whichever thread wrote the error   *)
(* or cleared it last.                                                     *)
(***************************************************************************)
RetryingExplained == dtls_status = "retrying" => last_error \in {"listener", "dtls"}

(***************************************************************************)
(* An established session is never shown with the error of an earlier one; *)
(* only the listener's failure, which ends the relay, may stand beside it. *)
(***************************************************************************)
ErrorIsCurrent ==
  dtls_status = "established" => last_error # "dtls"
    /\ (last_error = "listener" => stopping)

\* So the error shown, which two threads write and one clears, is the reason of
\* the state shown beside it.
ErrorTold == RetryingExplained /\ ErrorIsCurrent
=============================================================================
