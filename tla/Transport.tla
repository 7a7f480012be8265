------------------------------ MODULE Transport ------------------------------
(***************************************************************************)
(* What a caller and a DTLS session owe each other (core/src/transport.rs, *)
(* Connector and Session; the rules of use are in the comments and checks  *)
(* of dtls-openssl/src/lib.rs, send and poll), without sockets or OpenSSL. *)
(* A session has a budget fixed when it is made.  A frame that fits is     *)
(* taken, or it is retained half written; then the same frame is offered   *)
(* until it is taken or the session is closed, and a new session has       *)
(* nothing retained.                                                       *)
(***************************************************************************)
EXTENDS Naturals

CONSTANT Budgets       \* what a session may be able to send at once

VARIABLES
  budget,        \* max_plaintext, 0 without a session
  unfinished     \* the retained frame

NoFrame == [id |-> 0, len |-> 0]

Init == budget = 0 /\ unfinished = NoFrame

Open ==
  /\ budget = 0
  /\ budget' \in Budgets
  /\ unfinished' = NoFrame

\* A write is left unfinished, or an unfinished one is done; a write done at
\* once, and one that stays unfinished, change nothing.
Block ==
  /\ budget # 0
  /\ unfinished = NoFrame
  /\ unfinished'.len \in 1..budget
  /\ UNCHANGED budget

Complete ==
  /\ budget # 0
  /\ unfinished' = NoFrame
  /\ UNCHANGED budget

Close ==
  /\ budget # 0
  /\ budget' = 0
  /\ unfinished' = NoFrame

Next == Open \/ Close \/ Block \/ Complete

Spec == Init /\ [][Next]_<<budget, unfinished>>
=============================================================================
