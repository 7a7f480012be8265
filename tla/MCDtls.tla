------------------------------- MODULE MCDtls -------------------------------
(***************************************************************************)
(* Instances of the transport for TLC.                                     *)
(***************************************************************************)
EXTENDS DtlsSession

\* Two frames that fit every session or only the larger one, one that fits
\* none, and an empty one, which the transport refuses as well.
MCFrames == {[id |-> 1, len |-> 2], [id |-> 2, len |-> 3], [id |-> 3, len |-> 6],
             [id |-> 4, len |-> 0]}
\* No room at all, room for the small frame, and more than a record holds.
MCDataMtus == {0, 2, 9}
=============================================================================
