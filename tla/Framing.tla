------------------------------- MODULE Framing -------------------------------
(***************************************************************************)
(* RFC 6012 octet-count framing (core/src/framing.rs, frame): a message is *)
(* sent as its length in decimal, a space, and its bytes.  The relay only  *)
(* ever compares the length of a frame with the payload budget of the DTLS *)
(* session, so a frame is modelled by its length.                          *)
(***************************************************************************)
EXTENDS Naturals

\* Number of characters of n in decimal.  Config::validate keeps messages
\* below 16 379 bytes (config.rs:246), so five digits are enough.
DecimalDigits(n) ==
  1 + (IF n >= 10 THEN 1 ELSE 0) + (IF n >= 100 THEN 1 ELSE 0)
    + (IF n >= 1000 THEN 1 ELSE 0) + (IF n >= 10000 THEN 1 ELSE 0)

\* Length of the frame of a message of n bytes.
FrameLen(n) == DecimalDigits(n) + 1 + n
=============================================================================
