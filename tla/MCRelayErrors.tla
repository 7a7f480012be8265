---------------------------- MODULE MCRelayErrors ----------------------------
EXTENDS MCRelay, RelayErrors
=============================================================================
