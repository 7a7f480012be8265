------------------------------ MODULE Settings ------------------------------
(***************************************************************************)
(* What Config::parse makes of a settings file (config.rs, oidc.rs): the   *)
(* migration of old login settings, the resolution of credential paths,    *)
(* and validation; and what save() writes back.  Numbers are real; names,  *)
(* URLs and paths are the classes the rules tell apart.                    *)
(***************************************************************************)
EXTENDS Framing

CONSTANT MaxChanges   \* how many entries of the default file are changed

VARIABLES input,    \* the file, as [section |-> [entry |-> value]]
          changes

file_vars == <<input, changes>>

-----------------------------------------------------------------------------
(* Config::validate.                                                       *)

\* The least and the greatest value of each number.
LimitsUpTo(max_message_bytes) ==
  [max_message_bytes |-> <<1, max_message_bytes>>, max_messages |-> <<1, 1000000>>,
   max_bytes |-> <<1, 1073741824>>, datagram_bytes |-> <<576, 16448>>,
   handshake_timeout_ms |-> <<100, 120000>>, retry_initial_ms |-> <<100, 60000>>,
   retry_max_ms |-> <<0, 300000>>, shutdown_drain_ms |-> <<0, 30000>>,
   messages_per_second |-> <<1, 100000>>, port |-> <<1, 65535>>,
   allowed_ips |-> <<0, 4096>>]

\* Mutation: one byte more, as if its length had four digits.
LimitsWider == LimitsUpTo(16379)
Limits == LimitsUpTo(16378)

http_url(u) == u \in {"origin", "path", "query"}   \* no credentials, no fragment

\* Oidc::validate.
ValidLogin(o) ==
  o.enabled =>
    /\ http_url(o.discovery_uri) /\ o.public_url = "origin"
    /\ o.client_id = "set" /\ o.groups_claim = "set" /\ o.required_group = "set"
    /\ o.scopes = "fit"

validate(c) ==
  /\ ValidLogin(c.oidc)
  /\ \A entry \in DOMAIN Limits :
       Limits[entry][1] <= c.numbers[entry] /\ c.numbers[entry] <= Limits[entry][2]
  /\ c.numbers.retry_max_ms >= c.numbers.retry_initial_ms
  /\ c.names.host = "valid" /\ c.names.expected_server_name # "invalid"
  /\ \A p \in DOMAIN c.paths : c.paths[p] # "empty"

-----------------------------------------------------------------------------
(* Config::parse and save.                                                 *)

\* An old file names the variable that holds the secret, and has no secret.
SecretElsewhere(o) ==
  o.enabled /\ o.client_secret = "" /\ o.client_secret_env \notin {"absent", ""}

WellKnown(issuer) ==
  CASE issuer \in {"absent", ""} -> "" [] issuer = "origin" -> "path" [] OTHER -> issuer

\* Oidc::try_from, when it succeeds.
Migrated(o) ==
  [entry \in DOMAIN o \ {"issuer_url", "client_secret_env"} |->
    IF entry = "discovery_uri" /\ o.discovery_uri = "" THEN WellKnown(o.issuer_url)
                                                       ELSE o[entry]]

\* Mutation: every path is taken as relative to the file.
ResolvedAlways(p) == IF p = "absolute" THEN "nested" ELSE "absolute"
\* Only names that begin at the root are left alone; "" is none of them.
Resolved(p) == IF p \in {"absolute", "nested"} THEN p ELSE "absolute"

\* Migration is a part of reading; paths are resolved before they are checked.
parse(file) ==
  [file EXCEPT !.oidc = Migrated(file.oidc),
               !.paths = [p \in DOMAIN file.paths |-> Resolved(file.paths[p])]]
accepts(file) == ~SecretElsewhere(file.oidc) /\ validate(parse(file))

\* to_toml(): what the file lacks is read as its default.
Saved(settings) ==
  [settings EXCEPT !.oidc = [entry \in DOMAIN input.oidc |->
     IF entry \in DOMAIN settings.oidc THEN settings.oidc[entry] ELSE "absent"]]

-----------------------------------------------------------------------------
(* Files: the default one, and what becomes of it by a few changes.        *)

Urls == {"", "origin", "path", "query", "refused"}
Words == {"set", "blank"}
Paths == {"empty", "relative", "absolute"}

EntryValues ==
  [oidc |-> [enabled |-> BOOLEAN, issuer_url |-> Urls \cup {"absent"},
             discovery_uri |-> Urls, public_url |-> Urls,
             client_id |-> Words, groups_claim |-> Words, required_group |-> Words,
             client_secret |-> {"", "secret"},
             client_secret_env |-> {"absent", "", "NAME"}, scopes |-> {"fit", "unfit"}],
   numbers |-> [entry \in DOMAIN Limits |->
     (UNION {{n - 1, n, n + 1} : n \in {Limits[entry][1], Limits[entry][2]}}) \cap Nat],
   names |-> [host |-> {"valid", "invalid"},
              expected_server_name |-> {"absent", "valid", "invalid"}],
   paths |-> [certificate_chain |-> Paths, private_key |-> Paths, ca_bundle |-> Paths]]

\* Config::default, and a login that is complete but for being enabled.
DefaultLogin ==
  [enabled |-> FALSE, issuer_url |-> "absent", discovery_uri |-> "", public_url |-> "origin",
   client_id |-> "set", groups_claim |-> "set", required_group |-> "set",
   client_secret |-> "", client_secret_env |-> "absent", scopes |-> "fit"]
DefaultFile ==
  [oidc |-> DefaultLogin,
   numbers |-> [max_message_bytes |-> 8192, max_messages |-> 10000, max_bytes |-> 16777216,
                datagram_bytes |-> 1200, handshake_timeout_ms |-> 10000,
                retry_initial_ms |-> 1000, retry_max_ms |-> 60000,
                shutdown_drain_ms |-> 2000, messages_per_second |-> 1000, port |-> 1080,
                allowed_ips |-> 0],
   names |-> [host |-> "valid", expected_server_name |-> "absent"],
   paths |-> [p \in {"certificate_chain", "private_key", "ca_bundle"} |-> "relative"]]

FileInit == input = DefaultFile /\ changes = 0

FileNext ==
  /\ changes < MaxChanges
  /\ changes' = changes + 1
  /\ \E section \in DOMAIN EntryValues : \E entry \in DOMAIN EntryValues[section] :
       \E value \in EntryValues[section][entry] :
         input' = [input EXCEPT ![section][entry] = value]

FileSpec == FileInit /\ [][FileNext]_file_vars

-----------------------------------------------------------------------------
(* Properties.                                                             *)

accepted == accepts(input)

(***************************************************************************)
(* Accepted numbers are fit for the relay: the frame of every message that *)
(* the listener lets through fits one DTLS record (16 384 bytes), the byte *)
(* gauge of the queue fits 32 bits, the delays can be doubled and jittered *)
(* as Retry assumes, and the gap between messages is not zero.             *)
(***************************************************************************)
ValidSuffices ==
  accepted =>
    LET n == parse(input).numbers
    IN /\ FrameLen(n.max_message_bytes) <= 16384
       /\ n.max_bytes + n.max_message_bytes <= 2147483647
       /\ n.retry_initial_ms \div 2 > 0 /\ n.retry_initial_ms <= n.retry_max_ms
       /\ 1000000000 \div n.messages_per_second > 0

(***************************************************************************)
(* Settings that were read and saved are read again, and are the same:     *)
(* nothing about login or credentials changes by a save, nor would it in   *)
(* another directory.  An old file whose login is on either keeps its      *)
(* provider and has its secret, or is refused: migration never goes on     *)
(* without one of them.                                                    *)
(***************************************************************************)
SavedLoads ==
  accepted =>
    LET saved == Saved(parse(input))
        login == parse(input).oidc
    IN /\ accepts(saved) /\ parse(saved) = parse(input)
       /\ input.oidc.enabled =>
            /\ http_url(login.discovery_uri)
            /\ input.oidc.client_secret_env = "NAME" => login.client_secret # ""

(* "Credential paths cannot be empty" (validate).                          *)
EmptyPathRefused == accepted => \A p \in DOMAIN input.paths : input.paths[p] # "empty"
=============================================================================
