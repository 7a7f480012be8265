# Specification of syslog-dtls-agent

TLA+ modules, TLC configurations and TLAPS proofs for the syslog relay agent of
this repository: UDP syslog in, a bounded in-memory queue, RFC 6012 syslog over
DTLS out, and an agent process, with a browser console or a desktop shell, that
starts, stops and configures the relay. Paths below are relative to the
repository (`core/src/...` is `src/crates/core/src/...` in PROJECT.json).

Run everything from this directory:

    tlc -workers 4 -config MCRelayErrors.cfg MCRelayErrors   # relay
    tlc -workers 4 -config MCRelayLive.cfg MCRelay           # live
    tlc -workers 4 -config MCSequential.cfg MCSequential     # sequential
    tlc -workers 4 -config MCAuth.cfg MCAuth                 # auth
    tlc -workers 4 -config MCConsole.cfg MCConsole           # console
    tlc -config MCDtls.cfg MCDtls                            # dtls
    tlc -config MCDesktop.cfg Desktop                        # desktop
    tlc -config MCPage.cfg Page                              # page
    tlc -config MCServer.cfg Server                          # server
    tlc -config MCAuthLogout.cfg MCAuth                      # logout_full, a finding
    tlc -config MCPageSignOut.cfg Page                       # sign_out_lost, a finding
    tlc -config MCSettingsPaths.cfg Settings                 # empty_path, a finding
    for m in FoldLemmas RelayProofs SequentialProofs DtlsProofs \
             DesktopProofs AuthProofs ConsoleProofs ServerProofs
    do tlapm $m.tla; done

## 1. Inventory of the system

| Component | Source | State | Operations |
|---|---|---|---|
| Listener thread | `core/src/relay.rs` `listen` | the socket | look at `stop_at`; receive (50 ms); account for one datagram; fail |
| Shared state | `relay.rs` `State`, `status.rs` | queue, its gauges, counters, drops by reason, status strings, `last_error`, `stop_at` | `finish_front`, `snapshot`, `expired` |
| Sender thread | `relay.rs` `send`, `pause` | session, pending frame, attempts, delay, next_send | connect, poll, take the head, write, finish, give up a session, final drain |
| DNS lookup | `relay.rs` `resolve` | detached thread, one-shot channel | spawn, answer, give up waiting |
| Owner | `relay.rs` `Relay` | two join handles, drain time | `start`, `stop`, `Drop` |
| Source table | `core/src/sources.rs` | at most 256 rows, never evicted; two rings of buckets per row | `received`, `forwarded`, `dropped`, `snapshot` |
| Framing | `core/src/framing.rs` | none | `frame`, `valid_message` (RFC 5424) |
| DTLS transport | `core/src/transport.rs`, `dtls-openssl/src/lib.rs` | SSL object, retained frame, budget, timers | `connect`, `send`, `poll`, `close` |
| Configuration | `core/src/config.rs`, `core/src/oidc.rs` | file and memory | `load`, `parse`, `validate`, `save` |
| Agent commands | `cli/src/web.rs`, `cli/src/main.rs` | the relay, the current configuration and its path | `start`, `stop`, `status`, `save_config`, `load_config` |
| Agent process | `cli/src/main.rs` `run` | signal flag, server | start-up, one request at a time, end |
| Authentication | `cli/src/auth.rs` | flows, sessions, pending logouts, the provider | login, callback, logout, expiry, limits |
| Desktop shell | `desktop/src/main.rs` | the same commands behind a mutex | start, stop, status, exit |
| Console | `ui/app.js` | last status, `busy`, `loggingOut`, form lock | loads, polls status, issues commands, signs out |

How they interact. The listener, the sender and the owner share `State` behind
one mutex; nothing else is shared, and no condition variable is used: each
thread polls `stop_at`. A critical section is entered, left, and later entered
again with values that were read in between, most of all in the sender, which
builds a frame under the lock, writes it without the lock and then pops the
head of the queue under the lock. The sender calls the connector and the
session (traits of `transport.rs`), whose OpenSSL implementation keeps a partly
written frame and insists on getting it again. The lookup thread answers on a
channel and is never joined. The agent owns at most one relay and calls it from
the one thread that serves HTTP; the desktop shell calls it from worker threads
behind a mutex that its exit handler takes too. The console polls the agent,
behind a login whose state is in three tables of the agent and in the cookies
of browsers.

What is hard here, and what makes each component correct:

* **Stop racing everything.** `stop()` sets a deadline while the listener may
  hold a datagram, the sender may be in a lookup, a handshake or a write, and
  the listener may fail by itself and set another deadline. Nothing may be
  queued after the final drain, the deadline must not move back, delivery must
  end with it, and `stop()` must return.
* **Accounting.** `received = forwarded + dropped + queue_depth` (README.md,
  *Counter semantics*) across five drop sites, the pop, the final drain and
  their per-source twins in a table that may be full.
* **Order and at-least-once delivery.** "FIFO, drop newest on overflow",
  "ambiguous write retries may duplicate messages" (README.md): duplicates are
  repetitions of the last message only, never a reordering, never a gap that is
  not a drop.
* **The retry contract of a session.** Half-written frames, sessions that die
  with one, budgets that differ from session to session.
* **The byte gauge and the limits of the queue**, kept incrementally.
* **The error shown**, written by two threads and cleared by one.
* **The handshake and the blocked write**, two loops around calls that decide
  nothing about time: a peer may keep each alive.
* **Traffic windows** whose slots are reset only when they are reused.
* **Back-off.** The delay, the address counter and the pacing clock survive the
  sessions they were made for, and each is reset by something else.
* **The reader of messages**, positions and look-ahead over a quoted grammar.
* **Settings that are migrated, resolved and checked**, in an order that matters.
* **Login flows.** A cookie and a URL parameter travel apart, each may be old,
  and every key is for one use; three tables have limits and expiring entries.
* **Several pages and one agent.** Commands and polls of pages that show an old
  status, a relay that ends by itself, a file that is rewritten in place.
* **A page that awaits three requests side by side**, with late refusals around
  a sign-out.
* **The end of a process**: signals during start-up, an exit handler that
  competes with commands for a mutex.

PROJECT.json lists each hazard at its line with the properties that cover it.

## 2. Modules

| Module | Models | Extends or instantiates |
|---|---|---|
| `Framing` | `frame`: the length of a frame | |
| `Sources` | the source table and its three operations | |
| `RelayState` | `State`, the drop count, `finish_front` | Sources, Framing |
| `Listener` | `listen` | RelayState |
| `Resolver` | the lookup thread and its channel | |
| `Sender` | `send`, the caller's side of `resolve`, the use of a session | RelayState, Resolver |
| `Relay` | `Relay::start`, `stop`, time, the composition and its fairness | Listener, Sender |
| `Transport` | the contract of `Session`: budget, retained frame, close | |
| `FifoRelay` | abstract promise of a relay, no code | |
| `RelayProperties` | the properties; the mappings to `FifoRelay` and `Transport` | Relay |
| `RelayErrors` | `last_error`, superposed on the steps of `Relay` | RelayProperties |
| `MCRelay`, `MCRelayErrors` | instances for TLC | RelayProperties, RelayErrors |
| `DtlsSession` | `dtls-openssl/src/lib.rs` under the sender that calls it; implements `Transport` | Transport |
| `MCDtls` | instance for TLC | DtlsSession |
| `Windows` | the two rings of buckets and the three rates | |
| `Retry` | `send`: back-off, address rotation, pacing, with a clock | |
| `Rfc5424` | `valid_message` beside the grammar of RFC 5424 | |
| `Settings` | `Config::parse`, `validate`, `to_toml`, the migration in `oidc.rs` | Framing |
| `MCSequential` | the four modules above side by side, for TLC | Retry, Windows, Settings, Rfc5424 |
| `Auth` | `auth.rs`: login, callback, logout, gate over the three tables | |
| `MCAuth` | instance for TLC (two cfgs) | Auth |
| `Agent` | `web.rs`, `main.rs`, `Config::save`: commands, the file, the process | |
| `Console` | `app.js` on several pages, HTTP in between; composed with `Agent` | Agent |
| `MCConsole` | instance for TLC with symmetry | Console |
| `Page` | `app.js` on one page: loading, login session, sign-out, what is shown | |
| `Server` | `main.rs` `run`: start-up, requests, signals, the end | |
| `Desktop` | `desktop/src/main.rs`: commands, mutex, exit handler | |
| `FoldLemmas` | induction over sets, folds and sums, recursive functions, powers of two; no code | |
| `RelayProofs` | theorems about the relay | RelayProperties, RelayErrors, FoldLemmas |
| `SequentialProofs` | theorems about the sequential parts | Retry, Windows, Settings, Rfc5424, FoldLemmas |
| `DtlsProofs`, `DesktopProofs`, `AuthProofs`, `ConsoleProofs` | theorems | the module of that name |
| `ServerProofs` | theorems about the process and a page | Server, Page |

Operators marked *Mutation* in the modules are plausible bugs, used to see that
each property can fail; no specification refers to them.

### Correspondence

*One critical section, one step.* Every region of the code that holds the mutex
is one action, and so is each call on the socket, the channel or the session
between two regions. `Listener` has a program counter with the two places where
the thread can be seen from outside (`check`: about to look at `stop_at`;
`recv`: waiting for a datagram). `Sender` has fourteen, named after the code:
`top` (the check of `stop_at`), `connect`, `lookup`/`recv_lookup` (the loop of
`resolve`), `handshake`, `connected` (there is a session, not shown yet), `failed`
(the `Err` arm), `poll`, `write`, `sent` (the write is done, the lock not yet
taken), `broken` (the session is closed and gone, the lock not yet taken), `final`,
`drain` (the last session is closed), `done`. A session is made and given up
without the lock (relay.rs:332, 415, 439), and what a snapshot shows of it follows
under it (relay.rs:339, 418, 441). `owner` is where the caller of `start` and
`stop` stands. `Drop` calls `stop`, so it is the same step.

*Messages.* A message is its reception number, its canonical source address and
its length; `valid` on a datagram stands for `framing::valid_message`. Reception
numbers are the value of `messages_received`; they exist for the properties.
An address is a host and whether it is written as an IPv4-mapped IPv6 address,
because `canonical_ip` is applied at three places and must be at each.

*Sessions.* `session.mtu` is `max_plaintext`, fixed when the session is made;
`session.unfinished` is the frame the transport retains after `WouldBlock`. A
write may take the frame, block, or fail with the frame sent or not sent: the
timeout of a blocked write (relay.rs:404) and an error are the same step of
`Sender`, because it does the same for both. `DtlsSession` has the other side:
`connect` with one step for each question its loop asks (cancelled? what does
SSL_connect say? too late?), the certificate verdict and the budget, `send` and
`poll`, and every way a session is closed and dropped. A write that would block
leads to a place of its own, `blocked`, where the sender looks at the clock of the
first attempt and repeats or gives up. OpenSSL and the peer are the choice among
the results of its calls. Both are shown to keep `Transport`,
so the two models meet in one contract.

*Time.* In `Relay`, `stop_at` is absent, ahead of now, or due; one action lets
it become due. Pauses only wait and are part of the step before them; any
attempt may follow the previous one after any time. In `DtlsSession`, `elapsed`
counts from the start of a handshake or of a write and grows at any time. In
`Retry`, `Windows` and `Auth` there is a clock.

*The error.* `RelayErrors` adds `last_error` to `Relay` by what a step does to
the relay's variables: the step that fails the listener, the one that shows an
established session, the two that go back to `top` with "retrying".

*History.* `wire` is the sequence of message numbers whose frame left the host,
repetitions of the last one counted once; `late_writes` counts writes completed
after the deadline; `late_tries`, `cancelled_tries`, `late`, `started`,
`stopped` and `in_time` in other modules are of this kind. No guard reads them.
`signed_out` of a page and `tried` of the retries are as well. `DtlsSession` also
counts `shutdowns`; the flag `closed` of the code is set with
that call and nowhere else, and is defined as "the count is not zero".

*Source table.* Rows and three counters; the windows of a row are the module
`Windows`, because their only inputs are the clock and the forwards of that row.

*Retry.* The locals `attempts`, `delay` and `next_send` of `send`, with the steps
of `Sender` that touch them and a clock. A connection attempt is one step here:
what it waits for is in `Sender`. Each takes a new lookup, whose answer is any of
`Answers`: sequences of addresses that may differ in order and in length, and the
one used is at `attempts` modulo the length. `jitter % (delay / 2 + 1)` is any number below
the modulus. A pause lasts to `wake`; when the drain deadline cuts it short the
sender leaves its loop, so that nothing follows it.

*Rfc5424.* Texts are sequences of characters, one for each class the reader tells
apart; a digit is its value. What the code cuts off the front of `rest` is here
the position from which it reads on. `ValidRest` follows the code's loop over
elements, parameters and look-ahead: `ElementEnd`, `ParameterEnd` and
`ClosingQuote` are the places where its inner loops leave off, 0 where it returns
false. `STRUCTURED_DATA` is the grammar, declaratively: it says that there are
places that divide the text, not how to find them. The timestamp is a record of
what the checks around the time library look at, and that library is the predicate
`Parses`; what `ReaderExact` says of timestamps is therefore little, namely that the
checks around it leave no class of its inputs out.

*Settings.* A file is three sections of entries. Numbers are real, with the
limits of `validate`; names, URLs and paths are the classes its rules tell
apart. `parse` migrates, resolves, then validates, in the order of
`Config::parse`; `Saved` is `to_toml`.

*Auth.* One request is handled at a time (`main.rs:114`), so a request is one
step, and the clock moves inside it as far as the provider takes. Every request
prunes the tables first (`Live`), whatever it is. The random keys of a flow, of
its session and of its logout are the number of the login; a browser may
present any key that it was ever given, or none, and a callback may carry the
state of any login begun so far. Every early return of `finish_login` before the
exchange is `CallbackDenied`, every one after it `ExchangeDenied`. The library's
check that the ID token has not expired is the guard on `expiry` of
`LoginCompletes`. One clock stands for the wall clock, in which tokens expire, and the
monotonic one, in which entries do. A restart empties the tables and leaves the cookies.

*Agent and Console.* A command is one step, because one thread serves requests and
nothing else touches `Agent`. To the agent a relay is a number, its settings and
`running`, which the relay may clear by itself (relay.rs:452) and nobody sets again.
`status` stands for all counters of the relay it names. The file is the settings in
it, or cut short; it is what the next start of the process loads. `save` truncates
the file and rewrites it in place, so `SaveFails` and `SaveInterrupted` may leave
(`LeftBySave`) the old settings, the new ones, a part that reads as others because
defaults fill it, or nothing that can be read. A page has one poll and one command
under way at most.

*Page.* The script awaits one request while it loads, one poll of the timer and
one of a button; `net` has a place for each. `Serve` is the agent's gate and
answer, `Lose` a request or answer that comes to nothing; a status may be old
when it is rendered, because the relay may change between the two. The
navigation asked for last is the one that takes place.

*Server.* `at` is where `run()` stands: the start-up in its order, then the
loop. `waiting` holds what the server has accepted, and the oldest is served. The
body of a command is read (`body`) and every answer is written (`answer`) on the one
thread, and how long that takes is up to the client: `BodyRead` and `AnswerWritten`
are steps of the world, and no fairness speaks of them.
What a request does to settings is in `Agent`, what it does to logins in `Auth`.

*Desktop.* The mutex is `lock`; `start` gives up a relay that ended by itself in
a step before the new one, because it can fail in between. Tauri's main thread
runs the command `status`, which is not async, and the exit handler, one at a time;
the process ends when the handler returns.

## 3. Runs

All runs pass except the last three, which show findings (below).
`CHECK_DEADLOCK FALSE` is set because these systems do stop: a relay that was
stopped or whose start was given up has no thread left, a process ends, and in
the other instances the clock, the starts or the edits are bounded.

| Run | Specification | Checks | Distinct states |
|---|---|---|---|
| `relay` | `RelayErrors!ErrorSpec` | `Accounting`, `PerSourceAccounting`, `BytesExact`, `InOrder`, `RetryContract`, `StatusCoherent`, `StopHonoured`, `AtMostOneLookup`, `ErrorTold`, `ImplementsPromise` | 1 226 000 |
| `live` | `Relay!FairSpec` | `StopCompletes`, `NoneStuck` | 55 600 |
| `sequential` | `MCSequential!MCSpec` | `BackedOff`, `Rotation`, `Paced` (Retry); `RatesExact` (Windows); `ReaderExact` (Rfc5424); `ValidSuffices`, `SavedLoads` (Settings) | 478 000 |
| `auth` | `Auth!Spec` | `LimitsExact`, `AdmittedInTime`, `CompletedWhereBegun`, `SingleUse` | 281 000 |
| `console` | `Console!Spec` | `ShowsWhatRuns`, `ErrorsChangeNothing` | 969 000 |
| `dtls` | `DtlsSession!FairSpec` | `OneLateTry`, `OneShutdown`, `EndsInTime`, `KeepsContract` | 560 |
| `desktop` | `Desktop!FairSpec` | `LatestStatusShown`, `StoppedOnExit`, `ExitCompletes` | 1 400 |
| `page` | `Page!FairPageSpec` | `SignOutStays`, `ExpiryNoticed`, `LoadSettles`, `CatchesUp` | 12 400 |
| `server` | `Server!FairSpec` | `NoRelayLeft`, `EndsWhenItShould`, `EachAnswered` | 4 500 |
| `logout_full` | `Auth!Spec` | `ProviderLogoutOffered`, violated | |
| `sign_out_lost` | `Page!PageSpec` | `SignOutHonoured`, violated | |
| `empty_path` | `Settings!FileSpec` | `EmptyPathRefused`, violated | |

The type invariants are not checked again in these runs where they are proved for
all values of the constants: `TypeOK` of `Relay`, `Console`, `Auth`, `Desktop` and
`Server`, and that of `Retry`, `Settings` and `Page`, is a theorem of section 4.

### Bounds

**relay.** Three datagrams out of six kinds, one for each way through the
critical section: from a host listed by its mapped address (with either
spelling), from a listed one, from one that is not; of size 1, 2 and above the
limit; valid and not. The table has two rows for three hosts, so a host can be
untracked while its messages are queued. The queue holds two messages and three
bytes, so that it can be full by number, by bytes, and exactly at both limits.
Sessions have budget 3 or 4: a message of size 2 fits one and not the other, so
a retained message can become too large for the session that replaces the one
it was measured for. Three datagrams suffice for one in flight, one behind it
and one that finds the queue full; datagrams are the only bounded counter, so
sessions, retries and lookups are unbounded.

**live** uses two datagrams and three kinds, those that matter for the queue:
what it asks is about control, and the state space has all its cycles.

**sequential.** The state spaces of its parts add up, because one part moves in each
behaviour. *Retry*: delays 2, 4, 6 (the maximum is not a power of two times the
initial delay, so the cap cuts a doubling), a gap of 4, longer than the shortest way
back to a session, and three answers of the resolver, two that differ only in order
and a longer one; 12 ticks hold four failures in a row or a failure between two
messages. *Windows*: 60 seconds are scaled to 3 and 1440 minutes to 3, with 4 and 3
slots, as in the code one more than the seconds window and exactly as many as the
minutes window. The clock runs to 19, more than two turns of the minute ring (9
seconds each) and four of the second ring, in jumps of any length; four messages can
fill all slots of either ring. *Rfc5424*: all texts within two edits (insertion,
deletion, replacement) of four seeds that have every construct: an escape of each
kind, two parameters, two elements, a message with its byte order mark. Names are
limited to 2 characters instead of 32, so that both sides of the limit are near. An
edit also changes the priority, or makes the timestamp any of its kinds. *Settings*:
the default file with up to three entries changed to any value of their classes,
numbers to both sides of each limit: migration needs three entries to come together,
and no rule more.

**auth**: two browsers (interchangeable) and three logins fill tables of two
flows, one session and one logout, with one left over to be refused, to replace
an entry or to be mixed up with another. A second has two ticks, so that a
session can outlive its token by one; the clock runs to 5, past the expiry of
every kind of entry.

**console**: two pages, two settings (all interchangeable) and invalid ones,
three commands and three starts of a relay, by command or by process: enough for
a start of each page around a stop or a failure, or for a save between two
starts.

**dtls**: budgets of no room, some room, and more than a record holds (cut to
4); frames that fit both, one or none of the sessions, and an empty one. The
timeout is 3 steps of the clock; sessions are unbounded.

**desktop**: two workers, so that one waits for the mutex while the other holds
it and the window is closed; three relays, so that one that ended by itself has
a predecessor and a successor.

**page**: no constants. **server**: two clients, each with one request at a
time, so that one waits while the other is served.

### Properties

*The relay.* `Accounting` and `PerSourceAccounting` are the documented law of the
counters, in total and per row. `BytesExact` is the gauge the byte limit is compared
with. `InOrder` is `Fifo` (first transmissions in order of reception) and
`FrontIsInFlight` (the message popped is the message sent); with `ImplementsPromise`
the relay is altogether a bounded queue, within its limits, whose head is forwarded
only after it has left the host. `RetryContract` is what OpenSSL's session demands
of its caller. `StatusCoherent` relates what the console shows to what the threads
hold, and says how far it may lag behind: by the one critical section that the
sender enters next, after a session was made or closed, and never with a
message in flight beside a status other than "established" or an empty queue.
`ErrorTold` relates the error to the status beside it.
`StopHonoured` is `DrainedAtEnd` (nothing enters the queue after the final drain)
and `AtMostOneLateWrite`; `StopCompletes` says that a stop ends. `AtMostOneLookup`
and `NoneStuck` are about lookups and head-of-line blocking.

*The transport.* `OneLateTry` and `EndsInTime` bound the handshake and the
blocked write, in calls and in time, although a peer that keeps answering keeps
each call from failing. `OneShutdown` is about `close` and `drop` on every error
path. `KeepsContract` is the refinement of `Transport`.

*Sequential parts.* `BackedOff` says what resets the back-off (a sent message, not a
handshake) and what a wait may be, `Rotation` that no address is passed over while
the resolver keeps to its answer (one that changes its order between two attempts
may pass one over, see section 5), `Paced` that a reconnect releases no burst.
`RatesExact` compares the three rates with the history of forwards. `ReaderExact`
compares the reader with the grammar, both ways. `ValidSuffices` says that accepted
numbers are fit for the parts that rely on them; `SavedLoads` that settings survive
a save, and that an old file never loses its provider or its secret by migration.

*Agent, pages, login.* `ShowsWhatRuns` is `SettingsInForce` and `LatestStatusShown`:
pages with an old view cannot change a running relay or what is shown of it.
`ErrorsChangeNothing` is about the order of steps in a command that fails; it speaks
of settings and relay, not of the file. `CompletedWhereBegun` and `SingleUse` say
that a login, its code and its logout are used once and by the browser they belong
to; `LimitsExact` has the limits from both sides; `AdmittedInTime` bounds a session
by one hour and by the ID token. That bound is not exact in the code: the remaining
life is computed from whole seconds, so that a session may outlive its token by less
than one second (README.md:257 rounds this off), and the property says so.
`SignOutStays` says that nothing refused late takes a page that was told it is
signed out to a login; it speaks of the sign-outs with neither `/auth/session`
awaited nor a second click, `SignOutHonoured` (a finding) of all. `ExpiryNoticed`,
`LoadSettles` and `CatchesUp` are about the answers a page gets late, refused or
lost.

*Processes.* `LatestStatusShown` (the status is that of the latest relay, also after a
start that gave it up and failed), `StoppedOnExit` and `ExitCompletes` for the
desktop shell, `NoRelayLeft`, `EndsWhenItShould` (a signal ends the process, a
relay that nobody can restart ends it too, and nothing else does in order) and
`EachAnswered` for the agent. The last, and what the former says of the signal,
hold under a premise, `TransfersEnd`: no client keeps the thread for ever in the
transfer of its body or of its answer. Without it they are false, see section 5.

### Findings

**logout_full.** A sign-out while another browser's, or the same browser's,
logout is pending and the table is full: the code (auth.rs:515) then does a local
sign-out only, although discovery advertised an endpoint. README.md:263-268
promises the provider logout whenever a valid endpoint is advertised, and
documents limits for flows and sessions only.

**sign_out_lost.** `invoke` looks at `loggingOut` before it sends a refused page
to the login (app.js:6); `loadUser` does not (app.js:49). A sign-out while
`/auth/session` is under way may therefore end in a new login instead of the
provider's logout. A second click on "Sign out" before the page has left does it
too: it is refused, the flag is taken back (app.js:44), and a late 401 of a poll
goes to the login. The shortest counterexample shows the former.

**empty_path.** `validate` says "Credential paths cannot be empty"
(config.rs:277), but `parse` resolves paths first, and `base.join("")` is not
empty: the check can never fail on a file.

### Fairness

`Relay!FairSpec` assumes what the operating system gives: each live thread is
scheduled (`WF` of the listener's and of the sender's steps as a whole), the
owner proceeds once it has been asked to do something, and the clock reaches
the deadline. It does not assume that the lookup ever returns, that a handshake
or write ever succeeds, or that anybody calls `stop()`: `StopCompletes` says that
a stop needs none of that. The sender's choice between outcomes of one call is
not fair, so the environment may choose the worst for ever. That each call
ends is part of the model: the socket has a read timeout (relay.rs:47), the channel
is polled every 20 ms, and `DtlsSession` shows that the connector ends
(`EndsInTime`). `NoneStuck` has its assumption on the left of its implication:
strong fairness of the good outcomes (a lookup finds, a handshake succeeds, the
head is taken, a write is taken), which is what "the collector becomes reachable
again" means for a loop that retries without limit. `SF` of taking the head also
stands for the pacing clock: `next_send` does come.

`DtlsSession!FairSpec`: the thread is scheduled while it makes a handshake or writes
a frame, and time passes. OpenSSL and the peer owe nothing: each call may want to be
repeated for ever, and it is the two looks at the clock (lib.rs:183, relay.rs:404)
that end it. Without the one in `CheckWrite`, or with a clock that each repetition
starts anew, `EndsInTime` fails.

`Page!FairPageSpec`: timers fire, answers that arrived are processed, a navigation
takes place, and a request is served or fails (fetch rejects when the agent is
gone). Strong fairness says that not every poll is lost; without it a page
could not show anything. The user need not click on anything.

`Server!FairSpec`: the one thread runs on, where it does not wait for a client. This
assumes that the provider answers or times out, and that `Relay::stop` returns,
which `StopCompletes` shows. Clients owe nothing; what they may spoil is the premise
of the properties.

`Desktop!FairSpec`: a worker that holds the mutex goes on, and the main thread
gets a mutex that is free again and again; no worker need be fast.

## 4. Proofs

TLAPS proves the following for every value of the constants allowed by the named
assumptions (`LimitsAssumption`, `SourcesAssumption`, `ListenerAssumption`,
`MtusAssumption`, `RetryAssumption`, `WindowsAssumption`, `ReaderAssumption`,
`DtlsAssumption`, `AuthAssumption`, `AgentAssumption`, `ConsoleAssumption`,
`DesktopAssumption`): every set of hosts, datagrams, budgets, browsers, pages,
workers and clients, every text, every limit and every time. The assumptions say
that limits, budgets and lifetimes are positive, as `Config::validate` requires or
the constants of the code are.

| Module | Theorem | Statement |
|---|---|---|
| `RelayProofs` | `TypeCorrect` | `Spec => []TypeOK` |
| | `BytesAgree` | `Spec => []BytesExact` |
| | `CountersAgree` | `Spec => []Accounting` |
| | `SourcesAgree` | `Spec => []PerSourceAccounting` |
| | `QueueStaysWithinLimits` | `Spec => []WithinLimits` |
| | `DeliveredInOrder` | `Spec => []InOrder`, from `OrderIsKept` and `HeadIsInFlight` |
| | `WritesAreRepeated` | `Spec => []RetryContract` |
| | `SenderKeepsContract` | `Spec => KeepsContract`: refinement of `Transport` |
| | `StatusIsTrue` | `Spec => []StatusCoherent` |
| | `StopIsHonoured` | `Spec => []StopHonoured`, from `NothingLeftBehind` and `DeadlineBoundsDelivery` |
| | `OneLookup` | `Spec => []AtMostOneLookup` |
| | `StopNeverTakenBack` | `Spec => StopIsFinal` |
| | `PromiseKept` | `Spec => ImplementsPromise`: refinement of `FifoRelay` |
| | `ErrorIsTold` | `ErrorSpec => []ErrorTold` |
| `SequentialProofs` | `RetryTypeCorrect` | `TimingSpec => []TimingTypeOK`, with the bounds of the delay |
| | `RetriesAreSpaced` | `TimingSpec => []WaitInv`: the bounds of a wait |
| | `RetriesBackOff` | `TimingSpec => []BackedOff` |
| | `WritesArePaced` | `TimingSpec => Paced` |
| | `AllAddressesTried` | `TimingSpec => []Rotation` |
| | `RatesAreExact` | `RatesSpec => []RatesExact` |
| | `FileTypeCorrect` | `FileSpec => []FileTypeOK` |
| | `AcceptedNumbersSuffice` | `FileSpec => []ValidSuffices` |
| | `SavingLosesNothing` | `FileSpec => []SavedLoads` |
| | `ReaderIsExact` | `ReaderSpec => []ReaderExact` |
| `DtlsProofs` | `ToldOnce` | `Spec => []OneShutdown` |
| | `HandshakeGivesUp` | `Spec => []OneLateTry` |
| | `DtlsKeepsContract` | `Spec => KeepsContract`: refinement of `Transport` |
| `AuthProofs` | `TypeCorrect` | `Spec => []TypeOK` |
| | `SessionsAreOwn` | `Spec => []CompletedWhereBegun` |
| | `UsedOnce` | `Spec => []SingleUse` |
| | `LimitsAreExact` | `Spec => []LimitsExact` |
| | `AdmissionsInTime` | `Spec => []AdmittedInTime` |
| `ConsoleProofs` | `TypeCorrect` | `Spec => []TypeOK` |
| | `ShownIsWhatRuns` | `Spec => []ShowsWhatRuns` |
| | `RunningRelayStays` | `Spec => NeverReplaced` |
| | `ErrorsAreHarmless` | `Spec => ErrorsChangeNothing` |
| `DesktopProofs` | `TypeCorrect` | `Spec => []TypeOK` |
| | `ExitStopsRelays` | `Spec => []StoppedOnExit` |
| | `LatestIsShown` | `Spec => []LatestStatusShown` |
| `ServerProofs` | `TypeCorrect` | `Spec => []TypeOK` |
| | `NoRelayIsLeft` | `Spec => []NoRelayLeft` |
| | `OutlivesItsRelay` | `Spec => []OutlivesRelay` |
| | `OneMoreRequest` | `Spec => []OneLateRequest` |
| | `PageTypeCorrect` | `PageSpec => []PageTypeOK` |
| | `SignOutIsKept` | `PageSpec => []SignOutStays` |

How the argument goes:

* **`TypeCorrect` of the relay is not a formality.** `queue_bytes \in Nat` is the
  absence of a `usize` underflow in `finish_front`, and it is not inductive: the
  gauge must be known to cover what is still queued. `TypeInv` is therefore
  `TypeOK /\ BytesExact`: the gauge is the sum over the queue, to which a push adds
  the new length and from which a pop takes the first.
* **Folds and sums.** Sums over sets are folds of the community modules, so they
  rest on recursion and induction. The library states induction for an
  operator, which the provers cannot instantiate; `FoldLemmas` states it for a
  set: a set of subsets that has the empty one and every one-element extension
  has all finite ones (`SubsetInduction`, from the well-foundedness of strict
  inclusion), a set of numbers with 0 and all successors is `Nat`
  (`NatSetInduction`). From these follow that a fold exists and does not depend on
  the order (`FoldExists`, `FoldsAgree`), that a sum over a set is that over a part
  plus an element (`SumSplits`), over the image, the support or a union, and that
  2^n doubles with n (`PowersOfTwo`).
* **Who may still move.** `OwnerInv` ties the owner to the threads (no sender
  before `StartSender`; `stopping` once the owner waits; a joined thread is
  done). `DrainInv` says that after the sender is done the queue stays empty,
  because `Admitted` looks at `stop_at` again under the lock.
* **The frame.** `FrameInv` is the conjunction of `IdsPositive` (so that no
  message has the frame `NoFrame`), `SessionInv` (what the program counter says
  of session and pending frame, `RetryContract` among it) and `HeadInv`
  (a pending frame is that of the head). The listener only appends, and the
  sender alone pops: `PushFacts` and `PopFacts` carry `HeadInv` over both.
* **Order.** `FifoInv` adds to `Fifo` that every queued or transmitted number is
  at most `messages_received`, so that a new message goes behind all of them, and
  that the last transmitted number is that of the head at most, strictly below it
  unless the head is being written again.
* **The promise.** `PromiseStep` maps each step to one of `FifoRelay` or to a
  stutter under these invariants: a datagram to `Accept` or `Refuse`, the first
  write of a message to `Deliver`, `finish_front` to `Forward` or `Discard`, a stop
  to `Close`, the final drain to `Abandon`. `IdsFacts` says what the queue's
  numbers do when it is pushed and popped.
* **The source table.** `SourceInv` adds to `PerSourceAccounting` that a source
  without a row has nothing queued or finds the table full: otherwise it could
  get its row while a message of it is queued that the row never received. Rows are
  never given up, so a full table stays full. `CountFromPush` and `CountFromPop`
  count a source's messages across a push and a pop, the latter by the bijection
  between the places before and after.
* **Accounting, status, lookups, errors and late writes** are inductive with what
  the program counter says of session and status, `TypeInv`, `FrameInv` and, for
  `LateInv`, the fact that a write after the deadline leaves the sender on its way
  out of the loop.
* **Retry.** `BackedOff` is inductive with the types: after the kth failure the
  delay is the kth doubling cut at the maximum, and cutting early or late is the
  same (`DelayAfterNext`). `WritesArePaced` needs that `next_send` is never before the last
  message plus the gap, and that nothing but a sent message moves it.
  `AllAddressesTried` rests on the addresses tried being those at the consecutive
  values of `attempts` modulo the length of the answer, since it last changed; that
  each place is met among n consecutive numbers (`RemainderMet`), and so each address,
  is a lemma of arithmetic.
* **Windows.** A ring does not hold the truth of a slot, it holds the last tick
  written to it. `Counts` says that: a slot in use has the number of forwards in its
  own tick, and a tick with forwards is in its slot or was followed by a later one
  that took the slot. A rate reads only ticks younger than a turn of the ring, for
  which the second case is impossible, so each is counted once (`WindowExact`). The
  minutes are the sums of the seconds in them (`MinutesAddUp`), which relates
  both rings to one history.
* **Settings.** Whatever entries a file has, `validate` decides on what migration and
  resolution left: the limits it compares with give the bounds that the relay, the
  framing and the transport rely on (`NumbersSuffice`). A saved file has nothing to
  migrate and only resolved paths, so both passes are the identity on it
  (`MigratedOnce`, `ResolvedTwice`).
* **Reader.** Reader and grammar are recursive functions of a position.
  `RecursionExists` says that such an equation has a solution when each value depends
  on values of lesser measure (here, what is left of the text), and
  `DownInduction` carries a claim from the end of the text to its beginning.
  The grammar leaves open where a part ends; the reader takes the first place that
  fits. They agree because there is one place only: a character is escaped
  exactly if an unescaped backslash precedes it (`EscapedNext`), so that a value has one
  closing quote (`ClosingQuoteExact`), a parameter and an element one end
  (`ParameterExact`, `ElementExact`) and one id; `ParametersExact` and
  `ElementsExact` extend this to what is repeated, with the ids read so far.
  `PriorityExact` is arithmetic on at most three digits. Nothing depends on the
  seeds or the number of edits, only on the type.
* **Transport.** `SslInv` says what the place of the thread tells of its session,
  `TriesInv` that the late calls are counted only between the two questions of a
  round.
* **Login.** A login is in one table at a time: `FlowsInv`, `SessionsInv` and
  `LogoutsInv` say so, with what each table implies for the exchanges, handoffs
  and lifetimes. Most steps only take entries away; `FewerKeeps` does those once.
* **Console.** Every step of the composition is a command, a step beside the
  commands, or leaves the agent alone (`StepsOfAgent`), so pages and network need
  no invariant. `AgentInv` adds to the properties that a relay that is there has a
  number and a process around it: otherwise one that ends could look like none.
* **Desktop.** `ExitInv`: a worker that got the mutex before the exit handler has
  given it back when the handler runs, so that the relays started in time are
  those the handler sees.
  `RelayInv` says that the latest relay is the one that is there or the one whose
  status was kept, between any two steps of a start.
* **Page.** `LeavingInv`: after an answered sign-out the flag is up and `/auth/session`
  is behind, until another sign-out is asked for; so every refusal finds the flag.
* **Server.** `LifeInv` says where `run()` may stand while there is a relay (after
  the handler is set, which is why the order of the start-up matters), and that one
  request may be taken up by a receive that had begun before the signal.

Only model-checked: liveness, which the prover does not handle under fairness:
`StopCompletes`, `NoneStuck`, `EndsInTime`, `ExitCompletes`, `ExpiryNoticed`,
`LoadSettles`, `CatchesUp`, `EachAnswered` and the leads-to parts of
`EndsWhenItShould`.

## 5. Not modelled

* Timestamps, peer fingerprints and `retry_attempts` of a status; the JSON of
  snapshots. They are shown and decide nothing.
* `last_error` is kept by its author ("listener" or "dtls"), not its text. That a
  session established after the listener failed clears the listener's reason
  (relay.rs:342) is in `RelayErrors`; no property calls it wrong, because no text
  of the repository promises the reason to last.
* Early failures of `Relay::start` (invalid configuration, bind, spawn of the
  listener): they leave nothing behind. A mutex poisoned by a panic.
* `u64` wrap-around of message counters (out of reach in the life of a process).
* In `Sender`, the delays between attempts, the rotation over addresses and the
  rate limit: any timing is allowed there, and `Retry` says which ones occur.
* In `DtlsSession`, the loading of credentials, the OpenSSL context and the
  fingerprint; OpenSSL and its timers are the choice among their results.
* In `Rfc5424`, the splitting of the header at its blanks, the version, the
  lengths of its four names, and the time library.
* In `Settings`, the TOML format, `normalize_name` (a name is valid or not) and the
  schema version.
* In `Auth`, the check of Host and Origin, cookie and page formats, and what
  makes discovery, a token, a claim or a group valid: each is an outcome of its
  handler.
* In `Agent`, `Console` and `Page`, the contents of forms, the allowlist editor,
  menus and formatting; in `Server`, the commands `config` and `check`, which
  change nothing.
* In `Desktop`, dialogs and file commands, which take no lock. A command that gets
  the mutex only after the exit handler may start a relay that the end of the
  process cuts off (`StoppedOnExit` speaks of the others); the repository
  promises that closing stops the relay, not which command may still come.
* What the code does not promise and a user may still meet. A client that stalls in
  the body it announced (web.rs:176) or does not take its answer holds the agent's
  only thread, other clients and the signal with it: no timeout ends that, and
  `TransfersEnd` excludes it. A save that is interrupted leaves a cut file
  (config.rs:209): `Agent` reaches it, no property forbids it. A resolver that changes
  the order of its answers can have `attempts % len` pass over an address for as long
  as it does. A request of the page that is never answered keeps it loading or busy:
  `FairPageSpec` assumes that each is answered or fails.
* Tests, packaging, CI and licences.

## 6. What could follow

The order of the work was: the relay and its promise; its timing and its rates;
logins; the agent and its pages; the transport; the processes; the reader and
the settings; and proofs after each. What is left: the splitting of the header
in `Rfc5424`; and one composition of `Server`, `Agent` and `Auth`, which meet in
one thread and share nothing else.
