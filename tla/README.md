# A TLA+ development of the open62541 interop adapter

The repository holds a set of *adapters*: command-line programs, one per OPC UA
stack, that all implement one contract (`docs/CONTAINER_CONTRACT.md`) so that
their servers and clients can be tested against each other. This development
models the C adapter, `adapters/open62541`: a server process configured by a
fixture, and a client process with one subcommand per service. The stack itself
(open62541) is external; what the models say of it is what the adapter's code
relies on.

## 1. Inventory

| Part | State | Operations | What is hard | What makes it correct |
|---|---|---|---|---|
| **Raw history read** (`server.c` 837-995, `client.c` 3365-3694) | one table of 16 continuation points; the client's page loop | read a page, release, refuse; client: one-shot, `--scenario continue` | several sessions share the table; a request the client gave up on is handled late; table and page limit | pages in order and complete, a released point stays released, every command ends |
| **PubSub error recovery** (`pubsub_server.c` 1156-1269, 1433-1476) | pending flag, delay, time of the last error, last state of each component | enable all, state-change callback, timed recovery round, clean-up | callbacks nested in enable calls; errors while a round is pending or running; failures nobody reports; backoff | nothing stays in Error unattended, one timer at most, errors that cease are recovered from |
| **Server life cycle** (`server.c` 20-106, 690-750, 1255-1280, 1320-1996, `main.c`) | where `server_run` is, the ready file, the LDS registration | load, remove stale file, start, apply PubSub, register, write ready file, serve, unregister, stop | crashes and restarts in one container, every early return, asynchronous registrations, signals | the ready file is true, exit statuses are honest, a signal stops the server |
| **PubSub keys / SKS pull** (`pubsub_server.c` 54-79, 460-680, 1333-1432) | key source of each SecurityGroup, in-flight and received flags, bounded list of secured groups | list a group, set or activate keys, pull, retry, refresh | timer, answers and refreshes interleave; limit of the list | one pull at a time, keys in place, keys arrive in the end |
| **PubSub configuration** (`pubsub_server.c` 113-460, 682-1155, 1389-1455) | created components, a list of at most 256 of each kind | add data sets, connections, groups, writers, readers; enable | any call fails half-way; references by name; limits of the list | everything exists and is wired as configured, or nothing is kept; children are enabled first |
| PubSub codec and message security | none | encode, decode, encrypt | bytes | round trip |
| Fixture loader (`fixture.c`) | none | parse JSON | - | - |
| Address space, methods, behaviours, events (`server.c`) | nodes; timers of changing values | method callbacks, timers | timers against client writes | values follow the fixture |
| **Alarms** (`server.c` 997-1255, `client.c` 3931-4383) | the fields of a condition and the event it reported last; the client's bounded lists of events and conditions | arm and reset, refresh, acknowledge, confirm, comment, wait for the event that shows the effect | notifications arrive before or after the answer of the call that caused them; other clients work on the same condition; callbacks of the stack between field writes | the event reported is the effect of this call, the refresh is complete, a reset condition is armed |
| Client connection, reverse connect (`client.c` 600-930) | endpoint selection, listening socket | connect, wait for ReverseHello | timeouts | the right endpoint, or the right exit status |
| **Client subscriptions** (`client.c` 2093-2936, 2997-3362) | stored notifications, counters taken from them; on the server the item's queue and modes | `subscribe`, `event-subscribe`, four scenarios of `subscription-lifecycle` | notifications are dispatched inside every call; deadlines in whole seconds; batches; failing, late and missing answers | counters stand on the right side of what was in flight, verdicts fit what arrived, nothing left behind, every command ends |
| Republish, transfer (`client.c` 3696-3930) | none beyond a call | one service call each | - | one answer, one exit status |
| Other client commands | none beyond a call | read, write, browse, call, node management | - | one answer, one exit status |
| **Event history** (`history_events.c`) | the client's pages and results; continuation points of the session | read one-shot or by pages, release, reuse; update: JSON events to fields | filters evaluated before or after a page is cut, limits, several nodes, answers lost, keys that differ between events | pages are the history asked for, no point left open, the exit tells the nodes, a value arrives under its own path |
| **Push management, Part 12 methods** (`push.c`, `part12.c`) | a server-side transaction; an open TrustList file | read the TrustList, add, remove, update, reset, apply, cancel | failure between any two steps; an answer lost after the call was executed | all or nothing, the exit tells the effect, file handles closed |
| **GDS pull** (`gds_pull.c`, `part12.c`) | application id, request id; at the GDS records and requests | find, register, request, poll, read the trust list, revoke, unregister | deadline against answer; two commands for one ApplicationUri | success is complete, polling stops in time, the command ends |
| Discovery client (`discovery.c`) | none | find servers, register with fallback | fallback | - |
| Value codecs, output (`codec.c`, `values.c`, `output.c`) | none | format, parse | - | - |

Interaction: `main` starts either a server (`server_run`) or one client command.
`server_run` drives a single-threaded event loop; the historian, the PubSub
callbacks, the retry timer and the registration timer all run in it, so
interleaving is between callbacks, between the calls they make and the reports
nested in them, and between processes. `pubsub_server_apply` reads the
configuration, creates components (listing the secured ones), starts the SKS
pulls, installs the state-change callback and enables everything. The ready file
is the only thing shared with the outside on disk.

The other adapters (Rust, Python, C#, Java, TypeScript, Go), the test scripts,
the fixtures and the certificates are not modelled.

## 2. Modules

| Module | What it models |
|---|---|
| `HistoryRead` | `interop_hist_read_raw` and `cmd_history_read` |
| `HistoryCursor` | abstract: a private cursor for each reader; `HistoryRead` implements it |
| `PubSubRecovery` | `enable_all`, `on_state_change`, `schedule_recovery`, `recover_cb`, the end of PubSub |
| `ServerLifecycle` | `server_run`, the ready file, registration with an LDS |
| `SksPull` | key sources, `apply_group_keys`, `sks_attempt`, `sks_retry_cb`, `sks_pull_cb`, `activate_keys_for_group` |
| `PubSubConfig` | `pubsub_server_apply` with what it calls; extends `SksPull` and composes the two |
| `Subscriptions` | `cmd_subscribe`, `cmd_event_subscribe`, `slc_revise`, `slc_publishing_mode`, `slc_monitoring_mode`, `slc_delete` and their callbacks |
| `EventHistory` | `cmd_history_read_events`, `cmd_history_update_events` |
| `TrustListRead` | `p12_read_trust_list`, a routine of the next two |
| `CertificatePush` | `push_steps`, `cmd_push` |
| `GdsPull` | `gds_steps`, `cmd_gds_pull` |
| `Alarms` | `cmd_alarms` with its callback, `alarm_arm` |
| `MC...` | instances for TLC |
| `HistoryReadProofs`, `ServerProofs` (life cycle and PubSub recovery), `PubSubConfigProofs`, `SubscriptionsProofs`, `EventHistoryProofs`, `CertificatePushProofs`, `GdsPullProofs`, `AlarmsProofs` | theorems and proofs |

Operators whose name begins with `Mut` are variants of the definition that
follows them with a plausible mistake in it; no specification uses them. They
show that each property depends on the code it is about. `PROJECT.json` lists
which property each one breaks, and the source lines of every definition.

### HistoryRead

`cps` is the table (`offset`, `inUse`, `released` per slot; a token *is* its slot, as in
the code, where it is the slot number plus a constant byte). `chan[r]` holds the requests
of client `r` the server has not handled, in order: a call that timed out leaves its
request there, in front of the next one. `run[r]` holds the locals of the scenario
(`curCp`, `reuseCpB64`, the pages collected, the status codes), `printed` the continuation
points that commands of any client have printed, each of which any later one-shot read can
be given (the server does not look at the session). A value that happens to be the token
of a scenario still running is left out. The server's five branches are five actions; each
`history_read_once` call of the client ends by `Receive` or `ServiceFault`. Clients may be
killed. Samples are numbered and a window is a range of samples, which is all the filter
by time leaves. `allocs` is a history variable.

Most properties are conditioned on `allocs <= NumSlots`: the table has not
overflowed. That condition is the code's own limit, since slots are never given
back; what happens beyond it is the subject of the run `history_overflow`.

`HistoryCursor` says what remains of all this for the user of one scenario: a
window, the samples shown so far, a verdict. Its steps are to begin, to show a
longer prefix, to settle the verdict (success only with the whole window), and to
leave. `ImplementsCursor` maps the locals of a scenario to it (`View`); the
server's steps and everybody else's are stuttering. A verdict that a late release
or reuse revised would not be. Once the table has overflowed the abstract
specification promises nothing, so the condition is part of it (`exhausted`).

### PubSubRecovery

`pending`, `delay`, `age`, `built` are the fields of `g_rt`; `state[c]` is the state
last reported. `timers` holds the remaining time of each registered callback (a
set, to let the pending flag fail to keep it single). The loops of `enable_all` and
`recover` are taken call by call (`calls` is what is left), and `StackReport` may
occur between any two calls, because enabling reports state changes before it
returns. Time is in ticks; a due timer runs before time passes. Registering a
callback may fail (`timerLost`), which the code does not answer.

### ServerLifecycle

`pc` walks through `main` and `server_run`; every call that can fail has its early return.
`Kill` (a crash) and `Signal` can come at any point. Files survive a process and are
described by the process that wrote them and by whether they are whole. Requests
to the LDS are asynchronous and unordered; the registration timer fires whenever
the event loop iterates, which includes the 1500 ms after the unregistration.
A registration timer that could not be added (the result is not looked at) is a timer
that never fires. The construction of the address space is one step that fails or not;
the map shows the first part of it.

### SksPull and PubSubConfig

`SksPull` is the part of the configuration that concerns keys. Which groups have
static keys and whether the server serves or pulls keys is chosen in `Init`. Groups
are listed one by one (`AddUser`, with the limit of the list), then pulls start,
then answers, the retry timer (if it could be added: the result is not looked at) and
the stack's own refreshes interleave.

`PubSubConfig` takes the loops of `add_published_datasets` and `add_connections` as
the set of the steps they make (`BuildSteps`), each with the indices of its loops
(`at`); the loops run through them in the order of these indices (`Before`), so the
next step is the one in `todo` that none comes before (`IsNext`). `Create` takes it,
with `AddUser` for a secured group, or `CreateFails`; `Created` starts the pulls,
`enable_all` goes through the lists in the same manner (`calls`), and then the event
loop runs. The ids of the configurations stand for the NodeIds that the stack gives
out, so the assumptions have them distinct. `stack` is
what exists in the stack, `built` the bounded list (`struct Built`) by which
components are found by name, enabled and later recovered. A failure frees the list
but not the components, which go with the server. `PubSubRecovery` stands on the
other side of that list: it begins with `enable_all` and treats the components as
given.

### Subscriptions

The six commands are straight-line code over one connection, so each is a
*program*: a sequence of steps in the order of the code (a service call, a loop
that waits for a number of notifications, a pause, `store.count = 0`, reading
`store.count`, printing), which a few actions interpret; `pc` is the step under
way. Only the results of CreateSubscription and CreateMonitoredItems change the
course (`CallEnds`, `FailAt`); the code drops the others. `Receive` takes the next
message of the connection wherever the code dispatches: in a loop, and inside
every synchronous call. The request of a call that timed out stays on the
connection, and so does its answer (`Fault`).

The loops compare `time(NULL)`, which counts whole seconds, so a loop of 200 or
500 ms may end at once and one of 10 s when it likes: `TimeUp` is always enabled.

The server is any OPC UA server: one monitored item whose queue discards its
oldest value (or, for `--discard-oldest false`, replaces its newest), a queue size
it may revise, monitoring and publishing modes, and a publishing timer that sends
everything queued in one message. It may publish before it answers the request that
caused the notification (`Overtake`), so that what a Write caused is dispatched inside
the call, before any mark taken after it; the stack drops a notification that comes
before the answer to CreateMonitoredItems. It may refuse any call, answer late, or die. A
*throttled* server does not sample at every change; the contract says of the
publishing scenario that it may fail against such a server, and `WindowVerdict` and
`ReportingIsTheWrite` except it. The extra event a server may insert when an event
queue overflows is left out. `sampled`, `discarded` and `late` are history variables.

### EventHistory

`run` holds the locals of the read command: the node, the page, the continuation
points, what was collected and the verdict so far. The server is external: a fixed
archive per node and the session's continuation points (`points`). An event is its
position in the archive and a page is a set of positions, since the server sends
events in the archive's order. A page may end anywhere, short or empty although more
follows (`Cuts`), which covers servers that evaluate the WhereClause before they cut
and servers that do so after; the server may also refuse a request, lose it, or lose
the answer. The one-shot read has one answer for all nodes, judged node by node
(`Judge`) as the code's loop does.

For the update command the interesting part is data: from JSON events with differing
keys to one list of SelectClauses (`sel`) and, per event, one field for each of them.
The loop that collects the keys is taken key by key (`at` is where it stands), with the
limit of its array; values are looked up again by key when the request is built. Keys
and values are model values; a path is a sequence of prefix and name, and the parsing
keeps what decides acceptance (empty names, namespace indices beyond 65535).

### TrustListRead, CertificatePush, GdsPull

`p12_read_trust_list` is a relation between the states of a read (`TrustListSteps`),
which both commands take step by step: translate, open, read chunks, close. A lost
answer leaves open whether the server executed the call (`Executed`), and a Read may
bring fewer bytes than asked for, or none, anywhere in the file.

`CertificatePush` goes through `Steps`, the order of `push_steps`; each step is run when
its flag asks for it and the code's early returns allow it. At the server, `pending` are
the changes of the session's transaction and `live` the ones in force. A server may
also carry out a change at its call (`Immediate`), as AddCertificate and
RemoveCertificate are on open62541 and node-opcua (`scripts/features.sh` 336-337); those
changes are recorded in `atOnce`, a history variable, and the properties about the
transaction speak of the others.

`GdsPull` runs several commands at once against one GDS. Time is counted down in
`left` (to the deadline) and `nap` (the sleep between two polls); `Issue` is the GDS
signing the request, at any time or never. `found` is the code's flag: a record found or
registered may have the null NodeId, with which the command goes on. The namespace is
looked up before `gds_steps` and its failure is reported at once.

### Alarms

`cond[c]` are the fields of a condition and `last[c]` the event it reported last;
`queue` are the notifications on their way. `alarm_notif_cb` runs wherever the code
dispatches, which includes the synchronous calls: a notification can come before or
after the answer of the call that caused it. An action is called with the EventId of
the latest event of the condition that the client has stored, and its follow-up is
looked for among the later ones. Other clients (`Contested`, `MaxOthers`) act on the
same condition in between. `alarm_arm` is taken write by write (`Put`), with the
callbacks of the stack that react to a write, and goes on when one of them fails
(`MayFail`; the instance lets the last write of the active state fail); `Reset` is its
other caller. A refresh sends the conditions of interest in any order, between its two
markers or, as `docs/CAPABILITIES.md` 130 has it of `--node s=Alarms.Source` on two
stacks, without them. `rearmed`,
`shown`, `own` and the `known` of an action are history variables.

## 3. Runs

| Run | Instance | Shows |
|---|---|---|
| `history_read` | 2 clients, 2 slots, 3 samples, 3 pages, page sizes default and 1, two windows, 2 commands | type, order, completeness, finality of release, every command ends, `HistoryCursor` is implemented |
| `history_overflow` | 1 slot | *violation* of the comment "Simple session-local CP table" |
| `pubsub_recovery` | connection, writer group, reader group (not enabled), writer; delays 1 to 3; 4 errors | no forgotten error, one timer, recovery |
| `server_lifecycle` | 3 processes, 2 requests of each kind, all arguments | truth of the ready file, exit status, stop on signal |
| `server_unregister` | 1 process | *violation* of "unregistered on SIGTERM" |
| `pubsub_config` | ten configurations of a connection with two or three writer groups, a reader group and up to four data sets and writers; lists of 3 (components) and 2 (secured groups), 3 failures | everything in place and enabled, wiring, children first, one pull, keys in place, keys arrive |
| `subscriptions` | all six commands; 2 or 3 notifications asked for, 3 changes, stores of 20 and 2, queue sizes 1, 2, 3 and 5, one fault | silence while publishing is off, the two verdicts, what subscribe collects, clean-up, every command ends |
| `overflow_reported` | the publishing scenario | *violation* of "`overflow` is `true` when the server discarded items" |
| `push` | every combination of seven flags, and one command line with the others; chunk 2, files of 3 and 4, changes that wait for ApplyChanges or do not | what waits comes into force together or not at all, nothing left installed, the exit tells the effect, trust lists whole or refused, and closed, the command and its transaction end |
| `gds_pull` | 2 commands for one ApplicationUri, with signing request and unregistration or with revocation; poll interval 1, time-out 2, no memory at the end | success is complete, polling stays within its time, every command ends |
| `event_history` | 4 events of 2 types, 1 or 2 nodes, page sizes 0 and 1, filters by type and severity, 3 pages; updates of up to 2 events over 3 keys | pages are the history, no point left open, exit codes, fields under their own path |
| `alarms` | 2 conditions, stores of 5 events and 2 conditions, 2 calls of other clients, 4 command lines, with and without the markers of a refresh | the exit code tells what happened, the refresh is complete, a reset arms, the command ends |

Why the bounds are enough to be interesting. Three samples paged one by one need two
continuation points' worth of refreshes and exactly the page limit; two slots with two
clients make both the private and the full table reachable; two commands are a scenario
beside a one-shot reader, two scenarios, or a reader that presents a point taken in
another window (three commands were checked once; the proofs cover any number). Delays 1,
2, 3 include a doubling that is cut off. Three processes are a crashed one, one that fails
and one that succeeds. A list of two secured groups with three users drops one; lists of
three components with four of a kind pass over one. A store of 20 notifications has room
for a value per step of a scenario, which the two verdicts need (the code has 256). Asking
for three events with a store of two meets the limit and asking for two is just within it;
three changes overflow a queue of two, and a batch can bring more than was asked for; the
scenarios write the values the code writes. One fault is a refusal or a late answer of any
one call, or a server that dies at any point (after which every call fails); two faults
were checked once and take minutes. A file of 4 ends with a chunk, one of 3 within one;
chunks of 2 make the loop go round. A time-out of two poll intervals lets a poll succeed,
be too early, and come after the deadline. Four archived events against three pages of one
overrun the page limit, as empty pages do; a filter leaves two of them, or one, and then
the limit is met or not as the server cuts. Five stored events are fewer than a refresh,
three actions and two interventions produce. `CHECK_DEADLOCK FALSE` is set because all
these systems may stop: commands run out, processes end.

Fairness, and what justifies it:

* `HistoryRead`: a client call ends, by an answer or by the request timeout that
  `make_client` sets. The server is not assumed to answer.
* `PubSubRecovery`: time passes, a due callback is run, a round that has begun goes
  on. Nothing is assumed of the stack's reports; errors are bounded by `MaxErrors`,
  so "once errors cease".
* `ServerLifecycle`: `server_run` goes on to its next step (sequential code whose
  calls return; an iteration of the event loop is bounded). No assumption on the
  LDS.
* `PubSubConfig`: `enable_all` goes on, the retry timer fires, and every pull ends
  one way or the other, since the stack's client has timeouts. Failures are bounded.
* `Subscriptions`: the client goes on (its calls have timeouts, its loops a clock) and
  a server that is alive handles requests. Nothing makes it publish.
* `CertificatePush`: the command goes on (every call has a timeout), and a session that
  was left ends, by its own timeout at the server.
* `GdsPull`: time passes and the command goes on. Nothing makes the GDS issue.
* `Alarms`: the command goes on and its deadline comes. Nothing makes the server report.

The three violations are disagreements between code and documentation; each is
listed in `PROJECT.json` with the quoted line. They are reported for a reader of
the code to judge.

### Deviations met on the way

Places where the code does something else than a comment or the contract
(`docs/CONTAINER_CONTRACT.md`, by line) says. The models follow the code; there is no
run for these.

* The recovery delay starts over 10 s after the last error that scheduled a re-enable;
  an error met while one is already pending is not counted (`pubsub_server.c` 1230;
  comment "only 10 s without an error starts over", 1166).
* A start-up that fails before the removal of the stale ready file leaves that file
  (`server.c` 1354; "On startup, remove any stale ready file from a prior run").
* `subscribe` drops, with the stack, an initial value that the server sends before it has
  answered CreateMonitoredItems (`client.c` 2298); the result then begins with the next one.
* `subscribe` may print more notifications than asked for, when a batch brings them
  (`client.c` 2306; "collects exactly `--notifications`").
* In the publishing scenario a queue may overflow without the `overflow` bit being
  among the notifications kept, if a call whose result is dropped was refused.
* `push` exits 2 when the connection is lost while a `nsu=` NodeId is resolved
  (`client.c` 472), where the contract has 3 (696, 1467).
* `p12_read_trust_list` returns the status of the chunk loop before that of Close
  (`part12.c` 574), so a transport failure of Close does not win over a Bad chunk; the
  comment at 569 says it does.
* `gds-pull` polls once more after the deadline has passed (`gds_pull.c` 436; 2713).
* `history-update-events` sends a bare integer as a Double (`history_events.c` 174), where
  the contract has Int32 (493).
* A connection lost during `history-read-events`, `history-update-events` or `alarms`
  exits 4, where the contract has 3; and some input errors are found after connecting.
* Data sets beyond 256 are passed over and surplus components of another kind are created
  but never enabled, without a word (`pubsub_server.c` 852; "a ready server has its PubSub
  configuration in place", 1751). A secured group beyond the list of 64 is never told its
  pulled keys (`pubsub_server.c` 646; "keys activated when they arrive", 1929). `AppliedWhole`
  and `KeysInPlace` except what is beyond the lists and nothing else.
* Asked for more notifications or events than the store holds, `subscribe` and
  `event-subscribe` cut the number and succeed once the store is full (`client.c` 2181, 3130;
  "collects exactly `--notifications`", else `success: false` and exit 7, 870-872; 208).
  `Collected` speaks of numbers that fit.
* The publishing scenario also succeeds with one or two values that end in 5, when the
  server granted a shorter queue (`client.c` 2602; "`success` when the final window of
  received values equals `[3,4,5]`", 914). `WindowVerdict` speaks of granted queues of three
  or more.
* The monitoring scenario counts from after the Write of 103 (`client.c` 2702). A server that
  publishes before it answers delivers 103 inside the call, uncounted, and the scenario
  fails although 103 was reported. `ReportingIsTheWrite` claims one direction only: what is
  counted includes 103.
* With `--select`, a key of an `--event` that is not among the paths is dropped silently
  (`history_events.c` 717; "A key that is not a `--select` path is an input error", 493).
* A repeated callback that could not be added goes unnoticed: no registration is renewed
  (`server.c` 1918), no pull is retried (`pubsub_server.c` 1428; "retried every 2 s", 1791).
* `p12_read_trust_list` takes a chunk shorter than asked for as the end of the file
  (`part12.c` 567), although a server may cut a Read short anywhere; what was read then
  does not decode and the command exits 4.
* `push --add-certificate ... --apply` on a server that adds at once: ApplyChanges answers
  BadNothingToDo and the command exits 4 although the change is in force (`push.c` 484;
  `scripts/features.sh` 336). And an input error found late (`--delete-certificate` with
  an unknown namespace) exits 2 with such a change in force.
* `alarms --node s=Alarms.Source` on a server that sends no RefreshEnd: every condition is
  refreshed, the command waits for the end and exits 7 (`docs/CAPABILITIES.md` 130).
* A one-shot `history-read-events` exits 4 for a node whose status is BadTimeout
  (`history_events.c` 638), while `--scenario` exits 7.
* `gds-pull` goes on with the null NodeId after a RegisterApplication that is Good without
  a NodeId (`gds_pull.c` 377).
* `alarms` prints `repeatStatusCode` also when the event of the first Acknowledge did not
  arrive (`client.c` 4326; 1018); an event that arrives during the repetition, after the
  deadline, is not looked at; and `--acknowledge 0` does not switch the action off
  (`client.c` 4070; 250).

## 4. Proofs

Proved with TLAPS for every value of the constants allowed by the assumptions
(named `ASSUME`s in the modules: positive sizes, a page limit not below the
number of samples, delays with minimum not above maximum, a poll interval and a
chunk size above zero, command lines that ask for actions there are, conditions that
are not the null NodeId, configurations that are made of arrays and whose components
have distinct NodeIds, an event archive and JSON events that are finite sequences, a
page limit and a number of nodes of at least one).

* **HistoryRead** (`HistoryReadProofs`). Type correctness is proved on its own: it
  contains that every sample served exists, which needs bounds on the offset of a slot and
  on the length of what a page adds. The other properties follow from `CursorInvariant`,
  which ties the two sides together: while the table has not overflowed, the slots in use
  are a prefix of the table, what a running scenario uses (`Uses`: its own point, the one
  in its answer, those in its channel) has been printed by nobody and is used by no other
  client (`Exclusive`), and the offset of the slot a scenario pages with is the number of
  samples it has been shown, or will have been shown with the answer that is on its way.
  None of the properties is inductive without it: that a page continues where the last one
  ended depends on nobody else having moved the offset, and that depends on who can have
  got hold of the token. `HistorianImplementsCursor` is the refinement: every step moves
  at most one cursor, by what `CursorMove` allows, and `CursorInvariant` supplies that
  what a page adds continues the prefix and that success comes with the whole window. A
  further small invariant (`PagesSeen`) says that only a scenario that has seen a page
  releases.
* **PubSubRecovery** (`ServerProofs`). `RecoveryInvariant` adds to the
  properties what holds in the middle of a round: a component in Error that the
  round has passed already has either a timer or a recorded failure that will
  register one. `NoForgottenError` and `RecoveryIsSingle` are its consequences.
* **ServerLifecycle** (`ServerProofs`). `LifecycleInvariant` says at each
  location of `server_run` who can have written the ready and the temporary file,
  what is listening and applied, and what `g_running` was on the way.
  `ReadyIsTrue` and `ExitIsHonest` follow, for any number of crashes and restarts.
* **SksPull in PubSubConfig** (`PubSubConfigProofs`). `ConfigIsPull` shows the
  composition: whatever the configuration, every step of `PubSubConfig` is a step of
  `SksPull` or leaves its state alone, so that what is proved of the keys holds in the
  composed system. `KeysInvariant` is the invariant: nothing is pulled before every
  group exists, listed groups are a part of the created ones and all of them until the
  list is full, pulls are single, and groups listed when keys came were told.
  `PullsAreSingle` and `KeysAreInPlace` follow, for any number of groups, any limit of
  the list and any number of failures.
* **The rest of PubSubConfig** (`PubSubConfigProofs`), for every configuration and every
  bound of the lists. A first group of lemmas reads off `BuildSteps` what the loops
  guarantee: a parent and a data set come before what hangs on them, fields after their
  data set and in their order, data sets before connections. `BuildInvariant` then needs
  only one thing about the order: nothing still to be done comes before something done.
  With it, a component exists exactly when its step is done; a data set has the first
  of its fields, and a step of another kind finds it with all of them; a list holds
  every component of its kind unless more than `MaxComponents` were created; and what
  `enable_all` has enabled are its first calls, which is why the members of a group,
  whose list comes earlier, are on before the group. `AppliedIsWhole`, `WiringIsRight`
  and `ChildrenAreFirst` follow.

* **Subscriptions** (`SubscriptionsProofs`), for every server, queue size, number of
  values asked for, any number of faults and changes. The argument is in layers. The base
  (`OrderInvariant`) is the order on the connection: requests and answers are under way in
  the order of their steps, with notifications anywhere among them, every answer ahead of
  every request still to be handled; a call that timed out may have left either behind, a
  Good one has left none; a dead connection carries nothing. Each result adds an invariant
  to it. `NothingLeftBehind` (`SubscriptionDeleted`) needs `Deleting`: while every call
  had its answer, the server has a subscription only from the answer of the first step to
  the `DeleteSubscription` that every path comes to, or beyond it if that was refused.
  `NothingWhileOff` (`SilentWhileOff`) needs `Silent`: between the two answers of
  `SetPublishingMode` the server publishes nothing, the connection has no notification
  behind the first of them, and so none arrives: the property alone is not inductive,
  because what counts is what is still in flight. `CollectedIsSampled` (`Collected`) needs
  `Gathering`: the samples are what is stored, then what is on the connection, message by
  message, then what is in the server's queue (a sequence of offsets says where each
  message begins), so that what is delivered next is what was sampled next, unless
  something was lost in the queue or came before the answer to `CreateMonitoredItems`; and
  `timedOut` is whether the store has fewer than were asked for.

  The two verdicts, `WindowIsAccepted` (`WindowVerdict`) and `ReportingCountIsRight`
  (`ReportingIsTheWrite`), are about a complete scenario; both build on `Deleting`, the
  first also on `Silent`. `Clean` says that as long as no call failed, every call behind
  `pc` was answered Good. While that holds and the server samples every change
  (`OnTrack`), a step of the system is one of five moves (`Moves`), and only these have to
  be followed. `Accounted` is a budget: at most one value is sampled in each step, so
  store, connection and queue together hold no more values than the store has room for,
  and none is refused. `Monitoring` then says that the node holds 102 before the write of
  103, so that the write is a change, and that once the server has carried it out every
  batch that is queued or sent includes 103, except what is still ahead of the answer to
  the write (`Behind`): hence whatever the store gains after the mark, which is taken when
  that answer is there, includes 103 (`Shows`). `Publishing` says that while publishing is
  off the queue ends with the last values written, as many as it holds (`Tailed`), and
  that once publishing is on again that queue is in one place, with the server, in one
  message or in the store, in a form the verdict accepts (`Windowed`), which for a granted
  queue of three or more is the window [3,4,5]. Both theorems assume `MaxNotifications >=
  20`, which is the room the budget needs (`MAX_NOTIFICATIONS` is 256, `client.c` 2097),
  and nothing about the value the node held before.
* **EventHistory** (`EventHistoryProofs`), for every archive, filter, number of nodes and
  events, page limit and limit of the key array, and a server that cuts pages as it
  likes. Types come first (`TypeCorrect`), with what the server's tokens need: the
  points are finitely many and told apart by their tokens, so there is a free one.
  `PointsReleased` (`NoPointLeft`) needs `LeftInv`: between two nodes nothing is open
  and while a node is paged at most the last point received is, which is the one that
  will be released; nothing is opened by the reuse, because the point is gone by then.
  `ExitIsTold` (`ExitTellsNodes`) needs `VerdictInv`: `ok`, `emit` and `timeout` are at
  each node what the statuses judged so far say (`Judged`). `PagesAreRight`
  (`PagesAreHistory`) needs `PagesInv`: the pages of a node are in order, what they hold
  is what was asked for up to some position (`ReadUpTo`), and as long as a point is held
  that position is the one the server will go on from; that the WhereClause built by
  `hev_build_where` accepts what was asked for is a lemma (`WhereIsAsked`).
  `UpdateIsRight` (`UpdateIsFaithful`) needs `UpdateInv`: the collected paths are
  distinct and come from the events, and a key the loop has passed is among them unless
  the array was full (`Covered`), which distinct keys that fit never meet.
* **CertificatePush** (`CertificatePushProofs`), for every set of command lines, chunk
  size and file length. `PushInvariant` says what the position in `push_steps` means: the
  steps behind it that were to run have been answered, Good as long as nothing failed, the
  ones ahead have not (`Walked`); before ApplyChanges only what the server carried out at
  its call is in force and the rest of what was asked for so far is pending, after it all
  of it is in force or nothing more (`Effects`); and what the exit code was made from
  (`Envelope`). All are needed: that success implies everything is in force rests on each
  change having been pending or live when ApplyChanges was called, which rests on each
  step having been Good. `PushIsAtomic`, `CancelImplied` and `ExitCodeTells` follow.
  `ReadInv` is the invariant of the TrustList read inside it: as long as every answer was
  Good and none cut short the loop ends at the end of the file, a result is Good only if
  the whole was read (the list decodes only then), nothing is open before Open answered;
  `ReadsWhole` follows.
* **GdsPull** (`GdsPullProofs`), for any number of commands on one ApplicationUri, every
  poll interval and time-out. `PullInvariant` has for each command where it stands
  (`Walk`), the state of its request at the GDS (`Certificate`) and its polls against
  the clock (`Polling`: while the deadline is ahead, every poll but the last has cost
  an interval of the elapsed time), and for all of them which ids exist (`Registry`:
  the id of a command that has not registered is nowhere known, so that nobody can
  bring back a record that an unregistering command removed). `SuccessMeansDone` and
  `PollsKeepTime` follow.
* **Alarms** (`AlarmsProofs`), for any number of conditions, every size of the client's
  store, every set of command lines, every failing write and any number of calls by
  other clients. Types come first (`TypeCorrect`), with what makes indices safe: the
  target and the entries of `conds` are stored events (`Targeted`, `Listing`).
  `ResetArmsCorrect` follows the eight writes of `alarm_arm` one by one (`ArmIs`): the
  message has to be the last, since two earlier callbacks overwrite it; its invariant
  adds that the last event of every condition carries its state. The client's results
  rest on `InStream`: for each condition the stored events and then the queued ones are
  in the order of their reports (`Stream`), those behind the end of the refresh are
  strictly newer than all before (`News`; up to there the refresh repeats events), and
  the end, if the server sends one, is in the queue once and no more when it has been seen
  (`Ending`). `RefreshCompleteCorrect`
  needs, for every refreshed event, that it is listed, superseded, refused for lack of
  room, or still queued ahead of the end (`Refreshing`): only the last alternative is
  lost when the end comes, and then nothing is ahead of it. `ExitTellsCorrect` needs
  `ActInv`, which places an action in the stream. When it is called everything queued
  is newer than the event whose id it carries, because the refresh is over (`Timeline`);
  when the server carries it out that event is still the last, so whatever comes after
  the mark is the action's own event or a later one (`Effects`); an event that reports an
  action is the one the action led to, about the target, and shows the effect (`Traced`),
  so that if nothing was found it had not arrived (`Missed`). The proof also shows that
  the repetition of Acknowledge is never carried out: its EventId is stale by then.

Only model-checked:

* the liveness properties (`CommandEnds`, `ErrorsAreRecovered`, `StopsOnSignal`,
  `KeysArrive`, `PushEnds`, `PullEnds`, `AlarmsEnds`), which need reasoning about
  fairness that the prover does not do.

Every invariant and every action property that a passing run checks is a theorem.

## 5. Not modelled, and why

* The stack: its services, secure channels and PubSub engine appear only through
  what the adapter is told by them.
* Encoding, formatting, parsing, cryptography: no property of the control depends
  on them.
* `BadInternalError` of the historian (a null result pointer, which the stack does
  not pass), and requests for several nodes at once (the client sends one).
* Contents of the ready file beyond whole or short.
* A signal before the handlers are installed in a process that is PID 1 of its
  container is no step at all: the model's `Signal` has only the ordinary default.
* The value of the Comment field after `Alarms.Reset`: it depends on what the stack does
  when its state is written, which the adapter's code does not show.
* Client commands of one request and one answer (read, write, browse, call, node
  management, republish, transfer, discovery): they keep no state beyond the call.
* Keys pushed by clients (SetSecurityKeys), reverse connections, and the timed
  behaviours of the address space.
* The other adapters, which implement the same contract in other languages.

## 6. Plan

1. The discovery client with its fallback, and reverse connect.
2. The timed behaviours of the address space against client writes.
