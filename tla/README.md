# Statorius: a TLA+ verification of its concurrent core

Statorius (`src/`) is a desktop program for probing networks: a table of
continuous pings, an "L2 mode" that sends and captures raw frames through a
separate, usually elevated, helper process, a passive DHCP monitor and a DNS
tab. This directory holds TLA+ models of the parts in which several tasks,
threads or processes have to agree, the TLC configurations that check them on
small instances, and TLAPS proofs of what holds for every instance.
Paths below are relative to `src/src/`.

## 1. The system

One process runs an egui window on the main thread and a tokio runtime with
four long-lived tasks; `main.rs` makes the channels between them. L2 mode adds
a second process, the same executable started with `--l2-helper <endpoint>`.

```
 UI (app/*.rs) --WorkerCommand 100--> ping_worker (net/mod.rs) --spawn--> ping loops
    |  reads SharedState (state.rs) <---------- record_result ------------'
    |--L2PingerCommand 100--> l2_pinger_worker (net/l2_pinger.rs) --spawn--> round loops
    |  reads L2PingerState <------ set_phase, record_result -----------------' |
    |--L2Command 8----> l2_manager_task (net/l2_manager.rs) <--L2JobRequest 32-'
    |  reads SharedL2Status, DhcpState  |  (also from the L2 form)
    |                                   | IPC: Unix socket / named pipe, JSON lines
    |                             run_l2_helper (net/l2_helper.rs)
    |                              |- engine thread (net/l2_engine.rs), L2Job 64
    |                              '- sniffer thread (net/dhcp_sniffer.rs)
    '--DnsCommand 16--> dns_worker (net/dns.rs) --spawn--> queries, traces (net/dns_query.rs)
```

| component | state | operations | what is hard | what makes it correct |
|---|---|---|---|---|
| ping worker, `net/mod.rs`, `state.rs` | `handles`, table of rows, one stop flag per loop | Start, Stop, Delete; a loop's ping, record, sleep, count running out | a loop runs on after its flag is raised; abort takes effect at an await only | rows tell what runs; no loop escapes its handle; samples in order |
| L2 pinger, `net/l2_pinger.rs` | the same, plus a phase per row | the same; a round asks the manager twice | requests outlive the loop that made them; two loops write to one row | the phase is that of the loop's round; one loop per pairing |
| L2 manager, `net/l2_manager.rs` | `session`, `helper_rx`, `pending`, `next_id`, status | Activate, Deactivate, a job, a reply, a DHCP event, end of the stream | four pieces of state, updated with awaits in between; replies late or of another session | every caller answered once, with its own outcome or a failure |
| IPC, `net/l2_ipc.rs` | the stream's buffers | connect, accept, send, receive | backpressure in both directions | order kept, nothing waits for ever |
| helper, `net/l2_helper.rs` | main loop, shared writer, one task per request | startup, dispatch, relay | the writer is shared; the engine's queue is bounded | ready only when all of it is |
| engine, `net/l2_engine.rs` | capture handle, neighbour cache, identifier counter, queue of 64 | resolve, ping, ARP ping, timestamp, duplicate check | frames that an earlier job left unread, late replies, a cache that is not keyed by VLAN, answering for an address it does not have | one outcome per job, and a true one |
| DHCP sniffer and log, `net/dhcp_sniffer.rs`, `net/dhcp_state.rs`, `net/dhcp.rs` | thread, log by transaction | capture, parse, record | its end depends on traffic | log in capture order |
| DNS, `net/dns.rs`, `net/dns_query.rs` | shared server list, one task per query | resolve, query, trace | resolving blocks the worker; delegations may loop | a trace ends; results belong to their request |
| ping list, `app/ping_tab.rs` | `PingListLoadState` | save, load, poll | one DNS request in flight while the list may be replaced | every line ends as a row or an error |
| window, `app/mod.rs` | `active_tab` | select, fall back | polls and clicks happen only on the tab that is shown | what a tab shows is true when it is seen again |
| L2 form, `app/l2_tab.rs` | two fields, `l2_input_check_rx`, `l2_input_validated_for`, the light, known VLANs | edit, poll, pick, add | the answer may be about fields since edited, late, or never come | the light is about what the fields say, and comes to rest |
| DNS server list, `app/dns_tab.rs`, `net/dns.rs` | `SharedDnsServers`, `dns_manual_servers`, `dns_selected`, the `.dns` file | refresh, frame, add, check, remove, save, load | two sources of one list, a default for servers without an entry, a refresh in the middle of a frame | who is unchecked is not asked; a file restores what it was saved with; what was added stays |
| list of interfaces, `app/interfaces_tab.rs` | `interfaces`, `interfaces_refresh_rx`, `interface_update` | poll, start | a thread that panics, or whose result is old | the list comes to be the machine's |
| graphics setting, `graphics.rs` | file, choice, choice at start, adapter in use | load, select, choose, save, restart | a file cut short, a failed restart, an override, a second instance | the panel says what is in use and what will be |
| readiness, elevation, backends, drawing | none worth a model | I/O | - | - |

`PROJECT.json` lists the components with their status and, under `hazards`,
what in this code is hard to test, line by line.

## 2. The modules

**`JobService`** is the abstract specification of the L2 request path as its
callers see it (`check_duplicate`, `do_ping`, ... in `net/l2_pinger.rs`): a
request is asked once, and answered once, with the outcome of its own job or
with a local failure. `L2Relay` implements it. `L2Pinger` assumes its safety
only: an answer may never come.

**`L2Relay`** is the path itself. Each request goes through the job channel
(`jobQ`), the manager's write (`writing`), the connection (`toHelper`), the
helper's main loop (`held`), the engine's queue (`jobs`) and thread
(`engine`), the task that waits for its result (`replies`), the connection
back (`toGui`), the reader task's channel (`events`) and the manager's
`pending` map, to the caller's oneshot (`answer`). The manager is a `select!`
loop: `mgr` says in which await it is, and only in `"select"` may it take a
command, a job or an event. One action per handler; an await that can block
(a full channel, a full socket) is a guard, or splits the handler in two where
other tasks can run in between: `TakeJob`/`WriteRequest`,
`Deactivate`/`SendShutdown`/`FinishDeactivate`,
`HelperTakesDhcp`/`HelperRelaysDhcp`. So the model has the circular wait that
the code has, `Clogged`: the manager awaits a write to the helper, the helper one
to the reader, and the reader room in the channel that only the manager drains.
What a job finds is left open: the
engine's outcome for request `r` is `Own(r)`.

**`L2Lifecycle`** opens up what `L2Relay` takes as one step: `start_session`
with its race between the endpoint, the spawn, the prompt, the connection and
the handshake, the helper's startup in its order (engine, sniffer, status,
Ready), and the end of a helper process, which is not the end of
`run_l2_helper`. Each start launches one more helper and all use one endpoint
name, so a late helper can take the place of the current one. `mode` tells the
three ways to start one apart: by its handle the manager may wait for and kill
a child, wait for but not kill a pkexec child, and do neither under
`ShellExecuteW`.

**`PingWorker`** and **`L2Pinger`** are the two dispatchers with their loops,
tables and buttons. A loop has a program counter (`at`) whose values are the
points between which it cannot be interrupted; `told` is what the dispatcher
did to end it. Abort takes effect at an await only (`Cancelled`), and raising
the flag takes effect where the loop reads it. A step of the UI reads the row
and sends a command for it, dropped when the channel is full, so the command
may be about a row that has changed by the time it is taken.

**`L2Engine`** opens up what `L2Relay` leaves open, the outcome of a job. The
thread does one job at a time; `phase` is the point it has reached (`"resolve"`
and `"wait"` are the two loops that read frames until a match or a deadline),
and `captured` holds what is on its way to the capture handle or in its buffer,
which outlives the job: `Take` does not empty it. One action per thing a loop
does with a frame (`ReadHop`, `ReadReply`, `ReadRequest`, `ReadNeighbour`,
`ReadClaimant`, `ReadOther`), so that a frame that matters to no job is read and
forgotten. The two families share one definition where their code has one shape
and differ by a guard where it does not: a v6 resolution needs an address of
this machine's own, a v6 solicitation is not `valid`. The network is external:
it delivers in any order, late or never, stations move, and others are
overheard. It loses a frame by never delivering it. In half of the behaviours it
is `calm`: nothing moves and a deadline passes only when all has been delivered,
which is what timeouts are chosen for. `serial`, which the engine cannot see,
says which job's request a reply answers.

**`DnsJobs`** is `dns_worker` and the three who ask it: the target box and the
list loader of the Ping tab and the Query panel of the DNS tab. A request is
its oneshot channel, numbered; `reply` is what the channel holds, `"closed"`
when its sender is gone. The worker resolves one name at a time, in its own
task, while commands wait; queries and traces are `tasks`. A poll runs only in
a frame of its own tab, so `tab` is part of the state. `PollLoad` is one frame
of the loader with its three steps: the answer, the next name, or the end.
`asked` and `pings` record what was asked and done; no step depends on them
but by the numbering of requests and the kind of a request, which the code has
in its types.

**`AppTabs`** is the window: the tab on the screen, its fallback when L2 mode
ends, and a restart of the program. It composes, by INSTANCE over the shared
variables `tab` and `active`, the four parts of the GUI that keep a state of
their own. **`L2Form`** is the form of the L2 Ping tab with its duplicate check;
the manager answers as `JobService` says, or drops the oneshot, while the user
types or looks elsewhere. **`DnsServers`** is the server list of the DNS tab. A
frame is two steps, the first look at the list (`BeginFrame`, which forgets the
entries of servers that are gone) and the list that it draws (`List`, which
enters those it does not know as checked), with at most one click in it; the
worker's `Refresh` may come between. **`Interfaces`** is the list of that tab and
the thread that makes it anew. **`Graphics`** is the setting of the About
tab with its file, and the adapter that wgpu picks with the program's selector
or, under `WGPU_BACKEND`, without. The four share no other state, so
`Subjects` lets each behaviour be about one of them, chosen at its start, which
loses no reachable state of any. **`MCAppTabs`** names the instance.

**`DnsTrace`** opens up one of these tasks, `+trace`. Its loop asks the
`candidates` one by one, takes the first that responds for the next hop, and
gets the next candidates from glue or, for the first name server, from the
user's own servers. What each server says (`world`) is chosen once and is any
function to a small set of replies, so that referrals may be circular, without
glue, or with glue for somebody else. Servers are up or down, or the network
is `flaky` and any exchange may fail; a reply may be cut short, and then TCP
may fail too. A name that does not parse ends a trace before it starts, and is
not in the model. **`MCDnsJobs`** and **`MCDnsTrace`** name small instances.

**`MCL2Engine`** names a small network for TLC. The theorems are in a module of
their own for each component: **`L2RelayProofs`**, **`L2LifecycleProofs`**,
**`L2EngineProofs`**, **`PingWorkerProofs`**, **`L2PingerProofs`**,
**`DnsJobsProofs`**, **`DnsTraceProofs`** and **`AppTabsProofs`**, the last with
those about the four parts that `AppTabs` composes.

| definition | code |
|---|---|
| `L2Relay!mgr`, `session`, `listening`, `pending`, `nextId` | the locals of `l2_manager_task` (`l2_manager.rs:252-263`) and the await it is in |
| `L2Relay!status` | `SharedL2Status` |
| `L2Relay!reader`, `events` | the task of `l2_manager.rs:468-481` and its channel |
| `L2Relay!helper`, `held` | the loop of `l2_helper.rs:88-274` |
| `L2Lifecycle!at` | where `run_l2_helper` is, or has ended (`"ending"`: `main` waits for the blocking threads) |
| `L2Engine!cache`, `next`, `seen` | `neighbor_cache`, `next_identifier` (`l2_engine.rs:144-145`), `seen` of a duplicate check |
| `L2Engine!captured` | the buffer behind `cap.next_packet()` |
| `PingWorker!rows`, `handles`, `loops` | `SharedState`, the map of `ping_worker`, every task it spawned |
| `L2Pinger!rows` | `L2PingerState` |
| `DnsJobs!box`, `load`, `panel` | `dns_resolve_*`, `ping_list_load_state`, `dns_query_*` and `dns_trace_*` of `StatoriusApp` (`app/mod.rs`) |
| `L2Form!light`, `check`, `validatedFor` | `l2_input_validation`, `l2_input_check_rx`, `l2_input_validated_for` |
| `DnsServers!shared`, `manual`, `selected`, `drawn` | `SharedDnsServers`, `dns_manual_servers`, `dns_selected`, the local `servers` of `ui_dns_tab` |
| `Graphics!choice`, `start`, `running` | `GraphicsPanel::choice`, `choice_at_start`, `info.active` |
| `DnsTrace!todo`, `candidates`, `hops`, `note` | the rest of the `for` of `query_first_responsive` or `resolve_ns_glue`; the locals of `trace`; `TraceOutcome` |

The full correspondence, by definition and line, is `map` in `PROJECT.json`.

A definition `Faulty...` is a plausible mistake in the definition after it.
Nothing uses it; substituting it for the original is how a property is shown
to notice something.

## 3. The runs

| run | result | what it shows |
|---|---|---|
| `relay_all` | holds | A ping and a duplicate check, three clicks on the checkbox, three DHCP messages, channels of one and two, a helper that may crash and an engine that may die: the manager's state is consistent between iterations, each reply handle is in one place until it is used, the DHCP log is in order, the path implements `JobService`, and, unless all ends in the circular wait (`Clogged`), every caller is answered and a session that is to end, or whose helper is gone, does end. |
| `relay_shutdown` | `SessionEnds` violated | With DHCP traffic and all buffers full, the manager waits to write Shutdown while the helper waits to write an event nobody reads any more; the kill after 3 s comes after that write. The circle closes the same way in front of a request (`l2_manager.rs:310`). |
| `ping_all` | holds | One target by a method whose socket cannot be opened and one whose can, with and without a count, four clicks: no orphaned loop, rows that tell the truth and samples in order unless Stop let a loop go, at most one late sample per loop even then, and stopped loops end, so that the dispatcher, which waits for them, returns. |
| `ping_stop` | `RunningIsTrue` violated | Stop, then Delete while the loop is about to record: the row comes back, running, with no loop. |
| `l2pinger_all` | holds | One pairing, four clicks: here rows tell the truth even after Stop (its updates do nothing for a row that is gone), and the phase is that of the loop's round as long as Stop let none go; though the manager may never answer, an aborted loop ends and the dispatcher that awaits it goes on; one that Stop let go ends unless it is never answered. |
| `lifecycle_all` | holds | Two overlapping starts in every mode: Active is shown only over a helper that went through all of its startup, with that helper's sniffer status; every start settles, unless a prompt is never answered, and every helper that was let go ends once DHCP messages pass. |
| `lifecycle_linger` | `ToldHelperExits` violated | Without DHCP traffic an elevated helper told to shut down never exits: the sniffer thread, for which the runtime waits, looks for its receiver only when it has a message. |
| `engine_all` | holds | Two jobs of any kind, in both families, untagged, on VLAN 1 and on an id too wide for its tag, over any network: a success is an answer to this job's request (from an address not the machine's own), whom the cache and a duplicate report name did hold the address, and on a calm IPv4 network it finds what is there: pings through a gateway and from an address nobody has succeed, checks report everybody. |
| `engine_v6` | `CheckFindsV6` violated | On a calm network a v6 duplicate check of an address a station has says Clear, because no station accepts the solicitation. |
| `dns_jobs` | holds | Three requests of any kind (a name in the target box, a list, a query, a trace) by a user who goes from tab to tab and changes the fields, with a worker's channel of one and a worker or task that may die: answers are used for what was asked, no line of a list that was loaded is lost, and all ends while its tab is shown. |
| `dns_trace` | holds | Every world of three servers whose replies are of seven kinds: a trace ends, says truly why it stopped, and finds the answer when, from every server that is up, the delegations lead to one within the bound. |
| `tabs_all` | holds | A user who goes from tab to tab, types, clicks, quits and starts again: whenever the tab was polled, the light of the L2 form is green or red only for a check of what the fields say now, yellow beside edited fields only while the check that holds it is under way, and it comes to rest; an unchecked server is asked by nobody unless its "x" was clicked, a load restores the set that was saved in this run of the program or another, an added server stays until its "x" or a load of a file that does not mention it; the list of interfaces comes to be the machine's; the graphics section warns exactly when no adapter has the wanted backend, and shows as chosen what the next start will ask for. |

Each violated property is what a comment in the code says; `findings` in
`PROJECT.json` quotes it.

### Bounds

- *Capacities* of one or two stand for 8, 32, 64 and 100: no action looks at a capacity but through
  "full or not". The proofs are for any.
- *Three DHCP messages* in the runs of the relay: with one in `events`, one in
  `toGui` and one in the helper's hand, a single place each, they fill all that
  lies between the sniffer and the manager, so that the circular wait is
  reached, in front of a request and in front of Shutdown. With two of them, or
  one more place, it would not be, and liveness would hold for want of room to
  fail.
- *Two requests* of different variants in `relay_all`: enough for a reply to
  meet the wrong slot, a queue behind a job that waits, a request of one
  session answered in another. They fill the wire to the helper, which is what
  the circular wait needs of them; they do not fill the engine's queue, the wire
  and the job channel all at once. The theorems cover any number.
- *Three clicks* on the L2 checkbox: two sessions, so that messages of a first
  could meet the state of a second. *Four clicks* on a row: start, stop, start,
  delete, the shortest sequences with a loop let go, its successor, and a
  deletion under both.
- *Two or three rounds* per loop, *history of three*: the second sample after
  the flag, and the first dropped sample, are there.
- *Two jobs* of the engine, each of any kind: the second meets the cache and
  the unread frames of the first. *One event*: an overheard frame or a move,
  once, at any moment. *Identifiers modulo 3*: one more than the jobs, which is
  what the property supposes of the code's 2^16 (with fewer, a late reply could
  be of a job with the same identifier; the theorem has this as its
  hypothesis). *VLAN ids modulo 2*: the untagged network, VLAN 1, whose
  stations are not the same, and 3, which a tag cannot hold: it is sent as 1 and
  no answer fits it. `CalmFindsV4` promises nothing of such an id (`Fits`); the
  form accepts it. The network has a gateway, an address that two
  stations hold and one that nobody does.
- *Three requests* to the DNS worker: a lookup under way, one behind it, and one
  that finds the channel full, in every mix. The list has one name twice, so
  that one lookup may fail and the next succeed; the box has another name.
- *Three servers, three hops* for a trace: the roots, a detour and a circle; the
  hop bound is reached, and an answer can be at the last hop. Replies cover
  both ways to an address, glue for others included.
- *The L2 form*: two addresses, one text that is none, a VLAN, a text that is
  none, and four edits: away from a field and back while a check of the first is
  under way, twice. *Two servers*: one that the system lists and one added, one
  of each before and after a save, a refresh or a restart; each in all its
  states (listed or not, added or not, checked, unchecked, unknown, in the file
  or not). *Four adapters*: the wanted backend there and not there, better and
  worse by device than another, and one that no choice names. *One panic* of the
  thread that lists the interfaces.
- *Two starts* of a helper: the current one and one left behind.
- Loops and clicks are bounded by guards (`MaxClicks`, `MaxRounds`,
  `MaxStarts`, `MaxDhcp`), after which the system rests; deadlock checking is
  off because it rests also when the user does nothing. `tabs_all` checks for
  deadlock: a user can always go to another tab.

### Fairness

Weak fairness for the dispatchers, the loops, the reader, the helper's loop
and the engine: they are tokio tasks or threads, run whenever they can. Backends
and jobs have timeouts, so that a ping returns. The manager needs strong
fairness for its branches: `select!` polls its ready branches in random order,
so a branch ready again and again is taken in the end. Users, callers, crashes
and prompts owe nothing: `StartSettles` names the prompt that is never
answered as its exception (`Prompting`), because pkexec is waited for without a
limit (`l2_manager.rs:415`). The polls of a tab are
weakly fair while the tab is shown, because a frame is drawn every 250 ms
(`app/mod.rs:364`); nobody owes to show a tab, hence the premises of
`EndsIfShown`, `LightSettles` and `ListCatchesUp`. `LightSettles` supposes that
a check is answered or dropped in the end, which is `AnsweredUnlessClogged`,
exception included: in the circular wait the light stays yellow. `L2Pinger`
supposes nothing of the manager's answers: `OwnStep`, which is fair, is
what a loop does by itself. The exchanges of a trace are bounded by `TRACE_HOP_TIMEOUT`. `StraysEnd` supposes
that DHCP messages keep coming (`BusyFairSpec`), and `lifecycle_linger` shows
that it must.

## 4. The proofs

Every invariant of every passing run is a theorem for all values of the
constants, and so are the action property `NoLineLost` and the refinement. Each proof
has the same plan: an inductive invariant, a conjunction of named parts; one
lemma that `Init` establishes it and one, with a step per action, that `Next`
preserves it; and a temporal step. Type correctness is proved first and is a
hypothesis of the rest. What follows names what had to be added to the
properties, because without it they are not inductive.

**`L2RelayProofs`**, for all sets of requests, capacities and faults, under
`RequestAssumption` and `CapAssumption`:

- `TypeCorrect` (`TypeOK`), which includes that no channel exceeds its
  capacity. `TypeOK` is inductive because it ties each program counter to what
  is in hand (`mgr = "writing" <=> writing \in Job`,
  `helper = "queueing" <=> held \in Job`): without that a write could put
  `NoJob`, which is also Shutdown, on the wire.
- `ManagerConsistent` (`SessionConsistent`). The property speaks of the manager
  between two iterations; `SessionInv` adds what holds inside one: while
  starting there is no session and nobody waits, while writing there is one,
  while stopping the session is gone but its receiver is not.
- `NoCallerForgotten` (`HandleInOnePlace`). `HandleInv` adds `FreshIds`: an id
  that is given out is in no slot, so that storing a handle never overwrites
  another. Each action moves one handle between two of the five sets of
  `Places`, or drains one set into another (`FailAllAnswers`).
- `RelayIsService` (`ImplementsJobService`): every step is one of `JobService`
  or a stutter of it. `RouteInv` says of every job on its way out (`JobFits`)
  and of every reply on its way back (`ReplyFits`) that its id is never used
  again and, if a caller still waits under that id, that it is this caller's
  request, and the reply's variant and outcome are its own or a failure. So a
  reply that comes after its caller was failed, in a later session even, finds
  nobody, and none finds the wrong caller.
- `DhcpLogged` (`DhcpInOrder`). `DhcpInv` says that the two channels hold the
  DHCP messages in turn, that what is in the nearer one is earlier than what is
  in the farther, and that all of it was captured.

**`L2LifecycleProofs`**, for any number of starts, in every mode:

- `TypeCorrect`, and `ActiveMeansServed` (`ActiveIsServed`). `StreamsInv` says
  for each helper at the other end of a connection, alive or not, which
  messages may be on it at each point of the helper's startup: so Ready is
  preceded by that helper's own sniffer status, though several helpers compete
  for one endpoint.

**`L2EngineProofs`**, for all networks, addresses and numbers of jobs:

- `TypeCorrect`: identifiers keep to their width, and what is believed of a
  station is a MAC. It needs to know what may be in the air (`FrameTypes`).
- `Believed` (`OnlyHoldersBelieved`). `BelieveInv` adds that every answer still
  on its way, whichever job asked for it, names a station that has held its
  address, and that what a check has collected so far was read on its VLAN.
  Stations move, so the invariant is about `held`, which only grows.
- `RepliesAreOwn`: `MaxJobs < IdentSpace` implies
  `Spec => []EchoSuccessIsRealUnlessOwn`. `NumberInv` ties the identifier of
  every request and reply in flight to the serial number of its job: distinct
  jobs that ping have distinct identifiers as long as the counter has not come
  round, so a reply with the current job's identifier is its own.
- `CalmFound` (`CalmFindsV4`). `CalmInv` is what keeps a calm job going: while
  it resolves, its question, or an answer to it, is on its way; while it waits
  for a reply, its request is, or a station owes the reply and the engine's
  claim to the source address, or the question for it, is on its way, or the
  reply itself; while it checks, each station that has the address is still
  asked, still to be read, or already collected. Hence the deadline, which on a
  calm network passes only when all of that has come, finds the job done.
  The attempt corrected the premise: `CanPing` now says that the hop is not an
  address of this machine (`ip \notin Own`), since a station that shares one
  can leave the machine's own MAC in the cache, and TLC confirmed that.

**`PingWorkerProofs`**, for any targets, methods, counts and numbers of clicks:

- `TypeCorrect`, and `NoneOrphaned` (`NoOrphan`). `LoopsInv` adds that the
  dispatcher has taken the handle out of the map while it is busy with its
  target (`HandleTaken`), that a loop that was aborted and is not over is the
  one it waits for (`AbortedJoined`), and that of the loops of a target none of
  which was let go only the latest is alive (`LatestRuns`).
- `RowsTellTheTruth` (`RunningIsTrueUnlessLetGo`). It needs that the row runs
  already while the socket of its loop is being opened (`OpeningRuns`).
- `HistoriesInOrder` (`SamplesInOrder`). `HistoryInv` traces each sample to the
  loop that took it (`Traced`): one that landed late was that loop's last, so
  that there is no second.

**`L2PingerProofs`**, for any pairings:

- `TypeCorrect`, `RowsTellTheTruth` (`RunningIsTrue`, even after Stop) and
  `PhasesTellTheTruth` (`PhaseIsTrue`). Between row and loop stands the handle:
  `LoopsInv` ties loops to handles, `RowsInv` handles to rows. For the phase,
  `OneAlive` says that a pairing none of whose loops was let go has one loop
  alive at most, so that one only writes.

**`DnsJobsProofs`**, for any names, files, methods and numbers of requests:

- `TypeCorrect`, `AnswersUsedRight` (`AnswersFit`) and `LinesKept`
  (`NoLineLost`, of every step). One invariant serves all: `WorkInv` says that a
  request is in one place of the worker, or has its reply; `BoxInv`, `LoadInv`
  and `PanelInv` say which request each receiver of the window belongs to, and
  that no later one is of its kind; `LoadWhole`, that every line of a list is
  queued, in flight, resolved or failed. `Grows` is what every step does to
  requests: it adds some and answers some, so what was known of a ping stays.

**`DnsTraceProofs`**, for any servers, replies and hop bound:

- `TypeCorrect` and `NoteTrue` (`NoteIsTrue`). `HopInv` and `GlueInv` say that,
  unless the network is flaky, a server that is not still to be asked is down.
- `AnswerFound` (`FindsAnswer`). `LeadInv` is that the servers now asked, less
  those that are down, lead to an answer in the hops that are left. The
  property is about a recursive function (`Answering`), and the model uses two
  others to sweep a list; what is needed of them by induction
  (`Recursion`, `AnsweringIs`, `SweepExists`) is proved by a least
  counterexample in `Nat` (`Least`), because the induction rules of the library
  take a predicate as a parameter.

**`AppTabsProofs`**, for any texts, servers, interfaces and adapters:

- `TypeCorrect`. `PartsMove` says that in a step of the window each part does
  one of its own, starts anew or rests, so that the parts are proved about one
  by one.
- `UncheckedUnasked`, `LoadsRestore`, `AddedKept` (`UncheckedStaysUnasked`,
  `LoadRestores`, `AddedStays`). `ServersInv` says that what the user last said
  of a server is what its entry says, through refreshes, frames and loads, as
  long as its "x" was not clicked meanwhile.
- `PanelTrue` (`PanelIsTrue`). `GraphicsInv` says that the adapter in use is one
  that the selector may have picked at the start, and that the file says what
  the panel does unless writing it failed or another instance wrote it.
- `LightTrue` (`LightIsTrue`, of every frame that polled). Before a poll the
  light may be about earlier texts; `FormInv` says that it, and the check under
  way, are about those in `validatedFor`, which is what the poll compares.

Two definitions of the models took another form to be proved about, and mean
the same: a file of `DnsJobs` is a record of its names and its addresses, and
`GlueFor` of `DnsTrace` is a recursive function where it was a `SelectSeq`. Two
assumptions were unstated before (`"none"` is not a method, `MaxPanics` is a
number).

Model-checked only: liveness, that is `AnsweredUnlessClogged`,
`EndsUnlessClogged`, `StoppedLoopsEnd` (of both dispatchers), `StartSettles`, `StraysEnd`,
`EndsIfShown`, `Terminates`, `LightSettles` and `ListCatchesUp`. They hold by
fairness, whose definition is about `ENABLED`, and both are out of the prover's
reach. The four violated properties are shown by TLC's counterexamples.

## 5. What is not modelled

- The byte layout of frames and messages (`l2_frame.rs`, `dhcp.rs`): parsing
  without state, which the unit tests in those files are the right tool for.
  `is_on_link` and `is_on_link_v6` shift 32- and 128-bit words, more than TLC's
  integers hold; the engine's model has their result as the constant `OnLink`.
- The byte stream under the IPC messages: `L2Relay` passes whole messages.
  `recv_message` inside `select!` may be dropped in the middle of a line
  (`l2_helper.rs:100`); what is left of the line does not parse, which ends the
  helper. That is `HelperCrashes`, at any point, and what it leads to is in
  `AnsweredUnlessClogged` and `EndsUnlessClogged`.
- The log of `dhcp_state.rs` beyond its order, the saving of a list of ping
  targets (a write that nothing depends on), and which headers of the DHCP and
  Interfaces tabs are unfolded.
- Clocks: a timeout is a step that may happen at any time.
- Drawing, the readiness probe, elevation, capture devices: I/O without state
  of their own; their results are constants or nondeterministic steps.

Read in the code and not made into a property, each too plain to need a model:
a row keeps the method and count it was first started with
(`state.rs:143`, against the comment at `:82-84`); the endpoint is bound after
the helper is spawned (`l2_manager.rs:393`, against `:391-392`); the neighbour
cache ignores the VLAN, so a ping on one VLAN may be sent to the MAC of a
station on another (`l2_engine.rs:286`; `CalmFindsV4` excludes such addresses by
`~Shared`, and addresses that a station shares with this machine by
`ip \notin Own`); an ARP ping takes the late answer to an earlier one for its
own (`l2_engine.rs:773`); the doc of `L2DuplicateOutcome::Clear` says "Zero or one
distinct MAC" (`l2_engine.rs:104`) where the code says Clear for zero only; Stop
and a start with another method run both methods side by side until the first
loop looks at its flag (`l2_pinger.rs:276`, against `:35-37`), for the same
reason as in `ping_stop`; `do_ping_v4` and `do_ping_v6` do not look at the
protocol of a datagram (`l2_engine.rs:479`, `:560`), so that from one of the
machine's own addresses, where its other pings arrive, a success need not be an
answer (`EchoSuccessIsRealUnlessOwn` names the exception); the Ping tab resolves
with those of the checked servers that the system has configured, never with
those added by hand (`ping_tab.rs:215-220`, against `dns_tab.rs:38-41` and the
text on that tab; `AddedStays` promises the Query panel's questions only);
several lookups of the Ping tab may be under way (against `ping_tab.rs:42-44`),
and opening a second list drops what the first had left, which `NoLineLost`
excepts; a trace that ends with an
empty answer says that a referral had no NS records; requests wait, and do not fail, while
`start_session` is awaited (against `l2_manager.rs:66-68`); loading a `.dns`
file unchecks the servers added by hand that it does not mention and removes
none (`dns_tab.rs:327`, against `app/mod.rs:168-171`; `AddedStays` promises
nothing of a server after such a load), and leaves a server checked that no
frame has listed yet, against "exactly the checked set"
(`LoadRestores` names the exception); a server that the system lists when it is
added is not recorded as added and goes when the system's does
(`dns_tab.rs:242`); the "x" of a server that the system lists too checks it
(`dns_tab.rs:208-209`, then `:194`; `UncheckedStaysUnasked` names the
exception); when the manager has no room for a check, or drops it, the L2 form draws the light of a valid address black,
as "Not a valid IPv4/IPv6 address", and does not try again (`l2_tab.rs:79-81`,
`:46-49`, `:395-398`); while a check is under way the light stays yellow beside
whatever is typed, text that is no address included (`l2_tab.rs:45`;
`LightIsTrue` says of which check it then is); and a duplicate check on a VLAN
id above 4095, which the form accepts, asks on another VLAN, drops the answers
and says Clear (`l2_frame.rs:202`; `Fits` excepts it).

## 6. Plan

The models are those that the code calls for; what is left of it is either
without state or out of TLC's reach (section 5). `IpcFraming`, partial reads of
lines that refine `toHelper` and `toGui` of `L2Relay`, would say no more of the
callers than `HelperCrashes` does.

Proofs still worth having, in order of what is at stake:

1. Safety facts that no run states yet, each to be checked first and then
   proved: every hop of a trace but the first was named by the one before it;
   a request is never in two places of the path of `L2Relay` at once.
2. Parts of the invariants above that are results by themselves, checked by TLC
   as invariants of the runs: `RouteInv`, `StreamsInv`, `LatestRuns`, `OneAlive`.
3. The safety part of the liveness properties: that a session which is to end,
   or a caller who waits, always has one of the named steps ahead of it, as far
   as that can be said without `ENABLED`.
