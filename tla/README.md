# Formal models of redp2p

redp2p makes a local TCP or UDP service reachable through NAT. Three roles use
one library (`src/libredp2p.c`): an **index** that introduces peers over HTTP, a
**publisher** that registers a service with it, and a **consumer** that looks
the service up, punches a UDP hole to the publisher and tunnels bytes through
it. This directory holds TLA+ models of that code, the TLC configurations that
check them, and TLAPS proofs.

## 1. Inventory

Line numbers are of `src/libredp2p.c` unless another file is named.

| Component | State | Operations | What is hard | What makes it correct |
|---|---|---|---|---|
| Index tables (718-755, 2472-3294, 4123-4940) | publisher records with key and `last_seen`, seats, VIP reservations, pending punch calls | `set_seats`, `set_vip`, and the HTTP operations challenge, register, heartbeat, lookup, list, deregister, punch_req, punch_poll | eviction is lazy and scattered: some operations evict, others only hide; two capacity tests over a table with expired entries; a call leaves the table along three paths | leases of exactly the TTL, keys bound to identifier and secret, seats neither exceeded nor wrongly refused, every call with one fate |
| Array loops (3079-3294, 3495-3530) | the same tables as C arrays; a candidate array | evict records, evict calls, take all calls of one target; rank, deduplicate and sort candidates | entries are removed while the array is walked | the loops are the set operations; the candidate list does not depend on the order of gathering |
| Index event loop (4957-5346) | connection table, `last_prune`, stop flag | select, accept one, reverse pass with swap removal, timeout, prune, stop | full table, idle clients, order of accept and pass, work done only when select is idle | sockets owned once, nobody skipped, requests served, stop honoured |
| Key life cycle (5359-6042, 6112-6290, 6581-6654, 6995-7092) | `ctx->key`, the key file, the index's record | register, persist, roll back, heartbeat, register again, deregister, remove the file | lost replies, requests handled after their client gave up, crashes between steps, an operator at work on the same file | the persisted key removes the record; only the observed key is removed; a running publisher heals |
| HTTP client (2124-2360) | none between exchanges | one request, one reply | timeout against late answer | every outcome maps to one code |
| TCP tunnel stream (1075-1550, 6417-6461, 6707-6894, 7684-7791) | per end: ready, local_eof, close_acked, remote_close, KCP queues | handshake, pump, tick, receive, fail, expire | control datagrams travel beside KCP and may overtake it, get lost or repeated; either end may vanish | no truncation, done means complete, no session outlives its peer |
| KCP (`lib/kcp/ikcp.c`) | send queue and buffer, window, receive buffer, pending acknowledgements | send, flush, input, recv | loss, repetition, reordering, three windows, segments that fill up | each direction is a pipe |
| Publisher loop, punch polling and session table (6299-6985) | sessions, timers | poll, punch, relay, maintain | punching blocks the only thread; one socket for all peers | calls of a reply are all tried, sessions are not crossed, sessions without a peer end |
| Consumer runtime (7102-7933) | sessions, candidates of the publisher | lookup, punch request, accept, relay, maintain | candidates grow stale, table limits | a path is believed only after a punch; sessions without a peer end |
| Candidates and punching (3386-4106) | candidate list | gather, order, PING/PONG, sweep | reordering, both ends starting at different times, a last PONG lost | both ends select one another or give up |
| Runner (7936-8653) | slots, threads | open, status, stop, close, delete, list | threads write slots that hosts read; slot reuse | join before close, close once, a slot tells the truth |
| CLI (`src/redp2p.c`) | PID path, signal flag | start, wait, exit, `--down` | signals and `--down` at any point | ends, cleans up, exits with the service's result |
| Options (88-108, 2626-2688), PHP index (`imp/php`), JSON and hash libraries (`lib/`) | | | | outside the models |

**Interaction.** Consumers, publishers and operators send one JSON request per
connection to the index; its only thread runs each handler to its end, so a
handler is atomic with respect to the others. A publisher polls the index for
calls consumers left there. Publisher and consumer exchange UDP datagrams
directly. `redp2p_stop` sets an atomic flag from another thread or a signal
handler. Threads of one process share `g_key_mutex` around the key files;
processes share only the files. The runner starts one thread per open service;
host threads and service threads share the slots, whose state and result are
atomics and whose allocation alone is under a mutex. The CLI is one host of the
runner.

The hazards, each at its line with the properties aimed at it, are listed in
`PROJECT.json`.

## 2. Modules

| Module | Models | Correspondence |
|---|---|---|
| `Registry` | what the index promises of its records: a lease registry | abstract; no code of its own |
| `Index` | index tables and handlers | `peers` is `ctx->peers` as a partial function, `pending` is `ctx->pending_calls` as a set; one action per handler (`HandleRegister` and its five outcomes, `HandleHeartbeat`, ...), `SetSeats`, `SetVip`, `Serve`, `Stop`, the clock, and the loop's own evictions. `minted` and `fate` are history variables |
| `Tables` | the in-place loops of the index and `redp2p_normalize_candidates` | one action per turn of a loop |
| `IndexLoop` | the event loop | `pc` is the place in `redp2p_index_event_loop`; `Prepare`, `SelectReady`, `SelectIdle`, `Accept`, one step per turn of the reverse pass, `Leave` |
| `Publisher` | registration and key file, composed with `Index` by INSTANCE | `pc` of each process follows `redp2p_wait` or `redp2p_deregister`; an exchange is an `http` record the index answers, or `GiveUp` |
| `Punch` | hole punching and the session tables of consumer and publisher, for streams and for plain datagrams | `con[k]` is the consumer's entry of call k, `srv` the publisher's session table, `todo` the calls of the poll reply it works through; one action per ping, per datagram taken by a punch or by a loop, per maintenance of a session |
| `Stream` | both ends of one TCP session | one variable per field of `redp2p_stream_state_t`; `Maintain` is a turn of the maintenance loop with the tick in it, `Deliver` is `redp2p_stream_process_packet` |
| `Pipe` | what the stream relies on for one direction: bytes in order, each once, and "nothing waits" only when all were handed over | abstract; no code of its own |
| `Kcp` | the KCP control blocks of both ends | the fields of `IKCPCB` the configuration uses; `Send` is `ikcp_send`, `Flush` is `ikcp_update` with `ikcp_flush`, `Input` is `ikcp_input` with the `ikcp_recv` loop of `redp2p_stream_drain` |
| `Runner` | slots, service threads and host commands | `table` is `g_runner_slots` with the number of times it moved; open has the four steps in which it touches the slot, and may fail before (`OpenRefused`) and after them; `Begin`, `Return`, `StoreResult` and `StoreState` are `redp2p_runner_thread` |
| `Cli` | the life of the program, extending `Runner` with `main` as its only host, or an embedding host instead | `pc` follows `main` and `cli_runner_wait`; `path` is the PID path; `Request` is a stop or close whose request may not get built; `lost` is a history variable: `main` could not read the answer to its open, or not make its last close; `Signalled`, `Down` |
| `IndexProofs`, `LoopProofs`, `TablesProofs`, `PublisherProofs`, `PunchProofs`, `StreamProofs`, `KcpProofs`, `CliProofs` | theorems about `Index`, `IndexLoop`, `Tables`, `Publisher`, `Punch`, `Stream`, `Kcp`, and `Runner` with `Cli` | section 4 |
| `MC...` | TLC instances | |

Abstractions shared by the modules: a key is the number of its minting (keys are
random and never repeat); a proof of work is the secret, the identifier and the
zero bits it was made for; an announcement (protocol, port, candidates) is one
value. A JSON, number or field error is `HandleError`. Allocation and random
failures are choices (`Outcomes`, `RegisterFault`). A reply that does not fit in
`REDP2P_BUF` is no reply: the server closes the connection.

In `Publisher` the challenge before each registration changes nothing at the
index; when it fails, its error is that of a register request that never
arrives. Saving has three outcomes because the directory is synchronised after
the rename and its failure is an error too.

In `Stream` there is one datagram of each kind and direction in flight: a resend
replaces it, kinds overtake one another freely, each may be lost (up to
`MaxLoss`), and resending gives duplicates. KCP is external there: segments are
delivered in order and once, and wait until acknowledged. That is module `Pipe`,
which `Kcp` is shown to implement in both directions (`IsPipe`, with `InOrder`
for the bytes themselves).

In `Kcp` bytes are positions in the stream and a segment is an interval of them,
so a byte repeated, dropped or out of order shows. A resend timer may have run
out at any flush, which covers every round-trip estimate; "enough later segments
acknowledged" stands for the fast-resend count; the window grows by one segment
or not at all. A datagram that packs several segments arrives as several
datagrams. Sequence numbers do not wrap within the bound. Since
`redp2p_stream_drain` empties the receive queue after every datagram, the window
told to the peer is constant and zero-window probes never start; fragment
numbers are always 0 in stream mode; `dead_link` is not read by redp2p.

In `Publisher` the second call of `redp2p_key_paths`, at a registration that
replaces an expired one (6591), succeeds: it depends on the state directory and
on `HOME` alone and succeeded when the first key was saved, or the publisher
would not be running.

In `Punch` the candidates of a peer are its one address and a sweep is further
rounds of the same ping. Punch packets stay in flight until taken, so they are
late, overtaken or lost, all without a bound; a keepalive or a stream segment is
heard at once or not at all. A session is fresh until one maintenance interval
passed without activity. The identifiers of a packet appear as its kind: the
event loop of the publisher answers a PING with the two identifiers the other
way round than the punch does (6762), and "gnop" is that answer. The calls of a
poll reply are those the index of this repository sends, so a malformed call,
which ends the reply (6499, 6506), and a bad token, which is skipped (6508), do
not occur. Applications send local datagrams without bound.

In `Tables` a candidate's priority stands for its family and type; the input
errors of `redp2p_normalize_candidates` (port 0, unknown family) end the
function before the loops' result is used and are left out.

In `IndexLoop` `accept` may fail (`EMFILE`, a connection reset meanwhile), and so
may the growth of the connection array, at any time.

In `Runner` a write through a pointer of a table that was moved is lost and a
read finds what was there, one of the outcomes freed memory allows; the thread
that did it is marked `wild`, since nothing after it can be relied on. The thread
reads its operation, context and index host through that pointer too, so every
step of it counts. An open may fail after its thread was started, when its reply
cannot be built (8391): the host then has no handle (`"unanswered"`). In `Cli` the number in the PID file is the
program's own or an old one of nobody; reuse of numbers by the system is left
out.

Mutants (definitions introduced by "Mutant:") are plausible bugs. Each property
is paired with at least one in `PROJECT.json` and is violated when it takes the
place of the definition below it.

## 3. Runs

| Run | Configuration | Checks |
|---|---|---|
| `records` | 2 identifiers, 2 secrets, VIP lists of one, two and a repeated name, seats unset, 0 or 1, TTL 1, clock to 3, 3 keys | types, `KeyBinding`, `SeatInv`, `LiveRecordKept`, `VipNeverRefused`, `RefusedOnlyWhenFull`, and the refinement `IsLeaseRegistry` |
| `calls` | 2 targets, 2 pending places, 4 calls, TTL 1, clock to 3, replies of one call | `PendingInv`, `FateFinal`, `PollExact`, `BusyOnlyWhenFull` |
| `poll_fit` | the same | violation, section 6 |
| `loop_table` | 3 clients (symmetric), 2 places | `SocketsOwned`, `PassExact` |
| `loop_progress` | 2 clients, 1 place | `Served` (requests and waiting connections), `Stops`, `Expires` (expired calls always, expired records when the loop is quiet) |
| `tables` | arrays up to 6 entries, every pattern; up to 4 candidates of 3 texts of 2 addresses, 2 ports and 2 priorities | `RecordsLeft`, `CallsSplit`, `Ranked`, `Terminates` |
| `key_file` | a publisher and an operator, 2 runs, 2 faults, 3 keys | `KeyFileCurrent`, `RemovesObservedKey`, `Heals` |
| `punch` | 2 calls, 1 ping each, 1 restart of the publisher, any number of local datagrams, both protocols | `NotCrossed`, `UpOnlyIfTried`, `CallsTried`, `OneSidedEnds` |
| `stream` | 2 chunks from the publisher, 1 loss | `NoTruncation`, `DoneComplete`, `BothEnd` |
| `kcp` | 3 bytes, segments of 2, windows of 2, 1 datagram lost or repeated | `InOrder`, `Kept`, `InWindow`, the refinement `IsPipe`, `Settles` |
| `cli` | the program with one service, or a host with three, 8 slots | `ContextOwned`, `StatusTrue`, `ExitTells`, `CleanExit`, `Ends` |
| `down` | the program with one service | violation, section 6 |

**Bounds.** A record can be registered, expire, be met expired by every
operation and be registered again under another key, with a reservation of
either identifier, within three ticks and three keys. Two pending places with
four calls fill, expire and refill. Two places and three clients make swap
removal move an entry while another waits to be accepted; one place makes
refusals. Ages in `IndexLoop` saturate past their limit, so time itself is not
bounded there. Two chunks, both allowed to wait, exercise an end of input while
data is unacknowledged and a resend of the first. `Publisher` faults are
exchanges given up, restarts of the index and crashes; two of them cover a
retry that meets the effect of a late request after a restart. Three bytes in
segments of two give a full segment, one that is filled up by a later write, and
a third that has to wait for the window. Two calls share the publisher's socket
and may be in one poll reply or in two; one restart makes the consumer's
candidates stale. Three texts for two addresses give endpoints met twice under
different texts, priorities and places in the array. Three services reuse a
slot that was closed, after an open that failed.

**Fairness.** `IndexLoop`: weak fairness of the loop (its thread is scheduled;
select waits at most one second) and of time, and strong fairness of accepting:
`accept` does not fail for ever. Nothing is assumed of clients.
`Stream`: the loops of both ends keep turning and every resend timer runs out
again and again (`redp2p_stream_wait_ms` bounds every wait); a datagram present
stays deliverable, and losses are bounded, so what is resent arrives;
`REDP2P_DISCONNECT_S` seconds of real silence are noticed, since the maintenance
of each turn compares `last_rx`. `Kcp`: both ends flush again and again with
their timers run out (`redp2p_stream_tick` calls `ikcp_update` whenever it is
due), and a datagram not lost arrives. `Punch`: a punch sends its rounds and
ends at its deadline, and each session is maintained again and again; no
delivery is assumed. Nor is it assumed that applications fall silent:
`OneSidedEnds` says that a session only one side holds ends unless that side's
own application sends again and again. `Publisher`: weak fairness of the steps of a running
process and of the index's answers; `redp2p_http_client` bounds its waits, so an
exchange ends one way or another. Nothing forces a publisher to start, to be
stopped, or time to pass. `Cli`: `main` and the service thread are scheduled and
a service whose stop was requested returns, since every loop tests the flag;
a service that was not asked may run for ever.

**Deadlock** is checked in `IndexLoop`, whose loop and clock never stop. The
others end: their bounds run out, a session ends, a loop over an array is done,
a program exits.

## 4. Proofs

Every safety property and every refinement of the passing runs is also a
theorem: it holds for all values of the constants that satisfy the named
assumption of the module, so for any number of clients, calls, services, bytes,
losses and restarts. The assumptions only say that bounds are numbers, that a
table or a window has a place, that the two ends differ, that the receive window
is at least the send window (128 and 64 in the code), and that
identifiers are finitely many. Four results carry a condition of their own, in
the theorem and below.

| Module | Theorems (property) |
|---|---|
| `IndexProofs` | `TypeCorrect` (`TypeOK`), `SeatsRespected` (`SeatInv`), `VipSeatGuaranteed` (`VipNeverRefused`), `KeysBound` (`KeyBinding`), `RecordsLive` (`LiveRecordKept`), `RefusalsJustified` (`RefusedOnlyWhenFull`), `ImplementsRegistry` (`IsLeaseRegistry`), `CallsConsistent` (`PendingInv`), `FatesFinal` (`FateFinal`), `PollsExact` (`PollExact`), `BusyJustified` (`BusyOnlyWhenFull`) |
| `LoopProofs` | `DescriptorsOwned` (`SocketsOwned`), `PassesExact` (`PassExact`) |
| `TablesProofs` | `EvictionExact` (`RecordsLeft`), `SplitExact` (`CallsSplit`), `CandidatesRanked` (`Ranked`) |
| `PublisherProofs` | `RemovalsObserved` (`RemovesObservedKey`), `KeyFilesCurrent` (`KeyFileCurrent`) |
| `PunchProofs` | `SessionsNotCrossed` (`NotCrossed`), `PathsTried` (`UpOnlyIfTried`) |
| `StreamProofs` | `StreamTypes`, `NeverTruncated` (`NoTruncation`), `DoneLeavesNothing` (`DoneComplete`) |
| `KcpProofs` | `StreamInOrder` (`InOrder`), `NothingGivenUp` (`Kept`), `WindowRespected` (`InWindow`), `ImplementsPipe` (`IsPipe`) |
| `CliProofs` | `ContextsOwned` (`ContextOwned`), `StatusesTrue` (`StatusTrue`), `ExitsClean` (`CleanExit`), `ExitsTell` (`ExitTells`) |

Hardly any property is inductive as it stands. The strengthenings, and why each
is needed:

* **Seats** (`SeatIInv`). A configuration step could lower the limits under the
  records, so the invariant adds that the context is configured only while its
  table is empty and that `nonvip_cap` is what `redp2p_update_nonvip_cap`
  computes. Every step configures, removes records, or admits one newcomer past
  both capacity tests (`PeersStep`). For `VipNeverRefused`: the live unreserved
  records fit in `nonvip_cap`, the reserved ones other than the newcomer are
  fewer than the reservations, so one seat is left (`ReservedSeatFree`).
* **Keys and the registry** (`KeyIInv`). The secret of a record is that of its
  reservation at the time it was minted; the binding survives because the
  reservations change only while no record exists. The refinement maps the live
  records to leases; each handler is a step of `Registry`, and the evictions,
  which remove only what is no longer live, are stutters.
* **Calls** (`CallIInv`). `PendingInv` together with the serials of waiting
  calls being places in `fate`, so that a new call never meets an old serial.
* **Connection table** (`LoopIInv`). Ownership and the exactness of the pass
  need one another, and three facts more: the backlog holds a connection once, a
  pass starts with nobody looked at, and the listener that select reported still
  has a connection to accept.
* **Array loops** (`EvictInv`, `CallInv`, `NormInv`, `SortInv`). Loop invariants:
  what the walk has settled on its side of the index, what is untouched on the
  other, and that nothing was lost or repeated. The replacement in
  `redp2p_normalize_candidates` keeps the best of each endpoint of the prefix
  read so far; the sort keeps the set and orders a prefix.
* **Key file** (`KeyInv`, `FileInv`). A record is under a minted key, an answer to
  a registration carries a key, and the mutex is held from the comparison to the
  unlink. `KeyFileCurrent` moreover needs that an operator about to remove the
  file holds a key no record has any more, and that the file stays current while
  a publisher registers again. `RemovalsObserved` is about the threads of one
  process (`OneProcess`), `KeyFilesCurrent` about one publisher among them
  (`OnePublisher`) with any number of operators: the mutex does not reach
  further, and TLC refutes `RemovesObservedKey` without the first (section 6).
* **Punching** (`PunchIInv`). Packets carry the token of their own socket, a PING
  or proper PONG on its way to a consumer was sent by a punch for its call, and
  rounds are counted only for the call at the head of the poll reply.
* **Tunnel** (`StreamIInv`). For each direction: a CLOSE in flight or received
  implies that the sender has ended its output and that all of it is
  acknowledged, hence written. Both stay true while copies of the CLOSE travel,
  which is why it may overtake any datagram.
* **KCP** (`KcpIInv`). For each direction, all copies of a sequence number
  (waiting, in flight, received early, written) are the same interval and
  neighbouring numbers are neighbouring intervals; the send queue continues them
  up to what was sent; acknowledgements and `snd_una` speak only of what arrived;
  whatever is not received is still in the send buffer. The window follows since
  numbers in use lie within `SndWnd` of `snd_una`.
* **Runner and program** (`OwnedInv`, `HostInv`, `StatusInv`, `CliInv`). A thread
  that works is still in its slot, so whoever frees the slot's context joins it
  first; a slot between two steps of an open is in no other's hands. `StatusesTrue`
  and `ContextsOwned` are stated while the table is within its first allocation
  (`table.cap <= InitialCap`, eight slots in the code, any number here): until
  then no pointer of a thread is stale (`StatusInv`, `WildInv`), but when the
  table grows the slots may move away from the pointers the threads hold, and TLC
  refutes both with `InitialCap = 1` (section 6). `CliInv` says for each place of
  `main` whether its service is `Live` in the slot of the handle, `Stopped` and
  joined, or `Closed`; since a stop or a close may be skipped, `main` carries all
  that are still possible along to its last close, which ends in `Closed` from
  each of them. Only after an open whose answer is missing, or a last close that
  was not made (`lost`), may something be left.

Where an argument ranges over a sequence or a finite set (the next segment to be
received, the free slot found first, the candidate that ranks first) it takes a
least number instead of an induction; no theorem rests on a recursive
definition.

**Model-checked only**: liveness, since fairness and `ENABLED` are outside the
prover's reach: `Served`, `Stops`, `Expires`, `Terminates`, `BothEnd`, `Settles`,
`Heals`, `CallsTried`, `OneSidedEnds`, `Ends`. The two violations are behaviours
TLC exhibits and have nothing to prove.

## 5. Not modelled

* Byte-level formats (HTTP, JSON, stream envelopes, hexadecimal), digests,
  socket options, platform variants, the legacy key path: pure data, or one
  outcome in the models.
* Durations. `Punch` orders steps, so it does not show that punches lasting four
  seconds each may outlast the silence limit of ten seconds of the publisher's
  other sessions.
* The STUN exchange and the port arithmetic of the sweep: they only change which
  addresses are pinged.
* A datagram of the application that begins like a control token (6775) is taken
  for one; payloads are not kept in `Punch`.
* Options from the environment, argument parsing and the printed lists:
  straight-line code without state.
* The PHP index, a second implementation over a database, and the JSON and hash
  libraries.

## 6. Where the code and its documents disagree

Shown by a run:

* **Oversized poll** (`poll_fit`). DESIGN.md:75 says `punch_poll` returns the
  calls it consumes. They are taken before the reply is built, and a reply larger
  than its buffer is not sent.
* **`--down`** (`down`). README.md:98 says it stops a background index. The PID
  path is created as a directory when nothing was there (`cli_mkdir_p` is given
  the whole path), so no number is written; `--down` removes the directory and
  signals nobody.

Met while modelling:

* **Idle connections.** imp/SPECIFICATION.md:28 says an idle connection is dropped
  after 5 seconds. The timeout is tested only for a connection that has sent
  something, and only in a pass after a ready select (5210): a silent one keeps
  its place for ever.
* **Prune under load.** DESIGN.md:77 says removal runs every 60 seconds. It runs
  only when select times out (5279), so requests that arrive at least once a
  second and evict nothing postpone it for ever. Expired records stay hidden from
  every reader all the same (`IsLeaseRegistry`).
* **Key removal between processes.** The comment of `redp2p_remove_key` (5911)
  says a path is removed only while it holds the observed key. The mutex is local
  to the process; with `OneProcess = FALSE` TLC refutes `RemovesObservedKey`,
  between threads of one process it holds (`key_file`).
* **Growth of the runner's table.** DESIGN.md:200 says the table of contexts is
  bounded and DESIGN.md:203 that `status` reports running or finished state. The
  table grows: when the ninth service is opened `realloc` may move the slots (8077)
  while the threads keep pointers to the old ones. A thread then takes its
  operation, context and index host from freed memory, and stores its end there:
  the slot says running for ever. The configuration of `cli` with `InitialCap = 1`
  and two opens makes TLC refute `StatusTrue` and `ContextOwned`; as listed it
  stays below the first growth. A second host that opens at the same time may also
  be given a slot whose `memset` (8263) made it look free; the models have one host.
* **One-sided datagram sessions.** Every datagram of the local application renews a
  session's clock, on either side (6853, 7648), whether or not the peer is there:
  an application that sends at least every ten seconds keeps a UDP session nobody
  answers for ever, and its datagrams go nowhere. `OneSidedEnds` makes that
  exception, and without it TLC refutes it.
* **A service nobody can stop.** When the reply of an open cannot be built after the
  thread was started (8391), or the program cannot parse it
  (`src/redp2p.c:407`), the service runs on without a handle; the program exits at
  once, an embedding host keeps it. A close whose request cannot be built
  (`src/redp2p.c:455`) is skipped silently. `CleanExit` excepts the first and the
  last close.
* **Received candidates.** DESIGN.md:142 says duplicates are removed and
  candidates attempted in priority order. A side does this to the candidates it
  gathers; those it receives are only given a priority (4314-4359).
* **Timer overrides.** README.md:129 documents them; `redp2p_open` (2653) accepts
  a value when `redp2p_parse_u` returns `REDP2P_OK`, which is 0 and means failure
  there, so a valid value is ignored.
* **Exit status after a signal.** When a signal ended the wait, `main` reads a
  result that was never set (`src/redp2p.c:953`): the exit status is then either
  one, as in `ExitCodes`, and `ExitTells` speaks of the other cases only.

## 7. Plan

1. A clock shared by punching and silence in `Punch`.
2. Two publishers of one identifier in `Publisher`, and what their shared key
   file and record still guarantee.
3. More than one host in `Runner`, with the race of two opens of section 6.
