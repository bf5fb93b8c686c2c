# Semantic Echo in TLA+

A verification of the WebTransport echo service of this repository: models of
its server processes, of how connections and certificates reach them, and of the
diagnosis its page draws, model-checked with TLC on small instances. Every safety
property the passing runs check, and the refinement of the echo contract by both
kinds of rung, is also proved with TLAPS for every instance; liveness is
model-checked.

Line numbers refer to the source files beside this directory (`src/`).

## 1. The system

One machine runs three processes (`start.sh`): **lab** (`main.go`: pages, the
stock and the Safari-safe WebTransport listeners), **legacy**
(`legacy/main.go`: four more listeners on an older library pin, and the
flow-control probe) and **rust** (`rust/src/main.rs`: the independent stack). A
"rung" is a listener one may dial. Every rung runs the same echo under the same
abuse budgets; the pages dial a rung, then ask the lab process what the servers
saw.

| component | state | operations | interacts with |
|---|---|---|---|
| budgets (`main.go:75-132`, `legacy/main.go:195-256`) | slots per address, bytes echoed, window start, warned flag, one mutex | `acquire`, `release`, `spend`, each beginning with `roll` | called by every handler and every echo loop |
| echo handler and session goroutines (`main.go:143-226, 388-429`) | per session: lifetime context, stop channel of capacity 1, atomic byte counter | handler, slot goroutine, datagram loop, accept loop, stream loops, connection watcher | budgets, observer, the peer through webtransport-go |
| rust rung (`rust/src/main.rs`) | the same, as one tokio task with a select loop and a task per stream | `serve`, `echo_session`, `echo_stream`, `charge` | its own budgets, the peer through wtransport |
| observer (`observe.go`, `legacy/observe.go`) | one rolling JSON-lines file per process | `newObserver`, `record` | written by handlers and watchers of lab and legacy |
| `/observed` and the verdict (`main.go:489-502`, `wt.js:205-299`, `echo.html:219-229`) | none of its own | `readObservations`, `verdictFor`, `renderObservation` | reads the files of all processes |
| dialer page (`echo.html`, `wt.js:119-174`) | current session, writer, parked resolvers | connect, disconnect, send, teardown | a rung, `/observed` |
| probe page (`probe.html`) | run state, counters, stall detector | begin, stop, runs | the probe listener |
| PROXY listener (`proxy.go`, `observe.go:142-168`) | buffered connection, deadline, client address | `Accept`, header parsing, `clientAddress` | the page server; the addresses the UDP listeners record |
| certificates and hashes (`main.go:239-371, 484-538`, `legacy/main.go:62-102, 351-383`) | `ca.key`, `ca.pem`, `hash<port>` files, leaves in memory | mint or reload, publish, serve, listen | pages that pin, devices that install the CA; across restarts and processes |
| page server, templates, static pages | none | render | |
| deployment (`start.sh`, `fly.toml`, `Dockerfile`) | the processes | start, restart | all |

**What makes it correct.**

- *Budgets and sessions.* A slot is held by exactly one attempt and given back
  once, whichever way the handler, the slot goroutine or the session task ends;
  an address never has more sessions open than its cap; bytes on the wire stay
  within the session budget and the daily ceiling although loops charge and
  write in separate steps; the reason a client reads is true; a limit that bites
  closes the session; a slot comes back even from a silent peer; no goroutine
  outlives its session.
- *Diagnosis.* A verdict is what this attempt's own record gives; a record that
  is damaged misleads nobody but the page whose rows are gone; a client is told
  that UDP is blocked only if no handshake of it had completed.
- *Pages.* An echo answers the send it belongs to; events of an old session do
  not disturb the next one; a failed attempt leaves no session open.
- *Reaching the page server.* A header costs the stream behind it nothing; a
  silent client delays nobody for ever; the page asks about the address its own
  UDP packets are recorded under.
- *Certificates, deployment.* An installed profile keeps matching after a death
  at any moment, and main comes up again; a published hash is that of the leaf
  being served.

**What is hard.** Many goroutines charge one counter and one ceiling; limits,
lifetime, peer and scheduler race for how a session ends; a day can turn between
a grant and its write; record files are read while processes write, roll, tear
and restart them; a page asks the server about an attempt on a timer.
`PROJECT.json` lists each such hazard at its line.

## 2. Modules

```
Budgets            accountant: roll, acquire, release, spend
  EchoServer       Go rungs ────────────┐  refine
  RustServer       Rust rung ───────────┴─> EchoContract
Observations       record files, /observed, the verdict
ProxyListener      accept loop, PROXY header, whose address /observed is asked for
CertStore          CA files, leaves, hash files, deaths of both processes
Dialer             datagram sends of the page, their resolvers and timeouts
MCEchoServer, MCRustServer, MCObservations, MCProxyListener, MCCertStore
                   instances for TLC

BudgetsProofs      lemmas: the window, what was granted, sums of bytes
  EchoServerProofs       types, slots, caps, reasons, limits, budget and ceiling
    EchoServerRefinement   the Go rung implements EchoContract
  RustServerProofs       types, slots, limits, budget and ceiling, EchoContract
ObservationsProofs       what a verdict may say
ProxyListenerProofs      what is taken from the stream, whose address is asked for
CertStoreProofs          pins, the profile, the CA files
DialerProofs             which send an echo goes to
```

A proofs module extends the module it is about (and those above it in the tree).

**Budgets** is `type budgets`. Each method runs under the mutex, so each is one
step; `roll` is part of `acquire` and `spend` as in the code. Time is `aged`, the
condition `roll` tests, set by `DayPasses` up to `MaxWindows` times. A key the Go
map lacks is a counter of 0 (`release` deletes at one or below). The probe cap of
`legacy/main.go` is the `cap` argument. `granted` and `windows` are auxiliary.

**EchoServer** is a Go rung: the legacy one, whose probe listener has a cap and a
budget of its own (`legacy/main.go:105-171, 266-349`). Without probes it is the
lab rung, whose handler and `serveEcho` are the same code (`main.go:143-226,
388-429`). A member of `Sessions` is a client attempt; a
member of `DatagramLoops` or `StreamLoops` is an echo goroutine, and a stream
loop is a slot of the peer's stream credit which serves one stream after
another. Program counters mark the points where another goroutine can
interleave:

| state | code |
|---|---|
| `handler` | the `/echo` handler: record, `acquire`, `Upgrade`, `release` on error, `serveEcho` |
| `sup`, `why`, `ctx`, `stopped` | the slot goroutine: its select, `CloseWithError`, deferred `cancel` and `release`; the lifetime context; the stop channel |
| `accept`, `pc`, `size`, `last`, `upto` | the accept loop, `ReceiveDatagram`/`echoStream` loops and their buffers |
| `counter` | `echoed`, the session's atomic |
| `conn`, `recorded`, `wt`, `reason` | the connection and its watcher; the session and how it was closed |
| `sent`, `egress` | auxiliary: bytes that reached the wire |

A charge is two steps (`echoed.Add`, then `limits.spend`), the write a third.
quic-go and webtransport-go are external: `Upgrade` may fail, the peer may close
the session or vanish at any time, a read may return bytes together with an
error, a write may fail after part of the buffer, a datagram send is silently
lost. A datagram the library still had queued when its session closed is not
handed out, here and in RustServer: its echo could no longer be sent, and all it
would do is charge the counters.

**RustServer** is the Rust rung, over the same `Budgets`. The session task is one
program counter through `serve` and `echo_session`: datagrams are charged and
answered inside the select loop, the 200 ms grace before `close` lets stream
tasks go on, `?` on `accept` leaves through `release`. What becomes of a
connection whose session task dropped it while stream tasks hold their halves is
wtransport's affair: `DropCloses` covers both answers.

**EchoContract** says what a rung promises without saying how: one slot per
attempt below its cap, echo only while the session is open and within its budget
and the allowance of the days so far, the slot given back only after the close.
Both servers instantiate it through `Phase` and `days`; `ImplementsContract` is
the refinement.

**Observations** follows a row from the handler that stamps it (before taking the
observer's lock), through the file (rolled, torn, lost, removed at a restart), to
`/observed` (address, cutoff, one file after another) and to `verdictFor` behind
the port filter. The server goes its own way: a packet reaches it (`Reach`, which
leaves no record), the handshake completes (`Arrive`, the `quic` row), a CONNECT
follows, at any time after the dial and whatever the page does, since an attempt
whose page gave up lives on (`wt.js:153, 172`). A file is the set of its rows: the
reader sorts them and the verdict only asks which kinds occur. Sizes count rows.
`own` (what the server knows of an attempt), `before` (what it knew when the page
asked) and `lost` (kinds whose row no answer will hold: rolled away, torn, not
written, wiped, late or unanswered) are auxiliary.

**ProxyListener** follows a connection from the kernel's backlog through
`Accept`, which reads the header before it returns (so one connection at a time),
to the `/observed` request behind it. What a client sends is cut into three
parts: the twelve bytes `Peek` waits for, the rest of the header (where there is
one), and the request, which may come long after the hand-over; `consumed` says
how many of them `newProxyConn` took. A
connection comes direct, with a v1 or v2 header that names its client or does
not, or through a proxy that sets an HTTP header. An address is a host and a
form, since TCP and UDP may spell one client v4-mapped or as another loopback;
`normalizeAddress` and legacy's own copy of it (`recordedAs`) settle that.
`AsksForItself` is what Observations takes for granted when it speaks of "the
same address". A client that sends `X-Forwarded-For` on its own account,
past the proxies, would be asked about under the address it names
(`observe.go:143-148`); no browser does, and it is left out. So is a machine that
TCP and UDP see under different hosts, as on a dual-stack network.

**CertStore** has both Go processes starting and dying on their own. `labAt` walks
through `loadOrMintCA`: read both files, or mint and write `ca.key`, then
`ca.pem`, each write being an opening that truncates and the write itself, each
of which may fail unnoticed; then the page leaf is signed, `-wtcert` picks what
the ports serve and what `/hash` says, and main listens. Legacy mints its leaves,
writes the hash files in the order of the source and only then listens; a
listener that fails takes the process with it. The two listeners on the real
chain serve no pinned leaf, so their failure is one of the process's deaths, and
so is a real chain main cannot load or a port it cannot bind: `MaxDeaths` bounds
these too, which assumes that neither is permanent. A tab fetches a hash and dials
later, a device installs the CA once. A certificate stands for its own hash:
`Cert(what, n)`, its kind and the boot or mint it is from. `since` (which boot
served the port when the hash was fetched) and `mishaps` are auxiliary. `start.sh`, which also ends legacy with
main, is a special case of these deaths.

**Dialer** is the datagram side of `echo.html`, one action per task of the event
loop: a click parks a resolver and writes, the reader hands a payload to the
first resolver, a timeout removes the last, a teardown removes all, and sessions
follow one another under sends still outstanding.

Operators marked *Broken* are faulty variants of the definition after them; each
property is known to fail with at least one of them (`PROJECT.json`, `mutants`).

## 3. Runs

`tlc -config <run>.cfg <MC module>`.

| run | question | instance, and why it is enough |
|---|---|---|
| `egress` | Does concurrent charging keep a session within its budget and the process under the ceiling for each window, with a true reason, and is a limit that bit remembered? | a datagram and a stream loop, payloads 1 and 2, budget 3, ceiling 3, one rollover, between a grant and its write too: both loops can overshoot, in either order; a third adds overshoots of the same kind |
| `contract` | Do the counters equal the holders, is the cap kept, and does the Go rung implement the contract? | an ordinary and a probe attempt for one slot, one of them echoing, with a rollover; every end of handler and slot goroutine. The budget bites before the ceiling here: what the contract says of the ceiling, and two different caps at once, are the theorems' (section 4) |
| `liveness` | Does a limit that bites close, does every goroutine end, does a slot come back from a silent peer? | a datagram and a stream loop, budget 2 and ceiling 2: a second byte meets the ceiling and a third the budget, in either loop and in both at once; only the last property assumes that lifetimes run out, so the lifetime is not what saves the others |
| `rust_egress` | The same questions as `egress` and `liveness`, for the Rust rung | one session, two stream tasks, a rollover, drops that leave the connection up |
| `rust_contract` | Rust slots, and the contract if a drop closes | two sessions for one slot, one stream |
| `verdicts` | Is each page told of its own attempt, and of blocked UDP only if no handshake had completed? | two attempts of one address on ports of two processes, nothing lost, a tick inside the window, packets and rows that come after a page gave up; six rows between them, where one attempt makes four at most |
| `verdicts_faults` | Is a verdict wrong by no more than what its own attempt lost? | two attempts with one file of two rows between them, one fault (restart, lost or torn line, unanswered request) and pages that may ask before the record has landed; five rows, so that the file rolls over twice, each time over rows of either |
| `verdicts_rust` | *violated*, finding 1 | one attempt on :4438 |
| `verdicts_stale` | *violated*, finding 2 | two attempts on one port |
| `proxy` | Who is served, what is taken from the stream, whose address is asked for? | two connections of any kind and pace, from a far client and from the server's own machine, in every spelling; a third in the backlog waits in the same way |
| `certs` | What survives deaths and failing writes, and is a pinned hash right? | one port of main, two pinned ports of legacy with different leaves, a tab on a port of each process; two deaths and one file error, at any moment: enough for a second death in the boot that repairs the first |
| `dialer_timeout` | *violated*, finding 3 | two sends, two sessions |

Payloads are a few model bytes, since only sums and comparisons matter; 64-bit
counters cannot wrap within the budgets. `MaxCounter` stops a peer from sending
once its session's counter has passed it: every loop may overshoot once, which is
all the code's comparison distinguishes. `MaxWindows`, `MaxClock`, `MaxFaults`,
`MaxDeaths` and `MaxSessions` bound time, faults, deaths and reconnections;
`MaxRows`, a constraint of two instances of Observations, bounds the rows their
attempts are given between them. Symmetry is not used. `CHECK_DEADLOCK FALSE`: every
attempt of an instance ends, and then nothing is left to do.

**Fairness.** `FairSpec`: Go runs every runnable goroutine, `Upgrade` and
`CloseWithError` return, and a call blocked on a session fails once the session
is closed. The three cases of the slot goroutine's select are fair *together*:
no case is preferred. Tokio polls ready tasks, and its select polls its branches
in random order, so a deadline or a stop that stays ready is not passed over for
ever by a peer that keeps datagrams coming (strong fairness of those two
branches). `ClockFairness`, assumed by `SlotComesBack` only, adds that a lifetime, once started, runs out. Nothing is
assumed of the peer: it may stay silent, or give no credit and leave a write
blocked. In ProxyListener the accept loop and handlers run and an armed deadline
passes; clients owe nothing. In CertStore a process that runs goes on and main,
the machine's main process, is started again; legacy is not, since `start.sh`
puts it into the background and nothing there restarts it. In Dialer, whose one
property is about single steps, timers fire and writes settle.

**What the model found out about the properties.**

- `DailyEgress` counts one allowance per window *opened*: a grant of the old
  window can be written in the new one, so "at most the ceiling in any 24 h" is
  not what the code promises.
- `VerdictForThisAttempt` needs three things the code arranges only roughly: one
  attempt at a time on a port within 30 s, the record landed within the page's
  400 ms, no fault. Without the last two `OnlyLossMisleads` is what remains: a
  verdict is wrong by no more than the rows its own attempt lost. That can be
  wrong enough. Whoever lost the `connect` row reads "closed without sending the
  extended CONNECT request", and whoever lost only the `session` row reads that
  the server could not complete the upgrade.
- An `/observed` that fails is such a loss, of everything: `observed()` returns
  null, `renderObservation` reads that as the empty list (`wt.js:265`), and the
  page says that no packet arrived although it has learned nothing.
- "No QUIC packet from your address reached this port" (`wt.js:218`) is more than
  the record can say. A `quic` row is a completed handshake (`main.go:388-394`):
  a client that turns the certificate down, or whose handshake is still under way
  when its page asks, has sent packets and is told that UDP is blocked. On the Go
  rungs the sentence is true of handshakes (`NoUdpMeansNoHandshake`), on the Rust
  rung not even of those (finding 1).
- `LabComesUp` has an exception the code leaves open: a death inside a write, or a
  failed write nobody looks at (`main.go:287-288`), leaves a file that can be
  read and not used. Main then panics, or stops, at every boot until somebody
  removes it. A death between the two files does no harm.
- "So a half-served machine restarts" (`legacy/main.go:93-94`) is not so: when a
  listener fails legacy exits, but `start.sh:8` runs it in the background of main
  and leaves its rungs unserved until main ends too. No property rests on it.
- `PinHolds` says "until the process starts again". A hash fetched before a
  restart of legacy and used after it fails; so does any pin while the machine
  is between the two.
- The contract holds of the Rust rung only if a dropped connection closes. After
  a failed `send_datagram` (`main.rs:219-221`) the loop ends without `close`; if
  stream tasks then keep the connection up, the slot is back while the session is
  not gone.

**Findings** (each with its run, details in `PROJECT.json`)

1. The Rust process records nothing, while the README (line 133) says every
   process does; a failed attempt on :4438 reads "No QUIC packet from your
   address reached this port" however many did, and even if its handshake
   completed and it asked for a session.
2. `/observed` answers with rows of the last 30 s whichever attempt they belong
   to; a second attempt is given the verdict of the first.
3. A datagram send that times out unparks the newest resolver instead of its own
   (`echo.html:284`), so with two sends outstanding, or one left over from an
   earlier session, an echo goes to a send that has given up, and the send it was
   for is reported as timed out.

## 4. Proofs

`tlapm <module>.tla`, for the eight modules above. The assumptions are the
ASSUMEs of the modelled modules: finitely many attempts and loops, a probe cap no
larger than the ordinary one, natural caps, budgets and payloads, processes and
modes the code has. No theorem bounds the number of attempts, loops, connections,
ports, tabs, rollovers or deaths. What a theorem assumes besides stands in it.

| module | theorem | states |
|---|---|---|
| EchoServerProofs | `TypeCorrect`, `SlotAccounting`, `OpenSessionsCapped`, `ReasonsAreTrue` | `TypeOK`, `SlotsMatchHolders`, `AddressCap`, `TruthfulReason` |
| | `LimitsAreNotForgotten`, `SessionEgressWithinBudget`, `DailyEgressWithinCeiling` | `NeverFallsSilent`, `SessionEgress`, `DailyEgress` |
| EchoServerRefinement | `ServerImplementsContract` | `ImplementsContract` |
| RustServerProofs | `TypeCorrect`, `SlotAccounting`, `LimitsAreNotForgotten`, `SessionEgressWithinBudget`, `DailyEgressWithinCeiling`, `ServerImplementsContract` | `TypeOK`, `SlotsMatchHolders`, `NeverFallsSilent`, `SessionEgress`, `DailyEgress`, `ImplementsContract` (if `DropCloses`) |
| ObservationsProofs | `TypeCorrect`, `LossAloneMisleads`, `NoUdpIsTrue`, `VerdictIsItsOwn` | `TypeOK`, `OnlyLossMisleads`, `NoUdpMeansNoHandshake`, `VerdictForThisAttempt` (the last three under hypotheses, below) |
| ProxyListenerProofs | `TypeCorrect`, `HeaderTakenWhole`, `PageAsksForItself`, `AcceptLoopGoesOn` | `TypeOK`, `TakesTheHeaderOnly`, `AsksForItself`; `LoopGoesOn` |
| CertStoreProofs | `TypeCorrect`, `PinsHold`, `ProfileIsKept`, `DeathBetweenFilesIsHarmless` | `TypeOK`, `PinHolds`, `ProfileKeepsMatching`, `BetweenFilesIsHarmless` |
| DialerProofs | `TypeCorrect`, `TimelyEchoesReachWhoWaits`, `OneAtATimeIsAnswered` | `HandsToWhoeverWaits` (both under a hypothesis, below) |

**Slots** (`SlotInv`, both servers). `SlotsMatchHolders` alone is not inductive:
`release` deletes the key at one or below, so that the counter drops by exactly
one is true only if it was positive, which is known only from the holder being
counted; and a step of the slot goroutine is a step of the holder only if the
handler has reached `serveEcho`. `SlotInv` therefore conjoins the types, the
*shape* of an attempt (which positions of handler, slot goroutine and session
occur together), counter = holders, and holders and probe holders within their
caps. Steps are sorted by what they do to the set of holders: one step adds a
holder, two remove one, every other leaves set and counter alone. The cardinality
facts come from the library's theorems on finite sets.

**Bytes** (`LedgerInv`, both servers). A loop that has charged and not written
yet is a debt. For a session, what was sent plus the buffers of the loops that
charged it within budget is at most its counter, and at most the budget: the
counter itself overshoots, once for each loop that is then refused. For the
process, what was sent plus the buffers of the loops `spend` let through is at
most what the windows closed so far allow plus what this window granted, which
is within the ceiling; the rollover between a grant and its write moves `granted`
to the closed windows and leaves the sum alone. A sum of buffers is the number of
bytes in them (`BytesIn`, a cardinality), so that one loop joining or leaving
changes it by the lemmas of BudgetsProofs and no recursion is needed.

**Reasons** (`ReasonInv`). A reason is true in the loop that gives it and stays
true in the channel, in the slot goroutine and at the client, because what it says
cannot become false: counters only rise, a window that saw its ceiling has seen
it, an expired context stays so. The lifetime is the exception that needs the
shape: the context is canceled only after the select.

**Limits** (`NoticeInv`, both servers). `NeverFallsSilent` is what "a limit that
bites closes the session" amounts to at any one moment. Its proof needs that
nothing is charged before the session is served. In the Go server it is that a
charge past the budget leaves its loop about to stop, and that a stop leaves the
channel full, with its own reason or the one it found; the reason leaves the
channel only when the slot goroutine goes on to close. In the Rust server a limit
met by a stream stays in the outcome of its task, so the invariant speaks of both
limits; it ends where the session task leaves its loop.

**The contract.** `Phase` and `days` are the refinement mapping. `PhaseInv` adds
to `SlotInv` where a session may be open; the frame lemmas make all but the steps
of handler, slot goroutine and writes stutter; the cap comes from the slot
accounting, the allowances from the ledgers. For the Rust rung the theorem reads
`DropCloses /\ Spec => ImplementsContract`: without that answer of wtransport's a
connection can outlive its slot, as section 3 says. The same holds of
`OpenSessionsCapped` in RustServerProofs, the cap on sessions really open, which
no run states for that rung. The other Rust theorems hold for both answers.

**Observations.** The three theorems about verdicts differ in what they assume of
the instance and of the behaviour. *Instance:* `KeepsRecords`, every port
attempted belongs to a process that keeps a record; `Undisturbed`, besides that
nothing fails and what is recorded lands within the page's 400 ms. *Behaviour*, so
that time may pass and files may roll over: `Recent`, a page asks while its rows
are inside the window; `Roomy`, no file rolls over that holds rows of an attempt
still in progress (`InTime` is both); `Apart`, while a page asks, no other attempt
on its port from its address has rows recent enough to be handed back. These are
what the code arranges only roughly (section 3).

`LossAloneMisleads` needs `KeepsRecords`, `Recent` and `Apart` and allows every
fault. `KeptInv` accounts for each row: a kind an attempt was given is pending, in
the file of its process or among what it lost, and what a page has asked for and
not lost it has read or is still to read. `OwnInv` says that what a page holds is
its own attempt's, so nothing is put in the place of a row that is gone. The other
two assume `Undisturbed`: then nothing is lost before the page has been told
(`UnlostInv`, from `Roomy`), so the exception disappears. None of the three
assumes that the page is still waiting when a packet or a row arrives.
`SmallIsInTime` and `OwnPortsAreApart` derive `InTime` and `Apart` for the
instances of which they hold by construction, such as `verdicts`. All three are
action properties: they speak of the step that shows.

**ProxyListener.** `HeaderInv` says that the backlog holds each waiting
connection once, that a connection carries the source its header named once it is
handed over, and that its stream is intact unless its own header was cut short.
The assumptions on addresses say what a spelling is: a client's packets carry one
host in one of two forms, or any host of the loopback.

`AcceptLoopGoesOn` is the part of `EveryoneIsServed` and `SlowIsNotLost` that
needs no fairness: one connection at most holds the loop, a deadline runs against
it or has passed, who waits is in the queue, and no deadline is left behind.

**CertStore.** Steps belong to one of three parties (main, legacy, a tab).
`PinInv`: a port listens only when nothing is left to publish, and what is
published or answered is the leaf of this boot; a pin fetched while its port was
served matches for as long as that boot lasts. `FilesInv`: main holds a whole CA;
unless a write failed, the files hold what main holds and what a device installed;
unless a write was also cut short by a death, `ca.pem` is there only if both
files are whole.

**Dialer.** `HandsToWhoeverWaits` is false of the code (finding 3); the theorems
say what it takes to make it true. `ParkedInv`: a parked resolver belongs to the
session that is open and is the only one of its send, and while nothing has timed
out every send that waits is parked; so the pop of a timeout is the only way to
lose a place (`TimelyEchoesReachWhoWaits`). With one send outstanding at a time
the pop takes the resolver of the send that gave up, and timeouts do no harm
(`OneAtATimeIsAnswered`).

TLC finds the inductive invariants true on the instances of section 3 as well
(`LedgerInv` with the byte positions in `Bytes` cut to `0..30`, since TLC does not
enumerate `Nat`).

**Only model-checked**, since fairness and ENABLED are out of the prover's reach:
`SlotComesBack`, `BittenSessionCloses`, `LoopsEnd`, `EveryoneIsServed`,
`SlowIsNotLost`, `LabComesUp`. `NeverFallsSilent` and
`LoopGoesOn` are the safe halves of the second and of the two about the listener;
that every select of a slot goroutine has a lifetime that runs or is over, in
`ReasonInv`, is that of the first.
Every invariant and every safety action property of a passing run is a theorem.

## 5. Not modelled

- *Probe page*: a measuring instrument whose course is set by what WebKit does
  with flow-control credit, which nothing here defines. Its slot is the probe
  attempt of EchoServer.
- *Rest of the dialer page*: stream sends, the board that dials every rung, the
  URL fields.
- *Page server, templates, static pages, image and Fly configuration*: functions
  of a request and of what was compiled in, or data. One hazard remains there,
  listed in `PROJECT.json`: an asset is cached for ever under a version the server
  does not compare with the body it sends.
- *Calendars*: the CA's thirty days and the leaves' ten. A reloaded CA is not
  asked whether it has expired, and a leaf is minted at boot only.
- Within the modelled parts: JSON, log text, keys, X.509 and the bytes of PROXY
  headers are left out. A panic or the process's exit in the middle of a session
  is left out of the servers, since all their state goes with the process, and
  appears as `Restart` in Observations and as deaths in CertStore, whose files
  outlive it.

## 6. Plan

1. The safe half of `LabComesUp`: that main, until a mishap, is never without a
   next step. That of `SlotComesBack` is in `ReasonInv`: every select of a slot
   goroutine has a lifetime that runs or is over.
2. The cap on open sessions as a theorem of EchoContract itself. Both rungs have it
   as a theorem of their own (`OpenSessionsCapped`).
3. The hand-over of an attempt the page keeps open (`keepOpen` in `wt.js`), the
   first step towards the rest of the dialer page.
