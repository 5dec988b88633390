# LinuxTaskManager in TLA+

TLA+ models of the process monitor in `src/`: what its C core samples from
`/proc`, how its HTTP daemon handles requests, and what the two pages in the
browser make of the answers. TLC checks the models on small instances; TLAPS
proves safety properties and the refinements for every value of the constants.

## 1. The system

    browser            Spring Boot             http_server (one thread)        kernel
    app.js      --->   ProcessController --->  on_request, route_request --->  kill, setpriority,
    history.js         StatsController         handlers                        prlimit
                       (forwards)              get_process_list  <-----------  /proc/<pid>/*
                                               get_cpu_stats     <-----------  /proc/stat, diskstats

| Component | State it keeps | Operations | Hard part |
|---|---|---|---|
| Process sampler: `core_interface.c`, `cpu_usage.c`, `proc_stat.c`, `trimmed_info.c`, `sleeper_detection.c` | `before_list`, `now_list`, `proc_count`; `process_map` | `get_process_list` | the kernel's table changes during the scan; pids are used again; slots and records live for ever |
| System statistics: `get_cpu_stats`, `general_stat_query.c`, `cpu_usage.c`, `memory_stats.c`, `stats_routes.c` | `before_gs` | one sample per request of five endpoints | one baseline for all clients; `atoi` on 64-bit counters; CPUs that go offline; disks and partitions |
| HTTP daemon: `server.c`, `routes.c`, `process_routes.c`, `limit_routes.c` | `*con_cls` of each connection | `on_request`; signal, renice, CPU and RAM limit | bodies in parts and interleaved; a handler that queues no response; permissions; processes that exit |
| REST proxy: `ProcessController`, `ApiProcessService`, `StatsController`, `ApiStatsService` | none | forwarding | error statuses of the daemon become exceptions |
| Dashboard: `app.js` | `frozen`, `refreshTimer`, `sortField`, filters, the table | timer, fetch, signal and forms | overlapping requests, freeze during a fetch, controls that change under an await |
| History page: `history.js` | the series of the charts, the last counters, disks found first | polling | polls that overlap, an answer that lacks a field or a disk: the handler throws half way |
| Statistics ring: `header.c` | `entries`, `latest_index`, `count` | `push_general_stat`, `get_latest_stat` | wrap, oldest entry |
| Command line client: `c-core/src/main.c`, `process_sort.c` | process table | sampling loop (not reached: `exit(0)` at lines 90 and 174), sorting | comparisons |

How they interact. The daemon is one thread: libmicrohttpd (MHD below) runs its
select loop and calls `on_request` for one connection at a time, and a handler
runs to its end before the next call. So handlers do not interleave with each
other. What does interleave with them is the machine: processes, CPUs and
disks between two reads of `/proc`; and, between two calls of `on_request`,
other connections, clients that give up, and processes that exit. The two
samplers keep their baselines in globals that all clients share. Both pages poll
with intervals that do not wait for an answer, every two seconds and every
second, so any number of requests is under way, each held by a thread of the
proxy, and answers arrive in any order. In the browser one callback runs at a
time, but each function that fetches is cut in two at its `await`.

What makes each component correct:

- *Process sampler*: a row shows what its process used since the last sample; a
  process that is there during the whole scan is listed; a sleeper has been idle.
- *Statistics*: the usage of a core and of the machine is the time it was busy
  between two samples; nothing is counted twice or lost when clients share the
  baseline; a core has its own name; disks, not partitions, are listed.
- *Daemon*: a request acts at most once, by the one system call of its route, with
  the pid and the number it carries; the status tells whether it did, and every
  request is answered.
- *Dashboard*: the table is sorted and filtered as the controls say; an interval
  runs exactly while the page is thawed; an acknowledged change gets shown; the
  table catches up with the machine.
- *History page*: the points of a chart are differences between one answer and
  the one applied before, nothing is drawn twice, a column is one answer in the
  charts it has data for, and the total stays near the sum of the disks.
- *Statistics ring*: it is the window of the last samples, and averages are taken
  over it.

The list of hazards, each with its line and the properties that would catch it,
is in `PROJECT.json`.

## 2. Modules

| Module | Models | EXTENDS |
|---|---|---|
| `ProcessList` | process sampler and the kernel's process table | |
| `MCProcessList` | instance for TLC | `ProcessList` |
| `ProcessListProofs` | theorems about the process sampler | `ProcessList`, `TLAPS` |
| `StatsSampler` | `get_cpu_stats` and the endpoints, with CPUs and disks | |
| `MCStatsSampler` | instance for TLC: a machine with two disks | `StatsSampler` |
| `StatsSamplerProofs` | theorems about the usage and the disks | `StatsSampler`, `SumTheorems`, `TLAPS` |
| `SystemCalls` | processes, and `kill`, `setpriority` and `prlimit` as the daemon calls them | |
| `AtomicRequests` | abstract specification: requests that act in one step or not at all | `SystemCalls` |
| `HttpDaemon` | `on_request`, dispatch, the handlers that change a process, with `AtomicRequests` as an INSTANCE | `SystemCalls` |
| `MCHttpDaemon` | instance for TLC: requests that reach every branch | `HttpDaemon` |
| `HttpDaemonProofs` | theorems about the daemon, its refinement among them | `HttpDaemon`, `TLAPS` |
| `Dashboard` | `app.js`, the proxy and the daemon behind its requests | |
| `MCDashboard` | instance for TLC: filters that let all or nothing through | `Dashboard` |
| `DashboardProofs` | theorems about the process page | `Dashboard`, `TLAPS` |
| `HistoryPage` | `history.js`, the proxy, and the sample behind each answer | |
| `MCHistoryPage` | instance for TLC | `HistoryPage` |
| `HistoryPageProofs` | theorems about the charts | `HistoryPage`, `SumTheorems`, `TLAPS` |
| `RecentSamples` | abstract specification: the window of the last samples | |
| `StatHistory` | the ring of `header.c`, with `RecentSamples` as an INSTANCE | |
| `MCStatHistory` | instance for TLC: disks that are alike or not | `StatHistory` |
| `StatHistoryProofs` | theorems about the ring, its refinement among them | `StatHistory`, `SumTheorems`, `TLAPS` |
| `SumTheorems` | lemmas about sums over finite sets, used by the proofs | `TLAPS` and the library's theorem modules |

`Dashboard` and `HistoryPage` compose a page with the parts behind it. Of the
daemon they take what the other modules establish: in `Dashboard`, that a form
is acknowledged exactly when it took effect and that a signal is refused even if
it was delivered (`AnswerTellsEffect` and the run `signal_answer` of
`HttpDaemon`); in `HistoryPage`, that every answer makes its sample the baseline
of all clients (`StatsSampler`).

### ProcessList

One scan is one call of `get_process_list`. It is cut where it looks at `/proc`:
`BeginScan` (opendir; the entries are the processes alive then), `CheckEntry`
(readdir and the `fopen` that tests the file), `ReadStat` (`read_stat` opens the
file again; if the process has gone, `file_data` keeps the line of an earlier
entry, or what the stack left there), and `UpdateSlot`, `AddSlot` or `DropEntry` (the rest of
the loop body, with the row and the sleeper record). `EndScan` makes `now_list`
the next `before_list`. `Fork`, `Exit`, `Run` and `Tick` are the machine and may
happen between any two of these steps.

A process is told from another one with the same pid by its start time, and the
birth order stands for that. A buffer nobody has written to (`Garbage`) has no pid and
any CPU time of `StackCpu`; bytes of the stack that happen to read as a line of another
process are not modelled, except for the line of an earlier entry, the usual case. `utime + stime` is one number, `cpu`. The command
line matters only by being empty when there is no process with the pid; whether
a process holds more than 1 % of the memory is a free choice. A kernel that adds
an entry to `/proc` after opendir is not modelled: such a process may or may
not be listed, and no property speaks about it. Entries are visited in
ascending order, as procfs does. Usage is a difference of ticks; its quotient
by the interval is left out.

### StatsSampler

`ReadProcStat` takes the CPU lines; `Respond(e)` does the rest of `get_cpu_stats`
(disks, differences, new baseline) and builds the answer of endpoint `e`. They
are two steps because popen of the GPU tools lies between them. CPUs work, go
offline and come back (`Hotplug`); only CPUs online have a line, and the
machine's line adds up all of them. `Atoi` keeps the width of `int` and the sign
extension to `uint64_t`. A device is what `is_valid_disk` sees of its name, plus
the disk it is on; `Disks` is the set of the first `MaxDisk` valid ones, in the order
of the file. The endpoints `cpu` and `network` show none of the computed
figures and are `"other"`.

Megabytes are sectors here, counted exactly; the floats they are sent as, and the float
total, are in `HistoryPage`.

### HttpDaemon, SystemCalls and AtomicRequests

A connection is in one of the states MHD has for it: `headers`, `body`, `final`
(everything has arrived), `answered`, `aborted`. `AllocateContext`, `AppendChunk`
and the actions of `Dispatch` are the three branches of `on_request`; each
action of `Dispatch` is one branch of one handler, with the system call, the
status and the release of the context. `Finish(c, 0)` is a handler that returns
without a queued response: MHD leaves the connection where it is and calls
`on_request` again, which finds no context. The body is a number of parts; only
a whole body parses.

The pid of a request is any integer, for `routes.c` reads it with `%d` and checks nothing
(lines 54, 66, 88, 100). `SystemCalls` says what the kernel takes it for: `kill` means the
daemon's own group by 0, everybody by -1, a group by another negative number;
`setpriority` and `prlimit` mean the daemon by 0 and nobody by a negative number. The
daemon is one of the processes and ends by a signal like the others; then nothing is
answered any more (`Running`). Of a signal other than SIGKILL each process it reaches
may die or not. The permission rules of the kernel are modelled: the owner may signal,
raise a nice value and lower a limit, the rest needs privilege.

The number of a body is any double, given in `1/Unit` so that it is an integer, and
`Cast` is `(long)item->valuedouble` (`limit_routes.c:28`): the fraction is cut off, and
outside `long`, where C leaves the cast undefined, it yields what x86-64 or ARM makes
of it. `Bytes` multiplies in `rlim_t`, modulo `Word`.

MHD is external code. The model takes from its documentation that the callback
is called again while no response is queued, and that any return value but
`MHD_NO` means "continue" (`MHD_HTTP_NO_CONTENT` and the 200 of
`dispatch_stats_routes` are such values).

`AtomicRequests` knows no parts, contexts or statuses. A request is open on its
connection until `Act` (one step: the system call of the route with the pid of the
request and a value `Asks` allows) or `Drop` (refused, or given up) closes it. The refinement
mapping is `open <- Open`, the request of a connection that is waiting and has
had no effect, and `done <- effects`; the processes are the same in both. There is no
cast in it: `Asks` wants a value less than one unit (a nice level, a second, a megabyte) off the
number of the body, and -1 for a renice without one. It leaves open what becomes of a limit
that no `long` or no `rlim_t` holds (`Fits`), where the code may set any; a nice value must
be near what was asked even then, for the range check catches what the cast makes of it. Receiving
the body is a stutter, and so is the second dispatch of a signal that was delivered.

### Dashboard

An action of the page is one callback. `Load`, `Fire` and `SetControls` send a
list request, as `fetchProcs` does up to its await; `Kill` and `Submit` send a
change (`doSignal`, and the three forms). `ServeList`, `ServeSignal` and
`ServeForm` are the proxy and the daemon; the default command and the error
statuses are in them. `DeliverList` is `fetchProcs` from its await on: `Render`
sorts and filters with the controls of that moment, `Skip` is the catch.
`DeliverPost` is the same for a change: `Acknowledge` sends the refresh, `Alert`
does not. Requests are a bag, for two of them may be alike; `Fail` breaks one,
before or after the daemon has done its part.

`timers` are the intervals that run in the browser and `refreshTimer` is the
variable of that name; a new interval gets the smallest free id. A row is its
pid and the filters are the set of pids they let through, for what matters is
only *when* they are read. `version` counts the changes of the machine so that
lists can be compared. The text of a row, `truncate` and the tests of single
columns are left out.

### HistoryPage

`Poll` is `updateAll` up to its await and `Deliver` the rest, cut into the parts
that can throw: `HasMetadata` (the boxes; a null usage throws in `toFixed`),
`UpdateNet`, `UpdateDisks` (the loop, up to the first missing disk), `UpdateTotal`,
`UpdateCpuAndMemory` (throws at a core without a chart, and leaves the chart of a core
that is not in the answer as it is). `Serve` takes the sample
and builds the answer as `handle_all_stats` does; `ServeOther` is a sample for
another client, after which the interval may be 0 ms, which makes the usage
infinite and, in JSON, null. Disks come and go with `Plug`; a disk that comes back
counts from zero. CPUs come and go with `Hotplug`. A point of a chart carries, beside its
value, the figure it was computed from and the network counter of the answer it belongs to,
which tells answers apart that have traffic between them; the code has only the value.

What the daemon sends are floats. A counter is an unsigned long of bytes or sectors, its
megabytes are stored in a `float` (`general_stat_query.h:34-41`), and the total is a float
to which the disks are added one by one, rounded at each step (`stats_routes.c:226`). `Float`
rounds an integer as IEEE 754 does, to the nearest of the numbers with a significand below
`Precision`, and to the even one of two; the model counts in the finest unit that occurs, in
which all small numbers are floats. The subtraction of two of them in the page is one of
doubles and taken as exact. There is one network interface; with several, the network
figure would be rounded at each of them (`general_stat_query.c:326`).

### StatHistory and RecentSamples

One action, `Push`, is `push_general_stat`: store, move the index, count, and, from
the second sample on, the averages of that sample. An average is kept as its
numerator and the number of frames it is divided by. `Latest` is `get_latest_stat`.
`RecentSamples` knows no array: it keeps a sequence, and a report on the oldest,
the last and the one before. The refinement mapping is `recent <- Kept` (the
entries from the oldest on, across the wrap) and `report <- Promised(Latest.avg)`.
The read average is left out of the promise: the code subtracts the counter of
disk 1 from that of every disk (`header.c:31`), so it is wrong whenever two disks differ.
`frames` is the number of samples the code divides by, as in line 27, although the
difference spans one interval less; the promise keeps this. Floats are exact here. The ring
is library code: only the part of `main.c` that is not reached calls it.

## 3. Runs

| Run | Question | Answer |
|---|---|---|
| `process_list` | Do the table, usage, completeness and sleeper properties hold when processes come and go during scans? | yes, 5 million states |
| `pid_reuse` | Is usage bounded by what the process used? | no: a reused pid wraps the difference (`cpu_usage.c:14`) |
| `table_full` | Is every process listed when there are slots enough for the live ones? | no: slots are not reclaimed (`core_interface.c:138`) |
| `http_daemon` | Does the daemon implement atomic requests, with any pid and any number? Effects at most once, told by the status; every request answered? | yes, 190 thousand states |
| `signal_answer` | Is a delivered signal answered with 204? | no: 400, after a second dispatch (`process_routes.c:160`) |
| `renice_value` | Does renice need a value? | no: its absence is -1, a valid nice value (`limit_routes.c:44`) |
| `stats_sampler` | Is usage honest and conserved with a shared baseline, and no sector counted twice? | yes |
| `full_disks` | Are only disks listed? | no: the tests are inverted (`general_stat_query.c:242`) |
| `dashboard` | Does the table follow the controls, the box, acknowledged changes and in the end the machine? | yes, 550 thousand states |
| `history_page` | Is all traffic drawn once, in columns that agree, the total near the sum of the disks, and does the network chart catch up? | yes, 650 thousand states |
| `disk_deltas` | Is each disk drawn with the difference to the last answer? | no: a missing disk stops the loop before the counters are remembered (`history.js:211`) |
| `stat_history` | Is the ring filled in order, and the window of the last samples? | yes |

The six runs that fail show where the code does not do what its comments say;
each is a finding in `PROJECT.json` with the quoted line. What still holds in
spite of them is what the passing runs state: usage is honest *when both samples
are of one process*, a process is listed *unless the table is full*, a sleeper
has been idle *when its own record decides*, status and effect agree *for every
route but signal*, a core's usage is right *when it kept its place and its
counters did not cross 2^31*, and disks are drawn once *while the disks the page
knows are there*. Each of these conditions is met in many reachable
states, and each property fails for the mutant listed with it.

Eleven facts met on the way have no run of their own; each is outside what the named
property says, or excluded by its condition:

- a failed read may file the line of a process in a second slot, when the buffer still holds
  what the scan before read last; the next scan finds the lower slot first, and if that is
  the one with the older sample, usage is reported twice (`core_interface.c:124`;
  `HonestUsage` says what was used between the two samples, not which samples they are);
- the sleeper record of a dead process may make an active one with its pid a
  sleeper (`sleeper_detection.c:21`; `SleeperIdle` asks for the process's own record);
- with a CPU offline, later cores are shown under the key of another one, since keys
  are indexes of lines (`process_routes.c:100`; `CoreUsageHonest` speaks of cores
  that kept their place);
- a freeze box used before the page has loaded leaves an interval that no freeze
  clears (`app.js:209`; `early` in `TimersFollowFreeze`);
- an older list may replace a newer one, and a list under way rebuilds a table that
  was frozen meanwhile (`app.js:57`; `TableCatchesUp` says that an overtaken list
  is made good, once the page is thawed);
- with more cores than charts the memory chart never gets a point (`history.js:230`;
  `Cores <= NumCores` in `ColumnsAligned`);
- when a CPU goes offline the chart of the last core gets no point, and its columns stay
  behind for good (`history.js:229`; `fewest` in `ColumnsAligned`);
- the total drawn is not the sum of the disks drawn, because of the floats
  (`stats_routes.c:226`; `TotalNearDisks` says by how much it may be off);
- a fraction is lost on the way to a limit or nice value, and half a megabyte becomes no
  memory at all (`limit_routes.c:28`; `Close` in `AtomicRequests`);
- a huge limit becomes a small one when it wraps (`limit_routes.c:160`), or any at all
  when the cast is undefined (`Fits` in `AtomicRequests`);
- a request may name the daemon, a group or everybody (`routes.c:54`): signal 9 to pid -1
  ends every process the daemon may touch (`Addressed` in `SystemCalls`).

### Properties

- `SlotsInOrder`: the slots up to `proc_count` hold stamped snapshots and the
  rest are zero, after every scan and between any two steps; so no slot is
  overwritten and the fallback interval of 200 ms is dead code.
- `HonestUsage`: the unsigned difference never wraps for two samples of one
  process, even though a failed read may file an old line, or one of another
  process, in the slot. It needs that a buffer left over from an earlier entry
  is never older than the snapshot it is compared with.
- `SteadyListed`: a process there from the listing to the end has a row; and
  when no listed process exits, there are no other rows.
- `SleeperIdle`: the record, updated only when the CPU time grows, never makes a
  process a sleeper that ran within the threshold, whatever was read in between.
- `EffectAtMostOnce`: the second dispatch of a signal request does not send the
  signal again, because the body went with the context.
- `AnswerTellsEffect`, `EveryRequestAnswered`: see section 1. The latter ends with the
  daemon, which a signal to pid 0 may bring about.
- `ActsAtomically`: the daemon implements `AtomicRequests`. Beyond the three before,
  it says what a request does to the machine: only those processes change that the
  system call takes *this* request's pid for, in the one attribute its route is for, to a
  value less than a unit off the number of its whole body, within what the daemon may
  do; and nothing else but the processes themselves changes one.
- `CoreUsageHonest`, `UsageConserved`, `DisksCountedOnce`: see section 1.
  `UsageConserved` sums the answers of all endpoints and clients and compares
  the sum with what the machine did.
- `ControlsHonoured`: when no list is under way and the last did not fail, the table
  is what the controls say. Lists overlap and each is rendered with the controls of
  its arrival, so it takes both: reading them after the await, and a fetch with
  every change.
- `TimersFollowFreeze`: frozen, no interval runs; thawed, exactly the one that
  `refreshTimer` names. A second one could never be stopped.
- `EffectShown`: when no list is under way, the table has shown the newest
  acknowledged effect, or a list failed since. A refresh sent beside the change, or
  none, breaks it.
- `TableCatchesUp` (liveness): a page that stays thawed comes to show the machine,
  although lists are overtaken, fail, and the box is used in any way before.
- `TrafficDrawnOnce`: neighbouring points of a chart are differences of the counters
  they were computed from, so nothing is drawn twice or left out when polls
  overtake each other, fail or are null; for disks, while the disks stay the same.
- `ColumnsAligned`: an answer that cannot be used is rejected before the first
  chart changes, so while the disks stay a column shows one answer in the charts of the
  network, each disk, the total and the average, in those of the cores that are in every
  answer, and, with no more cores than charts, of memory.
- `TotalNearDisks`: while the disks stay, the total drawn in a column is off the sum of
  the disks drawn by half the spacing of floats at most, for each addition and each of
  the two totals; lost, failed and overtaken answers add nothing to that error. With
  the constants of the run a total is in fact off, so equality does not hold there.
- `NetCatchesUp` (liveness): the network counter the page knows becomes the
  machine's, as a float, though another client can make an answer null, and disks go. With
  `MaxWork = 1` at most one sample differs from its predecessor, so the nulls of a run are
  those of polls that share one millisecond with it; work without end could make every answer
  null, and the property would not hold.
- `RingInv`, `KeepsRecentSamples`: the ring fills in order, and implements
  `RecentSamples`.

### Bounds

| Run | Bounds | Why they are enough |
|---|---|---|
| `process_list` | 2 pids, 2 slots, 3 processes, clock to 3, `Word` 16, sleep after 1, garbage with CPU time 0 or 3 | a third process needs a pid used again; 2 slots are filled by 2 pids or by one entry filed twice under a wrong pid; 3 clock ticks allow a process to run, to be idle past the threshold, and to run again; any number of scans fits between ticks |
| `table_full` | 3 pids, 2 slots | 2 slots held by dead processes and a third live one |
| `http_daemon` | 2 connections, 2 requests of 22, 3 processes, bodies up to 2 parts, numbers in halves, `Word` 128, a megabyte of 4 | two connections interleave in all ways, or one is used twice; the requests reach every branch, with fractions and with numbers beyond the nice range, `long` and `rlim_t`; the daemon, a process of its user and group, and one of another user are addressed one by one, by group and all at once |
| `stats_sampler` | 2 CPUs, 5 devices, 3 ticks, 1 sector, `int` of 2 bits, `uint64_t` of 4 bits, at most 2 disks | a counter crosses the sign bit with 2 ticks; 3 partitions exceed the 2 entries of the array |
| `dashboard` | 1 pid, 2 sort fields, 2 filters, 1 form, 2 requests under way, 1 failure, 2 changes of the machine | two lists, or a list and a change, overlap and overtake each other; the process exits and a new one takes the pid; any number of requests follow each other and the box is used without bound. The three forms are one shape in the code |
| `history_page`, `disk_deltas` | 2 disks, 2 points, 2 cores, 2 polls under way, 1 failure (none in `disk_deltas`), 1 unit of traffic, of sectors and of work (no work in `disk_deltas`), 1 disk or CPU that comes or goes, floats of 2 bits, counters that start at 5 | two points are one difference; 5 is halfway between two floats and 6 is one, so one unit more is drawn as two, and the sum of two disks is rounded again; one of two disks disappears or comes back; two answers overtake each other; work after another client's sample makes one null |
| `stat_history` | a ring of 3, 2 disks, counters to 2, 8 samples | full after 3 pushes, wraps at the fourth, and has no bound on pushes |

`MaxNow`, `MaxStarts`, `MaxRequests`, `MaxTicks` and `MaxSectors` are bounds of the
model and not of the code; so are `MaxVersion`, `MaxInFlight` and `MaxFailures` in
`Dashboard`, and `MaxNet`, `MaxIo`, `MaxWork`, `MaxPlugs`, `MaxInFlight` and
`MaxFailures` in `HistoryPage`. `MaxProcess`, `Word`, `Int32`, `MaxDisk`, `SleepAfter`,
`Megabyte`, `Precision`, `Points`, `NumCores`, `MaxEntries` are limits of the code, made small.
Deadlock is checked in the runs of the samplers, which can always begin another
scan, and of the ring, which takes any number of pushes; the daemon's runs may
stop when `MaxRequests` requests are done, and the pages' runs when the bounds on
machine and failures are reached with nothing under way.

### Fairness

*`HttpDaemon`.* `Fairness` is weak fairness of the daemon's own step on each connection whose request is complete: the select loop
visits every such connection in each round. Nothing is assumed of clients (they
need not send the rest of a body) or of processes. That handlers return is part
of the model: a GPU tool that hangs would stop the daemon (see the hazards).

*`Dashboard`, `HistoryPage`.* The proxy and the daemon serve what they have been
given (`EveryRequestAnswered` is the daemon's part of that), and the browser runs the callbacks of answers: weak
fairness of the actions that serve and deliver. The interval of the page is
strongly fair. A browser fires it whatever is under way; in the model the bound
`MaxInFlight` may disable it again and again, and strong fairness makes up for
that bound and for nothing else. Nothing is assumed of the user, of the machine,
of other clients, or of failures, which are bounded by `MaxFailures`: a network
that fails for ever shows nothing.

## 4. Proofs

TLAPS proves, for every value of the constants that meets the assumptions in the
modules:

| Theorem | Property | |
|---|---|---|
| `ProcessListProofs!TypeCorrect` | `TypeOK` | no slot outside the tables, no number outside `uint64_t` |
| `ProcessListProofs!SlotsOrdered` | `SlotsInOrder` | |
| `ProcessListProofs!UsageHonest` | `HonestUsage` | |
| `ProcessListProofs!SleepersIdle` | `SleeperIdle` | |
| `StatsSamplerProofs!CoresHonest` | `CoreUsageHonest` | also when counters pass the range of an `int` |
| `HttpDaemonProofs!DaemonTypeCorrect` | `TypeOK` | no value outside the ranges of the kernel is set |
| `HttpDaemonProofs!EffectOnce` | `EffectAtMostOnce` | |
| `HttpDaemonProofs!AnswerHonest` | `AnswerTellsEffect` | |
| `ProcessListProofs!ProcessesListed` | `SteadyListed` | |
| `DashboardProofs!TypeCorrect` | `TypeOK` | two intervals at most, well-formed messages |
| `DashboardProofs!TimersCorrect` | `TimersFollowFreeze` | |
| `DashboardProofs!ControlsCorrect` | `ControlsHonoured` | |
| `DashboardProofs!EffectCorrect` | `EffectShown` | |
| `HistoryPageProofs!TrafficCorrect` | `TrafficDrawnOnce` | |
| `HistoryPageProofs!ColumnsCorrect` | `ColumnsAligned` | for every precision of floats, as the other two of the page |
| `StatHistoryProofs!RingCorrect` | `RingInv` | |
| `StatHistoryProofs!RingImplementsWindow` | `KeepsRecentSamples` | the refinement: `Spec => Abstract!Spec` |
| `StatHistoryProofs!TypeCorrect` | `TypeOK` | |
| `StatsSamplerProofs!TypeCorrect` | `TypeOK` | no more disks than the array holds |
| `StatsSamplerProofs!UsageAddsUp` | `UsageConserved` | also when counters pass the range of an `int` |
| `StatsSamplerProofs!SectorsOnce` | `DisksCountedOnce` | for every list of devices |
| `HistoryPageProofs!TypeCorrect` | `TypeOK` | |
| `HttpDaemonProofs!DaemonIsAtomic` | `ActsAtomically` | the refinement: `Spec => Atomic!Spec`, for any pids and numbers |

These are the invariants of the passing runs, `TotalNearDisks` excepted, and both
refinements.

**Sums.** Several of the theorems rest on sums: over CPUs, over devices, over the disks of
a sample. A sum is a fold of the community modules, and a fold is defined by recursion
on the subsets of a set. The library's induction theorems take an operator
and cannot be used; `SumTheorems` does the induction with sets in their place. The
claim is the set `Good` of the subsets for which it holds, and if the whole set is not
in it there is a smallest subset that is not, for the subsets of a finite set are
well founded under strict inclusion (`MinimalSubset`, `SetInduction`). `AddsDefined` shows that
the function the fold chooses exists, and `AddsUnique` that there is only one; hence
`SumUnfolds`, and from it that a sum is an integer (`SumInt`), that any element may be
taken out first (`SumTake`), that it is monotonic (`SumMonotone`), what happens when one
summand moves (`SumOneMoves`).

**Process sampler.** `TypeOK` and `SlotsInOrder` are inductive as they stand
(the second together with the first). `HonestUsage` is not: that a row is honest
follows from what its slot and the buffer held before, so the proof carries
`UsageInv`. It says that every sample the daemon holds (each slot of both tables,
and the buffer `file_data`) is *behind*: of a process that was started, with no
more CPU time than that process has now, and, for a slot, with no more than the
buffer shows if both are of the same process. The last clause is the one a failed
read could break, and the reason it does not is that the buffer is only ever
overwritten by a line of the present or by something without a pid, of which nothing is
claimed. `SleepersIdle` adds
`RecordBehind`: a sleeper record of a process has at most the CPU time of any line
of that process read since, and an equal CPU time means the process has not run
after `last_active`. The assumptions used are those named in `ProcessList`: pids
are positive, the clock bound and the default interval fit in a word, and what garbage
reads as (`StackCpu`) lies within the clock bound.

`SteadyListed` follows from `ScanInv`: in the middle of a scan, each listed process
that has not exited is still to be visited, being visited, or has a row, unless
the table is full; and as long as no listed process exits, the rows are of different
visited entries. The delicate part is a row filed under a wrong pid after a failed
read: it needs an exit, and the invariant then asks nothing of the other rows.

**Daemon.** The invariant follows the body. `BodyInv`: while parts arrive, the
context holds what has arrived; when all have, it holds the whole body, except on
the second dispatch of a signal request, where it holds nothing. `OnceInv`: a
request that has had its effect is over, or is a signal request without its body.
`DispatchSummary` reduces the fifteen branches of the handlers to two: refuse, or
perform with the value of the body and a status that says so. The theorems
then need only these two. `RequestsAssumption` says only that a body of no parts carries
no value; the pid and the number of a request are any integers.

`DaemonIsAtomic` is the refinement, in two steps like the dispatch. `RefuseMaps`: a
refusal closes the request, which is `Drop`, or leaves it open to be dispatched
again, or finds it closed already, which is a stutter. `PerformMaps`: an effect
closes the request and records the value. What is left for `DispatchMaps` is that the four
actions with an effect make the calls the abstract ones make (`CallIsAct`): with the value of
the whole body, which `WholeBodyFound` takes from `BodyInv`, and while the request is still open,
which is `OnceInv`: a handler that performs finds `effects` empty. That the value is one the
abstract request allows is arithmetic: the cast is off by less than one (`TruncatedClose`) or
gives a limit of `long` (`CastValue`). The range check of renice rejects those limits
(`NiceAsked`), and for a resource limit only the upper one passes, for a number beyond `long`
(`CpuAsked`); a product in `rlim_t` is exact below `Word` (`BytesRange`, `RamAsked`).

**Statistics.** `CoresHonest` is arithmetic first. What `atoi` makes of a counter is
its distance to the nearest multiple of 2^32, in a word (`AtoiOf`); a counter that
stays in its half moves as its distance does (`SameHalfMoves`); so the sum of a line
is an offset of at most 2^32 either way (`BusyOf`), and of the difference of two
sums the word is subtracted at most once (`DifferenceHonest`). The last needs
`Word >= 2 * Int32` of `NumbersAssumption`: true of 2^64 and 2^32, and the reason
`uint64_t` is wide enough here. Then `SamplesInv`: every line the daemon holds is of
a CPU and not ahead of it, a sample under way is not behind the baseline, and there
is no baseline before the first sample. A core that kept its place is thereby
compared with its own earlier line (`CoreHonest`).

`UsageAddsUp` works modulo 2^32. Two numbers are `Alike` when they differ by a multiple of
it; `atoi`, the sum in a word and the difference in a word each give a number like the
exact one (`AtoiAlike`, `WordAlike`, `BusyAlike`), because `Word` is a multiple of `Int32`.
`ConservedInv` is then inductive: what has been reported is like what the machine
did up to the baseline. `SectorsOnce` rests on the names: a listed device is a
partition, because the test is inverted and `NamesAssumption` says how the kernel names
disks and partitions. So the total is a sum over some of the partitions, and
`SectorsInv` says that all partitions together have no more sectors than the disks,
for what goes to a partition goes to its disk as well. `DisksFit` shows by counting
that the array is long enough.

**Dashboard.** `TimerInv` adds to `TimersFollowFreeze` what holds before the page has
loaded or after the box was used too early: two intervals at most, never two while
frozen, and a thawed page runs the one it will clear. `ControlsHonoured` is
inductive as it stands: a change of the controls puts a list under way, and only
the delivery of the last list can make `Lists` empty. `EffectShown` needs `EffectInv`: as long as the
acknowledged version has not been shown, some list is *pending*, that is, not yet
served, failed, or served with that version or a later one. Replacing one message
by another in the bag is where the cases are; `OneNew` and `NewMessages` reduce
the actions to at most one new message, of known shape. `FormsAssumption` (a form is not
called "signal" or "list") keeps the messages apart.

**History page.** `ChartsInv` ties each chart to the variable it is computed from: its
newest point comes from the figure that the page remembers (`NetDrawn`, and, while
the disks stay the same, `TotalDrawn` and `DisksDrawn`), and the memories are
set together (`Remembered`). Then one more point keeps `Deltas` (`PushDelta`).
`Usable` says why no chart is left behind while the disks stay: the loop reaches
them all. For the columns, `UpdateAligns` pushes the same answer to every chart it speaks
of; that a core was in every answer is what `fewest` remembers. `NoneAssumption` says that
null is neither a number nor a set of disks nor their counters. None of this depends on
how floats are rounded, only on their being numbers: `SpacingTyped` and `FloatTyped` show that.

`TypesInv` splits the types into the machine's, the requests' and the page's; the page's
adds to `TypeOK` that a chart exists for each disk the page knows and that the
remembered counters cover them all. Of the chart of the total only the columns are typed
and not the values: these are folds of rounded additions, and what a fold yields takes induction
over data. For the same reason `TotalNearDisks` is left to TLC. `DisksAssumption`
says that there are finitely many disks.

**Statistics ring.** `Shape` is the part of `TypeOK` without the numbers, and with
`RingInv` it is inductive. The refinement is the arithmetic of the wrap
(`NextWraps`, `PreviousWraps`), what a push leaves in the array (`PushStores`), and how
the slots of the window move: they stay while the ring fills and move by one
when it is full (`SlotsStay`, `SlotsShift`), which is `Append` and `Append` to the
`Tail` (`KeptJoined`). `ComparedWith` shows that the two entries the averages are
taken from are the first of the window and the last but one, and `ReportKept` that
the report is the promised one. `SizesAssumption` asks for two entries and two disks at
least; the code has 100 and 32.

`AveragesOfKept` takes the averages as entries of the window. `TypeCorrect` adds that
the sums are integers.

**Only model-checked.** `TotalNearDisks`, see above. The three liveness properties,
`EveryRequestAnswered`, `TableCatchesUp` and `NetCatchesUp`: they need fairness, and ENABLED is
outside the prover's reach. The violations are single behaviours, which TLC prints. No module with
theorems, nor one it uses, declares a recursive operator.

## 5. What is not modelled

- The command line client: it ends at `exit(0)` (lines 90 and 174 of its `main.c`)
  before either of its loops. The comparison functions of `process_sort.c` are
  called from those loops only; `header.c` is modelled as a library, which it is.
- Memory: the context leaked when a client gives up, the 200 bytes leaked for
  each counter line, failed allocations, the 100 entries of `cores[]`.
- Memory, load and GPU figures: passed on as they are read. Of the network only the
  counter that reaches the page; that the test for the loopback interface compares a
  name with leading blanks (`general_stat_query.c`) is text.
- The text of lines and URLs, JSON and the fields of DTOs, HTML. Names of processes
  that break the parser are a listed hazard.
- Rounding outside `HistoryPage`: the floats of the ring and of usage figures.
- Time below a tick, except for an interval of 0 ms in `HistoryPage`: the stamp
  taken after the read, a clock that steps back. Usage is a difference; its quotient
  by the interval is left out.
- Threads of the proxy and time-outs: neither the proxy nor the pages set one, so a
  request lasts until it is answered or the connection breaks.
- Vendored files: `uthash.h`, the Maven wrapper, Chart.js and Bootstrap.

## 6. Plan

1. `SampleClock`: time stamps within a scan; the interval, its wrap when the clock
   steps back, and the time between a read and its stamp.
2. The tokens of a stat line as a pure operator, against the field list of proc(5).
3. `HttpDaemon` with allocation failures and with the completion callback that the
   daemon does not register.
