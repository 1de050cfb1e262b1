# SysSentient: specifications

TLA+ modules for SysSentient, a monitoring daemon in Go. The same binary runs
as an all-in-one daemon, as a server that agents report to, or as an agent.
This directory models the parts whose correctness depends on order, failure and
time, checks them with TLC on small instances, and proves the central results
with TLAPS for every value of the constants.

- `PROJECT.json` lists runs, mutants, findings, hazards, theorems and the source
  lines behind each definition.
- `tlc -config <run>.cfg <module>` checks a run; `tlapm <module>Proofs.tla` checks
  proofs.

## 1. The system

### Components

| Component | State | Operations | What makes it correct |
|---|---|---|---|
| Alert evaluator (`internal/alerting`) | rules; alerts by (host, rule); settle time | `Evaluate`, `ReplaceRules`, `Acknowledge`, `Active` | fires after the condition held, resolves after it settled, announces each once |
| Notification dispatch (`alerting/notify.go`, `server/ingest.go`, `main.go`) | goroutines under way | save event, filter muted and acknowledged, send | muted and acknowledged alerts page nobody |
| Agent (`internal/agent`, `runAgent`) | spool file, cached line count, batch under way | `Append`, `Flush` = `Peek` + push + `Commit` | no sample is lost in an outage, bounded disk |
| Ingest (`server/ingest.go`, `authenticateAgent`) | metrics table, hosts | validate, `SaveBatch`, evaluate, answer | stores what it acknowledges |
| Retention (`storage/rollup.go`, `archive.go`, `maintenance.go`) | metrics, minute and five-minute rows, archive files | `Rollup`, `ArchiveTier`, `PruneTiers`, `RestoreArchive` | history moves down the tiers without loss or double counting |
| Range reads (`timerange.go`, `metrics_range.go`, `export.go`) | none | pick a tier, query it | the tier holds the window |
| Rule administration (`rule_handlers.go`, `rules.go`) | overrides, mutes | `PATCH`, mute, reset, `reloadRules` | evaluator and store agree; no update is lost |
| Accounts (`auth_handlers.go`, `session.go`, `user_handlers.go`) | users, sessions, setup token | setup, login, password change, delete, expiry | an administrator exists; a changed password ends sessions |
| Enrolment (`storage/agents.go`, `join.go`) | join tokens, agent credentials | mint, redeem, revoke | a token makes one agent; a revoked one writes nothing |
| AI service (`internal/ai`) | breaker state, money spent today | call, check, record | failing calls stop, and start again; the budget holds |
| Websocket hub (`websocket.go`) | client set, channels | register, unregister, broadcast, stop | no blocked goroutine, no send on a closed channel |
| Live settings (`config/runtime.go`) | poll interval, retention, log level | `Apply`, callbacks | what is stored is in force |
| Rate limiter (`ratelimit.go`) | buckets | allow, sweep | a sweep forgives less than a second's refill |
| Collector, logs, host id, services, dashboard | little | I/O | not modelled |

### Interactions

    collector -> agent loop -> spool file -> POST /api/ingest -> metrics table
                                                     |                |
                                          evaluator <-+         maintenance pass
                                             |                        |
                              alert events, dispatcher      rollups, archives

- The agent loop is a single `select`: collection, flush and shutdown never
  overlap. A flush waits for its answer, at most `pushTimeout`.
- The server handles requests concurrently. All of them share one evaluator
  behind a mutex and one SQLite database. In all-in-one mode the collector loop
  calls the same evaluator.
- Maintenance runs in the daemon's main loop, at start and every hour; requests
  are served between any two of its statements.
- Rule handlers write overrides to the database and then push the resulting
  rules into the evaluator; so does the daemon at start, when the API already serves.
- Notifications leave in a goroutine per evaluation, which tries the channels one
  after another.
- Settings are changed through the API and told to the collector's loop by a
  callback. The loop feeds the websocket hub and starts analyses by itself.
- The collector's loop ends on a signal or when the listener failed; `Shutdown`
  stops the hub.

### What is hard

- *Order:* `evaluateAndRecord` reads the clock before it waits for the lock; a
  request the agent gave up on may be served after newer ones; notifications are
  sent by unordered goroutines.
- *Failure:* torn spool lines, a failed commit after a successful push, a
  transaction that skips rows, a maintenance pass cut off between two statements.
- *Time:* durations and settle windows over irregular samples, cutoffs that
  do not fall on bucket boundaries.
- *Check, then act:* last administrator, budget, overrides, archive then delete.

`PROJECT.json` lists 40 such hazards by line, with the properties that cover
them, or the reason why none does.

## 2. Modules

| Module | Models | Role |
|---|---|---|
| `AlertLifecycle` | what the evaluator promises | abstract specification |
| `AlertEvaluator` | `evaluator.go`, `rule.go` | implements `AlertLifecycle` |
| `AlertEvaluatorProofs` | | proofs about `AlertEvaluator` |
| `Relay` | what agent and server promise about samples | abstract specification |
| `Delivery` | `spool.go`, `agent.go`, `runAgent`, `ingest.go`, `SaveBatch` | implements `Relay` |
| `DeliveryProofs` | | proofs about `Delivery` |
| `Retention` | `rollup.go`, `archive.go`, `maintenance.run` | the tiers |
| `History` | `timerange.go`, `metrics_range.go`, `export.go` | extends `Retention`: what is read back |
| `RetentionProofs` | | proofs about `Retention` and `History` |
| `RuleAdmin` | `rule_handlers.go`, `rules.go` | operators' changes to a rule |
| `Paging` | `ingest.go` (`evaluateAndRecord`, `notifiable`), `notify.go`, local loop | extends `RuleAdmin` |
| `PagingProofs` | | proofs about `RuleAdmin` and `Paging` |
| `Sessions` | `session.go`, `storage/sessions.go` | rows of browser sessions |
| `Accounts` | `auth_handlers.go`, `user_handlers.go`, `users.go`, `setup.go` | extends `Sessions` |
| `AccountsProofs` | | proofs about `Sessions` and `Accounts` |
| `Admission` | what an invitation is worth | abstract specification |
| `TokenBucket` | what a rate limit promises | abstract specification |
| `RateLimiter` | `ratelimit.go` | part of `Enrolment` |
| `Enrolment` | `join.go`, `agent_handlers.go`, `storage/agents.go` | implements both abstractions |
| `EnrolmentProofs` | | proofs about `Enrolment` and `RateLimiter` |
| `CircuitBreaker` | `circuit_breaker.go` | part of `AIService` |
| `AIService` | `gemini.go`, `chat.go`, `budget.go`, `rag.go`, callers | extends `CircuitBreaker` |
| `AIServiceProofs` | | proofs about `CircuitBreaker` and `AIService` |
| `Settings` | `config/runtime.go`, `settings_handlers.go` | part of `Daemon` |
| `Hub` | `websocket.go` | part of `Daemon` |
| `Daemon` | `main`, `Server.Start`, `Server.Shutdown` | extends `Settings` and `Hub` |
| `DaemonProofs` | | proofs about `Settings`, `Hub` and `Daemon` |

Each specification is parameterised by constants with a named assumption and is
its own model: the `.cfg` files give the constants small values directly.
Operators named in comments as *mutations* are the faulty variants each property
is tried against; they are not part of the specification.

### AlertEvaluator

| Code | Model |
|---|---|
| `Evaluator.rules` (enabled, `For`) | `rules` |
| `Evaluator.active` | `active`; no entry is `Untracked` |
| `StartedAt`, `ClearSince` | ages: `age`, `clear` (`None` is the zero time) |
| `MetricValue` and `matches` | `reading`: breach, clear or absent |
| slice returned by `Evaluate` | `transitions` |
| the `switch` in `Evaluate` | `Start`, `Breach`, `Clear`, joined by `After` |
| `now` read before the lock | `lag` in `0..MaxLag` |

Threshold, value, severity and names are payload. A rule's metric and comparator
never change after start (`applyOverrides` touches threshold, duration and
enabled), and a changed threshold is a changed reading. Ages stop at `Horizon`,
beyond which no comparison tells them apart; the assumption requires `Horizon`
to be at least every duration plus `MaxLag`. `held`, `calm`, `sinceFired` and
`dipped` only record history.

`AlertLifecycle` knows nothing of alerts: it derives firing and resolved from
uninterrupted runs of observations, and says that each is announced exactly
once. `ImplementsLifecycle` maps the code's state to it.

*Fairness* (used by `FiresEventually` and `ResolvesEventually` only): time passes,
and every host is sampled again and again. The two
properties speak of hosts that report, not of one whose agent is gone. Nothing is
assumed about operators.

### Delivery

| Code | Model |
|---|---|
| spool file, as `decodeSpool` reads it | `file`, and `torn` for a last line without newline |
| `Spool.count` (-1 unknown) | `count` (`Unknown`) |
| batch between `Peek` and `Commit` | `sending` |
| what `http.Do` returns | `answer` |
| requests the client gave up on | `late` |
| rows in `metrics` | `copies` |
| `seenHosts` newest, given to the evaluator | `evaluated` |
| credential accepted by `authenticateAgent` | `admitted` |

Samples are numbered in the order of collection. `bad` are those ingest rejects;
a sample whose clock was ahead becomes valid with time (`Ripen`). Every failure
costs one of `MaxFaults`: `EnqueueFails`, `CompactFails`, `CommitFails`, `GiveUp`,
`Crash`, `Lose`, and a failing or partial `SaveBatch` in `Ingest`. A crash is one of
a process: nothing in the code syncs the spool, and a power failure is not
modelled. Revocation and re-enrolment cost nothing and may happen any number of
times. The model has one agent; agents share nothing but the database, whose
transactions are serialised.

`Relay` is the promise: samples wait in order, leave from the front only when the
server kept or refused all of them or when more than `Capacity` wait, and what
was kept stays.

*Fairness:* the flush ticker (`Flush`), the client's timeout (`TimeOut`), the
return of the answer to the loop (`TakeReply`) and a server that answers what
reaches it (`ServeCall`). `Drains` needs all four; it excepts a revoked agent and a
spool whose next batch is rejected as a whole (see findings).

### Retention

| Code | Model |
|---|---|
| table `metrics` | `raw`, a set of sample times |
| `metric_rollups`, 1m and 5m | `minute`, `five`: bucket to samples aggregated (`of`) and column `samples` (`n`) |
| archive files | `files` |
| position in `maintenance.run` | `pc` |
| `Runtime.Retention()` and `archive_path` at the start of a pass | `policy` |

Averages and maxima are functions of the samples in a row. Each SQL statement is
an action, because SQLite commits each alone; `RestoreArchive` is one
transaction. Samples arrive between any two statements, also late ones. `Fail`,
`ArchiveFails`, `Crash`, `Restore`, a late `Store` and a change of policy cost one of
`MaxEvents`. Time stands still during a pass, whose cutoffs are computed once.
`Replaced` is `INSERT OR REPLACE`; the archive's `<=` and the rollup's `<` are kept
as they are. One host is modelled: rows of different hosts meet only in the row
limit of `GetRollupsRange`. `RestoreArchive` also drops two columns the archive does not
carry (`memory_used_max`, `disk_iops_avg`); columns are not modelled.

`accepted`, `passed`, `disturbed` and `horizon` only record history: every sample ever
stored, how far rollups have come, the five-minute buckets a cutoff divided or
that grew after it passed, and the end of the last tier. The archive of the minute
tier divides the bucket of its cutoff from the moment its file is written: file and
deletion include the row at the cutoff itself, the rollup before them does not.

### History

A request is its parsed parameters (`Asked`); `Metrics` and `Export` say what it is
answered in a state of the tiers, whatever step of a pass has just been done. `Resolved`
is `ResolveResolution`, `QueryRange` the decimating raw read, `RollupsRange` the rollup
read with its plain `LIMIT`, `Covered` the clipped window of the fallback in
`handleMetrics`. A read is limited by `MaxRows` (`maxRangeRows`, 20,000, `Clamped`), an
export by `MaxExport` (`maxExportRows`, 50,000, `ExportLimit`) and then by `MaxRows` as
well, for every export ends in one of the two reads. Averages are again represented by the samples they stand for. The
two reads of one request are one instant.

### RuleAdmin and Paging

| Code | Model |
|---|---|
| row of `rule_overrides` | `row`: a setting and the ticks a mute still lasts |
| the rule in `Evaluator.rules` | `applied` |
| a PATCH or reset under way, one database access per step | `work` |
| `ReloadRules` at start | worker `Main`, there from the first state |
| a transition between `Evaluate` and the last channel | `job` |

One rule is followed. Threshold, duration and enabled are one setting: a PATCH names
the setting, the mute or neither. Every read and write may fail. `alone`, `blind`
and `settled` record which requests met another one or failed to read; `muted` and
`owed` what a transition met on its way.

*Fairness:* `Filter` and `Send`. Both are code a running goroutine reaches without
waiting for anybody; an attempt ends after `notifyTimeout`.

### Sessions and Accounts

| Code | Model |
|---|---|
| `created_at`, `last_seen_at` of a session | ages `age`, `seen` (`expires_at` is `seen` plus the idle time) |
| role of an account | `users` |
| `SetupToken` | `setup` |
| a handler between two statements | `work` |

A handler is in `work` once its input is validated; everything refused before changes
nothing. Passwords are absent: a login or a change is one that knew the password when
it was verified. `OpenSession` relies on the foreign key that `sqlite.go` switches on.
`used` is the age of the last accepted use, `stale` holds the sessions a
changed password ought to have closed, `overtaken` the deletions whose count of
administrators is out of date.

### Enrolment, RateLimiter, Admission, TokenBucket

| Code | Model |
|---|---|
| row of `join_tokens` | `token` |
| rows of `agents`, `revoked_at` | `agents`, `revoked` |
| a request in `RedeemJoinToken` | `handler`; `stale` once another commit outdated its snapshot |
| a run of `agent join` | `run` |
| the configuration file | `conf`: absent, truncated, or a credential |
| `rateLimiter.buckets`, `lastSweep` | `buckets`, `sinceSweep` |

SQLite runs the transaction on a snapshot and refuses its write once anything else was
committed; nothing retries it, and the request is answered 500. Every commit of the model
outdates the transactions that have read; other traffic does so in `Disturb`, which
costs a fault like a lost answer, an unwritable file, a crash, an expiry, a
revocation and a join repeated by mistake.

A bucket's credit is counted in ticks: it grows by one a tick, and a request takes
`PerToken` of it, so that the fractions of a token the code keeps in a float are whole
numbers. `time.Duration(capacity/refill) * time.Second` cuts the time that fills a
bucket to whole seconds; `IdleFullAfter` does the same with `Second` ticks to a second.

`Admission` knows invitations and the credential each let in. `TokenBucket` keeps a level
for every client, serves a request by taking `Price` from it and refuses one that finds
less. It may forget a client, which fills its bucket, only once it has been quiet so long
that less than `Grace` can be missing; `Enrolment` implements it with `Grace` the part of
a second that the cut leaves off, which is 0 when a bucket fills in whole seconds. Both
are implemented by the composition, the second across sweeps and restarts.

*Fairness:* handlers and commands run to their end, time passes, and the operator
mints what invitations he has and tries again on a machine that is not enrolled
(strongly fair, since the limiter may refuse in between).

### AIService and CircuitBreaker

| Code | Model |
|---|---|
| `CircuitBreaker` fields | `state`, `failures`, `halfOpenCalls`, `sinceFail` |
| `CostBudget.spent` | `spent`, one unit a call |
| the answer cache of `rag.go` | `cache` in the order of saving, `expired` |
| a handler, or the goroutine the loop started | `job` |
| `lastAnalysisTime` | `sinceAuto` |

A signature stands for the processes and logs of a sample. An analysis passes cache,
budget, breaker, call, cache and insight record; a question passes the budget once and
calls the model up to `ToolCalls` times, past the breaker. The day and the 24 hours of
an answer end at any time.

*Fairness:* a worker takes the steps that are its own (`Proceed`), time passes, and
somebody asks for an analysis of something not in the cache. A call (`Await`) may hang
for ever: the model's client is made without a timeout (`gemini.go:28`), the loop's
analysis runs in the context of the process (`main.go:364`) and a handler's in that of
its request (`server.go:452`), neither with a deadline. `Recovers` supposes that some
worker is idle again and again: `Workers` bounds a number that the code does not bound.

### Settings, Hub, Daemon

| Code | Model |
|---|---|
| `Runtime.pollInterval`, the ticker, the callback | `interval`, `ticker`, `wired` |
| `Hub.clients`, `broadcast`, `done` | `clients`, `queue`, `closing` |
| a connection, its pumps and `Client.send` | `link` |
| `Run` within a broadcast | `pending` |
| `main`, the goroutine of `Server.Start`, the context | `main`, `api`, `signalled` |

`register` and `unregister` are unbuffered: a connection that is `waiting`, or a reader
that is `leaving`, is a goroutine blocked on the send until `Run` selects it. Messages are
counted. `Apply` calls its callbacks under its lock and is one step. In mode `server`
there is no ticker and no broadcast.

*Fairness:* `main` and the pumps go on when they can, and no case of a Go `select` that is
ready again and again is passed over for ever (strong fairness of `HubBroadcast`
and of `Selected`). Nothing is assumed of peers and operators, nor that a signal comes.

## 3. Runs

| Run | Expected | Instance | Distinct states |
|---|---|---|---|
| `alerts` | pass | 2 hosts, 1 rule, durations 0 and 2, settle time 2, lag 1 | 234,156 |
| `alerts_held` | violation of `HeldThroughout` | 1 host, duration 2 | |
| `delivery` | pass | capacity 1, batches of 2, 3 samples, 2 faults | 146,066 |
| `delivery_poison` | violation of `RejectedRetired` | 3 samples, no fault | |
| `retention` | pass | 3 samples, minutes of 2 and five-minutes of 4 ticks, 2 events; windows within 9 ticks, reads of 2 rows, exports of 3 | 2,265,312 |
| `retention_edge` | violation of `KeptToTheEnd` | the same samples and buckets within 7 ticks, no event, one policy | |
| `retention_archive` | violation of `ArchivedBeforeDeleted` | as `retention_edge`, with a row limit of 1 | |
| `paging` | pass | 2 operators, 2 handlers at once, 1 transition, 2 channels, mutes of 1 tick | 555,592 |
| `accounts` | pass | 2 accounts, 2 session tokens, 2 handlers, idle 2, absolute 3, touch 1 | 1,101,000 |
| `enrolment` | pass | 2 machines, 3 invitations, 2 handlers, 1 address with a burst of 1, 5 ticks a token, 3 a second, 1 fault | 426,173 |
| `ai` | pass | 2 workers, 2 signatures, cache of 1, 2 failures, cap of 2, 2 tool calls | 265,604 |
| `daemon` | pass | intervals 0 (invalid), 1 and 2, 2 connections, capacities 1 | 43,024 |

What the properties say:

- `ImplementsLifecycle`: judged by the samples it evaluated, the evaluator announces
  firing and resolved exactly when the lifecycle says, once each.
- `NoFlap`: a firing alert does not stop before the settle time is over, less the
  lag of the clock.
- `AckLasts`: an acknowledgement lasts until its activation is over, in the map and
  in every copy handed out.
- `FiresEventually`, `ResolvesEventually`: a condition that stays true ends up firing,
  one that stays false ends up without an alert, whatever the operator does to
  durations meanwhile.
- `ImplementsRelay`: no sample is lost between `Append` and the database except by
  eviction at capacity or refusal by the server.
- `Bounded`: the file never exceeds capacity, slack and one sample per failure.
- `Duplicates`: each failure causes at most one more copy of a sample.
- `Ordered`: the evaluator sees an older sample after a newer one only from a late
  request.
- `Drains`: samples leave the spool in the end.
- `NoDoubleCount`: no row counts a sample twice, however often passes are repeated,
  cut off, or archives restored.
- `LossOnlyAtEdges`: passes lose samples only in a bucket that a cutoff divided or
  that grew late. (`KeptToTheEnd`, the promise without that exception, is refuted.)
- `ArchivedBeforeDeleted`: rows the archiver removes are in a file as they were.
  (It holds while the row limit is not reached and is refuted when it is.)
- `Answered`: a window over a stored sample is not answered empty by the tier the server
  picks, between whatever steps of a pass, for the windows `timerange.go` speaks of;
  and no kept sample is out of reach of the exports: one of the rollup tiers has it, and
  an export of that tier from any time on leaves it out only behind as many older rows
  as the limits let through. One export need not hold everything (see below).
- `Settled`: when the last reload to finish met no other request and read what is
  stored, the evaluator runs what is stored.
- `KeepsOtherFields`: a PATCH that met no other request changes what it names only.
- `MutedIsQuiet`: an agent's transition whose rule was muted from the evaluation until
  the mutes were read reaches no channel, unless that read failed.
- `EveryChannelTried`: a transition nobody muted or acknowledged is tried on every
  channel, also behind one that fails.
- `SetupNotWasted`: no input spends the setup token without an account.
- `SignedOut`: a changed password closes the sessions of every other browser.
- `IdleWindow`: sliding expiry signs out nobody before idle time less touch interval,
  and accepts nobody after idle time or cap.
- `AdminRemains`: the last administrator goes only by deletions that overlapped.
- `ImplementsAdmission`: an invitation admits one credential, by the act that spends it.
- `ImplementsTokenBucket`: dropping a bucket forgives its client at most the part of a
  second that was cut off the idle time, and nothing when there is none; a restart fills
  all buckets.
- `LostPerFault`: each fault leaves behind at most one valid credential nobody holds.
- `Enrols`: with an invitation to spare for every fault, every machine is enrolled.
- `Overrun`: the day's cap is exceeded by calls under way when it was reached only.
- `OnFile`: a cached answer is on record, or being written, or its write has failed.
- `TrialsSpaced`: calls through an open circuit are a reset timeout apart.
- `Recovers`: when calls stop failing the circuit closes for good, or a call that hangs
  keeps it half-open: nothing else does.
- `Retimed`: the collector's ticker follows the stored interval, but for a change
  made during start-up.
- `Forgets`: the hub forgets every peer that left, its queue empties, and the daemon
  stops when told to.

The `TypeOK` of each module also states the safety of its own data structure: that no
session outlives its account, that the cache has one answer to a signature, that the hub
never sends on or closes a closed channel.

*Why the bounds suffice.* `alerts`: two hosts show that keys do not interfere; a
zero and a non-zero duration take both branches of `Start`; an age must pass
duration and settle time plus one lag, which `Horizon` = 3 allows; rules act
independently of each other in `Evaluate`, so one is enough. `delivery`: three samples
are one more than capacity and slack, so compaction and eviction happen, and a
batch may be the whole spool or a part of it; two faults cover every pair, such as
a lost answer followed by a crash, or a failed compaction followed by a failed
append. The larger instances with three faults (669,526 states) and with capacity 2
and four samples (919,490) pass as well and show nothing new. `retention`: one
sample alone in its minute and two that share one, all in one five-minute
bucket; nine ticks let a sample pass through all tiers and leave the last, and let the
minute archive's cutoff fall on a row that the rollup still had to take; two
events allow a failed pass, or a deletion cut off, followed by a restore. Ages that are
and are not multiples of a bucket put the cutoffs on and between bucket boundaries;
windows of every position within the nine ticks are asked, with limits below and above
those of a read and an export: three minute rows are one more than a read returns, so
that exports of everything do lack a row.

`paging`: two requests and the start-up reload, two at once, give every overlap of two
workers, and three workers differ from two only by another overlap; a mute of one tick
and a lag of one let a mute end between evaluation and filter. `accounts`: two of each
suffice for every property, each of which is about two handlers at most; the ages pass
touch interval, idle time and cap. `enrolment`: two requests with one invitation and a
third invitation for one fault; the bucket is used up, refilled, and swept one tick before
it is full: it fills in 5 ticks, 3 of which are whole seconds. A limiter that waited for
the full bucket (`Grace` = 0) is refuted on this instance. A sweep is due one tick after
the last (`SweepEvery` = 1): with one client a rarer sweep meets no bucket that this one
does not, and the theorem is for every interval. Without the limiter, four invitations and two faults (1,690,000 states) pass as well.
`ai`: two failures open the circuit, a call admitted before can end in any later state or
hang, a cache of one evicts; with the half-open case taken out of `Recovers` TLC shows the
trial that hangs. `daemon`: with capacities of one every channel is full at times;
two connections let one stall while the other is served.

### Findings

1. *A disabled rule keeps its pending alert* (`alerts_held`, `evaluator.go:176`). The
   alert's age goes on; enabled again, the rule fires at the first breach although
   the condition was false meanwhile. `rule.go:75` promises that the condition held.
2. *A batch of rejected samples is never retired* (`delivery_poison`, `ingest.go:133`).
   The server answers 400, `push` returns an error, `Commit` is not reached;
   `agent.go:147` says such a batch is retired. It blocks the samples behind it
   until its samples ripen or the spool overflows.
3. *Rollup loses samples at the cutoff* (`retention_edge`, `rollup.go:96`). The cutoff
   divides a minute; the next pass replaces its row by one over the rest.
   `rollup.go:172` says data leaves only the last tier.
4. *Archiving deletes rows it did not write* (`retention_archive`, `archive.go:73`).
   The query is limited to 20,000 rows, the deletion is not.

### Behaviour worth knowing

Where a property carries an exception the code is the reason. These are gaps the model
shows without contradicting anything the repository states in so many words:

- The local collector's loop dispatches without the mute filter (`main.go:336`); a muted
  rule pages on an all-in-one install.
- When the stored override cannot be read, a PATCH goes on from an empty one and erases
  the other fields (`rule_handlers.go:160`), and a muted rule pages (`:226`). A reload
  that fails is logged and the request answered as done.
- Two deletions that count before either deletes remove the last two administrators.
- A `CreateUser` that fails after `Consume` leaves neither account nor token until a
  restart. A login that verified the old password may open its session after the
  change was answered.
- An interval changed between `SetRuntime` and `OnPollIntervalChange` is stored and not
  applied; sending it again does not help, as it counts as unchanged.
- The archive of the minute tier takes the row at its cutoff (`<=`, `archive.go:73`), the
  rollup only what is before it (`<`, `rollup.go:146`). That row leaves for a file
  without being part of a five-minute row, until a restore brings it back.
- The budget is in memory: a restart forgets what was spent. Questions bypass the
  breaker, and are not charged when the answer reports no usage.
- No AI call has a deadline. A trial of the open circuit that never returns leaves it
  half-open (`circuit_breaker.go:73`), and every analysis is refused until a restart.
- The sweep of the rate limiter means to drop buckets that are full again
  (`ratelimit.go:80`), but cuts the time to whole seconds (`:89`). For most values of
  `login_rate_per_minute` (7 and 70 for instance) the quotient is a little below 60, and a
  bucket idle for more than 59 s is taken for full: a client gains less than a second's
  refill. The three built-in limiters fill in whole seconds and gain nothing.
- An insight whose write failed is served from the cache and never written.
- A narrow window over data only the five-minute tier has is answered empty, and so is a
  wide one over data of the minute tier alone. An answer of the minute tier lacks the
  newest hours that are still raw, under the label of the full window. A rollup read
  that reaches its limit keeps the oldest rows.
- An export is announced as bounded by 50,000 rows (`export.go:19`), its default limit, but
  every read is clamped to 20,000 (`timerange.go:50`). The minute tier holds 43,200 rows
  of one host at its default of 30 days, so an export of all of it lacks the newer half
  and does not say so; a client comes to the rest by asking again from where it ended. A
  raw export over the limit is decimated evenly, where `export.go:28` speaks of
  full-resolution samples.
- After `Run` has returned, readers and `ServeWs` block on `unregister` and `register` until
  the process ends. A `Shutdown` before the listener exists does not keep `Start` from
  listening.

## 4. Proofs

The theorems hold for every value of the constants under the named assumptions of
their specification, and rest on nothing else but the library's theorems. They
concern safety: no proof uses the fairness of a specification.

**AlertEvaluatorProofs** (from `EvaluatorAssumption`)

- `TypeCorrect`: `TypeOK` is inductive on its own.
- `AlertsAgree`: `Spec => []IInv`. `NoFlap` is not inductive: nothing in `TypeOK`
  relates `ClearSince` to the time the alert fired, nor a pending alert's age to
  what was observed. `Agrees` adds that: an untracked key has no run of breaches;
  a pending alert is as old as its run; a firing alert is clearing exactly as
  long as the run of clear samples, which began after it fired (up to the lag).
- `NoFlapping`: a firing alert stops only when its calm is as old as the settle
  time; by `Agrees` it fired before that.
- `Implements`: every step refines `AlertLifecycle`. `Evaluate` maps to `Observe` with
  the readings of the enabled rules, `ReplaceRules` to `Retune`, `Tick` to `Tick`,
  the rest to stutters or to `Retune`; `Agrees` is what makes the code's comparisons
  those of the lifecycle.
- `AcknowledgementLasts`: `Evaluate` carries `AcknowledgedAt` along through every branch,
  and only a new activation or a removed entry begins without one (`AfterKeepsAck`).
- `HeldWhileEnabled`: the promise that `alerts_held` refutes holds for as long as no rule is
  disabled. A clear reading of an enabled rule removes its pending alert, so an alert
  that fires has no dip behind it. That pins finding 1 down to its one cause.

**DeliveryProofs** (from `DeliveryAssumption`)

- `Consistent`: `Spec => []IInv`. `Bounded` is not inductive since compaction is
  decided by the cached count: `CountAgrees` bounds its drift by the number of
  faults. Refinement needs that the answered batch still is the head of the file
  (`BatchIsHead`), that an ok accounts for all of it (`AnswerHolds`) and that nothing
  under way is unknown to the agent (`OnlyCollected`).
- `TypeCorrect`, `SpoolBounded`: consequences.
- `Implements`: `Enqueue` and its failures map to `Take` or `Miss`, a taken reply to
  `Retire`, serving to `Serve`, everything else stutters or counts a failure.
- `EvaluatedInOrder`: `Ordered` speaks of one step. `InOrder` adds that the file ascends,
  that the batch under way is its first `BatchSize` samples, and that the head of the
  file has come to whatever was evaluated or is in a late request: an eviction or a
  commit only moves the head forward.
- `DuplicatesPerFault`: `Weight` of a sample is its rows, plus the late requests that
  carry it, plus one while it is still owed (not collected, or spooled and not
  answered). `Weighed` says that it is at most one more than the faults: serving moves
  one unit from owed to rows, and whatever adds a unit costs a fault.
- `AcceptedRetired`: a batch answered 200 leaves the spool whole, with its rejected samples.
  That is the true half of `agent.go:147`; finding 2 is the other, a batch without a valid
  sample.

**EnrolmentProofs** (from `EnrolmentAssumption`, with finitely many machines, and
`LimiterAssumption`)

- `Consistent`: `Spec => []IInv`. That an invitation is spent once is not inductive: the
  redemption checks and writes in two steps. `Unoutdated` adds that a transaction whose
  snapshot nobody outdated still finds the invitation unspent, `Granted` that the
  credential about to be handed over is in the table, `SpentByCredential` that the
  invitation any credential came from is spent.
- `ExchangeAtomic`: the commit of a redemption maps to `Admit` of `Admission`, minting and
  expiry to theirs, every other step stutters.
- `SweepForgivesLittle`: a client without a bucket maps to a full one that has been quiet
  for long enough. A bucket is dropped after more whole seconds than lie within the time
  that fills it (`FullTimes`), so what is missing is less than the part cut off
  (`SweptQuiet`); the sweep of a request maps to the clients forgotten in `Serve` or
  `Refuse` (`AllowTakes`).
- `LostOncePerFault`: `LostPerFault` counts what is lost already and is not inductive. `Blame`
  adds what is bound to be lost: the requests that nobody waits for any more and that may
  still be granted (`Orphans`), and the machines that join again though they hold a
  credential (`Doomed`). A step moves one member from one set to another, or costs a
  fault; the lemmas of the section say so for operator, handlers and commands apart.
- `CredentialNotShared`: no two machines hold one credential. It needs that one
  command waits for one handler (`Paired`) and that a credential held has no grant
  outstanding (`Alone`).

**RetentionProofs** (from `RetentionAssumption` and `HistoryAssumption`)

- `TypeCorrect`, `NothingCountedTwice`: a five-minute row sums the minute rows of its
  bucket. The sum is a fold, about which nothing can be proved by induction over
  data; it is equal to the cardinality of the union because a smallest set of
  minutes for which it were not has one minute less that is not either (`LeastOf`: every
  set of numbers has a least member). The minute rows are disjoint since each holds
  samples of its own minute only.
- `LostOnlyAtEdges`: `KeptInv`. What no rollup has come to is raw (`Waiting`), what is in a
  table or file has been come to (`RolledUp`); a five-minute bucket that is not
  disturbed is in a tier or file as a whole or not at all (`Wholes`), hence `INSERT OR
  REPLACE` by a fresh aggregate, or by a restored file, loses nothing; and what a pass is
  about to prune it has rolled up before (`Safe`).
- `FileBeforeDelete`: between writing and deleting, the file holds every row that the
  deletion takes (`Filed`); a restore in between leaves rows as they are or replaces
  them by rows of a file.
- `WindowsAnswered`: no window is answered empty, however many rows there are: a limit
  takes rows off the newer end only, and at least one stays. That a fresh sample is still
  raw needs no more of `KeptInv` than that a pass prunes what a rollup has come to
  (`RawInTime`).
- `TiersAnswer`: `Answered` as a whole, for any limits and however many rows there are. A
  kept sample is in a row of one tier, and a rollup read returns the rows of its window
  in order (`ExportedRow`).

One hypothesis names the row limit `maxRangeRows` (20,000). `[]Fits`: no pass that archives
finds more rows than `ArchiveTier` reads; without it TLC refutes `ArchivedBeforeDeleted` in the
run `retention_archive` (finding 4), and what is deleted unread is lost. Passes are
hourly, so it takes hundreds of hosts or a backlog to break it; without an archive path
it is true. The reads and exports need no such hypothesis.

**PagingProofs** (from `RuleAdminAssumption`, `PagingAssumption`)

- `Consistent`: `Settled` is a fact about the last worker to finish and is not inductive.
  `Alone` says that who has met nobody has nobody beside him; hence what he listed is
  still what is stored (`Listed`), and so is what he read, but for the fields he changes
  (`ReadBack`). `MuteSeen` says that a transition muted ever since its evaluation waits
  under a mute that lasts, which the read, if it succeeds, then finds.
- `ChangesReachEvaluator`, `OtherFieldsKept`, `MutesHold`, `TypeCorrect`: consequences.

**AccountsProofs** (from `SessionsAssumption` and `AccountsAssumption`: finitely many users)

- `Consistent`: `AdminRemains` needs `Counted`: a deletion that nobody overtook since its
  count leaves another administrator. It is kept because a deletion of an administrator
  overtakes all others, and because ids are not used twice (`Known`). `SetupNotWasted`
  is strengthened to installations without an administrator (`SetupKept`). `IdleWindow`
  needs `Slid`: `LastSeenAt` is behind the last use by the touch interval at most. The
  touch interval is not longer than the idle time (5 minutes, and an hour at least);
  idle time and cap may stand in either order, as in the configuration.
- `LastAdminStays`, `TokenKept`, `PasswordChangeSignsOut`, `IdleExpiry`, `TypeCorrect`:
  consequences. Each step on a session is one of five kinds, for which `EachToken` shows
  once what follows.

**AIServiceProofs** (from `BreakerAssumption` and `AIAssumption`: finitely many workers)

- `TrialsApart`: while the circuit is open the last failure is not older than the last
  trial, and while it is half-open there is one trial (`Spaced`).
- `BudgetHolds`: every worker owes the calls it may still make on the look it took;
  `Calls` has one element for each, so that their number is a cardinality. What is spent and
  owed together stays below the cap plus the most that can be owed (`Committed`): a call
  moves one unit from owed to spent, a look is only taken below the cap.
- `TypeCorrect`: the cache stays a sequence of answers with one to a signature. Removing and
  dropping entries leaves a part of it in the same order (`Part`), which is all the
  proofs need to know of it.
- `AnswersFiled`: an answer is cached before it is stored, by the worker that has to
  store it. Nobody else takes that on, and it ends by writing or by a write that failed
  (`FilersStay`, `SavedCache`, `FiledCache`).

**DaemonProofs** (from `SettingsAssumption`, `HubAssumption`)

- `Consistent`: that the hub closes no channel twice needs `Linked`: a connection that
  waits was never closed and is not in the map, and who is in the map has a reader, so
  its slot is not used again. `Retimed` holds in the loop because `Heard` holds throughout.
- `TypeCorrect`, `TimedAsStored`: consequences.

*Model-checked only:* the liveness properties (fairness is beyond the prover):
`FiresEventually`, `ResolvesEventually`, `Drains`, `EveryChannelTried`, `Enrols`,
`Recovers`, `Forgets`. Every other property that a passing run checks is a theorem. The
properties of the four runs that expect a violation are refuted by TLC; for each a theorem
says what does hold: `HeldWhileEnabled`, `AcceptedRetired`, `LostOnlyAtEdges` and
`FileBeforeDelete`.

## 5. Not modelled

The components marked `not_modelled` in `PROJECT.json`, each with its reason: they compute
one value from their input, read the operating system, or present. In the
modelled ones: `ForgetHost` and `SetResolveAfter` (no caller), the fields of samples
and alerts, the hosts table, `batch_size` above the server's maximum, loss of power
(the spool is not synced, and nothing says it is), pruning of tables other than the
tiers and sessions, schema migration and backup, passwords and hashes, texts sent to and
parsed from the model, the log level callback, the exporter for current metrics, and
the order of two notifications, of which the code promises nothing.

## 6. Plan

The components with a protocol of their own are modelled, and the safety properties the
runs check are proved. What is left:

1. An abstract specification of the tiers, samples that are kept and leave at the end,
   which `Retention` implements under `Fits`; `KeptInv` holds what its proof needs.
2. `AIService` and `Daemon`: what bounds the calls of a day when questions and the automatic
   analysis run together; that a stopped hub leaves no sender behind.
3. `Accounts`: the exact number of overlapping deletions that `AdminRemains` excepts.
