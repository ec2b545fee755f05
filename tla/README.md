# NovaFabric in TLA+

Specifications of the parts of [NovaFabric](../src/README.md) in which several processes,
threads or files have to agree, the TLC configurations that check them on small instances,
and proofs for TLAPS of what they promise for every instance. Each definition is translated
from the source; `PROJECT.json` maps it to its lines.

To check a specification: `tlc -config SpoolShared.cfg MCEvidenceSpool.tla`; to check
proofs: `tlapm EvidenceSpoolProofs.tla`.

## 1. Inventory

NovaFabric records runs of agents and models as capsules (directories of evidence, hashed
and signed), stores, indexes, replays, compares and deletes them, and moves events of
evidence through a collector. It is Python under `src/src/novafabric`, with a collector in
Go under `src/collector`.

### Components with state that several actors share

| component | state it keeps | operations | who acts at once | what makes it correct |
|---|---|---|---|---|
| Evidence spool (`collector_cffi/spool.py`, `collector/pkg/cffi`) | a directory of one-event segment files, staging files, numbers each writer remembers | write: scan, evict, stage, link, retry on a collision, clean up | any number of capture processes, without a lock; the forwarder | what a writer was told is safe is published, or reported as unreadable; no segment replaces another |
| Forwarder (`collector/internal/spool`, `hpc.Drain`, `internal/forwarder`) | `checkpoint.json`, the list of known segments, the read cursor | recover, rescan, read, publish, acknowledge, reclaim, exit | itself and the writers; JetStream | order, at-least-once with bounded repetition, progress |
| Job table and runner (`jobs/store.py`, `jobs/runner.py`) | one row per job; per runner its in-flight set and thread pool | enqueue, claim, heartbeat, finish, fail, requeue, cancel, expire | runners, their pool threads, clients | a claim is a lock; a result is final; every job settles |
| Replay routes (`server/routes/replays.py`) | the same rows, event lists in memory | schedule, claim own job, finish, cancel, expire once | requests and threads of several servers | events agree with rows; what was scheduled settles |
| Governed deletion (`server/capsule_delete.py`, its four callers) | the capsule directory, tombstones, runs cache, MetadataStore rows (by run and tenant), audit log | check, tombstone, drop rows, purge, roll back, mark, reap | deletes in several processes, uploads, list requests, holds, an operator | a reaper never takes bytes somebody still needs; holds stop deletes |
| Webhook delivery (`server/webhook_dispatch.py`, `server/webhooks.py`) | queue and heap in memory, delivery rows | enqueue, fan out, post, record, retry, redeliver, ping, stop | request threads and one worker per server, administrators | rows have a driver or an end; evidence precedes state; delivered is final |
| Keys and erasure requests (`pii/dek/store.py`, `pii/erasure_queue.py`, the POST in `serve/app.py`) | a key row per data subject in one database, request rows in another | capture, erase; find or create a request, execute, finalize | several servers, erasers without a row, captures, holds | a completed request is true, a failed one erased nothing, a key goes lawfully |
| Retention sweeps, backup and restore (`retention/actions.py`, `backup`) | capsules, keys, receipts, shred records in the audit log; a backup set | plan, shred, receipt, record; copy; restore, replay of shreds | sweeps, captures, other erasers, a backup beside them; restores at rest | a destroyed key is on record, and a restore destroys it again |
| Audit log and its tailer (`audit/_log.py`, `audit/siem_export.py`) | a hash-chained file, renamed away from time to time; the tailer's handle, cursor and chain walk | open, lock, re-check, append, fail; drain, look, turn, start over | every process, a rotation, the tailer | each file is one chain; the stream repeats and invents nothing |
| HPC leaf spool (`collector/internal/hpc`, `spool.go` Write, `dlq.go`) | the same files, written and drained by one process | write, drain, commit, dead-letter, restart | a producer and a drain loop | nothing accepted is skipped after a restart |
| Writer lease (`ha/lease.py`) | one row: holder, fencing token, expiry | acquire, renew, release | servers with their own clocks | one holder; tokens grow with holders |
| Batch signer (`collector/internal/processor/novasealbatchsigner`) | the open batch | add, flush by size, time, shutdown | the pipeline and a timer | every record is in one signed batch |
| Evidence fabric consumers (`evidence_fabric`, `collector_app`) | deduplication tables, accumulators, broker cursors | consume, accumulate, acknowledge | consumers and the broker | redelivery changes nothing |
| Quotas, rate limits, usage (`server/quotas.py`, ...) | counters | reserve, count, flush | requests | bounded loss |

The other parts (capture and capsule formats, signatures and logs, promotion, preservation
packages, registry, lineage, knowledge graph, replay and evaluation engines,
proxies, adapters, exports, the dashboard) are listed under `components` in `PROJECT.json`
with the reason they are not modelled: they are functions of bytes, projections of capsules
into documents, or commands that run alone.

### How they interact

Capture processes write events into the spool; the forwarder moves them to JetStream, where the
evidence fabric consumes them. Servers accept uploaded capsules, register them in the
MetadataStore and a runs cache, replay them through the job table, delete them under holds, and
announce events to webhooks. A capsule's personal data is encrypted under its subject's key;
requests, commands and retention sweeps destroy that key, a sweep with a record in the audit
log, which a restore reads to destroy again the keys its backup set brings back. There is
hardly any lock between processes: agreement rests on file-system operations (`link(2)`,
`rename(2)`), on single SQL statements guarded by their WHERE clauses, and on names that carry
an age or a number. That is where this project looks.

### Hard behaviours

`hazards` in `PROJECT.json` lists them with their lines. The main ones: a number chosen from
a stale directory listing; staging files of dead writers promoted while others write; a
cursor ahead of its checkpoint; leases that run out under a live holder; a slot released by
the wrong attempt; a retry between two transactions; a reaper beside a rollback; a hold
between a check and a rename; a chain of retries that lives in memory only; a row written
before the audit entry that explains it; a key destroyed in one database and answered for in
another; a record moved aside by the restore that needs it; a log renamed away under an
append or under the tailer; a line, or a receipt, that a full disk or a death leaves torn; a file
that is there and cannot be read.

## 2. Modules

| module | models | lines that matter most |
|---|---|---|
| `DeliveryLog` | the promise of spool and forwarder: an append-only log with one consumer | (abstract) |
| `EvidenceSpool` | writers, recovery and drain of the spool | `spool.py` write, `spool.go`, `checkpoint.go`, `forwarder.go` |
| `JobStore` | every statement of the job table, and `StoreSpec`, the table under any clients | `jobs/store.py` |
| `JobRunner` | runners over `JobStore`: poller, pool threads, stop, crash | `jobs/runner.py` |
| `ReplayJobs` | the replay routes over `JobStore` | `routes/replays.py` |
| `CapsuleDelete` | deletes, their reaper, uploads, list requests, holds | `capsule_delete.py` |
| `WebhookDispatch` | the dispatcher, its routes, stop and restart | `webhook_dispatch.py`, `webhooks.py` |
| `DekStore` | a data subject's key: capture, erasure under holds and a window | `pii/dek/store.py` |
| `ErasureQueue` | erasure requests over `DekStore` | `erasure_queue.py`, `serve/app.py` |
| `ShredReplay` | retention sweeps, a backup and restores over `DekStore` | `retention/actions.py`, `backup/restore.py` |
| `AuditChain` | appends to the audit log, rotation, torn lines | `audit/_log.py` |
| `AuditTail` | `AuditChain` and the tailer that follows it | `audit/siem_export.py` |
| `EvidenceSpoolProofs`, `JobStoreProofs`, `ReplayJobsProofs`, `CapsuleDeleteProofs`, `WebhookDispatchProofs`, `ErasureQueueProofs`, `ShredReplayProofs`, `AuditProofs` | proofs about the module they are named for; `JobStoreProofs` covers table and runners, `AuditProofs` the chain alone and under the tailer | |
| `MC...` | instances for TLC: symmetry sets and constants that are not model values | |

Composition is by EXTENDS, the actions of the lower module being the statements or steps the
upper one executes: `JobRunner` and `ReplayJobs` over `JobStore`, `ErasureQueue` and
`ShredReplay` over `DekStore`, `AuditTail` over `AuditChain`. Refinement is by INSTANCE or by the
lower specification as a property: `EvidenceSpool` implements `DeliveryLog`
(`ImplementsDeliveryLog`), `JobRunner` and `ReplayJobs` implement `StoreSpec`, `AuditTail`
implements `ChainSpec`.

### EvidenceSpool

State: `seg`, `tmp` and `ckpt` are the directory (a segment is a number mapped to its event,
a staging file an event mapped to the number in its name and in its header); `wpc`, `wev`,
`wseen`, `wfloor` are a writer in the middle of `write()`; `fpc`, `known`, `rpos`, `todo`,
`batch`, `pend` are the forwarder process; `published` is JetStream, `dropped` what the
forwarder reported as unreadable; `status` is what each writer's caller knows. `log`, `reused`,
`overtaken`, `dups`, `exits` and `crashes` are history.

Actions of a writer: `Scan`, `RefuseFull`, `Stage` (evict acknowledged segments over the cap,
choose the number, write the staging file), `Link` or `Collide`, `Return`, `FailBeforeLink`,
`CrashWriter`. Actions of the forwarder: `Open`, `Promote` or `Discard` each old staging file,
`Recovered`, `Read` (rescan when nothing is unread; pass over and report any segment that
cannot be read, of which the next acknowledgement takes care), `Publish` (stored and
acknowledged; or not stored, or stored without an answer, and the process exits), `Advance`
(persist the checkpoint), `Reclaim` and `Reclaimed` (unlink one by one), `Exit`,
`CrashForwarder`.

Abstractions: one event per segment, as both writers produce; processes crash but the
operating system does not, so the durability of a directory entry is not modelled; a staging
file is whole (a torn one is discarded by recovery and its writer never succeeded);
any staging file may be found old when the forwarder opens the directory (the grace period
is a clock). Why a segment cannot be read is left open: it cannot be opened or decoded, or its line
is longer than the reader's buffer. It need not stay so, and a later forwarder may read what an
earlier one reported. JetStream is external.

### JobStore, JobRunner, ReplayJobs

State of the table: `state`, `attempt`, `worker`, `lease`, `canceled` are the columns of the
rows; a job's number is its rank by `created_at`, and time is reduced to what a statement
compares, whether a lease has lapsed. Each mutation is one transaction and one action.
`JobRunner` adds `status` and `pc` of each poller, the jobs it has to heartbeat, the claims
it may still make, `inflight`, `pool`, and for each attempt its `phase` and `owner`; `wrote`
and `deposed` are history. `fail` followed by `requeue_failed` are two actions, since they
are two transactions: a crash in between leaves a failed job with attempts left
(`runner.py:166-169`). A cancel in that window is not recorded (`cancel` marks running jobs
and ends queued ones), so the requeue's guard on `cancel_requested` holds for every failed row
(`store.py:243-251`). `ReplayJobs` has a worker id per request and `max_attempts = 1`; each
server expires leases once, when it first opens the table. A statement of a route may raise: the
claim and `fail` change nothing then, but `finish` commits and may raise at the read that follows
(`store.py:224`), which sends the thread into its error path over a row that succeeded. `errors` is
the history of these.

### CapsuleDelete

A copy is one upload of a run id; `place` says where its bytes are (`store`, a `plain`
tombstone, an `old` one past the hour of grace, one `marked` inconsistent, `destroyed`), `row`,
`meta` and `unfinished` are the three sources the reaper asks before it destroys a tombstone
(`meta` holds rows of a run and a tenant), `pc` and `job` the deletes under way. A delete
checks, reaps, renames the capsule to a tombstone, drops the runs-cache row and the
MetadataStore row, and purges; a failed step marks, rolls back and resyncs, and each of these
may fail too. Around them: uploads (publish, register, index), list requests (`sync_index`),
holds, the passage of an hour, an operator who renames a marked capsule back, deaths. WORM
locks, seals and retention only add refusals and are left out; an index sync and the reaper's
pass over one tombstone are atomic; directory fsyncs are best effort in the code and not
modelled. Deletes and reapers look for one MetadataStore row, that of the run for their
caller's tenant, and only if the run id is a UUID: any other run is registered under a random
one that nobody can look up (`Row`, `OwnRow`). A caller without a MetadataStore (dashboard,
command line) looks for none. `loose` names the runs and tenants whose row a delete or a reaper
did not look for. The bulk route writes no `capsule_delete_failed` entry, the command line only
its own audit log, and `AuditsFailure` and `AuditsSuccess` say so.

### WebhookDispatch

`hook`, `status` and `attempts` are the two tables; `queue`, `heap`, `todo`, `cur`, `ok` the
memory of a server's dispatcher; `request` a redelivery between its read and its write.
`Matches` stands for the type filters and workspaces. History variables count chains, audit
entries and attempts recorded without a post (`blind`: the webhook is deleted, or its secret cannot
be unwrapped just now, which is a fault), and name the deliveries whose chain (`stranded`) or row
(`missed`) was lost. A row and the start of its chain are one action: a
crash in between leaves what a crash right after leaves. Time, payloads, signatures, the
URL policy's verdict (a post that fails) and the duplicate suppression of `ops.*` events
are left out.

### DekStore and ErasureQueue

One subject's row: `key` is the key in it, numbered by generation, 0 for no row. An eraser
selects the row, checks holds and the retention window against what it selected, and destroys
what is there by then: three actions, since the store's lock is per object and the select opens
no write transaction. `gone`, `racing` are history. `ErasureQueue` adds `rows` (the states of
`erasure.db`) and each server's `job`: a POST attaches to the oldest pending row or creates one,
executes it through the steps of `DekStore`, asks for an earlier completed request when the
key is missing, and finalizes by id whatever the row's state. A crash or an error of either
database may come between any two of these. A server executes one POST at a time because the
handler never awaits; several servers, and erasers that write no request, do so at once.
Receipts and audit entries of requests are left out: nothing reads them back.

### ShredReplay

`shelf`, `sealed`, `due` are the subject's capsules, the key of each and what the policy says;
`pass` is what a sweep's process holds; `receipts`, `log`, `aside`, `buried`, `set` are the
files, where `aside` is what the last restore moved away and `buried` what earlier ones did.
`torn` names the receipt files that a death or a full disk cut off, `cut` says the same of a
line of the log. A sweep plans from an inventory, which lacks capsules whose manifests it
cannot read, takes an item (an earlier pass's receipt or a sibling's stands in for a shred, if
the file is there, whole or not), shreds through `DekStore`, writes the receipt, appends the
record. A set copies capsules, keys and log in that order beside the live system, and takes no
lock, so that its log may end in half a line; a restore, at rest, puts them back and replays
the restored log and the one it moved, and stops before the first record if the chain of either
does not verify. Each of these is an action, the shred itself three; a restore is one step.
Fresh-machine restores, logs altered otherwise than by a line cut off, a restore that stops
midway, subjects named by `metadata.pii_subject_id`, the metadata and purge actions are left
out. It is processes that die, not the machine: receipts are not fsynced, and what a loss of
power does to them is not modelled.

### AuditChain and AuditTail

`text` maps each file the log's path has named to its lines, and a line is part of an entry or all of
it, with or without its newline. An append opens the path, locks the file, reads its tail, checks
that the path still names it (else it starts over, `_MAX_REOPEN` times, and raises), then
writes: a torn last line first gets its newline. A write may stop anywhere and leaves what it wrote.
`Rotate` renames the file away at any time. The lock per path inside a process is subsumed by
`flock`, since every append opens the file for itself; lines once written are durable.
`AuditTail` adds the tailer started with `--from-start`: a cycle drains the file, looks
at the path, drains a rotated file once more and turns to the new one, or compares sizes and starts
the file over if it seems truncated. Sizes are bytes, so of two files that are not empty either
may be the longer. `alarm` is a mismatch of `prev_hash` and no other of the errors the tailer
records: it also counts a restarted chain and a line that is not JSON (`siem_export.py:718-738`).
Truncation in place, sinks and the readers under the shared lock are left out. The copy a backup
takes beside appenders is in `ShredReplay`, as a log that may end in half a line.

## 3. Runs

| run | instance | question |
|---|---|---|
| `spool_shared` | 2 writers, 3 events, cap 1, batch 2, an unreadable segment, a writer death, a forwarder death | is an event ever lost without a report, replaced or published out of order, how often is one repeated, by how much do racers exceed the cap, and does the pipeline implement `DeliveryLog`? |
| `spool_progress` | the same with 2 events, and fairness | is what was committed, or accepted, published or reported in the end? |
| `spool_reuse` | 2 writers, 2 events | counterexample to `AcceptedIsReachable` (finding 1) |
| `jobs_shared` | 2 runners of 2 threads, a job with 2 attempts, a fault, fairness | do handlers overlap, are late results accepted, do slots leak, do runners implement the table, does every job settle? |
| `jobs_heartbeat` | 1 runner of 2 threads, no fault | counterexample to `HeartbeatWhileRunning` (finding 2) |
| `replays` | 2 servers, 2 replays, a restart, database errors, fairness | do events agree with rows, and do scheduled replays settle? |
| `deletion` | a single and a bulk delete, 2 uploads of a UUID run, 2 tenants, holds, 2 faults | does a delete or a reaper ever take bytes that a rollback, a reported failure or an index row stands for, and does a hold stop it? |
| `webhooks` | 1 server, 2 webhooks, 2 events, queue of 1, 2 attempts, a fault, an administrator's request, fairness | are rows driven, evidenced, final, and do they settle? |
| `erasure` | 2 servers and a direct eraser, 2 keys, 2 requests, a fault | are answers true and final, are rows attended, is every key destroyed lawfully? |
| `shreds` | a sweep over 2 capsules, 2 keys, a backup, 2 restores, a fault that may cut off a receipt or a line of the log | is every shred on record, does a restore that reports success keep it, whom does a sweep spare, when does a replay fail? |
| `shreds_twice` | the same without faults | counterexample to `ShreddedSubjectsStay` (finding 3) |
| `audit` | 2 writers, 2 files, 3 entries, 2 reopens, a fault, the tailer, fairness | is each file one chain, where do entries land, does the stream repeat, miss or invent anything? |

The bounds are the smallest in which the hazards occur. Two writers give every race on a
number, since a collision involves two; with a cap of one, three events let two writers pass it
and a dead one's staging file be promoted beside them, and an unreadable segment lie between
two others. A batch of two is the least that can be half published. A job needs two attempts to
overlap with itself and two threads to do so in one runner. Two uploads of a run id and two
deletes let the reaper of one meet the residue of the other, and two faults are the failed step
and the failed rollback. Two webhooks leave a fan-out half done, two events fill a queue of one
and let retention prune another row, and two attempts have a retry. Two tenants are the least
that let one's reaper miss the other's row; run ids that are not UUIDs were checked apart (2.3
million). Two requests and two keys let an answer about one key meet the next one; two capsules
of a subject are the least with a sibling; a second restore is the least that buries a record;
three entries let a line follow a torn one in a file that is then rotated. Larger instances
were checked once: 3 attempts, 2 threads and 2 runners of `JobRunner` (4.5 million states); the
safety properties of `WebhookDispatch` but `DeliveredIsFinal` with two servers over one
database (1.0 million); the safety properties of `AuditTail` with three files and two entries
(3.3 million). `shreds` (8.1 million) is the longest of the runs. Symmetry is used in
`spool_shared`, `spool_reuse`, `erasure`, `shreds` and `shreds_twice`, none of which has a
liveness property. `CHECK_DEADLOCK FALSE` is set everywhere because every system may stop: the
bounded supply of events, jobs, uploads, requests and faults runs out, and a killed process
need not return.

`Max...` constants bound what would not end: deaths, faults, unreadable segments, uploads, keys, files,
restores, administrators' requests. They limit how often something happens, never where.

### Fairness

- `EvidenceSpool`: weak fairness of the forwarder's steps only. The service manager restarts
  it and its loop has no guard that waits on others. Writers owe nothing, and deaths are
  bounded, so that "once the forwarder stops dying" is every behaviour's end.
- `JobRunner`: weak fairness of each poller, of pool threads and of closing the pool, while
  the process lives; strong fairness of an attempt's release of its slot, for which it takes the
  lock that the poller holds again and again while it heartbeats; and a lease that no
  living runner renews lapses. One fault leaves one of two runners alive.
- `ReplayJobs`: a server that is up is used in the end, its replay threads run and end, and
  an hour passes. A statement need not raise; the replays whose claim or `fail` did are excepted.
- `WebhookDispatch`: weak fairness of a worker's steps and of the exit of a stopped process.
  A post ends, by its timeout; a retry becomes due. Restarts, administrators and event
  sources owe nothing.
- `AuditTail`: weak fairness of the tailer's cycle only: it polls for ever. Appenders, and
  whoever rotates, owe nothing; an append may stop in the middle.
- `CapsuleDelete`, `ErasureQueue` and `ShredReplay` promise nothing will happen: every step
  is an operator's, a client's or a timer's, and only safety is stated.

### What the passing runs show

Committed means committed: once a segment is linked above the checkpoint, it is published in
order, or reported as unreadable, whatever dies, and the forwarder repeats at most a batch per
death. An accepted event is lost without a report only if its number was acknowledged under its
writer. The cap on segments is exceeded only by writers that counted before another committed,
and by what dead ones left. Handlers of a job overlap, and a late result is taken, only after a
lease was expired under an attempt that went on working; no slot leaks. A replay's events agree
with its row unless the read after its commit failed. Deletes never lose bytes that a rollback
or an audit entry still claims, nor bytes that a row claims which they look for. Webhook rows
are always driven by a chain or known to be stranded, and an attempt that posted has its audit
entry. A COMPLETED erasure is true for good and a FAILED one erased nothing, unless the request
was executed twice. A key destroyed by a sweep is on record unless a fault came in between; the
first restore from a set keeps it destroyed, or fails: on a hold, a line of a log that was cut
off, or a record whose receipt is torn or a sibling's. Every file of the audit log is one
chain, whatever is torn or renamed; an entry misses the log only if its writer had checked
before the rename; the tailer renders nothing twice, reports no break, and misses an entry only
of a file it closed or passed over.

### Findings

1. `collector_cffi/spool.py:263` (`spool_reuse`): the comment says a new writer never reuses an
   acknowledged number. It reads the checkpoint once; if another process commits that number
   and the forwarder drains and unlinks it before the first one links, `link` succeeds below
   the checkpoint, `write` returns success, and the reader never reads the segment. A dead
   writer's staging file, promoted by recovery, has the same effect on a single live writer. It
   is the only way to lose an accepted event without a report: `AcceptedIsLostWhenOvertaken`
   proves that every other one is published, reported as unreadable, or ahead of the
   checkpoint.
2. `jobs/runner.py:178` (`jobs_heartbeat`): the end of a failed attempt discards the job id
   from the in-flight set after requeueing it, also when the same runner has claimed it again.
   It takes two threads and a retry: `OneThreadHeartbeats` and `FirstAttemptsHeartbeat` prove
   that a runner of one thread, and the first attempt of any job, keep their heartbeats.
3. `backup/restore.py:316` (`shreds_twice`): `docs/ops/backup-restore.md:325-328` says shredded
   subjects stay shredded regardless. The replay reads the restored log and the one this restore
   moved aside; a second restore from the same set no longer reads the record that the first one
   moved, brings the key back and reports success. Up to the first restore the promise is kept
   (`FirstRestoreKeepsItsPromise`).

### Seen on the way, without a run

- Spool: the Python writer accepts a line of any length (`spool.py:165-187`), the reader none over
  1 MiB, the largest event a Write accepts by its comment (`spool.go:38-44`). A segment that is
  longer, or cannot be opened or decoded, is skipped with a warning and a metric
  (`spool.go:272-281`), the next acknowledgement covers it, and its file is unlinked; the forwarder
  passes no metrics (`novafabric-spool-forwarder/main.go:51`), so that the warning is all there is.
- Jobs: the guard on late results compares the worker, not the attempt (`jobs/store.py:205`),
  so a runner's own earlier attempt may settle the job its retry holds;
  `LateResultOnlyOfHolder` says exactly when. `finish` reads the row back after its commit
  (`store.py:224`); if that read raises, the replay thread announces an error for a replay that
  succeeded (`replays.py:257-263`); an error of the database in the claim or in `fail` leaves
  the row open. Replays whose lease runs out after a restart, or that are queued when their
  server dies, stay until the next one (`replays.py:63`, `122`).
- Deletion: holds are read before the delete and not again (`capsule_delete.py:444`);
  `HoldStopsLaterDeletes` names the deletes that were past their check. The bulk route writes
  no `capsule_delete_failed` entry. A capsule whose run id is not a UUID is registered under a
  random one (`capsules.py:493`), which neither a delete nor the reaper can look up
  (`capsule_delete.py:316-319`, `466-470`, "not a UUID run: the store cannot hold it"), so its
  row stays for good; and both look for their own caller's tenant's row only, so another
  tenant's row of the run outlives its bytes.
- Webhooks: two servers that both redeliver a failed row post a delivered one again
  (`DeliveredIsFinal` fails with two servers); an attempt on a deleted webhook is counted
  without an audit entry, and so is one on a live webhook whose secret cannot be unwrapped
  (`webhook_dispatch.py:397-406`), where `docs/ops/server-admin-guide.md:446` says every
  attempt has one (`blind` in `EvidenceBeforeState`); rows that an exit leaves pending or
  retrying are documented as manually redeliverable (`webhook_dispatch.py:18-20`,
  `server-admin-guide.md:445`) and are refused (`webhook_dispatch.py:237`).
- Erasure: a request pending at a crash is attached to again and answered FAILED,
  `subject_not_found`, although its first execution destroyed the key; a request stays pending after an
  error of `erasure.db` too, not only across a crash; two servers that execute
  one request overwrite each other's answer (`erasure_queue.py:332`); the select before the
  holds may be of an older key than the one that is destroyed, so a fresh key can go.
- Shreds: erasures by request or by `nova pii erase` write no shred record, so a restore of an
  older set brings their keys back and is reported ok; a crash between destruction and record
  does the same to a sweep's; the record of an item whose sibling was shredded cites the
  sibling's receipt (`actions.py:312-329`), and the replay then fails (`restore.py:1299-1337`);
  the replay destroys by subject, not by key (`restore.py:699`); receipts and `erasure.db` are
  not in the set, so that a restore on a fresh machine fails its replay. The inventory skips a
  capsule whose manifest it cannot read (`sweep.py:212-220`) and sees no subject in an
  unreadable redaction manifest (`141-162`), so that a key goes whose capsule is retained. A
  receipt is written in place (`actions.py:434`) and cited if it is a file (`318-326`): one
  that was cut off fails every replay of its record. So does a line of the audit log that was
  cut off, for all records of that log (`restore.py:630-653`), and a set may copy half a line
  (`coverage.py:298`).
- Audit log: a rotation between its look at the path and its size comparison makes the tailer
  close the file without a second drain and lose its last entries, where
  `docs/cli-reference.md:8318-8320` says the rest is drained; the identity of a file is asked
  of its path after it was opened (`siem_export.py:912`); two rotations within a cycle skip a
  file; started at the end, the default, the tailer reports a mismatch on the first entry it
  sees of a log that has some; the readers open the path twice, once for the lock and once to
  read (`_log.py:208-222`).
- HPC leaf: the cursor of a failed drain is past the batch it did not commit
  (`leaf_spool_store.go:98`).

## 4. Proofs

| theorem | statement | for |
|---|---|---|
| `SpoolInvariant`, `OrderInvariant` | `Spec => []SpoolInv`, `[]OrderInv` | any writers, events, caps, batches, deaths |
| `TypeCorrect`, `NothingLoggedIsLost`, `NoSegmentIsReplaced`, `PublishesInOrder`, `DeathsRepeatABatch` | `TypeOK`, `NoSilentLoss`, `SegmentNeverReplaced`, `PublishedInOrder`, `RedeliveryBounded` | the same |
| `SpoolRefinesDeliveryLog`, `AcceptedIsLostWhenOvertaken`, `NothingIsLeftBehind` | `Spec => ImplementsDeliveryLog`; `AcceptedOrOvertaken`; an idle forwarder has published or reported the log (`DrainedWhenIdle`) | the same |
| `CapHoldsButForRacers` | `CapExceededByRacersOnly` | the same, with finitely many writers |
| `AcceptedByASoleWriter`, `ASoleWriterIsConfirmed` | `AcceptedIsReachable`; no accepted event was committed behind | the same, with one writer that does not die (`SoleWriter`) |
| `StoreInvariant`, `ResultsAreFinal` | `StoreSpec => []StoreInv`, `SettledForever` | any jobs, workers, attempts, any clients |
| `RunnersRefineTable`, `RunnersKeepTableInvariant`, `RunnersKeepResultsFinal` | `JobRunner`'s `Spec => StoreSpec`, and the two above | any runners, threads, faults |
| `RunnerInvariant`, `RunnerTypeOK`, `OverlapsNeedExpiry`, `LateResultsAreOfHolders`, `SlotsAreAccounted` | `RunnerInv`, `TypeOK`, `OverlapNeedsExpiry`, `LateResultOnlyOfHolder`, `SlotsAccounted` | the same |
| `FirstAttemptsHeartbeat` | a first attempt is in flight while it executes | the same |
| `OneThreadHeartbeats` | `HeartbeatWhileRunning` | the same, with one thread (`Threads = 1`) |
| `EventsAgree`, `ReplaysRefineTable`, `ReplaysRunOnce` | `EventsAgreeWithRow` and `StoreSpec` of `ReplayJobs`; one attempt per replay, never queued again | any servers, replays, restarts, database errors |
| `DeleteInvariant`, `DeletesOwnTheirBytes`, `FailedDeletesKeepBytes`, `MetaRowsHaveBytes`, `HoldsStopLaterDeletes` | `DeleteInv`, `DeleteOwnsItsBytes`, `FailedDeleteKeepsBytes`, `MetaRowHasBytes`, `HoldStopsLaterDeletes` | any runs, UUIDs or not, uploads, tenants, deleters, faults |
| `DispatchInvariant`, `DispatchTypeOK`, `RowsAreDriven`, `EvidencePrecedesState` | `DispatchInv`, `TypeOK`, `OpenRowsAreDriven`, `EvidenceBeforeState` | any servers, webhooks, events, attempts, faults, secrets unavailable |
| `SoleInvariant`, `DeliveredStaysDelivered` | `SoleInv`, `DeliveredIsFinal` | the same, with one server (`Sole`) |
| `ErasureInvariant`, `CompletedIsTrue`, `FailedErasedNothing`, `PendingAttended`, `AnswersStand`, `ErasuresAreLawful` | `ErasureInv` and the properties of `erasure` | any servers, erasers, keys, requests, faults |
| `ShredInvariant`, `ShredsAreRecorded`, `ShreddedStaysShredded`, `RetainedAreSpared`, `RestoresFailForAReason` | `ShredInv` and the properties of `shreds` | any sweeps, capsules, keys, sets, restores, faults, torn files |
| `FirstRestoreKeepsItsPromise` | `ShreddedSubjectsStay` while there was at most one restore | the same |
| `ChainInvariant`, `ChainsAreUnbroken`, `EntriesLandInTheLogOrRace`, `TailerOnlyReads` | `ChainInv`, `ChainUnbroken`, `EntriesLandInTheLog`, `Spec => ChainSpec` | any writers, files, entries, faults |
| `LinesArePermanent`, `TailInvariant`, `ExportsAreFaithful`, `NoEntryIsMissed` | `LinesInv` (an entry is on one line for good), `TailInv`, `ExportIsFaithful`, `NoneIsMissed` (a file the tailer has read to its end, and not cut short by its size comparison, misses no entry finished while it was the log) | the same, with the tailer |

`EvidenceSpool`. `NoSilentLoss` is not inductive: a reader that jumps over a gap, a writer that
holds a number beyond the next one, a batch that forgets an event would each break it one step
later. `SpoolInv` adds what rules them out: `DiskAgreesWithLog` (above the checkpoint the
directory is exactly the log; below it everything is settled, that is, published or reported),
`NumbersWithinLog` (no writer and no staging file is ahead of the log, so a free number above
the checkpoint is the next one: `FreeNumberIsNext`), `OneWriterPerEvent`, `KnownWithoutGap`
(recovery's promotions fill the reader's list in order, and a rescan adds the rest:
`RescanWithoutGap`), `ReadIsAccountedFor` (what the cursor has passed is settled or in the
batch; `ReadTakes`). One lemma per conjunct (`DiskStep`, `NumbersStep`, ...) has one step per
action. The key to `DiskStep` is that every commit, by a writer or by recovery, goes through
`CommitKeepsDisk`.

Order needs more (`OrderInv`): an event is logged once, because what a writer has still to
commit is not in the log (`NotYetLogged`) and a staging file whose event is in the log, left by
a writer that died after its link, has the number it was logged at (`StagingOfLogged`), which
recovery finds taken or acknowledged; and a batch ends where the reader is, or at what it
passed over and reported after it (`BatchIsAhead`). Repetition is bounded by a potential
(`Repeats`): the numbers ahead of the checkpoint whose events JetStream has (`Owed`) are what
earlier processes died with and what this one has handed over of its batch; the former and the
repetitions so far stay within a batch per death. A death turns the latter into the former, at
most a batch, and pays for it. Which segments a process can read does not matter: one that a
later process skips is repeated by none.

Every step is one of `DeliveryLog` or none (`DeliveryStep`), with any number of writers: the
log confirms an accepted event unless it was committed behind the reader (`Behind`), and
`CommitInv` adds that what was accepted was linked, in the log or behind.
`AcceptedIsLostWhenOvertaken` says why an event can be behind: a number is above the checkpoint
when it is chosen, so one that no longer is was acknowledged while a staging file had it
(`OvertakenInv`). That nothing is ever behind needs one writer that does not die: `SoleInv`
adds that its staging file has the number after the log, so that no number is reused
(`ASoleWriterIsConfirmed`, `AcceptedByASoleWriter`); with two it is false: finding 1.

The cap is an argument about listings. `RaceInv` names three things: a listing `B` from which
the last writer to make room evicted, and which left at most the cap less one; the writers `P`
that had listed the directory before that one did and have not staged since; and for each
writer that has listed, `older[w]`, those that had listed when it did. Each segment or staging
file beyond `B` stands for a writer that is not in `P` or for a death. A writer that lists
counts everything now there against the writers that listed before it; a writer that stages
either takes one of `P`'s places or, if it listed later, replaces `B` by what its own eviction
left (`RaceAfterStage`); `LeastOnes` says that evicting the oldest evicts as many as are over.
Counting events instead of files needs that an event has one segment, at the number of its
staging file (`OneSegmentPerEvent`), and counting deaths that each leaves at most one staging
file without an owner (`OrphansOfCrashes`). TLC found all of `CapInv` to hold before it was
proved (two writers, three and four events). Liveness has a safety half: a forwarder that is
idle, finds nothing new and has read what it knew has published or reported the whole log
(`NothingIsLeftBehind`), so that `LoggedIsPublished` can fail only by the forwarder not
running.

`JobStore` and `JobRunner`. `StoreInv` is inductive by itself: attempts never exceed
`MaxAttempts` because a queued job has one left, which expiry and requeueing both guard. Every
action of a runner is an action of the table or leaves it alone, given that an attempt in the
middle of its end was really claimed. The properties of attempts need `RunnerInv`: an attempt
that has not written its result holds its job, or a lease was expired under it or under an
earlier one (`HolderOrDeposed`); every attempt was claimed by its owner (`AttemptsAreClaimed`);
the pool is the pending attempts, each once (`PoolIsPending`). A second handler, a late result
and a shared slot each lead back to an attempt of `deposed`.

Heartbeats fail when two attempts of a job share a slot. With one thread a poller claims
only with nothing in flight, one job at a time, so a runner has one attempt and its job is
what is in flight (`OneAtATime`; TLC: 15.1 million states with two runners, two jobs, two attempts
and a fault). The first attempt of a job has no earlier one to lose its slot to; that follows
from `RunnerInv`.

`ReplayJobs`. No event precedes its row (`NothingBeforeTheRow`), and between its statement and
its event a thread agrees with the row it wrote (`ThreadAgreesWithRow`), unless the read after
the commit raised (`errors`). Each step of the routes is a statement of the table or leaves it
alone (`ReplayStepIsStoreStep`), so what is proved of the table under any clients holds of
replays. A claimed replay has used its one attempt (`ClaimedOnce`): an expiry fails it, and no
step queues it again (`replays.py:15-16`).

`CapsuleDelete`. A tombstone has one delete that may still move it (`OneMover`), and a copy
that some delete has taken does not age, so no reaper has it (`TakenIsYoung`). With these a
rollback finds its bytes. A row keeps a copy with bytes because whoever destroys the last one
has looked for the row and found none, dropped it, or is named in `loose` (`MetaRowKeepsBytes`,
which has to say the same of uploads that may still register a row).

`ErasureQueue`. A server that found no key, or destroyed it, knows that the key its request was made
for is gone (`RowsInUse`), because numbers of keys only grow; a request no POST re-attached
to is executed once and by one server (`ExecutedOnce`). What breaks both is re-attachment, and
`again` names those rows.

`ShredReplay`. A receipt is on disk before anything cites it (`ReceiptsFirst`), what a set
holds of the log is in a log as well (`SetFromLog`), a key's number is used once
(`KeysAreNew`), and what a sweep must spare is in its inventory or is known to be missing there
(`SparedOrMissed`): its manifest could not be read, or it was captured since. A record that is
in no log cut off, names its own receipt, and finds it whole is replayed (`Resolves`). A record
is lost to the replay when it is buried, by the second restore after it was written and not
before (`BuriedByTheSecond`): up to the first restore the runbook's promise follows from
`ShredInv`.

`AuditChain`. Of a file's lock there is one holder (`OneHolder`), which knows the file's last
entry from its read to its write (`TailIsKnown`); lines therefore name the entry before them
(`LinesAreBegunInOrder`), and a line that is torn, or gets its newline later, does not change what
`LastEntry` finds. A writer in a file that is no longer the log was overtaken by the rename after its
check (`RacersAreNamed`). The tailer changes no variable of the chain (`TailerOnlyReads`), so all
this holds beside it. What it relies on is that lines are permanent (`LinesInv`): an entry is on one
line of one file, and only the last line of a file may still change. What it has consumed of its
file is then a prefix of complete lines and the hash it expects is that of the last entry among them
(`PlaceInFile`); a file it turned from is never the log again (`FilesBehind`), so it never
reads one from the start that it has exported from. `NoneIsMissed`, conversely, says what a read to
the end covers; the entries it excepts are those of a file closed by the size comparison, and
those finished after the rename.

`WebhookDispatch`. `OpenRowsAreDriven` is inductive by itself: a chain moves between the heap,
the running attempt and the heap again, and each place it can be dropped adds it to `stranded`.
`EvidenceBeforeState` is not: at the moment of a record the row catches up with its entries. The
invariant counts the servers that hold an audited attempt not yet recorded with the attempts
(`EvidenceCoversDue`, by cardinalities of `Due`), so that a record, which removes its server
from `Due`, changes nothing in the sum. With one server, `SoleInv` adds that an event waits once
and its deliveries have no row yet (`EventsWaitOnce`) and that a delivery has one chain, on
an open row, and a pending redelivery looks at a failed or pruned one (`OneChain`); each needs
the other, and a delivered row is then out of every step's reach but retention's
(`DeliveredStep`). Two servers break `OneChain`: both may redeliver the same failed row.

All constants are arbitrary within the named assumptions (`SpoolAssumption`, `JobAssumption`,
`RunnerAssumption`, `DispatchAssumption`, `StoreAssumption`, `ChainAssumption`, ...), which TLC
evaluates on each run. The strengthened invariants were checked by TLC before they were
proved; only `ErasureInv` is still in a run, the others follow from their theorems.

### Only model-checked

Everything temporal with `~>`, because fairness and `ENABLED` are beyond the prover:
`LoggedIsPublished`, `AcceptedIsPublished`, `EveryJobSettles`, `ScheduledReplaySettles`,
`EveryDeliverySettles`, `EveryHookIsTold`, `EntriesAreExported`. What there is of safety in them is
proved: nothing is left behind by an idle forwarder (`NothingIsLeftBehind`), an open row has a driver
or is stranded (`RowsAreDriven`), a file read to its end misses nothing (`NoEntryIsMissed`).
Every invariant and action property of a passing run, and both refinements, are theorems.
Nothing here is recursive: no fact needs induction over data.

## 5. Plan

Written: `EvidenceSpool`, `JobStore`, `JobRunner`, `ReplayJobs`, `CapsuleDelete`,
`WebhookDispatch`, `DekStore`, `ErasureQueue`, `ShredReplay`, `AuditChain`, `AuditTail`, and
proofs about each. What is left, in this order:

1. `LeafSpool`: the leaf's own use of `spool.go` (`Write`, `ReadBatch`, `Commit`, restart,
   eviction, dead-letter queue), as a second implementation of `DeliveryLog`. Three events, a
   restart, a failed callback. Its caller today is the HPC store alone.
2. `AuditTail`: truncation in place, the sinks' own retries, readers under the shared lock.
3. `CapsuleDelete` over `AuditChain`, since the reaper trusts its entries; WORM locks and
   policies in its check.
4. `WriterLease`: one row under skewed clocks, fencing tokens grow with the holder; the batch
   signer: every record in one signed batch.
5. `ShredReplay`: restores that stop midway or on a fresh machine, sets without keys.
6. Candidates after that: evidence fabric consumers, object capsule store writes, quotas,
   the trust ledger.

## 6. Not modelled, and why

Everything named `not_modelled` in `PROJECT.json`, each with its reason. In short: bytes (hashes,
signatures, encodings, payloads), wording, I/O of commands that run alone, engines whose result
is a function of their input, the operating system's own crashes, the broker's internals, clocks
beyond the comparisons the code makes. Of the components modelled in part: WORM locks, seals and
policies before a delete; subscription changes beyond the enabled flag, suppression of
duplicate `ops.*` events, and payloads of webhooks; the expiry, metadata and purge actions of a
sweep; Postgres and manifest-only backup profiles and the verification of a set; the one-shot
export, truncation and sinks of the audit log.
