# Verification of TopcDB

TopcDB is a fork of Prometheus. Its time series database (`tsdb/`) stores float
samples with a lossy compression in two phases: samples are quantized and packed
quickly while they are in memory, and encoded again, more compactly, when blocks
are compacted. This directory has TLA+ models of the database, of its log and its
compressors, and of the services around it (scraping, discovery, rules,
notifications, remote write), TLC configurations that check them on small
instances, and TLAPS proofs of properties that matter most for every value of the
constants. `PROJECT.json` has the exact correspondence: the lines of code that
each definition models, the runs, the mutants that each property is tried against,
the hazards and the findings.

Contents: [inventory](#inventory), [modules](#modules-and-the-code),
[runs and bounds](#runs-and-bounds),
[what the passing runs leave out](#what-the-passing-runs-leave-out),
[fairness](#fairness), [findings](#findings), [proofs](#proofs),
[not modelled](#not-modelled).

## Inventory

### Parts and how they interact

Service discovery tells the scrape manager what to scrape. A scrape loop appends
what a target exposes through `storage` to a `headAppender`. A commit writes
samples to the WAL and to the series of the head (`memSeries`), in the open chunk
if they are in order, in the out-of-order chunk of the series if not. Full chunks
are m-mapped to disk through a queue. Once the head spans one and a half block
ranges, `DB.Compact` writes its oldest range to a block, reloads the blocks and
truncates the head and the WAL; then it does the same with out-of-order chunks and
merges blocks. A query takes the blocks of its range, the head and the
out-of-order head, and holds on to them until it is closed. Rules query the
storage and hand alerts to the notifier; remote write tails the WAL and sends what
it finds. All of this happens concurrently.

| part | state | operations | hard behaviour |
|---|---|---|---|
| isolation | open appends, open reads, low watermark | new append, close append, open read, close read | everything closes in any order; a stale watermark is used later |
| ring of append IDs | array, first, count | add, clean up, iterate | grows while wrapped around |
| in-order series | chunks, buffered samples, append IDs | append, commit, roll back, cut, m-map, truncate, read | commits interleave sample by sample; chunks change under a query |
| lossy chunks | encoder buffer, byte stream, blocks | append, cut, query, write block, merge blocks | values that do not fit; encode, decode and encode again |
| Machete, SZ3, bit streams | trees, tables, streams | compress, decompress | outliers, NaN, ties, buffers sized in advance |
| out-of-order chunk | sorted slice, m-mapped chunks | insert, encode, read | any order of arrival |
| out-of-order head | chunks, references, blocks | compact in steps, query, collect | compaction, inserts and queries overlap |
| in-order head | atomic bounds, blocks | append, commit, compact in steps, query | every read of a bound may be stale |
| blocks | directories, loaded blocks, flags | write, merge, clean, delete, reload, retain, restart | crashes and failures between any two steps |
| series map, WAL, checkpoints | hash and ID maps, `pendingCommit`, segments | create, look up, collect, log, checkpoint, truncate, replay | collection against open appends; crashes; series without records |
| WAL watcher | segment, offset, series by segment | read, follow segments, read checkpoints, forget series | runs behind the head that truncates what it reads |
| head chunk files | files, write buffer, queue, reference map | write, cut, read, truncate, reopen | a chunk moves from queue to buffer to file under a reader |
| remote write | shards, batches, requests | enqueue, send, retry, reshard, stop | order across resharding, deadlines |
| alerting rules | alerts, stored `for` state | evaluate, fail, restart, restore, reload | many steps of one alert, with outages in between |
| notifier | bounded queue, batch | send, deliver, drain, stop | overflow, lost wake-ups, failing receivers |
| scraping | cache of two generations, loops | scrape, reload, remove, end | markers of a stopped loop while another scrapes |
| discovery | providers, groups, triggers | update, send, reconfigure, shut down | throttled and retried updates against reloads |
| exemplars | ring with chains through it | add, select, resize | wrap-around while resizing |
| agent storage | series by last timestamp, WAL | append, commit, collect, truncate | not modelled |
| PromQL, web, commands, configuration, formats | none that outlives a call | | not modelled |

### Properties that matter

* A query sees whole appends that were committed before it, in time order, each
  value within the error bound of what was appended.
* A committed sample is in the head or in a block at every moment, and can be
  replayed, whatever compactions, crashes and failures there are.
* A deleted sample does not come back; blocks end up disjoint and aligned.
* What is scraped is live and what is gone goes stale; samples are forwarded in
  order and alerts are told, or counted as lost.
* Everything that waits comes to an end.

## Modules and the code

| module | code | what it models |
|---|---|---|
| `Isolation` | `tsdb/isolation.go` | `isolation`: an action per method, as all of them run under `appendMtx`. The linked lists are sequences. |
| `TxQueue`, `TxRing` | `tsdb/isolation.go` | `txRing`, and the queue that it implements. |
| `HeadSeries` | `tsdb/head_append.go`, `head_read.go`, `head.go` | On top of `Isolation`: in-order samples of series. `Commit` applies its samples one at a time (`commitSample`), as it takes the lock of the series for each of them; `finish` compacts the appenders and closes the append. A query (`stopAfter`) computes how much of a chunk it may see from the ring. |
| `Simple8b` | `tsdb/chunkenc/simple8b.go` | The encoder with its 240-value buffer, the selector table, the loop of `Bytes`. |
| `CLChunk` | `tsdb/chunkenc/qsimple8b.go`, `huffman.go`, `storage/series.go`, `merge.go` | One series through both phases: quantization, deltas, zigzag, the head chunk with its buffered samples, blocks that are decoded and encoded again in chunks of other sizes. |
| `BitStream` | `chunkenc/algorithm/Machete/inc/BitStream` | The bit writer with its two-word buffer, and the reader. |
| `Machete` | `chunkenc/algorithm/Machete/machete` | The Lorenzo predictor with its outliers, the Huffman, OVLQ and hybrid encoders, the frame, and the way back. |
| `SZ3` | `chunkenc/algorithm/SZ3` | What a one-dimensional array of doubles goes through: interpolation or Lorenzo decomposition, quantizer, Huffman encoder with its stored tree, buffers around zstd; zstd alone for an error bound of zero. |
| `OOOChunk` | `tsdb/ooo_head.go`, `chunkenc/simplebits.go` | The sorted slice of out-of-order samples, its encoding, and the iterator that reads it back. |
| `OOOHead` | `tsdb/ooo_head_read.go`, `ooo_isolation.go`, `db.go`, `head.go` | `compactOOOHead` step by step (series by series where it visits them), inserts, and queries that remember chunk IDs. |
| `HeadCompaction` | `tsdb/db.go`, `head.go`, `head_append.go` | `DB.Compact` of the in-order head. Each access to `minTime`, `maxTime`, `minValidTime`, `lastMemoryTruncationTime` and `memTruncationInProcess` that another goroutine may come before is a step. |
| `Blocks` | `tsdb/db.go`, `compact.go`, `block.go` | The planner as operators; compactions, `CleanTombstones`, `Delete`, `reloadBlocks` and `deleteBlocks` as steps; crashes, restarts, failing reloads, deletions and compactions; time retention; queries that hold blocks. |
| `HeadLog` | `tsdb/head.go`, `head_append.go`, `head_wal.go`, `wlog/` | Label sets, references and `stripeSeries`; an appender that looks up, creates, appends, logs and commits in the critical sections of the code; `gc` series by series; `truncateWAL` with its checkpoint in steps; a crash anywhere and `loadWAL`. |
| `LogWatcher` | `tsdb/wlog/watcher.go`, `storage/remote/queue_manager.go` | On top of `HeadLog`: `Watcher.Run`, segments that are read record by record and outlive their file, `garbageCollectSeries` in a goroutine of its own, the maps of the `QueueManager`. The last segment, the newest checkpoint and the first segment to read are looked up in separate steps. |
| `ChunkDiskMapper` | `tsdb/chunks/head_chunks.go`, `chunk_write_queue.go`, `queue.go` | References that are given out before the chunk is written; queue, write buffer and files; readers that look in one after the other; `Truncate` in steps; reopening. |
| `RemoteWrite` | `storage/remote/queue_manager.go` | `enqueue`, batches and the bounded channel, `runShard` with timers and retries, requests whose answer is lost, `reshard`, `stop` with its deadline. |
| `Notifier` | `notifier/notifier.go` | `Send` into the bounded queue, the token `more`, batches, `sendAll` set by set over sets of Alertmanagers that discovery changes, with a cached payload and an early return when alerts cannot be encoded, draining and stopping. |
| `AlertingRule` | `rules/alerting.go`, `rules/group.go` | `Eval` with `for`, `keep_firing_for` and retention, `sendAlerts`, `ALERTS_FOR_STATE`, `RestoreForState`, `CopyState`, failing evaluations, the limit. |
| `ScrapeLoop` | `scrape/scrape.go` | `run`, `scrapeAndReport`, `scrapeCache`, `endOfRunStaleness`; reloads with and without the cache; a target that goes and comes back. |
| `Discovery` | `discovery/manager.go`, `scrape/manager.go` | Providers and updaters, `ApplyConfig` of both managers, `cleaner`, the throttled `sender`, `Run` and `reloader` of the scrape manager, a shutdown. |
| `Exemplars` | `tsdb/exemplar.go` | `AddExemplar`, `Resize` with its migration, `Select`, `IterateExemplars`. |
| `...Proofs` | | Theorems and proofs. |
| `MC...` | | Instances for TLC. `MCIngestion`, `MCLogCodecs` and `MCServices` put parts without common state side by side: a behaviour is one of one part. |

Abstractions that a reader should know of:

* `HeadSeries`: when a chunk is cut is a nondeterministic choice, so the
  properties hold for any sizing rule. A sample is its timestamp and append ID.
  A hidden sample cuts off all that follows in the series, which is what
  `stopAfter` computes and `WithheldBehindHidden` allows.
* `CLChunk`, `Machete`, `SZ3`: values are integers or NaN, the quantum and the
  error bound are integers, so the rounding of floating point division is not
  covered. `int64` is `Bits` wide in `CLChunk`, where a Simple8b word holds
  `Bits - 4` bits, as 60 of 64; `int32_t` is `IntWidth` wide in `Machete`.
  In `CLChunk` the unit of values is a millionth, the unit in which the metadata of
  a chunk keeps the error bound, in 28 bits; the bytes of a chunk include the number
  of samples in its header, which an append changes at once and an encoding that
  fails does not take back (`Fails`). Timestamps are at equal distances there.
  Conversions of NaN are what amd64 gives. `Simple8b` itself has 64 bits and
  tells values apart by bit length only. In `Machete` any two lightest nodes may
  be merged, as the order of an `unordered_map` is not specified. In `SZ3` any
  predictor may win the trial compression, an interpolated value is rounded to an
  integer on both sides alike, and zstd returns what it was given if that fits.
* `HeadCompaction`: chunks do not straddle multiples of `chunkRange`, so a series
  is a set of timestamps; an append has one sample. `DB.CompactHead` takes the
  same steps without the wait for appenders.
* `Blocks`: one series; a sample is its timestamp; head and out-of-order samples
  survive a crash in the WAL and the WBL. Appends come between operations, since
  `HeadCompaction` and `OOOHead` interleave them. A ULID can be used again once
  nothing refers to it.
* `HeadLog`: a record is its series or samples; how records lie in pages is left
  out, so a crash loses no part of a record. Samples below `mint` are in blocks.
* `Notifier`: of the relabelling for a set of Alertmanagers, which alerts it drops.
* `ChunkDiskMapper`: a chunk and a file header take one unit each, so a file
  holds `FileSize - 1` chunks.
* `AlertingRule`: time counts in fractions of a second, since what is stored for
  a restart is in whole seconds. The receiver is the Alertmanager as the code
  addresses it: it takes an alert for resolved after `EndsAt`.
* `ScrapeLoop`: time counts in intervals, and all loops of a target scrape at the
  same offset, as the offset is a hash of the target.
* `Discovery`: the groups of a provider are one version number.

## Runs and bounds

Passing runs:

* `ingestion` (`MCIngestion`). Isolation: three readers and four appends, opened
  and closed in every order; whatever is below a watermark, the current one or a
  copy, is closed and hidden by no open read (`WatermarkSafe`). A ring grown to
  eight slots, with three IDs and up to six entries, implements the queue
  (`ImplementsQueue`). One series, three appends with two open at a time and a
  query: no dirty reads, nothing withheld without cause, time order, chunk IDs
  that keep their meaning. A second series shares no state with the first other than
  the isolation. Simple8b from buffers one or two values short of a word or of the
  buffer: a round trip loses nothing and a wide value blocks only what is behind
  it. Lossy chunks of four samples at all distances from quanta, fitting or not,
  merged into chunks of one and two samples: errors stay within the bound and
  compactions change no value (`ReadFaithful`, `RecompactionExact`).
  Out-of-order chunks of three samples in every order of four timestamps. Two
  alerts of a rule with a limit of one, over fourteen half seconds, long enough to be
  pending, fire, be kept firing, resolve and go through an outage: no alert fires a
  second or more before its time (`HoldRespected`); the receiver is not left with an
  alert that has ended, and loses none unless three evaluations fail in a row
  (`ReceiverAgrees`).
  Deadlock is not checked: times and IDs run out, and a process that panicked stops.
* `head_compaction`: two series, two appenders, a query over ranges below, across
  and above the end of the block, two samples, times 0 to 5 with blocks of 2: one
  compaction. Committed samples are stored, other than those of the race
  below (`behind`); the window for appends stays open; a query finds all of its
  range. More samples, with a second compaction, take TLC too long for a
  routine run; the proofs cover any number.
* `log_and_codecs` (`MCLogCodecs`). The log of one label set with two references. With
  one appender: up to six segments, which make checkpoints of checkpoints, or up to
  three timestamps, and a crash between any two steps. With two appenders that share
  their series: one segment of up to three records. A committed sample is in the
  series that a lookup finds (`HeadComplete`) and a crash at any moment would lose
  none (`ReplayComplete`). The same log with a watcher, without crashes: from an empty
  log with up to three segments after the first, four if the watcher starts with the first,
  or behind a head that was restarted three times, with
  up to six, so that two collections of the watcher overlap. No tailed sample meets an
  unknown series (`TailedSeriesKnown`). Files of two chunks, three chunks, a reader, a
  queue of one or none, truncations during writes and a reopening: references are good
  from the moment they are given out and files are numbered without a gap
  (`ReferencesGood`). Machete over all inputs of up to five of five values, with 4-bit
  deltas, a jump that does not fit and NaN, each encoder and every tree. The bit stream
  with 3-bit words and all ways to write seven bits. SZ3 over all inputs of up to five
  of four values, with what may lie behind a short chunk, an unpredictable value, NaN,
  and an error bound of zero; the orders of visits for lengths up to twenty. Deadlock is
  not checked: the bounds run out.
* `blocks`: ranges 2 and 4, timestamps 0, 1, 2, 4, 8, 12, two late samples, one
  deletion, one crash or failure at any step, a query, a retention of 7. This is the
  least with which two blocks merge by range, a late block overlaps them, and
  retention removes a merged block while its parents may still be on disk. No
  sample is lost on disk or hidden in memory; no deleted one returns; blocks
  overlap only where late samples are; they stay aligned; a block that is read
  is not deleted; overlaps are merged in the end.
* `services` (`MCServices`). Out-of-order head: one series, three timestamps,
  chunks of one sample, three references: a query at any time finds what was
  stored, nothing inserted is lost, a compaction ends. Remote write: four samples
  of a series, batches of two, a channel of one, two shards, two reshards, lost
  answers, a shutdown: order, no silent loss, an end to every stop. Notifier: five
  alerts, a queue of three, batches of two, two sets, one with relabelling: every alert is
  accounted for, the cached payload is the whole batch, and the queue drains. Discovery: two providers, two jobs, two reloads between four
  configurations: pools follow what was announced last. Scraping: two series, six
  intervals, three starts of a loop, scrapes that fail at once or midway: what was
  scraped is live and what is gone is marked stale. Exemplars: two series, four timestamps, rings
  of up to four slots and all resizes: a query returns what is in the ring.
  Deadlock is not checked: bounded parts stop.

Each property of a passing run is tried against a mutant of the code that breaks it.
A mutant is an operator next to the definition that it replaces.

Runs that end in a violation are under [findings](#findings).

## What the passing runs leave out

Some properties fail under schedules that the code admits. They are left out in two
ways, so that the rest can be checked.

**By a constant.** The run does not have the schedule, and **the properties are shown
only without it**. What happens with it was found with the same modules and is
reproduced by changing the constant:

| constant of the run | schedule | what then happens |
|---|---|---|
| `DuplicateCrashes = FALSE` | A crash finds two series records of a label set. | The finding `head_log_replay`. |
| `CdmRaces` without `"write"` | A chunk is written while a `Truncate` runs that found no chunk in use, or that removes all files. | `ReferencesGood` fails: the file of the new chunk is removed, or numbering starts anew and a reference given out before does not fit. |
| `CdmRaces` without `"queued"` | All files are removed while chunks are on their way to a file. | The same. |
| `RwRaces` without `"flush"` | The timer of a shard fires between the two critical sections of `FlushAndShutdown`. | `DeliveredInOrder` fails: the last batch is sent, and then sent again. |
| `Unit <= Interval + 1` | A group is evaluated more often than every second and restarted several times while an alert is pending. | `HoldRespected` fails: every restart may round the stored time down by almost a second, and the next restart starts from there. |
| `PartialDeletes = FALSE` | `deleteBlocks` fails after a parent of a merged block is gone. | `SamplesDurable` fails: `reloadBlocks` returns the error, and `compactBlocks` removes the merged block for it. |
| `FailingReloads`, `OOOInHeadRange` | The reload of `CleanTombstones` fails; late samples in the range of the head. | The findings `blocks_clean` and `blocks_restart`. |
| `MaxFaults = 1` with a retention | A block beyond the retention cannot be removed: the reload of a compaction fails, and the new block by which the old one was too old is removed. | `DeletedGone` fails (with `MaxFaults` = 2 and timestamps 0, 1, 2, 4, 8, 11, 12; the other fault is a failed merge): the old block stays on disk and is no longer in memory, `Delete` marks blocks in memory only, and the next reload loads the old block without the tombstone. |
| one series in the out-of-order head | | The finding `ooo_head_race`. |

**By item.** The run has the schedule. A history variable, which the code does not have
and no guard of the code reads, names the series, samples or alerts that it touches, and
the property speaks of all others. Each of these is a behaviour of the code:

| property | left out | why |
|---|---|---|
| `CommittedAheadStored` | `behind` | The finding `head_compaction_race`. |
| `HeadComplete` | series that are `stray` | A series is collected between its lookup and the lock under which its first sample sets `pendingCommit`; or after another appender had `cleared` the flag, which is one for all. The sample is committed to a series that no lookup finds. |
| `ReplayComplete` | label sets that are `contended` | Appenders that are open together may log samples before the record of their series, or in another order than they apply them: the replay drops them. |
| `TailedSeriesKnown` | series that the watcher `missed` | A checkpoint is made after `Run` read the last segment (`overtaken`), or after it read the checkpoint and before it finds the first segment (`skipped`): the watcher has not seen their records. Or `garbageCollectSeries` of one segment reads an old checkpoint while that of the next reads a newer one, as `gcSem` is local to a segment: the older reading sets the segment of a series back, and the newer `SeriesReset` forgets it (`setBack`). |
| `ReceiverAgrees` | alerts that are `dropped` | `Eval` of a rule past its limit forgets its alerts without telling the receiver. |
| `ScrapedIsLive` | series that are `cut` | A scrape fails after some series were read. Their entries stay marked in the cache, so the next scrape takes its own samples for duplicates, once. |
| `StaleInTime` | series that are `orphaned` | A loop that was handed a cache is stopped before its first scrape: no loop marks the series of the old one stale. |
| `MacheteFaithful` | OVLQ and hybrid frames with a length of `IntWidth` beside shorter ones | The decoder's table is built with 32-bit operations (`LastLengthLost`). Chunks use the Huffman encoder. |
| `SZFaithful` | streams longer than the values | The decompressor's buffer has the size of the values; the error of zstd is not looked at. |

Two more statements are weaker than one might expect. `PoolsFollow` asks nothing
after a shutdown: a reload under way may then wait for ever in `wg.Wait`, for
a provider whose `cleaner` ran before `done` was set. `NoSampleLost` asks that a
hard shutdown of remote write reports at least what it lost: each shard reports
the samples of all, so the number is too large.

## Fairness

* `OOOHead`: weak fairness of the compaction's steps, one goroutine, and of
  closing queries, which end by themselves or by their timeout. Nothing is
  assumed of inserts and new queries, which may go on for ever.
* `Blocks`: weak fairness of the steps of the operation that holds `db.cmtx` and
  of closing queries; strong fairness of `compactHead \/ compactBlocks` among the
  operations that may be next: `DB.run` puts a request into `compactc` after each
  reload of a tick, so in every round the compaction is a ready case.
* `RemoteWrite`: weak fairness of each shard, of the goroutine that stops the
  shards, of each flushing goroutine, and of the end of a request once its context
  is cancelled. Nothing is assumed of the endpoint, which may fail for ever.
* `Notifier`: weak fairness of the sender; a request ends by its timeout.
* `Discovery`: weak fairness of each goroutine: providers' updaters, the two loops of
  `sender`, the two of the scrape manager, and a reload that has begun. Nothing is
  assumed of what a provider announces (it may stay silent for ever), of new reloads
  and of the shutdown.

`MCServices` repeats these with the part that a behaviour is about. The other
specifications have no liveness property and no fairness.

## Findings

| run | what the code does |
|---|---|
| `cl_chunk_stale` | A staleness marker is quantized like a number. `int64(NaN)` does not fit a Simple8b word, the encoder fails from there on and its error is ignored: later samples of the chunk cannot be read, and a chunk that begins with a marker cannot be iterated. The PromQL tests expect samples after a marker to be returned. |
| `ooo_chunk_read` | `CLIterator.Next` takes the result of the BitPacking decoder for its opposite, so an encoded out-of-order chunk ends before its first sample. |
| `ooo_head_race` | `NewOOOCompactionHead` visits series one at a time and keeps the largest reference. A series visited early may m-map a chunk before a later one is visited; the chunk is collected though no block has it. |
| `head_compaction_race` | An appender reads the bound of the head before a compaction starts and registers with the isolation only after the compaction's wait for overlapping appenders, which does not see it; what it then commits in the range of the block is in neither the block nor, after the truncation, the head. `DB.Compact` also takes `mint` before that wait, so an appender that commits below `mint` during the wait loses its sample in the same way. |
| `blocks_clean` | `CleanTombstones` flags the old block deletable in memory before the reload. If the reload fails, the new block is removed and the flag stays, and the next reload deletes the old block. |
| `blocks_restart` | A merged block loses the out-of-order hint of its parents. If it reaches into the range of the head, a restart takes its `MaxTime` for the time up to which the head is persisted and drops samples from the WAL. |
| `head_log_replay` | After a crash that finds two series records of one label set, the replay keeps the older reference. The next checkpoint takes the newer one for gone and drops its record, while samples under it are still in later segments: another crash loses them. |

`PROJECT.json` quotes the documentation, comment or test that each one contradicts.
Besides [what the passing runs leave out](#what-the-passing-runs-leave-out), modelling
showed:

* A `CLAppender` whose encoding fails leaves a chunk with more samples in its header
  than in its bytes, on which the iterator may end with an error instead of the end of
  the chunk; a compaction of such a block fails.
* The metadata of a chunk keeps the error bound in millionths and 28 bits: a bound below a
  millionth, or of 2^28 millionths and more, is not the one that the values are
  quantized with. `CLChunk` assumes that it is neither.
* A rule whose restore finds no querier keeps its alerts as if they had just begun, and is
  not restored later.
* `relabelAlerts` of the notifier writes to alerts that the sets of Alertmanagers
  share, so the relabelling of one set reaches the next. Labels are not modelled.
* SZ3 decodes a NaN as the value that it predicted; `SZFaithful` speaks of numbers
  only. A chunk shorter than the minimum is compressed together with what lies
  behind its buffer.
* The option `ErrorBound` of the database has no effect on in-order chunks: an
  appender uses `DefaultErrbound`.

## Proofs

All are proofs of safety for every value of the constants, from the assumptions
named in the modules (numbers are naturals, capacities and intervals positive,
`chunkRange` even, times that have a least and a greatest). A theorem that excludes
one of the [schedules above](#what-the-passing-runs-leave-out) says so in its
`ASSUME`; what it then leaves out is exactly what the first table there describes. A
property of the second table is proved as it is checked, with its history variable. The two that
are about `RaceFreeSpec` exclude the race of `ooo_head_race`.

| theorem | property | under |
|---|---|---|
| `CleanupIsSafe`, `WatermarkNeverMovesBack` | `WatermarkSafe` | |
| `RingImplementsQueue`, `IteratorVisitsInOrder` | `ImplementsQueue` | |
| `SeriesImplementsIsolation`, `NoReadIsDirty`, `WithheldForAReason`, `SamplesStayInOrder`, `ChunkIDsStayStable` | `NoDirtyRead`, `WithheldBehindHidden`, `SamplesInOrder`, `ChunkIDsStable` | |
| `WindowStaysOpen`, `CommitsSurvive`, `QueriesComplete` | `AppendWindowOpen`, `CommittedAheadStored`, `QueryComplete` of `HeadCompaction` | |
| `InsertedStaysStored`, `OOOQueriesComplete` | `InsertedStored`, `QueryComplete` of `OOOHead` | `RaceFreeSpec` |
| `OneSeriesSafe` | the same two | one series |
| `ReferencesStayGood` | `ReferencesGood` | `CdmRaces = {}` |
| `SamplesStayDurable`, `SamplesStayVisible`, `HeadIsPersisted` | `SamplesDurable`, `SamplesVisible`, `HeadLeavesToBlocks` | `SafeSchedules`: `"clean" \notin FailingReloads`, no `PartialDeletes`, no `OOOInHeadRange` |
| `DeletedStaysGone` | `DeletedGone` | `SafeSchedules`, and `FailingReloads = {}` or no retention |
| `QueriesKeepBlocks` | `HeldBlocksStay` | |
| `SamplesDeliveredInOrder`, `NoSampleIsLost` | `DeliveredInOrder`, `NoSampleLost` | `"flush" \notin RwRaces` |
| `ReceiverNeverMisled` | `ReceiverAgrees` | |
| `HoldIsRespected` | `HoldRespected` | `Unit <= Interval + 1` |
| `ScrapedStaysLive`, `StaleMarkedInTime` | `ScrapedIsLive`, `StaleInTime` | |
| `NoAlertLostSilently` | `AlertsAccounted` | |

* `HeadSeriesProofs` has three parts. Isolation: the invariant `IsoInv` is inductive
  (`IsoInvariance`). The watermark properties are not inductive by themselves:
  they rest on the order of the lists. `AppendListInv` says that open appends are
  linked in ID order and are the keys of the map, `ReadListInv` that older reads
  have lower watermarks, none above the oldest open append, `HiddenInv` that a read
  hides nothing below its own watermark, `CarriedInv` that a watermark an append
  carries is not above the current one. From these follow `CleanupIsSafe` and
  `WatermarkNeverMovesBack`. The series: `SeriesImplementsIsolation`: the head uses
  the isolation as it is specified, so `IsoInv` holds of it. `SeriesInv` adds that the
  chunks of a series cover its samples without a gap, in time order (`ChunkInv`), and
  that the ring has the append IDs of the newest samples, those it has forgotten being
  below the low watermark (`TxInv`). A read hides nothing below the watermark
  (`HiddenAboveWatermark`), so `stopAfter`, which looks for the first hidden ID in
  the ring alone, finds the first hidden sample (`StopPosition`); `NoReadIsDirty`
  and `WithheldForAReason` are the two directions of that. The ring:
  `RingTypeCorrect`, `RingImplementsQueue` (the mapping is `Contents`; one lemma each
  for adding with room, adding to a full ring, cleaning up) and
  `IteratorVisitsInOrder`. The arithmetic of positions modulo the capacity is in the
  lemmas `Wrap` and `Positions`.
* `HeadCompactionProofs`. `WindowStaysOpen`: samples of the last half of a
  `chunkRange` stay appendable. The invariant `WindowInv` adds that the end of the
  range of a compaction in progress is below the window, from the step that reads
  the bounds to the one that stores them. `CommitsSurvive`: committed samples that
  are not `behind` are stored at each step of any number of compactions. The
  invariant `CommitInv` says for each step of `DB.Compact` up to which time the
  samples of the head are covered by blocks (`CompactInv`), what garbage
  collection has left in the series that it visited (`LeftAbove`), and that an
  appender that is not late has its bound above the range being written (`AppInv`).
  `QueriesComplete`: `ReadInv` adds what a query knows of a truncation: either
  `truncateMemory` waits for it, or it saw the flag and reads the head above
  the truncation, with the block that has the rest (`QueryInv`).
* `OOOHeadProofs`. `MmapRace` is the step that `ooo_head_race` needs: a series m-maps
  a chunk after its turn in `NewOOOCompactionHead`, while others wait for theirs.
  `RaceFreeSpec` has all behaviours without such a step, for any number of series; with
  one series there is none (`OneSeriesNoRace`). So the race is the only way
  to lose a sample here. The invariant `OInv` looks at m-mapped chunks as a set
  (`Live`). References only grow (`RefInv`); the chunks that will be collected are in
  the postings and the range of the compaction, then in the blocks it wrote, then in
  `db.blocks` (`CompactInv`); chunks that new queries pass over are in blocks, and no
  query uses what is being collected (`CollectInv`); each sample a query began with is
  in its hands, or in a chunk that it has yet to read under an ID that stays valid
  (`ReadInv`). The order of the chunks is needed once, where `truncateChunksBefore`
  stops at the first chunk that it keeps (`RemovedIs`).
* `ChunkDiskMapperProofs`. `ReferencesStayGood`. All places that a chunk can be in
  (queue, buffer, files, head) agree about it, and nothing is known about positions
  from `evtlPos` on (`ToldInv`): that makes a new reference fresh. Positions
  form a chain from what is written through the writer and the queue to `evtlPos`
  (`ChainInv`), so `cutAndExpectRef` meets the number it expects; a chunk leaves a
  place only when it is in the next (`BufferInv`, `QueueInv`); the files being removed
  are the oldest ones and have nothing that the head needs, also when chunks are
  written meanwhile, since no file on disk is newer than `evtlPos` and what the
  truncation found in use is above what it removes (`OrderInv`); they are all files only
  if nothing is written or waiting (`FileInv`, `TruncInv`). Only then numbering
  starts anew, with nothing left that has a number.
* `BlocksStepProofs` (the invariant and most operations) and `BlocksProofs` (the
  other operations and the theorems). `SamplesDurable` and `SamplesVisible` are proved together, from the
  invariant `BInv`. It has what the code relies on without saying so. The head has the
  newest sample, and late samples are of ranges below it (`HeadInv`). Blocks in
  memory agree with their directories (`SameBlocks`). A block that reaches into the
  head has the samples of the head that it covers, so a restart may drop them
  (`HeadBlocks`). A block that replaces others has their samples, and is not replaced
  itself while they are on disk (`ParentInv`). A block that is flagged deletable is empty, or
  replaced by `CleanTombstones` (`FlagInv`). What an operation wrote is still where
  it was read from until the first old block is deleted, so an operation that fails
  may remove it (`NewRedundant`); and before anything is deleted or truncated, what
  remains has all that is to be kept (`Settled`). Each action has its lemma; the four that
  write blocks share `WriteStep`, the failures `AbandonStep`, the ends of reloads `DoneStep`.
  `HeadIsPersisted` comes from the same invariant (`blocks_restart` violates its property with `OOOInHeadRange`). `DeletedStaysGone` adds `DeletedInv`:
  a block that is on disk and not in memory is covered by one that is in memory and
  has no directory, for which `Delete` fails. `QueriesKeepBlocks` needs
  only `HeldInv`: no query has a block that the running operation wrote, because
  names are fresh and `db.mtx` keeps queries out until the deletions are
  over. That the plan names directories that exist (`PlanOnDisk`) rests on the sort by
  `MinTime`: in a finite set each block has its own number of predecessors (`OrderedIs`).
* `RemoteWriteProofs`. `RwInvariance`: batches are sorted, those of a shard come one
  after the other (`LocalInv`), a series is in its shard and behind what has
  been settled (`PlaceInv`), a batch that `FlushAndShutdown` put into the channel is
  there, in the request or ended before it is dropped (`Gone`), stopped shards
  are empty (`StopInv`), and `enqueued` is not below what is to be sent, nor
  `reported` below what is lost and may still be (`CountInv`).
* `ServicesProofs`, alerting rules. `ReceiverNeverMisled`: `RInv` says that every alert the
  receiver was told of and that was not dropped at the limit is still there and firing, and how long ago it was sent,
  depending on the evaluations that failed since; with `EndsAt` four intervals or
  resend delays ahead, two failures are covered. `HoldIsRespected`: `HInv` compares
  the time that an alert was really active with `activeAt` and with what is
  stored for a restart; the stored time is rounded to a second, and an interval of a
  second pays for it before the next restart can round again. In a group that is
  evaluated more often (`Unit > Interval + 1`) the roundings of several restarts add
  up, and `HoldRespected` fails: with `Unit` = 4, `Interval` = 1, `HoldDuration`
  = 12 and `MaxNow` = 26 TLC finds an alert that fires more than a second early.
* `ServicesProofs`, scraping and notifications. `ScrapedStaysLive`: the markers
  of loops that end carry times before the current interval, the storage takes
  no sample that is older than the last, and what the cache holds as already seen in this
  scrape is what a failed scrape read (`SInv`). `StaleMarkedInTime`: `GInv` names
  for each live series who will mark it: the loop that scraped it last, or a
  stopped loop that has it in its cache and has waited for at most two ticks
  (`Watched`). `NoAlertLostSilently`: `AlertsAccounted` is inductive with types and the
  fact that there is a batch only while it is being sent (`NInv`).

General facts about the order of numbers and about finite sets (`WellOrdered`,
`Counting`, `Extrema`) are hypotheses of the lemmas that use them. They are
proved near the end of their module from the theorems of the library, before the
theorems that drop the hypotheses: in the scope of those library modules the provers are
much slower. No theorem listed here rests on an unproved hypothesis.

Only model-checked: liveness, `ENABLED` and fairness (`CompactionEnds`,
`StopEnds`, `QueueDrains`, `PoolsFollow` and the merging of overlaps in `Blocks`), which
are out of reach of the prover; `BlocksWellPlaced`, which needs
the arithmetic of all ranges at once; `OOOChunk`, `HeadLog`, `LogWatcher`,
`Discovery` and `Exemplars`, for which no inductive invariant was worked out; the codecs, whose statements need induction over data.

## Not modelled

* Bit layouts: pages of the WAL and their repair, index files, the XOR, histogram
  and BitPacking streams. They are sequential and total on what they are given.
* Encodings that are not used by default other than Machete and SZ3 (Simplebits,
  Varint, PFor, MOST). Of SZ3, other dimensions and types, OpenMP, the algorithms
  that are not reached from `SZ_compress_args`, and zstd, a third-party library that is
  the larger part of `algorithm/`. Of the other compressors under
  `algorithm/Machete` (Chimp, Elf, Gorilla, LFZip), which only the benchmark there
  calls, everything.
* Histograms, exemplars and metadata in the head, the log and remote write: they
  follow the paths of floats.
* In `Blocks`: retention by size, corrupted and backfilled blocks, the delay of
  compactions, deletions in the head. In `HeadLog`: the unlocked
  `Compact` of the appenders of all series with which each worker of the replay ends
  (`head_wal.go:643-649`), a data race with the workers that still append. In `OOOHead`
  and `HeadLog`: the WBL, chunk snapshots, and the bounds `minOOOTime` and `maxOOOTime`. In `ChunkDiskMapper`:
  corrupted files and errors of `os.Remove`. In `Notifier`: the relabelling in
  `Send`, and what relabelling makes of labels. In `ScrapeLoop`: timestamps in the exposition, report samples and the
  forced flush of a large cache.
* Agent mode, a second storage with its own map of series and log.
* Postings, tombstone intervals, merging iterators, the fan-out storage: sequential
  functions on sorted lists, or calls of one storage after the other.
* Recording rules, remote read and the remote write receiver, PromQL, web,
  commands, configuration, formats, discovery mechanisms, generated code:
  sequential, or clients of external services.
