----------------------------- MODULE LogWatcher -----------------------------
(***************************************************************************)
(* The watcher that tails the write-ahead log for a remote-write queue     *)
(* (tsdb/wlog/watcher.go), with the maps of series that it keeps in the    *)
(* QueueManager (storage/remote/queue_manager.go), beside the head that    *)
(* writes, checkpoints and truncates the log (HeadLog).                    *)
(***************************************************************************)
EXTENDS HeadLog

VARIABLES
  wpc,        \* the progress of Watcher.Run
  wseg,       \* currentSegment
  handle,     \* what the segment that is open holds; it outlives the file
  offset,     \* the number of its records that were read
  tailFrom,   \* lastSegment
  readCkpt,   \* Watcher.lastCheckpoint
  wgc,        \* the runs of garbageCollectSeries: the segment watched, the checkpoint, if it was read
  segmentOf,  \* seriesSegmentIndexes
  known,      \* the references in seriesLabels and droppedSeries
  missed,     \* the series missed or forgotten because of a race, see overtaken, skipped and setBack
  unknown     \* the samples of others dropped because the series is not in known

watchVars == <<wpc, wseg, handle, offset, tailFrom, readCkpt, wgc, segmentOf, known, missed, unknown>>

WatchInit ==
  /\ wpc = "off" /\ wseg = 0 /\ handle = <<>> /\ offset = 0 /\ tailFrom = 0
  /\ readCkpt = NoCheckpoint /\ wgc = {}
  /\ segmentOf = [r \in {} |-> 0] /\ known = {} /\ missed = {} /\ unknown = {}
-----------------------------------------------------------------------------
\* The references of the series records in a sequence of records.
SeriesOf(recs) ==
  {recs[i].series[j][1] : <<i, j>> \in {p \in (DOMAIN recs) \X (1..MaxRef) : recs[p[1]].type = "series"
                                                                             /\ p[2] \in DOMAIN recs[p[1]].series}}

\* The samples in a sequence of records.
SamplesOf(recs) == UNION {Range(recs[i].samples) : i \in {j \in DOMAIN recs : recs[j].type = "samples"}}

\* UpdateSeriesSegment
UpdateSeriesSegment(refs, index) ==
  segmentOf' = [r \in DOMAIN segmentOf \union refs |-> IF r \in refs THEN index ELSE segmentOf[r]]

\* StoreSeries
StoreSeries(refs, index) ==
  /\ UpdateSeriesSegment(refs, index)
  /\ known' = known \union refs
  /\ missed' = missed \ refs

\* Run: the last segment ...
Run ==
  /\ wpc = "off"
  /\ tailFrom' = LastSegment
  /\ wpc' = "segments"
  /\ UNCHANGED <<wseg, handle, offset, readCkpt, wgc, segmentOf, known, missed, unknown>>

\* The series with samples in segments that are tailed although the checkpoint
\* found covers them, and may leave out their series.
overtaken ==
  {s[1] : s \in UNION {SamplesOf(wal[i]) : i \in {j \in DOMAIN wal : tailFrom <= j /\ j <= LastCheckpoint}}}

\* ... then the newest checkpoint ...
findCheckpoint ==
  /\ wpc = "segments"
  /\ readCkpt' = LastCheckpoint
  /\ missed' = missed \union overtaken
  /\ wpc' = IF LastCheckpoint = NoCheckpoint THEN "find" ELSE "checkpoint"
  /\ UNCHANGED <<wseg, handle, offset, tailFrom, wgc, segmentOf, known, unknown>>

\* ... which is read.  Run fails, and is retried, when it has been deleted.
readFirstCheckpoint ==
  /\ wpc = "checkpoint"
  /\ IF readCkpt \in DOMAIN checkpoints
     THEN StoreSeries(SeriesOf(checkpoints[readCkpt]), readCkpt) /\ wpc' = "find"
     ELSE wpc' = "off" /\ UNCHANGED <<segmentOf, known, missed>>
  /\ UNCHANGED <<wseg, handle, offset, tailFrom, readCkpt, wgc, unknown>>

\* Mutant: the segments before the last one are not read.
findSegmentLast ==
  /\ wpc = "find"
  /\ wseg' = LastSegment
  /\ wpc' = "open"
  /\ UNCHANGED <<handle, offset, tailFrom, readCkpt, wgc, segmentOf, known, missed, unknown>>

\* findSegmentForIndex
findSegmentForIndex ==
  /\ wpc = "find"
  /\ wseg' = Min({i \in DOMAIN wal : i >= readCkpt})
  /\ wpc' = "open"
  /\ UNCHANGED <<handle, offset, tailFrom, readCkpt, wgc, segmentOf, known, missed, unknown>>

\* watch: the segment is opened.  When it is gone Run fails and is retried.
OpenReadSegment ==
  /\ wpc = "open"
  /\ offset' = 0
  /\ IF wseg \in DOMAIN wal THEN wpc' = "watch" /\ handle' = wal[wseg]
     ELSE wpc' = "off" /\ handle' = <<>>
  /\ UNCHANGED <<wseg, tailFrom, readCkpt, wgc, segmentOf, known, missed, unknown>>

\* A series whose record the watcher missed or forgot in a race of its own, or
\* that the head collected although an appender goes on to log samples of it,
\* or logged together with another appender (HeadLog).
Excused(ref) == ref \in missed \/ series[ref].stray \/ series[ref].lset \in contended

\* readSegment: one record.  Samples only matter in a segment that is tailed;
\* QueueManager.Append drops those of an unknown series.
readSegment ==
  /\ wpc = "watch" /\ offset < Len(handle)
  /\ offset' = offset + 1
  /\ LET rec == handle[offset + 1]
     IN  IF rec.type = "series"
         THEN StoreSeries(SeriesOf(<<rec>>), wseg) /\ UNCHANGED unknown
         ELSE /\ unknown' = IF wseg < tailFrom THEN unknown
                            ELSE unknown \union {s \in Range(rec.samples) : ~Excused(s[1]) /\ s[1] \notin known}
              /\ UNCHANGED <<segmentOf, known, missed>>
  /\ UNCHANGED <<wpc, wseg, handle, tailFrom, readCkpt, wgc>>

\* There is a newer segment and this one was read to its end.
nextSegment ==
  /\ wpc = "watch" /\ offset = Len(handle)
  /\ wseg < LastSegment
  /\ wseg' = wseg + 1
  /\ wpc' = "open"
  /\ UNCHANGED <<handle, offset, tailFrom, readCkpt, wgc, segmentOf, known, missed, unknown>>

\* garbageCollectSeries, up to the reading of the checkpoint.  Only one runs for
\* a segment (gcSem); it may still run when the next segment is watched.
garbageCollectSeries ==
  /\ wpc = "watch" /\ wseg >= tailFrom
  /\ \A g \in wgc : g.segment # wseg
  /\ LastCheckpoint \notin {NoCheckpoint, readCkpt}
  /\ readCkpt' = LastCheckpoint
  /\ wgc' = IF LastCheckpoint >= wseg THEN wgc
            ELSE wgc \union {[segment |-> wseg, index |-> LastCheckpoint, read |-> FALSE]}
  /\ UNCHANGED <<wpc, wseg, handle, offset, tailFrom, segmentOf, known, missed, unknown>>

\* The series that an earlier run of garbageCollectSeries, which reads an older
\* checkpoint later, puts back before the index a later run is to reset to.
setBack(g) == {r \in SeriesOf(checkpoints[g.index]) \intersect DOMAIN segmentOf : segmentOf[r] > g.index}

\* readCheckpoint with readSegmentForGC.  It fails when the head has deleted the
\* checkpoint meanwhile, and the series are not reset then.
readCheckpoint(g) ==
  /\ ~g.read
  /\ IF g.index \in DOMAIN checkpoints
     THEN /\ UpdateSeriesSegment(SeriesOf(checkpoints[g.index]), g.index)
          /\ missed' = (missed \ (SeriesOf(checkpoints[g.index]) \intersect known)) \union setBack(g)
          /\ wgc' = (wgc \ {g}) \union {[g EXCEPT !.read = TRUE]}
     ELSE wgc' = wgc \ {g} /\ UNCHANGED <<segmentOf, missed>>
  /\ UNCHANGED <<wpc, wseg, handle, offset, tailFrom, readCkpt, known, unknown>>

\* SeriesReset
SeriesReset(g) ==
  /\ g.read
  /\ wgc' = wgc \ {g}
  /\ segmentOf' = [r \in {q \in DOMAIN segmentOf : segmentOf[q] >= g.index} |-> segmentOf[r]]
  /\ known' = known \ {r \in DOMAIN segmentOf : segmentOf[r] < g.index}
  /\ UNCHANGED <<wpc, wseg, handle, offset, tailFrom, readCkpt, missed, unknown>>

watch ==
  \/ Run \/ findCheckpoint \/ readFirstCheckpoint \/ findSegmentForIndex \/ OpenReadSegment \/ readSegment \/ nextSegment \/ garbageCollectSeries
  \/ \E g \in wgc : readCheckpoint(g) \/ SeriesReset(g)

\* The series of segments that are removed, after a newer checkpoint, between
\* the moments at which a watcher that starts looks for its checkpoint and for
\* its first segment.
skipped ==
  IF wpc \in {"checkpoint", "find"}
  THEN UNION {SeriesOf(wal[i]) : i \in {j \in DOMAIN wal \ DOMAIN wal' : j > readCkpt}} \ known ELSE {}

\* The head takes a step.  The open segment may grow; after a crash the
\* watcher starts anew.
headStep ==
  /\ LogNext
  /\ IF crashes' > crashes
     THEN /\ wpc' = "off" /\ wseg' = 0 /\ handle' = <<>> /\ offset' = 0 /\ tailFrom' = 0
          /\ readCkpt' = NoCheckpoint /\ wgc' = {} /\ segmentOf' = [r \in {} |-> 0] /\ known' = {} /\ missed' = {}
          /\ UNCHANGED unknown
     ELSE /\ handle' = IF wpc = "watch" /\ wseg \in DOMAIN wal' THEN wal'[wseg] ELSE handle
          /\ missed' = missed \union skipped
          /\ UNCHANGED <<wpc, wseg, offset, tailFrom, readCkpt, wgc, segmentOf, known, unknown>>

WatchedInit == LogInit /\ WatchInit
WatchedNext == headStep \/ (watch /\ UNCHANGED logVars)
WatchedSpec == WatchedInit /\ [][WatchedNext]_<<logVars, watchVars>>
-----------------------------------------------------------------------------
\* No sample that the watcher tails is dropped for an unknown series: neither
\* the head's checkpoints, which leave out records of collected series, nor
\* the watcher's own SeriesReset take away a series whose samples are still
\* to be read ("series that was not explicitly dropped via relabelling").
\* Three races of the watcher are left out, by series: as it starts, those in
\* segments that a checkpoint covers since it read the last segment, and those
\* whose segments go between checkpoint and first segment; later, those that
\* one garbageCollectSeries puts back to an older checkpoint while another
\* waits to reset.  So is what the head itself logs out of order.
TailedSeriesKnown == unknown = {}
=============================================================================
