----------------------------- MODULE AsyncLogger -----------------------------
(***************************************************************************)
(* include/lob/async_logger.h: log(), try_log() and stop() for the thread  *)
(* that owns the logger, and the consumer thread that writes what it pops  *)
(* and flushes when idle and when stopped.  The ring is a BoundedFifo, the *)
(* stream the sequence written to it and the length flushed out of it.     *)
(* The stream may fail (a full disk): from then on it takes nothing, and   *)
(* the thread, which never asks, goes on writing and counting.             *)
(***************************************************************************)
EXTENDS BoundedFifo

CONSTANTS LogCapacity,     \* kDefaultLogRingCapacity
          LogBatch         \* kLoggerBatchSize

ASSUME LoggerAssumption == LogCapacity \in Nat \ {0} /\ LogBatch \in Nat \ {0}

VARIABLES log_ring,
          dropped,         \* records_dropped_
          log_stop,        \* stop_
          logger,          \* the thread: "pop", "check" or "exited"
          log_stopping,    \* its local
          dirty,           \* its local
          records_written, \* records_written_
          stream_good,     \* the stream's state
          written,         \* records in the stream
          flushed          \* how many of them a flush has covered

streamVars == <<stream_good, written, flushed>>
loggerVars == <<logger, log_stopping, dirty, records_written, streamVars>>
logVars == <<log_ring, dropped, log_stop, loggerVars>>

LogInit ==
    /\ log_ring = NewRing(LogCapacity)
    /\ dropped = 0 /\ log_stop = FALSE
    /\ logger = "pop" /\ log_stopping = FALSE
    /\ dirty = FALSE /\ records_written = 0
    /\ stream_good = TRUE /\ written = <<>> /\ flushed = 0

-----------------------------------------------------------------------------
(* log() and try_log() where the ring takes the record; ...                 *)
Logged(record) ==
    /\ log_ring' \in Pushes(log_ring, record)
    /\ UNCHANGED <<dropped, log_stop, loggerVars>>

(* A plausible bug: a record that finds the ring full is not counted.       *)
DroppedUncounted ==
    /\ log_ring' \in FullPushes(log_ring)
    /\ UNCHANGED <<dropped, log_stop, loggerVars>>

(* ... log() where it is full: count and drop, never retry; ...             *)
Dropped ==
    /\ log_ring' \in FullPushes(log_ring)
    /\ dropped' = dropped + 1
    /\ UNCHANGED <<log_stop, loggerVars>>

(* ... and try_log() where it is full: the caller is told, nothing counted. *)
Refused ==
    /\ log_ring' \in FullPushes(log_ring)
    /\ UNCHANGED <<dropped, log_stop, loggerVars>>

(* The flag stop() raises before it joins the thread.  A second call, the   *)
(* destructor's, finds no thread to join and does nothing.                  *)
StopLogger ==
    /\ log_stop' = TRUE
    /\ UNCHANGED <<log_ring, dropped, loggerVars>>

-----------------------------------------------------------------------------
(* write() of a batch: all of it, or the part a failing stream still takes. *)
StreamTakes(records) ==
    \/ stream_good /\ written' = written \o records /\ UNCHANGED stream_good
    \/ /\ stream_good' = FALSE
       /\ \E n \in 0 .. Len(records) - 1 :
             written' = IF stream_good THEN written \o SubSeq(records, 1, n) ELSE written

(* flush(): a stream that has failed, or fails now, covers nothing more.    *)
Flush ==
    /\ \/ stream_good /\ flushed' = Len(written) /\ UNCHANGED stream_good
       \/ stream_good' = FALSE /\ UNCHANGED flushed
    /\ UNCHANGED written

WriteBatch ==
    /\ logger = "pop"
    /\ \E pop \in Pops(log_ring, LogBatch) :
          /\ log_ring' = pop.ring
          /\ records_written' = records_written + Len(pop.got)
          /\ StreamTakes(pop.got)
    /\ dirty' = TRUE
    /\ UNCHANGED <<dropped, log_stop, logger, log_stopping, flushed>>

(* A plausible bug: the last flush is left to an idle moment.               *)
PopNothingUnflushed ==
    /\ logger = "pop"
    /\ log_ring' \in EmptyPops(log_ring)
    /\ logger' = IF log_stopping THEN "exited" ELSE "check"
    /\ IF dirty /\ ~log_stopping THEN Flush ELSE UNCHANGED streamVars
    /\ dirty' = (dirty /\ log_stopping)
    /\ UNCHANGED <<dropped, log_stop, log_stopping, records_written>>

(* An empty pop: flush and exit if stop was seen before it, else flush what *)
(* was written since the last flush.                                        *)
PopNothing ==
    /\ logger = "pop"
    /\ log_ring' \in EmptyPops(log_ring)
    /\ logger' = IF log_stopping THEN "exited" ELSE "check"
    /\ IF log_stopping \/ dirty THEN Flush ELSE UNCHANGED streamVars
    /\ dirty' = (dirty /\ log_stopping)
    /\ UNCHANGED <<dropped, log_stop, log_stopping, records_written>>

(* A plausible bug: the thread exits as soon as the flag is seen.           *)
ReadLogStopAndExit ==
    /\ logger = "check"
    /\ log_stopping' \in {FALSE, log_stop}
    /\ logger' = IF log_stopping' THEN "exited" ELSE "pop"
    /\ UNCHANGED <<log_ring, dropped, log_stop, dirty, records_written, streamVars>>

ReadLogStop ==
    /\ logger = "check"
    /\ log_stopping' \in {FALSE, log_stop}
    /\ log_ring' = IF log_stopping' THEN Synchronized(log_ring) ELSE log_ring
    /\ logger' = "pop"
    /\ UNCHANGED <<dropped, log_stop, dirty, records_written, streamVars>>

LoggerStep == WriteBatch \/ PopNothing \/ ReadLogStop

-----------------------------------------------------------------------------
(* A thread that sleeps or has exited has flushed all it has written, to a  *)
(* stream that has not failed.                                              *)
IdleMeansFlushed == logger # "pop" /\ stream_good => flushed = Len(written)
=============================================================================
