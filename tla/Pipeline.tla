------------------------------- MODULE Pipeline ------------------------------
(***************************************************************************)
(* bench/e2e_bench_lib.h, run_e2e: the producer, the engine and the logger *)
(* threads over the two rings, and the main thread that joins them in      *)
(* turn.  A record is the number of the event it carries.                  *)
(*                                                                         *)
(* policy says what the thread that logs does about a full ring: run_e2e's *)
(* sink calls log() and drops, the producers of tests/async_logger_test.cc *)
(* call try_log() until it takes the record.                               *)
(*                                                                         *)
(* Left out: pinning and calibration.  ReplayTool reads the file and the   *)
(* options, LatencyRecorder makes the report.                              *)
(***************************************************************************)
EXTENDS EngineLoop, AsyncLogger

VARIABLES policy,          \* "drop" or "retry"
          main,            \* what main waits for, "done" at the end
          emitted          \* events the engine has emitted

vars == <<loopVars, logVars, policy, main, emitted>>

Init ==
    /\ LoopInit
    /\ LogInit
    /\ policy \in {"drop", "retry"}
    /\ main = "join_producer"
    /\ emitted = 0

(* The sink: every event is logged, or dropped where the ring looks full    *)
(* and the policy is to drop; ...                                           *)
Sink ==
    /\ Emit
    /\ emitted' = emitted + 1
    /\ \/ Logged(emitted + 1)
       \/ policy = "drop" /\ Dropped
    /\ UNCHANGED <<policy, main>>

(* ... where the policy is to retry, the caller is held up in the event.    *)
SinkRetries ==
    /\ policy = "retry" /\ under_way /\ to_emit > 0
    /\ Refused
    /\ UNCHANGED <<loopVars, policy, main, emitted>>

JoinProducer ==
    /\ main = "join_producer" /\ producer = "exited"
    /\ main' = "join_engine"
    /\ UNCHANGED <<loopVars, logVars, policy, emitted>>

JoinEngine ==
    /\ main = "join_engine" /\ engine = "exited"
    /\ main' = "stop_logger"
    /\ UNCHANGED <<loopVars, logVars, policy, emitted>>

(* logger.stop() raises the flag and waits for the thread.                  *)
CallStop ==
    /\ main = "stop_logger"
    /\ StopLogger
    /\ main' = "join_logger"
    /\ UNCHANGED <<loopVars, policy, emitted>>

JoinLogger ==
    /\ main = "join_logger" /\ logger = "exited"
    /\ main' = "done"
    /\ UNCHANGED <<loopVars, logVars, policy, emitted>>

Main == JoinProducer \/ JoinEngine \/ CallStop \/ JoinLogger

Engine ==
    \/ EngineStep /\ UNCHANGED <<logVars, policy, main, emitted>>
    \/ Sink
    \/ SinkRetries

Feed == Producer /\ UNCHANGED <<logVars, policy, main, emitted>>

Logger == LoggerStep /\ UNCHANGED <<loopVars, policy, main, emitted>>

Next == Feed \/ Engine \/ Logger \/ Main

(* Every thread runs.  A thread that polls sees a store in finite time:     *)
(* free places, items and the two flags are polled until they are seen.     *)
Alone(action) == action /\ UNCHANGED <<logVars, policy, main, emitted>>

Fairness ==
    /\ WF_vars(Feed) /\ WF_vars(Engine) /\ WF_vars(Logger) /\ WF_vars(Main)
    /\ SF_vars(Alone(PushCommand)) /\ SF_vars(Alone(PopCommands))
    /\ SF_vars(Sink /\ Logged(emitted + 1))
    /\ SF_vars(Alone(ReadStop /\ stopping'))
    /\ SF_vars(WriteBatch /\ UNCHANGED <<loopVars, policy, main, emitted>>)
    /\ SF_vars(ReadLogStop /\ log_stopping' /\ UNCHANGED <<loopVars, policy, main, emitted>>)

Spec == Init /\ [][Next]_vars /\ Fairness

-----------------------------------------------------------------------------
Rings == [capacity : Nat, items : Seq(Nat), hidden : Nat, unseen : Nat]

(* The variables have their types.                                          *)
TypeOK ==
    /\ cmd_ring \in Rings /\ log_ring \in Rings
    /\ sent \in 0 .. Commands /\ processed \in 0 .. Commands /\ measured \in 0 .. Commands
    /\ producer \in {"pushing", "exited"}
    /\ engine \in {"pop", "process", "check", "exited"}
    /\ logger \in {"pop", "check", "exited"}
    /\ main \in {"join_producer", "join_engine", "stop_logger", "join_logger", "done"}
    /\ policy \in {"drop", "retry"}
    /\ {stop, log_stop, stopping, log_stopping, dirty, under_way, stream_good} \subseteq BOOLEAN
    /\ batch \in Seq(Nat) /\ written \in Seq(Nat)
    /\ Len(cmd_ring.items) <= CmdCapacity /\ Len(log_ring.items) <= LogCapacity
    /\ to_emit \in 0 .. MaxEvents
    /\ {dropped, records_written, flushed, emitted} \subseteq Nat

InOrder(seq) == \A j, k \in 1 .. Len(seq) : j < k => seq[j] < seq[k]

(* Every event is written, on its way or counted as dropped; retrying drops *)
(* none ("dropped always means a record was actually lost").  The stream    *)
(* keeps the order of events: a drop or a failure leaves a gap and nothing  *)
(* else, and without a failure the stream holds what was counted.           *)
RecordsAreAccounted ==
    /\ InOrder(written \o log_ring.items)
    /\ records_written + Len(log_ring.items) + dropped = emitted
    /\ policy = "retry" => dropped = 0
    /\ stream_good => Len(written) = records_written

(* stop() comes back with every accepted record written and flushed         *)
(* (async_logger.h:130-135): nothing is left behind at the end, unless the  *)
(* stream has failed.                                                       *)
EverythingIsOut ==
    main = "done" => /\ log_ring.items = <<>>
                     /\ records_written + dropped = emitted
                     /\ stream_good => flushed = emitted - dropped

(* run_e2e comes back: the three threads end and are joined, under either   *)
(* policy and whatever becomes of the stream.                               *)
PipelineEnds == <>(main = "done")
=============================================================================
