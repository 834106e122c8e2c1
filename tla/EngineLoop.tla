------------------------------ MODULE EngineLoop -----------------------------
(***************************************************************************)
(* The command side of the pipeline: a producer thread that pushes its     *)
(* commands and then raises the stop flag, and the engine thread's loop,   *)
(* MatchingEngine::run, which run_e2e inlines around a warm-up boundary.   *)
(* The ring is a BoundedFifo.                                              *)
(*                                                                         *)
(* A command is its number.  Processing it calls the sink a number of      *)
(* times that depends on the book (OrderBook models that): here any number *)
(* from 1 to MaxEvents.  The action that calls the sink, Emit, is completed*)
(* by whoever owns the sink.                                               *)
(***************************************************************************)
EXTENDS BoundedFifo

CONSTANTS Commands,        \* commands the producer submits
          CmdCapacity,     \* kCmdRingCapacity
          EngineBatch,     \* kEngineBatchSize
          MaxEvents,       \* bound on the events of one command
          Warmup           \* commands before the measured window

ASSUME EngineAssumption ==
    /\ Commands \in Nat \ {0} /\ CmdCapacity \in Nat \ {0}
    /\ EngineBatch \in Nat \ {0} /\ MaxEvents \in Nat \ {0}
    /\ Warmup \in Nat /\ Warmup < Commands

VARIABLES cmd_ring,
          sent,            \* commands pushed so far
          producer,        \* "pushing", or "exited" once stop is set
          stop,
          engine,          \* "pop", "process", "check" or "exited"
          batch,           \* popped commands not yet processed
          to_emit,         \* events the command under way has yet to emit
          under_way,       \* a command is being processed
          stopping,        \* run's local
          processed,
          measured         \* commands recorded since the warm-up boundary

producerVars == <<sent, producer, stop>>
engineVars == <<engine, batch, to_emit, under_way, stopping, processed, measured>>
loopVars == <<cmd_ring, producerVars, engineVars>>

LoopInit ==
    /\ cmd_ring = NewRing(CmdCapacity)
    /\ sent = 0 /\ producer = "pushing" /\ stop = FALSE
    /\ engine = "pop" /\ batch = <<>>
    /\ to_emit = 0 /\ under_way = FALSE
    /\ stopping = FALSE /\ processed = 0 /\ measured = 0

-----------------------------------------------------------------------------
(* The producer retries a full ring for as long as it takes.                *)
PushCommand ==
    /\ producer = "pushing" /\ sent < Commands
    /\ cmd_ring' \in Pushes(cmd_ring, sent + 1)
    /\ sent' = sent + 1
    /\ UNCHANGED <<producer, stop, engineVars>>

RetryCommand ==
    /\ producer = "pushing" /\ sent < Commands
    /\ cmd_ring' \in FullPushes(cmd_ring)
    /\ UNCHANGED <<producerVars, engineVars>>

(* A plausible bug: the producer leaves without raising the flag.           *)
LeaveWithoutStop ==
    /\ producer = "pushing" /\ sent = Commands
    /\ producer' = "exited"
    /\ UNCHANGED <<cmd_ring, sent, stop, engineVars>>

SetStop ==
    /\ producer = "pushing" /\ sent = Commands
    /\ stop' = TRUE
    /\ producer' = "exited"
    /\ UNCHANGED <<cmd_ring, sent, engineVars>>

-----------------------------------------------------------------------------
PopCommands ==
    /\ engine = "pop"
    /\ \E pop \in Pops(cmd_ring, EngineBatch) :
          batch' = pop.got /\ cmd_ring' = pop.ring
    /\ engine' = "process"
    /\ UNCHANGED <<producerVars, to_emit, under_way, stopping, processed, measured>>

(* A plausible bug: the loop ends as soon as the flag is seen.              *)
ReadStopAndBreak ==
    /\ engine = "check"
    /\ stopping' \in {FALSE, stop}
    /\ engine' = IF stopping' THEN "exited" ELSE "pop"
    /\ UNCHANGED <<cmd_ring, producerVars, batch, to_emit, under_way, processed, measured>>

(* An empty pop ends the loop once stop has been observed before it.        *)
PopNoCommand ==
    /\ engine = "pop"
    /\ cmd_ring' \in EmptyPops(cmd_ring)
    /\ engine' = IF stopping THEN "exited" ELSE "check"
    /\ UNCHANGED <<producerVars, batch, to_emit, under_way, stopping, processed, measured>>

(* The acquire load of stop, which may still return FALSE after the store.  *)
ReadStop ==
    /\ engine = "check"
    /\ stopping' \in {FALSE, stop}
    /\ cmd_ring' = IF stopping' THEN Synchronized(cmd_ring) ELSE cmd_ring
    /\ engine' = "pop"
    /\ UNCHANGED <<producerVars, batch, to_emit, under_way, processed, measured>>

(* A plausible bug: the boundary comes one command late.                    *)
BeginCommandLate ==
    /\ engine = "process" /\ ~under_way
    /\ under_way' = TRUE
    /\ to_emit' \in 1 .. MaxEvents
    /\ measured' = IF processed = Warmup + 1 THEN 0 ELSE measured
    /\ UNCHANGED <<cmd_ring, producerVars, engine, batch, stopping, processed>>

(* The next command of the batch; the boundary resets what was recorded.    *)
BeginCommand ==
    /\ engine = "process" /\ ~under_way
    /\ under_way' = TRUE
    /\ to_emit' \in 1 .. MaxEvents
    /\ measured' = IF processed = Warmup THEN 0 ELSE measured
    /\ UNCHANGED <<cmd_ring, producerVars, engine, batch, stopping, processed>>

(* One call of the sink.                                                    *)
Emit ==
    /\ under_way /\ to_emit > 0
    /\ to_emit' = to_emit - 1
    /\ UNCHANGED <<cmd_ring, producerVars, engine, batch, under_way, stopping, processed, measured>>

EndCommand ==
    /\ under_way /\ to_emit = 0
    /\ under_way' = FALSE
    /\ processed' = processed + 1
    /\ measured' = measured + 1
    /\ batch' = Tail(batch)
    /\ engine' = IF Tail(batch) = <<>> THEN "pop" ELSE "process"
    /\ UNCHANGED <<cmd_ring, producerVars, to_emit, stopping>>

Producer == PushCommand \/ RetryCommand \/ SetStop

EngineStep == PopCommands \/ PopNoCommand \/ ReadStop \/ BeginCommand \/ EndCommand

-----------------------------------------------------------------------------
(* What is in the engine's hands and in the ring follows what was processed,*)
(* up to what was sent: no command is lost, repeated or reordered, ...      *)
CommandsInOrder ==
    batch \o cmd_ring.items = [k \in 1 .. sent - processed |-> processed + k]

(* ... and none is left when the engine leaves ("no command is lost",       *)
(* matching_engine.h:79-81; "the pipeline must drain every command").       *)
EngineDrainsAll == engine = "exited" => processed = Commands /\ producer = "exited"

NoCommandIsLost == CommandsInOrder /\ EngineDrainsAll

(* The window reported is the commands after the warm-up, all of them.      *)
WindowIsExact ==
    /\ engine = "exited" => measured = Commands - Warmup
    /\ processed > Warmup => measured = processed - Warmup
=============================================================================
