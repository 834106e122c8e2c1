------------------------------ MODULE ReplayTool -----------------------------
(***************************************************************************)
(* tools/lob_replay_lib.h and the front of bench/e2e_bench_lib.h: lob_replay*)
(* generate, which writes a replay file, and the two programs that load    *)
(* one, lob_replay run and lob_e2e_bench.  They are processes of their own *)
(* that share nothing but the file: any of them may be started while the   *)
(* other is half done, a writer may fail or be killed at any byte, and     *)
(* between the programs the file may be damaged.                           *)
(*                                                                         *)
(* Arguments are a sequence of flags with their values, -1 where parse_u64 *)
(* refuses the value or none follows.  A generated command is its config   *)
(* and its place in the stream (WorkloadGenerator says what it holds).     *)
(* History: file_origin and sealed say what the file should hold and       *)
(* whether it was reported written and has been left alone since;          *)
(* reader_view is that of the file the reader opened.                      *)
(***************************************************************************)
EXTENDS ReplayFormat, FiniteSetsExt

CONSTANTS Width64, Width32,       \* bits of the parsed values and of what holds band and pool
          kMaxBandRadius, kMaxPoolCapacity,
          MaxReserve,             \* the longest vector that can be reserved
          GenerateArgs, RunArgs, E2eArgs,   \* the argument lists tried
          MaxChanges              \* bound on the runs of generate and the damages

ASSUME ToolAssumption ==
    /\ {Width64, Width32, kMaxBandRadius, kMaxPoolCapacity, MaxReserve} \subseteq Nat \ {0}
    /\ kMaxBandRadius < 2^Width32 /\ kMaxPoolCapacity < 2^Width32
    /\ MaxChanges \in Nat

ASSUME ArgsAssumption ==
    GenerateArgs \union RunArgs \union E2eArgs \subseteq Seq([flag : STRING, value : Int])

VARIABLES generator,       \* [pc, config, commands], idle when none runs
          changes,         \* runs of generate and damages so far
          program,         \* [name, warmup, exit] of the one that reads
          file_origin, sealed, reader_view

history == <<file_origin, sealed, reader_view>>
toolVars == <<file, reader, generator, changes, program, history>>

-----------------------------------------------------------------------------
NotGiven == -2

(* The last value given for a flag, and its default.                        *)
ValueOf(args, flag, default) ==
    LET at == {i \in DOMAIN args : args[i].flag = flag}
    IN  IF at = {} THEN default ELSE args[Max(at)].value

(* parse_u64 has taken each value, and each flag is known.                  *)
GenerateFlags == {"--ops", "--seed", "--anchor", "--band", "--pool"}

ParsesGenerate(args) ==
    /\ \A i \in DOMAIN args : args[i].flag \in GenerateFlags \union {"--out"} /\ args[i].value >= 0
    /\ \E i \in DOMAIN args : args[i].flag = "--out"

(* static_cast<PriceTicks> and static_cast<std::uint32_t>.                  *)
Signed(value) == IF value >= 2^(Width64 - 1) THEN value - 2^Width64 ELSE value

Narrowed(value) == value % 2^Width32

ConfigOf(args) ==
    [seed          |-> ValueOf(args, "--seed", 1),
     anchor_price  |-> Signed(ValueOf(args, "--anchor", 3)),
     band_radius   |-> Narrowed(ValueOf(args, "--band", 1)),
     pool_capacity |-> Narrowed(ValueOf(args, "--pool", 2))]

OpsOf(args) == ValueOf(args, "--ops", 2)

validate_engine_config(config) ==
    /\ config.anchor_price > 0
    /\ config.band_radius \in 1 .. kMaxBandRadius
    /\ config.pool_capacity \in 1 .. kMaxPoolCapacity

(* A plausible bug: the anchor is checked before it becomes signed.         *)
AcceptsUnsignedAnchor(args) ==
    /\ ParsesGenerate(args)
    /\ validate_engine_config([ConfigOf(args) EXCEPT !.anchor_price = ValueOf(args, "--anchor", 3)])

AcceptsGenerate(args) == ParsesGenerate(args) /\ validate_engine_config(ConfigOf(args))

Generated(config, ops) == [k \in 1 .. ops |-> <<config, k>>]

ASSUME CorruptAssumption ==
    \A args \in GenerateArgs : \A k \in 1 .. OpsOf(args) :
        Generated(ConfigOf(args), OpsOf(args))[k] # Corrupt

-----------------------------------------------------------------------------
Idle == [pc |-> "idle", config |-> NoConfig, commands |-> <<>>]

ToolInit ==
    /\ file = NoFile /\ reader = NoReader
    /\ generator = Idle /\ changes = 0
    /\ program = [name |-> "none", warmup |-> NotGiven, exit |-> "none"]
    /\ file_origin = Idle /\ sealed = FALSE
    /\ reader_view = [intact |-> FALSE, sealed |-> FALSE, origin |-> Idle]

(* A bound: nothing is started and nothing damaged once what reads the file *)
(* has ended.                                                               *)
Watched == program.exit = "none"

StartsGenerate ==
    /\ Watched
    /\ generator = Idle /\ changes < MaxChanges
    /\ changes' = changes + 1

(* A usage error: the file is not touched.                                  *)
RejectArguments(args) ==
    /\ StartsGenerate
    /\ ~AcceptsGenerate(args)
    /\ UNCHANGED <<file, reader, generator, program, history>>

(* reserve throws, and nothing catches it.                                  *)
ReserveThrows(args) ==
    /\ StartsGenerate
    /\ AcceptsGenerate(args) /\ OpsOf(args) > MaxReserve
    /\ UNCHANGED <<file, reader, generator, program, history>>

GenerateStream(args) ==
    /\ StartsGenerate
    /\ AcceptsGenerate(args) /\ OpsOf(args) <= MaxReserve
    /\ generator' = [pc |-> "open", config |-> ConfigOf(args),
                     commands |-> Generated(ConfigOf(args), OpsOf(args))]
    /\ UNCHANGED <<file, reader, program, history>>

(* Whoever reads while the file changes under it reads no one file.         *)
Disturbed(view) == [view EXCEPT !.intact = FALSE, !.sealed = FALSE]

(* The stream's open truncates what was there.                              *)
OpenForWriting ==
    /\ generator.pc = "open"
    /\ file' = NewFile(generator.config, generator.commands)
    /\ file_origin' = generator
    /\ sealed' = FALSE
    /\ reader_view' = Disturbed(reader_view)
    /\ generator' = [generator EXCEPT !.pc = "write"]
    /\ UNCHANGED <<reader, changes, program>>

CannotOpen ==
    /\ generator.pc = "open"
    /\ generator' = Idle
    /\ UNCHANGED <<file, reader, changes, program, history>>

Write ==
    /\ generator.pc = "write"
    /\ WriteMore
    /\ UNCHANGED <<reader, generator, changes, program, history>>

(* A failing write, or a killed process, leaves what has been written.      *)
WriteFails ==
    /\ generator.pc = "write" /\ ~AllWritten
    /\ generator' = Idle
    /\ UNCHANGED <<file, reader, changes, program, history>>

Killed ==
    /\ generator.pc \in {"open", "write"}
    /\ generator' = Idle
    /\ UNCHANGED <<file, reader, changes, program, history>>

ReportWritten ==
    /\ generator.pc = "write" /\ AllWritten
    /\ generator' = Idle
    /\ sealed' = TRUE
    /\ UNCHANGED <<file, reader, changes, program, file_origin, reader_view>>

-----------------------------------------------------------------------------
(* The environment's damages, done while no writer has the file open.       *)
Damage(by) ==
    /\ Watched /\ changes < MaxChanges /\ generator.pc # "write" /\ file.exists
    /\ by
    /\ changes' = changes + 1
    /\ sealed' = FALSE
    /\ UNCHANGED <<reader, generator, program>>

CutFile ==
    /\ Damage(Cut)
    /\ reader_view' = [reader_view EXCEPT !.sealed = FALSE]
    /\ UNCHANGED file_origin

AlteredHeaders ==
    {[file.header EXCEPT !.magic = "other"], [file.header EXCEPT !.version = 2],
     [file.header EXCEPT !.command_count = @ + 1], [file.header EXCEPT !.command_count = 2^Width64 - 1],
     [file.header EXCEPT !.config.pool_capacity = kMaxPoolCapacity + 1]}

ExtendFile ==
    /\ Damage(Extend)
    /\ IF AllWritten
       THEN /\ reader_view' = [reader_view EXCEPT !.sealed = FALSE]
            /\ UNCHANGED file_origin
       ELSE /\ reader_view' = Disturbed(reader_view)
            /\ file_origin' = Idle

(* A file with bytes no writer has put there has no origin.                 *)
AlterFile ==
    /\ \/ Damage(AlterCommand)
       \/ file.exists /\ \E header \in AlteredHeaders : Damage(AlterHeader(header))
    /\ file_origin' = Idle
    /\ reader_view' = Disturbed(reader_view)

-----------------------------------------------------------------------------
ParsesRun(args) == Len(args) = 1

ParsesE2e(args) ==
    /\ Cardinality({i \in DOMAIN args : args[i].flag = "FILE"}) = 1
    /\ \A i \in DOMAIN args :
          \/ args[i].flag \in {"FILE", "--csv"}
          \/ args[i].flag \in {"--warmup", "--log"} /\ args[i].value >= 0
          \/ args[i].flag = "--pin" /\ args[i].value \in 0 .. 2^(Width32 - 1) - 1

Exits(exit) == program' = [program EXCEPT !.exit = exit]

RejectInvocation ==
    /\ program.name = "none"
    /\ \/ \E args \in RunArgs : ~ParsesRun(args)
       \/ \E args \in E2eArgs : ~ParsesE2e(args)
    /\ program' = [name |-> "rejected", warmup |-> NotGiven, exit |-> "usage"]
    /\ UNCHANGED <<file, reader, generator, changes, history>>

(* The program starts and opens the file.                                   *)
OpenForReading(name, warmup) ==
    /\ program.name = "none"
    /\ program' = [name |-> name, warmup |-> warmup,
                   exit |-> IF file.exists THEN "none" ELSE "runtime"]
    /\ reader' = IF file.exists THEN [reader EXCEPT !.pc = "header"] ELSE reader
    /\ reader_view' = [intact |-> file_origin # Idle, sealed |-> sealed, origin |-> file_origin]
    /\ UNCHANGED <<file, generator, changes, file_origin, sealed>>

StartRun == \E args \in RunArgs : ParsesRun(args) /\ OpenForReading("run", NotGiven)

StartE2e ==
    \E args \in E2eArgs :
        ParsesE2e(args) /\ OpenForReading("e2e", ValueOf(args, "--warmup", NotGiven))

Read ==
    /\ ReadStep
    /\ UNCHANGED <<generator, changes, program, history>>

(* The checks between the reader and the engine, in the code's order.       *)
Loaded == reader.pc = "loaded" /\ program.exit = "none"

Loadable == reader.error = "None" /\ validate_engine_config(reader.config)

RefuseFile ==
    /\ Loaded /\ ~Loadable
    /\ Exits("runtime")
    /\ UNCHANGED <<file, reader, generator, changes, history>>

Accepted == Loaded /\ Loadable

Submit ==
    /\ Accepted /\ program.name = "run"
    /\ Exits("ok")
    /\ UNCHANGED <<file, reader, generator, changes, history>>

validate_commands == \A k \in DOMAIN reader.commands : reader.commands[k] # Corrupt

Ops == Len(reader.commands)

Warmup == IF program.warmup = NotGiven THEN Ops \div 10 ELSE program.warmup

(* A plausible bug: the warm-up may be the whole file.                      *)
WarmupPastEnd == Warmup > Ops

WarmupTooLong == Warmup >= Ops

RefuseE2e ==
    /\ Accepted /\ program.name = "e2e"
    /\ \/ (Ops = 0 \/ ~validate_commands) /\ Exits("runtime")
       \/ Ops # 0 /\ validate_commands /\ WarmupTooLong /\ Exits("usage")
    /\ UNCHANGED <<file, reader, generator, changes, history>>

(* The pipeline starts, unless the log cannot be opened.                    *)
StartPipeline ==
    /\ Accepted /\ program.name = "e2e"
    /\ Ops # 0 /\ validate_commands /\ ~WarmupTooLong
    /\ Exits("ok") \/ Exits("runtime")
    /\ UNCHANGED <<file, reader, generator, changes, history>>

-----------------------------------------------------------------------------
Generating == OpenForWriting \/ CannotOpen \/ Write \/ WriteFails \/ ReportWritten

Generate ==
    \/ \E args \in GenerateArgs : RejectArguments(args) \/ ReserveThrows(args) \/ GenerateStream(args)
    \/ Generating

Loading == Read \/ RefuseFile \/ Submit \/ RefuseE2e \/ StartPipeline

Load == RejectInvocation \/ StartRun \/ StartE2e \/ Loading

ToolNext == Generate \/ Killed \/ CutFile \/ ExtendFile \/ AlterFile \/ Load

(* A process that runs goes on: it waits for nobody.  None has to be        *)
(* started, and only the environment damages files.                         *)
ToolSpec ==
    /\ ToolInit /\ [][ToolNext]_toolVars
    /\ WF_toolVars(Generating) /\ WF_toolVars(Loading)

-----------------------------------------------------------------------------
(* "Never a partial load" (replay_format.h:114-115, 124-126): an error comes*)
(* with no command, and what is accepted of a file that one writer wrote is *)
(* that writer's config and commands, all of them, though the writer may    *)
(* have failed, been killed or not be done, and the file been cut or        *)
(* extended.                                                                *)
LoadsAreWhole ==
    reader.pc = "loaded" =>
        IF reader.error # "None" THEN reader.commands = <<>>
        ELSE reader_view.intact => /\ reader.config = reader_view.origin.config
                                   /\ reader.commands = reader_view.origin.commands

(* "A bogus huge count degrades into kTruncatedBody, not an allocation      *)
(* blowup": the vector is never more than a chunk longer than what has      *)
(* arrived, whatever the header promises and however the file changes.      *)
MemoryFollowsBytes == reader.resized <= reader.arrived + kChunkCommands

(* What starts is what its consumer takes for granted: an engine is built   *)
(* from a config in bounds; the pipeline has commands, all of known kinds,  *)
(* and a warm-up that ends before they do (EngineLoop's assumption); run    *)
(* has as much for every file that nobody altered, cut and read at a        *)
(* chunk's end though it may be.                                            *)
WhatStartsIsSound ==
    program.exit = "ok" =>
    /\ validate_engine_config(reader.config)
    /\ reader_view.intact => validate_commands
    /\ program.name = "e2e" => validate_commands /\ Warmup \in 0 .. Ops - 1

(* A file that generate reported written, and that was left alone until it  *)
(* had been read, is refused by nobody, whatever the casts made of the      *)
(* arguments: by run never, by the pipeline only when it has no more        *)
(* commands than the warm-up or the log cannot be opened.                   *)
WrittenFilesReplay ==
    program.name \in {"run", "e2e"} /\ reader_view.sealed =>
    /\ reader.pc = "loaded" => reader.error = "None" /\ validate_engine_config(reader.config)
    /\ program.name = "run" => program.exit \in {"none", "ok"}
    /\ program.exit = "usage" => Warmup >= Ops

(* Every process that has started ends, with its file cut, huge by its      *)
(* header, or left half-written.                                            *)
InvocationsEnd ==
    /\ program.name # "none" ~> program.exit # "none"
    /\ generator.pc \in {"open", "write"} ~> generator = Idle

(* matching_engine.h:58-59, "the Day-5 replay/wire readers validate before  *)
(* submitting": no command of an unknown kind reaches the engine.           *)
SubmittedCommandsAreValid == program.exit = "ok" => validate_commands
=============================================================================
