-------------------------- MODULE ReplayToolProofs --------------------------
(***************************************************************************)
(* What the programs that load a replay file start with, for every list of *)
(* arguments, every size of a chunk and of a file, and every order of the  *)
(* writer's, the readers' and the environment's steps.                     *)
(*                                                                         *)
(* The inductive invariant follows the bytes: OriginInv says what a file   *)
(* that has an origin holds, however short it is cut or what is appended   *)
(* to it, ViewInv that a view which is still intact is of the file as it   *)
(* stands, and ReaderInv what read_replay has by then read of it.          *)
(***************************************************************************)
EXTENDS ReplayTool, DataLemmas

USE FormatAssumption, ToolAssumption

(* The configs that generate is given, and one with its pool altered.       *)
Given == {ConfigOf(args) : args \in GenerateArgs}

Altered(config) == [config EXCEPT !.pool_capacity = kMaxPoolCapacity + 1]

FileConfigs == Given \union {Altered(config) : config \in Given}

Configs == FileConfigs \union {NoConfig}

Commands == {Corrupt} \union {<<config, k>> : config \in Given, k \in 1 .. MaxReserve}

Writers == [pc : {"idle", "open", "write"}, config : Configs, commands : Seq(Commands)]

Headers == [magic : {"LOBRPLY", "other"}, version : Int, command_count : Int, config : Configs]

Errors == {"None", "TruncatedHeader", "BadMagic", "UnsupportedVersion", "TruncatedBody",
           "TrailingBytes"}

(* What generate makes of arguments it accepts.                             *)
IsStream(config, commands) ==
    \E args \in GenerateArgs :
        /\ AcceptsGenerate(args) /\ OpsOf(args) <= MaxReserve
        /\ config = ConfigOf(args) /\ commands = Generated(config, OpsOf(args))

GeneratorInv ==
    /\ generator \in Writers /\ file_origin \in Writers
    /\ generator.pc # "idle" => IsStream(generator.config, generator.commands)
    /\ generator.pc = "idle" => generator = Idle
    /\ file_origin # Idle => IsStream(file_origin.config, file_origin.commands)

FileInv ==
    /\ file \in [exists : BOOLEAN, header : Headers, body : Seq(Commands), size : Nat]
    /\ file.exists => file.header.config \in FileConfigs

(* A file that has an origin holds the header of that writer and its        *)
(* commands, or, once it was extended, two more that are not all there.     *)
OriginInv ==
    /\ sealed \in BOOLEAN
    /\ file_origin # Idle =>
          /\ file.exists
          /\ file.header = Header(file_origin.config, Len(file_origin.commands))
          /\ \/ file.body = file_origin.commands
             \/ /\ file.body = file_origin.commands \o <<Corrupt, Corrupt>>
                /\ file.size < FileSize(file.body)
    /\ generator.pc = "write" => file_origin # Idle /\ file.body = file_origin.commands
    /\ sealed => /\ file_origin # Idle /\ file.body = file_origin.commands
                 /\ AllWritten /\ generator.pc # "write"

ViewInv ==
    /\ reader_view \in [intact : BOOLEAN, sealed : BOOLEAN, origin : Writers]
    /\ reader_view.intact => reader_view.origin = file_origin /\ file_origin # Idle
    /\ reader_view.sealed => sealed /\ reader_view.intact

(* What has been read is the front of what the origin wrote.                *)
ReadSoFar(origin) ==
    /\ reader.config = origin.config
    /\ reader.remaining \in Nat
    /\ Len(reader.commands) + reader.remaining = Len(origin.commands)
    /\ \A k \in 1 .. Len(reader.commands) : reader.commands[k] = origin.commands[k]

ReaderInv ==
    /\ reader \in [pc : {"idle", "header", "body", "loaded"}, error : Errors, config : Configs,
                   commands : Seq(Commands), remaining : Int, resized : Nat, arrived : Nat]
    /\ reader.pc # "loaded" => /\ reader.error = "None"
                               /\ reader.resized = Len(reader.commands)
                               /\ reader.arrived = Len(reader.commands)
    /\ reader.pc \in {"idle", "header"} => reader.commands = <<>>
    /\ reader.pc = "body" /\ reader_view.intact => ReadSoFar(reader_view.origin)
    /\ LoadsAreWhole
    /\ MemoryFollowsBytes
    /\ reader.pc = "loaded" /\ reader_view.sealed => reader.error = "None"

ProgramInv ==
    /\ program \in [name : {"none", "rejected", "run", "e2e"}, warmup : Nat \union {NotGiven},
                    exit : {"none", "usage", "runtime", "ok"}]
    /\ program.name = "none" => program.exit = "none" /\ reader.pc = "idle"
    /\ program.exit = "ok" =>
          /\ reader.pc = "loaded" /\ Loadable
          /\ program.name = "e2e" => validate_commands /\ Warmup \in 0 .. Ops - 1
    /\ program.exit = "usage" /\ program.name \in {"run", "e2e"} =>
          reader.pc = "loaded" /\ program.name = "e2e" /\ Warmup >= Ops
    /\ program.name = "run" /\ reader_view.sealed => program.exit \in {"none", "ok"}

IInv == GeneratorInv /\ FileInv /\ OriginInv /\ ViewInv /\ ReaderInv /\ ProgramInv

-----------------------------------------------------------------------------
(* The arguments.                                                           *)
LEMMA MaxIsElement ==
    ASSUME NEW n \in Nat, NEW T \in SUBSET (1 .. n), T # {}
    PROVE  Max(T) \in T
<1> DEFINE D == {m \in Nat : n - m \in T}
<1>1. PICK t \in T : TRUE
  OBVIOUS
<1>2. t \in 1 .. n
  BY <1>1
<1>3. n - t \in Nat /\ n - (n - t) = t
  BY <1>2
<1>4. n - t \in D
  BY <1>1, <1>3
<1>5. PICK m \in D : \A k \in D : m <= k
  BY <1>4, LeastElement
<1>0. m \in Nat /\ n - m \in T
  OBVIOUS
<1>6. ASSUME NEW u \in T PROVE n - m >= u
  <2>1. u \in 1 .. n
    OBVIOUS
  <2>2. n - u \in Nat /\ n - (n - u) = u
    BY <2>1
  <2>3. n - u \in D
    BY <2>2
  <2>4. m <= n - u
    BY <1>5, <2>3
  <2> HIDE DEF D
  <2> QED
    BY <1>0, <2>1, <2>4
<1>7. \E x \in T : \A y \in T : x >= y
  BY <1>0, <1>6
<1> QED
  BY <1>7 DEF Max

ArgLists == Seq([flag : STRING, value : Int])

LEMMA ArgType ==
    ASSUME NEW args \in ArgLists, NEW i \in DOMAIN args
    PROVE  args[i] \in [flag : STRING, value : Int]
<1>1. ASSUME NEW X, NEW s \in Seq(X), NEW k \in DOMAIN s PROVE s[k] \in X
  OBVIOUS
<1> QED
  BY <1>1 DEF ArgLists

LEMMA ValueIsGiven ==
    ASSUME NEW args \in ArgLists, NEW flag, NEW default
    PROVE  \/ ValueOf(args, flag, default) = default
           \/ \E i \in DOMAIN args : /\ args[i].flag = flag
                                      /\ ValueOf(args, flag, default) = args[i].value
<1> DEFINE at == {i \in DOMAIN args : args[i].flag = flag}
<1>1. CASE at = {}
  BY <1>1 DEF ValueOf
<1>2. CASE at # {}
  <2>1. Len(args) \in Nat /\ at \in SUBSET (1 .. Len(args))
    BY SMTT(40) DEF ArgLists
  <2>2. Max(at) \in at
    BY <1>2, <2>1, MaxIsElement
  <2>3. ValueOf(args, flag, default) = args[Max(at)].value
    BY <1>2 DEF ValueOf
  <2> QED
    BY <2>2, <2>3
<1> QED
  BY <1>1, <1>2

LEMMA OpsOfAccepted ==
    ASSUME NEW args \in GenerateArgs, AcceptsGenerate(args)
    PROVE  OpsOf(args) \in Nat
<1>1. args \in ArgLists
  BY ArgsAssumption DEF ArgLists
<1>2. \/ OpsOf(args) = 2
      \/ \E i \in DOMAIN args : OpsOf(args) = args[i].value
  BY <1>1, ValueIsGiven DEF OpsOf
<1>3. ASSUME NEW i \in DOMAIN args PROVE args[i].value \in Nat
  <2>1. args[i] \in [flag : STRING, value : Int]
    BY <1>1, ArgType
  <2>2. args[i].value >= 0
    BY DEF AcceptsGenerate, ParsesGenerate
  <2> QED
    BY <2>1, <2>2
<1> QED
  BY <1>2, <1>3

LEMMA WarmupOfParsed ==
    ASSUME NEW args \in E2eArgs, ParsesE2e(args)
    PROVE  ValueOf(args, "--warmup", NotGiven) \in Nat \union {NotGiven}
<1>1. args \in ArgLists
  BY ArgsAssumption DEF ArgLists
<1>2. \/ ValueOf(args, "--warmup", NotGiven) = NotGiven
      \/ \E i \in DOMAIN args : /\ args[i].flag = "--warmup"
                                 /\ ValueOf(args, "--warmup", NotGiven) = args[i].value
  BY <1>1, ValueIsGiven
<1>3. ASSUME NEW i \in DOMAIN args, args[i].flag = "--warmup"
      PROVE  args[i].value \in Nat
  <2>1. args[i] \in [flag : STRING, value : Int]
    BY <1>1, ArgType
  <2>2. args[i].value >= 0
    BY <1>3 DEF ParsesE2e
  <2> QED
    BY <2>1, <2>2
<1> QED
  BY <1>2, <1>3

-----------------------------------------------------------------------------
(* What generate makes is well formed.                                      *)
LEMMA StreamFacts ==
    ASSUME NEW config, NEW commands, IsStream(config, commands)
    PROVE  /\ config \in Given /\ validate_engine_config(config)
           /\ commands \in Seq(Commands)
           /\ \A k \in DOMAIN commands : commands[k] # Corrupt
<1>1. PICK args \in GenerateArgs :
         /\ AcceptsGenerate(args) /\ OpsOf(args) <= MaxReserve
         /\ config = ConfigOf(args) /\ commands = Generated(config, OpsOf(args))
  BY DEF IsStream
<1>2. PICK n \in Nat : n = OpsOf(args)
  BY <1>1, OpsOfAccepted
<1>3. config \in Given /\ validate_engine_config(config)
  BY <1>1 DEF Given, AcceptsGenerate
<1>4. commands = [k \in 1 .. n |-> <<config, k>>]
  BY <1>1, <1>2 DEF Generated
<1>5. \A k \in 1 .. n : <<config, k>> \in Commands
  <2>1. \A k \in 1 .. n : k \in 1 .. MaxReserve
    BY <1>1, <1>2
  <2> QED
    BY <1>3, <2>1 DEF Commands
<1>6. commands \in Seq(Commands) /\ DOMAIN commands = 1 .. n
  BY <1>4, <1>5
<1>7. \A k \in 1 .. n : commands[k] # Corrupt
  BY <1>1, <1>2, CorruptAssumption
<1> QED
  BY <1>3, <1>6, <1>7

LEMMA HeaderType ==
    ASSUME NEW config \in Configs, NEW count \in Int
    PROVE  /\ Header(config, count) \in Headers
           /\ Header(config, count).config = config
           /\ Header(config, count).command_count = count
           /\ Header(config, count).magic = kReplayMagic
           /\ Header(config, count).version = kReplayFormatVersion
<1>1. \A v \in Int : [magic |-> "LOBRPLY", version |-> v,
                       command_count |-> count, config |-> config] \in Headers
  BY DEF Headers
<1>2. Header(config, count) \in Headers
  BY <1>1 DEF Header, kReplayMagic, kReplayFormatVersion
<1> QED
  BY <1>2 DEF Header

LEMMA IdleType == Idle \in Writers /\ Idle.pc = "idle"
<1>1. <<>> \in Seq(Commands) /\ NoConfig \in Configs
  BY DEF Configs
<1> QED
  BY <1>1 DEF Idle, Writers

LEMMA WhatIsWhole ==
    ASSUME FileInv
    PROVE  /\ Len(file.body) \in Nat /\ file.size \in Nat
           /\ FileSize(file.body) \in Nat
           /\ WholeCommands \in Int /\ WholeCommands <= Len(file.body)
           /\ AllWritten => WholeCommands = Len(file.body)
<1>1. PICK L \in Nat : L = Len(file.body)
  BY DEF FileInv
<1>2. PICK z \in Nat : z = file.size
  BY DEF FileInv
<1>3. PICK c \in Nat \ {0} : c = CommandSize
  OBVIOUS
<1>4. PICK h \in Nat \ {0} : h = HeaderSize
  OBVIOUS
<1>5. L * c \in Nat
  OBVIOUS
<1>6. (L * c) \div c = L
  OBVIOUS
<1>7. (z - h) \div c \in Int
  OBVIOUS
<1>8. WholeCommands = IF L < (z - h) \div c THEN L ELSE (z - h) \div c
  BY <1>1, <1>2, <1>3, <1>4 DEF WholeCommands, Least
<1>9. FileSize(file.body) = h + L * c
  BY <1>1, <1>3, <1>4 DEF FileSize
<1>10. AllWritten => z - h = L * c
  BY <1>2, <1>5, <1>9 DEF AllWritten
<1>11. AllWritten => (z - h) \div c = L
  BY <1>6, <1>10
<1>12. FileSize(file.body) \in Nat
  BY <1>4, <1>5, <1>9
<1>13. WholeCommands \in Int /\ WholeCommands <= L
  BY <1>7, <1>8
<1>14. AllWritten => WholeCommands = L
  BY <1>8, <1>11
<1> QED
  BY <1>1, <1>2, <1>12, <1>13, <1>14

LEMMA InitEstablishes == ToolInit => IInv
<1> SUFFICES ASSUME ToolInit PROVE IInv
  OBVIOUS
<1>0. <<>> \in Seq(Commands) /\ NoConfig \in Configs
  BY DEF Configs
<1>1. GeneratorInv
  BY IdleType DEF GeneratorInv, ToolInit
<1>2. FileInv
  BY <1>0, HeaderType DEF FileInv, ToolInit, NoFile
<1>3. OriginInv
  BY IdleType DEF OriginInv, ToolInit
<1>4. ViewInv
  BY IdleType DEF ViewInv, ToolInit
<1>5. ReaderInv
  <2>1. reader = NoReader /\ Len(<<>>) = 0
    BY DEF ToolInit
  <2>2. reader \in [pc : {"idle", "header", "body", "loaded"}, error : Errors, config : Configs,
                    commands : Seq(Commands), remaining : Int, resized : Nat, arrived : Nat]
    BY <1>0, <2>1 DEF NoReader, Errors
  <2>3. /\ reader.pc = "idle" /\ reader.error = "None" /\ reader.commands = <<>>
        /\ reader.resized = 0 /\ reader.arrived = 0
    BY <2>1 DEF NoReader
  <2> QED
    BY <2>1, <2>2, <2>3 DEF ReaderInv, LoadsAreWhole, MemoryFollowsBytes
<1>6. ProgramInv
  BY DEF ProgramInv, ToolInit, NoReader, NotGiven
<1> QED
  BY <1>1, <1>2, <1>3, <1>4, <1>5, <1>6 DEF IInv

-----------------------------------------------------------------------------
(* What a step leaves alone keeps its part of the invariant.                *)
LEMMA Frames ==
    /\ GeneratorInv /\ UNCHANGED <<generator, file_origin>> => GeneratorInv'
    /\ FileInv /\ UNCHANGED file => FileInv'
    /\ OriginInv /\ UNCHANGED <<file, generator, file_origin, sealed>> => OriginInv'
    /\ ViewInv /\ UNCHANGED history => ViewInv'
    /\ ReaderInv /\ UNCHANGED <<reader, reader_view>> => ReaderInv'
    /\ ProgramInv /\ UNCHANGED <<program, reader, reader_view>> => ProgramInv'
<1>1. GeneratorInv /\ UNCHANGED <<generator, file_origin>> => GeneratorInv'
  BY DEF GeneratorInv
<1>2. FileInv /\ UNCHANGED file => FileInv'
  BY DEF FileInv
<1>3. OriginInv /\ UNCHANGED <<file, generator, file_origin, sealed>> => OriginInv'
  <2> SUFFICES ASSUME OriginInv, UNCHANGED <<file, generator, file_origin, sealed>>
               PROVE  OriginInv'
    OBVIOUS
  <2>1. file' = file /\ generator' = generator /\ file_origin' = file_origin /\ sealed' = sealed
    OBVIOUS
  <2>2. AllWritten <=> AllWritten'
    BY <2>1 DEF AllWritten
  <2>3. sealed' \in BOOLEAN
    BY <2>1 DEF OriginInv
  <2>4. file_origin' # Idle =>
           /\ file'.exists
           /\ file'.header = Header(file_origin'.config, Len(file_origin'.commands))
           /\ \/ file'.body = file_origin'.commands
              \/ /\ file'.body = file_origin'.commands \o <<Corrupt, Corrupt>>
                 /\ file'.size < FileSize(file'.body)
    BY <2>1 DEF OriginInv
  <2>5. generator'.pc = "write" => file_origin' # Idle /\ file'.body = file_origin'.commands
    BY <2>1 DEF OriginInv
  <2>6. sealed' => /\ file_origin' # Idle /\ file'.body = file_origin'.commands
                   /\ AllWritten' /\ generator'.pc # "write"
    BY <2>1, <2>2 DEF OriginInv
  <2> QED
    BY <2>3, <2>4, <2>5, <2>6, Zenon DEF OriginInv
<1>4. ViewInv /\ UNCHANGED history => ViewInv'
  BY DEF ViewInv, history
<1>5. ReaderInv /\ UNCHANGED <<reader, reader_view>> => ReaderInv'
  BY DEF ReaderInv, LoadsAreWhole, MemoryFollowsBytes, ReadSoFar
<1>6. ProgramInv /\ UNCHANGED <<program, reader, reader_view>> => ProgramInv'
  BY DEF ProgramInv, Loadable, validate_commands, Warmup, Ops
<1> QED
  BY <1>1, <1>2, <1>3, <1>4, <1>5, <1>6

LEMMA StutterKeeps == IInv /\ UNCHANGED toolVars => IInv'
<1> SUFFICES ASSUME IInv, UNCHANGED toolVars PROVE IInv'
  OBVIOUS
<1>1. UNCHANGED <<file, generator, program, reader, file_origin, sealed, reader_view, history>>
  BY DEF toolVars, history
<1> QED
  BY <1>1, Frames DEF IInv

(* The reader's part survives when the view loses what was known of it.     *)
LEMMA LessIsKnown ==
    ASSUME ReaderInv, ProgramInv, UNCHANGED <<reader, program>>,
           reader_view'.intact => reader_view.intact /\ reader_view'.origin = reader_view.origin,
           reader_view'.sealed => reader_view.sealed
    PROVE  ReaderInv' /\ ProgramInv'
<1>1. ReaderInv'
  BY DEF ReaderInv, LoadsAreWhole, MemoryFollowsBytes, ReadSoFar
<1>2. ProgramInv'
  BY DEF ProgramInv, Loadable, validate_commands, Warmup, Ops
<1> QED
  BY <1>1, <1>2

LEMMA DisturbedView ==
    ASSUME ViewInv
    PROVE  /\ Disturbed(reader_view) \in [intact : BOOLEAN, sealed : BOOLEAN, origin : Writers]
           /\ Disturbed(reader_view).intact = FALSE /\ Disturbed(reader_view).sealed = FALSE
<1>1. PICK view \in [intact : BOOLEAN, sealed : BOOLEAN, origin : Writers] : view = reader_view
  BY DEF ViewInv
<1>2. PICK middle : middle = [view EXCEPT !.intact = FALSE]
  OBVIOUS
<1>3. /\ middle \in [intact : BOOLEAN, sealed : BOOLEAN, origin : Writers]
      /\ middle.intact = FALSE
  BY <1>2
<1>4. PICK last : last = [middle EXCEPT !.sealed = FALSE]
  OBVIOUS
<1>5. /\ last \in [intact : BOOLEAN, sealed : BOOLEAN, origin : Writers]
      /\ last.intact = FALSE /\ last.sealed = FALSE
  BY <1>3, <1>4
<1>6. Disturbed(reader_view) = last
  BY <1>1, <1>2, <1>4 DEF Disturbed
<1> QED
  BY <1>5, <1>6

-----------------------------------------------------------------------------
(* The writer's steps.                                                      *)
LEMMA RejectKeeps ==
    ASSUME IInv, NEW args \in GenerateArgs, RejectArguments(args) \/ ReserveThrows(args)
    PROVE  IInv'
<1>1. UNCHANGED <<file, generator, program, reader, file_origin, sealed, reader_view, history>>
  BY DEF RejectArguments, ReserveThrows, history
<1> QED
  BY <1>1, Frames DEF IInv

LEMMA GenerateKeeps ==
    ASSUME IInv, NEW args \in GenerateArgs, GenerateStream(args)
    PROVE  IInv'
<1> DEFINE config == ConfigOf(args)
           commands == Generated(config, OpsOf(args))
<1>1. /\ UNCHANGED <<file, reader, program, file_origin, sealed, reader_view, history>>
      /\ AcceptsGenerate(args) /\ OpsOf(args) <= MaxReserve
      /\ generator' = [pc |-> "open", config |-> config, commands |-> commands]
  BY DEF GenerateStream, history
<1>2. IsStream(config, commands)
  BY <1>1 DEF IsStream
<1>3. config \in Configs /\ commands \in Seq(Commands)
  BY <1>2, StreamFacts DEF Configs, FileConfigs
<1> HIDE DEF config, commands
<1>4. /\ generator' \in Writers /\ generator'.pc = "open"
      /\ generator'.config = config /\ generator'.commands = commands
  BY <1>1, <1>3 DEF Writers
<1>5. GeneratorInv'
  BY <1>1, <1>2, <1>4 DEF GeneratorInv, IInv
<1>6. OriginInv'
  BY <1>1, <1>4 DEF OriginInv, IInv, AllWritten
<1> QED
  BY <1>1, <1>5, <1>6, Frames DEF IInv

(* However a writer ends that leaves the file as it is.                     *)
LEMMA AbandonKeeps ==
    ASSUME IInv, CannotOpen \/ WriteFails \/ Killed
    PROVE  IInv'
<1>1. /\ UNCHANGED <<file, reader, program, file_origin, sealed, reader_view, history>>
      /\ generator' = Idle
  BY DEF CannotOpen, WriteFails, Killed, history
<1>2. GeneratorInv'
  BY <1>1, IdleType DEF GeneratorInv, IInv
<1>3. OriginInv'
  BY <1>1, IdleType DEF OriginInv, IInv, AllWritten
<1> QED
  BY <1>1, <1>2, <1>3, Frames DEF IInv

LEMMA OpenKeeps ==
    ASSUME IInv, OpenForWriting
    PROVE  IInv'
<1>1. /\ generator \in Writers /\ generator.pc = "open"
      /\ IsStream(generator.config, generator.commands)
  BY DEF OpenForWriting, IInv, GeneratorInv
<1>2. PICK writer \in Writers : writer = generator
  BY <1>1
<1>3. /\ UNCHANGED <<reader, program>>
      /\ file' = NewFile(writer.config, writer.commands)
      /\ file_origin' = writer /\ sealed' = FALSE
      /\ reader_view' = Disturbed(reader_view)
      /\ generator' = [writer EXCEPT !.pc = "write"]
  BY <1>2 DEF OpenForWriting
<1>4. /\ generator' \in Writers /\ generator'.pc = "write"
      /\ generator'.config = writer.config /\ generator'.commands = writer.commands
  BY <1>3 DEF Writers
<1>5. writer # Idle
  BY <1>1, <1>2, IdleType
<1>6. GeneratorInv'
  BY <1>1, <1>2, <1>3, <1>4 DEF GeneratorInv
<1>7. /\ writer.config \in FileConfigs /\ writer.config \in Configs
      /\ writer.commands \in Seq(Commands) /\ Len(writer.commands) \in Nat
  BY <1>1, <1>2, StreamFacts DEF FileConfigs, Configs
<1>8. /\ file' \in [exists : BOOLEAN, header : Headers, body : Seq(Commands), size : Nat]
      /\ file'.exists /\ file'.body = writer.commands
      /\ file'.header = Header(writer.config, Len(writer.commands))
      /\ file'.header.config = writer.config
  BY <1>3, <1>7, HeaderType DEF NewFile
<1>9. FileInv'
  BY <1>7, <1>8 DEF FileInv
<1>10. OriginInv'
  BY <1>3, <1>5, <1>8 DEF OriginInv
<1>11. ViewInv'
  BY <1>3, DisturbedView DEF ViewInv, IInv
<1>12. ReaderInv' /\ ProgramInv'
  BY <1>3, DisturbedView, LessIsKnown DEF IInv
<1> QED
  BY <1>6, <1>9, <1>10, <1>11, <1>12 DEF IInv

LEMMA WriteKeeps ==
    ASSUME IInv, Write
    PROVE  IInv'
<1>1. /\ UNCHANGED <<reader, generator, program, file_origin, sealed, reader_view, history>>
      /\ generator.pc = "write" /\ WriteMore
  BY DEF Write, history
<1>2. PICK size \in file.size + 1 .. FileSize(file.body) : file' = [file EXCEPT !.size = size]
  BY <1>1 DEF WriteMore
<1>3. size \in Nat
  BY WhatIsWhole DEF IInv
<1>4. /\ file' \in [exists : BOOLEAN, header : Headers, body : Seq(Commands), size : Nat]
      /\ file'.exists = file.exists /\ file'.header = file.header /\ file'.body = file.body
  BY <1>2, <1>3 DEF IInv, FileInv
<1>5. FileInv'
  BY <1>4 DEF IInv, FileInv
<1>6. OriginInv'
  BY <1>1, <1>4 DEF IInv, OriginInv
<1> QED
  BY <1>1, <1>5, <1>6, Frames DEF IInv

LEMMA ReportKeeps ==
    ASSUME IInv, ReportWritten
    PROVE  IInv'
<1>1. /\ UNCHANGED <<file, reader, program, file_origin, reader_view>>
      /\ generator.pc = "write" /\ AllWritten
      /\ generator' = Idle /\ sealed' = TRUE
  BY DEF ReportWritten
<1>2. GeneratorInv'
  BY <1>1, IdleType DEF GeneratorInv, IInv
<1>3. OriginInv'
  BY <1>1, IdleType DEF OriginInv, IInv, AllWritten
<1>4. ViewInv'
  BY <1>1 DEF ViewInv, IInv
<1> QED
  BY <1>1, <1>2, <1>3, <1>4, Frames DEF IInv

-----------------------------------------------------------------------------
(* The environment's steps.                                                 *)
LEMMA CutKeeps ==
    ASSUME IInv, CutFile
    PROVE  IInv'
<1>1. /\ UNCHANGED <<reader, generator, program, file_origin>>
      /\ generator.pc # "write" /\ file.exists /\ Cut
      /\ sealed' = FALSE
      /\ reader_view' = [reader_view EXCEPT !.sealed = FALSE]
  BY DEF CutFile, Damage
<1>2. PICK size \in 0 .. file.size - 1 : file' = [file EXCEPT !.size = size]
  BY <1>1 DEF Cut
<1>3. size \in Nat /\ file.size \in Nat /\ size < file.size
  BY WhatIsWhole DEF IInv
<1>4. /\ file' \in [exists : BOOLEAN, header : Headers, body : Seq(Commands), size : Nat]
      /\ file'.exists = file.exists /\ file'.header = file.header /\ file'.body = file.body
      /\ file'.size = size
  BY <1>2, <1>3 DEF IInv, FileInv
<1>5. FileInv'
  BY <1>4 DEF IInv, FileInv
<1>6. file.size < FileSize(file.body) => file'.size < FileSize(file'.body)
  <2>1. FileSize(file'.body) = FileSize(file.body) /\ FileSize(file.body) \in Nat
    BY <1>4, WhatIsWhole DEF IInv
  <2> QED
    BY <2>1, <1>3, <1>4
<1>7. OriginInv'
  BY <1>1, <1>4, <1>6 DEF IInv, OriginInv
<1>8. /\ reader_view' \in [intact : BOOLEAN, sealed : BOOLEAN, origin : Writers]
      /\ reader_view'.sealed = FALSE
      /\ reader_view'.intact = reader_view.intact /\ reader_view'.origin = reader_view.origin
  BY <1>1 DEF IInv, ViewInv
<1>9. ViewInv'
  BY <1>1, <1>8 DEF IInv, ViewInv
<1>10. ReaderInv' /\ ProgramInv'
  BY <1>1, <1>8, LessIsKnown DEF IInv
<1> QED
  BY <1>1, <1>5, <1>7, <1>9, <1>10, Frames DEF IInv

(* Two commands that are not all there follow what was there.               *)
LEMMA ExtendedFile ==
    ASSUME FileInv, Extend
    PROVE  /\ FileInv'
           /\ file'.exists = file.exists /\ file'.header = file.header
           /\ AllWritten => /\ file'.body = file.body \o <<Corrupt, Corrupt>>
                            /\ file'.size < FileSize(file'.body)
<1>1. PICK extra \in 1 .. CommandSize :
         file' = [file EXCEPT
              !.size = @ + extra,
              !.body = SubSeq(@, 1, WholeCommands) \o <<Corrupt, Corrupt>>]
  BY DEF Extend
<1>2. PICK old \in [exists : BOOLEAN, header : Headers, body : Seq(Commands), size : Nat] : old = file
  BY DEF FileInv
<1>3. PICK whole \in Int : whole = WholeCommands
  BY WhatIsWhole
<1>4. PICK size : size = old.size + extra
  OBVIOUS
<1>5. size \in Nat
  BY <1>4
<1>6. PICK body : body = SubSeq(old.body, 1, whole) \o <<Corrupt, Corrupt>>
  OBVIOUS
<1>7. whole <= Len(old.body) /\ Len(old.body) \in Nat
  BY <1>2, <1>3, WhatIsWhole
<1>8. SubSeq(old.body, 1, whole) \in Seq(Commands)
  <2>1. CASE whole >= 1
    <3>1. 1 .. whole \subseteq 1 .. Len(old.body)
      BY <1>7
    <3> QED
      BY <3>1, <1>7
  <2>2. CASE whole < 1
    BY <2>2
  <2> QED
    BY <2>1, <2>2
<1>9. <<Corrupt, Corrupt>> \in Seq(Commands)
  <2>1. Corrupt \in Commands
    BY DEF Commands
  <2> QED
    BY <2>1
<1>10. body \in Seq(Commands)
  BY <1>6, <1>8, <1>9
<1>11. PICK middle : middle = [old EXCEPT !.size = size]
  OBVIOUS
<1>12. /\ middle \in [exists : BOOLEAN, header : Headers, body : Seq(Commands), size : Nat]
       /\ middle.exists = old.exists /\ middle.header = old.header /\ middle.size = size
       /\ middle.body = old.body
  BY <1>5, <1>11
<1>13. file' = [middle EXCEPT !.body = body]
  BY <1>1, <1>2, <1>3, <1>4, <1>6, <1>11
<1>14. /\ file' \in [exists : BOOLEAN, header : Headers, body : Seq(Commands), size : Nat]
       /\ file'.exists = old.exists /\ file'.header = old.header
       /\ file'.size = size /\ file'.body = body
  BY <1>10, <1>12, <1>13
<1>15. FileInv'
  BY <1>2, <1>14 DEF FileInv
<1>16. ASSUME AllWritten
       PROVE  /\ file'.body = file.body \o <<Corrupt, Corrupt>>
              /\ file'.size < FileSize(file'.body)
  <2>1. PICK n \in Nat : n = Len(old.body)
    BY <1>7
  <2>2. whole = n
    BY <1>16, <1>2, <1>3, <2>1, WhatIsWhole
  <2>3. SubSeq(old.body, 1, whole) = old.body
    BY <2>1, <2>2
  <2>4. body = old.body \o <<Corrupt, Corrupt>>
    BY <1>6, <2>3
  <2>5. Len(body) = n + 2
    <3>1. Len(<<Corrupt, Corrupt>>) = 2 /\ <<Corrupt, Corrupt>> \in Seq(Commands)
      BY <1>9
    <3> HIDE DEF Commands
    <3>2. Len(old.body \o <<Corrupt, Corrupt>>) = Len(old.body) + 2
      BY <3>1
    <3> QED
      BY <2>1, <2>4, <3>2
  <2>6. PICK c \in Nat \ {0} : c = CommandSize
    OBVIOUS
  <2>7. PICK h \in Nat \ {0} : h = HeaderSize
    OBVIOUS
  <2>8. old.size = h + n * c
    BY <1>16, <1>2, <2>1, <2>6, <2>7 DEF AllWritten, FileSize
  <2>9. extra <= c /\ extra \in Nat
    BY <2>6
  <2>10. n * c \in Nat /\ (n + 2) * c = n * c + 2 * c
    OBVIOUS
  <2>11. FileSize(body) = h + (n + 2) * c
    BY <2>5, <2>6, <2>7 DEF FileSize
  <2>12. size < FileSize(body)
    BY <1>4, <2>8, <2>9, <2>10, <2>11
  <2> QED
    BY <1>2, <1>14, <2>4, <2>12
<1> QED
  BY <1>2, <1>14, <1>15, <1>16

LEMMA ExtendKeeps ==
    ASSUME IInv, ExtendFile
    PROVE  IInv'
<1>1. /\ UNCHANGED <<reader, generator, program>>
      /\ generator.pc # "write" /\ file.exists /\ Extend
      /\ sealed' = FALSE
  BY DEF ExtendFile, Damage
<1>2. /\ FileInv'
      /\ file'.exists = file.exists /\ file'.header = file.header
      /\ AllWritten => /\ file'.body = file.body \o <<Corrupt, Corrupt>>
                       /\ file'.size < FileSize(file'.body)
  BY <1>1, ExtendedFile DEF IInv
<1>3. CASE AllWritten
  <2>1. /\ reader_view' = [reader_view EXCEPT !.sealed = FALSE]
        /\ UNCHANGED <<file_origin, generator>>
    BY <1>1, <1>3 DEF ExtendFile
  <2>2. /\ reader_view' \in [intact : BOOLEAN, sealed : BOOLEAN, origin : Writers]
        /\ reader_view'.sealed = FALSE
        /\ reader_view'.intact = reader_view.intact /\ reader_view'.origin = reader_view.origin
    BY <2>1 DEF IInv, ViewInv
  <2>3. file_origin # Idle => file.body = file_origin.commands
    <3>1. ~(file.size < FileSize(file.body))
      BY <1>3, WhatIsWhole DEF AllWritten, IInv
    <3> QED
      BY <3>1 DEF IInv, OriginInv
  <2>4. OriginInv'
    BY <1>1, <1>2, <1>3, <2>1, <2>3 DEF IInv, OriginInv
  <2>5. ViewInv'
    BY <2>1, <2>2 DEF IInv, ViewInv
  <2>6. ReaderInv' /\ ProgramInv'
    BY <1>1, <2>2, LessIsKnown DEF IInv
  <2> QED
    BY <1>2, <2>1, <2>4, <2>5, <2>6, Frames DEF IInv
<1>4. CASE ~AllWritten
  <2>1. reader_view' = Disturbed(reader_view) /\ file_origin' = Idle
    BY <1>4 DEF ExtendFile
  <2>2. GeneratorInv'
    BY <1>1, <2>1, IdleType DEF IInv, GeneratorInv
  <2>3. OriginInv'
    BY <1>1, <2>1 DEF IInv, OriginInv
  <2>4. ViewInv'
    BY <2>1, DisturbedView DEF IInv, ViewInv
  <2>5. ReaderInv' /\ ProgramInv'
    BY <1>1, <2>1, DisturbedView, LessIsKnown DEF IInv
  <2> QED
    BY <1>2, <2>2, <2>3, <2>4, <2>5 DEF IInv
<1> QED
  BY <1>3, <1>4

LEMMA ConfigAltered ==
    ASSUME NEW config \in FileConfigs
    PROVE  Altered(config) \in FileConfigs
<1>1. CASE config \in Given
  BY <1>1 DEF FileConfigs
<1>2. CASE config \notin Given
  <2>1. PICK args \in GenerateArgs : config = Altered(ConfigOf(args))
    BY <1>2 DEF FileConfigs, Given
  <2>2. Altered(config) = config
    BY <2>1 DEF Altered, ConfigOf
  <2> QED
    BY <2>2
<1> QED
  BY <1>1, <1>2

LEMMA AlteredHeaderType ==
    ASSUME FileInv, file.exists, NEW header \in AlteredHeaders
    PROVE  header \in Headers /\ header.config \in FileConfigs
<1>1. PICK old \in Headers : old = file.header
  BY DEF FileInv
<1>2. old.config \in FileConfigs
  BY <1>1 DEF FileInv
<1>3. PICK count \in Int : count = old.command_count
  BY DEF Headers
<1>4. PICK most \in Int : most = 2^Width64 - 1
  OBVIOUS
<1>5. \/ header = [old EXCEPT !.magic = "other"]
      \/ header = [old EXCEPT !.version = 2]
      \/ header = [old EXCEPT !.command_count = count + 1]
      \/ header = [old EXCEPT !.command_count = most]
      \/ header = [old EXCEPT !.config = Altered(old.config)]
  BY <1>1, <1>3, <1>4 DEF AlteredHeaders, Altered
<1>6. Altered(old.config) \in FileConfigs /\ Altered(old.config) \in Configs
  BY <1>2, ConfigAltered DEF Configs
<1>7. count + 1 \in Int
  OBVIOUS
<1> QED
  BY <1>2, <1>5, <1>6, <1>7 DEF Headers

LEMMA AlterKeeps ==
    ASSUME IInv, AlterFile
    PROVE  IInv'
<1>1. /\ UNCHANGED <<reader, generator, program>>
      /\ generator.pc # "write" /\ file.exists
      /\ sealed' = FALSE
      /\ reader_view' = Disturbed(reader_view) /\ file_origin' = Idle
  BY DEF AlterFile, Damage
<1>2. FileInv'
  <2>1. CASE AlterCommand
    <3>1. PICK k \in 1 .. WholeCommands : file' = [file EXCEPT !.body[k] = Corrupt]
      BY <2>1 DEF AlterCommand
    <3>2. PICK old \in [exists : BOOLEAN, header : Headers, body : Seq(Commands), size : Nat] :
             old = file
      BY DEF IInv, FileInv
    <3>3. PICK body : body = [old.body EXCEPT ![k] = Corrupt]
      OBVIOUS
    <3>4. body \in Seq(Commands)
      <4>1. Corrupt \in Commands
        BY DEF Commands
      <4>2. PICK n \in Nat : n = Len(old.body)
        OBVIOUS
      <4>3. old.body \in [1 .. n -> Commands]
        BY <4>2
      <4>4. body \in [1 .. n -> Commands]
        BY <3>3, <4>1, <4>3
      <4> QED
        BY <4>4
    <3>5. file' = [old EXCEPT !.body = body]
      BY <3>1, <3>2, <3>3
    <3>6. /\ file' \in [exists : BOOLEAN, header : Headers, body : Seq(Commands), size : Nat]
          /\ file'.exists = old.exists /\ file'.header = old.header
      BY <3>4, <3>5
    <3> QED
      BY <3>2, <3>6 DEF IInv, FileInv
  <2>2. ASSUME NEW header \in AlteredHeaders, AlterHeader(header) PROVE FileInv'
    <3>1. header \in Headers /\ header.config \in FileConfigs
      BY <1>1, AlteredHeaderType DEF IInv
    <3>2. file' = [file EXCEPT !.header = header]
      BY <2>2 DEF AlterHeader
    <3>3. /\ file' \in [exists : BOOLEAN, header : Headers, body : Seq(Commands), size : Nat]
          /\ file'.header = header
      BY <3>1, <3>2 DEF IInv, FileInv
    <3> QED
      BY <3>1, <3>3 DEF FileInv
  <2> QED
    BY <2>1, <2>2 DEF AlterFile, Damage
<1>3. GeneratorInv'
  BY <1>1, IdleType DEF IInv, GeneratorInv
<1>4. OriginInv'
  BY <1>1 DEF IInv, OriginInv
<1>5. ViewInv'
  BY <1>1, DisturbedView DEF IInv, ViewInv
<1>6. ReaderInv' /\ ProgramInv'
  BY <1>1, DisturbedView, LessIsKnown DEF IInv
<1> QED
  BY <1>2, <1>3, <1>4, <1>5, <1>6 DEF IInv

-----------------------------------------------------------------------------
(* The loading programs' steps.                                             *)
LEMMA SealedLoads ==
    ASSUME IInv, reader_view.sealed, reader.pc = "loaded"
    PROVE  reader.error = "None" /\ validate_engine_config(reader.config)
<1>1. /\ reader_view.intact /\ reader.error = "None"
      /\ reader_view.origin = file_origin /\ file_origin # Idle
  BY DEF IInv, ViewInv, ReaderInv
<1>2. reader.config = reader_view.origin.config
  BY <1>1 DEF IInv, ReaderInv, LoadsAreWhole
<1>3. validate_engine_config(file_origin.config)
  BY <1>1, StreamFacts DEF IInv, GeneratorInv
<1> QED
  BY <1>1, <1>2, <1>3

LEMMA IntactLoads ==
    ASSUME IInv, reader_view.intact, reader.pc = "loaded", reader.error = "None"
    PROVE  validate_commands
<1>1. reader_view.origin = file_origin /\ file_origin # Idle
  BY DEF IInv, ViewInv
<1>2. reader.commands = reader_view.origin.commands
  BY DEF IInv, ReaderInv, LoadsAreWhole
<1>3. \A k \in DOMAIN file_origin.commands : file_origin.commands[k] # Corrupt
  BY <1>1, StreamFacts DEF IInv, GeneratorInv
<1> QED
  BY <1>1, <1>2, <1>3 DEF validate_commands

LEMMA ProgramExits ==
    ASSUME IInv, NEW exit \in {"none", "usage", "runtime", "ok"}, Exits(exit)
    PROVE  /\ program' \in [name : {"none", "rejected", "run", "e2e"},
                            warmup : Nat \union {NotGiven},
                            exit : {"none", "usage", "runtime", "ok"}]
           /\ program'.name = program.name /\ program'.warmup = program.warmup
           /\ program'.exit = exit
BY DEF Exits, IInv, ProgramInv

LEMMA RejectInvocationKeeps ==
    ASSUME IInv, RejectInvocation
    PROVE  IInv'
<1>1. /\ UNCHANGED <<file, reader, generator, file_origin, sealed, reader_view, history>>
      /\ program' = [name |-> "rejected", warmup |-> NotGiven, exit |-> "usage"]
  BY DEF RejectInvocation, history
<1>2. ProgramInv'
  BY <1>1 DEF ProgramInv
<1> QED
  BY <1>1, <1>2, Frames DEF IInv

LEMMA OpenForReadingKeeps ==
    ASSUME IInv, NEW name \in {"run", "e2e"}, NEW warmup \in Nat \union {NotGiven},
           OpenForReading(name, warmup)
    PROVE  IInv'
<1>1. /\ UNCHANGED <<file, generator, file_origin, sealed>>
      /\ program.name = "none"
      /\ program' = [name |-> name, warmup |-> warmup,
                     exit |-> IF file.exists THEN "none" ELSE "runtime"]
      /\ reader' = IF file.exists THEN [reader EXCEPT !.pc = "header"] ELSE reader
      /\ reader_view' = [intact |-> file_origin # Idle, sealed |-> sealed, origin |-> file_origin]
  BY DEF OpenForReading
<1>2. reader.pc = "idle" /\ reader.commands = <<>>
  BY <1>1 DEF IInv, ProgramInv, ReaderInv
<1>3. /\ reader' \in [pc : {"idle", "header", "body", "loaded"}, error : Errors, config : Configs,
                      commands : Seq(Commands), remaining : Int, resized : Nat, arrived : Nat]
      /\ reader'.pc \in {"idle", "header"} /\ reader'.commands = <<>>
      /\ reader'.error = reader.error /\ reader'.resized = reader.resized
      /\ reader'.arrived = reader.arrived
  BY <1>1, <1>2 DEF IInv, ReaderInv
<1>4. /\ reader_view' \in [intact : BOOLEAN, sealed : BOOLEAN, origin : Writers]
      /\ reader_view'.intact = (file_origin # Idle) /\ reader_view'.sealed = sealed
      /\ reader_view'.origin = file_origin
  BY <1>1 DEF IInv, GeneratorInv, OriginInv
<1>5. sealed => file_origin # Idle /\ file.exists
  BY DEF IInv, OriginInv
<1>6. ViewInv'
  BY <1>1, <1>4, <1>5 DEF ViewInv
<1>7. ReaderInv'
  <2>1. /\ reader'.pc # "loaded" /\ reader'.pc # "body"
        /\ reader'.error = "None" /\ reader'.resized = Len(reader'.commands)
        /\ reader'.arrived = Len(reader'.commands)
    BY <1>2, <1>3 DEF IInv, ReaderInv
  <2>2. MemoryFollowsBytes'
    BY <1>2, <1>3 DEF IInv, ReaderInv, MemoryFollowsBytes
  <2>3. LoadsAreWhole'
    BY <2>1 DEF LoadsAreWhole
  <2> QED
    BY <1>3, <2>1, <2>2, <2>3 DEF ReaderInv
<1>8. ProgramInv'
  <2>1. /\ program' \in [name : {"none", "rejected", "run", "e2e"}, warmup : Nat \union {NotGiven},
                         exit : {"none", "usage", "runtime", "ok"}]
        /\ program'.name # "none" /\ program'.exit \notin {"ok", "usage"}
        /\ sealed => program'.exit = "none"
    BY <1>1, <1>5
  <2> QED
    BY <1>4, <2>1 DEF ProgramInv
<1> QED
  BY <1>1, <1>6, <1>7, <1>8, Frames DEF IInv

LEMMA StartKeeps ==
    ASSUME IInv, StartRun \/ StartE2e
    PROVE  IInv'
<1>1. CASE StartRun
  BY <1>1, OpenForReadingKeeps DEF StartRun
<1>2. CASE StartE2e
  <2>1. PICK args \in E2eArgs :
           ParsesE2e(args) /\ OpenForReading("e2e", ValueOf(args, "--warmup", NotGiven))
    BY <1>2 DEF StartE2e
  <2>2. ValueOf(args, "--warmup", NotGiven) \in Nat \union {NotGiven}
    BY <2>1, WarmupOfParsed
  <2> QED
    BY <2>1, <2>2, OpenForReadingKeeps
<1> QED
  BY <1>1, <1>2

LEMMA RefuseFileKeeps ==
    ASSUME IInv, RefuseFile
    PROVE  IInv'
<1>1. /\ UNCHANGED <<file, reader, generator, file_origin, sealed, reader_view, history>>
      /\ reader.pc = "loaded" /\ ~Loadable /\ Exits("runtime")
  BY DEF RefuseFile, Loaded, history
<1>2. ~reader_view.sealed
  BY <1>1, SealedLoads DEF Loadable
<1>3. ProgramInv'
  BY <1>1, <1>2, ProgramExits DEF IInv, ProgramInv
<1> QED
  BY <1>1, <1>3, Frames DEF IInv

LEMMA SubmitKeeps ==
    ASSUME IInv, Submit
    PROVE  IInv'
<1>1. /\ UNCHANGED <<file, reader, generator, file_origin, sealed, reader_view, history>>
      /\ reader.pc = "loaded" /\ Loadable /\ program.name = "run" /\ Exits("ok")
  BY DEF Submit, Accepted, Loaded, history
<1>2. Loadable'
  BY <1>1 DEF Loadable
<1>3. ProgramInv'
  BY <1>1, <1>2, ProgramExits DEF IInv, ProgramInv
<1> QED
  BY <1>1, <1>3, Frames DEF IInv

LEMMA WarmupType ==
    ASSUME IInv
    PROVE  /\ Ops \in Nat /\ Warmup \in Nat
           /\ UNCHANGED <<reader, program.warmup>> =>
                 /\ Ops' = Ops /\ Warmup' = Warmup /\ (validate_commands <=> validate_commands')
<1>1. PICK ops \in Nat : ops = Ops
  BY DEF IInv, ReaderInv, Ops
<1>2. ops \div 10 \in Nat
  OBVIOUS
<1>3. program.warmup \in Nat \union {NotGiven}
  BY DEF IInv, ProgramInv
<1>4. Warmup \in Nat
  BY <1>1, <1>2, <1>3 DEF Warmup
<1>5. ASSUME reader' = reader, program'.warmup = program.warmup
      PROVE  /\ Ops' = Ops /\ Warmup' = Warmup /\ (validate_commands <=> validate_commands')
  BY <1>5 DEF Ops, Warmup, validate_commands
<1> QED
  BY <1>1, <1>4, <1>5

LEMMA E2eKeeps ==
    ASSUME IInv, RefuseE2e \/ StartPipeline
    PROVE  IInv'
<1>1. /\ UNCHANGED <<file, reader, generator, file_origin, sealed, reader_view, history>>
      /\ reader.pc = "loaded" /\ Loadable /\ program.name = "e2e"
  BY DEF RefuseE2e, StartPipeline, Accepted, Loaded, history
<1>2. PICK exit \in {"usage", "runtime", "ok"} :
         /\ Exits(exit)
         /\ exit = "usage" => Warmup >= Ops
         /\ exit = "ok" => validate_commands /\ ~(Warmup >= Ops)
  <2>1. CASE RefuseE2e
    BY <2>1 DEF RefuseE2e, WarmupTooLong
  <2>2. CASE StartPipeline
    BY <2>2 DEF StartPipeline, WarmupTooLong
  <2> QED
    BY <2>1, <2>2
<1>3. /\ program' \in [name : {"none", "rejected", "run", "e2e"}, warmup : Nat \union {NotGiven},
                       exit : {"none", "usage", "runtime", "ok"}]
      /\ program'.name = "e2e" /\ program'.warmup = program.warmup
      /\ program'.exit = exit
  BY <1>1, <1>2, ProgramExits
<1>4. /\ Ops' = Ops /\ Warmup' = Warmup /\ (validate_commands <=> validate_commands')
      /\ Ops \in Nat /\ Warmup \in Nat
  BY <1>1, <1>3, WarmupType
<1>5. exit = "ok" => validate_commands' /\ Warmup' \in 0 .. Ops' - 1
  BY <1>2, <1>4
<1>6. exit = "usage" => Warmup' >= Ops'
  BY <1>2, <1>4
<1>7. Loadable' /\ reader'.pc = "loaded"
  BY <1>1 DEF Loadable
<1>8. ProgramInv'
  BY <1>3, <1>5, <1>6, <1>7 DEF ProgramInv
<1> QED
  BY <1>1, <1>8, Frames DEF IInv

-----------------------------------------------------------------------------
(* read_replay's steps.                                                     *)
ReaderType ==
    [pc : {"idle", "header", "body", "loaded"}, error : Errors, config : Configs,
     commands : Seq(Commands), remaining : Int, resized : Nat, arrived : Nat]

Reading == /\ reader.pc \in {"header", "body"}
           /\ UNCHANGED <<file, generator, program, file_origin, sealed, reader_view, history>>

LEMMA ReaderIsTyped == ReaderInv => reader \in ReaderType
BY DEF ReaderInv, ReaderType

LEMMA ReadingKeepsRest ==
    ASSUME IInv, Reading, ReaderInv'
    PROVE  IInv'
<1>1. ProgramInv'
  <2>1. program.exit # "ok" /\ program.name # "none"
    BY DEF Reading, IInv, ProgramInv
  <2>2. ~(program.exit = "usage" /\ program.name \in {"run", "e2e"})
    BY DEF Reading, IInv, ProgramInv
  <2>3. program' = program /\ reader_view' = reader_view
    BY DEF Reading
  <2> QED
    BY <2>1, <2>2, <2>3 DEF IInv, ProgramInv
<1> QED
  BY <1>1, Frames DEF IInv, Reading

LEMMA FailureKeeps ==
    ASSUME IInv, Reading, ~reader_view.sealed,
           reader' \in ReaderType, reader'.pc = "loaded", reader'.error # "None",
           reader'.commands = <<>>, reader'.resized <= reader'.arrived + kChunkCommands
    PROVE  IInv'
<1>1. reader_view' = reader_view
  BY DEF Reading
<1>2. ReaderInv'
  BY <1>1 DEF ReaderInv, ReaderType, LoadsAreWhole, MemoryFollowsBytes
<1> QED
  BY <1>2, ReadingKeepsRest

LEMMA FailedKeeps ==
    ASSUME IInv, Reading, ~reader_view.sealed, NEW error \in Errors \ {"None"}, Failed(error)
    PROVE  IInv'
<1>1. PICK old \in ReaderType : old = reader
  BY ReaderIsTyped DEF IInv
<1>2. PICK r1 : r1 = [old EXCEPT !.pc = "loaded"]
  OBVIOUS
<1>3. r1 \in ReaderType /\ r1.pc = "loaded" /\ r1.resized = old.resized /\ r1.arrived = old.arrived
  BY <1>2 DEF ReaderType
<1>4. PICK r2 : r2 = [r1 EXCEPT !.error = error]
  OBVIOUS
<1>5. /\ r2 \in ReaderType /\ r2.pc = "loaded" /\ r2.error = error
      /\ r2.resized = old.resized /\ r2.arrived = old.arrived
  BY <1>3, <1>4 DEF ReaderType
<1>6. PICK r3 : r3 = [r2 EXCEPT !.commands = <<>>]
  OBVIOUS
<1>7. /\ r3 \in ReaderType /\ r3.pc = "loaded" /\ r3.error = error /\ r3.commands = <<>>
      /\ r3.resized = old.resized /\ r3.arrived = old.arrived
  <2>1. <<>> \in Seq(Commands)
    OBVIOUS
  <2> QED
    BY <1>5, <1>6, <2>1 DEF ReaderType
<1>8. reader' = r3
  BY <1>1, <1>2, <1>4, <1>6 DEF Failed
<1>9. old.resized <= old.arrived + kChunkCommands
  BY <1>1 DEF IInv, ReaderInv, MemoryFollowsBytes
<1> QED
  BY <1>7, <1>8, <1>9, FailureKeeps

LEMMA SealedFile ==
    ASSUME IInv, reader_view.sealed
    PROVE  /\ reader_view.intact /\ reader_view.origin = file_origin /\ AllWritten
           /\ file_origin \in Writers /\ file.body = file_origin.commands
           /\ file.header = Header(file_origin.config, Len(file_origin.commands))
           /\ file.size >= HeaderSize
<1>1. /\ reader_view.intact /\ sealed /\ reader_view.origin = file_origin
      /\ file_origin # Idle /\ file_origin \in Writers
  BY DEF IInv, ViewInv, GeneratorInv
<1>2. /\ AllWritten /\ file.body = file_origin.commands
      /\ file.header = Header(file_origin.config, Len(file_origin.commands))
  BY <1>1 DEF IInv, OriginInv
<1>3. file.size >= HeaderSize
  <2>1. PICK n \in Nat : n = Len(file.body)
    BY WhatIsWhole DEF IInv
  <2>2. PICK c \in Nat : c = CommandSize
    OBVIOUS
  <2>3. n * c \in Nat
    OBVIOUS
  <2> QED
    BY <1>2, <2>1, <2>2, <2>3 DEF AllWritten, FileSize
<1> QED
  BY <1>1, <1>2, <1>3

LEMMA OriginHeader ==
    ASSUME IInv, reader_view.intact
    PROVE  /\ reader_view.origin = file_origin /\ file_origin # Idle /\ file_origin \in Writers
           /\ Len(file_origin.commands) \in Nat
           /\ file.header.config = file_origin.config
           /\ file.header.command_count = Len(file_origin.commands)
           /\ file.header.magic = kReplayMagic /\ file.header.version = kReplayFormatVersion
<1>1. reader_view.origin = file_origin /\ file_origin # Idle /\ file_origin \in Writers
  BY DEF IInv, ViewInv, GeneratorInv
<1>2. file.header = Header(file_origin.config, Len(file_origin.commands))
  BY <1>1 DEF IInv, OriginInv
<1>3. Len(file_origin.commands) \in Nat /\ file_origin.config \in Configs
  BY <1>1 DEF Writers
<1> QED
  BY <1>1, <1>2, <1>3, HeaderType

LEMMA ReadHeaderKeeps ==
    ASSUME IInv, Reading, ReadHeader
    PROVE  IInv'
<1>1. CASE file.size < HeaderSize /\ Failed("TruncatedHeader")
  <2>1. ~reader_view.sealed
    BY <1>1, SealedFile, WhatIsWhole DEF IInv
  <2> QED
    BY <1>1, <2>1, FailedKeeps DEF Errors
<1>2. CASE file.header.magic # kReplayMagic /\ Failed("BadMagic")
  <2>1. ~reader_view.sealed
    BY <1>2, SealedFile, OriginHeader
  <2> QED
    BY <1>2, <2>1, FailedKeeps DEF Errors
<1>3. CASE file.header.version # kReplayFormatVersion /\ Failed("UnsupportedVersion")
  <2>1. ~reader_view.sealed
    BY <1>3, SealedFile, OriginHeader
  <2> QED
    BY <1>3, <2>1, FailedKeeps DEF Errors
<1>4. CASE reader' = [reader EXCEPT !.pc = "body", !.config = file.header.config,
                                    !.remaining = file.header.command_count]
  <2>1. PICK old \in ReaderType : old = reader
    BY ReaderIsTyped DEF IInv
  <2>2. PICK header \in Headers : header = file.header
    BY DEF IInv, FileInv
  <2>3. PICK r1 : r1 = [old EXCEPT !.pc = "body"]
    OBVIOUS
  <2>4. /\ r1 \in ReaderType /\ r1.pc = "body" /\ r1.error = old.error
        /\ r1.commands = old.commands /\ r1.resized = old.resized /\ r1.arrived = old.arrived
    BY <2>3 DEF ReaderType
  <2>5. PICK r2 : r2 = [r1 EXCEPT !.config = header.config]
    OBVIOUS
  <2>6. /\ r2 \in ReaderType /\ r2.pc = "body" /\ r2.error = old.error /\ r2.config = header.config
        /\ r2.commands = old.commands /\ r2.resized = old.resized /\ r2.arrived = old.arrived
    BY <2>4, <2>5 DEF ReaderType, Headers
  <2>7. PICK r3 : r3 = [r2 EXCEPT !.remaining = header.command_count]
    OBVIOUS
  <2>8. /\ r3 \in ReaderType /\ r3.pc = "body" /\ r3.error = old.error /\ r3.config = header.config
        /\ r3.commands = old.commands /\ r3.resized = old.resized /\ r3.arrived = old.arrived
        /\ r3.remaining = header.command_count
    BY <2>6, <2>7 DEF ReaderType, Headers
  <2>9. reader' = r3
    BY <1>4, <2>1, <2>2, <2>3, <2>5, <2>7
  <2>10. /\ old.error = "None" /\ old.commands = <<>>
         /\ old.resized = Len(old.commands) /\ old.arrived = Len(old.commands)
    BY <2>1 DEF IInv, ReaderInv, ReadHeader
  <2>11. reader_view' = reader_view
    BY DEF Reading
  <2>12. ASSUME reader_view.intact PROVE ReadSoFar(reader_view.origin)'
    <3>1. PICK n \in Nat : n = Len(file_origin.commands)
      BY <2>12, OriginHeader
    <3>2. /\ reader_view.origin = file_origin
          /\ header.config = file_origin.config /\ header.command_count = n
      BY <2>2, <2>12, <3>1, OriginHeader
    <3>3. reader'.config = reader_view'.origin.config
      BY <2>8, <2>9, <2>11, <3>2
    <3>4. reader'.remaining = n /\ Len(reader'.commands) = 0
      BY <2>8, <2>9, <2>10, <3>2
    <3>5. Len(reader_view'.origin.commands) = n
      BY <2>11, <3>1, <3>2
    <3> QED
      BY <3>3, <3>4, <3>5 DEF ReadSoFar
  <2>13. MemoryFollowsBytes'
    BY <2>8, <2>9, <2>10 DEF MemoryFollowsBytes
  <2>14. LoadsAreWhole'
    BY <2>8, <2>9 DEF LoadsAreWhole
  <2>15. ReaderInv'
    BY <2>8, <2>9, <2>10, <2>11, <2>12, <2>13, <2>14 DEF ReaderInv, ReaderType
  <2> QED
    BY <2>15, ReadingKeepsRest
<1> QED
  BY <1>1, <1>2, <1>3, <1>4 DEF ReadHeader

(* The commands of an intact file are the origin's where it has any.        *)
LEMMA OriginBody ==
    ASSUME IInv, reader_view.intact
    PROVE  \A k \in 1 .. Len(file_origin.commands) : file.body[k] = file_origin.commands[k]
<1>1. file_origin # Idle /\ file_origin \in Writers
  BY OriginHeader
<1>2. \/ file.body = file_origin.commands
      \/ file.body = file_origin.commands \o <<Corrupt, Corrupt>>
  BY <1>1 DEF IInv, OriginInv
<1>3. file_origin.commands \in Seq(Commands)
  BY <1>1 DEF Writers
<1>4. <<Corrupt, Corrupt>> \in Seq(Commands)
  BY DEF Commands
<1>5. ASSUME NEW s \in Seq(Commands), NEW t \in Seq(Commands), NEW k \in 1 .. Len(s)
      PROVE  (s \o t)[k] = s[k]
  OBVIOUS
<1> QED
  BY <1>2, <1>3, <1>4, <1>5

LEMMA ChunkOf ==
    ASSUME NEW X, NEW body \in Seq(X), NEW n \in Nat, NEW m \in Nat, n + m <= Len(body)
    PROVE  /\ SubSeq(body, n + 1, n + m) \in Seq(X)
           /\ Len(SubSeq(body, n + 1, n + m)) = m
           /\ \A k \in 1 .. m : SubSeq(body, n + 1, n + m)[k] = body[n + k]
<1>1. PICK len \in Nat : len = Len(body) /\ n + m <= len
  OBVIOUS
<1>2. PICK a \in Int : a = n + 1
  OBVIOUS
<1>3. PICK b \in Int : b = n + m
  OBVIOUS
<1>4. b - a + 1 = m /\ 1 <= a /\ b <= len /\ (a <= b \/ m = 0)
  BY <1>1, <1>2, <1>3
<1>5. \A j \in a .. b : body[j] \in X
  <2>1. ASSUME NEW j \in a .. b PROVE j \in 1 .. len
    BY <1>2, <1>3, <1>4
  <2> QED
    BY <1>1, <2>1, SMTT(40)
<1>6. /\ SubSeq(body, a, b) \in Seq(X)
      /\ Len(SubSeq(body, a, b)) = IF a <= b THEN b - a + 1 ELSE 0
      /\ \A k \in 1 .. b - a + 1 : SubSeq(body, a, b)[k] = body[a + k - 1]
  <2>1. a \in Int /\ b \in Int
    BY <1>2, <1>3
  <2> QED
    BY ONLY <2>1, <1>5, SubSeqProperties, SMTT(30)
<1>7. Len(SubSeq(body, a, b)) = m
  BY <1>4, <1>6
<1>8. ASSUME NEW k \in 1 .. m PROVE SubSeq(body, a, b)[k] = body[n + k]
  <2>1. a + k - 1 = n + k
    BY <1>2
  <2> QED
    BY <1>4, <1>6, <2>1
<1> QED
  BY <1>2, <1>3, <1>6, <1>7, <1>8

(* A chunk appended to the front of the file is again its front.            *)
LEMMA FrontGrows ==
    ASSUME NEW X, NEW s \in Seq(X), NEW body \in Seq(X), NEW m \in Nat,
           NEW n \in Nat, n = Len(s), n + m <= Len(body),
           NEW longer, longer = s \o SubSeq(body, n + 1, n + m)
    PROVE  /\ longer \in Seq(X) /\ Len(longer) = n + m
           /\ \A k \in 1 .. n : longer[k] = s[k]
           /\ \A k \in n + 1 .. n + m : longer[k] = body[k]
<1>1. n = Len(s)
  OBVIOUS
<1>2. PICK chunk : chunk = SubSeq(body, n + 1, n + m)
  OBVIOUS
<1>4. /\ chunk \in Seq(X) /\ Len(chunk) = m
      /\ \A k \in 1 .. m : chunk[k] = body[n + k]
  <2>1. n + m <= Len(body)
    OBVIOUS
  <2>2. /\ SubSeq(body, n + 1, n + m) \in Seq(X)
        /\ Len(SubSeq(body, n + 1, n + m)) = m
        /\ \A k \in 1 .. m : SubSeq(body, n + 1, n + m)[k] = body[n + k]
    BY <2>1, ChunkOf, SMTT(30)
  <2> QED
    BY <1>2, <2>2, Zenon
<1>5. longer = s \o chunk
  BY <1>2
<1>6. /\ longer \in Seq(X) /\ Len(longer) = n + m
      /\ \A k \in 1 .. n : longer[k] = s[k]
      /\ \A k \in n + 1 .. n + m : longer[k] = chunk[k - n]
  <2>1. ASSUME NEW t \in Seq(X)
        PROVE  /\ s \o t \in Seq(X) /\ Len(s \o t) = Len(s) + Len(t)
               /\ \A k \in 1 .. Len(s) : (s \o t)[k] = s[k]
               /\ \A k \in Len(s) + 1 .. Len(s) + Len(t) : (s \o t)[k] = t[k - Len(s)]
    BY SMTT(40)
  <2>2. /\ s \o chunk \in Seq(X) /\ Len(s \o chunk) = Len(s) + Len(chunk)
        /\ \A k \in 1 .. Len(s) : (s \o chunk)[k] = s[k]
        /\ \A k \in Len(s) + 1 .. Len(s) + Len(chunk) : (s \o chunk)[k] = chunk[k - Len(s)]
    BY <1>4, <2>1
  <2> QED
    BY <1>1, <1>4, <1>5, <2>2, Zenon
<1>7. ASSUME NEW k \in n + 1 .. n + m PROVE longer[k] = body[k]
  <2>1. k - n \in 1 .. m /\ n + (k - n) = k
    BY <1>1
  <2> QED
    BY <1>4, <1>6, <2>1
<1> QED
  BY <1>1, <1>2, <1>5, <1>6, <1>7

LEMMA SameSequence ==
    ASSUME NEW X, NEW s \in Seq(X), NEW t \in Seq(X), NEW n \in Nat,
           Len(s) = n, Len(t) = n, \A k \in 1 .. n : s[k] = t[k]
    PROVE  s = t
<1>1. s \in [1 .. n -> X] /\ t \in [1 .. n -> X]
  OBVIOUS
<1>2. \A f, g \in [1 .. n -> X] : (\A k \in 1 .. n : f[k] = g[k]) => f = g
  OBVIOUS
<1> QED
  BY <1>1, <1>2

LEMMA TakeType ==
    ASSUME ReaderInv, reader.remaining > 0
    PROVE  /\ Take \in Nat \ {0} /\ Take <= reader.remaining /\ Take <= kChunkCommands
           /\ reader.remaining - Take \in Nat
<1>1. PICK n \in Int : n = reader.remaining
  BY DEF ReaderInv
<1> QED
  BY <1>1 DEF Take, Least

LEMMA ReadChunkKeeps ==
    ASSUME IInv, Reading, ReadChunk
    PROVE  IInv'
<1>1. PICK old \in ReaderType : old = reader
  BY ReaderIsTyped DEF IInv
<1>2. PICK take \in Nat \ {0} : take = Take
  BY TakeType DEF IInv, ReadChunk
<1>3. take <= kChunkCommands /\ take <= old.remaining
  BY <1>1, <1>2, TakeType DEF IInv, ReadChunk
<1>4. PICK n \in Nat : n = Len(old.commands)
  BY DEF ReaderType
<1>5. PICK left \in Nat : left = old.remaining - take
  BY <1>1, <1>2, TakeType DEF IInv, ReadChunk
<1>6. PICK body \in Seq(Commands) : body = file.body
  BY DEF IInv, FileInv
<1>7. /\ old.pc = "body" /\ old.error = "None" /\ old.resized = n /\ old.arrived = n
  BY <1>1, <1>4 DEF ReadChunk, IInv, ReaderInv
<1>8. reader_view' = reader_view
  BY DEF Reading
<1>9. PICK whole \in Int : whole = WholeCommands /\ whole <= Len(body)
  BY <1>6, WhatIsWhole DEF IInv
<1>10. ASSUME reader_view.intact
       PROVE  /\ ReadSoFar(reader_view.origin)
              /\ reader_view.origin = file_origin
              /\ n + take + left = Len(file_origin.commands)
  <2>1. ReadSoFar(reader_view.origin) /\ reader_view.origin = file_origin
    BY <1>1, <1>7, <1>10, OriginHeader DEF IInv, ReaderInv
  <2>2. n + old.remaining = Len(file_origin.commands) /\ old.remaining \in Nat
    BY <1>1, <1>4, <2>1 DEF ReadSoFar
  <2>3. PICK remaining \in Nat : remaining = old.remaining
    BY <2>2
  <2>4. n + remaining = Len(file_origin.commands) /\ left = remaining - take
    BY <1>5, <2>2, <2>3
  <2>5. n + take + left = n + remaining
    BY <2>4
  <2> QED
    BY <2>1, <2>4, <2>5
<1>11. CASE whole < n + take
  <2>1. reader' = [reader EXCEPT !.pc = "loaded", !.error = "TruncatedBody",
                                 !.commands = <<>>, !.resized = n + take]
    BY <1>1, <1>2, <1>4, <1>9, <1>11 DEF ReadChunk
  <2>2. PICK r1 : r1 = [old EXCEPT !.pc = "loaded"]
    OBVIOUS
  <2>3. r1 \in ReaderType /\ r1.pc = "loaded" /\ r1.arrived = old.arrived
    BY <2>2 DEF ReaderType
  <2>4. PICK r2 : r2 = [r1 EXCEPT !.error = "TruncatedBody"]
    OBVIOUS
  <2>5. /\ r2 \in ReaderType /\ r2.pc = "loaded" /\ r2.error = "TruncatedBody"
        /\ r2.arrived = old.arrived
    BY <2>3, <2>4 DEF ReaderType, Errors
  <2>6. PICK r3 : r3 = [r2 EXCEPT !.commands = <<>>]
    OBVIOUS
  <2>7. /\ r3 \in ReaderType /\ r3.pc = "loaded" /\ r3.error = "TruncatedBody"
        /\ r3.arrived = old.arrived /\ r3.commands = <<>>
    <3>1. <<>> \in Seq(Commands)
      OBVIOUS
    <3> QED
      BY <2>5, <2>6, <3>1 DEF ReaderType
  <2>8. PICK sum \in Nat : sum = n + take
    OBVIOUS
  <2>9. PICK r4 : r4 = [r3 EXCEPT !.resized = sum]
    OBVIOUS
  <2>10. /\ r4 \in ReaderType /\ r4.pc = "loaded" /\ r4.error = "TruncatedBody"
         /\ r4.arrived = old.arrived /\ r4.commands = <<>> /\ r4.resized = sum
    BY <2>7, <2>9 DEF ReaderType
  <2>11. reader' = r4
    BY <1>1, <2>1, <2>2, <2>4, <2>6, <2>8, <2>9
  <2>12. ~reader_view.sealed
    <3> SUFFICES ASSUME reader_view.sealed PROVE FALSE
      OBVIOUS
    <3>1. whole = Len(body) /\ body = file_origin.commands
      BY <1>6, <1>9, SealedFile, WhatIsWhole DEF IInv
    <3>2. n + take + left = whole
      BY <1>10, <3>1, SealedFile
    <3> QED
      BY <1>11, <3>2
  <2>13. r4.resized <= r4.arrived + kChunkCommands
    BY <1>3, <1>7, <2>8, <2>10
  <2> QED
    BY <2>10, <2>11, <2>12, <2>13, FailureKeeps
<1>12. CASE ~(whole < n + take)
  <2>1. reader' = [reader EXCEPT
                    !.commands  = @ \o SubSeq(file.body, n + 1, n + take),
                    !.remaining = @ - take, !.resized = n + take, !.arrived = n + take]
    BY <1>1, <1>2, <1>4, <1>9, <1>12 DEF ReadChunk
  <2>2. PICK longer : longer = old.commands \o SubSeq(body, n + 1, n + take)
    OBVIOUS
  <2>3. /\ longer \in Seq(Commands) /\ Len(longer) = n + take
        /\ \A k \in 1 .. n : longer[k] = old.commands[k]
        /\ \A k \in n + 1 .. n + take : longer[k] = body[k]
    <3>1. PICK len \in Nat : len = Len(body)
      OBVIOUS
    <3>2. n + take <= len
      BY <1>9, <1>12, <3>1
    <3>3. old.commands \in Seq(Commands) /\ n + take <= Len(body) /\ take \in Nat
      BY <3>1, <3>2 DEF ReaderType
    <3>4. PICK front \in Seq(Commands) : front = old.commands
      BY <3>3
    <3>5. n = Len(front) /\ longer = front \o SubSeq(body, n + 1, n + take)
      BY <1>4, <2>2, <3>4
    <3>6. /\ longer \in Seq(Commands) /\ Len(longer) = n + take
          /\ \A k \in 1 .. n : longer[k] = front[k]
          /\ \A k \in n + 1 .. n + take : longer[k] = body[k]
      <4>1. body \in Seq(Commands) /\ n \in Nat /\ take \in Nat /\ n + take <= Len(body)
        BY <3>3
      <4> QED
        BY <3>5, <4>1, FrontGrows, SMTT(40)
    <3> QED
      BY <3>4, <3>6
  <2>4. PICK sum \in Nat : sum = n + take
    OBVIOUS
  <2>5. PICK r1 : r1 = [old EXCEPT !.commands = longer]
    OBVIOUS
  <2>6. /\ r1 \in ReaderType /\ r1.pc = "body" /\ r1.error = "None" /\ r1.commands = longer
        /\ r1.config = old.config
    BY <1>7, <2>3, <2>5 DEF ReaderType
  <2>7. PICK r2 : r2 = [r1 EXCEPT !.remaining = left]
    OBVIOUS
  <2>8. /\ r2 \in ReaderType /\ r2.pc = "body" /\ r2.error = "None" /\ r2.commands = longer
        /\ r2.config = old.config /\ r2.remaining = left
    <3>1. left \in Int
      OBVIOUS
    <3>2. r2 \in ReaderType
      BY <2>6, <2>7, <3>1 DEF ReaderType
    <3> QED
      BY <2>6, <2>7, <3>2 DEF ReaderType
  <2>9. PICK r3 : r3 = [r2 EXCEPT !.resized = sum]
    OBVIOUS
  <2>10. /\ r3 \in ReaderType /\ r3.pc = "body" /\ r3.error = "None" /\ r3.commands = longer
         /\ r3.config = old.config /\ r3.remaining = left /\ r3.resized = sum
    BY <2>8, <2>9 DEF ReaderType
  <2>11. PICK r4 : r4 = [r3 EXCEPT !.arrived = sum]
    OBVIOUS
  <2>12. /\ r4 \in ReaderType /\ r4.pc = "body" /\ r4.error = "None" /\ r4.commands = longer
         /\ r4.config = old.config /\ r4.remaining = left /\ r4.resized = sum
         /\ r4.arrived = sum
    BY <2>10, <2>11 DEF ReaderType
  <2>13. reader' = r4
    BY <1>1, <1>5, <1>6, <2>1, <2>2, <2>4, <2>5, <2>7, <2>9, <2>11
  <2>14. ASSUME reader_view.intact PROVE ReadSoFar(reader_view.origin)'
    <3>1. PICK origin \in Writers : origin = file_origin
      BY <2>14, OriginHeader
    <3>2. PICK total \in Nat : total = Len(origin.commands)
      BY DEF Writers
    <3>3. /\ reader_view.origin = origin /\ n + take + left = total
          /\ old.config = origin.config
          /\ \A k \in 1 .. n : old.commands[k] = origin.commands[k]
      BY <1>1, <1>4, <1>10, <2>14, <3>1, <3>2 DEF ReadSoFar
    <3>4. \A k \in 1 .. total : body[k] = origin.commands[k]
      BY <1>6, <2>14, <3>1, <3>2, OriginBody
    <3>5. ASSUME NEW k \in 1 .. n + take PROVE longer[k] = origin.commands[k]
      <4>1. CASE k \in 1 .. n
        BY <2>3, <3>3, <4>1
      <4>2. CASE k \notin 1 .. n
        <5>1. k \in n + 1 .. n + take /\ k \in 1 .. total
          BY <3>3, <4>2, SMTT(40)
        <5> QED
          BY <2>3, <3>4, <5>1
      <4> QED
        BY <4>1, <4>2
    <3>6. reader'.config = origin.config /\ reader'.remaining = left /\ reader'.commands = longer
      BY <2>12, <2>13, <3>3
    <3>7. (n + take) + left = total
      BY <3>3
    <3>8. reader_view'.origin = origin
      BY <1>8, <3>3
    <3> QED
      BY <2>3, <3>2, <3>5, <3>6, <3>7, <3>8 DEF ReadSoFar
  <2>15. MemoryFollowsBytes'
    BY <2>12, <2>13 DEF MemoryFollowsBytes
  <2>16. LoadsAreWhole'
    BY <2>12, <2>13 DEF LoadsAreWhole
  <2>17. ReaderInv'
    <3>1. Len(longer) = sum
      BY <2>3, <2>4
    <3> QED
      BY <1>8, <2>12, <2>13, <2>14, <2>15, <2>16, <3>1 DEF ReaderInv, ReaderType
  <2> QED
    BY <2>17, ReadingKeepsRest
<1> QED
  BY <1>11, <1>12

LEMMA PeekKeeps ==
    ASSUME IInv, Reading, Peek
    PROVE  IInv'
<1>1. PICK old \in ReaderType : old = reader
  BY ReaderIsTyped DEF IInv
<1>2. PICK n \in Nat : n = Len(old.commands)
  BY DEF ReaderType
<1>3. /\ old.pc = "body" /\ old.remaining = 0 /\ old.error = "None"
      /\ old.resized = n /\ old.arrived = n
  BY <1>1, <1>2 DEF Peek, IInv, ReaderInv
<1>4. reader_view' = reader_view
  BY DEF Reading
<1>5. ASSUME reader_view.intact
      PROVE  /\ reader_view.origin = file_origin /\ old.config = file_origin.config
             /\ old.commands = file_origin.commands
  <2>1. PICK origin \in Writers : origin = file_origin /\ reader_view.origin = origin
    BY <1>5, OriginHeader
  <2>2. PICK total \in Nat : total = Len(origin.commands)
    BY DEF Writers
  <2>3. /\ old.config = origin.config /\ n + 0 = total
        /\ \A k \in 1 .. n : old.commands[k] = origin.commands[k]
    BY <1>1, <1>2, <1>3, <1>5, <2>1, <2>2 DEF IInv, ReaderInv, ReadSoFar
  <2>4. n = total
    BY <2>3
  <2>5. old.commands \in Seq(Commands) /\ origin.commands \in Seq(Commands)
    BY DEF ReaderType, Writers
  <2>6. old.commands = origin.commands
    <3>1. Len(old.commands) = n /\ Len(origin.commands) = n
      BY <1>2, <2>2, <2>4
    <3>2. \A k \in 1 .. n : old.commands[k] = origin.commands[k]
      BY <2>3
    <3> QED
      BY <2>5, <3>1, <3>2, SameSequence
  <2> QED
    BY <2>1, <2>3, <2>6
<1>6. CASE file.size > HeaderSize + Len(reader.commands) * CommandSize
  <2>1. ~reader_view.sealed
    <3> SUFFICES ASSUME reader_view.sealed PROVE FALSE
      OBVIOUS
    <3>1. /\ AllWritten /\ file.body = old.commands
      BY <1>5, SealedFile
    <3>2. file.size = HeaderSize + Len(reader.commands) * CommandSize
      BY <1>1, <3>1 DEF AllWritten, FileSize
    <3>3. file.size \in Nat
      BY WhatIsWhole DEF IInv
    <3> QED
      BY <1>6, <3>2, <3>3
  <2> QED
    BY <1>6, <2>1, FailedKeeps DEF Peek, Errors
<1>7. CASE ~(file.size > HeaderSize + Len(reader.commands) * CommandSize)
  <2>1. reader' = [old EXCEPT !.pc = "loaded"]
    BY <1>1, <1>7 DEF Peek
  <2>2. /\ reader' \in ReaderType /\ reader'.pc = "loaded" /\ reader'.error = "None"
        /\ reader'.config = old.config /\ reader'.commands = old.commands
        /\ reader'.resized = n /\ reader'.arrived = n
    BY <1>3, <2>1 DEF ReaderType
  <2>3. LoadsAreWhole'
    BY <1>4, <1>5, <2>2 DEF LoadsAreWhole
  <2>4. MemoryFollowsBytes'
    BY <2>2 DEF MemoryFollowsBytes
  <2>5. ReaderInv'
    BY <2>2, <2>3, <2>4 DEF ReaderInv, ReaderType
  <2> QED
    BY <2>5, ReadingKeepsRest
<1> QED
  BY <1>6, <1>7

LEMMA ReadKeeps ==
    ASSUME IInv, Read
    PROVE  IInv'
<1>1. Reading
  BY DEF Read, ReadStep, ReadHeader, ReadChunk, Peek, Reading, history
<1> QED
  BY <1>1, ReadHeaderKeeps, ReadChunkKeeps, PeekKeeps DEF Read, ReadStep

-----------------------------------------------------------------------------
LEMMA StepKeeps ==
    ASSUME IInv, [ToolNext]_toolVars
    PROVE  IInv'
<1>1. ASSUME NEW args \in GenerateArgs,
             RejectArguments(args) \/ ReserveThrows(args) \/ GenerateStream(args)
      PROVE  IInv'
  BY <1>1, RejectKeeps, GenerateKeeps
<1>2. CASE Generating
  BY <1>2, OpenKeeps, AbandonKeeps, WriteKeeps, ReportKeeps DEF Generating
<1>3. CASE Killed
  BY <1>3, AbandonKeeps
<1>4. CASE CutFile \/ ExtendFile \/ AlterFile
  BY <1>4, CutKeeps, ExtendKeeps, AlterKeeps
<1>5. CASE RejectInvocation \/ StartRun \/ StartE2e
  BY <1>5, RejectInvocationKeeps, StartKeeps
<1>6. CASE Loading
  BY <1>6, ReadKeeps, RefuseFileKeeps, SubmitKeeps, E2eKeeps DEF Loading
<1>7. CASE UNCHANGED toolVars
  BY <1>7, StutterKeeps
<1> QED
  BY <1>1, <1>2, <1>3, <1>4, <1>5, <1>6, <1>7 DEF ToolNext, Generate, Load

LEMMA ToolKeepsInvariant == ToolSpec => []IInv
<1>1. IInv /\ [ToolNext]_toolVars => IInv'
  BY StepKeeps
<1> QED
  BY InitEstablishes, <1>1, PTL DEF ToolSpec

(* Whatever becomes of the file while it is read, read_replay delivers no   *)
(* command with an error, and of a file one writer wrote all it wrote.      *)
THEOREM LoadsStayWhole == ToolSpec => []LoadsAreWhole
<1>1. IInv => LoadsAreWhole
  BY DEF IInv, ReaderInv
<1> QED
  BY ToolKeepsInvariant, <1>1, PTL

(* The vector read_replay grows is never more than a chunk longer than what *)
(* has arrived, for every header.                                           *)
THEOREM MemoryStaysBounded == ToolSpec => []MemoryFollowsBytes
<1>1. IInv => MemoryFollowsBytes
  BY DEF IInv, ReaderInv
<1> QED
  BY ToolKeepsInvariant, <1>1, PTL

(* What lob_replay run and the end-to-end pipeline start with is what they  *)
(* take for granted.                                                        *)
THEOREM StartsAreSound == ToolSpec => []WhatStartsIsSound
<1>1. ASSUME IInv PROVE WhatStartsIsSound
  <2> SUFFICES ASSUME program.exit = "ok" PROVE WhatStartsIsSound
    BY DEF WhatStartsIsSound
  <2>1. /\ reader.pc = "loaded" /\ Loadable
        /\ program.name = "e2e" => validate_commands /\ Warmup \in 0 .. Ops - 1
    BY <1>1 DEF IInv, ProgramInv
  <2>2. reader_view.intact => validate_commands
    BY <1>1, <2>1, IntactLoads DEF Loadable
  <2> QED
    BY <2>1, <2>2 DEF WhatStartsIsSound, Loadable
<1>2. IInv => WhatStartsIsSound
  BY <1>1
<1> QED
  BY ToolKeepsInvariant, <1>2, PTL

(* A file generate reported written and nobody touched is never refused.    *)
THEOREM WrittenFilesAlwaysReplay == ToolSpec => []WrittenFilesReplay
<1>1. ASSUME IInv PROVE WrittenFilesReplay
  <2> SUFFICES ASSUME program.name \in {"run", "e2e"}, reader_view.sealed
               PROVE  WrittenFilesReplay
    BY DEF WrittenFilesReplay
  <2>1. reader.pc = "loaded" => reader.error = "None" /\ validate_engine_config(reader.config)
    BY <1>1, SealedLoads
  <2>2. /\ program.name = "run" => program.exit \in {"none", "ok"}
        /\ program.exit = "usage" => Warmup >= Ops
    BY <1>1 DEF IInv, ProgramInv
  <2> QED
    BY <2>1, <2>2 DEF WrittenFilesReplay
<1>2. IInv => WrittenFilesReplay
  BY <1>1
<1> QED
  BY ToolKeepsInvariant, <1>2, PTL
=============================================================================
