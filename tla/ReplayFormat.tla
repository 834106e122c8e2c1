----------------------------- MODULE ReplayFormat ----------------------------
(***************************************************************************)
(* include/lob/replay_format.h: write_replay and read_replay over one file *)
(* on disk.  Sizes are counted in abstract bytes, so that a file may end   *)
(* anywhere, in its header, between two commands or within one.            *)
(*                                                                         *)
(* file.header and file.body are what the bytes say, file.size how many of *)
(* them are there; body may go beyond size by what is still to arrive.     *)
(* reader is read_replay's result and locals; each in.read is one step, on *)
(* the file as it then is.  reader.arrived is history, the commands read.  *)
(***************************************************************************)
EXTENDS Integers, Sequences

CONSTANTS HeaderSize,      \* sizeof(ReplayHeader)
          CommandSize,     \* sizeof(Command)
          kChunkCommands,  \* commands read at a time
          NoConfig,        \* no configuration, as before any was read
          Corrupt          \* a command no writer has written, of an unknown kind

ASSUME FormatAssumption ==
    {HeaderSize, CommandSize, kChunkCommands} \subseteq Nat \ {0}

VARIABLES file, reader

kReplayMagic == "LOBRPLY"

kReplayFormatVersion == 1

Header(config, count) ==
    [magic |-> kReplayMagic, version |-> kReplayFormatVersion,
     command_count |-> count, config |-> config]

FileSize(commands) == HeaderSize + Len(commands) * CommandSize

-----------------------------------------------------------------------------
(* The file as it will be once all of write_replay's bytes have reached it, *)
(* and as it is before the first has.                                       *)
NewFile(config, commands) ==
    [exists |-> TRUE, header |-> Header(config, Len(commands)), body |-> commands, size |-> 0]

NoFile == [exists |-> FALSE, header |-> Header(NoConfig, 0), body |-> <<>>, size |-> 0]

(* Some bytes of the writer's stream reach the file.                        *)
WriteMore ==
    \E size \in file.size + 1 .. FileSize(file.body) : file' = [file EXCEPT !.size = size]

AllWritten == file.size = FileSize(file.body)

-----------------------------------------------------------------------------
NoReader ==
    [pc |-> "idle", error |-> "None", config |-> NoConfig, commands |-> <<>>, remaining |-> 0,
     resized |-> 0, arrived |-> 0]

Least(a, b) == IF a < b THEN a ELSE b

(* Commands whose bytes are all there.                                      *)
WholeCommands ==
    Least(Len(file.body), (file.size - HeaderSize) \div CommandSize)

Failed(error) ==
    reader' = [reader EXCEPT !.pc = "loaded", !.error = error, !.commands = <<>>]

ReadHeader ==
    /\ reader.pc = "header"
    /\ \/ file.size < HeaderSize /\ Failed("TruncatedHeader")
       \/ /\ file.size >= HeaderSize
          /\ file.header.magic # kReplayMagic
          /\ Failed("BadMagic")
       \/ /\ file.size >= HeaderSize
          /\ file.header.magic = kReplayMagic
          /\ file.header.version # kReplayFormatVersion
          /\ Failed("UnsupportedVersion")
       \/ /\ file.size >= HeaderSize
          /\ file.header.magic = kReplayMagic
          /\ file.header.version = kReplayFormatVersion
          /\ reader' = [reader EXCEPT !.pc = "body", !.config = file.header.config,
                                      !.remaining = file.header.command_count]
    /\ UNCHANGED file

(* A plausible bug: the vector is resized to what the header promises.      *)
TakeAll == reader.remaining

Take == Least(reader.remaining, kChunkCommands)

(* Plausible bugs: a chunk of which anything arrived is taken for whole, ...*)
ReadChunkLenient ==
    /\ reader.pc = "body" /\ reader.remaining > 0
    /\ LET read    == Len(reader.commands)
           resized == read + Take
       IN  \/ WholeCommands <= read /\ Failed("TruncatedBody")
           \/ /\ WholeCommands > read
              /\ reader' = [reader EXCEPT
                    !.commands  = SubSeq(file.body, 1, Least(resized, WholeCommands)),
                    !.remaining = @ - Take, !.resized = resized, !.arrived = resized]
    /\ UNCHANGED file

(* ... or the reader waits at the end of the file for more.                 *)
ReadChunkWaiting ==
    /\ reader.pc = "body" /\ reader.remaining > 0
    /\ WholeCommands >= Len(reader.commands) + Take
    /\ reader' = [reader EXCEPT
          !.commands  = @ \o SubSeq(file.body, Len(@) + 1, Len(@) + Take),
          !.remaining = @ - Take, !.resized = Len(reader.commands) + Take,
          !.arrived = Len(reader.commands) + Take]
    /\ UNCHANGED file

(* One turn of the loop: grow the vector by a chunk, then read into it.     *)
ReadChunk ==
    /\ reader.pc = "body" /\ reader.remaining > 0
    /\ LET read    == Len(reader.commands)
           resized == read + Take
       IN  IF WholeCommands < resized
           THEN reader' = [reader EXCEPT !.pc = "loaded", !.error = "TruncatedBody",
                                         !.commands = <<>>, !.resized = resized]
           ELSE reader' = [reader EXCEPT
                    !.commands  = @ \o SubSeq(file.body, read + 1, resized),
                    !.remaining = @ - Take, !.resized = resized, !.arrived = resized]
    /\ UNCHANGED file

(* peek(): the file must end where the commands do.                         *)
Peek ==
    /\ reader.pc = "body" /\ reader.remaining = 0
    /\ IF file.size > HeaderSize + Len(reader.commands) * CommandSize
       THEN Failed("TrailingBytes")
       ELSE reader' = [reader EXCEPT !.pc = "loaded"]
    /\ UNCHANGED file

ReadStep == ReadHeader \/ ReadChunk \/ Peek

-----------------------------------------------------------------------------
(* What may become of a file between two programs: it is cut short, ...     *)
Cut ==
    \E size \in 0 .. file.size - 1 : file' = [file EXCEPT !.size = size]

(* ... bytes are appended, which complete a command that was cut with what  *)
(* it never held, ...                                                       *)
Extend ==
    /\ file.size >= HeaderSize
    /\ \E extra \in 1 .. CommandSize :
          file' = [file EXCEPT
              !.size = @ + extra,
              !.body = SubSeq(@, 1, WholeCommands) \o <<Corrupt, Corrupt>>]

(* ... or bytes change where they stand.                                    *)
AlterHeader(header) ==
    /\ file.size >= HeaderSize /\ header # file.header
    /\ file' = [file EXCEPT !.header = header]

AlterCommand ==
    \E k \in 1 .. WholeCommands : file' = [file EXCEPT !.body[k] = Corrupt]
=============================================================================
