--------------------------- MODULE AppendOnlyFile ---------------------------
(***************************************************************************)
(* AofLogger (aof.cpp) over the bytes of its file: what Append leaves there *)
(* when the disk refuses a write or the process or the machine stops in    *)
(* the middle of one, and what Replay makes of it at the next start.       *)
(***************************************************************************)
EXTENDS RespCodec

CONSTANTS
    Commands,   \* the writes that are logged
    Faults,     \* what may go wrong: "refused", "torn" or "power"
    Null,       \* no command
    MaxAppends, \* bound: commands acknowledged
    MaxFaults   \* bound: things gone wrong

\* A command that is logged came out of a decoder, and its name is one of those
\* that IsWriteCommand knows.
ASSUME CommandsAssumption ==
    \A cmd \in Commands :
        cmd \in Seq(Seq(STRING)) /\ Len(cmd) \in 1 .. MaxArray /\ cmd[1] # << >>

ASSUME NullAssumption == Null \notin Commands

ASSUME FaultsAssumption == Faults \subseteq {"refused", "torn", "power"}

ASSUME BoundsAssumption == MaxAppends \in Nat /\ MaxFaults \in Nat

VARIABLES
    up,         \* the process runs
    file,       \* the bytes of appendonly.aof
    pending,    \* the command that file_ failed to write, or Null while it is good
    replayed,   \* the commands that the process replayed when it started
    \* History:
    acked,      \* the commands whose clients were answered
    intact,     \* the commands that are in the file as they were written
    torn,       \* behind them there is a piece of a command
    behind,     \* and, perhaps, something else behind that
    faults      \* the number of things gone wrong

vars == <<up, file, pending, replayed, acked, intact, torn, behind, faults>>

Init ==
    /\ up = FALSE
    /\ file = << >>
    /\ pending = Null
    /\ replayed = << >>
    /\ acked = << >>
    /\ intact = << >>
    /\ torn = FALSE
    /\ behind = FALSE
    /\ faults = 0

-----------------------------------------------------------------------------

\* Those of the first i commands that have a name.
Named(cmds) ==
    LET named[i \in 0 .. Len(cmds)] ==
            IF i = 0 THEN << >>
            ELSE IF cmds[i][1] = << >> THEN named[i - 1] ELSE Append(named[i - 1], cmds[i])
    IN  named

\* A mutant: Replay does not look at the name.
CalledAll(cmds) == cmds

Called(cmds) == Named(cmds)[Len(cmds)]

\* Replay: the whole file through one decoder; a command without a name is skipped.
Replay(bytes) == Called(Feed(<< >>, bytes).cmds)

\* A mutant: Open without ios::app.
StartTruncating ==
    /\ ~ up
    /\ up' = TRUE
    /\ pending' = Null
    /\ file' = << >>
    /\ replayed' = Replay(file')
    /\ UNCHANGED <<acked, intact, torn, behind, faults>>

\* Open, at the end of the file, and Replay.
Start ==
    /\ ~ up
    /\ up' = TRUE
    /\ pending' = Null
    /\ replayed' = Replay(file)
    /\ UNCHANGED <<file, acked, intact, torn, behind, faults>>

\* The first n bytes of a command reach the file.
Written(cmd, n) ==
    LET whole == n = Len(Encode(cmd))
    IN  /\ file' = file \o SubSeq(Encode(cmd), 1, n)
        /\ intact' = IF ~ torn /\ whole THEN Append(intact, cmd) ELSE intact
        /\ torn' = (torn \/ (~ whole /\ n > 0))
        /\ behind' = (behind \/ (torn /\ n > 0))

\* AofLogger::Append, and the reply.  Nothing is written to a stream that has
\* failed, and nobody is told.
AppendCommand(cmd) ==
    /\ up
    /\ Len(acked) < MaxAppends
    /\ acked' = Append(acked, cmd)
    /\ \/ /\ pending = Null
          /\ Written(cmd, Len(Encode(cmd)))
          /\ UNCHANGED <<pending, faults>>
       \/ pending # Null /\ UNCHANGED <<file, pending, intact, torn, behind, faults>>
    /\ UNCHANGED <<up, replayed>>

\* The disk takes a part of a command, or nothing, and file_ fails; it keeps the
\* bytes in its buffer.
Refused(cmd) ==
    /\ "refused" \in Faults /\ faults < MaxFaults
    /\ up
    /\ pending = Null
    /\ Len(acked) < MaxAppends
    /\ acked' = Append(acked, cmd)
    /\ \E n \in 0 .. Len(Encode(cmd)) - 1 : Written(cmd, n)
    /\ pending' = cmd
    /\ faults' = faults + 1
    /\ UNCHANGED <<up, replayed>>

\* Stop, or the end of the process.  To close file_ is to try once more what is in
\* its buffer.
Stop ==
    /\ up
    /\ up' = FALSE
    /\ IF pending = Null THEN UNCHANGED <<file, intact, torn, behind>>
       ELSE \E n \in 0 .. Len(Encode(pending)) : Written(pending, n)
    /\ pending' = Null
    /\ replayed' = << >>
    /\ UNCHANGED <<acked, faults>>

\* The process is killed between two commands.
Crash ==
    /\ up
    /\ up' = FALSE
    /\ pending' = Null
    /\ replayed' = << >>
    /\ UNCHANGED <<file, acked, intact, torn, behind, faults>>

\* It is killed before it answers, when any part of the command has been written.
CrashInAppend(cmd) ==
    /\ "torn" \in Faults /\ faults < MaxFaults
    /\ up
    /\ pending = Null
    /\ Len(acked) < MaxAppends
    /\ \E n \in 0 .. Len(Encode(cmd)) : Written(cmd, n)
    /\ up' = FALSE
    /\ faults' = faults + 1
    /\ replayed' = << >>
    /\ UNCHANGED <<pending, acked>>

\* The number of the commands in intact that end within the first n bytes.
Kept(n) ==
    Cardinality({i \in 1 .. Len(intact) :
                    Len(FlattenSeq([j \in 1 .. i |-> Encode(intact[j])])) <= n})

\* The machine stops.  Append does not wait for the disk, so that any end of the
\* file may be lost.
PowerLoss ==
    /\ "power" \in Faults /\ faults < MaxFaults
    /\ \E n \in 0 .. Len(file) :
          LET rest == n - Len(FlattenSeq([j \in 1 .. Kept(n) |-> Encode(intact[j])]))
          IN  /\ file' = SubSeq(file, 1, n)
              /\ intact' = SubSeq(intact, 1, Kept(n))
              /\ torn' = (rest > 0)
              /\ behind' = (behind /\ rest > 0 /\ Kept(n) = Len(intact))
    /\ up' = FALSE
    /\ pending' = Null
    /\ replayed' = << >>
    /\ faults' = faults + 1
    /\ UNCHANGED acked

Next ==
    \/ Start \/ Stop \/ Crash \/ PowerLoss
    \/ \E cmd \in Commands : AppendCommand(cmd) \/ Refused(cmd) \/ CrashInAppend(cmd)

Spec == Init /\ [][Next]_vars

-----------------------------------------------------------------------------

\* Types; and no command without a name has been replayed, such as the words behind a
\* torn command may be read as (aof.cpp:48).
TypeOK ==
    /\ file \in Seq(STRING)
    /\ pending \in Commands \cup {Null}
    /\ pending # Null => up
    /\ {acked, intact} \subseteq Seq(Commands)
    /\ behind => torn
    /\ replayed \in Seq(Seq(Seq(STRING)))
    /\ \A i \in 1 .. Len(replayed) : replayed[i][1] # << >>

\* At a start the commands that are in the file as they were written are replayed
\* first and in order, whatever became of the rest of it; and a command that was
\* cut off at the end of the file is not replayed, as a piece or as another one.
IntactReplayed ==
    [][~ up /\ up' =>
         IsPrefix(intact, replayed') /\ (behind \/ replayed' = intact)]_vars

\* Until something goes wrong, however often the server is stopped or killed, a
\* start replays exactly what has been acknowledged.
WritesSurvive == [][~ up /\ up' /\ faults = 0 => replayed' = acked]_vars

\* What the README says of the log: writes are appended to it and replayed at the
\* next start.
AckedReplayed ==
    [][~ up /\ up' =>
         \A i \in 1 .. Len(acked) : \E j \in 1 .. Len(replayed') : replayed'[j] = acked[i]]_vars
=============================================================================
