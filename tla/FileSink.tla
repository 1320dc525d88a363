------------------------------ MODULE FileSink ------------------------------
(***************************************************************************)
(* The logger of the server: a file per level that is written behind, one  *)
(* chunk at a time, and the console, whose lines leave once in a turn.     *)
(* A line is one cell of its file.  The thread pool takes a chunk in       *)
(* parts, may refuse it, and may do so after a blocking flush has written  *)
(* the same chunk itself.                                                  *)
(***************************************************************************)
EXTENDS Naturals, Sequences, SequencesExt, FiniteSetsExt

CONSTANTS
    Levels,         \* the levels that are logged
    MaxLines,       \* bound: lines of a run
    BufferLimit,    \* LOG_MAX_BUFFER_SIZE
    QueueLimit,     \* LOG_MAX_QUEUE_SIZE
    FlushMayFail    \* a blocking write may fail too

VARIABLES
    behind,     \* flushInterval is not 0
    accepted,   \* the level of each line that was not dropped, in order
    buffers,    \* the lines that wait, per level
    files,      \* the LogFile per level
    disk,       \* what the file holds, per level: a line per cell, 0 is a hole
    pool,       \* the write operations of the thread pool
    timer,      \* flushTimer is set
    console,    \* lines that wait for the end of the turn
    printed,    \* lines the console has
    immediates, \* flushes of the console that are scheduled
    lost,       \* lines of chunks that could not be written
    ended       \* the process is gone

vars == <<behind, accepted, buffers, files, disk, pool, timer, console, printed,
          immediates, lost, ended>>
consoleVars == <<console, printed, immediates>>

Init ==
    /\ behind \in BOOLEAN
    /\ accepted = <<>>
    /\ buffers = [l \in Levels |-> <<>>]
    /\ files = [l \in Levels |->
                   [opened |-> FALSE, offset |-> 0, pending |-> <<>>, position |-> 0]]
    /\ disk = [l \in Levels |-> <<>>]
    /\ pool = {}
    /\ timer = FALSE
    /\ console = <<>> /\ printed = <<>> /\ immediates = 0
    /\ lost = {}
    /\ ended = FALSE

Size(lines) == FoldSet(LAMBDA l, n : n + Len(lines[l]), 0, Levels)

(* a chunk written to the cells behind `position`                          *)
Overwritten(cells, chunk, position) ==
    [i \in 1..(IF Len(cells) > position + Len(chunk) THEN Len(cells)
               ELSE position + Len(chunk)) |->
        IF i \in (position + 1)..(position + Len(chunk)) THEN chunk[i - position]
        ELSE IF i <= Len(cells) THEN cells[i] ELSE 0]

Lines(chunks, levels) == UNION {Range(chunks[l]) : l \in levels}

(* a file that cannot be opened; one that is open is never opened again    *)
MayNotOpen == {l \in Levels : ~files[l].opened}

BeginWrite(l, chunk) ==
    [files[l] EXCEPT !.opened = TRUE, !.pending = chunk, !.position = files[l].offset,
                     !.offset = files[l].offset + Len(chunk)]

(* startWrite of every level that has lines: it opens the file first, and  *)
(* loses the lines when that fails                                         *)
FlushAsync(lines) ==
    \E failing \in SUBSET MayNotOpen :
        LET waiting == {l \in Levels : lines[l] # <<>>}
            begun == {l \in waiting \ failing : files[l].pending = <<>>}
            taken == begun \cup (waiting \cap failing)
        IN  /\ buffers' = [l \in Levels |-> IF l \in taken THEN <<>> ELSE lines[l]]
            /\ files' = [l \in Levels |-> IF l \in begun THEN BeginWrite(l, lines[l])
                                          ELSE files[l]]
            /\ pool' = pool \cup {[level |-> l, chunk |-> lines[l],
                                   position |-> files[l].offset, done |-> 0] : l \in begun}
            /\ lost' = lost \cup Lines(lines, waiting \cap failing)
            /\ timer' = (Size(buffers') > 0)
            /\ UNCHANGED disk

(* writeFile of the levels: the chunk that is pending, in its place, and   *)
(* what is buffered behind it                                              *)
WriteFiles(levels, lines) ==
    \E failing \in SUBSET {l \in levels : FlushMayFail \/ l \in MayNotOpen} :
        LET written == levels \ failing
            Text(l) == files[l].pending \o lines[l]
            From(l) == IF files[l].pending = <<>> THEN files[l].offset ELSE files[l].position
        IN  /\ buffers' = [l \in Levels |-> IF l \in levels THEN <<>> ELSE lines[l]]
            /\ disk' = [l \in Levels |-> IF l \in written THEN Overwritten(disk[l], Text(l), From(l))
                                         ELSE disk[l]]
            /\ files' = [l \in Levels |->
                            IF l \in written
                            THEN [opened |-> TRUE, pending |-> <<>>, position |-> 0,
                                  offset |-> files[l].offset + Len(lines[l])]
                            ELSE IF l \in failing THEN [files[l] EXCEPT !.pending = <<>>]
                            ELSE files[l]]
            /\ lost' = lost \cup Lines(lines, failing)
                            \cup Lines([l \in Levels |-> files[l].pending], failing)
            /\ UNCHANGED pool

FlushFile(level, lines) == WriteFiles({level}, lines) /\ UNCHANGED timer

(* the line of the console, which is scheduled once in a turn              *)
PrintLine(line) ==
    /\ console' = Append(console, line)
    /\ immediates' = IF console = <<>> THEN immediates + 1 ELSE immediates
    /\ UNCHANGED printed

(* A line that finds too much waiting for the file is left out here: it is *)
(* on the console alone.                                                   *)
Log(level) ==
    /\ ~ended
    /\ Len(accepted) < MaxLines
    /\ Size(buffers) <= QueueLimit
    /\ accepted' = Append(accepted, level)
    /\ LET lines == [buffers EXCEPT ![level] = Append(@, Len(accepted'))]
       IN  \/ ~behind /\ FlushFile(level, lines)
           \/ behind /\ Size(lines) > BufferLimit /\ FlushAsync(lines)
           \/ /\ behind /\ Size(lines) <= BufferLimit
              /\ buffers' = lines
              /\ timer' = TRUE
              /\ UNCHANGED <<files, disk, pool, lost>>
    /\ PrintLine(Len(accepted'))
    /\ UNCHANGED <<behind, ended>>

TimerFires ==
    /\ ~ended /\ timer
    /\ FlushAsync(buffers)
    /\ UNCHANGED <<behind, accepted, consoleVars, ended>>

(* The thread pool writes the next cells and calls back: the write goes    *)
(* on with the rest, and the chunk is no longer pending when it is         *)
(* complete.  A flush that could not wait may have taken its place.        *)
Written(operation) ==
    LET level == operation.level
        mine == /\ files[level].pending = operation.chunk
                /\ files[level].position = operation.position
    IN  \E n \in (operation.done + 1)..Len(operation.chunk) :
            /\ ~ended
            /\ disk' = [disk EXCEPT ![level] =
                           Overwritten(@, SubSeq(operation.chunk, operation.done + 1, n),
                                       operation.position + operation.done)]
            /\ pool' = (pool \ {operation}) \cup
                       {o \in {[operation EXCEPT !.done = n]} : mine /\ n < Len(operation.chunk)}
            /\ files' = IF mine /\ n = Len(operation.chunk)
                        THEN [files EXCEPT ![level].pending = <<>>] ELSE files
            /\ timer' = (timer \/ (mine /\ n = Len(operation.chunk) /\ buffers[level] # <<>>))
            /\ UNCHANGED <<behind, accepted, buffers, consoleVars, lost, ended>>

(* the callback that does not look whether the chunk is still pending      *)
WriteFailsUnchecked(operation) ==
    /\ ~ended
    /\ pool' = pool \ {operation}
    /\ files' = [files EXCEPT ![operation.level].pending = <<>>,
                              ![operation.level].offset = operation.position]
    /\ lost' = lost \cup Range(operation.chunk)
    /\ UNCHANGED <<behind, accepted, buffers, disk, timer, consoleVars, ended>>

(* The pool refuses the write: the next chunk goes where this one was      *)
(* meant to.                                                               *)
WriteFails(operation) ==
    LET level == operation.level
        mine == /\ files[level].pending = operation.chunk
                /\ files[level].position = operation.position
    IN  /\ ~ended
        /\ pool' = pool \ {operation}
        /\ IF mine
           THEN /\ files' = [files EXCEPT ![level].pending = <<>>,
                                          ![level].offset = operation.position]
                /\ lost' = lost \cup Range(operation.chunk)
                /\ timer' = (timer \/ buffers[level] # <<>>)
           ELSE UNCHANGED <<files, lost, timer>>
        /\ UNCHANGED <<behind, accepted, buffers, disk, consoleVars, ended>>

PrintLines ==
    /\ ~ended /\ immediates > 0
    /\ printed' = printed \o console
    /\ console' = <<>>
    /\ immediates' = immediates - 1
    /\ UNCHANGED <<behind, accepted, buffers, files, disk, pool, timer, lost, ended>>

(* The logger writes all that waits, which it does for an exit; the        *)
(* process may go on for a while.                                          *)
Flush ==
    /\ ~ended
    /\ printed' = printed \o console
    /\ console' = <<>>
    /\ WriteFiles({l \in Levels : files[l].opened \/ buffers[l] # <<>>}, buffers)
    /\ timer' = FALSE
    /\ ended' \in BOOLEAN
    /\ UNCHANGED <<behind, accepted, immediates>>

(* the process is killed, and with it what it has not written              *)
Killed ==
    /\ ~ended
    /\ ended' = TRUE
    /\ lost' = lost \cup Lines(buffers, Levels)
                    \cup Lines([l \in Levels |-> files[l].pending], Levels)
    /\ UNCHANGED <<behind, accepted, buffers, files, disk, pool, timer, consoleVars>>

Next ==
    \/ \E level \in Levels : Log(level)
    \/ TimerFires \/ PrintLines \/ Flush \/ Killed
    \/ \E operation \in pool : Written(operation) \/ WriteFails(operation)

Spec == Init /\ [][Next]_vars

-----------------------------------------------------------------------------

(* the lines a file has for good: those before the pending chunk           *)
Settled(l) ==
    SubSeq(disk[l], 1, IF files[l].pending = <<>> THEN files[l].offset ELSE files[l].position)

(* the lines of a level that had to be written and were not lost           *)
Kept(l) ==
    SelectSeq([i \in 1..Len(accepted) |-> i], LAMBDA i : accepted[i] = l /\ i \notin lost)

(* A file holds the lines of its level in the order they were logged, each *)
(* once and without a gap, up to the chunk that is on its way and the      *)
(* buffer behind it, whatever the order in which the pool, a full buffer,  *)
(* the timer and a blocking flush write them (create-file-sink.ts:61,82,   *)
(* 114).  What waits has a timer that will write it, unless the process is *)
(* over (create-file-sink.ts:78,110), and the console has every line once. *)
LogIsComplete ==
    /\ ~ended => \A l \in Levels : /\ Settled(l) \o files[l].pending \o buffers[l] = Kept(l)
                                   /\ buffers[l] # <<>> => timer
    /\ ended => \A l \in Levels : Settled(l) = Kept(l)
    /\ printed \o console = [i \in 1..Len(accepted) |-> i]
=============================================================================
