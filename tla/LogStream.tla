----------------------------- MODULE LogStream -----------------------------
(***************************************************************************)
(* The page of an instance and the stream of its log.  The server sends,   *)
(* once a second, what the file has more than the connection has sent, and *)
(* then the status of the record; the browser opens the stream again when  *)
(* it breaks, and the server then starts at the beginning.  A poll every   *)
(* four seconds sets the status too, from an answer that may be older.     *)
(***************************************************************************)
EXTENDS Integers, Sequences, SequencesExt

CONSTANTS
    LogLines,       \* bound on the lines of the file
    PageStatuses,   \* what the record may say
    Gone,           \* there is no record
    MaxBreaks,      \* bound on the times the stream breaks
    MaxFrames       \* bound on the frames on their way

ASSUME StreamAssumption ==
    /\ LogLines \in Nat /\ MaxBreaks \in Nat /\ MaxFrames \in Nat \ {0}
    /\ Gone \notin PageStatuses

VARIABLES
    logFile,    \* the number of lines of the file: line k is k
    recorded,   \* the status of the record
    stream,     \* the connection: open, offset, the frames on their way, the time between its two writes
    shownLog,   \* the lines on the page
    shownStatus,
    poll,       \* the answer of GET /instances/:id on its way
    cleared,    \* history: the offset of the stream when the page last emptied its log
    breaks

streamVars == <<logFile, recorded, stream, shownLog, shownStatus, poll, cleared, breaks>>

NoAnswer == "none"

Opened == [open |-> TRUE, offset |-> 0, frames |-> <<>>, writing |-> FALSE]

ChunkFrame(from, to) == [chunk |-> [k \in 1..(to - from) |-> from + k], status |-> NoAnswer]
StatusFrame(s) == [chunk |-> <<>>, status |-> s]

\* The lines on their way to the page.
OnItsWay == FlattenSeq([k \in DOMAIN stream.frames |-> stream.frames[k].chunk])

-----------------------------------------------------------------------------
(* Server.                                                                 *)

LogGrows ==
    /\ logFile < LogLines
    /\ logFile' = logFile + 1
    /\ UNCHANGED <<recorded, stream, shownLog, shownStatus, poll, cleared, breaks>>

\* Removed instances stay removed.
RecordChanges(s) ==
    /\ recorded # Gone
    /\ s # recorded
    /\ recorded' = s
    /\ UNCHANGED <<logFile, stream, shownLog, shownStatus, poll, cleared, breaks>>

(* Mutant: the offset is advanced by what the next tick will find. *)
SendChunkAhead ==
    /\ stream.open /\ ~stream.writing
    /\ Len(stream.frames) < MaxFrames
    /\ stream' = [stream EXCEPT !.writing = TRUE,
                                !.offset = IF logFile > stream.offset THEN logFile + 1 ELSE logFile,
                                !.frames = IF logFile > stream.offset
                                           THEN Append(@, ChunkFrame(stream.offset, logFile)) ELSE @]
    /\ UNCHANGED <<logFile, recorded, shownLog, shownStatus, poll, cleared, breaks>>

\* The file is read, and what is new is written.
SendChunk ==
    /\ stream.open /\ ~stream.writing
    /\ Len(stream.frames) < MaxFrames
    /\ stream' = [stream EXCEPT !.writing = TRUE,
                                !.offset = logFile,
                                !.frames = IF logFile > stream.offset
                                           THEN Append(@, ChunkFrame(stream.offset, logFile)) ELSE @]
    /\ UNCHANGED <<logFile, recorded, shownLog, shownStatus, poll, cleared, breaks>>

\* The record has been awaited; without one the frame says nothing.
SendStatus ==
    /\ stream.writing
    /\ stream' = [stream EXCEPT !.writing = FALSE,
                                !.frames = Append(@, StatusFrame(IF recorded = Gone THEN NoAnswer ELSE recorded))]
    /\ UNCHANGED <<logFile, recorded, shownLog, shownStatus, poll, cleared, breaks>>

-----------------------------------------------------------------------------
(* Page.                                                                   *)

Receive ==
    /\ stream.frames # <<>>
    /\ LET frame == Head(stream.frames)
       IN  /\ shownLog' = shownLog \o frame.chunk
           /\ shownStatus' = IF frame.status = NoAnswer \/ shownStatus = NoAnswer THEN shownStatus
                             ELSE frame.status
    /\ stream' = [stream EXCEPT !.frames = Tail(@)]
    /\ UNCHANGED <<logFile, recorded, poll, cleared, breaks>>

\* The connection is lost with what is on it.
StreamBreaks ==
    /\ stream.open
    /\ breaks < MaxBreaks
    /\ breaks' = breaks + 1
    /\ stream' = [stream EXCEPT !.open = FALSE, !.frames = <<>>, !.writing = FALSE]
    /\ UNCHANGED <<logFile, recorded, shownLog, shownStatus, poll, cleared>>

StreamReopens ==
    /\ ~stream.open
    /\ stream' = Opened
    /\ cleared' = 0
    /\ UNCHANGED <<logFile, recorded, shownLog, shownStatus, poll, breaks>>

\* Retry and recreate empty the log on the page; the stream goes on where it is.
ClearLog ==
    /\ shownLog' = <<>>
    /\ cleared' = stream.offset - Len(OnItsWay)
    /\ UNCHANGED <<logFile, recorded, stream, shownStatus, poll, breaks>>

\* The poll reads the record and answers later.
PollReads ==
    /\ poll = NoAnswer
    /\ recorded # Gone
    /\ poll' = recorded
    /\ UNCHANGED <<logFile, recorded, stream, shownLog, shownStatus, cleared, breaks>>

(* Mutant: every tick applies the answer of the first one. *)
PollAnswersAgain ==
    /\ poll # NoAnswer
    /\ shownStatus' = poll
    /\ UNCHANGED <<logFile, recorded, stream, shownLog, poll, cleared, breaks>>

PollAnswers ==
    /\ poll # NoAnswer
    /\ shownStatus' = poll
    /\ poll' = NoAnswer
    /\ UNCHANGED <<logFile, recorded, stream, shownLog, cleared, breaks>>

-----------------------------------------------------------------------------

StreamInit ==
    /\ logFile = 0
    /\ recorded \in PageStatuses
    /\ stream = Opened
    /\ shownLog = <<>>
    /\ shownStatus = NoAnswer
    /\ poll = NoAnswer
    /\ cleared = 0
    /\ breaks = 0

StreamNext ==
    \/ LogGrows \/ SendChunk \/ SendStatus
    \/ \E s \in PageStatuses \cup {Gone} : RecordChanges(s)
    \/ Receive \/ StreamBreaks \/ StreamReopens \/ ClearLog
    \/ PollReads \/ PollAnswers

StreamSpec == StreamInit /\ [][StreamNext]_streamVars

\* Both timers tick, frames arrive and the browser reconnects.
StreamFairness ==
    /\ WF_streamVars(SendChunk) /\ WF_streamVars(SendStatus) /\ WF_streamVars(Receive)
    /\ WF_streamVars(StreamReopens) /\ WF_streamVars(PollReads) /\ WF_streamVars(PollAnswers)

-----------------------------------------------------------------------------

Lines(from, to) == [k \in 1..(to - from) |-> from + k]

\* The end of the log on the page, with what is on its way, is what this
\* connection has read of the file since the page was emptied: no line is
\* lost and none comes twice, except by a reconnection.
StreamIsWhole ==
    stream.open =>
        LET all == shownLog \o OnItsWay
        IN  /\ IsSuffix(Lines(cleared, stream.offset), all)
            /\ breaks = 0 => all = Lines(cleared, stream.offset)

\* When the record no longer changes the page comes to show its status and
\* keeps it, whatever the two sources of the status bring late.
PageCatchesUp ==
    \A s \in PageStatuses : <>[](recorded = s) => <>[](shownStatus = s)

=============================================================================
