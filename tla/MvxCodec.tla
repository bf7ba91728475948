------------------------------ MODULE MvxCodec ------------------------------
(***************************************************************************)
(* One encoding or decoding session of class Codec                         *)
(* (test/mvx_player/mvx_player.cpp) in poll mode, and the V4L2             *)
(* memory-to-memory driver it talks to.                                    *)
(*                                                                         *)
(* The session has two ports.  The input port feeds packets taken from an  *)
(* Input to the driver's OUTPUT queue, the output port takes coded results *)
(* from the CAPTURE queue and writes them to an Output.  Codec::runPoll    *)
(* polls the device and handles, in this order, at most one buffer of the  *)
(* input port, one of the output port and one event.  A handler is one     *)
(* action: the client is single threaded and the driver's own steps        *)
(* commute with the system calls inside a handler.  The driver takes its   *)
(* steps between the poll and each of the handlers.                        *)
(*                                                                         *)
(* A packet is abstracted to the number of the frame it carries, 0 for one *)
(* with no frame.  The driver (not in this repository) is modelled from    *)
(* what the session expects of it: it consumes packets in order, emits     *)
(* their frames in order, announces a new resolution by an event before it *)
(* hands the capture buffers back empty, and marks the end of the stream   *)
(* with a LAST capture buffer.                                             *)
(***************************************************************************)
EXTENDS Naturals, Sequences, FiniteSets

CONSTANTS
    Encoders,       \* the classes to run: TRUE for Encoder, FALSE for Decoder
    EofLates,       \* whether the Input sees end of file only at an empty extra read
    FrameLimits,    \* values of option --frames, 0 for no limit
    NFrames,        \* frames in the input file
    GeneralBefore,  \* frames preceded by an EPR configuration buffer
    TryStop,        \* option --trystop of the decoder
    InCount,        \* buffers of the input port
    OutCount,       \* buffers asked for the output port at start
    ExtraCount,     \* OUTPUT_EXTRA_NUM_BUFFERS
    MinCapture,     \* values V4L2_CID_MIN_BUFFERS_FOR_CAPTURE may take
    ChangeAt,       \* frames that start a new resolution
    Depth,          \* frames the driver holds between its two queues
    MaxErrors,      \* capture buffers returned with V4L2_BUF_FLAG_ERROR
    MayFail         \* the driver may break and report POLLERR

ASSUME SessionAssumption ==
    /\ Encoders \subseteq BOOLEAN /\ EofLates \subseteq BOOLEAN
    /\ FrameLimits \subseteq Nat
    /\ TryStop \in BOOLEAN /\ MayFail \in BOOLEAN
ASSUME StreamAssumption ==
    /\ NFrames \in Nat /\ \A late \in EofLates : late \/ NFrames > 0
    /\ ChangeAt \subseteq 1..NFrames
ASSUME BufferAssumption ==
    /\ InCount \in Nat \ {0} /\ OutCount \in Nat \ {0}
    /\ ExtraCount \in Nat /\ MinCapture \subseteq Nat \ {0}
    /\ MinCapture # {}
    /\ Depth \in Nat \ {0} /\ MaxErrors \in Nat
VARIABLES
    session,        \* what is run on which file; never changes
    pc,             \* where the main thread is in Codec::stream
    revents,        \* what the last poll returned and is not handled yet
    eos,            \* Codec::runPoll's local
    next,           \* Input: next packet to be read
    eprDone,        \* Input: EPR entry of frame next already prepared
    inPending,      \* input.pending
    inFrames,       \* input.frames_processed
    outSize,        \* output.buffers.size()
    outPending,     \* output.pending
    outFrames,      \* output.frames_processed
    isSourceChange, \* output.isSourceChange
    written,        \* frames the Output took
    inQ, inDone,    \* driver: queued and done buffers of the OUTPUT queue
    outQ, outDone,  \* driver: queued and done buffers of the CAPTURE queue
    events,         \* driver: undelivered V4L2 events
    pipe,           \* driver: frames consumed and not emitted yet
    lastSeen,       \* driver: a LAST packet was consumed
    stopCmd,        \* driver: a stop command was received
    change,         \* driver: waits for new capture buffers
    resolved,       \* driver: resolution changes completed up to this frame
    lastSent,       \* driver: a LAST capture buffer was emitted
    errors,         \* driver: buffers returned with an error so far
    broken          \* driver: fatal error

client == <<pc, revents, eos, next, eprDone, inPending, inFrames, outSize,
            outPending, outFrames, isSourceChange, written>>
queues == <<inQ, inDone, outQ, outDone, events>>
driver == <<pipe, lastSeen, stopCmd, change, resolved, lastSent, errors, broken>>
vars == <<session, client, queues, driver>>

Session == [encoder : Encoders, eofLate : EofLates, limit : FrameLimits]
Encoder == session.encoder
FramesCount == session.limit
LastPacket == IF session.eofLate THEN NFrames + 1 ELSE NFrames

InBuf  == 0..(InCount - 1)
OutSizes == {OutCount + ExtraCount} \cup {m + ExtraCount : m \in MinCapture}

Packet  == [buf : InBuf, frame : 0..NFrames, last : BOOLEAN]
Capture == [buf : Nat, frame : 0..NFrames, last : BOOLEAN, error : BOOLEAN]

TypeOK ==
    /\ session \in Session
    /\ pc \in {"setup", "queue", "run", "done", "failed"}
    /\ revents \subseteq {"OUT", "IN", "PRI"}
    /\ eos \in BOOLEAN /\ eprDone \in BOOLEAN /\ isSourceChange \in BOOLEAN
    /\ next \in 1..(LastPacket + 1)
    /\ inPending \in Nat /\ outPending \in Nat
    /\ inFrames \in Nat /\ outFrames \in Nat /\ outSize \in Nat
    /\ written \in Seq(1..NFrames)
    /\ inQ \in Seq(Packet) /\ inDone \subseteq InBuf
    /\ outQ \subseteq Nat /\ outDone \in Seq(Capture)
    /\ events \in Seq({"SOURCE_CHANGE", "COLOR_DESC", "EOS"})
    /\ pipe \in Seq(1..NFrames)
    /\ lastSeen \in BOOLEAN /\ stopCmd \in BOOLEAN /\ change \in BOOLEAN
    /\ lastSent \in BOOLEAN /\ broken \in BOOLEAN
    /\ resolved \in 0..NFrames /\ errors \in 0..MaxErrors

Init ==
    /\ session \in Session
    /\ pc = "setup" /\ revents = {} /\ eos = FALSE
    /\ next = 1 /\ eprDone = FALSE
    /\ inPending = 0 /\ inFrames = 0
    /\ outSize = 0 /\ outPending = 0 /\ outFrames = 0
    /\ isSourceChange = FALSE /\ written = <<>>
    /\ inQ = <<>> /\ inDone = {} /\ outQ = {} /\ outDone = <<>>
    /\ events = <<>> /\ pipe = <<>>
    /\ lastSeen = FALSE /\ stopCmd = FALSE /\ change = FALSE
    /\ resolved = 0 /\ lastSent = FALSE /\ errors = 0 /\ broken = FALSE

-----------------------------------------------------------------------------
(* The input port. *)

\* Slips of Eof: one packet too many, one too few.
EofTooLate == next > LastPacket + 1
EofTooEarly == next >= LastPacket

\* Input::eof
Eof == next > LastPacket

\* InputFileFrameWithEPR::prepare: the next buffer carries an EPR entry.
IsGeneral == Encoder /\ next \in GeneralBefore /\ ~eprDone

\* Slip: the end is compared with the position before the read.
EofNotSeen == ~IsGeneral /\ next > LastPacket

\* Input::prepare reaches the end of the file.
EofAfterPrepare == ~IsGeneral /\ next = LastPacket

\* Port::queueBuffer: an encoder that was given --frames marks the frame that
\* reaches the limit as the last one, and empties every later one.
AtLimit == /\ Encoder /\ FramesCount > 0 /\ ~IsGeneral
           /\ inFrames + 1 >= FramesCount

\* Slip: off by one.
PastLimitTooLate == AtLimit /\ inFrames > FramesCount

PastLimit == AtLimit /\ inFrames >= FramesCount

\* Slip: Input::prepare forgets setEndOfStream.
PacketWithoutFlag(b) ==
    [buf   |-> b,
     frame |-> IF IsGeneral \/ PastLimit \/ next > NFrames THEN 0 ELSE next,
     last  |-> AtLimit]

\* What Input::prepare, setEndOfStream and Port::queueBuffer make of buffer b.
PreparedPacket(b) ==
    [buf   |-> b,
     frame |-> IF IsGeneral \/ PastLimit \/ next > NFrames THEN 0 ELSE next,
     last  |-> EofAfterPrepare \/ AtLimit]

PrepareAndQueue(b) ==
    /\ inQ' = Append(inQ, PreparedPacket(b))
    /\ next' = IF IsGeneral THEN next ELSE next + 1
    /\ eprDone' = IsGeneral
    /\ inFrames' = IF Encoder /\ ~IsGeneral /\ ~PastLimit
                   THEN inFrames + 1 ELSE inFrames

\* handleBuffer at the end of the file: the buffer is not queued again.
KeepInput(b) ==
    /\ b \in inDone /\ Eof
    /\ inDone' = inDone \ {b}
    /\ inPending' = inPending - 1
    /\ stopCmd' = (stopCmd \/ (TryStop /\ ~Encoder))
    /\ UNCHANGED <<pc, eos, next, eprDone, inFrames, outSize, outPending, outFrames,
                   isSourceChange, written, inQ, outQ, outDone, events,
                   pipe, lastSeen, change, resolved, lastSent, errors, broken>>

\* handleBuffer otherwise: refill the buffer, queue it, and send a stop
\* command after the last packet.
RefillInput(b) ==
    /\ b \in inDone /\ ~Eof
    /\ inDone' = inDone \ {b}
    /\ PrepareAndQueue(b)
    /\ inPending' = (inPending - 1) + 1
    /\ stopCmd' = (stopCmd \/ EofAfterPrepare)
    /\ UNCHANGED <<pc, eos, outSize, outPending, outFrames,
                   isSourceChange, written, outQ, outDone, events,
                   pipe, lastSeen, change, resolved, lastSent, errors, broken>>

-----------------------------------------------------------------------------
(* The output port. *)

\* What handleBuffer finds in the buffer at the head of the done queue.
Done == Head(outDone)

\* Slip: Output::finalize is skipped for the buffer with the LAST flag.
FrameUnlessLast == Done.frame # 0 /\ ~Done.last
\* A frame flagged DECODE_ONLY is counted like any other; the Output takes it and leaves
\* it out of the file, which is not modelled.
FramePresent == Done.frame # 0

\* Slip: the test of the ERROR flag is inverted.
EmptyWithError == ~Done.last /\ ~FramePresent /\ Done.error
EmptyReturn == ~Done.last /\ ~FramePresent /\ ~Done.error

\* Slips: reset at the first buffer after the event, or not before the last one.
ResetAtOnce == ~Done.last /\ isSourceChange
ResetAtLastDone == EmptyReturn /\ isSourceChange /\ Len(outDone) = 1
ResetsStream == EmptyReturn /\ isSourceChange

\* Slip: the limit is passed before it is noticed.
LimitPassed == /\ ~Encoder /\ FramesCount > 0
               /\ outFrames + (IF FramePresent THEN 1 ELSE 0) > FramesCount
ReachesLimit == /\ ~Encoder /\ FramesCount > 0
                /\ outFrames + (IF FramePresent THEN 1 ELSE 0) >= FramesCount

\* dequeueBuffer, Output::finalize and the frame count, common to all outcomes.
TakeCapture ==
    /\ outDone # <<>>
    /\ written' = IF FramePresent THEN Append(written, Done.frame) ELSE written
    /\ outFrames' = IF FramePresent THEN outFrames + 1 ELSE outFrames

\* A LAST buffer ends the session and is kept.
EndCapture ==
    /\ TakeCapture /\ Done.last
    /\ eos' = TRUE
    /\ outDone' = Tail(outDone)
    /\ outPending' = outPending - 1
    /\ UNCHANGED <<pc, next, eprDone, inPending, inFrames, outSize, isSourceChange,
                   inQ, inDone, outQ, events, driver>>

\* Slips: pending is not reset, or reset after the buffers were queued; the
\* capture queue is not stopped before its buffers are replaced.
PendingKept(n) == (outPending - 1) + n
PendingLost(n) == 0
DoneKept == Tail(outDone)

\* Port::allocateBuffers resets pending and queueBuffers counts it up; streamoff
\* discards the done buffers.
PendingAfterReset(n) == n
DoneAfterReset == <<>>

\* handleResolutionChange: streamoff hands every buffer back, REQBUFS replaces
\* them by as many as the new resolution needs, and all of them are queued.
\* The driver takes the streamon as the end of the resolution change.
ResetCapture(n) ==
    /\ TakeCapture /\ ResetsStream
    /\ isSourceChange' = FALSE
    /\ outSize' = n
    /\ outQ' = 0..(n - 1)
    /\ outDone' = DoneAfterReset
    /\ outPending' = PendingAfterReset(n)
    /\ change' = FALSE
    /\ resolved' = IF change THEN Head(pipe) ELSE resolved
    /\ UNCHANGED <<pc, eos, next, eprDone, inPending, inFrames, inQ, inDone, events,
                   pipe, lastSeen, stopCmd, lastSent, errors, broken>>

\* The frame limit of a decoder ends the session; any other buffer goes back.
RequeueCapture ==
    /\ TakeCapture /\ ~Done.last /\ ~ResetsStream
    /\ eos' = ReachesLimit
    /\ outDone' = Tail(outDone)
    /\ outQ' = outQ \cup {Done.buf}
    /\ outPending' = (outPending - 1) + 1
    /\ UNCHANGED <<pc, next, eprDone, inPending, inFrames, outSize, isSourceChange,
                   inQ, inDone, events, driver>>

-----------------------------------------------------------------------------
(* Codec::stream up to the poll loop. *)

\* Codec::allocateBuffers and output.queueBuffers.
Setup ==
    /\ pc = "setup"
    /\ pc' = "queue"
    /\ outSize' = OutCount + ExtraCount
    /\ outQ' = 0..(outSize' - 1)
    /\ outPending' = outSize'
    /\ UNCHANGED <<revents, eos, next, eprDone, inPending, inFrames, outFrames,
                   isSourceChange, written, inQ, inDone, outDone, events, driver>>

\* One turn of the loop of input.queueBuffers; nothing is streaming yet.
QueueInput ==
    /\ pc = "queue" /\ Len(inQ) < InCount /\ ~Eof
    /\ PrepareAndQueue(Len(inQ))
    /\ inPending' = inPending + 1
    /\ UNCHANGED <<pc, revents, eos, outSize, outPending, outFrames,
                   isSourceChange, written, inDone, outQ, outDone, events, driver>>

StreamOn ==
    /\ pc = "queue" /\ (Len(inQ) = InCount \/ Eof)
    /\ pc' = "run"
    /\ UNCHANGED <<revents, eos, next, eprDone, inPending, inFrames, outSize,
                   outPending, outFrames, isSourceChange, written, queues, driver>>

-----------------------------------------------------------------------------
(* Codec::runPoll. *)

\* What poll would report for the events the session asks for.
Ready == {r \in {"OUT", "IN", "PRI"} :
            CASE r = "OUT" -> inPending > 0 /\ inDone # {}
              [] r = "IN"  -> outPending > 0 /\ outDone # <<>>
              [] r = "PRI" -> events # <<>>}

Polling == pc = "run" /\ revents = {} /\ ~eos

Poll ==
    /\ Polling /\ ~broken /\ Ready # {}
    /\ revents' = Ready
    /\ UNCHANGED <<pc, eos, next, eprDone, inPending, inFrames, outSize,
                   outPending, outFrames, isSourceChange, written, queues, driver>>

PollError ==
    /\ Polling /\ broken
    /\ pc' = "failed"
    /\ UNCHANGED <<revents, eos, next, eprDone, inPending, inFrames, outSize,
                   outPending, outFrames, isSourceChange, written, queues, driver>>

InputTurn  == pc = "run" /\ "OUT" \in revents
OutputTurn == pc = "run" /\ "IN" \in revents /\ "OUT" \notin revents
EventTurn  == pc = "run" /\ revents = {"PRI"}

HandleInput ==
    /\ InputTurn
    /\ revents' = revents \ {"OUT"}
    /\ \E b \in InBuf : KeepInput(b) \/ RefillInput(b)

HandleOutput ==
    /\ OutputTurn
    /\ revents' = revents \ {"IN"}
    /\ \/ EndCapture
       \/ \E m \in MinCapture : ResetCapture(m + ExtraCount)
       \/ RequeueCapture

\* Codec::handleEvent; an EOS event is dequeued and its result ignored.
HandleEvent ==
    /\ EventTurn /\ events # <<>>
    /\ revents' = {}
    /\ events' = Tail(events)
    /\ isSourceChange' = (isSourceChange \/ Head(events) = "SOURCE_CHANGE")
    /\ UNCHANGED <<pc, eos, next, eprDone, inPending, inFrames, outSize,
                   outPending, outFrames, written, inQ, inDone, outQ, outDone, driver>>

\* Codec::streamoff after the loop: the driver gives up all its buffers.
StreamOff ==
    /\ pc = "run" /\ eos /\ revents = {}
    /\ pc' = "done"
    /\ inQ' = <<>> /\ inDone' = {} /\ outQ' = {} /\ outDone' = <<>>
    /\ UNCHANGED <<revents, eos, next, eprDone, inPending, inFrames, outSize,
                   outPending, outFrames, isSourceChange, written, events, driver>>

-----------------------------------------------------------------------------
(* The driver. *)

Streaming == pc = "run" /\ ~broken

\* The head of the pipe starts a resolution the capture buffers do not fit.
NewResolution ==
    ~Encoder /\ pipe # <<>> /\ Head(pipe) \in ChangeAt /\ Head(pipe) > resolved

Drained == /\ pipe = <<>>
           /\ lastSeen \/ (stopCmd /\ inQ = <<>>)

CanConsume == inQ # <<>> /\ (Len(pipe) < Depth \/ Head(inQ).frame = 0 \/ lastSeen)
CanEmit    == pipe # <<>> /\ ~NewResolution /\ outQ # {}
CanSignal  == NewResolution /\ ~change
CanReturn  == change /\ outQ # {}
CanEnd     == Drained /\ ~lastSent /\ outQ # {}

\* Take the next packet; what follows a LAST packet is dropped.
DriverConsume ==
    /\ Streaming /\ CanConsume
    /\ inQ' = Tail(inQ)
    /\ inDone' = inDone \cup {Head(inQ).buf}
    /\ pipe' = IF Head(inQ).frame # 0 /\ ~lastSeen
               THEN Append(pipe, Head(inQ).frame) ELSE pipe
    /\ lastSeen' = (lastSeen \/ Head(inQ).last)
    /\ UNCHANGED <<client, outQ, outDone, events, stopCmd, change, resolved,
                   lastSent, errors, broken>>

Complete(b, f, l, e) ==
    /\ outQ' = outQ \ {b}
    /\ outDone' = Append(outDone, [buf |-> b, frame |-> f, last |-> l, error |-> e])

\* Finish a frame; the last one may carry the LAST flag itself.
DriverEmit(b, l) ==
    /\ Streaming /\ CanEmit /\ b \in outQ
    /\ l => lastSeen /\ Len(pipe) = 1
    /\ Complete(b, Head(pipe), l, FALSE)
    /\ pipe' = Tail(pipe)
    /\ lastSent' = l
    /\ UNCHANGED <<client, inQ, inDone, events, lastSeen, stopCmd, change,
                   resolved, errors, broken>>

\* Announce a new resolution, possibly behind its colour description.
DriverSignalChange(colour) ==
    /\ Streaming /\ CanSignal
    /\ change' = TRUE
    /\ events' = events \o (IF colour THEN <<"COLOR_DESC", "SOURCE_CHANGE">>
                                      ELSE <<"SOURCE_CHANGE">>)
    /\ UNCHANGED <<client, inQ, inDone, outQ, outDone, pipe, lastSeen, stopCmd,
                   resolved, lastSent, errors, broken>>

\* Hand a capture buffer back empty while the change is not answered.
DriverReturnEmpty(b) ==
    /\ Streaming /\ CanReturn /\ b \in outQ
    /\ Complete(b, 0, FALSE, FALSE)
    /\ UNCHANGED <<client, inQ, inDone, events, driver>>

\* An empty LAST buffer and the EOS event.
DriverEnd(b) ==
    /\ Streaming /\ CanEnd /\ b \in outQ
    /\ Complete(b, 0, TRUE, FALSE)
    /\ lastSent' = TRUE
    /\ events' = Append(events, "EOS")
    /\ UNCHANGED <<client, inQ, inDone, pipe, lastSeen, stopCmd, change,
                   resolved, errors, broken>>

\* A corrupt stretch of the stream gives an empty buffer with the ERROR flag.
DriverCorrupt(b) ==
    /\ Streaming /\ errors < MaxErrors /\ b \in outQ
    /\ Complete(b, 0, FALSE, TRUE)
    /\ errors' = errors + 1
    /\ UNCHANGED <<client, inQ, inDone, events, pipe, lastSeen, stopCmd, change,
                   resolved, lastSent, broken>>

DriverBreak ==
    /\ MayFail /\ Streaming
    /\ broken' = TRUE
    /\ UNCHANGED <<client, queues, pipe, lastSeen, stopCmd, change, resolved,
                   lastSent, errors>>

\* Codec::runPoll gives up when nothing at all happens for twenty minutes.  A
\* broken driver may fall silent instead of reporting POLLERR.
DriverIdle == ~(CanConsume \/ CanEmit \/ CanSignal \/ CanReturn \/ CanEnd)

PollTimeout ==
    /\ Polling /\ Ready = {} /\ (broken \/ DriverIdle)
    /\ pc' = "failed"
    /\ UNCHANGED <<revents, eos, next, eprDone, inPending, inFrames, outSize,
                   outPending, outFrames, isSourceChange, written, queues, driver>>

-----------------------------------------------------------------------------
Client ==
    /\ UNCHANGED session
    /\ \/ Setup \/ QueueInput \/ StreamOn
       \/ Poll \/ PollError \/ PollTimeout
       \/ HandleInput \/ HandleOutput \/ HandleEvent
       \/ StreamOff

DriverWork ==
    /\ UNCHANGED session
    /\ \/ DriverConsume
       \/ \E b \in outQ : \/ \E l \in BOOLEAN : DriverEmit(b, l)
                          \/ DriverReturnEmpty(b)
                          \/ DriverEnd(b)
       \/ \E colour \in BOOLEAN : DriverSignalChange(colour)

DriverFault ==
    /\ UNCHANGED session
    /\ DriverBreak \/ \E b \in outQ : DriverCorrupt(b)

\* The session has returned from Codec::stream.
Terminated == pc \in {"done", "failed"} /\ UNCHANGED vars

Next == Client \/ DriverWork \/ DriverFault \/ Terminated

Spec == Init /\ [][Next]_vars

\* The client thread keeps running, and a driver that can work does.
FairSpec == Spec /\ WF_vars(Client) /\ WF_vars(DriverWork)

-----------------------------------------------------------------------------
(* Properties. *)

Limit(a, b) == IF a < b THEN a ELSE b

\* The frames a complete session delivers.
Total == IF FramesCount = 0 THEN NFrames ELSE Limit(NFrames, FramesCount)

\* input.pending and output.pending, on which Codec::runPoll decides what to
\* poll for, are the numbers of buffers the driver owns: never an underflow of
\* the size_t after a reset of the port.
PendingExact ==
    pc # "done" =>
        /\ inPending = Len(inQ) + Cardinality(inDone)
        /\ outPending = Cardinality(outQ) + Len(outDone)

\* A buffer is on one queue at a time and is one of the allocated ones: what
\* Port::dequeueBuffer looks up in its map exists, also after a reset.
BufferOwnership ==
    /\ outQ \subseteq 0..(outSize - 1)
    /\ \A i \in 1..Len(outDone) : outDone[i].buf \in 0..(outSize - 1) \ outQ
    /\ \A i, j \in 1..Len(outDone) : outDone[i].buf = outDone[j].buf => i = j
    /\ \A i \in 1..Len(inQ) : inQ[i].buf \notin inDone
    /\ \A i, j \in 1..Len(inQ) : inQ[i].buf = inQ[j].buf => i = j

\* With --frames the driver is given no frame past the limit, and none after
\* the packet that carries the LAST flag.
NothingAfterLast ==
    \A i \in 1..Len(inQ) :
        inQ[i].frame # 0 =>
            /\ Encoder => inQ[i].frame <= Total
            /\ ~lastSeen
            /\ \A j \in 1..(i - 1) : ~inQ[j].last

\* The stop command is sent after the LAST packet, never before it.
StopAfterLast ==
    stopCmd /\ pc # "done" => lastSeen \/ \E i \in 1..Len(inQ) : inQ[i].last

\* The poll never times out: the session and the driver never wait for each
\* other, and only a fatal error of the driver makes the session fail.
NoStall == pc = "failed" => broken

\* Buffers are reallocated only in answer to a resolution change the driver
\* announced, and that change is answered only once: no done frame is discarded.
ResetOnlyOnChange ==
    [][outSize # 0 /\ pc' = "run" /\ isSourceChange /\ ~isSourceChange' =>
           change /\ \A i \in 1..Len(outDone) : outDone[i].frame = 0]_vars

\* A buffer the driver returned empty for a resolution change is queued again,
\* unanswered, only in the turn whose poll also reports the event: the code
\* handles the buffer before the event, but never loses the change.
UnansweredOnlyBeforeEvent ==
    [][change /\ OutputTurn /\ "IN" \notin revents' /\ isSourceChange' = isSourceChange
       /\ EmptyReturn => "PRI" \in revents]_vars

\* The session implements FrameStream: frames reach the Output in order, none lost
\* or repeated through errors and resolution changes; success is reported only
\* after the last one; and every session ends.
Stream == INSTANCE FrameStream WITH
    out <- written,
    status <- IF pc \in {"done", "failed"} THEN pc ELSE "running",
    total <- Total
ImplementsStream == Stream!FairSpec

\* A resolution change is answered, unless the session ends first.
ChangeAnswered == change ~> (~change \/ pc \in {"done", "failed"})
=============================================================================
