--------------------------- MODULE SimplePlayers ---------------------------
(***************************************************************************)
(* The two small decoders of the repository: mvx_userptr                   *)
(* (test/userptr/mvx_userptr.cpp), which decodes with user pointer buffers,*)
(* and mvx_secureplayer (tools/securevideo/mvx_secureplayer.cpp), which    *)
(* decodes with protected buffers.  Both read the file in reads of one     *)
(* buffer each, mark the read that meets the end of the file as the last   *)
(* one, subscribe to no event, and take an empty capture buffer for a      *)
(* change of resolution.                                                   *)
(*                                                                         *)
(* A read is abstracted to its number; the driver (external, as in         *)
(* MvxCodec) makes one frame of each.  Buffers of a port are alike here,   *)
(* so that only their number and their order are kept.                     *)
(***************************************************************************)
EXTENDS Naturals, Sequences

CONSTANTS
    NReads,             \* non-empty reads of the file
    UserptrCount,       \* buffers mvx_userptr asks for at start, on each port
    MinCapture,         \* values V4L2_CID_MIN_BUFFERS_FOR_CAPTURE may take
    SecureCounts, SecureResetCounts,    \* what mvx_secureplayer may be granted; after a change
    ChangeAt,           \* frames that start a new resolution
    Depth,              \* frames the driver holds
    MaxErrors           \* empty buffers returned with V4L2_BUF_FLAG_ERROR

ASSUME PlayerAssumption ==
    /\ NReads \in Nat \ {0} /\ ChangeAt \subseteq 1..NReads
    /\ {UserptrCount, Depth} \cup SecureCounts \cup SecureResetCounts \subseteq Nat \ {0}
    /\ MinCapture \subseteq Nat \ {0}
    /\ {} \notin {MinCapture, SecureCounts, SecureResetCounts}
    /\ MaxErrors \in Nat

VARIABLES
    prog,       \* which program runs
    exact,      \* the file is a multiple of the input buffer
    pc, revents,
    next,       \* next read of the file
    inPending, outPending,  \* buffers the program takes to be queued
    written,    \* frames handed on
    inQ, inDone, outQ, outDone, \* driver: the queues; inDone, outQ only counted
    pipe, lastSeen, lastSent, change, resolved, errors, \* as in MvxCodec
    broken      \* the driver is out of order, or a call was refused

config == <<prog, exact>>
client == <<pc, revents, next, inPending, outPending, written>>
driver == <<pipe, lastSeen, lastSent, change, resolved, errors, broken>>
vars == <<config, client, inQ, inDone, outQ, outDone, driver>>

Programs == {"userptr", "secureplayer"}
Packet  == [read : 1..NReads, last : BOOLEAN]
Capture == [frame : 0..NReads, last : BOOLEAN, error : BOOLEAN]

TypeOK ==
    /\ prog \in Programs /\ exact \in BOOLEAN
    /\ pc \in {"setup", "run", "done", "failed"} /\ revents \subseteq {"OUT", "IN"}
    /\ next \in 1..(NReads + 1)
    /\ {inPending, outPending, inDone, outQ} \subseteq Nat
    /\ written \in Seq(1..NReads) /\ pipe \in Seq(1..NReads)
    /\ inQ \in Seq(Packet) /\ outDone \in Seq(Capture)
    /\ {lastSeen, lastSent, change, broken} \subseteq BOOLEAN
    /\ resolved \in 0..NReads /\ errors \in 0..MaxErrors

Init ==
    /\ prog \in Programs /\ exact \in BOOLEAN
    /\ pc = "setup" /\ revents = {} /\ next = 1
    /\ inPending = 0 /\ outPending = 0 /\ written = <<>>
    /\ inQ = <<>> /\ inDone = 0 /\ outQ = 0 /\ outDone = <<>> /\ pipe = <<>>
    /\ lastSeen = FALSE /\ lastSent = FALSE /\ change = FALSE /\ resolved = 0
    /\ errors = 0 /\ broken = FALSE

-----------------------------------------------------------------------------
(* The programs. *)

Counts == IF prog = "userptr" THEN {UserptrCount} ELSE SecureCounts
AtMost(n, m) == IF n < m THEN n ELSE m

\* A read is the last one when it comes up short.
Filled(i) == [read |-> i, last |-> i = NReads /\ ~exact]

\* Formats, buffers, the first reads, and both streams on.  A read that finds
\* nothing leaves its buffer out.
Setup ==
    /\ pc = "setup"
    /\ pc' = "run"
    /\ \E count \in Counts :
        LET n == AtMost(count, NReads) IN
        /\ inQ' = [i \in 1..n |-> Filled(i)]
        /\ next' = n + 1 /\ inPending' = n
    /\ \E count \in Counts : outQ' = count /\ outPending' = count
    /\ UNCHANGED <<config, revents, written, inDone, outDone, driver>>

\* The device, a format, buffers or a stream are refused, and nobody catches what is thrown.
SetupFails ==
    /\ pc = "setup"
    /\ pc' = "failed" /\ broken' = TRUE
    /\ UNCHANGED <<config, revents, next, inPending, outPending, written, inQ, inDone,
                   outQ, outDone, pipe, lastSeen, lastSent, change, resolved, errors>>

Ready == {r \in {"OUT", "IN"} :
            IF r = "OUT" THEN inPending > 0 /\ inDone > 0
                         ELSE outPending > 0 /\ outDone # <<>>}

Polling == pc = "run" /\ revents = {}

Poll ==
    /\ Polling /\ ~broken /\ Ready # {}
    /\ revents' = Ready
    /\ UNCHANGED <<config, pc, next, inPending, outPending, written,
                   inQ, inDone, outQ, outDone, driver>>

\* POLLERR.
PollError ==
    /\ Polling /\ broken
    /\ pc' = "failed"
    /\ UNCHANGED <<config, revents, next, inPending, outPending, written,
                   inQ, inDone, outQ, outDone, driver>>

\* A read finds nothing.
AtEnd == next > NReads

\* The buffer stays with the program.
KeepInput ==
    /\ AtEnd
    /\ inPending' = inPending - 1
    /\ UNCHANGED <<next, inQ>>

RefillInput ==
    /\ ~AtEnd
    /\ inQ' = Append(inQ, Filled(next))
    /\ next' = next + 1
    /\ inPending' = (inPending - 1) + 1

HandleInput ==
    /\ pc = "run" /\ "OUT" \in revents
    /\ revents' = revents \ {"OUT"}
    /\ inDone' = inDone - 1
    /\ KeepInput \/ RefillInput
    /\ UNCHANGED <<config, pc, outPending, written, outQ, outDone, driver>>

Done == Head(outDone)

\* A LAST buffer ends the program before anything is done with its frame.
EndCapture ==
    /\ Done.last
    /\ pc' = "done"
    /\ outDone' = Tail(outDone) /\ outPending' = outPending - 1
    /\ UNCHANGED <<written, outQ, driver>>

\* Slip: the flag is never tested.
EmptyOrError == ~Done.last /\ Done.frame = 0
\* Slip: the flag is tested the wrong way round.
EmptyWithError == ~Done.last /\ Done.frame = 0 /\ (prog = "userptr" \/ Done.error)

\* mvx_userptr does not look at the ERROR flag.
ResetsStream == ~Done.last /\ Done.frame = 0 /\ (prog = "userptr" \/ ~Done.error)

ResetCounts == IF prog = "userptr" THEN MinCapture ELSE SecureResetCounts

\* Slip: streamOff leaves the count of queued buffers alone.
PendingKept(n) == (outPending - 1) + n
\* Slip: the count is reset after the buffers were queued.
PendingLost(n) == 0

\* streamOff, requestBuffers, queue all, streamOn.
PendingAfterReset(n) == n
ResetCapture(n) ==
    /\ ResetsStream
    /\ outQ' = n /\ outDone' = <<>> /\ outPending' = PendingAfterReset(n)
    /\ change' = FALSE
    /\ resolved' = IF change THEN Head(pipe) ELSE resolved
    /\ UNCHANGED <<pc, written, pipe, lastSeen, lastSent, errors, broken>>

\* A call of the reset fails: streamOff has taken the buffers back.
ResetFails ==
    /\ ResetsStream
    /\ pc' = "failed" /\ broken' = TRUE
    /\ outQ' = 0 /\ outDone' = <<>> /\ outPending' = 0
    /\ UNCHANGED <<written, pipe, lastSeen, lastSent, change, resolved, errors>>

RequeueCapture ==
    /\ ~Done.last /\ ~ResetsStream
    /\ written' = IF Done.frame # 0 THEN Append(written, Done.frame) ELSE written
    /\ outDone' = Tail(outDone) /\ outQ' = outQ + 1
    /\ outPending' = (outPending - 1) + 1
    /\ UNCHANGED <<pc, driver>>

HandleOutput ==
    /\ pc = "run" /\ "IN" \in revents /\ "OUT" \notin revents
    /\ revents' = revents \ {"IN"}
    /\ EndCapture \/ RequeueCapture \/ ResetFails \/ \E n \in ResetCounts : ResetCapture(n)
    /\ UNCHANGED <<config, next, inPending, inQ, inDone>>

-----------------------------------------------------------------------------
(* The driver, as in MvxCodec but without events. *)

Streaming == pc = "run" /\ ~broken

NewResolution == pipe # <<>> /\ Head(pipe) \in ChangeAt /\ Head(pipe) > resolved

CanConsume == inQ # <<>> /\ Len(pipe) < Depth
CanEmit    == pipe # <<>> /\ ~NewResolution /\ outQ > 0
CanChange  == NewResolution /\ ~change
CanReturn  == change /\ outQ > 0
CanEnd     == lastSeen /\ pipe = <<>> /\ ~lastSent /\ outQ > 0

DriverConsume ==
    /\ Streaming /\ CanConsume
    /\ inQ' = Tail(inQ) /\ inDone' = inDone + 1
    /\ pipe' = Append(pipe, Head(inQ).read)
    /\ lastSeen' = Head(inQ).last
    /\ UNCHANGED <<config, client, outQ, outDone, lastSent, change, resolved,
                   errors, broken>>

Complete(f, l, e) ==
    /\ outQ' = outQ - 1
    /\ outDone' = Append(outDone, [frame |-> f, last |-> l, error |-> e])
    /\ UNCHANGED <<config, client, inQ, inDone, lastSeen, resolved, broken>>

DriverEmit(l) ==
    /\ Streaming /\ CanEmit
    /\ l => lastSeen /\ Len(pipe) = 1
    /\ Complete(Head(pipe), l, FALSE)
    /\ pipe' = Tail(pipe) /\ lastSent' = l
    /\ UNCHANGED <<change, errors>>

DriverChange ==
    /\ Streaming /\ CanChange
    /\ change' = TRUE
    /\ UNCHANGED <<config, client, inQ, inDone, outQ, outDone, pipe, lastSeen,
                   lastSent, resolved, errors, broken>>

DriverReturnEmpty ==
    /\ Streaming /\ CanReturn
    /\ Complete(0, FALSE, FALSE)
    /\ UNCHANGED <<pipe, lastSent, change, errors>>

DriverEnd ==
    /\ Streaming /\ CanEnd
    /\ Complete(0, TRUE, FALSE)
    /\ lastSent' = TRUE
    /\ UNCHANGED <<pipe, change, errors>>

DriverCorrupt ==
    /\ Streaming /\ errors < MaxErrors /\ outQ > 0
    /\ Complete(0, FALSE, TRUE)
    /\ errors' = errors + 1
    /\ UNCHANGED <<pipe, lastSent, change>>

DriverBreak ==
    /\ Streaming
    /\ broken' = TRUE
    /\ UNCHANGED <<config, client, inQ, inDone, outQ, outDone, pipe, lastSeen,
                   lastSent, change, resolved, errors>>

DriverIdle == ~(CanConsume \/ CanEmit \/ CanChange \/ CanReturn \/ CanEnd)

\* Sixty or ten seconds without any progress.
PollTimeout ==
    /\ Polling /\ Ready = {} /\ DriverIdle
    /\ pc' = "failed"
    /\ UNCHANGED <<config, revents, next, inPending, outPending, written,
                   inQ, inDone, outQ, outDone, driver>>

-----------------------------------------------------------------------------
Client == Setup \/ SetupFails \/ Poll \/ PollError \/ PollTimeout \/ HandleInput \/ HandleOutput

DriverWork ==
    \/ DriverConsume \/ DriverChange \/ DriverReturnEmpty \/ DriverEnd
    \/ \E l \in BOOLEAN : DriverEmit(l)

Terminated == pc \in {"done", "failed"} /\ UNCHANGED vars

Next == Client \/ DriverWork \/ DriverCorrupt \/ DriverBreak \/ Terminated

Spec == Init /\ [][Next]_vars

\* The program keeps running, and a driver that can work does.
FairSpec == Spec /\ WF_vars(Client) /\ WF_vars(DriverWork)

-----------------------------------------------------------------------------
(* Properties. *)

\* What decides the poll events is what the driver holds, also after a reset and
\* after the input was left without a buffer.
PendingExact ==
    /\ inPending = Len(inQ) + inDone
    /\ outPending = outQ + Len(outDone)

\* Where a capture stream may lose what it had decoded already.
MayLose == prog = "userptr" /\ errors > 0

\* A session that ends well has handed on every frame in order, except the one
\* the LAST buffer itself may carry, and except what mvx_userptr throws away
\* when it takes a corrupt buffer for a change of resolution.  On a file that is a
\* multiple of the buffer none ends well.
DoneComplete ==
    pc = "done" =>
        /\ ~exact
        /\ ~MayLose => \E n \in {NReads - 1, NReads} : written = [i \in 1..n |-> i]

\* A session fails only if the driver broke or refused a call, if the file is a multiple
\* of the buffer, so that no read ever carried the LAST flag, or if mvx_userptr threw the
\* LAST buffer away.
NoStall == pc = "failed" => broken \/ exact \/ MayLose

\* Every session ends: an empty capture buffer that is not answered by a reset
\* would come back for ever.
Ends == <>(pc \in {"done", "failed"})
=============================================================================
