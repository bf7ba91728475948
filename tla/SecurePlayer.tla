---------------------------- MODULE SecurePlayer ----------------------------
(***************************************************************************)
(* mvx_secureplayer (tools/securevideo/mvx_secureplayer.cpp) with the      *)
(* objects of its buffers: BufferV4L2, Port and main.  SimplePlayers has   *)
(* the same program with its buffers only counted; here every buffer has   *)
(* an index and the flag from which getBuffersPending counts, the map of a *)
(* port shrinks and grows with what the driver grants, and every buffer    *)
(* needs protected memory.                                                 *)
(*                                                                         *)
(* Names are those of SimplePlayers.  The driver is external, as there,    *)
(* but its queues hold indices.                                            *)
(***************************************************************************)
EXTENDS Naturals, Sequences, FiniteSets

CONSTANTS
    NReads, ChangeAt, Depth, MaxErrors, \* as in SimplePlayers
    Grants,         \* buffers VIDIOC_REQBUFS may grant for the one asked for
    ResetGrants     \* and for the six after a change of resolution

ASSUME SecurePlayerAssumption ==
    /\ NReads \in Nat \ {0} /\ ChangeAt \subseteq 1..NReads
    /\ Depth \in Nat \ {0} /\ MaxErrors \in Nat
    /\ Grants \cup ResetGrants \subseteq Nat \ {0} /\ Grants # {} /\ ResetGrants # {}

VARIABLES
    exact, pc, revents, next, written,  \* as in SimplePlayers
    buffers,        \* Port::buffers: of each port, for each index, whether it is queued
    granted,        \* driver: the buffers of each port
    inQ, inDone, outQ, outDone,         \* driver: the queues, with indices
    pipe, lastSeen, lastSent, change, resolved, errors, broken

driver == <<pipe, lastSeen, lastSent, change, resolved, errors, broken>>
queues == <<inQ, inDone, outQ, outDone>>
pvars  == <<exact, pc, revents, next, written, buffers, granted, queues, driver>>

Ports == {"in", "out"}

PlayerInit ==
    /\ exact \in BOOLEAN
    /\ pc = "setup" /\ revents = {} /\ next = 1 /\ written = <<>>
    /\ buffers = [p \in Ports |-> <<>>] /\ granted = [p \in Ports |-> 0]
    /\ inQ = <<>> /\ inDone = <<>> /\ outQ = <<>> /\ outDone = <<>> /\ pipe = <<>>
    /\ lastSeen = FALSE /\ lastSent = FALSE /\ change = FALSE /\ resolved = 0
    /\ errors = 0 /\ broken = FALSE

-----------------------------------------------------------------------------
(* BufferV4L2 and Port. *)

Read(i, n) == [index |-> i, read |-> n, last |-> n = NReads /\ ~exact]

\* A deleted buffer takes its flag with it.
Kept(queued, n) == IF n < Len(queued) THEN SubSeq(queued, 1, n) ELSE queued

\* Slip: buffers are only ever added.
OnlyGrown(queued, n) ==
    queued \o [i \in 1..(IF n > Len(queued) THEN n - Len(queued) ELSE 0) |-> FALSE]

\* Port::requestBuffers.
Requested(queued, n) ==
    Kept(queued, n) \o [i \in 1..(n - Len(Kept(queued, n))) |-> FALSE]

\* BufferV4L2::clear for every buffer.
Cleared(queued) == [i \in DOMAIN queued |-> FALSE]

\* BufferV4L2::queue for the first k.
Queued(queued, k) == [i \in DOMAIN queued |-> queued[i] \/ i <= k]

Pending(p) == Cardinality({i \in DOMAIN buffers[p] : buffers[p][i]})

-----------------------------------------------------------------------------
(* main. *)

AtMost(n, m) == IF n < m THEN n ELSE m

\* A read that finds nothing leaves its buffer out.
Setup ==
    /\ pc = "setup"
    /\ pc' = "run"
    /\ \E i \in Grants, o \in Grants :
        LET k == AtMost(i, NReads) IN
        /\ granted' = [p \in Ports |-> IF p = "in" THEN i ELSE o]
        /\ buffers' = [p \in Ports |->
                IF p = "in" THEN Queued(Requested(buffers[p], i), k)
                            ELSE Queued(Cleared(Requested(buffers[p], o)), o)]
        /\ inQ' = [n \in 1..k |-> Read(n, n)] /\ next' = k + 1
        /\ outQ' = [n \in 1..o |-> n]
    /\ UNCHANGED <<exact, revents, written, inDone, outDone, driver>>

\* The session, the device, a format, buffers or protected memory are refused.
SetupFails ==
    /\ pc = "setup"
    /\ pc' = "failed" /\ broken' = TRUE
    /\ UNCHANGED <<exact, revents, next, written, buffers, granted, queues, pipe,
                   lastSeen, lastSent, change, resolved, errors>>

Ready == {r \in {"OUT", "IN"} :
            IF r = "OUT" THEN Pending("in") > 0 /\ inDone # <<>>
                         ELSE Pending("out") > 0 /\ outDone # <<>>}

Polling == pc = "run" /\ revents = {}

Poll ==
    /\ Polling /\ ~broken /\ Ready # {}
    /\ revents' = Ready
    /\ UNCHANGED <<exact, pc, next, written, buffers, granted, queues, driver>>

PollError ==
    /\ Polling /\ broken
    /\ pc' = "failed"
    /\ UNCHANGED <<exact, revents, next, written, buffers, granted, queues, driver>>

\* Port::dequeueBuffer, and BufferV4L2::queue if the buffer goes back.
Flagged(p, i, again) == buffers' = [buffers EXCEPT ![p][i] = again]

\* Slip: as if the read had always found something.
AlwaysMore == TRUE

More == next <= NReads

HandleInput ==
    /\ pc = "run" /\ "OUT" \in revents
    /\ revents' = revents \ {"OUT"}
    /\ inDone' = Tail(inDone)
    /\ Flagged("in", Head(inDone), More)
    /\ IF More
       THEN inQ' = Append(inQ, Read(Head(inDone), next)) /\ next' = next + 1
       ELSE UNCHANGED <<inQ, next>>
    /\ UNCHANGED <<exact, pc, written, granted, outQ, outDone, driver>>

Done == Head(outDone)

EndCapture ==
    /\ Done.last
    /\ pc' = "done"
    /\ outDone' = Tail(outDone) /\ Flagged("out", Done.index, FALSE)
    /\ UNCHANGED <<written, granted, outQ, driver>>

ResetsStream == ~Done.last /\ Done.frame = 0 /\ ~Done.error

\* portSettingsChanged: streamOff, requestBuffers, queueBuffers, streamOn.
AfterReset(n) == Queued(Requested(Cleared(buffers["out"]), n), n)

ResetCapture(n) ==
    /\ ResetsStream
    /\ buffers' = [buffers EXCEPT !["out"] = AfterReset(n)]
    /\ granted' = [granted EXCEPT !["out"] = n]
    /\ outQ' = [i \in 1..n |-> i] /\ outDone' = <<>>
    /\ change' = FALSE /\ resolved' = IF change THEN Head(pipe) ELSE resolved
    /\ UNCHANGED <<pc, written, pipe, lastSeen, lastSent, errors, broken>>

\* A call fails on the way, most likely for want of protected memory, and nobody catches
\* what it throws.
ResetFails ==
    /\ ResetsStream
    /\ pc' = "failed" /\ broken' = TRUE
    /\ buffers' = [buffers EXCEPT !["out"] = Cleared(@)]
    /\ outQ' = <<>> /\ outDone' = <<>>
    /\ UNCHANGED <<written, granted, pipe, lastSeen, lastSent, change, resolved, errors>>

RequeueCapture ==
    /\ ~Done.last /\ ~ResetsStream
    /\ written' = IF Done.frame # 0 THEN Append(written, Done.frame) ELSE written
    /\ outDone' = Tail(outDone) /\ outQ' = Append(outQ, Done.index)
    /\ Flagged("out", Done.index, TRUE)
    /\ UNCHANGED <<pc, granted, driver>>

HandleOutput ==
    /\ pc = "run" /\ "IN" \in revents /\ "OUT" \notin revents
    /\ revents' = revents \ {"IN"}
    /\ EndCapture \/ RequeueCapture \/ ResetFails \/ \E n \in ResetGrants : ResetCapture(n)
    /\ UNCHANGED <<exact, next, inQ, inDone>>

-----------------------------------------------------------------------------
(* The driver. *)

Streaming == pc = "run" /\ ~broken

NewResolution == pipe # <<>> /\ Head(pipe) \in ChangeAt /\ Head(pipe) > resolved

CanConsume == inQ # <<>> /\ Len(pipe) < Depth
CanEmit    == pipe # <<>> /\ ~NewResolution /\ outQ # <<>>
CanChange  == NewResolution /\ ~change
CanReturn  == change /\ outQ # <<>>
CanEnd     == lastSeen /\ pipe = <<>> /\ ~lastSent /\ outQ # <<>>
DriverIdle == ~(CanConsume \/ CanEmit \/ CanChange \/ CanReturn \/ CanEnd)

client == <<exact, pc, revents, next, written, buffers, granted>>

DriverConsume ==
    /\ CanConsume
    /\ inQ' = Tail(inQ) /\ inDone' = Append(inDone, Head(inQ).index)
    /\ pipe' = Append(pipe, Head(inQ).read) /\ lastSeen' = Head(inQ).last
    /\ UNCHANGED <<client, outQ, outDone, lastSent, change, resolved, errors, broken>>

CompleteBuffer(f, l, e) ==
    /\ outQ' = Tail(outQ)
    /\ outDone' = Append(outDone, [index |-> Head(outQ), frame |-> f, last |-> l, error |-> e])
    /\ UNCHANGED <<client, inQ, inDone, lastSeen, resolved, broken>>

DriverEmit(l) ==
    /\ CanEmit /\ (l => lastSeen /\ Len(pipe) = 1)
    /\ CompleteBuffer(Head(pipe), l, FALSE)
    /\ pipe' = Tail(pipe) /\ lastSent' = l
    /\ UNCHANGED <<change, errors>>

DriverChange ==
    /\ CanChange
    /\ change' = TRUE
    /\ UNCHANGED <<client, queues, pipe, lastSeen, lastSent, resolved, errors, broken>>

DriverReturnEmpty ==
    /\ CanReturn
    /\ CompleteBuffer(0, FALSE, FALSE)
    /\ UNCHANGED <<pipe, lastSent, change, errors>>

DriverEnd ==
    /\ CanEnd
    /\ CompleteBuffer(0, TRUE, FALSE)
    /\ lastSent' = TRUE
    /\ UNCHANGED <<pipe, change, errors>>

DriverCorrupt ==
    /\ Streaming /\ errors < MaxErrors /\ outQ # <<>>
    /\ CompleteBuffer(0, FALSE, TRUE)
    /\ errors' = errors + 1
    /\ UNCHANGED <<pipe, lastSent, change>>

DriverBreak ==
    /\ Streaming
    /\ broken' = TRUE
    /\ UNCHANGED <<client, queues, pipe, lastSeen, lastSent, change, resolved, errors>>

\* Ten seconds without any progress.
PollTimeout ==
    /\ Polling /\ Ready = {} /\ DriverIdle
    /\ pc' = "failed"
    /\ UNCHANGED <<exact, revents, next, written, buffers, granted, queues, driver>>

Client == Setup \/ SetupFails \/ Poll \/ PollError \/ PollTimeout \/ HandleInput \/ HandleOutput

DriverWork ==
    /\ Streaming
    /\ \/ DriverConsume \/ DriverChange \/ DriverReturnEmpty \/ DriverEnd
       \/ \E l \in BOOLEAN : DriverEmit(l)

-----------------------------------------------------------------------------
(* Properties. *)

IndexOf(q) == [k \in DOMAIN q |-> q[k].index]
Held(p) == IF p = "in" THEN IndexOf(inQ) \o inDone ELSE outQ \o IndexOf(outDone)

\* A port has an object for each buffer the driver granted, and those flagged as queued
\* are the ones the driver holds, each once: what is polled for can come, and what comes
\* is found in the map.
FlagsExact ==
    pc \in {"run", "done"} =>
        \A p \in Ports :
            /\ Len(buffers[p]) = granted[p]
            /\ Len(Held(p)) = Pending(p)
            /\ {Held(p)[k] : k \in DOMAIN Held(p)} = {i \in DOMAIN buffers[p] : buffers[p][i]}

\* The queues without the indices.
Reads(q)  == [k \in DOMAIN q |-> [read |-> q[k].read, last |-> q[k].last]]
Frames(q) == [k \in DOMAIN q |-> [frame |-> q[k].frame, last |-> q[k].last, error |-> q[k].error]]

\* With its buffers counted, the program is mvx_secureplayer of SimplePlayers: frames are
\* handed on in order, and a session ends.
Counted == INSTANCE SimplePlayers WITH
    UserptrCount <- 1, MinCapture <- {1}, SecureCounts <- Grants,
    SecureResetCounts <- ResetGrants, prog <- "secureplayer",
    inPending <- Pending("in"), outPending <- Pending("out"),
    inQ <- Reads(inQ), inDone <- Len(inDone), outQ <- Len(outQ), outDone <- Frames(outDone)

ImplementsPlayer == Counted!FairSpec
=============================================================================
