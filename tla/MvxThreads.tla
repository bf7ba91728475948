----------------------------- MODULE MvxThreads -----------------------------
(***************************************************************************)
(* A session of class Codec in blocking mode: Codec::runThreads gives each *)
(* port a thread that handles buffers until handleBuffer returns true, and *)
(* the main thread joins both.  Nobody reads the driver's events.          *)
(*                                                                         *)
(* The port operations and the driver are those of MvxCodec.  eos is now   *)
(* the local of runThreadOutput, inputEos that of runThreadInput.  A DQBUF *)
(* in a thread blocks until its queue has a done buffer; on a fatal error  *)
(* of the driver it fails, and the exception ends the process because no   *)
(* thread function catches it.                                             *)
(***************************************************************************)
EXTENDS MvxCodec

VARIABLE inputEos

threadVars == <<vars, inputEos>>

ThreadInit == Init /\ inputEos = FALSE

Start == (Setup \/ QueueInput \/ StreamOn) /\ UNCHANGED <<session, inputEos>>

InputThread ==
    /\ pc = "run" /\ ~inputEos /\ ~broken
    /\ \E b \in InBuf : \/ RefillInput(b) /\ UNCHANGED inputEos
                        \/ KeepInput(b) /\ inputEos' = TRUE
    /\ UNCHANGED <<session, revents>>

\* isSourceChange stays FALSE because no event is read: no ResetCapture here.
OutputThread ==
    /\ pc = "run" /\ ~eos /\ ~broken
    /\ EndCapture \/ RequeueCapture
    /\ UNCHANGED <<session, revents, inputEos>>

\* DQBUF returns an error: uncaught in either thread.
Abort ==
    /\ pc = "run" /\ broken /\ ~(inputEos /\ eos)
    /\ pc' = "failed"
    /\ UNCHANGED <<session, revents, eos, next, eprDone, inPending, inFrames, outSize,
                   outPending, outFrames, isSourceChange, written, queues,
                   driver, inputEos>>

\* Both joins return; Codec::stream stops the streams.
Join == inputEos /\ StreamOff /\ UNCHANGED <<session, inputEos>>

ThreadNext ==
    \/ Start \/ InputThread \/ OutputThread \/ Abort \/ Join
    \/ (DriverWork \/ DriverFault \/ Terminated) /\ UNCHANGED inputEos

\* Every thread that can run does, and so does the driver.
ThreadSpec ==
    /\ ThreadInit /\ [][ThreadNext]_threadVars
    /\ WF_threadVars(Start \/ Abort \/ Join)
    /\ WF_threadVars(InputThread) /\ WF_threadVars(OutputThread)
    /\ WF_threadVars(DriverWork /\ UNCHANGED inputEos)

-----------------------------------------------------------------------------
\* The input thread leaves the driver alone only when everything was queued,
\* and never while the driver still lacks the end of the stream: if the output
\* thread is to see its LAST buffer, the packet that causes it is on its way, as
\* long as Join has not stopped the streams.
InputExitComplete ==
    inputEos /\ pc # "done" => lastSeen \/ \E i \in 1..Len(inQ) : inQ[i].last
=============================================================================
