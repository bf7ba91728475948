--------------------------- MODULE MvxCodecProofs ---------------------------
(***************************************************************************)
(* Proofs about a session of class Codec, in poll mode (MvxCodec) and in   *)
(* blocking mode (MvxThreads), for every value of the constants:           *)
(*   - the types, the counters of queued buffers, the ownership of buffers *)
(*     and the order of the stop command and the LAST packet (IInv);       *)
(*   - that no frame follows the packet that ends the stream and that a    *)
(*     change of resolution throws no frame away (OrderInv);               *)
(*   - that the session implements the safety part of FrameStream          *)
(*     (FlowInv);                                                          *)
(*   - that session and driver never wait for each other, and that no      *)
(*     change of resolution is lost (WaitInv);                             *)
(*   - the same safety for blocking mode (ThreadInv).                      *)
(*                                                                         *)
(* No property is inductive by itself.  A counter that is decremented      *)
(* stays a natural number because it counts buffers; the buffer counts     *)
(* hold because no buffer is on two queues; a reset records the resolution *)
(* of the head of the pipe, which exists because a change in progress      *)
(* belongs to the frame waiting there; and a stop command sent at the end  *)
(* of the file follows the packet that was queued when the end was         *)
(* reached.                                                                *)
(***************************************************************************)
EXTENDS MvxThreads, FiniteSetTheorems, FunctionTheorems, SequenceTheorems, TLAPS

\* The input port: counters, ownership, and the order in which the buffers are
\* first queued.
InputOwned ==
    /\ \A i \in 1..Len(inQ) : inQ[i].buf \notin inDone
    /\ \A i, j \in 1..Len(inQ) : inQ[i].buf = inQ[j].buf => i = j
    /\ pc # "done" => inPending = Len(inQ) + Cardinality(inDone)
    /\ pc \in {"setup", "queue"} =>
          /\ inDone = {}
          /\ \A i \in 1..Len(inQ) : inQ[i].buf < Len(inQ)
    /\ pc = "setup" => inQ = <<>>

\* The output port.
OutputOwned ==
    /\ outQ \subseteq 0..(outSize - 1)
    /\ \A i \in 1..Len(outDone) : outDone[i].buf \in 0..(outSize - 1) \ outQ
    /\ \A i, j \in 1..Len(outDone) : outDone[i].buf = outDone[j].buf => i = j
    /\ pc # "done" => outPending = Cardinality(outQ) + Len(outDone)
    /\ pc = "setup" => outDone = <<>>

\* A change in progress is that of the frame at the head of the pipe.
ChangeAtHead == change => NewResolution

\* Once the file is exhausted, its LAST packet is with the driver.
EndIsQueued ==
    /\ Eof /\ pc # "done" => lastSeen \/ \E i \in 1..Len(inQ) : inQ[i].last
    /\ StopAfterLast

IInv == TypeOK /\ InputOwned /\ OutputOwned /\ ChangeAtHead /\ EndIsQueued

-----------------------------------------------------------------------------
(* The steps.  The blocking mode of MvxThreads gives the same handlers to  *)
(* threads, so that each lemma below is about Work: what a step may do,    *)
(* whoever decides to take it.                                             *)

InputWork ==
    /\ pc = "run" /\ revents' = revents \ {"OUT"}
    /\ \E b \in InBuf : KeepInput(b) \/ RefillInput(b)

\* No buffer of the output port is handled after the one that ended the session,
\* unless the turn was due before.
OutputWork ==
    /\ pc = "run" /\ revents' = revents \ {"IN"}
    /\ eos => "IN" \in revents
    /\ \/ EndCapture
       \/ \E m \in MinCapture : ResetCapture(m + ExtraCount)
       \/ RequeueCapture

GiveUp ==
    /\ pc = "run" /\ pc' = "failed"
    /\ UNCHANGED <<revents, eos, next, eprDone, inPending, inFrames, outSize,
                   outPending, outFrames, isSourceChange, written, queues, driver>>

ClientWork ==
    /\ UNCHANGED session
    /\ \/ Setup \/ QueueInput \/ StreamOn \/ Poll \/ GiveUp
       \/ InputWork \/ OutputWork \/ HandleEvent \/ StreamOff

Work == ClientWork \/ DriverWork \/ DriverFault

LEMMA PollModeWorks == [Next]_vars => [Work]_vars
<1>1. HandleInput => InputWork
  BY DEF HandleInput, InputTurn, InputWork
<1>2. HandleOutput => OutputWork
  BY DEF HandleOutput, OutputTurn, OutputWork
<1>3. PollError \/ PollTimeout => GiveUp
  BY DEF PollError, PollTimeout, Polling, GiveUp
<1>4. QED
  BY <1>1, <1>2, <1>3 DEF Next, Client, Terminated, Work, ClientWork

-----------------------------------------------------------------------------
(* Lemmas about sequences of buffers and about the packets of the input. *)

\* Appending a buffer that is not in the sequence keeps its members distinct.
LEMMA AppendDistinct ==
    ASSUME NEW S, NEW s \in Seq(S), NEW e \in S,
           \A i, j \in 1..Len(s) : s[i].buf = s[j].buf => i = j,
           \A i \in 1..Len(s) : s[i].buf # e.buf
    PROVE  /\ Append(s, e) \in Seq(S)
           /\ Len(Append(s, e)) = Len(s) + 1
           /\ \A i \in 1..Len(s) : Append(s, e)[i] = s[i]
           /\ Append(s, e)[Len(s) + 1] = e
           /\ \A i, j \in 1..Len(Append(s, e)) :
                Append(s, e)[i].buf = Append(s, e)[j].buf => i = j
<1>1. /\ Append(s, e) \in Seq(S)
      /\ Len(Append(s, e)) = Len(s) + 1
      /\ \A i \in 1..Len(s) : Append(s, e)[i] = s[i]
      /\ Append(s, e)[Len(s) + 1] = e
  OBVIOUS
<1>2. ASSUME NEW i \in 1..(Len(s) + 1), NEW j \in 1..(Len(s) + 1),
             Append(s, e)[i].buf = Append(s, e)[j].buf
      PROVE  i = j
  <2>1. CASE i = Len(s) + 1 /\ j = Len(s) + 1
    BY <2>1
  <2>2. CASE i = Len(s) + 1 /\ j \in 1..Len(s)
    BY <1>1, <1>2, <2>2
  <2>3. CASE i \in 1..Len(s) /\ j = Len(s) + 1
    BY <1>1, <1>2, <2>3
  <2>4. CASE i \in 1..Len(s) /\ j \in 1..Len(s)
    BY <1>1, <1>2, <2>4
  <2>5. QED BY <2>1, <2>2, <2>3, <2>4
<1>3. QED BY <1>1, <1>2

\* Dropping the head keeps the members distinct, and the head is none of them.
LEMMA TailDistinct ==
    ASSUME NEW S, NEW s \in Seq(S), s # <<>>,
           \A i, j \in 1..Len(s) : s[i].buf = s[j].buf => i = j
    PROVE  /\ Tail(s) \in Seq(S) /\ Len(Tail(s)) = Len(s) - 1 /\ Len(s) > 0
           /\ \A i \in 1..Len(Tail(s)) : Tail(s)[i] = s[i + 1] /\ i + 1 \in 1..Len(s)
           /\ \A i, j \in 1..Len(Tail(s)) : Tail(s)[i].buf = Tail(s)[j].buf => i = j
           /\ Head(s) = s[1]
           /\ \A i \in 1..Len(Tail(s)) : Tail(s)[i].buf # Head(s).buf
<1>1. Len(s) \in Nat /\ Len(s) > 0 /\ Head(s) = s[1]
  OBVIOUS
<1>2. /\ Tail(s) \in Seq(S) /\ Len(Tail(s)) = Len(s) - 1
      /\ \A i \in 1..Len(Tail(s)) : Tail(s)[i] = s[i + 1] /\ i + 1 \in 1..Len(s)
  BY <1>1, HeadTailProperties
<1>3. \A i, j \in 1..Len(Tail(s)) : Tail(s)[i].buf = Tail(s)[j].buf => i = j
  BY <1>1, <1>2
<1>4. \A i \in 1..Len(Tail(s)) : Tail(s)[i].buf # Head(s).buf
  BY <1>1, <1>2
<1>5. QED BY <1>1, <1>2, <1>3, <1>4

\* Appending keeps the type of a sequence.
LEMMA AppendType ==
    ASSUME NEW S, NEW s \in Seq(S), NEW e \in S
    PROVE  Append(s, e) \in Seq(S)
OBVIOUS

\* A session keeps its kind, its file and its limit; the number of the last packet,
\* with or without an empty one at the end, is therefore fixed.
LEMMA SessionFixed == [Work]_vars => UNCHANGED <<session, LastPacket>>
BY DEF Work, ClientWork, DriverWork, DriverFault, vars, LastPacket

LEMMA LastPacketType ==
    ASSUME session \in Session
    PROVE  LastPacket \in Nat /\ NFrames \in Nat /\ LastPacket > 0
<1>1. session.eofLate \in EofLates /\ session.eofLate \in BOOLEAN
  BY SessionAssumption DEF Session
<1>2. CASE session.eofLate
  BY <1>2, StreamAssumption DEF LastPacket
<1>3. CASE session.eofLate = FALSE
  BY <1>1, <1>3, StreamAssumption DEF LastPacket
<1>4. QED BY <1>1, <1>2, <1>3

\* The packet prepared before the end of the file is well formed.
LEMMA PacketType ==
    ASSUME TypeOK, NEW b \in InBuf, ~Eof
    PROVE  PreparedPacket(b) \in Packet /\ PreparedPacket(b).buf = b
<1>1. next \in Nat /\ ~(next > NFrames) => next \in 0..NFrames
  BY StreamAssumption DEF TypeOK
<1>2. EofAfterPrepare \/ AtLimit \in BOOLEAN
  BY DEF EofAfterPrepare, AtLimit
<1>3. QED BY <1>1, <1>2, StreamAssumption DEF TypeOK, PreparedPacket, Packet

\* The counters of queued buffers never go below the buffers they count.
LEMMA PendingPositive ==
    ASSUME TypeOK, InputOwned, OutputOwned, pc # "done"
    PROVE  /\ IsFiniteSet(inDone) /\ IsFiniteSet(outQ)
           /\ Cardinality(inDone) \in Nat /\ Cardinality(outQ) \in Nat
           /\ \A b \in inDone : inPending > 0
           /\ outDone # <<>> => outPending > 0
<1>1. IsFiniteSet(InBuf) /\ IsFiniteSet(0..(outSize - 1))
  BY FS_Interval, BufferAssumption DEF InBuf, TypeOK
<1>2. IsFiniteSet(inDone) /\ IsFiniteSet(outQ)
  BY <1>1, FS_Subset DEF TypeOK, OutputOwned
<1>3. Cardinality(inDone) \in Nat /\ Cardinality(outQ) \in Nat
  BY <1>2, FS_CardinalityType
<1>4. \A b \in inDone : Cardinality(inDone) > 0
  BY <1>2, <1>3, FS_EmptySet
<1>5. \A b \in inDone : inPending > 0
  BY <1>3, <1>4 DEF TypeOK, InputOwned
<1>6. outDone # <<>> => Len(outDone) > 0
  BY EmptySeq DEF TypeOK
<1>7. outDone # <<>> => outPending > 0
  BY <1>3, <1>6 DEF TypeOK, OutputOwned
<1>8. QED BY <1>2, <1>3, <1>5, <1>7

-----------------------------------------------------------------------------
(* Each conjunct of the invariant is preserved by every step. *)

\* Every handler and every step of the driver keeps the types; the decrement of a
\* counter at a dequeue rests on PendingPositive.
LEMMA TypeStep == IInv /\ [Work]_vars => TypeOK'
<1> SUFFICES ASSUME IInv, [Work]_vars PROVE TypeOK'
  OBVIOUS
<1>0. /\ session \in Session /\ session' = session /\ LastPacket' = LastPacket
      /\ LastPacket \in Nat /\ NFrames \in Nat /\ LastPacket > 0
  BY SessionFixed, LastPacketType DEF IInv, TypeOK
<1> USE <1>0, BufferAssumption DEF IInv
<1>1. CASE Setup
  BY <1>1 DEF Setup, TypeOK, driver
<1>2. CASE QueueInput
  <2>1. Len(inQ) \in InBuf
    BY <1>2 DEF QueueInput, TypeOK, InBuf
  <2>2. PreparedPacket(Len(inQ)) \in Packet
    BY <1>2, <2>1, PacketType DEF QueueInput
  <2>3. inQ' \in Seq(Packet)
    BY <1>2, <2>2 DEF QueueInput, PrepareAndQueue, TypeOK
  <2>4. next' \in 1..(LastPacket + 1) /\ eprDone' \in BOOLEAN /\ inFrames' \in Nat
    BY <1>2 DEF QueueInput, PrepareAndQueue, TypeOK, Eof, IsGeneral
  <2>5. QED BY <1>2, <2>3, <2>4 DEF QueueInput, TypeOK, driver
<1>3. CASE StreamOn
  BY <1>3 DEF StreamOn, TypeOK, queues, driver
<1>4. CASE Poll
  BY <1>4 DEF Poll, Polling, Ready, TypeOK, queues, driver
<1>5. CASE GiveUp
  BY <1>5 DEF GiveUp, TypeOK, queues, driver
<1>6. CASE InputWork
  <2>1. PICK b \in InBuf : KeepInput(b) \/ RefillInput(b)
    BY <1>6 DEF InputWork
  <2>2. revents' \subseteq {"OUT", "IN", "PRI"}
    BY <1>6 DEF InputWork, TypeOK
  <2>3. CASE KeepInput(b)
    <3>1. inPending - 1 \in Nat
      BY <1>6, <2>3, PendingPositive DEF KeepInput, TypeOK, InputWork
    <3>2. QED BY <2>2, <2>3, <3>1, SessionAssumption DEF KeepInput, Encoder, TypeOK
  <2>4. CASE RefillInput(b)
    <3>1. PreparedPacket(b) \in Packet
      BY <2>4, PacketType DEF RefillInput
    <3>2. inQ' \in Seq(Packet)
      BY <2>4, <3>1 DEF RefillInput, PrepareAndQueue, TypeOK
    <3>3. next' \in 1..(LastPacket + 1) /\ eprDone' \in BOOLEAN /\ inFrames' \in Nat
      BY <2>4 DEF RefillInput, PrepareAndQueue, TypeOK, Eof, IsGeneral
    <3>4. inPending' \in Nat /\ inDone' \subseteq InBuf /\ stopCmd' \in BOOLEAN
      BY <2>4 DEF RefillInput, TypeOK, EofAfterPrepare
    <3>5. QED BY <2>2, <2>4, <3>2, <3>3, <3>4 DEF RefillInput, TypeOK
  <2>5. QED BY <2>1, <2>3, <2>4
<1>7. CASE OutputWork
  <2>1. revents' \subseteq {"OUT", "IN", "PRI"}
    BY <1>7 DEF OutputWork, TypeOK
  <2>2. ASSUME TakeCapture
        PROVE  /\ Done \in Capture /\ Tail(outDone) \in Seq(Capture)
               /\ written' \in Seq(1..NFrames) /\ outFrames' \in Nat
               /\ outPending - 1 \in Nat
    <3>1. outDone # <<>> /\ Done \in Capture /\ Tail(outDone) \in Seq(Capture)
      BY <2>2, HeadTailProperties DEF TakeCapture, TypeOK, Done
    <3>2. FramePresent => Done.frame \in 1..NFrames
      BY <3>1 DEF FramePresent, Capture
    <3>3. FramePresent => Append(written, Done.frame) \in Seq(1..NFrames)
      BY <3>2, AppendType DEF TypeOK
    <3>4. written' \in Seq(1..NFrames)
      BY <2>2, <3>3 DEF TakeCapture, TypeOK
    <3>5. outFrames' \in Nat
      BY <2>2 DEF TakeCapture, TypeOK
    <3>6. outPending - 1 \in Nat
      BY <1>7, <3>1, PendingPositive DEF OutputWork, TypeOK
    <3>7. QED BY <3>1, <3>4, <3>5, <3>6
  <2>3. CASE EndCapture
    BY <2>1, <2>2, <2>3 DEF EndCapture, TypeOK, driver
  <2>4. ASSUME NEW m \in MinCapture, ResetCapture(m + ExtraCount) PROVE TypeOK'
    <3>1. change => Head(pipe) \in 1..NFrames
      BY HeadTailProperties DEF ChangeAtHead, NewResolution, TypeOK
    <3>2. resolved' \in 0..NFrames
      BY <2>4, <3>1 DEF ResetCapture, TypeOK
    <3>3. outDone' \in Seq(Capture)
      BY <2>4 DEF ResetCapture, DoneAfterReset
    <3>4. m + ExtraCount \in Nat
      OBVIOUS
    <3>5. outSize' \in Nat /\ outPending' \in Nat /\ outQ' \subseteq Nat
      BY <2>4, <3>4 DEF ResetCapture, PendingAfterReset
    <3>6. written' \in Seq(1..NFrames) /\ outFrames' \in Nat
      BY <2>2, <2>4 DEF ResetCapture
    <3>7. QED BY <2>1, <2>4, <3>2, <3>3, <3>5, <3>6 DEF ResetCapture, TypeOK
  <2>5. CASE RequeueCapture
    <3>1. TakeCapture /\ Done.buf \in Nat
      BY <2>2, <2>5 DEF RequeueCapture, Capture
    <3>2. outQ' \subseteq Nat
      BY <2>5, <3>1 DEF RequeueCapture, TypeOK
    <3>3. outPending' \in Nat
      BY <2>2, <2>5, <3>1 DEF RequeueCapture
    <3>4. eos' \in BOOLEAN
      BY <2>5 DEF RequeueCapture, ReachesLimit
    <3>5. QED BY <2>1, <2>2, <2>5, <3>1, <3>2, <3>3, <3>4 DEF RequeueCapture, TypeOK, driver
  <2>6. QED BY <1>7, <2>3, <2>4, <2>5 DEF OutputWork
<1>8. CASE HandleEvent
  BY <1>8, HeadTailProperties DEF HandleEvent, TypeOK, driver
<1>9. CASE StreamOff
  BY <1>9, EmptySeq DEF StreamOff, TypeOK, driver
<1>10. CASE DriverConsume
  <2>1. inQ # <<>> /\ Head(inQ) \in Packet /\ Tail(inQ) \in Seq(Packet)
    BY <1>10, HeadTailProperties DEF DriverConsume, CanConsume, TypeOK
  <2>2. Head(inQ).frame # 0 => Head(inQ).frame \in 1..NFrames
    BY <2>1 DEF Packet
  <2>3. pipe' \in Seq(1..NFrames)
    BY <1>10, <2>2, AppendType DEF DriverConsume, TypeOK
  <2>4. QED BY <1>10, <2>1, <2>3 DEF DriverConsume, TypeOK, client, Packet
<1>11. ASSUME NEW b \in outQ, NEW f \in 0..NFrames, NEW l \in BOOLEAN, NEW e \in BOOLEAN,
              Complete(b, f, l, e)
       PROVE  outQ' \subseteq Nat /\ outDone' \in Seq(Capture)
  <2>1. b \in Nat /\ outQ \ {b} \subseteq Nat
    BY DEF TypeOK
  <2>2. [buf |-> b, frame |-> f, last |-> l, error |-> e] \in Capture
    BY <2>1 DEF Capture
  <2>3. outDone' \in Seq(Capture)
    BY <1>11, <2>2, AppendType DEF Complete, TypeOK
  <2>4. QED BY <1>11, <2>1, <2>3 DEF Complete
<1>12. ASSUME NEW b \in outQ, NEW l \in BOOLEAN, DriverEmit(b, l) PROVE TypeOK'
  <2>1. Head(pipe) \in 1..NFrames /\ Tail(pipe) \in Seq(1..NFrames)
    BY <1>12, HeadTailProperties DEF DriverEmit, CanEmit, TypeOK
  <2>2. Complete(b, Head(pipe), l, FALSE)
    BY <1>12 DEF DriverEmit
  <2>3. outQ' \subseteq Nat /\ outDone' \in Seq(Capture)
    <3>1. Head(pipe) \in 0..NFrames
      BY <2>1
    <3>2. QED BY <1>11, <2>2, <3>1
  <2>4. QED BY <1>12, <2>1, <2>3 DEF DriverEmit, TypeOK, client
<1>13. ASSUME NEW b \in outQ, NEW l \in BOOLEAN, NEW e \in BOOLEAN, Complete(b, 0, l, e)
       PROVE  outQ' \subseteq Nat /\ outDone' \in Seq(Capture)
  <2>1. 0 \in 0..NFrames
    OBVIOUS
  <2>2. QED BY <1>11, <1>13, <2>1
<1>14. ASSUME NEW b \in outQ, DriverReturnEmpty(b) \/ DriverEnd(b) \/ DriverCorrupt(b)
       PROVE  TypeOK'
  <2>1. CASE DriverReturnEmpty(b)
    <3>1. outQ' \subseteq Nat /\ outDone' \in Seq(Capture)
      BY <1>13, <2>1 DEF DriverReturnEmpty
    <3>2. QED BY <2>1, <3>1 DEF DriverReturnEmpty, TypeOK, client, driver
  <2>2. CASE DriverEnd(b)
    <3>1. outQ' \subseteq Nat /\ outDone' \in Seq(Capture)
      BY <1>13, <2>2 DEF DriverEnd
    <3>2. events' \in Seq({"SOURCE_CHANGE", "COLOR_DESC", "EOS"})
      BY <2>2, AppendType DEF DriverEnd, TypeOK
    <3>3. QED BY <2>2, <3>1, <3>2 DEF DriverEnd, TypeOK, client
  <2>3. CASE DriverCorrupt(b)
    <3>1. outQ' \subseteq Nat /\ outDone' \in Seq(Capture)
      BY <1>13, <2>3 DEF DriverCorrupt
    <3>2. QED BY <2>3, <3>1 DEF DriverCorrupt, TypeOK, client
  <2>4. QED BY <1>14, <2>1, <2>2, <2>3
<1>15. ASSUME NEW colour \in BOOLEAN, DriverSignalChange(colour) PROVE TypeOK'
  <2>1. events' \in Seq({"SOURCE_CHANGE", "COLOR_DESC", "EOS"})
    <3>1. <<"COLOR_DESC", "SOURCE_CHANGE">> \in Seq({"SOURCE_CHANGE", "COLOR_DESC", "EOS"})
      OBVIOUS
    <3>2. <<"SOURCE_CHANGE">> \in Seq({"SOURCE_CHANGE", "COLOR_DESC", "EOS"})
      OBVIOUS
    <3>3. QED BY <1>15, <3>1, <3>2, ConcatProperties DEF DriverSignalChange, TypeOK
  <2>2. QED BY <1>15, <2>1 DEF DriverSignalChange, TypeOK, client
<1>16. CASE DriverBreak
  BY <1>16 DEF DriverBreak, TypeOK, client, queues
<1>17. CASE UNCHANGED vars
  BY <1>17 DEF TypeOK, vars, client, queues, driver
<1>18. QED
  BY <1>1, <1>2, <1>3, <1>4, <1>5, <1>6, <1>7, <1>8, <1>9, <1>10, <1>12, <1>14,
     <1>15, <1>16, <1>17
     DEF Work, ClientWork, DriverWork, DriverFault

\* Only queueing, handling an input buffer and consuming a packet touch the input
\* port; each moves one buffer.
LEMMA InputStep == IInv /\ [Work]_vars => InputOwned'
<1> SUFFICES ASSUME IInv, [Work]_vars PROVE InputOwned'
  OBVIOUS
<1> USE DEF IInv
<1>1. ASSUME UNCHANGED <<inQ, inDone, inPending>>,
             pc' = pc \/ (pc = "setup" /\ pc' = "queue")
               \/ (pc # "done" /\ pc' \in {"run", "failed"})
      PROVE  InputOwned'
  BY <1>1, EmptySeq DEF InputOwned, TypeOK
<1>2. CASE Setup \/ StreamOn \/ GiveUp
  BY <1>1, <1>2 DEF Setup, StreamOn, GiveUp, queues
<1>3. CASE QueueInput
  <2> DEFINE n == Len(inQ)
  <2>1. n \in InBuf /\ PreparedPacket(n) \in Packet /\ PreparedPacket(n).buf = n
    BY <1>3, PacketType, BufferAssumption DEF QueueInput, TypeOK, InBuf
  <2>2. \A i \in 1..Len(inQ) : inQ[i] \in Packet /\ inQ[i].buf \in Nat
    <3>1. \A i \in 1..Len(inQ) : inQ[i] \in Packet
      BY ElementOfSeq DEF TypeOK
    <3>2. \A q \in Packet : q.buf \in Nat
      BY BufferAssumption DEF Packet, InBuf
    <3>3. QED BY <3>1, <3>2
  <2>3. inDone = {} /\ n \in Nat /\ \A i \in 1..Len(inQ) : inQ[i].buf # n /\ inQ[i].buf < n
    <3>1. inDone = {} /\ \A i \in 1..Len(inQ) : inQ[i].buf < n
      BY <1>3 DEF QueueInput, InputOwned
    <3>2. n \in Nat
      BY <2>1, BufferAssumption DEF InBuf
    <3>3. QED BY <2>2, <3>1, <3>2
  <2>4. inQ' = Append(inQ, PreparedPacket(n)) /\ pc' = "queue" /\ inDone' = {}
        /\ inPending' = inPending + 1
    BY <1>3, <2>3 DEF QueueInput, PrepareAndQueue
  <2>5. /\ Len(inQ') = n + 1
        /\ \A i \in 1..n : inQ'[i] = inQ[i]
        /\ inQ'[n + 1] = PreparedPacket(n)
        /\ \A i, j \in 1..Len(inQ') : inQ'[i].buf = inQ'[j].buf => i = j
    BY <2>1, <2>3, <2>4, AppendDistinct DEF TypeOK, InputOwned
  <2>6. \A i \in 1..Len(inQ') : inQ'[i].buf < Len(inQ')
    <3>1. ASSUME NEW i \in 1..(n + 1) PROVE inQ'[i].buf < n + 1
      <4>1. CASE i = n + 1
        BY <2>1, <2>3, <2>5, <4>1
      <4>2. CASE i \in 1..n
        BY <2>3, <2>5, <2>2, <4>2
      <4>3. QED BY <2>3, <4>1, <4>2
    <3>2. QED BY <2>5, <3>1
  <2>7. inPending' = Len(inQ') + Cardinality(inDone')
    BY <1>3, <2>3, <2>4, <2>5, FS_EmptySet DEF InputOwned, QueueInput, TypeOK
  <2>8. QED BY <2>4, <2>5, <2>6, <2>7 DEF InputOwned
<1>4. CASE Poll \/ OutputWork \/ HandleEvent
  BY <1>1, <1>4 DEF Poll, OutputWork, HandleEvent, EndCapture, ResetCapture,
     RequeueCapture, queues
<1>5. CASE InputWork
  <2>1. PICK b \in InBuf : KeepInput(b) \/ RefillInput(b)
    BY <1>5 DEF InputWork
  <2>2. pc = "run" /\ pc' = "run" /\ b \in inDone /\ inDone' = inDone \ {b}
    BY <1>5, <2>1 DEF InputWork, KeepInput, RefillInput
  <2>3. Cardinality(inDone') = Cardinality(inDone) - 1 /\ Cardinality(inDone) \in Nat
    BY <2>2, PendingPositive, FS_RemoveElement
  <2>4. inPending \in Nat /\ inPending = Len(inQ) + Cardinality(inDone) /\ Len(inQ) \in Nat
    BY <2>2 DEF InputOwned, TypeOK
  <2>5. CASE KeepInput(b)
    BY <2>2, <2>3, <2>4, <2>5 DEF KeepInput, InputOwned
  <2>6. CASE RefillInput(b)
    <3>1. PreparedPacket(b) \in Packet /\ PreparedPacket(b).buf = b
      BY <2>6, PacketType DEF RefillInput
    <3>2. \A i \in 1..Len(inQ) : inQ[i].buf # b
      BY <2>2 DEF InputOwned
    <3>3. inQ' = Append(inQ, PreparedPacket(b)) /\ inPending' = (inPending - 1) + 1
      BY <2>6 DEF RefillInput, PrepareAndQueue
    <3>4. /\ Len(inQ') = Len(inQ) + 1
          /\ \A i \in 1..Len(inQ) : inQ'[i] = inQ[i]
          /\ inQ'[Len(inQ) + 1] = PreparedPacket(b)
          /\ \A i, j \in 1..Len(inQ') : inQ'[i].buf = inQ'[j].buf => i = j
      BY <3>1, <3>2, <3>3, AppendDistinct DEF TypeOK, InputOwned
    <3>5. \A i \in 1..Len(inQ') : inQ'[i].buf \notin inDone'
      BY <2>2, <2>4, <3>1, <3>4 DEF InputOwned
    <3>6. QED BY <2>2, <2>3, <2>4, <3>3, <3>4, <3>5 DEF InputOwned
  <2>7. QED BY <2>1, <2>5, <2>6
<1>6. CASE StreamOff
  BY <1>6, EmptySeq DEF StreamOff, InputOwned
<1>7. CASE DriverConsume
  <2>1. inQ # <<>> /\ inQ' = Tail(inQ) /\ inDone' = inDone \cup {Head(inQ).buf}
        /\ pc = "run" /\ pc' = "run" /\ inPending' = inPending
    BY <1>7 DEF DriverConsume, CanConsume, Streaming, client
  <2>2. /\ Len(inQ') = Len(inQ) - 1 /\ Len(inQ) \in Nat /\ Len(inQ) > 0
        /\ \A i \in 1..Len(inQ') : inQ'[i] = inQ[i + 1] /\ i + 1 \in 1..Len(inQ)
        /\ \A i, j \in 1..Len(inQ') : inQ'[i].buf = inQ'[j].buf => i = j
        /\ Head(inQ) = inQ[1]
        /\ \A i \in 1..Len(inQ') : inQ'[i].buf # Head(inQ).buf
    BY <2>1, TailDistinct, LenProperties DEF TypeOK, InputOwned
  <2>3. Head(inQ).buf \notin inDone
    BY <2>2 DEF InputOwned
  <2>4. Cardinality(inDone') = Cardinality(inDone) + 1 /\ Cardinality(inDone) \in Nat
    BY <2>1, <2>3, PendingPositive, FS_AddElement
  <2>5. \A i \in 1..Len(inQ') : inQ'[i].buf \notin inDone'
    BY <2>1, <2>2 DEF InputOwned
  <2>6. QED BY <2>1, <2>2, <2>4, <2>5 DEF InputOwned
<1>8. ASSUME NEW b \in outQ, NEW l \in BOOLEAN,
             DriverEmit(b, l) \/ DriverReturnEmpty(b) \/ DriverEnd(b)
      PROVE  InputOwned'
  BY <1>1, <1>8 DEF DriverEmit, DriverReturnEmpty, DriverEnd, client
<1>9. ASSUME NEW colour \in BOOLEAN, DriverSignalChange(colour) PROVE InputOwned'
  BY <1>1, <1>9 DEF DriverSignalChange, client
<1>10. CASE DriverFault
  BY <1>1, <1>10 DEF DriverFault, DriverBreak, DriverCorrupt, client, queues
<1>11. CASE UNCHANGED vars
  BY <1>1, <1>11 DEF vars, client, queues
<1>12. QED
  BY <1>2, <1>3, <1>4, <1>5, <1>6, <1>7, <1>8, <1>9, <1>10, <1>11
     DEF Work, ClientWork, DriverWork

\* Only the reset of the port changes the set of capture buffers; every other step
\* moves one between the queues.
LEMMA OutputStep == IInv /\ [Work]_vars => OutputOwned'
<1> SUFFICES ASSUME IInv, [Work]_vars PROVE OutputOwned'
  OBVIOUS
<1> USE DEF IInv
<1>1. ASSUME UNCHANGED <<outQ, outDone, outSize, outPending>>,
             pc' = pc \/ (pc = "queue" /\ pc' = "run") \/ (pc = "run" /\ pc' = "failed")
      PROVE  OutputOwned'
  BY <1>1 DEF OutputOwned
<1>2. ASSUME NEW n \in Nat, outSize' = n, outQ' = 0..(n - 1), outDone' = <<>>,
             outPending' = n
      PROVE  OutputOwned'
  <2>1. Cardinality(0..(n - 1)) = n
    BY FS_Interval
  <2>2. Len(outDone') = 0
    BY <1>2
  <2>3. QED BY <1>2, <2>1, <2>2 DEF OutputOwned
<1>3. CASE Setup
  BY <1>2, <1>3, BufferAssumption DEF Setup, OutputOwned
<1>4. CASE QueueInput \/ StreamOn \/ Poll \/ GiveUp \/ HandleEvent
  BY <1>1, <1>4 DEF QueueInput, StreamOn, Poll, GiveUp,
     HandleEvent, queues
<1>5. CASE InputWork
  BY <1>1, <1>5 DEF InputWork, KeepInput, RefillInput
<1>6. CASE OutputWork
  <2>1. ASSUME TakeCapture
        PROVE  /\ Len(Tail(outDone)) = Len(outDone) - 1 /\ Len(outDone) > 0
               /\ Len(outDone) \in Nat
               /\ \A i \in 1..Len(Tail(outDone)) :
                    Tail(outDone)[i] = outDone[i + 1] /\ i + 1 \in 1..Len(outDone)
               /\ \A i, j \in 1..Len(Tail(outDone)) :
                    Tail(outDone)[i].buf = Tail(outDone)[j].buf => i = j
               /\ Done = outDone[1]
               /\ \A i \in 1..Len(Tail(outDone)) : Tail(outDone)[i].buf # Done.buf
    BY <2>1, TailDistinct, LenProperties DEF TakeCapture, TypeOK, OutputOwned, Done
  <2>2. /\ IsFiniteSet(outQ) /\ Cardinality(outQ) \in Nat /\ Len(outDone) \in Nat
        /\ outPending = Cardinality(outQ) + Len(outDone) /\ pc = "run"
    BY <1>6, PendingPositive, LenProperties DEF OutputWork, OutputOwned, TypeOK
  <2>3. CASE EndCapture
    <3>1. TakeCapture /\ outDone' = Tail(outDone) /\ outPending' = outPending - 1
          /\ UNCHANGED <<pc, outQ, outSize>>
      BY <2>3 DEF EndCapture
    <3>2. \A i \in 1..Len(outDone') : outDone'[i].buf \in 0..(outSize - 1) \ outQ
      BY <2>1, <3>1 DEF OutputOwned
    <3>3. outPending' = Cardinality(outQ) + Len(outDone')
      BY <2>1, <2>2, <3>1
    <3>4. QED BY <2>1, <2>2, <3>1, <3>2, <3>3 DEF OutputOwned
  <2>4. ASSUME NEW m \in MinCapture, ResetCapture(m + ExtraCount) PROVE OutputOwned'
    <3>1. m + ExtraCount \in Nat
      BY BufferAssumption
    <3>2. QED BY <1>2, <2>4, <3>1 DEF ResetCapture, DoneAfterReset, PendingAfterReset
  <2>5. CASE RequeueCapture
    <3>1. Done.buf \notin outQ /\ Done.buf \in 0..(outSize - 1)
      BY <2>1, <2>5 DEF RequeueCapture, OutputOwned
    <3>2. Cardinality(outQ') = Cardinality(outQ) + 1
      BY <2>2, <2>5, <3>1, FS_AddElement DEF RequeueCapture
    <3>3. outPending' = Cardinality(outQ') + Len(outDone')
      BY <2>1, <2>2, <2>5, <3>2 DEF RequeueCapture
    <3>4. TakeCapture /\ outDone' = Tail(outDone) /\ outQ' = outQ \cup {Done.buf}
          /\ UNCHANGED <<pc, outSize>>
      BY <2>5 DEF RequeueCapture
    <3>5. \A i \in 1..Len(outDone') : outDone'[i].buf \in 0..(outSize - 1) \ outQ'
      BY <2>1, <3>4 DEF OutputOwned
    <3>6. outQ' \subseteq 0..(outSize - 1)
      BY <3>1, <3>4 DEF OutputOwned
    <3>7. QED BY <2>1, <2>2, <3>3, <3>4, <3>5, <3>6 DEF OutputOwned
  <2>6. QED BY <1>6, <2>3, <2>4, <2>5 DEF OutputWork
<1>7. CASE StreamOff
  BY <1>7 DEF StreamOff, OutputOwned
<1>8. ASSUME NEW b \in outQ, NEW f \in 0..NFrames, NEW l \in BOOLEAN, NEW e \in BOOLEAN,
             Complete(b, f, l, e), pc = "run", UNCHANGED client
      PROVE  OutputOwned'
  <2> DEFINE c == [buf |-> b, frame |-> f, last |-> l, error |-> e]
  <2>1. c \in Capture /\ c.buf = b
    BY DEF TypeOK, Capture
  <2>2. \A i \in 1..Len(outDone) : outDone[i].buf # c.buf
    BY <2>1 DEF OutputOwned
  <2>3. outDone' = Append(outDone, c) /\ outQ' = outQ \ {b}
    BY <1>8 DEF Complete
  <2>4. /\ Len(outDone') = Len(outDone) + 1
        /\ \A i \in 1..Len(outDone) : outDone'[i] = outDone[i]
        /\ outDone'[Len(outDone) + 1] = c
        /\ \A i, j \in 1..Len(outDone') : outDone'[i].buf = outDone'[j].buf => i = j
    BY <2>1, <2>2, <2>3, AppendDistinct DEF TypeOK, OutputOwned
  <2>5. Cardinality(outQ') = Cardinality(outQ) - 1 /\ Cardinality(outQ) \in Nat
        /\ Len(outDone) \in Nat /\ outPending = Cardinality(outQ) + Len(outDone)
    BY <1>8, <2>3, PendingPositive, FS_RemoveElement, LenProperties DEF TypeOK, OutputOwned
  <2>6. ASSUME NEW i \in 1..(Len(outDone) + 1)
        PROVE  outDone'[i].buf \in 0..(outSize - 1) \ outQ'
    <3>1. CASE i = Len(outDone) + 1
      BY <2>1, <2>3, <2>4, <3>1 DEF OutputOwned
    <3>2. CASE i \in 1..Len(outDone)
      BY <2>3, <2>4, <3>2 DEF OutputOwned
    <3>3. QED BY <2>5, <3>1, <3>2
  <2>7. outPending' = Cardinality(outQ') + Len(outDone')
    BY <1>8, <2>4, <2>5 DEF client
  <2>8. QED BY <1>8, <2>3, <2>4, <2>6, <2>7 DEF OutputOwned, client
<1>9. CASE DriverConsume \/ DriverBreak
  BY <1>1, <1>9 DEF DriverConsume, DriverBreak, client, queues
<1>10. ASSUME NEW b \in outQ, NEW l \in BOOLEAN, DriverEmit(b, l) PROVE OutputOwned'
  <2>1. Head(pipe) \in 0..NFrames
    BY <1>10, HeadTailProperties, StreamAssumption DEF DriverEmit, CanEmit, TypeOK
  <2>2. Complete(b, Head(pipe), l, FALSE) /\ pc = "run" /\ UNCHANGED client
    BY <1>10 DEF DriverEmit, Streaming
  <2>3. QED BY <1>8, <2>1, <2>2
<1>11. ASSUME NEW b \in outQ, DriverReturnEmpty(b) \/ DriverEnd(b) \/ DriverCorrupt(b)
       PROVE  OutputOwned'
  <2>1. 0 \in 0..NFrames
    BY StreamAssumption
  <2>2. PICK l \in BOOLEAN, e \in BOOLEAN :
            Complete(b, 0, l, e) /\ pc = "run" /\ UNCHANGED client
    BY <1>11 DEF DriverReturnEmpty, DriverEnd, DriverCorrupt, Streaming
  <2>3. QED BY <1>8, <2>1, <2>2
<1>12. ASSUME NEW colour \in BOOLEAN, DriverSignalChange(colour) PROVE OutputOwned'
  BY <1>1, <1>12 DEF DriverSignalChange, client
<1>13. CASE UNCHANGED vars
  BY <1>1, <1>13 DEF vars, client, queues
<1>14. QED
  BY <1>3, <1>4, <1>5, <1>6, <1>7, <1>9, <1>10, <1>11, <1>12, <1>13
     DEF Work, ClientWork, DriverWork, DriverFault

\* A change in progress keeps waiting for the frame at the head of the pipe: the
\* driver emits nothing before it is answered.
LEMMA ChangeStep == IInv /\ [Work]_vars => ChangeAtHead'
<1> SUFFICES ASSUME IInv, [Work]_vars, change' PROVE NewResolution'
  BY DEF ChangeAtHead
<1>0. Encoder' = Encoder
  BY SessionFixed DEF Encoder
<1> USE <1>0 DEF IInv
<1>1. ASSUME UNCHANGED <<change, pipe, resolved>> PROVE NewResolution'
  BY <1>1 DEF ChangeAtHead, NewResolution
<1>2. CASE ClientWork
  <2>1. CASE OutputWork
    <3>1. ASSUME NEW n, ResetCapture(n) PROVE FALSE
      BY <3>1 DEF ResetCapture
    <3>2. QED BY <1>1, <2>1, <3>1 DEF OutputWork, EndCapture, RequeueCapture, driver
  <2>2. CASE InputWork
    BY <1>1, <2>2 DEF InputWork, KeepInput, RefillInput
  <2>3. CASE Setup \/ QueueInput \/ StreamOn \/ Poll \/ GiveUp
             \/ HandleEvent \/ StreamOff
    BY <1>1, <2>3 DEF Setup, QueueInput, StreamOn, Poll, GiveUp,
       HandleEvent, StreamOff, driver
  <2>4. QED BY <1>2, <2>1, <2>2, <2>3 DEF ClientWork
<1>3. CASE DriverConsume
  <2>1. change /\ NewResolution /\ resolved' = resolved
    BY <1>3 DEF DriverConsume, ChangeAtHead
  <2>2. inQ # <<>> /\ Head(inQ) \in Packet
    BY <1>3, HeadTailProperties DEF DriverConsume, CanConsume, TypeOK
  <2>3. pipe' = pipe \/ pipe' = Append(pipe, Head(inQ).frame)
    BY <1>3 DEF DriverConsume
  <2>4. pipe' # <<>> /\ Head(pipe') = Head(pipe)
    <3>1. pipe \in Seq(1..NFrames) /\ pipe # <<>>
      BY <2>1 DEF NewResolution, TypeOK
    <3>2. \A f : Append(pipe, f) # <<>> /\ Head(Append(pipe, f)) = Head(pipe)
      BY <3>1
    <3>3. QED BY <2>3, <3>1, <3>2
  <2>5. QED BY <2>1, <2>4 DEF NewResolution
<1>4. ASSUME NEW b \in outQ, NEW l \in BOOLEAN, DriverEmit(b, l) PROVE FALSE
  BY <1>4 DEF DriverEmit, CanEmit, ChangeAtHead
<1>5. ASSUME NEW b \in outQ, DriverReturnEmpty(b) \/ DriverEnd(b) \/ DriverCorrupt(b)
      PROVE  NewResolution'
  BY <1>1, <1>5 DEF DriverReturnEmpty, DriverEnd, DriverCorrupt, driver
<1>6. ASSUME NEW colour \in BOOLEAN, DriverSignalChange(colour) PROVE NewResolution'
  BY <1>6 DEF DriverSignalChange, CanSignal, NewResolution
<1>7. CASE DriverBreak \/ UNCHANGED vars
  BY <1>1, <1>7 DEF DriverBreak, vars, driver
<1>8. QED
  BY <1>2, <1>3, <1>4, <1>5, <1>6, <1>7 DEF Work, DriverWork, DriverFault

\* Once the end of the file was reached the packet with the LAST flag is queued or
\* consumed.
LEMMA EndStep == IInv /\ [Work]_vars => EndIsQueued'
<1> DEFINE LastWithDriver == lastSeen \/ \E i \in 1..Len(inQ) : inQ[i].last
<1> SUFFICES ASSUME IInv, [Work]_vars PROVE EndIsQueued'
  OBVIOUS
<1>0. LastPacket' = LastPacket /\ LastPacket \in Nat
  BY SessionFixed, LastPacketType DEF IInv, TypeOK
<1> USE <1>0 DEF IInv
<1>1. EndIsQueued <=> (pc # "done" /\ (Eof \/ stopCmd) => LastWithDriver)
  BY DEF EndIsQueued, StopAfterLast
<1>2. EndIsQueued' <=> ((pc # "done" /\ (Eof \/ stopCmd) => LastWithDriver)')
  BY DEF EndIsQueued, StopAfterLast
<1> HIDE DEF LastWithDriver
<1>3. ASSUME UNCHANGED <<next, stopCmd, inQ, lastSeen>>, pc = "done" => pc' = "done"
      PROVE  EndIsQueued'
  BY <1>0, <1>1, <1>2, <1>3 DEF Eof, LastWithDriver
<1>4. ASSUME NEW b \in InBuf, ~Eof, PrepareAndQueue(b), lastSeen' = lastSeen,
             stopCmd' => stopCmd \/ EofAfterPrepare, pc # "done"
      PROVE  EndIsQueued'
  <2>1. PreparedPacket(b) \in Packet /\ inQ' = Append(inQ, PreparedPacket(b))
    BY <1>4, PacketType DEF PrepareAndQueue
  <2>2. /\ Len(inQ') = Len(inQ) + 1 /\ Len(inQ) \in Nat
        /\ \A i \in 1..Len(inQ) : inQ'[i] = inQ[i]
        /\ inQ'[Len(inQ) + 1] = PreparedPacket(b)
    BY <2>1 DEF TypeOK
  <2>3. LastWithDriver => LastWithDriver'
    BY <1>4, <2>2 DEF LastWithDriver
  <2>4. EofAfterPrepare => LastWithDriver'
    <3>1. EofAfterPrepare => PreparedPacket(b).last
      BY Zenon DEF PreparedPacket
    <3>2. Len(inQ) + 1 \in 1..Len(inQ')
      BY <2>2
    <3>3. QED BY <2>2, <3>1, <3>2 DEF LastWithDriver
  <2>5. Eof' => EofAfterPrepare
    BY <1>4, LastPacketType DEF PrepareAndQueue, Eof, EofAfterPrepare, TypeOK
  <2>6. QED BY <1>1, <1>2, <1>4, <2>3, <2>4, <2>5
<1>5. CASE QueueInput
  <2>1. Len(inQ) \in InBuf
    BY <1>5, BufferAssumption DEF QueueInput, TypeOK, InBuf
  <2>2. QED BY <1>4, <1>5, <2>1 DEF QueueInput, driver
<1>6. CASE InputWork
  <2>1. PICK b \in InBuf : KeepInput(b) \/ RefillInput(b)
    BY <1>6 DEF InputWork
  <2>2. pc # "done" /\ pc' # "done"
    BY <1>6, <2>1 DEF InputWork, KeepInput, RefillInput
  <2>3. CASE KeepInput(b)
    <3>1. Eof /\ UNCHANGED <<inQ, lastSeen>>
      BY <2>3 DEF KeepInput
    <3>2. QED BY <1>1, <1>2, <2>2, <3>1 DEF LastWithDriver
  <2>4. CASE RefillInput(b)
    BY <1>4, <2>2, <2>4 DEF RefillInput
  <2>5. QED BY <2>1, <2>3, <2>4
<1>7. CASE OutputWork
  BY <1>3, <1>7 DEF OutputWork, EndCapture, ResetCapture, RequeueCapture, driver
<1>8. CASE Setup \/ StreamOn \/ Poll \/ GiveUp \/ HandleEvent
  BY <1>3, <1>8 DEF Setup, StreamOn, Poll, GiveUp, HandleEvent,
     queues, driver
<1>9. CASE StreamOff
  BY <1>2, <1>9 DEF StreamOff
<1>10. CASE DriverConsume
  <2>1. inQ # <<>> /\ inQ' = Tail(inQ) /\ lastSeen' = (lastSeen \/ Head(inQ).last)
        /\ UNCHANGED <<pc, next, stopCmd>>
    BY <1>10 DEF DriverConsume, CanConsume, client
  <2>2. /\ Len(inQ') = Len(inQ) - 1 /\ Len(inQ) \in Nat /\ Head(inQ) = inQ[1]
        /\ \A i \in 1..Len(inQ') : inQ'[i] = inQ[i + 1]
    BY <2>1, HeadTailProperties, LenProperties DEF TypeOK
  <2>3. ASSUME NEW i \in 1..Len(inQ), inQ[i].last PROVE LastWithDriver'
    <3>1. CASE i = 1
      BY <2>1, <2>2, <2>3, <3>1 DEF LastWithDriver
    <3>2. CASE i # 1
      <4>1. i - 1 \in 1..Len(inQ') /\ inQ'[i - 1] = inQ[i]
        BY <2>2, <3>2
      <4>2. QED BY <2>3, <4>1 DEF LastWithDriver
    <3>3. QED BY <3>1, <3>2
  <2>4. LastWithDriver => LastWithDriver'
    BY <2>1, <2>3 DEF LastWithDriver
  <2>5. QED BY <1>1, <1>2, <2>1, <2>4 DEF Eof
<1>11. ASSUME NEW b \in outQ, NEW l \in BOOLEAN,
              \/ DriverEmit(b, l) \/ DriverReturnEmpty(b) \/ DriverEnd(b)
              \/ DriverCorrupt(b)
       PROVE  EndIsQueued'
  BY <1>3, <1>11 DEF DriverEmit, DriverReturnEmpty, DriverEnd, DriverCorrupt, client, driver
<1>12. ASSUME NEW colour \in BOOLEAN, DriverSignalChange(colour) PROVE EndIsQueued'
  BY <1>3, <1>12 DEF DriverSignalChange, client
<1>13. CASE DriverBreak \/ UNCHANGED vars
  BY <1>3, <1>13 DEF DriverBreak, vars, client, queues, driver
<1>14. QED
  BY <1>5, <1>6, <1>7, <1>8, <1>9, <1>10, <1>11, <1>12, <1>13
     DEF Work, ClientWork, DriverWork, DriverFault

-----------------------------------------------------------------------------
(* The theorems. *)

\* The invariant holds when Codec::stream is called.
LEMMA InitInvariant == Init => IInv
<1> SUFFICES ASSUME Init PROVE IInv
  OBVIOUS
<1> USE LastPacketType, StreamAssumption, BufferAssumption DEF Init
<1>1. TypeOK
  <2>1. /\ written \in Seq(1..NFrames) /\ inQ \in Seq(Packet) /\ outDone \in Seq(Capture)
        /\ events \in Seq({"SOURCE_CHANGE", "COLOR_DESC", "EOS"})
        /\ pipe \in Seq(1..NFrames)
    BY EmptySeq
  <2>2. resolved \in 0..NFrames /\ errors \in 0..MaxErrors /\ next \in 1..(LastPacket + 1)
    OBVIOUS
  <2>3. QED BY <2>1, <2>2 DEF TypeOK
<1>2. InputOwned /\ OutputOwned
  BY EmptySeq, FS_EmptySet DEF InputOwned, OutputOwned
<1>3. ChangeAtHead /\ EndIsQueued
  BY DEF ChangeAtHead, EndIsQueued, StopAfterLast, Eof
<1>4. QED BY <1>1, <1>2, <1>3 DEF IInv

\* The inductive invariant holds in every reachable state.
THEOREM Invariance == Spec => []IInv
<1>1. IInv /\ [Work]_vars => IInv'
  BY TypeStep, InputStep, OutputStep, ChangeStep, EndStep DEF IInv
<1>2. QED BY InitInvariant, PollModeWorks, <1>1, PTL DEF Spec

\* Every variable keeps its type; above all, the two counters of queued buffers,
\* decremented at every dequeue and reset by every reallocation, never underflow.
THEOREM TypeCorrect == Spec => []TypeOK
BY Invariance, PTL DEF IInv

\* What runPoll polls for is exact: the counters are the numbers of buffers that
\* the driver holds, through every reset of the output port.
THEOREM PendingCorrect == Spec => []PendingExact
<1>1. IInv => PendingExact
  BY DEF IInv, InputOwned, OutputOwned, PendingExact
<1>2. QED BY <1>1, Invariance, PTL

\* No buffer is on two queues, and every dequeued index is an allocated buffer.
THEOREM OwnershipCorrect == Spec => []BufferOwnership
<1>1. IInv => BufferOwnership
  BY DEF IInv, InputOwned, OutputOwned, BufferOwnership
<1>2. QED BY <1>1, Invariance, PTL

\* A stop command is only ever sent with or after the LAST packet.
THEOREM StopCorrect == Spec => []StopAfterLast
<1>1. IInv => StopAfterLast
  BY DEF IInv, EndIsQueued
<1>2. QED BY <1>1, Invariance, PTL

-----------------------------------------------------------------------------
(* The order of packets and of capture buffers.                            *)
(*                                                                         *)
(* A packet ends the stream because the file is at its end or because an   *)
(* encoder has reached its limit of frames; both last (Ended), and a       *)
(* packet prepared afterwards is empty.  A capture buffer is returned      *)
(* empty only while a change waits, and no frame is finished until it is   *)
(* answered, so that what is done behind it is empty too.                  *)

Ended == Eof \/ (Encoder /\ FramesCount > 0 /\ inFrames >= FramesCount)

LastEnds == lastSeen \/ (\E i \in 1..Len(inQ) : inQ[i].last) => Ended

\* An encoder counts the packets it has read, up to its limit.
CountsFrames ==
    Encoder /\ FramesCount > 0 => inFrames = Limit(next - 1, FramesCount)

Returned(c) == ~c.last /\ c.frame = 0 /\ ~c.error

NoFrameBehind ==
    \A i \in 1..Len(outDone) :
        Returned(outDone[i]) => change /\ \A j \in i..Len(outDone) : outDone[j].frame = 0

-----------------------------------------------------------------------------
(* The input port. *)

LEMMA SessionValues ==
    ASSUME TypeOK
    PROVE  /\ Encoder \in BOOLEAN /\ FramesCount \in Nat /\ NFrames \in Nat
           /\ next \in Nat /\ next > 0 /\ inFrames \in Nat /\ inQ \in Seq(Packet)
           /\ LastPacket \in Nat
<1>1. session \in Session
  BY DEF TypeOK
<1>2. Encoder \in BOOLEAN /\ FramesCount \in Nat
  BY <1>1, SessionAssumption DEF Encoder, FramesCount, Session
<1>3. LastPacket \in Nat /\ NFrames \in Nat
  BY <1>1, LastPacketType
<1>4. next \in Nat /\ next > 0 /\ inFrames \in Nat /\ inQ \in Seq(Packet)
  BY <1>3 DEF TypeOK
<1>5. QED
  BY <1>2, <1>3, <1>4

InputOrder == LastEnds /\ CountsFrames /\ NothingAfterLast

\* What a new packet must not be: a frame after the end or past the limit.
LEMMA PacketInOrder ==
    ASSUME TypeOK, LastEnds, CountsFrames, NEW b \in InBuf, ~Eof, PrepareAndQueue(b),
           session' = session
    PROVE  /\ PreparedPacket(b).frame # 0 =>
                ~Ended /\ (Encoder => PreparedPacket(b).frame <= Total)
           /\ Ended \/ PreparedPacket(b).last => Ended'
           /\ CountsFrames'
<1> USE SessionValues
<1>1. /\ next' = IF IsGeneral THEN next ELSE next + 1
      /\ inFrames' = IF Encoder /\ ~IsGeneral /\ ~PastLimit THEN inFrames + 1 ELSE inFrames
      /\ Encoder' = Encoder /\ FramesCount' = FramesCount /\ LastPacket' = LastPacket
  BY DEF PrepareAndQueue, Encoder, FramesCount, LastPacket
<1>2. PreparedPacket(b).frame # 0 =>
        ~IsGeneral /\ ~PastLimit /\ next <= NFrames /\ PreparedPacket(b).frame = next
  BY StreamAssumption DEF PreparedPacket
<1>3. PreparedPacket(b).frame # 0 => ~Ended
  BY <1>2 DEF Ended, PastLimit, AtLimit
<1>4. PreparedPacket(b).frame # 0 /\ Encoder => PreparedPacket(b).frame <= Total
  <2> SUFFICES ASSUME PreparedPacket(b).frame # 0, Encoder PROVE next <= Total
    BY <1>2
  <2>1. FramesCount > 0 => inFrames < FramesCount
    BY <1>3 DEF Ended
  <2>2. FramesCount > 0 => next <= FramesCount
    BY <2>1 DEF CountsFrames, Limit
  <2>3. QED
    BY <1>2, <2>2 DEF Total, Limit
<1>5. PreparedPacket(b).last => EofAfterPrepare \/ AtLimit
  BY Zenon DEF PreparedPacket
<1>6. EofAfterPrepare => Eof'
  BY <1>1 DEF EofAfterPrepare, Eof
<1>7. AtLimit => Ended'
  BY <1>1 DEF AtLimit, PastLimit, Ended
<1>8. Ended => Ended'
  BY <1>1 DEF Ended
<1>9. CountsFrames'
  BY <1>1 DEF CountsFrames, Limit, PastLimit, AtLimit
<1>10. QED
  BY <1>3, <1>4, <1>5, <1>6, <1>7, <1>8, <1>9 DEF Ended

LEMMA InputOrderStays ==
    ASSUME InputOrder, UNCHANGED <<session, next, inFrames, inQ, lastSeen>>
    PROVE  InputOrder'
  BY DEF InputOrder, LastEnds, CountsFrames, NothingAfterLast, Ended, Eof, Encoder,
     FramesCount, LastPacket, Total

LEMMA AppendInOrder ==
    ASSUME TypeOK, InputOrder, NEW b \in InBuf, ~Eof, PrepareAndQueue(b),
           lastSeen' = lastSeen, session' = session
    PROVE  InputOrder'
<1> DEFINE p == PreparedPacket(b)
<1>1. /\ inQ' = Append(inQ, p) /\ p \in Packet /\ inQ \in Seq(Packet)
      /\ Encoder' = Encoder /\ Total' = Total
  BY PacketType, SessionValues DEF PrepareAndQueue, Encoder, Total, FramesCount
<1>2. /\ p.frame # 0 => ~Ended /\ (Encoder => p.frame <= Total)
      /\ Ended \/ p.last => Ended'
      /\ CountsFrames'
  BY PacketInOrder DEF InputOrder
<1> HIDE DEF p
<1>3. /\ Len(inQ) \in Nat /\ Len(inQ') = Len(inQ) + 1 /\ inQ'[Len(inQ) + 1] = p
      /\ \A i \in 1..Len(inQ) : inQ'[i] = inQ[i]
  BY <1>1
<1>4. LastEnds'
  <2>1. ASSUME NEW i \in 1..Len(inQ'), inQ'[i].last PROVE Ended'
    <3>1. CASE i \in 1..Len(inQ)
      BY <1>2, <1>3, <2>1, <3>1 DEF InputOrder, LastEnds
    <3>2. CASE i = Len(inQ) + 1
      BY <1>2, <1>3, <2>1, <3>2
    <3>3. QED
      BY <1>3, <3>1, <3>2
  <2>2. QED
    BY <1>2, <2>1 DEF InputOrder, LastEnds
<1>5. NothingAfterLast'
  <2> SUFFICES ASSUME NEW i \in 1..Len(inQ'), inQ'[i].frame # 0
               PROVE  /\ Encoder => inQ'[i].frame <= Total
                      /\ ~lastSeen
                      /\ \A j \in 1..(i - 1) : ~inQ'[j].last
    BY <1>1 DEF NothingAfterLast
  <2>1. CASE i \in 1..Len(inQ)
    BY <1>3, <2>1 DEF InputOrder, NothingAfterLast
  <2>2. CASE i = Len(inQ) + 1
    <3>1. ~Ended /\ (Encoder => p.frame <= Total) /\ inQ'[i] = p
      BY <1>2, <1>3, <2>2
    <3>2. ~lastSeen /\ \A j \in 1..Len(inQ) : ~inQ[j].last
      BY <3>1 DEF InputOrder, LastEnds
    <3>3. QED
      BY <1>3, <2>2, <3>1, <3>2
  <2>3. QED
    BY <1>3, <2>1, <2>2
<1>6. QED
  BY <1>2, <1>4, <1>5 DEF InputOrder

LEMMA InputOrderStep == IInv /\ InputOrder /\ [Work]_vars => InputOrder'
<1> SUFFICES ASSUME IInv, InputOrder, [Work]_vars PROVE InputOrder'
  OBVIOUS
<1>0. session' = session /\ TypeOK
  BY SessionFixed DEF IInv
<1> USE <1>0
<1>1. CASE QueueInput
  <2>1. Len(inQ) \in InBuf
    BY <1>1, BufferAssumption DEF QueueInput, TypeOK, InBuf
  <2>2. QED
    BY <1>1, <2>1, AppendInOrder DEF QueueInput, driver
<1>2. CASE InputWork
  <2>1. PICK b \in InBuf : KeepInput(b) \/ RefillInput(b)
    BY <1>2 DEF InputWork
  <2>2. CASE KeepInput(b)
    BY <2>2, InputOrderStays DEF KeepInput
  <2>3. CASE RefillInput(b)
    BY <2>3, AppendInOrder DEF RefillInput
  <2>4. QED
    BY <2>1, <2>2, <2>3
<1>3. CASE OutputWork
  BY <1>3, InputOrderStays DEF OutputWork, EndCapture, ResetCapture, RequeueCapture, driver
<1>4. CASE Setup \/ StreamOn \/ Poll \/ GiveUp \/ HandleEvent
  BY <1>4, InputOrderStays
     DEF Setup, StreamOn, Poll, GiveUp, HandleEvent, queues, driver
<1>5. CASE StreamOff
  <2>1. inQ' = <<>> /\ UNCHANGED <<next, inFrames, lastSeen>>
    BY <1>5 DEF StreamOff, driver
  <2>2. QED
    BY <2>1 DEF InputOrder, LastEnds, CountsFrames, NothingAfterLast, Ended, Eof, Encoder,
       FramesCount, LastPacket
<1>6. CASE DriverConsume
  <2>1. /\ inQ # <<>> /\ inQ' = Tail(inQ) /\ lastSeen' = (lastSeen \/ Head(inQ).last)
        /\ UNCHANGED <<next, inFrames>> /\ inQ \in Seq(Packet)
    BY <1>6, SessionValues DEF DriverConsume, CanConsume, client
  <2>2. /\ Len(inQ') = Len(inQ) - 1 /\ Len(inQ) \in Nat \ {0} /\ Head(inQ) = inQ[1]
        /\ \A i \in 1..Len(inQ') : inQ'[i] = inQ[i + 1] /\ i + 1 \in 1..Len(inQ)
    BY <2>1, HeadTailProperties, LenProperties
  <2>3. /\ Encoder' = Encoder /\ Total' = Total /\ (Ended' <=> Ended)
    BY <2>1 DEF Encoder, Total, FramesCount, Ended, Eof, LastPacket
  <2>4. CountsFrames'
    BY <2>1, <2>3 DEF InputOrder, CountsFrames, FramesCount
  <2>5. LastEnds'
    <3>1. 1 \in 1..Len(inQ)
      BY <2>2
    <3>2. QED
      BY <2>1, <2>2, <2>3, <3>1 DEF InputOrder, LastEnds
  <2>6. NothingAfterLast'
    <3> SUFFICES ASSUME NEW i \in 1..Len(inQ'), inQ'[i].frame # 0
                 PROVE  /\ Encoder => inQ'[i].frame <= Total
                        /\ ~lastSeen'
                        /\ \A j \in 1..(i - 1) : ~inQ'[j].last
      BY <2>3 DEF NothingAfterLast
    <3>1. /\ Encoder => inQ[i + 1].frame <= Total
          /\ ~lastSeen
          /\ \A j \in 1..i : ~inQ[j].last
      BY <2>2 DEF InputOrder, NothingAfterLast
    <3>2. 1 \in 1..i /\ \A j \in 1..(i - 1) : j + 1 \in 1..i /\ j \in 1..Len(inQ')
      BY <2>2
    <3>3. QED
      BY <2>1, <2>2, <3>1, <3>2
  <2>7. QED
    BY <2>4, <2>5, <2>6 DEF InputOrder
<1>7. ASSUME NEW b \in outQ, NEW l \in BOOLEAN,
             DriverEmit(b, l) \/ DriverReturnEmpty(b) \/ DriverEnd(b) \/ DriverCorrupt(b)
      PROVE  InputOrder'
  BY <1>7, InputOrderStays
     DEF DriverEmit, DriverReturnEmpty, DriverEnd, DriverCorrupt, client, driver
<1>8. ASSUME NEW colour \in BOOLEAN, DriverSignalChange(colour) PROVE InputOrder'
  BY <1>8, InputOrderStays DEF DriverSignalChange, client
<1>9. CASE DriverBreak \/ UNCHANGED vars
  BY <1>9, InputOrderStays DEF DriverBreak, vars, client, queues, driver
<1>10. QED
  BY <1>1, <1>2, <1>3, <1>4, <1>5, <1>6, <1>7, <1>8, <1>9
     DEF Work, ClientWork, DriverWork, DriverFault

-----------------------------------------------------------------------------
(* The output port. *)

\* A buffer that is finished while a change waits has no frame.
LEMMA FinishedKeeps ==
    ASSUME NoFrameBehind, outDone \in Seq(Capture), NEW c \in Capture,
           outDone' = Append(outDone, c), change' = change,
           c.frame = 0 \/ ~change, Returned(c) => change
    PROVE  NoFrameBehind'
<1>1. /\ Len(outDone) \in Nat /\ Len(outDone') = Len(outDone) + 1
      /\ outDone'[Len(outDone) + 1] = c
      /\ \A i \in 1..Len(outDone) : outDone'[i] = outDone[i]
  OBVIOUS
<1> SUFFICES ASSUME NEW i \in 1..Len(outDone'), Returned(outDone'[i])
             PROVE  change /\ \A j \in i..Len(outDone') : outDone'[j].frame = 0
  BY DEF NoFrameBehind
<1>2. change
  <2>1. CASE i \in 1..Len(outDone)
    BY <1>1, <2>1 DEF NoFrameBehind
  <2>2. CASE i = Len(outDone) + 1
    BY <1>1, <2>2
  <2>3. QED
    BY <1>1, <2>1, <2>2
<1>3. ASSUME NEW j \in i..Len(outDone') PROVE outDone'[j].frame = 0
  <2>1. CASE j \in 1..Len(outDone)
    <3>1. i \in 1..Len(outDone) /\ j \in i..Len(outDone)
      BY <1>1, <2>1
    <3>2. QED
      BY <1>1, <2>1, <3>1 DEF NoFrameBehind
  <2>2. CASE j = Len(outDone) + 1
    BY <1>1, <1>2, <2>2
  <2>3. QED
    BY <1>1, <2>1, <2>2
<1>4. QED
  BY <1>2, <1>3

LEMMA BehindStep == IInv /\ NoFrameBehind /\ [Work]_vars => NoFrameBehind'
<1> SUFFICES ASSUME IInv, NoFrameBehind, [Work]_vars PROVE NoFrameBehind'
  OBVIOUS
<1>0. outDone \in Seq(Capture) /\ pipe \in Seq(1..NFrames) /\ (change => NewResolution)
  BY DEF IInv, TypeOK, ChangeAtHead
<1>1. ASSUME outDone' = outDone, change => change' PROVE NoFrameBehind'
  BY <1>1 DEF NoFrameBehind
<1>2. ASSUME outDone # <<>>, outDone' = Tail(outDone), change' = change PROVE NoFrameBehind'
  <2>1. /\ Len(outDone') = Len(outDone) - 1 /\ Len(outDone) \in Nat
        /\ \A i \in 1..Len(outDone') : outDone'[i] = outDone[i + 1]
    BY <1>0, <1>2, HeadTailProperties, LenProperties
  <2> SUFFICES ASSUME NEW i \in 1..Len(outDone'), Returned(outDone'[i])
               PROVE  change /\ \A j \in i..Len(outDone') : outDone'[j].frame = 0
    BY <1>2 DEF NoFrameBehind
  <2>2. i + 1 \in 1..Len(outDone) /\ Returned(outDone[i + 1])
    BY <2>1
  <2>3. change /\ \A j \in (i + 1)..Len(outDone) : outDone[j].frame = 0
    BY <2>2 DEF NoFrameBehind
  <2>4. \A j \in i..Len(outDone') : j \in 1..Len(outDone') /\ j + 1 \in (i + 1)..Len(outDone)
    BY <2>1
  <2>5. QED
    BY <2>1, <2>3, <2>4
<1>3. ASSUME outDone' = <<>> PROVE NoFrameBehind'
  BY <1>3 DEF NoFrameBehind
<1>4. CASE OutputWork
  BY <1>2, <1>3, <1>4 DEF OutputWork, EndCapture, ResetCapture, RequeueCapture, TakeCapture,
     DoneAfterReset, driver
<1>5. CASE InputWork
  BY <1>1, <1>5 DEF InputWork, KeepInput, RefillInput
<1>6. CASE Setup \/ QueueInput \/ StreamOn \/ Poll \/ GiveUp \/ HandleEvent
  BY <1>1, <1>6 DEF Setup, QueueInput, StreamOn, Poll, GiveUp, HandleEvent,
     queues, driver
<1>7. CASE StreamOff
  BY <1>3, <1>7 DEF StreamOff
<1>8. CASE DriverConsume
  BY <1>1, <1>8 DEF DriverConsume
<1>9. ASSUME NEW b \in outQ, NEW l \in BOOLEAN, DriverEmit(b, l) PROVE NoFrameBehind'
  <2>1. pipe # <<>> /\ ~change /\ Complete(b, Head(pipe), l, FALSE) /\ change' = change
    BY <1>0, <1>9 DEF DriverEmit, CanEmit
  <2>2. Head(pipe) \in 1..NFrames /\ b \in Nat
    BY <1>0, <2>1, HeadTailProperties DEF IInv, TypeOK
  <2> DEFINE c == [buf |-> b, frame |-> Head(pipe), last |-> l, error |-> FALSE]
  <2>3. c \in Capture /\ c.frame # 0 /\ outDone' = Append(outDone, c)
    BY <2>1, <2>2, StreamAssumption DEF Capture, Complete
  <2> HIDE DEF c
  <2>4. QED
    BY <1>0, <2>1, <2>3, FinishedKeeps DEF Returned
<1>10. ASSUME NEW b \in outQ, NEW l \in BOOLEAN, NEW e \in BOOLEAN,
              Complete(b, 0, l, e), change' = change, change \/ l \/ e
       PROVE  NoFrameBehind'
  <2> DEFINE c == [buf |-> b, frame |-> 0, last |-> l, error |-> e]
  <2>1. /\ c \in Capture /\ c.frame = 0 /\ c.last = l /\ c.error = e
        /\ outDone' = Append(outDone, c)
    BY <1>10, StreamAssumption DEF IInv, TypeOK, Capture, Complete
  <2> HIDE DEF c
  <2>2. QED
    BY <1>0, <1>10, <2>1, FinishedKeeps DEF Returned
<1>11. ASSUME NEW b \in outQ, DriverReturnEmpty(b) \/ DriverEnd(b) \/ DriverCorrupt(b)
       PROVE  NoFrameBehind'
  <2>1. change' = change
    BY <1>11 DEF DriverReturnEmpty, DriverEnd, DriverCorrupt, driver
  <2>2. \/ Complete(b, 0, FALSE, FALSE) /\ change
        \/ Complete(b, 0, TRUE, FALSE) \/ Complete(b, 0, FALSE, TRUE)
    BY <1>11 DEF DriverReturnEmpty, CanReturn, DriverEnd, DriverCorrupt
  <2>3. QED
    BY <1>10, <2>1, <2>2
<1>12. ASSUME NEW colour \in BOOLEAN, DriverSignalChange(colour) PROVE NoFrameBehind'
  BY <1>1, <1>12 DEF DriverSignalChange
<1>13. CASE DriverBreak \/ UNCHANGED vars
  BY <1>1, <1>13 DEF DriverBreak, vars, queues, driver
<1>14. QED
  BY <1>4, <1>5, <1>6, <1>7, <1>8, <1>9, <1>11, <1>12, <1>13
     DEF Work, ClientWork, DriverWork, DriverFault

-----------------------------------------------------------------------------
(* The theorems. *)

OrderInv == IInv /\ InputOrder /\ NoFrameBehind

LEMMA OrderInit == Init => OrderInv
<1>1. Init => InputOrder
  BY DEF Init, InputOrder, LastEnds, CountsFrames, NothingAfterLast, Limit, FramesCount,
     Session, Encoder
<1>2. Init => NoFrameBehind
  BY DEF Init, NoFrameBehind
<1>3. QED
  BY <1>1, <1>2, InitInvariant DEF OrderInv

LEMMA OrderStep == OrderInv /\ [Work]_vars => OrderInv'
BY TypeStep, InputStep, OutputStep, ChangeStep, EndStep, InputOrderStep, BehindStep
   DEF OrderInv, IInv

LEMMA OrderInvariance == Spec => []OrderInv
BY OrderInit, OrderStep, PollModeWorks, PTL DEF Spec

\* No frame is given to the driver after the packet that ends the stream, and an
\* encoder gives it none past its limit (Port::queueBuffer).
THEOREM LastIsLast == Spec => []NothingAfterLast
<1>1. OrderInv => NothingAfterLast
  BY DEF OrderInv, InputOrder
<1>2. QED
  BY <1>1, OrderInvariance, PTL

\* handleResolutionChange, which takes back all buffers of the output port, is called
\* only for a change the driver waits for, and discards no frame.
THEOREM ResetCorrect == Spec => ResetOnlyOnChange
<1> DEFINE Reset == outSize # 0 /\ pc' = "run" /\ isSourceChange /\ ~isSourceChange'
           Right == change /\ \A i \in 1..Len(outDone) : outDone[i].frame = 0
<1>1. ASSUME OrderInv, [Work]_vars, Reset PROVE Right
  <2>1. PICK m \in MinCapture : ResetCapture(m + ExtraCount)
    BY <1>1 DEF Work, ClientWork, DriverWork, DriverFault, vars, client,
       Setup, QueueInput, StreamOn, Poll, GiveUp, InputWork, KeepInput,
       RefillInput, OutputWork, EndCapture, RequeueCapture, HandleEvent, StreamOff,
       DriverConsume, DriverEmit, DriverReturnEmpty, DriverEnd, DriverSignalChange,
       DriverBreak, DriverCorrupt
  <2>2. outDone # <<>> /\ Returned(Head(outDone)) /\ outDone \in Seq(Capture)
    BY <1>1, <2>1 DEF ResetCapture, TakeCapture, ResetsStream, EmptyReturn, FramePresent, Done,
       Returned, OrderInv, IInv, TypeOK
  <2>3. Len(outDone) \in Nat \ {0} /\ Head(outDone) = outDone[1]
    BY <2>2
  <2>4. QED
    BY <1>1, <2>2, <2>3 DEF OrderInv, NoFrameBehind
<1>2. OrderInv /\ [Work]_vars => [Reset => Right]_vars
  BY <1>1
<1>3. QED
  BY <1>2, PollModeWorks, OrderInvariance, PTL DEF Spec, ResetOnlyOnChange

-----------------------------------------------------------------------------
(* Frames carried by a queue. *)

\* The packets or buffers of s carry the frames after a up to b, each once and in
\* order, possibly among empty ones.
Carries(s, a, b) ==
    /\ a <= b
    /\ \A i \in 1..Len(s) : s[i].frame # 0 => s[i].frame > a /\ s[i].frame <= b
    /\ \A f \in (a + 1)..b : \E i \in 1..Len(s) : s[i].frame = f
    /\ \A i, j \in 1..Len(s) :
          i < j /\ s[i].frame # 0 /\ s[j].frame # 0 => s[i].frame < s[j].frame

LEMMA CarriesAppend ==
    ASSUME NEW S, \A e \in S : e.frame \in Nat, NEW s \in Seq(S), NEW x \in S,
           NEW a \in Nat, NEW b \in Nat, NEW c \in Nat, Carries(s, a, b),
           (x.frame = 0 /\ c = b) \/ (x.frame = b + 1 /\ c = b + 1)
    PROVE  Carries(Append(s, x), a, c)
<1> DEFINE t == Append(s, x)
<1>1. /\ Len(s) \in Nat /\ Len(t) = Len(s) + 1 /\ t[Len(s) + 1] = x
      /\ \A i \in 1..Len(s) : t[i] = s[i] /\ s[i].frame \in Nat
  OBVIOUS
<1> HIDE DEF t
<1>2. a <= c
  BY DEF Carries
<1>3. ASSUME NEW i \in 1..Len(t), t[i].frame # 0 PROVE t[i].frame > a /\ t[i].frame <= c
  <2>1. CASE i \in 1..Len(s)
    BY <1>1, <1>3, <2>1 DEF Carries
  <2>2. CASE i = Len(s) + 1
    BY <1>1, <1>3, <2>2 DEF Carries
  <2>3. QED
    BY <1>1, <2>1, <2>2
<1>4. ASSUME NEW f \in (a + 1)..c PROVE \E i \in 1..Len(t) : t[i].frame = f
  <2>1. CASE f \in (a + 1)..b
    <3>1. PICK i \in 1..Len(s) : s[i].frame = f
      BY <2>1 DEF Carries
    <3>2. i \in 1..Len(t) /\ t[i].frame = f
      BY <1>1, <3>1
    <3>3. QED
      BY <3>2
  <2>2. CASE f = b + 1 /\ x.frame = b + 1
    <3>1. Len(s) + 1 \in 1..Len(t)
      BY <1>1
    <3>2. QED
      BY <1>1, <2>2, <3>1
  <2>3. QED
    BY <2>1, <2>2
<1>5. ASSUME NEW i \in 1..Len(t), NEW j \in 1..Len(t), i < j, t[i].frame # 0, t[j].frame # 0
      PROVE  t[i].frame < t[j].frame
  <2>1. i \in 1..Len(s) /\ t[i] = s[i] /\ s[i].frame \in Nat /\ s[i].frame <= b
    BY <1>1, <1>5 DEF Carries
  <2>2. CASE j \in 1..Len(s)
    BY <1>1, <1>5, <2>1, <2>2 DEF Carries
  <2>3. CASE j = Len(s) + 1
    BY <1>1, <1>5, <2>1, <2>3
  <2>4. QED
    BY <1>1, <2>2, <2>3
<1>6. QED
  BY <1>2, <1>3, <1>4, <1>5 DEF Carries, t

\* The head is empty or is the first frame carried.
LEMMA CarriesTail ==
    ASSUME NEW S, \A e \in S : e.frame \in Nat, NEW s \in Seq(S), s # <<>>,
           NEW a \in Nat, NEW b \in Nat, Carries(s, a, b)
    PROVE  \/ Head(s).frame = 0 /\ Carries(Tail(s), a, b)
           \/ Head(s).frame = a + 1 /\ a + 1 <= b /\ Carries(Tail(s), a + 1, b)
<1> DEFINE t == Tail(s)
<1>1. /\ Len(s) \in Nat /\ Len(s) > 0 /\ Len(t) = Len(s) - 1 /\ Head(s) = s[1]
      /\ \A i \in 1..Len(t) : t[i] = s[i + 1] /\ i + 1 \in 1..Len(s)
      /\ \A i \in 1..Len(s) : s[i].frame \in Nat
  BY HeadTailProperties, LenProperties
<1> HIDE DEF t
<1>2. ASSUME NEW i \in 2..Len(s) PROVE i - 1 \in 1..Len(t) /\ t[i - 1] = s[i]
  BY <1>1
<1>3. \A i, j \in 1..Len(t) :
        i < j /\ t[i].frame # 0 /\ t[j].frame # 0 => t[i].frame < t[j].frame
  <2> TAKE i, j \in 1..Len(t)
  <2>1. i + 1 \in 1..Len(s) /\ j + 1 \in 1..Len(s) /\ (i < j => i + 1 < j + 1)
    BY <1>1
  <2>2. i < j /\ s[i + 1].frame # 0 /\ s[j + 1].frame # 0 => s[i + 1].frame < s[j + 1].frame
    BY <2>1, Zenon DEF Carries
  <2>3. QED
    BY <1>1, <2>2
<1>4. CASE s[1].frame = 0
  <2>1. \A i \in 1..Len(t) : t[i].frame # 0 => t[i].frame > a /\ t[i].frame <= b
    BY <1>1 DEF Carries
  <2>2. ASSUME NEW f \in (a + 1)..b PROVE \E i \in 1..Len(t) : t[i].frame = f
    <3>1. PICK i \in 1..Len(s) : s[i].frame = f
      BY DEF Carries
    <3>2. i \in 2..Len(s)
      BY <1>1, <1>4, <3>1
    <3>3. QED
      BY <1>2, <3>1, <3>2
  <2>3. QED
    BY <1>1, <1>3, <1>4, <2>1, <2>2 DEF Carries, t
<1>5. CASE s[1].frame # 0
  <2>1. 1 \in 1..Len(s) /\ s[1].frame > a /\ s[1].frame <= b
    BY <1>1, <1>5 DEF Carries
  <2>2. ASSUME NEW i \in 2..Len(s), s[i].frame # 0 PROVE s[i].frame > s[1].frame
    BY <1>1, <1>5, <2>1, <2>2 DEF Carries
  <2>3. s[1].frame = a + 1
    <3>1. a + 1 \in (a + 1)..b
      BY <1>1, <2>1
    <3>2. PICK i \in 1..Len(s) : s[i].frame = a + 1
      BY <3>1 DEF Carries
    <3>3. i = 1 \/ i \in 2..Len(s)
      BY <1>1
    <3>4. QED
      BY <1>1, <2>1, <2>2, <3>2, <3>3
  <2>4. ASSUME NEW i \in 1..Len(t), t[i].frame # 0 PROVE t[i].frame > a + 1 /\ t[i].frame <= b
    <3>1. i + 1 \in 2..Len(s) /\ t[i] = s[i + 1]
      BY <1>1
    <3>2. QED
      BY <1>1, <2>2, <2>3, <2>4, <3>1 DEF Carries
  <2>5. ASSUME NEW f \in (a + 1 + 1)..b PROVE \E i \in 1..Len(t) : t[i].frame = f
    <3>1. PICK i \in 1..Len(s) : s[i].frame = f
      BY DEF Carries
    <3>2. i \in 2..Len(s)
      BY <1>1, <2>3, <3>1
    <3>3. QED
      BY <1>2, <3>1, <3>2
  <2>6. QED
    BY <1>1, <1>3, <2>1, <2>3, <2>4, <2>5 DEF Carries, t
<1>6. QED
  BY <1>4, <1>5

\* Nothing is carried where all are empty.
LEMMA CarriesNothing ==
    ASSUME NEW S, NEW s \in Seq(S), NEW a \in Nat, NEW b \in Nat, Carries(s, a, b),
           \A i \in 1..Len(s) : s[i].frame = 0
    PROVE  a = b
<1>1. SUFFICES ASSUME a + 1 \in (a + 1)..b PROVE FALSE
  BY DEF Carries
<1>2. PICK i \in 1..Len(s) : s[i].frame = a + 1
  BY <1>1 DEF Carries
<1>3. QED
  BY <1>2

LEMMA CarriesEmpty == ASSUME NEW a \in Nat PROVE Carries(<<>>, a, a)
BY DEF Carries

-----------------------------------------------------------------------------
(* The stream.                                                             *)
(*                                                                         *)
(* Between the file and the Output a frame lies in one of three places:    *)
(* among the packets queued to the driver, in the driver's pipe, or among  *)
(* the done capture buffers.  Read from the Output backwards they hold the *)
(* frames that are missing there, in order and each once (InFlight).  The  *)
(* capture buffer with the LAST flag is behind all of them (LastIsBehind), *)
(* and a decoder with a limit stops at the frame that reaches it           *)
(* (EndsComplete).                                                         *)

\* The frames the input port gives to the driver in all, and those it has prepared.
Whole == IF Encoder THEN Total ELSE NFrames
Sent == Limit(next - 1, Whole)

InFlight ==
    pc # "done" =>
        \E d \in 0..NFrames :
            /\ Carries(outDone, Len(written), d)
            /\ \A i \in 1..Len(pipe) : pipe[i] = d + i
            /\ Carries(inQ, d + Len(pipe), Sent)

LastIsBehind ==
    /\ lastSent => lastSeen /\ pipe = <<>>
    /\ \A i \in 1..Len(outDone) : outDone[i].last =>
          lastSent /\ \A j \in (i + 1)..Len(outDone) : outDone[j].frame = 0

EndsComplete ==
    /\ outFrames = Len(written)
    /\ eos => Len(written) = Total /\ "IN" \notin revents
    /\ ~Encoder /\ FramesCount > 0 /\ ~eos => outFrames < FramesCount

FlowInv == OrderInv /\ InFlight /\ LastIsBehind /\ EndsComplete

-----------------------------------------------------------------------------
(* The frames in flight. *)

\* Packets and capture buffers number their frames.
LEMMA FrameNumbers ==
    /\ \A e \in Packet : e.frame \in Nat
    /\ \A e \in Capture : e.frame \in Nat
BY StreamAssumption DEF Packet, Capture

LEMMA WholeType ==
    ASSUME TypeOK
    PROVE  /\ Whole \in Nat /\ Whole <= NFrames /\ Sent \in Nat /\ Total \in Nat
           /\ Total <= NFrames
           /\ Encoder /\ FramesCount > 0 => Whole <= FramesCount
           /\ FramesCount > 0 => Total <= FramesCount
BY SessionValues DEF Whole, Sent, Total, Limit

\* The packet prepared next carries the next frame, or none.
LEMMA PreparedFrame ==
    ASSUME TypeOK, CountsFrames, NEW b \in InBuf, PrepareAndQueue(b), session' = session
    PROVE  \/ PreparedPacket(b).frame = 0 /\ Sent' = Sent
           \/ PreparedPacket(b).frame = Sent + 1 /\ Sent' = Sent + 1
<1> USE SessionValues, WholeType
<1>1. Whole' = Whole /\ next' = IF IsGeneral THEN next ELSE next + 1
  BY DEF PrepareAndQueue, Whole, Total, FramesCount, Encoder
<1>2. PreparedPacket(b).frame = IF IsGeneral \/ PastLimit \/ next > NFrames THEN 0 ELSE next
  BY DEF PreparedPacket
<1>3. CASE IsGeneral
  BY <1>1, <1>2, <1>3 DEF Sent
<1>4. CASE ~IsGeneral /\ (PastLimit \/ next > NFrames)
  <2>1. next - 1 >= Whole
    <3>1. CASE PastLimit
      BY <3>1 DEF PastLimit, AtLimit, CountsFrames, Limit
    <3>2. CASE next > NFrames
      BY <3>2
    <3>3. QED
      BY <1>4, <3>1, <3>2
  <2>2. QED
    BY <1>1, <1>2, <1>4, <2>1 DEF Sent, Limit
<1>5. CASE ~IsGeneral /\ ~PastLimit /\ next <= NFrames
  <2>1. next <= Whole
    <3>1. CASE Encoder /\ FramesCount > 0
      <4>1. inFrames < FramesCount
        BY <1>5, <3>1 DEF PastLimit, AtLimit
      <4>2. next - 1 < FramesCount
        BY <3>1, <4>1 DEF CountsFrames, Limit
      <4>3. QED
        BY <1>5, <3>1, <4>2 DEF Whole, Total, Limit
    <3>2. CASE ~(Encoder /\ FramesCount > 0)
      BY <1>5, <3>2 DEF Whole, Total
    <3>3. QED
      BY <3>1, <3>2
  <2>2. QED
    BY <1>1, <1>2, <1>5, <2>1 DEF Sent, Limit
<1>6. QED
  BY <1>3, <1>4, <1>5

\* The three places a frame can be in, for a given end d of the done ones.
Places(d) ==
    /\ Carries(outDone, Len(written), d)
    /\ \A i \in 1..Len(pipe) : pipe[i] = d + i
    /\ Carries(inQ, d + Len(pipe), Sent)

LEMMA FlightStays ==
    ASSUME InFlight, pc' # "done" => pc # "done",
           UNCHANGED <<session, next, written, outDone, pipe, inQ>>
    PROVE  InFlight'
BY DEF InFlight, Sent, Whole, Total, FramesCount, Encoder

\* A packet is queued.
LEMMA FlightQueues ==
    ASSUME IInv, CountsFrames, InFlight, pc # "done", NEW b \in InBuf, ~Eof,
           PrepareAndQueue(b), UNCHANGED <<session, written, outDone, pipe>>
    PROVE  InFlight'
<1>1. /\ inQ \in Seq(Packet) /\ pipe \in Seq(1..NFrames) /\ NFrames \in Nat /\ TypeOK
      /\ PreparedPacket(b) \in Packet /\ inQ' = Append(inQ, PreparedPacket(b))
  BY SessionValues, PacketType DEF IInv, TypeOK, PrepareAndQueue
<1>2. PICK d \in 0..NFrames : Places(d)
  BY DEF InFlight, Places
<1>3. Sent \in Nat /\ Sent' \in Nat
  BY <1>1, WholeType, PreparedFrame
<1>4. Carries(inQ', d + Len(pipe), Sent')
  <2>1. d + Len(pipe) \in Nat
    BY <1>1
  <2>2. \/ PreparedPacket(b).frame = 0 /\ Sent' = Sent
        \/ PreparedPacket(b).frame = Sent + 1 /\ Sent' = Sent + 1
    BY <1>1, PreparedFrame
  <2> DEFINE x == PreparedPacket(b)
             m == d + Len(pipe)
             n == Sent'
  <2>3. Carries(inQ, m, Sent)
    BY <1>2 DEF Places
  <2>4. /\ inQ' = Append(inQ, x) /\ x \in Packet /\ m \in Nat /\ n \in Nat
        /\ (x.frame = 0 /\ n = Sent) \/ (x.frame = Sent + 1 /\ n = Sent + 1)
    BY <1>1, <1>3, <2>1, <2>2
  <2> HIDE DEF x, m, n
  <2>5. Carries(Append(inQ, x), m, n)
    BY <1>1, <1>3, <2>3, <2>4, FrameNumbers, CarriesAppend
  <2>6. QED
    BY <2>4, <2>5 DEF m, n
<1>5. QED
  BY <1>2, <1>4 DEF InFlight, Places

\* The client takes the buffer at the head of the done queue.
LEMMA FlightTakes ==
    ASSUME IInv, InFlight, pc # "done", TakeCapture, outDone' = Tail(outDone),
           UNCHANGED <<session, next, pipe, inQ>>
    PROVE  InFlight'
<1>1. /\ outDone \in Seq(Capture) /\ outDone # <<>> /\ written \in Seq(1..NFrames)
      /\ Len(written) \in Nat /\ NFrames \in Nat
  BY SessionValues DEF IInv, TypeOK, TakeCapture
<1>2. PICK d \in 0..NFrames : Places(d)
  BY DEF InFlight, Places
<1>3. \/ Done.frame = 0 /\ Carries(outDone', Len(written), d)
      \/ Done.frame = Len(written) + 1 /\ Carries(outDone', Len(written) + 1, d)
  <2> DEFINE n == Len(written)
  <2>1. n \in Nat /\ d \in Nat /\ Carries(outDone, n, d)
    BY <1>1, <1>2 DEF Places
  <2> HIDE DEF n
  <2>2. \/ Done.frame = 0 /\ Carries(outDone', n, d)
        \/ Done.frame = n + 1 /\ Carries(outDone', n + 1, d)
    BY <1>1, <2>1, FrameNumbers, CarriesTail DEF Done
  <2>3. QED
    BY <2>2 DEF n
<1>4. written' = IF Done.frame # 0 THEN Append(written, Done.frame) ELSE written
  BY DEF TakeCapture, FramePresent
<1>5. Len(written') = IF Done.frame # 0 THEN Len(written) + 1 ELSE Len(written)
  BY <1>1, <1>4
<1>6. Carries(outDone', Len(written'), d)
  BY <1>1, <1>3, <1>5
<1>7. pipe' = pipe /\ inQ' = inQ /\ Sent' = Sent
  BY DEF Sent, Whole, Total, FramesCount, Encoder
<1>8. QED
  BY <1>2, <1>6, <1>7 DEF InFlight, Places

\* All done buffers are thrown away, and none of them has a frame.
LEMMA FlightResets ==
    ASSUME IInv, InFlight, pc # "done", outDone' = <<>>,
           \A i \in 1..Len(outDone) : outDone[i].frame = 0,
           UNCHANGED <<session, next, written, pipe, inQ>>
    PROVE  InFlight'
<1>1. outDone \in Seq(Capture) /\ Len(written) \in Nat /\ NFrames \in Nat
  BY SessionValues DEF IInv, TypeOK
<1>2. PICK d \in 0..NFrames : Places(d)
  BY DEF InFlight, Places
<1>3. Len(written) = d
  BY <1>1, <1>2, CarriesNothing DEF Places
<1>4. Carries(outDone', Len(written'), d)
  BY <1>1, <1>3, CarriesEmpty
<1>5. pipe' = pipe /\ inQ' = inQ /\ Sent' = Sent
  BY DEF Sent, Whole, Total, FramesCount, Encoder
<1>6. QED
  BY <1>2, <1>4, <1>5 DEF InFlight, Places

\* The driver takes a packet; the frame of none is dropped.
LEMMA FlightConsumes ==
    ASSUME IInv, NothingAfterLast, InFlight, DriverConsume, session' = session
    PROVE  InFlight'
<1>1. /\ inQ \in Seq(Packet) /\ inQ # <<>> /\ inQ' = Tail(inQ) /\ pc # "done"
      /\ pipe \in Seq(1..NFrames) /\ Len(pipe) \in Nat /\ NFrames \in Nat
      /\ pipe' = IF Head(inQ).frame # 0 /\ ~lastSeen THEN Append(pipe, Head(inQ).frame) ELSE pipe
      /\ outDone' = outDone /\ written' = written
  BY SessionValues DEF IInv, TypeOK, DriverConsume, CanConsume, Streaming, client
<1>2. PICK d \in 0..NFrames : Places(d)
  BY <1>1 DEF InFlight, Places
<1>3. Sent' = Sent /\ Sent \in Nat
  BY WholeType DEF DriverConsume, client, Sent, Whole, Total, FramesCount, Encoder, IInv
<1>4. Head(inQ).frame # 0 => ~lastSeen
  <2>1. 1 \in 1..Len(inQ) /\ Head(inQ) = inQ[1]
    BY <1>1
  <2>2. QED
    BY <2>1 DEF NothingAfterLast
<1> DEFINE m == d + Len(pipe)
<1>5. m \in Nat /\ Carries(inQ, m, Sent)
  BY <1>1, <1>2 DEF Places
<1> HIDE DEF m
<1>6. \/ Head(inQ).frame = 0 /\ Carries(inQ', m, Sent)
      \/ Head(inQ).frame = m + 1 /\ Carries(inQ', m + 1, Sent)
  <2>1. \A e \in Packet : e.frame \in Nat
    BY FrameNumbers
  <2>2. \/ Head(inQ).frame = 0 /\ Carries(Tail(inQ), m, Sent)
        \/ Head(inQ).frame = m + 1 /\ Carries(Tail(inQ), m + 1, Sent)
    BY <1>1, <1>3, <1>5, <2>1, CarriesTail
  <2>3. QED
    BY <1>1, <2>2
<1>7. CASE Head(inQ).frame = 0
  <2>1. pipe' = pipe /\ Carries(inQ', m, Sent)
    <3>1. m # -1 /\ ~(Head(inQ).frame = m + 1)
      BY <1>5, <1>7
    <3>2. QED
      BY <1>1, <1>6, <1>7, <3>1
  <2>2. d + Len(pipe') = m
    BY <2>1 DEF m
  <2>3. QED
    BY <1>1, <1>2, <1>3, <2>1, <2>2 DEF InFlight, Places
<1>8. CASE Head(inQ).frame # 0
  <2>1. Head(inQ).frame \in 1..NFrames
    <3>1. Head(inQ) \in Packet
      BY <1>1
    <3>2. QED
      BY <1>1, <1>8, <3>1 DEF Packet
  <2>2. /\ Head(inQ).frame = m + 1 /\ Carries(inQ', m + 1, Sent)
        /\ pipe' = Append(pipe, m + 1) /\ m + 1 \in 1..NFrames
    BY <1>1, <1>4, <1>6, <1>8, <2>1
  <2>3. Len(pipe') = Len(pipe) + 1 /\ \A i \in 1..Len(pipe') : pipe'[i] = d + i
    BY <1>1, <1>2, <2>2 DEF Places, m
  <2>4. d + Len(pipe') = m + 1
    BY <1>1, <2>3 DEF m
  <2>5. QED
    BY <1>1, <1>2, <1>3, <2>2, <2>3, <2>4 DEF InFlight, Places
<1>9. QED
  BY <1>7, <1>8

\* The driver finishes the frame at the head of the pipe.
LEMMA FlightEmits ==
    ASSUME IInv, InFlight, session' = session,
           NEW b \in outQ, NEW l \in BOOLEAN, DriverEmit(b, l)
    PROVE  InFlight'
<1> DEFINE c == [buf |-> b, frame |-> Head(pipe), last |-> l, error |-> FALSE]
<1>1. /\ outDone \in Seq(Capture) /\ pipe \in Seq(1..NFrames) /\ pipe # <<>> /\ pc # "done"
      /\ Len(written) \in Nat /\ NFrames \in Nat
      /\ outDone' = Append(outDone, c) /\ pipe' = Tail(pipe) /\ b \in Nat
      /\ UNCHANGED <<written, inQ, next, pc>>
  BY SessionValues DEF IInv, TypeOK, DriverEmit, CanEmit, Streaming, Complete, client
<1>2. PICK d \in 0..NFrames : Places(d)
  BY <1>1 DEF InFlight, Places
<1>3. Sent' = Sent
  BY <1>1 DEF Sent, Whole, Total, FramesCount, Encoder
<1>4. /\ Len(pipe) \in Nat /\ Len(pipe) > 0 /\ Len(pipe') = Len(pipe) - 1 /\ Head(pipe) = pipe[1]
      /\ \A i \in 1..Len(pipe') : pipe'[i] = pipe[i + 1] /\ i + 1 \in 1..Len(pipe)
      /\ Head(pipe) \in 1..NFrames
  BY <1>1, HeadTailProperties, LenProperties
<1>5. Head(pipe) = d + 1 /\ d + 1 \in 0..NFrames
  BY <1>2, <1>4 DEF Places
<1>6. c \in Capture /\ c.frame = d + 1
  BY <1>1, <1>4, <1>5 DEF Capture
<1> HIDE DEF c
<1>7. Carries(outDone', Len(written'), d + 1)
  <2> DEFINE n == Len(written)
             m == d + 1
  <2>1. /\ n \in Nat /\ d \in Nat /\ m \in Nat /\ m = d + 1 /\ c.frame = d + 1
        /\ Carries(outDone, n, d)
    BY <1>1, <1>2, <1>6 DEF Places
  <2> HIDE DEF n, m
  <2>2. Carries(Append(outDone, c), n, m)
    BY <1>1, <1>6, <2>1, FrameNumbers, CarriesAppend
  <2>3. QED
    BY <1>1, <2>2 DEF n, m
<1>8. \A i \in 1..Len(pipe') : pipe'[i] = d + 1 + i
  BY <1>2, <1>4 DEF Places
<1>9. d + 1 + Len(pipe') = d + Len(pipe)
  BY <1>4
<1>10. QED
  BY <1>1, <1>2, <1>3, <1>5, <1>7, <1>8, <1>9 DEF InFlight, Places

\* The driver returns a buffer without a frame.
LEMMA FlightReturns ==
    ASSUME IInv, InFlight, pc # "done", NEW b \in outQ, NEW l \in BOOLEAN, NEW e \in BOOLEAN,
           Complete(b, 0, l, e), UNCHANGED <<session, next, written, pipe, inQ>>
    PROVE  InFlight'
<1> DEFINE c == [buf |-> b, frame |-> 0, last |-> l, error |-> e]
<1>1. /\ outDone \in Seq(Capture) /\ Len(written) \in Nat /\ NFrames \in Nat
      /\ outDone' = Append(outDone, c) /\ c \in Capture /\ c.frame = 0
  BY SessionValues DEF IInv, TypeOK, Complete, Capture
<1> HIDE DEF c
<1>2. PICK d \in 0..NFrames : Places(d)
  BY DEF InFlight, Places
<1>3. Carries(outDone', Len(written), d)
  BY <1>1, <1>2, FrameNumbers, CarriesAppend DEF Places
<1>4. pipe' = pipe /\ inQ' = inQ /\ Sent' = Sent /\ written' = written
  BY DEF Sent, Whole, Total, FramesCount, Encoder
<1>5. QED
  BY <1>2, <1>3, <1>4 DEF InFlight, Places

\* Buffers are thrown away at a reset only behind one returned empty.
LEMMA NothingToReset ==
    ASSUME OrderInv, TakeCapture, ResetsStream
    PROVE  /\ \A i \in 1..Len(outDone) : outDone[i].frame = 0
           /\ UNCHANGED <<written, outFrames>>
<1>1. outDone \in Seq(Capture) /\ outDone # <<>> /\ Returned(Head(outDone))
  BY DEF OrderInv, IInv, TypeOK, TakeCapture, ResetsStream, EmptyReturn, FramePresent, Done,
     Returned
<1>2. 1 \in 1..Len(outDone) /\ Head(outDone) = outDone[1]
  BY <1>1
<1>3. QED
  BY <1>1, <1>2 DEF OrderInv, NoFrameBehind, TakeCapture, ResetsStream, EmptyReturn

LEMMA FlightStep == OrderInv /\ InFlight /\ [Work]_vars => InFlight'
<1> SUFFICES ASSUME OrderInv, InFlight, [Work]_vars PROVE InFlight'
  OBVIOUS
<1>0. IInv /\ CountsFrames /\ NothingAfterLast /\ session' = session
  BY SessionFixed DEF OrderInv, InputOrder
<1> USE <1>0
<1>1. CASE QueueInput
  <2>1. Len(inQ) \in InBuf
    BY <1>1, BufferAssumption DEF QueueInput, IInv, TypeOK, InBuf
  <2>2. QED
    BY <1>1, <2>1, FlightQueues DEF QueueInput, driver
<1>2. CASE InputWork
  <2>1. PICK b \in InBuf : KeepInput(b) \/ RefillInput(b)
    BY <1>2 DEF InputWork
  <2>2. pc # "done"
    BY <1>2 DEF InputWork
  <2>3. CASE KeepInput(b)
    BY <2>2, <2>3, FlightStays DEF KeepInput
  <2>4. CASE RefillInput(b)
    BY <2>2, <2>4, FlightQueues DEF RefillInput
  <2>5. QED
    BY <2>1, <2>3, <2>4
<1>3. CASE OutputWork
  <2>1. pc # "done"
    BY <1>3 DEF OutputWork
  <2>2. CASE EndCapture \/ RequeueCapture
    BY <2>1, <2>2, FlightTakes DEF EndCapture, RequeueCapture, driver
  <2>3. ASSUME NEW m \in MinCapture, ResetCapture(m + ExtraCount) PROVE InFlight'
    BY <2>1, <2>3, NothingToReset, FlightResets DEF ResetCapture, DoneAfterReset
  <2>4. QED
    BY <1>3, <2>2, <2>3 DEF OutputWork
<1>4. CASE Setup \/ StreamOn \/ Poll \/ GiveUp \/ HandleEvent
  BY <1>4, FlightStays
     DEF Setup, StreamOn, Poll, GiveUp, HandleEvent, EventTurn, queues,
     driver
<1>5. CASE StreamOff
  BY <1>5 DEF StreamOff, InFlight
<1>6. CASE DriverConsume
  BY <1>6, FlightConsumes
<1>7. ASSUME NEW b \in outQ, NEW l \in BOOLEAN, DriverEmit(b, l) PROVE InFlight'
  BY <1>7, FlightEmits
<1>8. ASSUME NEW b \in outQ, DriverReturnEmpty(b) \/ DriverEnd(b) \/ DriverCorrupt(b)
      PROVE  InFlight'
  <2>1. /\ pc # "done"
        /\ UNCHANGED <<session, next, written, pipe, inQ>>
        /\ \/ Complete(b, 0, FALSE, FALSE)
           \/ Complete(b, 0, TRUE, FALSE) \/ Complete(b, 0, FALSE, TRUE)
    BY <1>8 DEF DriverReturnEmpty, DriverEnd, DriverCorrupt, Streaming, client, driver
  <2>2. QED
    BY <2>1, FlightReturns
<1>9. ASSUME NEW colour \in BOOLEAN, DriverSignalChange(colour) PROVE InFlight'
  BY <1>9, FlightStays DEF DriverSignalChange, client
<1>10. CASE DriverBreak \/ UNCHANGED vars
  BY <1>10, FlightStays DEF DriverBreak, vars, client, queues, driver
<1>11. QED
  BY <1>1, <1>2, <1>3, <1>4, <1>5, <1>6, <1>7, <1>8, <1>9, <1>10
     DEF Work, ClientWork, DriverWork, DriverFault

-----------------------------------------------------------------------------
(* The LAST capture buffer. *)

LEMMA LastAppended ==
    ASSUME LastIsBehind, outDone \in Seq(Capture), NEW c \in Capture,
           outDone' = Append(outDone, c), c.frame = 0 \/ ~lastSent,
           lastSent \/ c.last => lastSent', lastSent' => lastSeen' /\ pipe' = <<>>
    PROVE  LastIsBehind'
<1>1. /\ Len(outDone) \in Nat /\ Len(outDone') = Len(outDone) + 1
      /\ outDone'[Len(outDone) + 1] = c
      /\ \A i \in 1..Len(outDone) : outDone'[i] = outDone[i]
  OBVIOUS
<1> SUFFICES ASSUME NEW i \in 1..Len(outDone'), outDone'[i].last
             PROVE  lastSent' /\ \A j \in (i + 1)..Len(outDone') : outDone'[j].frame = 0
  BY DEF LastIsBehind
<1>2. CASE i = Len(outDone) + 1
  BY <1>1, <1>2
<1>3. CASE i \in 1..Len(outDone)
  <2>1. lastSent /\ \A j \in (i + 1)..Len(outDone) : outDone[j].frame = 0
    BY <1>1, <1>3 DEF LastIsBehind
  <2>2. ASSUME NEW j \in (i + 1)..Len(outDone') PROVE outDone'[j].frame = 0
    <3>1. CASE j = Len(outDone) + 1
      BY <1>1, <2>1, <3>1
    <3>2. CASE j \in (i + 1)..Len(outDone)
      BY <1>1, <1>3, <2>1, <3>2
    <3>3. QED
      BY <1>1, <1>3, <3>1, <3>2
  <2>3. QED
    BY <2>1, <2>2
<1>4. QED
  BY <1>1, <1>2, <1>3

LEMMA LastTaken ==
    ASSUME LastIsBehind, outDone \in Seq(Capture),
           outDone' = <<>> \/ (outDone # <<>> /\ outDone' = Tail(outDone)),
           UNCHANGED <<lastSent, lastSeen, pipe>>
    PROVE  LastIsBehind'
<1>1. CASE outDone' = <<>>
  BY <1>1 DEF LastIsBehind
<1>2. CASE outDone # <<>> /\ outDone' = Tail(outDone)
  <2>1. /\ Len(outDone') = Len(outDone) - 1 /\ Len(outDone) \in Nat
        /\ \A i \in 1..Len(outDone') : outDone'[i] = outDone[i + 1]
    BY <1>2, HeadTailProperties, LenProperties
  <2> SUFFICES ASSUME NEW i \in 1..Len(outDone'), outDone'[i].last
               PROVE  lastSent /\ \A j \in (i + 1)..Len(outDone') : outDone'[j].frame = 0
    BY DEF LastIsBehind
  <2>2. i + 1 \in 1..Len(outDone) /\ outDone[i + 1].last
    BY <2>1
  <2>3. lastSent /\ \A j \in (i + 1 + 1)..Len(outDone) : outDone[j].frame = 0
    BY <2>2 DEF LastIsBehind
  <2>4. \A j \in (i + 1)..Len(outDone') :
          j \in 1..Len(outDone') /\ j + 1 \in (i + 1 + 1)..Len(outDone)
    BY <2>1
  <2>5. QED
    BY <2>1, <2>3, <2>4
<1>3. QED
  BY <1>1, <1>2

LEMMA LastStep == OrderInv /\ LastIsBehind /\ [Work]_vars => LastIsBehind'
<1> SUFFICES ASSUME OrderInv, LastIsBehind, [Work]_vars PROVE LastIsBehind'
  OBVIOUS
<1>0. /\ IInv /\ TypeOK /\ outDone \in Seq(Capture) /\ outQ \subseteq Nat
      /\ pipe \in Seq(1..NFrames) /\ (change => pipe # <<>>)
  BY DEF OrderInv, IInv, TypeOK, ChangeAtHead, NewResolution
<1>1. ASSUME UNCHANGED <<lastSent, lastSeen, pipe, outDone>> PROVE LastIsBehind'
  BY <1>1 DEF LastIsBehind
<1>2. CASE InputWork
  BY <1>1, <1>2 DEF InputWork, KeepInput, RefillInput
<1>3. CASE OutputWork
  BY <1>0, <1>3, LastTaken DEF OutputWork, EndCapture, ResetCapture, RequeueCapture,
     TakeCapture, DoneAfterReset, driver
<1>4. CASE Setup \/ QueueInput \/ StreamOn \/ Poll \/ GiveUp \/ HandleEvent
  BY <1>1, <1>4 DEF Setup, QueueInput, StreamOn, Poll, GiveUp, HandleEvent,
     queues, driver
<1>5. CASE StreamOff
  BY <1>0, <1>5, LastTaken DEF StreamOff, driver
<1>6. CASE DriverConsume
  BY <1>6 DEF DriverConsume, LastIsBehind
<1>7. ASSUME NEW b \in outQ, NEW l \in BOOLEAN, DriverEmit(b, l) PROVE LastIsBehind'
  <2>1. /\ pipe # <<>> /\ ~lastSent /\ lastSent' = l /\ lastSeen' = lastSeen
        /\ pipe' = Tail(pipe) /\ (l => lastSeen /\ Len(pipe) = 1)
        /\ Complete(b, Head(pipe), l, FALSE)
    BY <1>7 DEF DriverEmit, CanEmit, LastIsBehind
  <2>2. Head(pipe) \in 0..NFrames /\ (l => pipe' = <<>>)
    BY <1>0, <2>1, StreamAssumption
  <2> DEFINE c == [buf |-> b, frame |-> Head(pipe), last |-> l, error |-> FALSE]
  <2>3. c \in Capture /\ c.last = l /\ outDone' = Append(outDone, c)
    BY <1>0, <2>1, <2>2 DEF Capture, Complete
  <2> HIDE DEF c
  <2>4. QED
    BY <1>0, <2>1, <2>2, <2>3, LastAppended
<1>8. ASSUME NEW b \in outQ, NEW l \in BOOLEAN, NEW e \in BOOLEAN, Complete(b, 0, l, e),
             UNCHANGED <<lastSeen, pipe>>, lastSent' = (lastSent \/ l),
             l => lastSeen /\ pipe = <<>>
      PROVE  LastIsBehind'
  <2> DEFINE c == [buf |-> b, frame |-> 0, last |-> l, error |-> e]
  <2>1. c \in Capture /\ c.frame = 0 /\ c.last = l /\ outDone' = Append(outDone, c)
    BY <1>0, <1>8, StreamAssumption DEF Capture, Complete
  <2> HIDE DEF c
  <2>2. QED
    BY <1>0, <1>8, <2>1, LastAppended DEF LastIsBehind
<1>9. ASSUME NEW b \in outQ, DriverReturnEmpty(b) \/ DriverCorrupt(b) PROVE LastIsBehind'
  <2>1. /\ UNCHANGED <<lastSeen, pipe>> /\ lastSent' = (lastSent \/ FALSE)
        /\ Complete(b, 0, FALSE, FALSE) \/ Complete(b, 0, FALSE, TRUE)
    BY <1>0, <1>9 DEF DriverReturnEmpty, DriverCorrupt, driver, TypeOK
  <2>2. QED
    BY <1>8, <2>1
<1>10. ASSUME NEW b \in outQ, DriverEnd(b) PROVE LastIsBehind'
  <2>1. /\ UNCHANGED <<lastSeen, pipe>> /\ lastSent' = TRUE /\ Complete(b, 0, TRUE, FALSE)
        /\ pipe = <<>> /\ (lastSeen \/ (stopCmd /\ inQ = <<>>)) /\ pc = "run"
    BY <1>10 DEF DriverEnd, CanEnd, Drained, Streaming
  <2>2. lastSeen
    BY <1>0, <2>1 DEF IInv, EndIsQueued, StopAfterLast
  <2>3. QED
    BY <1>8, <2>1, <2>2
<1>11. ASSUME NEW colour \in BOOLEAN, DriverSignalChange(colour) PROVE LastIsBehind'
  BY <1>1, <1>11 DEF DriverSignalChange
<1>12. CASE DriverBreak \/ UNCHANGED vars
  BY <1>1, <1>12 DEF DriverBreak, vars, queues, driver
<1>13. QED
  BY <1>2, <1>3, <1>4, <1>5, <1>6, <1>7, <1>9, <1>10, <1>11, <1>12
     DEF Work, ClientWork, DriverWork, DriverFault

-----------------------------------------------------------------------------
(* The end of the session. *)

\* The done buffer at the head is empty or has the frame that is due.
LEMMA NextFrame ==
    ASSUME OrderInv, InFlight, pc # "done", outDone # <<>>
    PROVE  Done.frame = 0 \/ (Done.frame = Len(written) + 1 /\ Done.frame <= Whole)
<1>1. /\ TypeOK /\ outDone \in Seq(Capture) /\ pipe \in Seq(1..NFrames) /\ Len(pipe) \in Nat
      /\ NFrames \in Nat
  BY SessionValues DEF OrderInv, IInv, TypeOK
<1>2. PICK d \in 0..NFrames : Places(d)
  BY DEF InFlight, Places
<1> DEFINE n == Len(written)
<1>3. n \in Nat /\ d \in Nat /\ Carries(outDone, n, d)
  BY <1>1, <1>2 DEF Places, TypeOK
<1>4. d <= Whole
  <2>1. d + Len(pipe) <= Sent
    BY <1>2 DEF Places, Carries
  <2>2. Sent <= Whole
    BY <1>1, WholeType, SessionValues DEF Sent, Limit
  <2>3. QED
    BY <1>1, <1>3, <2>1, <2>2, WholeType
<1> HIDE DEF n
<1>5. Done.frame = 0 \/ (Done.frame = n + 1 /\ n + 1 <= d)
  BY <1>1, <1>3, FrameNumbers, CarriesTail DEF Done
<1>6. QED
  BY <1>1, <1>3, <1>4, <1>5, WholeType DEF n

\* With the LAST buffer the session has all the frames.
LEMMA LastFrame ==
    ASSUME OrderInv, InFlight, LastIsBehind, pc # "done", TakeCapture, Done.last
    PROVE  Len(written') = Whole
<1>1. /\ TypeOK /\ outDone \in Seq(Capture) /\ outDone # <<>> /\ inQ \in Seq(Packet)
      /\ NFrames \in Nat /\ written \in Seq(1..NFrames)
  BY SessionValues DEF OrderInv, IInv, TypeOK, TakeCapture
<1>2. /\ 1 \in 1..Len(outDone) /\ Head(outDone) = outDone[1]
      /\ Len(Tail(outDone)) = Len(outDone) - 1
      /\ \A i \in 1..Len(Tail(outDone)) : Tail(outDone)[i] = outDone[i + 1]
      /\ Len(outDone) \in Nat /\ Tail(outDone) \in Seq(Capture)
  BY <1>1, HeadTailProperties, LenProperties
<1>3. /\ lastSeen /\ pipe = <<>>
      /\ \A j \in (1 + 1)..Len(outDone) : outDone[j].frame = 0
  BY <1>2 DEF LastIsBehind, Done
<1>4. \A i \in 1..Len(Tail(outDone)) : Tail(outDone)[i].frame = 0
  BY <1>2, <1>3
<1>5. PICK d \in 0..NFrames : Places(d)
  BY DEF InFlight, Places
<1>6. d = Sent
  <2>1. Sent \in Nat /\ d \in Nat
    BY <1>1, WholeType
  <2>2. \A i \in 1..Len(inQ) : inQ[i].frame = 0
    BY <1>3 DEF OrderInv, InputOrder, NothingAfterLast
  <2>3. Carries(inQ, d, Sent)
    BY <1>3, <1>5 DEF Places
  <2>4. QED
    BY <1>1, <2>1, <2>2, <2>3, CarriesNothing
<1>7. Sent = Whole
  <2>1. Ended /\ CountsFrames
    BY <1>3 DEF OrderInv, InputOrder, LastEnds
  <2>2. next - 1 >= Whole
    <3>1. CASE Eof
      BY <1>1, <3>1, SessionValues, WholeType DEF Eof, LastPacket
    <3>2. CASE Encoder /\ FramesCount > 0 /\ inFrames >= FramesCount
      BY <1>1, <2>1, <3>2, SessionValues, WholeType DEF CountsFrames, Limit
    <3>3. QED
      BY <2>1, <3>1, <3>2 DEF Ended
  <2>3. QED
    BY <1>1, <2>2, SessionValues, WholeType DEF Sent, Limit
<1> DEFINE n == Len(written)
<1>8. n \in Nat /\ d \in Nat /\ Carries(outDone, n, d)
  BY <1>1, <1>5 DEF Places
<1>9. Len(written') = IF Done.frame # 0 THEN n + 1 ELSE n
  BY <1>1 DEF TakeCapture, FramePresent
<1> HIDE DEF n
<1>10. \/ Done.frame = 0 /\ Carries(Tail(outDone), n, d)
       \/ Done.frame = n + 1 /\ Carries(Tail(outDone), n + 1, d)
  BY <1>1, <1>8, FrameNumbers, CarriesTail DEF Done
<1>11. CASE Done.frame = 0
  <2>1. Carries(Tail(outDone), n, d)
    BY <1>8, <1>10, <1>11
  <2>2. n = d
    BY <1>2, <1>4, <1>8, <2>1, CarriesNothing
  <2>3. QED
    BY <1>6, <1>7, <1>9, <1>11, <2>2
<1>12. CASE Done.frame # 0
  <2>1. n + 1 \in Nat /\ Carries(Tail(outDone), n + 1, d)
    BY <1>8, <1>10, <1>12
  <2>2. n + 1 = d
    BY <1>2, <1>4, <1>8, <2>1, CarriesNothing
  <2>3. QED
    BY <1>6, <1>7, <1>9, <1>12, <2>2
<1>13. QED
  BY <1>11, <1>12

LEMMA EndsStep ==
    OrderInv /\ InFlight /\ LastIsBehind /\ EndsComplete /\ [Work]_vars => EndsComplete'
<1> SUFFICES ASSUME OrderInv, InFlight, LastIsBehind, EndsComplete, [Work]_vars
             PROVE  EndsComplete'
  OBVIOUS
<1>0. /\ UNCHANGED <<session, Encoder, FramesCount, Total>>
      /\ TypeOK /\ Encoder \in BOOLEAN /\ FramesCount \in Nat /\ NFrames \in Nat
      /\ Len(written) \in Nat /\ written \in Seq(1..NFrames) /\ outFrames \in Nat
      /\ outDone \in Seq(Capture)
  BY SessionFixed, SessionValues
     DEF OrderInv, IInv, TypeOK, Encoder, FramesCount, Total
<1>1. ASSUME UNCHANGED <<written, outFrames, eos>>, eos => revents' \subseteq revents
      PROVE  EndsComplete'
  BY <1>0, <1>1 DEF EndsComplete
<1>2. CASE OutputWork
  <2>1. ~eos /\ pc # "done" /\ "IN" \notin revents'
    BY <1>2 DEF OutputWork, EndsComplete
  <2>2. ASSUME TakeCapture
        PROVE  /\ outFrames' = Len(written')
               /\ Len(written') = Len(written) + (IF FramePresent THEN 1 ELSE 0)
               /\ FramePresent => Len(written') <= Whole
    <3>1. FramePresent => Len(written) + 1 <= Whole
      BY <2>1, <2>2, NextFrame DEF TakeCapture, FramePresent
    <3>2. QED
      BY <1>0, <2>2, <3>1 DEF TakeCapture, EndsComplete
  <2>3. CASE EndCapture
    <3>1. Len(written') = Whole /\ outFrames' = Len(written') /\ eos'
      BY <2>1, <2>2, <2>3, LastFrame DEF EndCapture
    <3>2. Whole = Total
      <4>1. CASE ~Encoder /\ FramesCount > 0
        <5>1. outFrames < FramesCount /\ Len(written') <= Len(written) + 1
          BY <1>0, <2>1, <2>2, <2>3, <4>1 DEF EndsComplete, EndCapture
        <5>2. NFrames <= FramesCount
          BY <1>0, <3>1, <4>1, <5>1 DEF EndsComplete, Whole
        <5>3. QED
          BY <1>0, <4>1, <5>2 DEF Whole, Total, Limit
      <4>2. CASE Encoder \/ FramesCount = 0
        BY <1>0, <4>2 DEF Whole, Total
      <4>3. QED
        BY <1>0, <4>1, <4>2
    <3>3. QED
      BY <1>0, <2>1, <3>1, <3>2 DEF EndsComplete
  <2>4. ASSUME NEW m \in MinCapture, ResetCapture(m + ExtraCount) PROVE EndsComplete'
    <3>1. UNCHANGED <<written, outFrames, eos>>
      BY <2>4, NothingToReset DEF ResetCapture
    <3>2. QED
      BY <1>1, <2>1, <3>1
  <2>5. CASE RequeueCapture
    <3>1. outFrames' = Len(written') /\ eos' = ReachesLimit
      BY <2>2, <2>5 DEF RequeueCapture
    <3>2. ReachesLimit => Len(written') = Total
      <4> SUFFICES ASSUME ReachesLimit PROVE Len(written') = Total
        OBVIOUS
      <4>1. /\ ~Encoder /\ FramesCount > 0 /\ outFrames < FramesCount
            /\ outFrames + (IF FramePresent THEN 1 ELSE 0) >= FramesCount
        BY <2>1 DEF ReachesLimit, EndsComplete
      <4>2. FramePresent /\ Len(written') = FramesCount
        BY <1>0, <2>2, <2>5, <4>1 DEF EndsComplete, RequeueCapture
      <4>3. FramesCount <= NFrames
        BY <2>2, <2>5, <4>1, <4>2 DEF RequeueCapture, Whole
      <4>4. QED
        BY <1>0, <4>1, <4>2, <4>3 DEF Total, Limit
    <3>3. ~Encoder /\ FramesCount > 0 /\ ~eos' => outFrames' < FramesCount
      BY <1>0, <2>5, <3>1 DEF RequeueCapture, TakeCapture, ReachesLimit, FramePresent
    <3>4. QED
      BY <1>0, <2>1, <3>1, <3>2, <3>3 DEF EndsComplete
  <2>6. QED
    BY <1>2, <2>3, <2>4, <2>5 DEF OutputWork
<1>3. CASE InputWork
  BY <1>1, <1>3 DEF InputWork, KeepInput, RefillInput
<1>4. CASE Setup \/ QueueInput \/ StreamOn \/ Poll \/ GiveUp \/ HandleEvent
  BY <1>1, <1>4 DEF Setup, QueueInput, StreamOn, Poll, Polling, GiveUp,
     HandleEvent
<1>5. CASE StreamOff \/ UNCHANGED vars
  BY <1>1, <1>5 DEF StreamOff, vars, client
<1>6. CASE DriverWork \/ DriverFault
  BY <1>1, <1>6 DEF DriverWork, DriverFault, DriverConsume, DriverEmit, DriverReturnEmpty,
     DriverEnd, DriverSignalChange, DriverBreak, DriverCorrupt, client
<1>7. QED
  BY <1>2, <1>3, <1>4, <1>5, <1>6 DEF Work, ClientWork

-----------------------------------------------------------------------------
(* The theorems. *)

LEMMA FlowInit == Init => FlowInv
<1>1. Init => InFlight
  <2> SUFFICES ASSUME Init PROVE InFlight
    OBVIOUS
  <2>1. TypeOK
    BY InitInvariant DEF IInv
  <2>2. Sent = 0 /\ NFrames \in Nat
    BY <2>1, WholeType, SessionValues DEF Init, Sent, Limit
  <2>3. Carries(outDone, Len(written), 0) /\ Carries(inQ, 0 + Len(pipe), Sent)
    BY <2>2, CarriesEmpty DEF Init
  <2>4. QED
    BY <2>2, <2>3 DEF Init, InFlight
<1>2. Init => LastIsBehind /\ EndsComplete
  BY DEF Init, LastIsBehind, EndsComplete
<1>3. QED
  BY <1>1, <1>2, OrderInit DEF FlowInv

LEMMA FlowStep == FlowInv /\ [Work]_vars => FlowInv'
BY OrderStep, FlightStep, LastStep, EndsStep DEF FlowInv

LEMMA FlowInvariance == Spec => []FlowInv
BY FlowInit, FlowStep, PollModeWorks, PTL DEF Spec

\* What a user of the session sees of pc.
Status == IF pc \in {"done", "failed"} THEN pc ELSE "running"

LEMMA StreamInit == Init => Stream!Init
<1> SUFFICES ASSUME Init PROVE Stream!Init
  OBVIOUS
<1>1. Total \in Nat
  BY InitInvariant, WholeType DEF IInv
<1>2. QED
  BY <1>1 DEF Init, Stream!Init

\* Each step delivers the next frame, ends the session, or is not seen.
LEMMA StreamStep == FlowInv /\ [Work]_vars => [Stream!Next]_<<Total, written, Status>>
<1> SUFFICES ASSUME FlowInv, [Work]_vars, ~UNCHANGED <<Total, written, Status>>
             PROVE  Stream!Next
  OBVIOUS
<1>0. Total' = Total /\ TypeOK
  BY SessionFixed DEF Total, FramesCount, FlowInv, OrderInv, IInv
<1>1. CASE OutputWork
  <2>1. pc = "run" /\ pc' = "run" /\ ~eos /\ TakeCapture
    BY <1>1 DEF OutputWork, EndCapture, ResetCapture, RequeueCapture, FlowInv,
       EndsComplete
  <2>2. FramePresent
    BY <1>0, <2>1 DEF TakeCapture, Status
  <2>3. Done.frame = Len(written) + 1 /\ Done.frame <= Whole
    BY <2>1, <2>2, NextFrame DEF TakeCapture, FramePresent, FlowInv
  <2>4. Len(written) < Total
    BY <1>0, <2>1, <2>3, SessionValues, WholeType
       DEF Whole, Total, Limit, FlowInv, EndsComplete, TypeOK
  <2>5. written' = Append(written, Len(written) + 1)
    BY <2>1, <2>2, <2>3 DEF TakeCapture
  <2>6. QED
    BY <1>0, <2>1, <2>4, <2>5 DEF Status, Stream!Next, Stream!Deliver
<1>2. CASE StreamOff
  <2>1. pc = "run" /\ pc' = "done" /\ eos /\ written' = written
    BY <1>2 DEF StreamOff
  <2>2. QED
    BY <1>0, <2>1 DEF Status, Stream!Next, Stream!Finish, FlowInv, EndsComplete
<1>3. CASE GiveUp
  <2>1. pc = "run" /\ pc' = "failed" /\ written' = written
    BY <1>3 DEF GiveUp
  <2>2. QED
    BY <1>0, <2>1 DEF Status, Stream!Next, Stream!Fail
<1>4. CASE Setup \/ QueueInput \/ StreamOn
  BY <1>0, <1>4 DEF Status, Setup, QueueInput, StreamOn
<1>5. CASE Poll \/ InputWork \/ HandleEvent
  BY <1>0, <1>5 DEF Status, Poll, InputWork, KeepInput, RefillInput, HandleEvent
<1>6. CASE DriverWork \/ DriverFault \/ UNCHANGED vars
  BY <1>0, <1>6 DEF Status, DriverWork, DriverFault, DriverConsume, DriverEmit,
     DriverReturnEmpty, DriverEnd, DriverSignalChange, DriverBreak, DriverCorrupt, client, vars
<1>7. QED
  BY <1>1, <1>2, <1>3, <1>4, <1>5, <1>6 DEF Work, ClientWork

\* Codec::stream delivers the frames of the file to the Output one after the other,
\* none lost, repeated or swapped, through corrupt buffers and resolution changes, and
\* it reports success only after the last of them, or after the last that --frames
\* allows.
THEOREM SafelyImplementsStream == Spec => Stream!Spec
BY StreamInit, StreamStep, FlowInvariance, PollModeWorks, PTL
   DEF Spec, Stream!Spec, Status

-----------------------------------------------------------------------------
(* The session and the driver never wait for each other.                   *)
(*                                                                         *)
(* A poll without an answer means that every buffer is with the driver.    *)
(* It then has capture buffers to fill (AllWithDriver), packets to consume *)
(* or the LAST one behind it (Supplied), and a LAST buffer it has emitted  *)
(* is still to be seen (EndVisible).  What tells the session to answer a   *)
(* change, the event, is on its way as long as it has not been seen        *)
(* (ChangeAnnounced), and a poll that reports a buffer returned empty also *)
(* reports it (HeadAnnounced).                                             *)

Supplied == pc = "run" /\ ~Eof => inQ # <<>> \/ inDone # {}

AllWithDriver == pc \in {"queue", "run"} /\ ~eos => outSize > 0 /\ outPending = outSize

EndVisible ==
    lastSent /\ pc \notin {"done", "failed"} =>
        eos \/ \E i \in 1..Len(outDone) : outDone[i].last

ChangeAnnounced ==
    change => isSourceChange \/ \E i \in 1..Len(events) : events[i] = "SOURCE_CHANGE"

HeadAnnounced ==
    "IN" \in revents =>
        outDone # <<>> /\ (Returned(Head(outDone)) /\ ~isSourceChange => "PRI" \in revents)

WaitInv == Supplied /\ AllWithDriver /\ EndVisible /\ ChangeAnnounced /\ HeadAnnounced

LEMMA SuppliedStep == FlowInv /\ Supplied /\ [Work]_vars => Supplied'
<1> SUFFICES ASSUME FlowInv, Supplied, [Work]_vars PROVE Supplied'
  OBVIOUS
<1>0. /\ LastPacket' = LastPacket /\ inQ \in Seq(Packet) /\ TypeOK
  BY SessionFixed DEF FlowInv, OrderInv, IInv, TypeOK
<1>1. ASSUME UNCHANGED <<pc, next, inQ, inDone>> \/ pc' # "run" PROVE Supplied'
  BY <1>0, <1>1 DEF Supplied, Eof
<1>2. CASE StreamOn
  <2>1. UNCHANGED <<next, inQ>> /\ (Len(inQ) = InCount \/ Eof)
    BY <1>2 DEF StreamOn, queues
  <2>2. Len(inQ) = InCount => inQ # <<>>
    BY BufferAssumption
  <2>3. QED
    BY <1>0, <2>1, <2>2 DEF Supplied, Eof
<1>3. CASE InputWork
  <2>1. PICK b \in InBuf : KeepInput(b) \/ RefillInput(b)
    BY <1>3 DEF InputWork
  <2>2. CASE KeepInput(b)
    BY <1>0, <2>2 DEF KeepInput, Supplied, Eof
  <2>3. CASE RefillInput(b)
    <3>1. inQ' = Append(inQ, PreparedPacket(b)) /\ PreparedPacket(b) \in Packet
      BY <1>0, <2>3, PacketType DEF RefillInput, PrepareAndQueue
    <3>2. inQ' # <<>>
      BY <1>0, <3>1
    <3>3. QED
      BY <3>2 DEF Supplied
  <2>4. QED
    BY <2>1, <2>2, <2>3
<1>4. CASE DriverConsume
  BY <1>4 DEF DriverConsume, Supplied
<1>5. CASE Setup \/ QueueInput \/ GiveUp \/ StreamOff
  BY <1>1, <1>5 DEF Setup, QueueInput, GiveUp, StreamOff
<1>6. CASE Poll \/ OutputWork \/ HandleEvent
  BY <1>1, <1>6 DEF Poll, OutputWork, EndCapture, ResetCapture, RequeueCapture, HandleEvent,
     queues
<1>7. ASSUME NEW b \in outQ, NEW l \in BOOLEAN,
             DriverEmit(b, l) \/ DriverReturnEmpty(b) \/ DriverEnd(b) \/ DriverCorrupt(b)
      PROVE  Supplied'
  BY <1>1, <1>7 DEF DriverEmit, DriverReturnEmpty, DriverEnd, DriverCorrupt, client
<1>8. ASSUME NEW colour \in BOOLEAN, DriverSignalChange(colour) PROVE Supplied'
  BY <1>1, <1>8 DEF DriverSignalChange, client
<1>9. CASE DriverBreak \/ UNCHANGED vars
  BY <1>1, <1>9 DEF DriverBreak, vars, client, queues
<1>10. QED
  BY <1>2, <1>3, <1>4, <1>5, <1>6, <1>7, <1>8, <1>9
     DEF Work, ClientWork, DriverWork, DriverFault

LEMMA WithDriverStep == FlowInv /\ AllWithDriver /\ [Work]_vars => AllWithDriver'
<1> SUFFICES ASSUME FlowInv, AllWithDriver, [Work]_vars PROVE AllWithDriver'
  OBVIOUS
<1>0. outSize \in Nat /\ outPending \in Nat
  BY DEF FlowInv, OrderInv, IInv, TypeOK
<1>1. ASSUME UNCHANGED <<eos, outSize, outPending>>, pc' \in {"queue", "run"} => pc \in {"queue", "run"}
      PROVE  AllWithDriver'
  BY <1>1 DEF AllWithDriver
<1>2. ASSUME NEW n \in Nat \ {0}, outSize' = n, outPending' = n PROVE AllWithDriver'
  BY <1>2 DEF AllWithDriver
<1>3. CASE Setup
  BY <1>2, <1>3, BufferAssumption DEF Setup
<1>4. CASE OutputWork
  <2>1. ~eos /\ pc = "run"
    BY <1>4 DEF OutputWork, FlowInv, EndsComplete
  <2>2. ASSUME NEW m \in MinCapture, ResetCapture(m + ExtraCount) PROVE AllWithDriver'
    BY <1>2, <2>2, BufferAssumption DEF ResetCapture, PendingAfterReset
  <2>3. CASE EndCapture
    BY <2>3 DEF EndCapture, AllWithDriver
  <2>4. CASE RequeueCapture
    BY <1>0, <2>1, <2>4 DEF RequeueCapture, AllWithDriver
  <2>5. QED
    BY <1>4, <2>2, <2>3, <2>4 DEF OutputWork
<1>5. CASE InputWork
  BY <1>1, <1>5 DEF InputWork, KeepInput, RefillInput
<1>6. CASE QueueInput \/ StreamOn \/ Poll \/ GiveUp \/ HandleEvent \/ StreamOff
  BY <1>1, <1>6 DEF QueueInput, StreamOn, Poll, GiveUp, HandleEvent, StreamOff
<1>7. CASE DriverWork \/ DriverFault \/ UNCHANGED vars
  BY <1>1, <1>7 DEF DriverWork, DriverFault, DriverConsume, DriverEmit, DriverReturnEmpty,
     DriverEnd, DriverSignalChange, DriverBreak, DriverCorrupt, client, vars
<1>8. QED
  BY <1>3, <1>4, <1>5, <1>6, <1>7 DEF Work, ClientWork

LEMMA VisibleStep == FlowInv /\ EndVisible /\ [Work]_vars => EndVisible'
<1> SUFFICES ASSUME FlowInv, EndVisible, [Work]_vars PROVE EndVisible'
  OBVIOUS
<1>0. /\ outDone \in Seq(Capture) /\ (change => pipe # <<>>) /\ (lastSent => pipe = <<>>)
      /\ OrderInv /\ outQ \subseteq Nat /\ pipe \in Seq(1..NFrames)
  BY DEF FlowInv, OrderInv, IInv, TypeOK, ChangeAtHead, NewResolution, LastIsBehind
<1>1. ASSUME UNCHANGED <<lastSent, eos, outDone>>, pc \in {"done", "failed"} => pc' \in {"done", "failed"}
      PROVE  EndVisible'
  BY <1>1 DEF EndVisible
<1>2. ASSUME NEW c \in Capture, outDone' = Append(outDone, c), UNCHANGED <<pc, eos>>,
             lastSent' => lastSent \/ c.last
      PROVE  EndVisible'
  <2>1. /\ Len(outDone) \in Nat /\ Len(outDone') = Len(outDone) + 1
        /\ outDone'[Len(outDone) + 1] = c
        /\ \A i \in 1..Len(outDone) : outDone'[i] = outDone[i]
    BY <1>0, <1>2
  <2>2. Len(outDone) + 1 \in 1..Len(outDone') /\ \A i \in 1..Len(outDone) : i \in 1..Len(outDone')
    BY <2>1
  <2>3. QED
    BY <1>2, <2>1, <2>2 DEF EndVisible
<1>3. CASE OutputWork
  <2>1. ~eos /\ pc = "run"
    BY <1>3 DEF OutputWork, FlowInv, EndsComplete
  <2>2. CASE EndCapture
    BY <2>2 DEF EndCapture, EndVisible
  <2>3. ASSUME NEW m \in MinCapture, ResetCapture(m + ExtraCount) PROVE EndVisible'
    <3>1. Returned(Head(outDone)) /\ outDone # <<>> /\ lastSent' = lastSent
      BY <2>3 DEF ResetCapture, TakeCapture, ResetsStream, EmptyReturn, FramePresent, Done,
         Returned
    <3>2. 1 \in 1..Len(outDone) /\ Head(outDone) = outDone[1]
      BY <1>0, <3>1
    <3>3. change
      BY <1>0, <3>1, <3>2 DEF OrderInv, NoFrameBehind
    <3>4. QED
      BY <1>0, <3>1, <3>3 DEF EndVisible
  <2>4. CASE RequeueCapture
    <3>1. /\ outDone # <<>> /\ ~Head(outDone).last /\ outDone' = Tail(outDone)
          /\ UNCHANGED <<pc, lastSent>>
      BY <2>4 DEF RequeueCapture, TakeCapture, Done, driver
    <3>2. /\ Len(outDone') = Len(outDone) - 1 /\ Len(outDone) \in Nat /\ Head(outDone) = outDone[1]
          /\ \A i \in 1..Len(outDone') : outDone'[i] = outDone[i + 1]
      BY <1>0, <3>1, HeadTailProperties, LenProperties
    <3>3. ASSUME NEW i \in 1..Len(outDone), outDone[i].last
          PROVE  i - 1 \in 1..Len(outDone') /\ outDone'[i - 1] = outDone[i]
      BY <3>1, <3>2, <3>3
    <3>4. QED
      BY <2>1, <3>1, <3>3 DEF EndVisible
  <2>5. QED
    BY <1>3, <2>2, <2>3, <2>4 DEF OutputWork
<1>4. ASSUME NEW b \in outQ, NEW l \in BOOLEAN, DriverEmit(b, l) PROVE EndVisible'
  <2> DEFINE c == [buf |-> b, frame |-> Head(pipe), last |-> l, error |-> FALSE]
  <2>1. Head(pipe) \in 0..NFrames
    BY <1>0, <1>4, HeadTailProperties, StreamAssumption DEF DriverEmit, CanEmit
  <2>2. c \in Capture /\ c.last = l /\ outDone' = Append(outDone, c)
    BY <1>0, <1>4, <2>1 DEF Capture, DriverEmit, Complete
  <2> HIDE DEF c
  <2>3. UNCHANGED <<pc, eos>> /\ lastSent' = l
    BY <1>4 DEF DriverEmit, client
  <2>4. QED
    BY <1>2, <2>2, <2>3
<1>5. ASSUME NEW b \in outQ, NEW l \in BOOLEAN, NEW e \in BOOLEAN, Complete(b, 0, l, e),
             UNCHANGED <<pc, eos>>, lastSent' => lastSent \/ l
      PROVE  EndVisible'
  <2> DEFINE c == [buf |-> b, frame |-> 0, last |-> l, error |-> e]
  <2>1. c \in Capture /\ c.last = l /\ outDone' = Append(outDone, c)
    BY <1>0, <1>5, StreamAssumption DEF Capture, Complete
  <2> HIDE DEF c
  <2>2. QED
    BY <1>2, <1>5, <2>1
<1>6. ASSUME NEW b \in outQ, DriverReturnEmpty(b) \/ DriverEnd(b) \/ DriverCorrupt(b)
      PROVE  EndVisible'
  <2>1. /\ UNCHANGED <<pc, eos>>
        /\ \/ Complete(b, 0, FALSE, FALSE) /\ lastSent' = lastSent
           \/ Complete(b, 0, TRUE, FALSE)
           \/ Complete(b, 0, FALSE, TRUE) /\ lastSent' = lastSent
    BY <1>6 DEF DriverReturnEmpty, DriverEnd, DriverCorrupt, client, driver
  <2>2. TRUE \in BOOLEAN /\ FALSE \in BOOLEAN
    OBVIOUS
  <2>3. CASE Complete(b, 0, FALSE, FALSE) /\ lastSent' = lastSent
    BY <1>5, <2>1, <2>2, <2>3
  <2>4. CASE Complete(b, 0, TRUE, FALSE)
    BY <1>5, <2>1, <2>2, <2>4
  <2>5. CASE Complete(b, 0, FALSE, TRUE) /\ lastSent' = lastSent
    BY <1>5, <2>1, <2>2, <2>5
  <2>6. QED
    BY <2>1, <2>3, <2>4, <2>5
<1>7. CASE InputWork
  BY <1>1, <1>7 DEF InputWork, KeepInput, RefillInput
<1>8. CASE Setup \/ QueueInput \/ StreamOn \/ Poll \/ GiveUp \/ HandleEvent
  BY <1>1, <1>8 DEF Setup, QueueInput, StreamOn, Poll, GiveUp, HandleEvent, queues, driver
<1>9. CASE StreamOff
  BY <1>9 DEF StreamOff, EndVisible
<1>10. CASE DriverConsume \/ DriverBreak \/ UNCHANGED vars
  BY <1>1, <1>10 DEF DriverConsume, DriverBreak, vars, client, queues, driver
<1>11. ASSUME NEW colour \in BOOLEAN, DriverSignalChange(colour) PROVE EndVisible'
  BY <1>1, <1>11 DEF DriverSignalChange, client
<1>12. QED
  BY <1>3, <1>4, <1>6, <1>7, <1>8, <1>9, <1>10, <1>11
     DEF Work, ClientWork, DriverWork, DriverFault

LEMMA AnnouncedStep == FlowInv /\ ChangeAnnounced /\ [Work]_vars => ChangeAnnounced'
<1> DEFINE E == {"SOURCE_CHANGE", "COLOR_DESC", "EOS"}
<1> SUFFICES ASSUME FlowInv, ChangeAnnounced, [Work]_vars PROVE ChangeAnnounced'
  OBVIOUS
<1>0. events \in Seq(E)
  BY DEF FlowInv, OrderInv, IInv, TypeOK
<1>1. ASSUME UNCHANGED <<change, isSourceChange, events>> PROVE ChangeAnnounced'
  BY <1>1 DEF ChangeAnnounced
<1>2. CASE HandleEvent
  <2>1. /\ events # <<>> /\ events' = Tail(events) /\ change' = change
        /\ isSourceChange' = (isSourceChange \/ Head(events) = "SOURCE_CHANGE")
    BY <1>2 DEF HandleEvent, driver
  <2>2. /\ Len(events') = Len(events) - 1 /\ Len(events) \in Nat /\ Head(events) = events[1]
        /\ \A i \in 1..Len(events') : events'[i] = events[i + 1]
    BY <1>0, <2>1, HeadTailProperties, LenProperties
  <2>3. ASSUME NEW i \in 1..Len(events), i # 1
        PROVE  i - 1 \in 1..Len(events') /\ events'[i - 1] = events[i]
    BY <2>2, <2>3
  <2>4. QED
    BY <2>1, <2>2, <2>3 DEF ChangeAnnounced
<1>3. ASSUME NEW colour \in BOOLEAN, DriverSignalChange(colour) PROVE ChangeAnnounced'
  <2>1. PICK t \in Seq(E) : /\ events' = events \o t /\ Len(t) \in Nat \ {0}
                            /\ t[Len(t)] = "SOURCE_CHANGE"
    <3> DEFINE both == <<"COLOR_DESC", "SOURCE_CHANGE">>
               one == <<"SOURCE_CHANGE">>
    <3>1. both \in Seq(E) /\ Len(both) \in Nat \ {0} /\ both[Len(both)] = "SOURCE_CHANGE"
      OBVIOUS
    <3>2. one \in Seq(E) /\ Len(one) \in Nat \ {0} /\ one[Len(one)] = "SOURCE_CHANGE"
      OBVIOUS
    <3>3. events' = events \o both \/ events' = events \o one
      BY <1>3 DEF DriverSignalChange
    <3> HIDE DEF both, one, E
    <3>4. QED
      BY <3>1, <3>2, <3>3
  <2>2. /\ Len(events') = Len(events) + Len(t) /\ Len(events) \in Nat
        /\ events'[Len(events) + Len(t)] = t[Len(t)]
    BY <1>0, <2>1, ConcatProperties
  <2>3. Len(events) + Len(t) \in 1..Len(events')
    BY <2>1, <2>2
  <2>4. QED
    BY <2>1, <2>2, <2>3 DEF ChangeAnnounced
<1>4. ASSUME NEW b \in outQ, DriverEnd(b) PROVE ChangeAnnounced'
  <2>1. events' = Append(events, "EOS") /\ UNCHANGED <<change, isSourceChange>>
    BY <1>4 DEF DriverEnd, client
  <2>2. \A i \in 1..Len(events) : i \in 1..Len(events') /\ events'[i] = events[i]
    BY <1>0, <2>1
  <2>3. QED
    BY <2>1, <2>2 DEF ChangeAnnounced
<1>5. CASE OutputWork
  <2>1. ASSUME NEW n, ResetCapture(n) PROVE ChangeAnnounced'
    BY <2>1 DEF ResetCapture, ChangeAnnounced
  <2>2. CASE EndCapture \/ RequeueCapture
    BY <1>1, <2>2 DEF EndCapture, RequeueCapture, driver
  <2>3. QED
    BY <1>5, <2>1, <2>2 DEF OutputWork
<1>6. CASE InputWork
  BY <1>1, <1>6 DEF InputWork, KeepInput, RefillInput
<1>7. CASE Setup \/ QueueInput \/ StreamOn \/ Poll \/ GiveUp \/ StreamOff
  BY <1>1, <1>7 DEF Setup, QueueInput, StreamOn, Poll, GiveUp, StreamOff, queues, driver
<1>8. CASE DriverConsume \/ DriverBreak \/ UNCHANGED vars
  BY <1>1, <1>8 DEF DriverConsume, DriverBreak, vars, client, queues, driver
<1>9. ASSUME NEW b \in outQ, NEW l \in BOOLEAN,
             DriverEmit(b, l) \/ DriverReturnEmpty(b) \/ DriverCorrupt(b)
      PROVE  ChangeAnnounced'
  BY <1>1, <1>9 DEF DriverEmit, DriverReturnEmpty, DriverCorrupt, client, driver
<1>10. QED
  BY <1>2, <1>3, <1>4, <1>5, <1>6, <1>7, <1>8, <1>9
     DEF Work, ClientWork, DriverWork, DriverFault

LEMMA HeadStep == FlowInv /\ ChangeAnnounced /\ HeadAnnounced /\ [Work]_vars => HeadAnnounced'
<1> SUFFICES ASSUME FlowInv, ChangeAnnounced, HeadAnnounced, [Work]_vars, "IN" \in revents'
             PROVE  /\ outDone' # <<>>
                    /\ Returned(Head(outDone')) /\ ~isSourceChange' => "PRI" \in revents'
  BY DEF HeadAnnounced
<1>0. /\ outDone \in Seq(Capture) /\ NoFrameBehind
      /\ events \in Seq({"SOURCE_CHANGE", "COLOR_DESC", "EOS"})
  BY DEF FlowInv, OrderInv, IInv, TypeOK
<1> DEFINE Reported == /\ outDone' # <<>>
                       /\ Returned(Head(outDone')) /\ ~isSourceChange' => "PRI" \in revents'
<1> SUFFICES Reported
  OBVIOUS
<1> HIDE DEF Reported
<1>1. ASSUME "IN" \in revents, "PRI" \in revents => "PRI" \in revents', isSourceChange' = isSourceChange,
             outDone' = outDone \/ \E c : outDone' = Append(outDone, c)
      PROVE  Reported
  <2>1. outDone # <<>>
    BY <1>1 DEF HeadAnnounced
  <2>2. outDone' # <<>> /\ Head(outDone') = Head(outDone)
    BY <1>0, <1>1, <2>1
  <2>3. QED
    BY <1>1, <2>2 DEF HeadAnnounced, Reported
<1>2. CASE Poll
  <2>1. revents' = Ready /\ UNCHANGED <<outDone, isSourceChange>>
    BY <1>2 DEF Poll, queues
  <2>2. outDone # <<>> /\ (events # <<>> => "PRI" \in Ready)
    BY <2>1 DEF Ready
  <2>3. Returned(Head(outDone)) => change
    <3>1. 1 \in 1..Len(outDone) /\ Head(outDone) = outDone[1]
      BY <1>0, <2>2
    <3>2. QED
      BY <1>0, <3>1 DEF NoFrameBehind
  <2>4. change /\ ~isSourceChange => events # <<>>
    BY <1>0 DEF ChangeAnnounced
  <2>5. QED
    BY <2>1, <2>2, <2>3, <2>4 DEF Reported
<1>3. CASE InputWork
  <2>1. revents' = revents \ {"OUT"} /\ UNCHANGED <<outDone, isSourceChange>>
    BY <1>3 DEF InputWork, KeepInput, RefillInput
  <2>2. QED
    BY <1>1, <2>1
<1>4. CASE OutputWork \/ HandleEvent \/ StreamOff
  BY <1>4 DEF OutputWork, HandleEvent, StreamOff
<1>5. CASE Setup \/ QueueInput \/ StreamOn \/ GiveUp
  BY <1>1, <1>5 DEF Setup, QueueInput, StreamOn, GiveUp, queues
<1>6. CASE DriverWork \/ DriverFault
  <2>1. UNCHANGED <<revents, isSourceChange>>
    BY <1>6 DEF DriverWork, DriverFault, DriverConsume, DriverEmit, DriverReturnEmpty,
       DriverEnd, DriverSignalChange, DriverBreak, DriverCorrupt, client
  <2>2. outDone' = outDone \/ \E c : outDone' = Append(outDone, c)
    BY <1>6 DEF DriverWork, DriverFault, DriverConsume, DriverEmit, DriverReturnEmpty,
       DriverEnd, DriverSignalChange, DriverBreak, DriverCorrupt, Complete, queues
  <2>3. QED
    BY <1>1, <2>1, <2>2
<1>7. CASE UNCHANGED vars
  BY <1>1, <1>7 DEF vars, client, queues
<1>8. QED
  BY <1>2, <1>3, <1>4, <1>5, <1>6, <1>7 DEF Work, ClientWork

LEMMA WaitInvariance == Spec => [](FlowInv /\ WaitInv)
<1>1. Init => WaitInv
  BY DEF Init, WaitInv, Supplied, AllWithDriver, EndVisible, ChangeAnnounced, HeadAnnounced
<1>2. FlowInv /\ WaitInv /\ [Work]_vars => WaitInv'
  BY SuppliedStep, WithDriverStep, VisibleStep, AnnouncedStep, HeadStep DEF WaitInv
<1>3. QED
  BY <1>1, <1>2, FlowInit, FlowStep, PollModeWorks, PTL DEF Spec

\* In a session that runs the driver always has something to do or to be handed over.
LEMMA NeverIdle ==
    ASSUME FlowInv, WaitInv, Polling, Ready = {}
    PROVE  ~DriverIdle
<1> SUFFICES ASSUME DriverIdle PROVE FALSE
  OBVIOUS
<1>1. /\ IInv /\ TypeOK /\ pc = "run" /\ ~eos /\ inQ \in Seq(Packet) /\ pipe \in Seq(1..NFrames)
      /\ outDone \in Seq(Capture)
  BY DEF FlowInv, OrderInv, IInv, TypeOK, Polling
<1>2. outDone = <<>> /\ inDone = {}
  <2>1. inDone # {} => inPending > 0
    BY <1>1, PendingPositive DEF IInv
  <2>2. outDone # <<>> => outPending > 0
    BY <1>1, PendingPositive DEF IInv
  <2>3. "IN" \notin Ready /\ "OUT" \notin Ready
    OBVIOUS
  <2>4. QED
    BY <2>1, <2>2, <2>3 DEF Ready
<1>3. outQ # {}
  <2>1. outPending = Cardinality(outQ) + Len(outDone) /\ outPending = outSize /\ outSize > 0
    BY <1>1 DEF IInv, OutputOwned, WaitInv, AllWithDriver
  <2>2. Len(outDone) = 0 /\ IsFiniteSet(outQ) /\ Cardinality(outQ) \in Nat
    BY <1>1, <1>2, PendingPositive DEF IInv
  <2>3. Cardinality(outQ) > 0
    BY <2>1, <2>2
  <2>4. QED
    BY <2>2, <2>3, FS_EmptySet
<1>4. ~NewResolution /\ ~change
  BY <1>3 DEF DriverIdle, CanSignal, CanReturn
<1>5. pipe = <<>>
  BY <1>3, <1>4 DEF DriverIdle, CanEmit
<1>6. inQ = <<>>
  <2>1. Len(pipe) < Depth
    BY <1>5, BufferAssumption
  <2>2. QED
    BY <2>1 DEF DriverIdle, CanConsume
<1>7. lastSeen
  <2>1. Eof
    BY <1>1, <1>2, <1>6 DEF WaitInv, Supplied
  <2>2. Len(inQ) = 0
    BY <1>6
  <2>3. QED
    BY <1>1, <2>1, <2>2 DEF IInv, EndIsQueued
<1>8. ~lastSent
  <2>1. Len(outDone) = 0
    BY <1>2
  <2>2. QED
    BY <1>1, <2>1 DEF WaitInv, EndVisible
<1>9. QED
  BY <1>3, <1>5, <1>7, <1>8 DEF DriverIdle, CanEnd, Drained

\* The poll of Codec::runPoll runs into its time limit only behind a driver that broke:
\* the session and a driver that works never wait for each other.
THEOREM NeverStalls == Spec => []NoStall
<1>1. Init => NoStall
  BY DEF Init, NoStall
<1>2. FlowInv /\ WaitInv /\ NoStall /\ [Next]_vars => NoStall'
  <2> SUFFICES ASSUME FlowInv, WaitInv, NoStall, [Next]_vars, pc' = "failed" PROVE broken'
    BY DEF NoStall
  <2>1. CASE PollError
    BY <2>1 DEF PollError, driver
  <2>2. CASE PollTimeout
    BY <2>2, NeverIdle DEF PollTimeout, driver
  <2>3. CASE Setup \/ QueueInput \/ StreamOn \/ Poll \/ HandleEvent \/ StreamOff
    BY <2>3 DEF Setup, QueueInput, StreamOn, Poll, Polling, HandleEvent, EventTurn, StreamOff
  <2>4. CASE HandleInput \/ HandleOutput
    BY <2>4 DEF HandleInput, InputTurn, KeepInput, RefillInput, HandleOutput, OutputTurn,
       EndCapture, ResetCapture, RequeueCapture
  <2>5. CASE DriverWork \/ DriverFault
    BY <2>5 DEF DriverWork, DriverFault, DriverConsume, DriverEmit, DriverReturnEmpty,
       DriverEnd, DriverSignalChange, DriverBreak, DriverCorrupt, Streaming, client
  <2>6. CASE UNCHANGED vars
    BY <2>6 DEF vars, client, driver, NoStall
  <2>7. QED
    BY <2>1, <2>2, <2>3, <2>4, <2>5, <2>6 DEF Next, Client, Terminated
<1>3. QED
  BY <1>1, <1>2, WaitInvariance, PTL DEF Spec

\* A buffer returned empty for a change is queued again only in a turn that is going to
\* see the event: the change is answered late by Codec::runPoll, and never lost.
THEOREM UnansweredCorrect == Spec => UnansweredOnlyBeforeEvent
<1> DEFINE Requeued == change /\ OutputTurn /\ "IN" \notin revents'
                       /\ isSourceChange' = isSourceChange /\ EmptyReturn
<1>1. ASSUME FlowInv, WaitInv, [Next]_vars, Requeued PROVE "PRI" \in revents
  <2>1. "IN" \in revents /\ pc = "run" /\ "OUT" \notin revents /\ "IN" \notin revents'
    BY <1>1 DEF OutputTurn
  <2>2. HandleOutput
    <3>1. CASE Setup \/ QueueInput \/ StreamOn \/ Poll \/ PollError \/ PollTimeout \/ HandleEvent
               \/ StreamOff
      BY <2>1, <3>1 DEF Setup, QueueInput, StreamOn, Poll, PollError, PollTimeout, Polling,
         HandleEvent, EventTurn, StreamOff
    <3>2. CASE HandleInput
      BY <2>1, <3>2 DEF HandleInput
    <3>3. CASE DriverWork \/ DriverFault
      BY <2>1, <3>3 DEF DriverWork, DriverFault, DriverConsume, DriverEmit, DriverReturnEmpty,
         DriverEnd, DriverSignalChange, DriverBreak, DriverCorrupt, client
    <3>4. CASE UNCHANGED vars
      BY <2>1, <3>4 DEF vars, client
    <3>5. QED
      BY <1>1, <3>1, <3>2, <3>3, <3>4 DEF Next, Client, Terminated
  <2>3. ~isSourceChange
    BY <1>1, <2>2 DEF HandleOutput, EndCapture, ResetCapture, RequeueCapture, ResetsStream,
       EmptyReturn
  <2>4. Returned(Head(outDone))
    BY <1>1 DEF EmptyReturn, FramePresent, Done, Returned
  <2>5. QED
    BY <1>1, <2>1, <2>3, <2>4 DEF WaitInv, HeadAnnounced
<1>2. FlowInv /\ WaitInv /\ [Next]_vars => [Requeued => "PRI" \in revents]_vars
  BY <1>1
<1>3. QED
  BY <1>2, WaitInvariance, PTL DEF Spec, UnansweredOnlyBeforeEvent

-----------------------------------------------------------------------------
(* Blocking mode.  A thread takes the steps that poll mode takes in a turn *)
(* of its own, and nothing is polled, so that what Work preserves also     *)
(* holds when the threads and the driver interleave in any other order.    *)

ThreadInv == revents = {} /\ (inputEos => Eof)

LEMMA ThreadsWork == ThreadInv /\ [ThreadNext]_threadVars => [Work]_vars
<1> SUFFICES ASSUME ThreadInv, [ThreadNext]_threadVars PROVE [Work]_vars
  OBVIOUS
<1>1. CASE Start
  BY <1>1 DEF Start, Work, ClientWork
<1>2. CASE InputThread
  <2>1. InputWork
    BY <1>2 DEF InputThread, InputWork, ThreadInv
  <2>2. QED
    BY <1>2, <2>1 DEF InputThread, Work, ClientWork
<1>3. CASE OutputThread
  <2>1. OutputWork
    BY <1>3 DEF OutputThread, OutputWork, ThreadInv
  <2>2. QED
    BY <1>3, <2>1 DEF OutputThread, Work, ClientWork
<1>4. CASE Abort
  BY <1>4 DEF Abort, GiveUp, Work, ClientWork
<1>5. CASE Join
  BY <1>5 DEF Join, Work, ClientWork
<1>6. CASE (DriverWork \/ DriverFault \/ Terminated) /\ UNCHANGED inputEos
  BY <1>6 DEF Terminated, Work
<1>7. CASE UNCHANGED threadVars
  BY <1>7 DEF threadVars
<1>8. QED
  BY <1>1, <1>2, <1>3, <1>4, <1>5, <1>6, <1>7 DEF ThreadNext

\* The end of the file stays the end of the file.
LEMMA EofStays == TypeOK /\ [Work]_vars /\ Eof => Eof'
<1> SUFFICES ASSUME TypeOK, [Work]_vars, Eof PROVE Eof'
  OBVIOUS
<1>1. LastPacket' = LastPacket /\ LastPacket \in Nat /\ next \in Nat
  BY SessionFixed, SessionValues
<1>2. next' = next
  <2>1. CASE ClientWork
    BY <2>1 DEF ClientWork, Setup, QueueInput, StreamOn, Poll, GiveUp, InputWork, KeepInput,
       RefillInput, OutputWork, EndCapture, ResetCapture, RequeueCapture, HandleEvent, StreamOff
  <2>2. CASE DriverWork \/ DriverFault \/ UNCHANGED vars
    BY <2>2 DEF DriverWork, DriverFault, DriverConsume, DriverEmit, DriverReturnEmpty,
       DriverEnd, DriverSignalChange, DriverBreak, DriverCorrupt, client, vars
  <2>3. QED
    BY <2>1, <2>2 DEF Work
<1>3. QED
  BY <1>1, <1>2 DEF Eof

LEMMA ThreadStep == FlowInv /\ ThreadInv /\ [ThreadNext]_threadVars => ThreadInv'
<1> SUFFICES ASSUME FlowInv, ThreadInv, [ThreadNext]_threadVars PROVE ThreadInv'
  OBVIOUS
<1>1. Eof => Eof'
  BY ThreadsWork, EofStays DEF FlowInv, OrderInv, IInv
<1>2. revents' = revents
  BY DEF ThreadNext, Start, Setup, QueueInput, StreamOn, InputThread, OutputThread, Abort, Join,
     StreamOff, DriverWork, DriverFault, DriverConsume, DriverEmit, DriverReturnEmpty, DriverEnd,
     DriverSignalChange, DriverBreak, DriverCorrupt, Terminated, threadVars, vars, client
<1>3. inputEos' => inputEos \/ Eof
  BY DEF ThreadNext, Start, InputThread, KeepInput, OutputThread, Abort, Join, threadVars
<1>4. QED
  BY <1>1, <1>2, <1>3 DEF ThreadInv

LEMMA ThreadInvariance == ThreadInit /\ [][ThreadNext]_threadVars => [](FlowInv /\ ThreadInv)
<1>1. ThreadInit => FlowInv /\ ThreadInv
  BY FlowInit DEF ThreadInit, ThreadInv, Init
<1>2. FlowInv /\ ThreadInv /\ [ThreadNext]_threadVars => FlowInv' /\ ThreadInv'
  BY ThreadsWork, FlowStep, ThreadStep
<1>3. QED
  BY <1>1, <1>2, PTL

\* The thread of the input port ends (Codec::runThreadInput) only with the LAST packet
\* queued or consumed, whatever the other thread and the driver do meanwhile.
THEOREM InputExitCorrect == ThreadSpec => []InputExitComplete
<1>1. FlowInv /\ ThreadInv => InputExitComplete
  BY DEF FlowInv, OrderInv, IInv, EndIsQueued, ThreadInv, InputExitComplete
<1>2. QED
  BY <1>1, ThreadInvariance, PTL DEF ThreadSpec

\* The threads keep what poll mode relies on: exact counters of queued buffers, no buffer
\* on two queues, and the order of the stop command, the LAST packet and the frames.
THEOREM ThreadsCorrect ==
    ThreadSpec => [](PendingExact /\ BufferOwnership /\ StopAfterLast /\ NothingAfterLast)
<1>1. FlowInv => PendingExact /\ BufferOwnership /\ StopAfterLast /\ NothingAfterLast
  BY DEF FlowInv, OrderInv, IInv, InputOwned, OutputOwned, EndIsQueued, InputOrder,
     PendingExact, BufferOwnership
<1>2. QED
  BY <1>1, ThreadInvariance, PTL DEF ThreadSpec

\* Codec::runThreads delivers the same stream as Codec::runPoll: the frames in order, none
\* lost or repeated, and success only after the last one.
THEOREM ThreadsSafelyImplementStream == ThreadSpec => Stream!Spec
BY StreamInit, StreamStep, ThreadsWork, ThreadInvariance, PTL
   DEF ThreadSpec, ThreadInit, Stream!Spec, Status
=============================================================================
