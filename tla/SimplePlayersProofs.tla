------------------------ MODULE SimplePlayersProofs ------------------------
(***************************************************************************)
(* The two small players, for any file, any numbers of buffers and any     *)
(* resolution changes: the numbers of queued buffers that decide what they *)
(* poll for are exact (IInv), a session that ends well has handed on every *)
(* frame, and none runs into its time limit but where a file has no end it *)
(* can notice (FlowInv).                                                   *)
(*                                                                         *)
(* A number goes wrong by a buffer that is handled without being there:    *)
(* the invariant has that what poll reported is still there when it is     *)
(* handled (Reported), because only the program itself takes buffers back. *)
(***************************************************************************)
EXTENDS SimplePlayers, FiniteSetTheorems, FunctionTheorems, SequenceTheorems,
        WellFoundedInduction, TLAPS

Reported ==
    /\ "OUT" \in revents => inDone > 0
    /\ "IN" \in revents => outDone # <<>>

NothingYet == pc = "setup" => inDone = 0 /\ outDone = <<>> /\ revents = {} /\ next = 1 /\ ~lastSent

\* A change is announced for the frame at the head of the pipe, which stays there.
ChangeWaits == change => NewResolution

IInv == TypeOK /\ PendingExact /\ Reported /\ NothingYet /\ ChangeWaits

-----------------------------------------------------------------------------

LEMMA HeadIsMember == ASSUME NEW S, NEW s \in Seq(S), s # <<>> PROVE Head(s) \in S
  OBVIOUS

LEMMA CountsAreNat == Counts \subseteq Nat \ {0} /\ ResetCounts \subseteq Nat \ {0}
  BY PlayerAssumption DEF Counts, ResetCounts

LEMMA InitIInv == Init => IInv
  <1> SUFFICES ASSUME Init PROVE IInv
    OBVIOUS
  <1>1. TypeOK
    <2>1. /\ prog \in Programs /\ exact \in BOOLEAN /\ pc = "setup" /\ revents = {}
          /\ lastSeen \in BOOLEAN /\ lastSent \in BOOLEAN /\ change \in BOOLEAN
          /\ broken \in BOOLEAN
      BY DEF Init
    <2>2. /\ next = 1 /\ inPending = 0 /\ outPending = 0 /\ inDone = 0 /\ outQ = 0
          /\ resolved = 0 /\ errors = 0
          /\ written = <<>> /\ pipe = <<>> /\ inQ = <<>> /\ outDone = <<>>
      BY DEF Init
    <2>3. QED
      BY <2>1, <2>2, PlayerAssumption DEF TypeOK
  <1>2. QED
    BY <1>1 DEF Init, IInv, PendingExact, Reported, NothingYet, ChangeWaits

LEMMA SetupKeeps == IInv /\ Setup => IInv'
  <1> SUFFICES ASSUME IInv, Setup PROVE IInv'
    OBVIOUS
  <1>1. PICK count \in Counts :
            /\ inQ' = [i \in 1..AtMost(count, NReads) |-> Filled(i)]
            /\ next' = AtMost(count, NReads) + 1 /\ inPending' = AtMost(count, NReads)
    BY DEF Setup
  <1>2. PICK capture \in Counts : outQ' = capture /\ outPending' = capture
    BY DEF Setup
  <1>3. /\ pc = "setup" /\ pc' = "run"
        /\ UNCHANGED <<config, revents, written, inDone, outDone, driver>>
    BY DEF Setup
  <1> DEFINE n == AtMost(count, NReads)
  <1>4. n \in 1..NReads /\ capture \in Nat
    BY CountsAreNat, PlayerAssumption DEF AtMost
  <1>5. \A i \in 1..NReads : Filled(i) \in Packet
    BY PlayerAssumption DEF Filled, Packet, IInv, TypeOK
  <1> HIDE DEF n
  <1>6. inQ' \in Seq(Packet) /\ Len(inQ') = n
    <2>1. n \in Nat /\ \A i \in 1..n : Filled(i) \in Packet
      BY <1>4, <1>5, PlayerAssumption
    <2>2. inQ' = [i \in 1..n |-> Filled(i)]
      BY <1>1 DEF n
    <2>3. QED
      BY <2>1, <2>2
  <1>7. TypeOK'
    <2>1. /\ next' \in 1..(NReads + 1) /\ inPending' \in Nat /\ outQ' \in Nat
          /\ outPending' \in Nat /\ inQ' \in Seq(Packet) /\ pc' = "run"
      <3>1. next' = n + 1 /\ inPending' = n
        BY <1>1 DEF n
      <3>2. QED
        BY <1>2, <1>3, <1>4, <1>6, <3>1, PlayerAssumption
    <2>2. UNCHANGED <<prog, exact, revents, written, inDone, outDone, pipe, lastSeen,
                      lastSent, change, resolved, errors, broken>>
      BY <1>3 DEF config, driver
    <2>3. QED
      BY <2>1, <2>2 DEF IInv, TypeOK
  <1>8. PendingExact'
    BY <1>1, <1>2, <1>3, <1>4, <1>6 DEF IInv, NothingYet, PendingExact, TypeOK, n
  <1>9. QED
    BY <1>3, <1>7, <1>8 DEF IInv, Reported, NothingYet, ChangeWaits, NewResolution, driver

LEMMA StopKeeps == IInv /\ (SetupFails \/ PollError \/ PollTimeout) => IInv'
  <1> SUFFICES ASSUME IInv, SetupFails \/ PollError \/ PollTimeout PROVE IInv'
    OBVIOUS
  <1>1. /\ pc' = "failed" /\ broken' \in BOOLEAN
        /\ UNCHANGED <<config, revents, next, inPending, outPending, written, inQ, inDone,
                   outQ, outDone, pipe, lastSeen, lastSent, change, resolved, errors>>
    <2>1. broken \in BOOLEAN
      BY DEF IInv, TypeOK
    <2>2. CASE SetupFails
      BY <2>2 DEF SetupFails
    <2>3. CASE PollError \/ PollTimeout
      BY <2>1, <2>3 DEF PollError, PollTimeout, driver
    <2>4. QED
      BY <2>2, <2>3
  <1>2. TypeOK'
    BY <1>1 DEF IInv, TypeOK, config
  <1>3. QED
    BY <1>1, <1>2 DEF IInv, PendingExact, Reported, NothingYet, ChangeWaits, NewResolution

LEMMA PollKeeps == IInv /\ Poll => IInv'
  <1> SUFFICES ASSUME IInv, Poll PROVE IInv'
    OBVIOUS
  <1>1. /\ pc = "run" /\ revents' = Ready
        /\ UNCHANGED <<config, pc, next, inPending, outPending, written,
                   inQ, inDone, outQ, outDone, driver>>
    BY DEF Poll, Polling
  <1>2. revents' \subseteq {"OUT", "IN"} /\ Reported'
    BY <1>1 DEF Ready, Reported
  <1>3. TypeOK'
    BY <1>1, <1>2 DEF IInv, TypeOK, config, driver
  <1>4. QED
    BY <1>1, <1>2, <1>3 DEF IInv, PendingExact, NothingYet, ChangeWaits, NewResolution, driver

LEMMA InputKeeps == IInv /\ HandleInput => IInv'
  <1> SUFFICES ASSUME IInv, HandleInput PROVE IInv'
    OBVIOUS
  <1>1. /\ pc = "run" /\ revents' = revents \ {"OUT"} /\ inDone' = inDone - 1
        /\ inDone \in Nat /\ inDone > 0 /\ inPending \in Nat /\ inQ \in Seq(Packet)
        /\ next \in 1..(NReads + 1)
        /\ UNCHANGED <<config, pc, outPending, written, outQ, outDone, driver>>
    BY DEF HandleInput, IInv, Reported, TypeOK
  <1>2. /\ inQ' \in Seq(Packet) /\ next' \in 1..(NReads + 1)
        /\ inPending' \in Nat /\ inPending' = Len(inQ') + inDone'
    <2>1. inPending = Len(inQ) + inDone
      BY DEF IInv, PendingExact
    <2>2. CASE KeepInput
      BY <1>1, <2>1, <2>2 DEF KeepInput
    <2>3. CASE RefillInput
      <3>1. next \in 1..NReads /\ Filled(next) \in Packet
        BY <1>1, <2>3, PlayerAssumption DEF RefillInput, AtEnd, Filled, Packet, IInv, TypeOK
      <3>2. /\ inQ' = Append(inQ, Filled(next)) /\ next' = next + 1
            /\ inPending' = (inPending - 1) + 1
        BY <2>3 DEF RefillInput
      <3>3. inQ' \in Seq(Packet) /\ Len(inQ') = Len(inQ) + 1
        BY <1>1, <3>1, <3>2
      <3>4. QED
        BY <1>1, <2>1, <3>1, <3>2, <3>3, PlayerAssumption
    <2>4. QED
      BY <2>2, <2>3 DEF HandleInput
  <1>3. TypeOK'
    BY <1>1, <1>2 DEF IInv, TypeOK, config, driver
  <1>4. QED
    BY <1>1, <1>2, <1>3
       DEF IInv, PendingExact, Reported, NothingYet, ChangeWaits, NewResolution, driver

LEMMA OutputKeeps == IInv /\ HandleOutput => IInv'
  <1> SUFFICES ASSUME IInv, HandleOutput PROVE IInv'
    OBVIOUS
  <1>1. /\ pc = "run" /\ "OUT" \notin revents /\ revents' = revents \ {"IN"}
        /\ revents \subseteq {"OUT", "IN"}
        /\ outDone \in Seq(Capture) /\ outDone # <<>> /\ outQ \in Nat /\ outPending \in Nat
        /\ outPending = outQ + Len(outDone)
        /\ UNCHANGED <<config, next, inPending, inQ, inDone>>
    BY DEF HandleOutput, IInv, Reported, PendingExact, TypeOK
  <1>2. revents' = {}
    BY <1>1
  <1>3. /\ Done \in Capture /\ Tail(outDone) \in Seq(Capture)
        /\ Len(Tail(outDone)) = Len(outDone) - 1 /\ Len(outDone) \in Nat \ {0}
    BY <1>1 DEF Done
  <1>4. CASE EndCapture
    <2>1. /\ pc' = "done" /\ outDone' = Tail(outDone) /\ outPending' = outPending - 1
          /\ UNCHANGED <<written, outQ, driver>>
      BY <1>4 DEF EndCapture
    <2>2. TypeOK'
      BY <1>1, <1>2, <1>3, <2>1 DEF IInv, TypeOK, config, driver
    <2>3. QED
      BY <1>1, <1>2, <1>3, <2>1, <2>2
         DEF IInv, PendingExact, Reported, NothingYet, ChangeWaits, NewResolution, driver
  <1>5. CASE RequeueCapture
    <2>1. /\ written' = IF Done.frame # 0 THEN Append(written, Done.frame) ELSE written
          /\ outDone' = Tail(outDone) /\ outQ' = outQ + 1
          /\ outPending' = (outPending - 1) + 1
          /\ UNCHANGED <<pc, driver>>
      BY <1>5 DEF RequeueCapture
    <2>2. written' \in Seq(1..NReads)
      <3>1. written \in Seq(1..NReads) /\ Done.frame \in 0..NReads /\ NReads \in Nat
        BY <1>3, PlayerAssumption DEF IInv, TypeOK, Capture
      <3>2. Done.frame # 0 => Done.frame \in 1..NReads
        BY <3>1
      <3>3. ASSUME NEW f \in 1..NReads PROVE Append(written, f) \in Seq(1..NReads)
        BY <3>1
      <3>4. QED
        BY <2>1, <3>1, <3>2, <3>3
    <2>3. TypeOK'
      BY <1>1, <1>2, <1>3, <2>1, <2>2 DEF IInv, TypeOK, config, driver
    <2>4. QED
      BY <1>1, <1>2, <1>3, <2>1, <2>3
         DEF IInv, PendingExact, Reported, NothingYet, ChangeWaits, NewResolution, driver
  <1>6. CASE ResetFails
    <2>1. /\ pc' = "failed" /\ broken' = TRUE
          /\ outQ' = 0 /\ outDone' = <<>> /\ outPending' = 0
          /\ UNCHANGED <<written, pipe, lastSeen, lastSent, change, resolved, errors>>
      BY <1>6 DEF ResetFails
    <2>2. TypeOK'
      BY <1>1, <1>2, <2>1 DEF IInv, TypeOK, config
    <2>3. QED
      BY <1>1, <1>2, <2>1, <2>2
         DEF IInv, PendingExact, Reported, NothingYet, ChangeWaits, NewResolution
  <1>7. ASSUME NEW n \in ResetCounts, ResetCapture(n) PROVE IInv'
    <2>1. /\ outQ' = n /\ outDone' = <<>> /\ outPending' = n /\ n \in Nat
          /\ change' = FALSE /\ resolved' = IF change THEN Head(pipe) ELSE resolved
          /\ UNCHANGED <<pc, written, pipe, lastSeen, lastSent, errors, broken>>
      BY <1>7, CountsAreNat DEF ResetCapture, PendingAfterReset
    <2>2. resolved' \in 0..NReads
      <3>1. pipe \in Seq(1..NReads)
        BY DEF IInv, TypeOK
      <3>2. ASSUME change PROVE Head(pipe) \in 1..NReads
        <4>1. pipe # <<>>
          BY <3>2 DEF IInv, ChangeWaits, NewResolution
        <4>2. QED
          BY <3>1, <4>1, HeadIsMember
      <3>3. QED
        BY <2>1, <3>2, PlayerAssumption DEF IInv, TypeOK
    <2>3. TypeOK'
      <3>1. change' \in BOOLEAN
        BY <2>1
      <3>2. outDone' \in Seq(Capture)
        BY <2>1
      <3>3. QED
        BY <1>1, <1>2, <2>1, <2>2, <3>1, <3>2 DEF IInv, TypeOK, config
    <2>4. QED
      BY <1>1, <1>2, <2>1, <2>3 DEF IInv, PendingExact, Reported, NothingYet, ChangeWaits
  <1>8. QED
    BY <1>4, <1>5, <1>6, <1>7 DEF HandleOutput

-----------------------------------------------------------------------------
(* The driver moves a buffer from what is queued to what is done. *)

LEMMA ConsumeKeeps == IInv /\ DriverConsume => IInv'
  <1> SUFFICES ASSUME IInv, DriverConsume PROVE IInv'
    OBVIOUS
  <1>1. /\ inQ # <<>> /\ inQ' = Tail(inQ) /\ inDone' = inDone + 1
        /\ pipe' = Append(pipe, Head(inQ).read) /\ lastSeen' = Head(inQ).last
        /\ UNCHANGED <<config, client, outQ, outDone, lastSent, change, resolved, errors, broken>>
    BY DEF DriverConsume, CanConsume
  <1>2. inQ \in Seq(Packet) /\ inDone \in Nat /\ pipe \in Seq(1..NReads)
    BY DEF IInv, TypeOK
  <1>3. Head(inQ) \in Packet /\ Tail(inQ) \in Seq(Packet) /\ Len(Tail(inQ)) = Len(inQ) - 1
    BY <1>1, <1>2
  <1>4. Head(inQ).read \in 1..NReads /\ Head(inQ).last \in BOOLEAN
    BY <1>3 DEF Packet
  <1>5. pipe' \in Seq(1..NReads) /\ (pipe # <<>> => pipe' # <<>> /\ Head(pipe') = Head(pipe))
    BY <1>1, <1>2, <1>4
  <1>6. TypeOK'
    BY <1>1, <1>2, <1>3, <1>4, <1>5 DEF IInv, TypeOK, config, client
  <1>7. PendingExact' /\ Reported' /\ NothingYet'
    BY <1>1, <1>2, <1>3 DEF IInv, PendingExact, Reported, NothingYet, DriverConsume, Streaming, client
  <1>8. ChangeWaits'
    BY <1>1, <1>5 DEF IInv, ChangeWaits, NewResolution
  <1>9. QED
    BY <1>6, <1>7, <1>8 DEF IInv

LEMMA CompleteKeeps ==
  ASSUME IInv, NEW f \in 0..NReads, NEW l \in BOOLEAN, NEW e \in BOOLEAN,
         outQ > 0, pc = "run", Complete(f, l, e),
         pipe' \in Seq(1..NReads), lastSent' \in BOOLEAN, change' = change,
         errors' \in 0..MaxErrors, pipe' = pipe \/ ~NewResolution
  PROVE  IInv'
  <1>1. /\ outQ' = outQ - 1
        /\ outDone' = Append(outDone, [frame |-> f, last |-> l, error |-> e])
        /\ UNCHANGED <<config, client, inQ, inDone, lastSeen, resolved, broken>>
    BY DEF Complete
  <1>2. [frame |-> f, last |-> l, error |-> e] \in Capture
    BY DEF Capture
  <1>3. outDone \in Seq(Capture) /\ outQ \in Nat
    BY DEF IInv, TypeOK
  <1>4. /\ outDone' \in Seq(Capture) /\ Len(outDone') = Len(outDone) + 1 /\ outDone' # <<>>
        /\ outQ' \in Nat
    BY <1>1, <1>2, <1>3
  <1>5. TypeOK'
    BY <1>1, <1>4 DEF IInv, TypeOK, config, client
  <1>6. PendingExact' /\ Reported' /\ NothingYet'
    BY <1>1, <1>3, <1>4 DEF IInv, PendingExact, Reported, NothingYet, client
  <1>7. ChangeWaits'
    BY <1>1 DEF IInv, ChangeWaits, NewResolution
  <1>8. QED
    BY <1>5, <1>6, <1>7 DEF IInv

LEMMA DriverKeeps == IInv /\ (DriverWork \/ DriverCorrupt \/ DriverBreak) => IInv'
  <1> SUFFICES ASSUME IInv, DriverWork \/ DriverCorrupt \/ DriverBreak PROVE IInv'
    OBVIOUS
  <1>0. /\ pipe \in Seq(1..NReads) /\ lastSent \in BOOLEAN /\ errors \in 0..MaxErrors
        /\ NReads \in Nat /\ MaxErrors \in Nat
    BY PlayerAssumption DEF IInv, TypeOK
  <1>1. CASE DriverConsume
    BY <1>1, ConsumeKeeps
  <1>2. ASSUME NEW l \in BOOLEAN, DriverEmit(l) PROVE IInv'
    <2>1. /\ pipe # <<>> /\ ~NewResolution /\ outQ > 0 /\ pc = "run"
          /\ Complete(Head(pipe), l, FALSE) /\ pipe' = Tail(pipe) /\ lastSent' = l
          /\ change' = change /\ errors' = errors
      BY <1>2 DEF DriverEmit, Streaming, CanEmit
    <2>2. Head(pipe) \in 0..NReads /\ Tail(pipe) \in Seq(1..NReads)
      BY <1>0, <2>1
    <2>3. QED
      BY <1>0, <2>1, <2>2, CompleteKeeps
  <1>3. CASE DriverChange
    <2>1. /\ change' = TRUE /\ NewResolution
          /\ UNCHANGED <<config, client, inQ, inDone, outQ, outDone, pipe, lastSeen,
                     lastSent, resolved, errors, broken>>
      BY <1>3 DEF DriverChange, CanChange
    <2>2. TypeOK'
      BY <2>1 DEF IInv, TypeOK, config, client
    <2>3. QED
      BY <2>1, <2>2
         DEF IInv, PendingExact, Reported, NothingYet, ChangeWaits, NewResolution, client
  <1>4. CASE DriverReturnEmpty
    <2>1. /\ outQ > 0 /\ pc = "run" /\ Complete(0, FALSE, FALSE)
          /\ UNCHANGED <<pipe, lastSent, change, errors>>
      BY <1>4 DEF DriverReturnEmpty, Streaming, CanReturn
    <2>2. 0 \in 0..NReads /\ TRUE \in BOOLEAN /\ FALSE \in BOOLEAN
      BY <1>0
    <2>3. pipe' \in Seq(1..NReads) /\ lastSent' \in BOOLEAN /\ errors' \in 0..MaxErrors
      BY <1>0, <2>1
    <2>4. QED
      BY <2>1, <2>2, <2>3, CompleteKeeps
  <1>5. CASE DriverEnd
    <2>1. /\ outQ > 0 /\ pc = "run" /\ Complete(0, TRUE, FALSE) /\ lastSent' = TRUE
          /\ UNCHANGED <<pipe, change, errors>>
      BY <1>5 DEF DriverEnd, Streaming, CanEnd
    <2>2. 0 \in 0..NReads /\ TRUE \in BOOLEAN /\ FALSE \in BOOLEAN
      BY <1>0
    <2>3. pipe' \in Seq(1..NReads) /\ lastSent' \in BOOLEAN /\ errors' \in 0..MaxErrors
      BY <1>0, <2>1
    <2>4. QED
      BY <2>1, <2>2, <2>3, CompleteKeeps
  <1>6. CASE DriverCorrupt
    <2>1. /\ outQ > 0 /\ pc = "run" /\ Complete(0, FALSE, TRUE)
          /\ errors < MaxErrors /\ errors' = errors + 1
          /\ UNCHANGED <<pipe, lastSent, change>>
      BY <1>6 DEF DriverCorrupt, Streaming
    <2>2. 0 \in 0..NReads /\ TRUE \in BOOLEAN /\ FALSE \in BOOLEAN
      BY <1>0
    <2>3. pipe' \in Seq(1..NReads) /\ lastSent' \in BOOLEAN /\ errors' \in 0..MaxErrors
      BY <1>0, <2>1
    <2>4. QED
      BY <2>1, <2>2, <2>3, CompleteKeeps
  <1>7. CASE DriverBreak
    <2>1. /\ broken' = TRUE
          /\ UNCHANGED <<config, client, inQ, inDone, outQ, outDone, pipe, lastSeen,
                     lastSent, change, resolved, errors>>
      BY <1>7 DEF DriverBreak
    <2>2. TypeOK'
      BY <2>1 DEF IInv, TypeOK, config, client
    <2>3. QED
      BY <2>1, <2>2
         DEF IInv, PendingExact, Reported, NothingYet, ChangeWaits, NewResolution, client
  <1>8. QED
    BY <1>1, <1>2, <1>3, <1>4, <1>5, <1>6, <1>7 DEF DriverWork

LEMMA NextIInv == IInv /\ [Next]_vars => IInv'
  <1> SUFFICES ASSUME IInv, [Next]_vars PROVE IInv'
    OBVIOUS
  <1>1. CASE Client
    BY <1>1, SetupKeeps, StopKeeps, PollKeeps, InputKeeps, OutputKeeps DEF Client
  <1>2. CASE DriverWork \/ DriverCorrupt \/ DriverBreak
    BY <1>2, DriverKeeps
  <1>3. CASE Terminated \/ UNCHANGED vars
    <2>1. UNCHANGED vars
      BY <1>3 DEF Terminated
    <2>2. TypeOK'
      BY <2>1 DEF IInv, TypeOK, vars, config, client, driver
    <2>3. QED
      BY <2>1, <2>2 DEF IInv, PendingExact, Reported, NothingYet, ChangeWaits, NewResolution,
         vars, client, driver
  <1>4. QED
    BY <1>1, <1>2, <1>3 DEF Next

-----------------------------------------------------------------------------

\* Every variable of the two players and their driver has its type: the numbers of
\* pending buffers never fall below 0.
THEOREM TypeCorrect == Spec => []TypeOK
  <1>1. IInv => TypeOK
    BY DEF IInv
  <1>2. QED
    BY <1>1, InitIInv, NextIInv, PTL DEF Spec

\* What the players poll for (getBuffersPending) is what the driver holds, also after
\* a reset with another number of buffers.
THEOREM PendingCorrect == Spec => []PendingExact
  <1>1. IInv => PendingExact
    BY DEF IInv
  <1>2. QED
    BY <1>1, InitIInv, NextIInv, PTL DEF Spec

-----------------------------------------------------------------------------
(* Frames carried by a queue, as in MvxCodecProofs. *)

\* The parts of a sequence that is not empty.
LEMMA TailOf ==
  ASSUME NEW S, NEW s \in Seq(S), s # <<>>
  PROVE  /\ Len(s) \in Nat /\ Len(s) > 0 /\ Len(Tail(s)) = Len(s) - 1
         /\ Head(s) = s[1] /\ Head(s) \in S /\ Tail(s) \in Seq(S)
         /\ \A i \in 1..Len(Tail(s)) : Tail(s)[i] = s[i + 1] /\ i + 1 \in 1..Len(s)
  BY HeadTailProperties, LenProperties

\* The packets or buffers of s carry the frames after a up to b, each once and in
\* order, possibly among empty ones.
Carries(s, a, b) ==
    /\ a <= b
    /\ \A i \in 1..Len(s) : s[i].frame # 0 => s[i].frame > a /\ s[i].frame <= b
    /\ \A f \in (a + 1)..b : \E i \in 1..Len(s) : s[i].frame = f
    /\ \A i, j \in 1..Len(s) :
          i < j /\ s[i].frame # 0 /\ s[j].frame # 0 => s[i].frame < s[j].frame

LEMMA CarriesAppend ==
    ASSUME NEW S, \A e \in S : e.frame \in Nat, NEW s \in Seq(S), NEW x \in S,
           NEW a \in Nat, NEW b \in Nat, NEW c \in Nat, Carries(s, a, b),
           (x.frame = 0 /\ c = b) \/ (x.frame = b + 1 /\ c = b + 1)
    PROVE  Carries(Append(s, x), a, c)
<1> DEFINE t == Append(s, x)
<1>1. /\ Len(s) \in Nat /\ Len(t) = Len(s) + 1 /\ t[Len(s) + 1] = x
      /\ \A i \in 1..Len(s) : t[i] = s[i] /\ s[i].frame \in Nat
  OBVIOUS
<1> HIDE DEF t
<1>2. a <= c
  BY DEF Carries
<1>3. ASSUME NEW i \in 1..Len(t), t[i].frame # 0 PROVE t[i].frame > a /\ t[i].frame <= c
  <2>1. CASE i \in 1..Len(s)
    BY <1>1, <1>3, <2>1 DEF Carries
  <2>2. CASE i = Len(s) + 1
    BY <1>1, <1>3, <2>2 DEF Carries
  <2>3. QED
    BY <1>1, <2>1, <2>2
<1>4. ASSUME NEW f \in (a + 1)..c PROVE \E i \in 1..Len(t) : t[i].frame = f
  <2>1. CASE f \in (a + 1)..b
    <3>1. PICK i \in 1..Len(s) : s[i].frame = f
      BY <2>1 DEF Carries
    <3>2. i \in 1..Len(t) /\ t[i].frame = f
      BY <1>1, <3>1
    <3>3. QED
      BY <3>2
  <2>2. CASE f = b + 1 /\ x.frame = b + 1
    <3>1. Len(s) + 1 \in 1..Len(t)
      BY <1>1
    <3>2. QED
      BY <1>1, <2>2, <3>1
  <2>3. QED
    BY <2>1, <2>2
<1>5. ASSUME NEW i \in 1..Len(t), NEW j \in 1..Len(t), i < j, t[i].frame # 0, t[j].frame # 0
      PROVE  t[i].frame < t[j].frame
  <2>1. i \in 1..Len(s) /\ t[i] = s[i] /\ s[i].frame \in Nat /\ s[i].frame <= b
    BY <1>1, <1>5 DEF Carries
  <2>2. CASE j \in 1..Len(s)
    BY <1>1, <1>5, <2>1, <2>2 DEF Carries
  <2>3. CASE j = Len(s) + 1
    BY <1>1, <1>5, <2>1, <2>3
  <2>4. QED
    BY <1>1, <2>2, <2>3
<1>6. QED
  BY <1>2, <1>3, <1>4, <1>5 DEF Carries, t

\* The head is empty or is the first frame carried.
LEMMA CarriesTail ==
    ASSUME NEW S, \A e \in S : e.frame \in Nat, NEW s \in Seq(S), s # <<>>,
           NEW a \in Nat, NEW b \in Nat, Carries(s, a, b)
    PROVE  \/ Head(s).frame = 0 /\ Carries(Tail(s), a, b)
           \/ Head(s).frame = a + 1 /\ a + 1 <= b /\ Carries(Tail(s), a + 1, b)
<1> DEFINE t == Tail(s)
<1>1. /\ Len(s) \in Nat /\ Len(s) > 0 /\ Len(t) = Len(s) - 1 /\ Head(s) = s[1]
      /\ \A i \in 1..Len(t) : t[i] = s[i + 1] /\ i + 1 \in 1..Len(s)
      /\ \A i \in 1..Len(s) : s[i].frame \in Nat
  BY HeadTailProperties, LenProperties
<1> HIDE DEF t
<1>2. ASSUME NEW i \in 2..Len(s) PROVE i - 1 \in 1..Len(t) /\ t[i - 1] = s[i]
  BY <1>1
<1>3. \A i, j \in 1..Len(t) :
        i < j /\ t[i].frame # 0 /\ t[j].frame # 0 => t[i].frame < t[j].frame
  <2> TAKE i, j \in 1..Len(t)
  <2>1. i + 1 \in 1..Len(s) /\ j + 1 \in 1..Len(s) /\ (i < j => i + 1 < j + 1)
    BY <1>1
  <2>2. i < j /\ s[i + 1].frame # 0 /\ s[j + 1].frame # 0 => s[i + 1].frame < s[j + 1].frame
    BY <2>1, Zenon DEF Carries
  <2>3. QED
    BY <1>1, <2>2
<1>4. CASE s[1].frame = 0
  <2>1. \A i \in 1..Len(t) : t[i].frame # 0 => t[i].frame > a /\ t[i].frame <= b
    BY <1>1 DEF Carries
  <2>2. ASSUME NEW f \in (a + 1)..b PROVE \E i \in 1..Len(t) : t[i].frame = f
    <3>1. PICK i \in 1..Len(s) : s[i].frame = f
      BY DEF Carries
    <3>2. i \in 2..Len(s)
      BY <1>1, <1>4, <3>1
    <3>3. QED
      BY <1>2, <3>1, <3>2
  <2>3. QED
    BY <1>1, <1>3, <1>4, <2>1, <2>2 DEF Carries, t
<1>5. CASE s[1].frame # 0
  <2>1. 1 \in 1..Len(s) /\ s[1].frame > a /\ s[1].frame <= b
    BY <1>1, <1>5 DEF Carries
  <2>2. ASSUME NEW i \in 2..Len(s), s[i].frame # 0 PROVE s[i].frame > s[1].frame
    BY <1>1, <1>5, <2>1, <2>2 DEF Carries
  <2>3. s[1].frame = a + 1
    <3>1. a + 1 \in (a + 1)..b
      BY <1>1, <2>1
    <3>2. PICK i \in 1..Len(s) : s[i].frame = a + 1
      BY <3>1 DEF Carries
    <3>3. i = 1 \/ i \in 2..Len(s)
      BY <1>1
    <3>4. QED
      BY <1>1, <2>1, <2>2, <3>2, <3>3
  <2>4. ASSUME NEW i \in 1..Len(t), t[i].frame # 0 PROVE t[i].frame > a + 1 /\ t[i].frame <= b
    <3>1. i + 1 \in 2..Len(s) /\ t[i] = s[i + 1]
      BY <1>1
    <3>2. QED
      BY <1>1, <2>2, <2>3, <2>4, <3>1 DEF Carries
  <2>5. ASSUME NEW f \in (a + 1 + 1)..b PROVE \E i \in 1..Len(t) : t[i].frame = f
    <3>1. PICK i \in 1..Len(s) : s[i].frame = f
      BY DEF Carries
    <3>2. i \in 2..Len(s)
      BY <1>1, <2>3, <3>1
    <3>3. QED
      BY <1>2, <3>1, <3>2
  <2>6. QED
    BY <1>1, <1>3, <2>1, <2>3, <2>4, <2>5 DEF Carries, t
<1>6. QED
  BY <1>4, <1>5

\* Nothing is carried where all are empty.
LEMMA CarriesNothing ==
    ASSUME NEW S, NEW s \in Seq(S), NEW a \in Nat, NEW b \in Nat, Carries(s, a, b),
           \A i \in 1..Len(s) : s[i].frame = 0
    PROVE  a = b
<1>1. SUFFICES ASSUME a + 1 \in (a + 1)..b PROVE FALSE
  BY DEF Carries
<1>2. PICK i \in 1..Len(s) : s[i].frame = a + 1
  BY <1>1 DEF Carries
<1>3. QED
  BY <1>2

LEMMA CarriesEmpty == ASSUME NEW a \in Nat PROVE Carries(<<>>, a, a)
BY DEF Carries

-----------------------------------------------------------------------------
(* The frames in flight, for the end of a session.                         *)
(*                                                                         *)
(* The packets and the pipe hold what was read and not yet decoded; until  *)
(* mvx_userptr throws frames away (MayLose) the done buffers hold the rest *)
(* of what is not handed on.  The driver has seen the LAST packet exactly  *)
(* when it has taken the last read of a file that ends in a short one.     *)

Places(d) ==
    /\ \A i \in 1..Len(pipe) : pipe[i] = d + i
    /\ \A i \in 1..Len(inQ) : inQ[i] = Filled(d + Len(pipe) + i)
    /\ next - 1 = d + Len(pipe) + Len(inQ)
    /\ lastSeen <=> d + Len(pipe) = NReads /\ ~exact
    /\ ~MayLose => /\ written = [i \in 1..Len(written) |-> i]
                   /\ Carries(outDone, Len(written), d)

InFlight == pc # "done" => \E d \in 0..NReads : Places(d)

\* No frame is behind the LAST buffer, which stays until the program takes it.
LastIsBehind ==
    /\ lastSent => lastSeen /\ pipe = <<>>
    /\ \A i \in 1..Len(outDone) : outDone[i].last =>
          lastSent /\ \A j \in (i + 1)..Len(outDone) : outDone[j].frame = 0
    /\ pc = "run" /\ lastSent /\ ~MayLose => \E i \in 1..Len(outDone) : outDone[i].last

\* An empty buffer announces a change, and nothing is decoded until it is answered.
Returned(c) == c.frame = 0 /\ ~c.last /\ ~c.error

NothingBehind ==
    /\ errors = 0 => \A i \in 1..Len(outDone) : ~outDone[i].error
    /\ \A i \in 1..Len(outDone) : Returned(outDone[i]) =>
        change /\ \A j \in (i + 1)..Len(outDone) : outDone[j].frame = 0 /\ ~outDone[j].last

\* The capture port never runs out of buffers, the other not while there is more to read.
BuffersLeft == pc = "run" => outPending > 0 /\ (next <= NReads => inPending > 0)

FlowInv == IInv /\ InFlight /\ LastIsBehind /\ NothingBehind /\ BuffersLeft

\* Steps that move no packet and no frame.
Quiet ==
    /\ pc' \in {pc, "failed"}
    /\ UNCHANGED <<config, next, written, inQ, outDone, pipe, lastSeen, lastSent, change,
                   resolved, errors, outPending>>
    /\ inPending' = inPending \/ next > NReads

Refill == HandleInput /\ RefillInput
Empties == DriverReturnEmpty \/ DriverEnd \/ DriverCorrupt

LEMMA Kinds ==
  ASSUME IInv, [Next]_vars
  PROVE  \/ Quiet \/ Setup \/ Refill \/ HandleOutput \/ DriverConsume
         \/ (\E l \in BOOLEAN : DriverEmit(l)) \/ DriverChange \/ Empties
  <1>1. CASE SetupFails \/ PollError \/ PollTimeout \/ Poll
    BY <1>1 DEF Quiet, SetupFails, PollError, PollTimeout, Poll, Polling, driver
  <1>2. CASE HandleInput
    <2>1. KeepInput \/ RefillInput
      BY <1>2 DEF HandleInput
    <2>2. next \in Nat /\ NReads \in Nat
      BY PlayerAssumption DEF IInv, TypeOK
    <2>3. CASE KeepInput
      BY <1>2, <2>2, <2>3 DEF Quiet, HandleInput, KeepInput, AtEnd, driver
    <2>4. QED
      BY <1>2, <2>1, <2>3 DEF Refill
  <1>3. CASE DriverBreak \/ UNCHANGED vars
    BY <1>3 DEF Quiet, DriverBreak, vars, client, driver
  <1>4. QED
    BY <1>1, <1>2, <1>3 DEF Next, Client, DriverWork, Terminated, Empties

LEMMA FrameNumbers == \A c \in Capture : c.frame \in Nat
  BY PlayerAssumption DEF Capture

\* Once frames may have been lost they may have been for good.
LEMMA LossLasts ==
  ASSUME IInv, [Next]_vars
  PROVE  config' = config /\ (~MayLose' => ~MayLose) /\ errors' \in Nat /\ errors' >= errors
  <1>1. errors \in Nat
    BY PlayerAssumption DEF IInv, TypeOK
  <1>2. config' = config /\ (errors' = errors \/ errors' = errors + 1)
    BY DEF Next, Client, Setup, SetupFails, Poll, PollError, PollTimeout, HandleInput,
       HandleOutput, EndCapture, RequeueCapture, ResetFails, ResetCapture, DriverWork,
       DriverConsume, DriverChange, DriverReturnEmpty, DriverEnd, DriverEmit, Complete,
       DriverCorrupt, DriverBreak, Terminated, vars, driver
  <1>3. QED
    BY <1>1, <1>2 DEF MayLose, config

LEMMA BuffersStep == IInv /\ BuffersLeft /\ [Next]_vars => BuffersLeft'
  <1> SUFFICES ASSUME IInv, BuffersLeft, [Next]_vars PROVE BuffersLeft'
    OBVIOUS
  <1>0. NReads \in Nat \ {0} /\ next \in Nat /\ outPending \in Nat /\ inPending \in Nat
    BY PlayerAssumption DEF IInv, TypeOK
  <1>1. CASE Quiet
    BY <1>0, <1>1 DEF Quiet, BuffersLeft
  <1>2. CASE Setup
    <2>1. PICK count \in Counts :
            next' = AtMost(count, NReads) + 1 /\ inPending' = AtMost(count, NReads)
      BY <1>2 DEF Setup
    <2>2. outPending' \in Counts
      BY <1>2 DEF Setup
    <2>3. QED
      BY <1>0, <2>1, <2>2, CountsAreNat DEF AtMost, BuffersLeft
  <1>3. CASE Refill
    BY <1>0, <1>3 DEF Refill, HandleInput, RefillInput, AtEnd, BuffersLeft
  <1>4. CASE HandleOutput
    <2>1. CASE EndCapture \/ ResetFails
      BY <2>1 DEF EndCapture, ResetFails, BuffersLeft
    <2>2. CASE RequeueCapture
      BY <1>0, <1>4, <2>2 DEF HandleOutput, RequeueCapture, BuffersLeft
    <2>3. ASSUME NEW n \in ResetCounts, ResetCapture(n) PROVE BuffersLeft'
      BY <1>0, <1>4, <2>3, CountsAreNat
         DEF HandleOutput, ResetCapture, PendingAfterReset, BuffersLeft
    <2>4. QED
      BY <1>4, <2>1, <2>2, <2>3 DEF HandleOutput
  <1>5. CASE UNCHANGED client
    BY <1>5 DEF client, BuffersLeft
  <1>6. QED
    BY <1>1, <1>2, <1>3, <1>4, <1>5, Kinds
       DEF DriverConsume, DriverEmit, DriverChange, Empties, DriverReturnEmpty, DriverEnd,
           DriverCorrupt, Complete

-----------------------------------------------------------------------------
(* The done buffers. *)

\* A buffer is added to the done ones.
LEMMA BehindAppended ==
  ASSUME NothingBehind, outDone \in Seq(Capture), NEW c \in Capture,
         outDone' = Append(outDone, c), change' = change,
         change => c.frame = 0 /\ ~c.last, Returned(c) => change,
         errors \in Nat, errors' \in Nat, errors' >= errors, c.error => errors' > 0
  PROVE  NothingBehind'
  <1>1. /\ Len(outDone) \in Nat /\ Len(outDone') = Len(outDone) + 1
        /\ outDone'[Len(outDone) + 1] = c
        /\ \A i \in 1..Len(outDone) : outDone'[i] = outDone[i]
    OBVIOUS
  <1>2. ASSUME errors' = 0, NEW i \in 1..Len(outDone') PROVE ~outDone'[i].error
    <2>1. errors = 0 /\ ~c.error
      BY <1>2
    <2>2. i = Len(outDone) + 1 \/ i \in 1..Len(outDone)
      BY <1>1
    <2>3. QED
      BY <1>1, <2>1, <2>2 DEF NothingBehind
  <1>3. ASSUME NEW i \in 1..Len(outDone'), Returned(outDone'[i]),
               NEW j \in (i + 1)..Len(outDone')
        PROVE  outDone'[j].frame = 0 /\ ~outDone'[j].last
    <2>1. i \in 1..Len(outDone) /\ Returned(outDone[i])
      BY <1>1, <1>3
    <2>2. change /\ \A k \in (i + 1)..Len(outDone) : outDone[k].frame = 0 /\ ~outDone[k].last
      BY <2>1 DEF NothingBehind
    <2>3. j = Len(outDone) + 1 \/ (j \in (i + 1)..Len(outDone) /\ j \in 1..Len(outDone))
      BY <1>1, <2>1
    <2>4. QED
      BY <1>1, <2>2, <2>3
  <1>4. ASSUME NEW i \in 1..Len(outDone'), Returned(outDone'[i]) PROVE change'
    <2>1. i = Len(outDone) + 1 \/ i \in 1..Len(outDone)
      BY <1>1
    <2>2. QED
      BY <1>1, <1>4, <2>1 DEF NothingBehind
  <1>5. QED
    BY <1>2, <1>3, <1>4 DEF NothingBehind, Returned

LEMMA BehindStep == IInv /\ NothingBehind /\ [Next]_vars => NothingBehind'
  <1> SUFFICES ASSUME IInv, NothingBehind, [Next]_vars PROVE NothingBehind'
    OBVIOUS
  <1>0. /\ outDone \in Seq(Capture) /\ errors \in Nat /\ errors' \in Nat /\ errors' >= errors
        /\ pipe \in Seq(1..NReads) /\ (change => NewResolution) /\ NReads \in Nat
    BY LossLasts, PlayerAssumption DEF IInv, TypeOK, ChangeWaits
  <1>1. ASSUME UNCHANGED <<outDone, errors>>, change => change' PROVE NothingBehind'
    BY <1>1 DEF NothingBehind, Returned
  <1>2. CASE Quiet \/ Setup \/ Refill \/ DriverConsume \/ DriverChange
    BY <1>1, <1>2
       DEF Quiet, Setup, Refill, HandleInput, DriverConsume, DriverChange, driver
  <1>3. CASE HandleOutput
    <2>1. CASE outDone' = <<>> /\ errors' = errors
      BY <2>1 DEF NothingBehind
    <2>2. CASE outDone' = Tail(outDone) /\ UNCHANGED <<change, errors>>
      <3>1. outDone # <<>>
        BY <1>3 DEF HandleOutput, IInv, Reported
      <3>2. /\ \A i \in 1..Len(outDone') : outDone'[i] = outDone[i + 1] /\ i + 1 \in 1..Len(outDone)
            /\ Len(outDone') = Len(outDone) - 1 /\ Len(outDone) \in Nat
        BY <1>0, <2>2, <3>1, TailOf
      <3>3. ASSUME NEW i \in 1..Len(outDone'), Returned(outDone'[i])
            PROVE  change /\ \A j \in (i + 1)..Len(outDone') :
                                outDone'[j].frame = 0 /\ ~outDone'[j].last
        <4>1. change /\ \A j \in (i + 1 + 1)..Len(outDone) : outDone[j].frame = 0 /\ ~outDone[j].last
          BY <3>2, <3>3 DEF NothingBehind
        <4>2. \A j \in (i + 1)..Len(outDone') : j \in 1..Len(outDone') /\ j + 1 \in (i + 1 + 1)..Len(outDone)
          BY <3>2
        <4>3. QED
          BY <3>2, <4>1, <4>2
      <3>4. errors' = 0 => \A i \in 1..Len(outDone') : ~outDone'[i].error
        BY <2>2, <3>2 DEF NothingBehind
      <3>5. QED
        BY <2>2, <3>3, <3>4 DEF NothingBehind, Returned
    <2>3. QED
      BY <1>3, <2>1, <2>2
         DEF HandleOutput, EndCapture, RequeueCapture, ResetFails, ResetCapture, driver
  <1>4. ASSUME NEW f \in 0..NReads, NEW l \in BOOLEAN, NEW e \in BOOLEAN, Complete(f, l, e),
               change' = change, change => f = 0 /\ ~l, f = 0 /\ ~l /\ ~e => change,
               e => errors' > 0
        PROVE  NothingBehind'
    <2> DEFINE c == [frame |-> f, last |-> l, error |-> e]
    <2>1. c \in Capture /\ c.frame = f /\ c.last = l /\ c.error = e /\ outDone' = Append(outDone, c)
      BY <1>4 DEF Complete, Capture
    <2> HIDE DEF c
    <2>2. QED
      BY <1>0, <1>4, <2>1, BehindAppended DEF Returned
  <1>5. ASSUME NEW l \in BOOLEAN, DriverEmit(l) PROVE NothingBehind'
    <2>1. pipe # <<>> /\ ~NewResolution /\ Complete(Head(pipe), l, FALSE) /\ change' = change
      BY <1>5 DEF DriverEmit, CanEmit
    <2>2. Head(pipe) \in 0..NReads /\ Head(pipe) # 0 /\ FALSE \in BOOLEAN /\ ~change
      BY <1>0, <2>1, HeadIsMember
    <2>3. QED
      BY <1>4, <2>1, <2>2
  <1>6. CASE Empties
    <2>0. 0 \in 0..NReads /\ FALSE \in BOOLEAN /\ TRUE \in BOOLEAN
      BY <1>0
    <2>1. CASE DriverReturnEmpty
      <3>1. Complete(0, FALSE, FALSE) /\ change' = change /\ change
        BY <2>1 DEF DriverReturnEmpty, CanReturn
      <3>2. QED
        BY <1>4, <2>0, <3>1
    <2>2. CASE DriverEnd
      <3>1. Complete(0, TRUE, FALSE) /\ change' = change /\ ~change
        BY <1>0, <2>2 DEF DriverEnd, CanEnd, NewResolution
      <3>2. QED
        BY <1>4, <2>0, <3>1
    <2>3. CASE DriverCorrupt
      <3>1. Complete(0, FALSE, TRUE) /\ change' = change /\ errors' = errors + 1
        BY <2>3 DEF DriverCorrupt
      <3>2. errors' > 0 /\ (change => 0 = 0 /\ ~FALSE)
        BY <1>0, <3>1
      <3>3. QED
        BY <1>4, <2>0, <3>1, <3>2
    <2>4. QED
      BY <1>6, <2>1, <2>2, <2>3 DEF Empties
  <1>7. QED
    BY <1>2, <1>3, <1>5, <1>6, Kinds

-----------------------------------------------------------------------------
(* The frames. *)

LEMMA Facts ==
  ASSUME IInv
  PROVE  /\ NReads \in Nat \ {0} /\ pipe \in Seq(1..NReads) /\ Len(pipe) \in Nat
         /\ inQ \in Seq(Packet) /\ Len(inQ) \in Nat /\ outDone \in Seq(Capture)
         /\ Len(written) \in Nat /\ written \in Seq(1..NReads) /\ next \in Nat
         /\ exact \in BOOLEAN /\ lastSeen \in BOOLEAN
  BY PlayerAssumption DEF IInv, TypeOK

LEMMA PlacesStay ==
  ASSUME NEW d \in Nat, Places(d), config' = config, ~MayLose' => ~MayLose,
         UNCHANGED <<next, inQ, pipe, lastSeen>>,
         ~MayLose' => UNCHANGED <<written, outDone>>
  PROVE  Places(d)'
  BY DEF Places, Filled, config

\* A read is queued to the driver.
LEMMA PlacesQueue ==
  ASSUME IInv, NEW d \in 0..NReads, Places(d), config' = config, ~MayLose' => ~MayLose,
         next <= NReads, inQ' = Append(inQ, Filled(next)), next' = next + 1,
         UNCHANGED <<pipe, lastSeen, written, outDone>>
  PROVE  Places(d)'
  <1>0. /\ NReads \in Nat \ {0} /\ pipe \in Seq(1..NReads) /\ Len(pipe) \in Nat
        /\ inQ \in Seq(Packet) /\ Len(inQ) \in Nat /\ outDone \in Seq(Capture)
        /\ Len(written) \in Nat /\ written \in Seq(1..NReads) /\ next \in Nat
        /\ exact \in BOOLEAN /\ lastSeen \in BOOLEAN /\ d \in Nat
    BY Facts
  <1> USE <1>0
  <1>1. /\ Len(inQ') = Len(inQ) + 1 /\ inQ'[Len(inQ) + 1] = Filled(next)
        /\ \A i \in 1..Len(inQ) : inQ'[i] = inQ[i]
    OBVIOUS
  <1>2. next = d + Len(pipe) + Len(inQ) + 1
    BY DEF Places
  <1> DEFINE l == Len(inQ)
  <1>3. ASSUME NEW i \in 1..Len(inQ') PROVE inQ'[i] = Filled(d + Len(pipe) + i)
    <2>0. Len(inQ') = l + 1 /\ l \in Nat
      BY <1>1
    <2>1. i = l + 1 \/ i \in 1..l
      <3> HIDE DEF l
      <3>1. QED
        BY <2>0
    <2>2. CASE i = l + 1
      <3>1. d + Len(pipe) + i = next
        BY <1>2, <2>2
      <3>2. QED
        BY <1>1, <2>2, <3>1
    <2>3. CASE i \in 1..l
      BY <1>1, <2>3 DEF Places
    <2>4. QED
      BY <2>1, <2>2, <2>3
  <1>4. \A n : Filled(n)' = Filled(n)
    BY DEF Filled, config
  <1>5. next' - 1 = d + Len(pipe) + Len(inQ')
    BY <1>1, <1>2
  <1>6. \A i \in 1..Len(inQ') : inQ'[i] = (Filled(d + Len(pipe) + i))'
    BY <1>3, <1>4
  <1>7. /\ exact' = exact
        /\ lastSeen <=> d + Len(pipe) = NReads /\ ~exact
        /\ \A i \in 1..Len(pipe) : pipe[i] = d + i
        /\ ~MayLose => /\ written = [i \in 1..Len(written) |-> i]
                       /\ Carries(outDone, Len(written), d)
    BY DEF Places, config
  <1>8. QED
    BY <1>5, <1>6, <1>7 DEF Places

\* The driver takes a packet.
LEMMA PlacesConsume ==
  ASSUME IInv, NEW d \in 0..NReads, Places(d), DriverConsume
  PROVE  Places(d)'
  <1>0. /\ NReads \in Nat \ {0} /\ pipe \in Seq(1..NReads) /\ Len(pipe) \in Nat
        /\ inQ \in Seq(Packet) /\ Len(inQ) \in Nat /\ outDone \in Seq(Capture)
        /\ Len(written) \in Nat /\ written \in Seq(1..NReads) /\ next \in Nat
        /\ exact \in BOOLEAN /\ lastSeen \in BOOLEAN /\ d \in Nat
    BY Facts
  <1> USE <1>0
  <1>1. /\ inQ # <<>> /\ inQ' = Tail(inQ) /\ pipe' = Append(pipe, Head(inQ).read)
        /\ lastSeen' = Head(inQ).last
        /\ UNCHANGED <<config, next, written, outDone, errors>>
    BY DEF DriverConsume, CanConsume, client
  <1>2. /\ Len(inQ') = Len(inQ) - 1 /\ Head(inQ) = inQ[1] /\ Len(inQ) > 0
        /\ \A i \in 1..Len(inQ') : inQ'[i] = inQ[i + 1] /\ i + 1 \in 1..Len(inQ)
    BY <1>1, TailOf
  <1> DEFINE m == d + Len(pipe)
  <1>3. m \in Nat /\ Head(inQ) = Filled(m + 1)
    BY <1>2 DEF Places
  <1>4. /\ pipe' = Append(pipe, m + 1) /\ lastSeen' = (m + 1 = NReads /\ ~exact)
    BY <1>1, <1>3 DEF Filled
  <1>5. /\ Len(pipe') = Len(pipe) + 1 /\ pipe'[Len(pipe) + 1] = m + 1
        /\ \A i \in 1..Len(pipe) : pipe'[i] = pipe[i]
    <2> HIDE DEF m
    <2>1. m + 1 \in 1..NReads
      <3>1. Head(inQ) \in Packet
        BY <1>1
      <3>2. QED
        BY <1>3, <3>1 DEF Packet, Filled
    <2>2. QED
      BY <1>4, <2>1
  <1>6. d + Len(pipe') = m + 1
    BY <1>5
  <1>7. ASSUME NEW i \in 1..Len(pipe') PROVE pipe'[i] = d + i
    <2>1. i \in 1..Len(pipe) \/ i = Len(pipe) + 1
      BY <1>5
    <2>2. QED
      BY <1>5, <2>1 DEF Places
  <1>8. ASSUME NEW i \in 1..Len(inQ') PROVE inQ'[i] = Filled(m + 1 + i)
    <2>1. inQ'[i] = Filled(d + Len(pipe) + (i + 1))
      BY <1>2 DEF Places
    <2>2. d + Len(pipe) + (i + 1) = m + 1 + i
      OBVIOUS
    <2>3. QED
      BY <2>1, <2>2
  <1>9. \A n : Filled(n)' = Filled(n)
    BY <1>1 DEF Filled, config
  <1>10. next' - 1 = m + 1 + Len(inQ')
    BY <1>1, <1>2 DEF Places
  <1>11. /\ MayLose' = MayLose /\ exact' = exact
         /\ \A i \in 1..Len(inQ') : inQ'[i] = Filled(d + Len(pipe) + i)'
         /\ next' - 1 = d + Len(pipe') + Len(inQ')
         /\ lastSeen' <=> d + Len(pipe') = NReads /\ ~exact'
    BY <1>1, <1>4, <1>6, <1>8, <1>9, <1>10 DEF MayLose, config
  <1>12. QED
    BY <1>1, <1>6, <1>7, <1>11 DEF Places

\* The frame at the head of the pipe is decoded.
LEMMA PlacesEmit ==
  ASSUME IInv, NEW d \in 0..NReads, Places(d), NEW l \in BOOLEAN, DriverEmit(l)
  PROVE  d + 1 \in 0..NReads /\ Places(d + 1)'
  <1>0. /\ NReads \in Nat \ {0} /\ pipe \in Seq(1..NReads) /\ Len(pipe) \in Nat
        /\ inQ \in Seq(Packet) /\ Len(inQ) \in Nat /\ outDone \in Seq(Capture)
        /\ Len(written) \in Nat /\ written \in Seq(1..NReads) /\ next \in Nat
        /\ exact \in BOOLEAN /\ lastSeen \in BOOLEAN /\ d \in Nat
    BY Facts
  <1> USE <1>0
  <1> DEFINE c == [frame |-> Head(pipe), last |-> l, error |-> FALSE]
  <1>1. /\ pipe # <<>> /\ pipe' = Tail(pipe) /\ outDone' = Append(outDone, c)
        /\ UNCHANGED <<config, next, written, inQ, errors, lastSeen>>
    BY DEF DriverEmit, CanEmit, Complete, client
  <1>2. /\ Len(pipe') = Len(pipe) - 1 /\ Head(pipe) = pipe[1] /\ Len(pipe) > 0
        /\ \A i \in 1..Len(pipe') : pipe'[i] = pipe[i + 1] /\ i + 1 \in 1..Len(pipe)
        /\ Head(pipe) \in 1..NReads
    BY <1>1, TailOf
  <1>3. Head(pipe) = d + 1 /\ d + 1 \in 0..NReads /\ 1 \in 1..Len(pipe)
    BY <1>2 DEF Places
  <1>4. c \in Capture /\ c.frame = d + 1
    BY <1>2, <1>3 DEF Capture
  <1> HIDE DEF c
  <1>5. \A i \in 1..Len(pipe') : pipe'[i] = d + 1 + i
    BY <1>2 DEF Places
  <1>6. d + 1 + Len(pipe') = d + Len(pipe)
    BY <1>2
  <1>7. ~MayLose => Carries(outDone', Len(written), d + 1)
    <2> DEFINE n == Len(written)
               m == d + 1
    <2>1. n \in Nat /\ d \in Nat /\ m \in Nat /\ m = d + 1 /\ c.frame = d + 1
      BY <1>4
    <2>2. ~MayLose => Carries(outDone, n, d)
      BY DEF Places
    <2> HIDE DEF n, m
    <2>3. ~MayLose => Carries(Append(outDone, c), n, m)
      BY <1>4, <2>1, <2>2, FrameNumbers, CarriesAppend
    <2>4. QED
      BY <1>1, <2>3 DEF n, m
  <1>8. \A n : Filled(n)' = Filled(n)
    BY <1>1 DEF Filled, config
  <1>9. /\ MayLose' = MayLose /\ exact' = exact
        /\ \A i \in 1..Len(inQ') : inQ'[i] = Filled(d + 1 + Len(pipe) + i)'
        /\ next' - 1 = d + 1 + Len(pipe') + Len(inQ')
        /\ lastSeen' <=> d + 1 + Len(pipe') = NReads /\ ~exact'
        /\ ~MayLose => written' = [i \in 1..Len(written') |-> i]
    BY <1>1, <1>6, <1>8 DEF MayLose, config, Places
  <1>10. QED
    BY <1>1, <1>3, <1>5, <1>6, <1>7, <1>9 DEF Places

\* A buffer is returned without a frame.
LEMMA PlacesReturn ==
  ASSUME IInv, NEW d \in 0..NReads, Places(d), ~MayLose' => ~MayLose, pipe' = pipe,
         NEW l \in BOOLEAN, NEW e \in BOOLEAN, Complete(0, l, e)
  PROVE  Places(d)'
  <1>0. /\ NReads \in Nat \ {0} /\ pipe \in Seq(1..NReads) /\ Len(pipe) \in Nat
        /\ inQ \in Seq(Packet) /\ Len(inQ) \in Nat /\ outDone \in Seq(Capture)
        /\ Len(written) \in Nat /\ written \in Seq(1..NReads) /\ next \in Nat
        /\ exact \in BOOLEAN /\ lastSeen \in BOOLEAN /\ d \in Nat
    BY Facts
  <1> USE <1>0
  <1> DEFINE c == [frame |-> 0, last |-> l, error |-> e]
             n == Len(written)
  <1>1. /\ outDone' = Append(outDone, c) /\ UNCHANGED <<config, next, written, inQ, lastSeen>>
        /\ c \in Capture /\ c.frame = 0 /\ n \in Nat /\ d \in Nat
    BY DEF Complete, Capture, client
  <1>2. ~MayLose => Carries(outDone, n, d)
    BY DEF Places
  <1> HIDE DEF c, n
  <1>3. ~MayLose => Carries(outDone', n, d)
    BY <1>1, <1>2, FrameNumbers, CarriesAppend
  <1>4. \A k : Filled(k)' = Filled(k)
    BY <1>1 DEF Filled, config
  <1>5. QED
    BY <1>1, <1>3, <1>4 DEF Places, config, n

\* The program takes a buffer and puts it back.
LEMMA PlacesRequeue ==
  ASSUME IInv, NEW d \in 0..NReads, Places(d), HandleOutput, RequeueCapture
  PROVE  Places(d)'
  <1>0. /\ NReads \in Nat \ {0} /\ pipe \in Seq(1..NReads) /\ Len(pipe) \in Nat
        /\ inQ \in Seq(Packet) /\ Len(inQ) \in Nat /\ outDone \in Seq(Capture)
        /\ Len(written) \in Nat /\ written \in Seq(1..NReads) /\ next \in Nat
        /\ exact \in BOOLEAN /\ lastSeen \in BOOLEAN /\ d \in Nat
    BY Facts
  <1> USE <1>0
  <1>1. /\ written' = IF Done.frame # 0 THEN Append(written, Done.frame) ELSE written
        /\ outDone' = Tail(outDone) /\ outDone # <<>>
        /\ UNCHANGED <<config, next, inQ, pipe, lastSeen, errors>>
    BY DEF HandleOutput, RequeueCapture, driver, IInv, Reported
  <1> DEFINE n == Len(written)
  <1>2. n \in Nat /\ d \in Nat
    OBVIOUS
  <1>3. ~MayLose => Carries(outDone, n, d) /\ written = [i \in 1..n |-> i]
    BY DEF Places
  <1>4. Len(written') = IF Done.frame # 0 THEN n + 1 ELSE n
    BY <1>1
  <1>5. ASSUME ~MayLose
        PROVE  /\ written' = [i \in 1..Len(written') |-> i]
               /\ Carries(outDone', Len(written'), d)
    <2>1. CASE Done.frame = 0
      <3> HIDE DEF n
      <3>1. Carries(Tail(outDone), n, d)
        <4>1. Done.frame # n + 1
          BY <1>2, <2>1
        <4>2. outDone # <<>> /\ Carries(outDone, n, d)
          BY <1>1, <1>3, <1>5
        <4>3. QED
          BY <1>2, <4>1, <4>2, FrameNumbers, CarriesTail DEF Done
      <3>2. QED
        BY <1>1, <1>3, <1>4, <1>5, <2>1, <3>1
    <2>2. CASE Done.frame # 0
      <3>1. Done.frame = n + 1 /\ Carries(Tail(outDone), n + 1, d)
        <4> HIDE DEF n
        <4>1. QED
          BY <1>1, <1>2, <1>3, <1>5, <2>2, FrameNumbers, CarriesTail DEF Done
      <3>2. written' = Append([i \in 1..n |-> i], n + 1)
        BY <1>1, <1>3, <1>5, <2>2, <3>1
      <3> HIDE DEF n
      <3>3. Append([i \in 1..n |-> i], n + 1) = [i \in 1..(n + 1) |-> i]
        BY <1>2
      <3>4. QED
        BY <1>1, <1>4, <2>2, <3>1, <3>2, <3>3
    <2>3. QED
      BY <2>1, <2>2
  <1>6. \A k : Filled(k)' = Filled(k)
    BY <1>1 DEF Filled, config
  <1>7. QED
    BY <1>1, <1>5, <1>6 DEF Places, config, MayLose

\* A reset takes buffers back that carry no frame, and not the LAST one.
LEMMA NothingToReset ==
  ASSUME IInv, NothingBehind, HandleOutput, ResetsStream, ~MayLose
  PROVE  change /\ \A i \in 1..Len(outDone) : outDone[i].frame = 0 /\ ~outDone[i].last
  <1>1. outDone # <<>> /\ outDone \in Seq(Capture) /\ errors \in Nat
    BY PlayerAssumption DEF HandleOutput, IInv, Reported, TypeOK
  <1>2. 1 \in 1..Len(outDone) /\ Done = outDone[1] /\ Len(outDone) \in Nat
    BY <1>1 DEF Done
  <1>3. Returned(outDone[1])
    <2>1. prog = "userptr" => errors = 0
      BY <1>1 DEF MayLose
    <2>2. QED
      BY <1>2, <2>1 DEF ResetsStream, NothingBehind, Returned
  <1>4. change /\ \A i \in (1 + 1)..Len(outDone) : outDone[i].frame = 0 /\ ~outDone[i].last
    BY <1>2, <1>3 DEF NothingBehind
  <1>5. ASSUME NEW i \in 1..Len(outDone) PROVE i = 1 \/ i \in (1 + 1)..Len(outDone)
    BY <1>2
  <1>6. QED
    BY <1>3, <1>4, <1>5 DEF Returned

LEMMA PlacesReset ==
  ASSUME IInv, NothingBehind, NEW d \in 0..NReads, Places(d), HandleOutput, ResetsStream,
         outDone' = <<>>, UNCHANGED <<config, next, written, inQ, pipe, lastSeen, errors>>
  PROVE  Places(d)'
  <1>0. /\ NReads \in Nat \ {0} /\ pipe \in Seq(1..NReads) /\ Len(pipe) \in Nat
        /\ inQ \in Seq(Packet) /\ Len(inQ) \in Nat /\ outDone \in Seq(Capture)
        /\ Len(written) \in Nat /\ written \in Seq(1..NReads) /\ next \in Nat
        /\ exact \in BOOLEAN /\ lastSeen \in BOOLEAN /\ d \in Nat
    BY Facts
  <1> USE <1>0
  <1> DEFINE n == Len(written)
  <1>1. n \in Nat /\ d \in Nat
    OBVIOUS
  <1>2. ~MayLose => Carries(outDone, n, d) /\ written = [i \in 1..n |-> i]
    BY DEF Places
  <1>3. ~MayLose => n = d
    <2> HIDE DEF n
    <2>1. QED
      BY <1>1, <1>2, NothingToReset, CarriesNothing
  <1>4. ~MayLose => Carries(outDone', Len(written'), d)
    BY <1>3, CarriesEmpty
  <1>5. \A k : Filled(k)' = Filled(k)
    BY DEF Filled, config
  <1>6. QED
    BY <1>4, <1>5 DEF Places, config, MayLose

LEMMA FlightStep == IInv /\ NothingBehind /\ InFlight /\ [Next]_vars => InFlight'
  <1> SUFFICES ASSUME IInv, NothingBehind, InFlight, [Next]_vars, pc' # "done" PROVE InFlight'
    BY DEF InFlight
  <1>0. config' = config /\ (~MayLose' => ~MayLose) /\ NReads \in Nat
    BY LossLasts, Facts
  <1>1. pc # "done"
    BY DEF Next, Client, Setup, SetupFails, Poll, PollError, PollTimeout, Polling, HandleInput,
       HandleOutput, DriverWork, DriverConsume, DriverChange, DriverReturnEmpty, DriverEnd,
       DriverEmit, DriverCorrupt, DriverBreak, Streaming, Terminated, vars, client
  <1>2. PICK d \in 0..NReads : Places(d)
    BY <1>1 DEF InFlight
  <1>3. ASSUME Places(d)' PROVE InFlight'
    BY <1>3 DEF InFlight
  <1>4. CASE Quiet \/ DriverChange
    <2>1. UNCHANGED <<next, inQ, pipe, lastSeen, written, outDone>>
      BY <1>4 DEF Quiet, DriverChange, client
    <2>2. QED
      BY <1>0, <1>2, <1>3, <2>1, PlacesStay
  <1>5. CASE Setup
    <2>1. PICK count \in Counts :
            /\ inQ' = [i \in 1..AtMost(count, NReads) |-> Filled(i)]
            /\ next' = AtMost(count, NReads) + 1
      BY <1>5 DEF Setup
    <2> DEFINE k == AtMost(count, NReads)
    <2>2. k \in Nat
      BY CountsAreNat, Facts DEF AtMost
    <2>3. next = 1 /\ UNCHANGED <<written, outDone, pipe, lastSeen, errors>>
      BY <1>5 DEF Setup, IInv, NothingYet, driver
    <2>4. d = 0 /\ Len(pipe) = 0
      BY <1>2, <2>3, Facts DEF Places
    <2> HIDE DEF k
    <2>5. inQ' = [i \in 1..k |-> Filled(i)] /\ next' = k + 1
      BY <2>1 DEF k
    <2>6. Len(inQ') = k /\ \A i \in 1..Len(inQ') : inQ'[i] = Filled(i)
      BY <2>2, <2>5
    <2>7. \A n : Filled(n)' = Filled(n)
      BY <1>0 DEF Filled, config
    <2>8. /\ \A i \in 1..Len(inQ') : inQ'[i] = Filled(i)' /\ d + Len(pipe') + i = i
          /\ next' - 1 = d + Len(pipe') + Len(inQ')
      BY <2>2, <2>3, <2>4, <2>5, <2>6, <2>7
    <2>9. Places(d)'
      BY <1>0, <1>2, <2>3, <2>8 DEF Places, MayLose, config
    <2>10. QED
      BY <1>3, <2>9
  <1>6. CASE Refill
    <2>1. /\ next <= NReads /\ inQ' = Append(inQ, Filled(next)) /\ next' = next + 1
          /\ UNCHANGED <<pipe, lastSeen, written, outDone>>
      BY <1>6, Facts DEF Refill, HandleInput, RefillInput, AtEnd, driver
    <2>2. QED
      BY <1>0, <1>2, <1>3, <2>1, PlacesQueue
  <1>7. CASE HandleOutput
    <2>1. CASE EndCapture
      BY <2>1 DEF EndCapture, InFlight
    <2>2. CASE RequeueCapture
      BY <1>2, <1>3, <1>7, <2>2, PlacesRequeue
    <2>3. CASE ResetFails \/ \E n \in ResetCounts : ResetCapture(n)
      <3>1. /\ ResetsStream /\ outDone' = <<>>
            /\ UNCHANGED <<config, next, written, inQ, pipe, lastSeen, errors>>
        BY <1>7, <2>3 DEF HandleOutput, ResetFails, ResetCapture
      <3>2. QED
        BY <1>2, <1>3, <1>7, <3>1, PlacesReset
    <2>4. QED
      BY <1>7, <2>1, <2>2, <2>3 DEF HandleOutput
  <1>8. CASE DriverConsume
    BY <1>2, <1>3, <1>8, PlacesConsume
  <1>9. ASSUME NEW l \in BOOLEAN, DriverEmit(l) PROVE InFlight'
    <2>1. d + 1 \in 0..NReads /\ Places(d + 1)'
      BY <1>2, <1>9, PlacesEmit
    <2>2. QED
      BY <2>1 DEF InFlight
  <1>10. CASE Empties
    <2>1. /\ pipe' = pipe
          /\ Complete(0, FALSE, FALSE) \/ Complete(0, TRUE, FALSE) \/ Complete(0, FALSE, TRUE)
      BY <1>10 DEF Empties, DriverReturnEmpty, DriverEnd, DriverCorrupt
    <2>2. PICK l \in BOOLEAN, e \in BOOLEAN : Complete(0, l, e)
      BY <2>1
    <2>3. QED
      BY <1>0, <1>2, <1>3, <2>1, <2>2, PlacesReturn
  <1>11. QED
    BY <1>4, <1>5, <1>6, <1>7, <1>8, <1>9, <1>10, Kinds

-----------------------------------------------------------------------------
(* The LAST buffer. *)

LEMMA LastAppended ==
  ASSUME LastIsBehind, outDone \in Seq(Capture), NEW c \in Capture,
         outDone' = Append(outDone, c), c.frame = 0 \/ ~lastSent,
         lastSent' <=> lastSent \/ c.last, lastSent' => lastSeen' /\ pipe' = <<>>,
         pc' = pc, ~MayLose' => ~MayLose
  PROVE  LastIsBehind'
  <1>1. /\ Len(outDone) \in Nat /\ Len(outDone') = Len(outDone) + 1
        /\ outDone'[Len(outDone) + 1] = c
        /\ \A i \in 1..Len(outDone) : outDone'[i] = outDone[i]
    OBVIOUS
  <1>2. ASSUME NEW i \in 1..Len(outDone'), outDone'[i].last
        PROVE  lastSent' /\ \A j \in (i + 1)..Len(outDone') : outDone'[j].frame = 0
    <2>1. CASE i = Len(outDone) + 1
      BY <1>1, <1>2, <2>1
    <2>2. CASE i \in 1..Len(outDone)
      <3>1. lastSent /\ \A j \in (i + 1)..Len(outDone) : outDone[j].frame = 0
        BY <1>1, <1>2, <2>2 DEF LastIsBehind
      <3>2. ASSUME NEW j \in (i + 1)..Len(outDone')
            PROVE  j = Len(outDone) + 1 \/ (j \in (i + 1)..Len(outDone) /\ j \in 1..Len(outDone))
        BY <1>1, <2>2
      <3>3. QED
        BY <1>1, <3>1, <3>2
    <2>3. QED
      BY <1>1, <2>1, <2>2
  <1>3. pc' = "run" /\ lastSent' /\ ~MayLose' => \E i \in 1..Len(outDone') : outDone'[i].last
    <2>1. CASE c.last
      <3>1. Len(outDone) + 1 \in 1..Len(outDone')
        BY <1>1
      <3>2. QED
        BY <1>1, <2>1, <3>1
    <2>2. CASE ~c.last
      <3>1. \A i \in 1..Len(outDone) : i \in 1..Len(outDone')
        BY <1>1
      <3>2. QED
        BY <1>1, <2>2, <3>1 DEF LastIsBehind
    <2>3. QED
      BY <2>1, <2>2
  <1>4. QED
    BY <1>2, <1>3 DEF LastIsBehind

\* The LAST packet is the last one.
LEMMA NothingAfterLast == IInv /\ InFlight /\ pc # "done" /\ lastSeen => inQ = <<>>
  <1> SUFFICES ASSUME IInv, InFlight, pc # "done", lastSeen PROVE inQ = <<>>
    OBVIOUS
  <1>1. PICK d \in 0..NReads : Places(d)
    BY DEF InFlight
  <1>2. next <= NReads + 1 /\ NReads \in Nat /\ next \in Nat /\ Len(inQ) \in Nat
        /\ inQ \in Seq(Packet) /\ Len(pipe) \in Nat
    BY Facts, PlayerAssumption DEF IInv, TypeOK
  <1>3. next - 1 = NReads + Len(inQ)
    BY <1>1, <1>2 DEF Places
  <1>4. QED
    BY <1>2, <1>3

LEMMA LastStep == IInv /\ InFlight /\ NothingBehind /\ LastIsBehind /\ [Next]_vars => LastIsBehind'
  <1> SUFFICES ASSUME IInv, InFlight, NothingBehind, LastIsBehind, [Next]_vars
               PROVE  LastIsBehind'
    OBVIOUS
  <1>0. /\ outDone \in Seq(Capture) /\ pipe \in Seq(1..NReads) /\ NReads \in Nat
        /\ (change => pipe # <<>>) /\ lastSent \in BOOLEAN /\ (~MayLose' => ~MayLose)
    BY LossLasts, Facts DEF IInv, TypeOK, ChangeWaits, NewResolution
  <1>1. ASSUME UNCHANGED <<lastSent, lastSeen, pipe, outDone>>, pc' = "run" => pc = "run" \/ ~lastSent
        PROVE  LastIsBehind'
    BY <1>0, <1>1 DEF LastIsBehind
  <1>2. CASE Quiet \/ Refill \/ DriverChange
    BY <1>1, <1>2 DEF Quiet, Refill, HandleInput, DriverChange, client, driver
  <1>3. CASE Setup
    BY <1>1, <1>3 DEF Setup, IInv, NothingYet, driver
  <1>4. CASE HandleOutput
    <2>1. outDone # <<>> /\ pc = "run"
      BY <1>4 DEF HandleOutput, IInv, Reported
    <2>2. CASE ResetFails
      BY <2>2 DEF ResetFails, LastIsBehind
    <2>3. ASSUME NEW n \in ResetCounts, ResetCapture(n) PROVE LastIsBehind'
      <3>1. ~MayLose => pipe # <<>>
        BY <1>0, <1>4, <2>3, NothingToReset DEF ResetCapture
      <3>2. outDone' = <<>> /\ UNCHANGED <<pc, lastSent, lastSeen, pipe>>
        BY <2>3 DEF ResetCapture
      <3>3. QED
        BY <1>0, <3>1, <3>2 DEF LastIsBehind
    <2>4. CASE EndCapture \/ RequeueCapture
      <3>1. /\ outDone' = Tail(outDone) /\ UNCHANGED <<lastSent, lastSeen, pipe>>
            /\ pc' = "run" => ~Done.last
        BY <2>4 DEF EndCapture, RequeueCapture, driver
      <3>2. /\ \A i \in 1..Len(outDone') : outDone'[i] = outDone[i + 1] /\ i + 1 \in 1..Len(outDone)
            /\ Len(outDone') = Len(outDone) - 1 /\ Len(outDone) \in Nat /\ Done = outDone[1]
        BY <1>0, <2>1, <3>1, TailOf DEF Done
      <3>3. ASSUME NEW i \in 1..Len(outDone'), outDone'[i].last
            PROVE  lastSent' /\ \A j \in (i + 1)..Len(outDone') : outDone'[j].frame = 0
        <4>1. lastSent /\ \A j \in (i + 1 + 1)..Len(outDone) : outDone[j].frame = 0
          BY <3>2, <3>3 DEF LastIsBehind
        <4>2. \A j \in (i + 1)..Len(outDone') :
                j \in 1..Len(outDone') /\ j + 1 \in (i + 1 + 1)..Len(outDone)
          BY <3>2
        <4>3. QED
          BY <3>1, <3>2, <4>1, <4>2
      <3>4. ASSUME pc' = "run", lastSent', ~MayLose' PROVE \E i \in 1..Len(outDone') : outDone'[i].last
        <4>1. PICK i \in 1..Len(outDone) : outDone[i].last
          BY <1>0, <2>1, <3>1, <3>4 DEF LastIsBehind
        <4>2. i # 1
          BY <3>1, <3>2, <3>4, <4>1
        <4>3. i - 1 \in 1..Len(outDone') /\ (i - 1) + 1 = i
          BY <3>2, <4>2
        <4>4. outDone'[i - 1].last
          BY <3>2, <4>1, <4>3
        <4>5. QED
          BY <4>3, <4>4
      <3>5. QED
        BY <3>1, <3>3, <3>4 DEF LastIsBehind
    <2>5. QED
      BY <1>4, <2>2, <2>3, <2>4 DEF HandleOutput
  <1>5. CASE DriverConsume
    <2>1. inQ # <<>> /\ pc = "run" /\ UNCHANGED <<pc, lastSent, outDone>>
      BY <1>5 DEF DriverConsume, CanConsume, Streaming, client
    <2>2. ~lastSent
      BY <2>1, NothingAfterLast DEF LastIsBehind
    <2>3. QED
      BY <2>1, <2>2 DEF LastIsBehind
  <1>6. ASSUME NEW f \in 0..NReads, NEW l \in BOOLEAN, NEW e \in BOOLEAN, Complete(f, l, e),
               f = 0 \/ ~lastSent, lastSent' <=> lastSent \/ l, lastSent' => lastSeen /\ pipe' = <<>>
        PROVE  LastIsBehind'
    <2> DEFINE c == [frame |-> f, last |-> l, error |-> e]
    <2>1. /\ c \in Capture /\ c.frame = f /\ c.last = l /\ outDone' = Append(outDone, c)
          /\ pc' = pc /\ lastSeen' = lastSeen
      BY <1>6 DEF Complete, Capture, client
    <2> HIDE DEF c
    <2>2. QED
      BY <1>0, <1>6, <2>1, LastAppended
  <1>7. ASSUME NEW l \in BOOLEAN, DriverEmit(l) PROVE LastIsBehind'
    <2>1. /\ pipe # <<>> /\ ~lastSent /\ lastSent' = l /\ pipe' = Tail(pipe)
          /\ (l => lastSeen /\ Len(pipe) = 1) /\ Complete(Head(pipe), l, FALSE)
      BY <1>7 DEF DriverEmit, CanEmit, LastIsBehind
    <2>2. Head(pipe) \in 0..NReads /\ FALSE \in BOOLEAN
      BY <1>0, <2>1, HeadIsMember
    <2>3. Len(pipe) = 1 => Tail(pipe) = <<>>
      <3>1. Tail(pipe) \in Seq(1..NReads) /\ (Len(pipe) = 1 => Len(Tail(pipe)) = 0)
        BY <1>0, <2>1, TailOf
      <3>2. QED
        BY <3>1, EmptySeq
    <2>4. lastSent' <=> lastSent \/ l
      BY <2>1
    <2>5. lastSent' => lastSeen /\ pipe' = <<>>
      BY <2>1, <2>3, Zenon
    <2>6. QED
      BY <1>6, <2>1, <2>2, <2>4, <2>5
  <1>8. CASE Empties
    <2>0. 0 \in 0..NReads /\ FALSE \in BOOLEAN /\ TRUE \in BOOLEAN
      BY <1>0
    <2>1. CASE DriverReturnEmpty \/ DriverCorrupt
      <3>1. /\ Complete(0, FALSE, FALSE) \/ Complete(0, FALSE, TRUE)
            /\ lastSent' = lastSent /\ pipe' = pipe
        BY <2>1 DEF DriverReturnEmpty, DriverCorrupt
      <3>2. (lastSent' <=> lastSent \/ FALSE) /\ (lastSent' => lastSeen /\ pipe' = <<>>)
        BY <3>1 DEF LastIsBehind
      <3>3. QED
        BY <1>6, <2>0, <3>1, <3>2
    <2>2. CASE DriverEnd
      <3>1. /\ Complete(0, TRUE, FALSE) /\ (lastSent' <=> lastSent \/ TRUE)
            /\ (lastSent' => lastSeen /\ pipe' = <<>>)
        BY <1>0, <2>2 DEF DriverEnd, CanEnd
      <3>2. QED
        BY <1>6, <2>0, <3>1
    <2>3. QED
      BY <1>8, <2>1, <2>2 DEF Empties
  <1>9. QED
    BY <1>2, <1>3, <1>4, <1>5, <1>7, <1>8, Kinds

-----------------------------------------------------------------------------
(* The end of a session. *)

\* With the LAST buffer the program has every frame but the one in it.
LEMMA LastFrame ==
  ASSUME FlowInv, HandleOutput, Done.last
  PROVE  /\ ~exact
         /\ ~MayLose => \E n \in {NReads - 1, NReads} : written = [i \in 1..n |-> i]
  <1>1. /\ outDone # <<>> /\ pc = "run" /\ IInv /\ InFlight /\ LastIsBehind
        /\ NReads \in Nat \ {0} /\ outDone \in Seq(Capture) /\ Len(written) \in Nat
    BY Facts DEF HandleOutput, FlowInv, IInv, Reported
  <1>2. /\ 1 \in 1..Len(outDone) /\ Done = outDone[1] /\ Tail(outDone) \in Seq(Capture)
        /\ \A i \in 1..Len(Tail(outDone)) :
              Tail(outDone)[i] = outDone[i + 1] /\ i + 1 \in (1 + 1)..Len(outDone)
    BY <1>1, TailOf DEF Done
  <1>3. lastSeen /\ pipe = <<>> /\ \A j \in (1 + 1)..Len(outDone) : outDone[j].frame = 0
    BY <1>1, <1>2 DEF LastIsBehind
  <1>4. PICK d \in 0..NReads : Places(d)
    BY <1>1 DEF InFlight
  <1>5. d = NReads /\ ~exact
    BY <1>1, <1>3, <1>4 DEF Places
  <1> DEFINE n == Len(written)
  <1>6. n \in Nat /\ d \in Nat
    BY <1>1
  <1>7. ~MayLose => written = [i \in 1..n |-> i] /\ Carries(outDone, n, d)
    BY <1>4 DEF Places
  <1> HIDE DEF n
  <1>8. ASSUME ~MayLose PROVE n \in {NReads - 1, NReads}
    <2>1. \A i \in 1..Len(Tail(outDone)) : Tail(outDone)[i].frame = 0
      BY <1>2, <1>3
    <2>2. \/ Carries(Tail(outDone), n, d)
          \/ Carries(Tail(outDone), n + 1, d)
      BY <1>1, <1>6, <1>7, <1>8, FrameNumbers, CarriesTail
    <2>3. n = d \/ n + 1 = d
      <3>1. n + 1 \in Nat
        BY <1>6
      <3>2. QED
        BY <1>2, <1>6, <2>1, <2>2, <3>1, CarriesNothing
    <2>4. QED
      BY <1>1, <1>5, <1>6, <2>3
  <1>9. QED
    BY <1>5, <1>7, <1>8

LEMMA DoneStep == FlowInv /\ DoneComplete /\ [Next]_vars => DoneComplete'
  <1> SUFFICES ASSUME FlowInv, DoneComplete, [Next]_vars, pc' = "done" PROVE DoneComplete'
    BY DEF DoneComplete
  <1>0. IInv /\ config' = config /\ (~MayLose' => ~MayLose)
    BY LossLasts DEF FlowInv
  <1>1. CASE pc = "done"
    <2>1. UNCHANGED vars
      BY <1>1 DEF Next, Client, Setup, SetupFails, Poll, PollError, PollTimeout, Polling,
         HandleInput, HandleOutput, DriverWork, DriverConsume, DriverChange, DriverReturnEmpty,
         DriverEnd, DriverEmit, DriverCorrupt, DriverBreak, Streaming, Terminated
    <2>2. QED
      BY <1>1, <2>1 DEF DoneComplete, MayLose, vars, config, client, driver
  <1>2. CASE pc # "done"
    <2>1. HandleOutput /\ EndCapture
      BY <1>2 DEF Next, Client, Setup, SetupFails, Poll, PollError, PollTimeout, Polling,
         HandleInput, HandleOutput, RequeueCapture, ResetFails, ResetCapture, DriverWork,
         DriverConsume, DriverChange, DriverReturnEmpty, DriverEnd, DriverEmit, Complete,
         DriverCorrupt, DriverBreak, Streaming, Terminated, vars, client
    <2>2. Done.last /\ written' = written
      BY <2>1 DEF EndCapture
    <2>3. QED
      BY <1>0, <2>1, <2>2, LastFrame DEF DoneComplete, config
  <1>3. QED
    BY <1>1, <1>2

\* While nothing is out of order, one of the program and the driver can go on.
LEMMA NeverStuck ==
  ASSUME FlowInv, Polling, Ready = {}, DriverIdle
  PROVE  exact \/ MayLose
  <1> SUFFICES ASSUME ~exact, ~MayLose PROVE FALSE
    OBVIOUS
  <1>1. /\ IInv /\ InFlight /\ LastIsBehind /\ PendingExact /\ BuffersLeft /\ pc = "run"
        /\ NReads \in Nat \ {0} /\ inDone \in Nat /\ outQ \in Nat /\ next \in Nat
        /\ inPending \in Nat /\ outPending \in Nat /\ Len(inQ) \in Nat /\ Len(outDone) \in Nat
        /\ pipe \in Seq(1..NReads) /\ inQ \in Seq(Packet) /\ outDone \in Seq(Capture)
        /\ Depth \in Nat \ {0}
    BY Facts, PlayerAssumption DEF FlowInv, IInv, TypeOK, Polling
  <1>2. inDone = 0 /\ outDone = <<>>
    <2>1. "OUT" \notin Ready /\ "IN" \notin Ready
      OBVIOUS
    <2>2. ~(inPending > 0 /\ inDone > 0) /\ ~(outPending > 0 /\ outDone # <<>>)
      BY <2>1 DEF Ready
    <2>3. QED
      BY <1>1, <2>2 DEF PendingExact, BuffersLeft
  <1>3. outQ > 0
    BY <1>1, <1>2 DEF PendingExact, BuffersLeft
  <1>4. pipe = <<>>
    <2>1. NewResolution => FALSE
      BY <1>1, <1>3 DEF DriverIdle, CanChange, CanReturn
    <2>2. QED
      BY <1>1, <1>3, <2>1 DEF DriverIdle, CanEmit
  <1>5. inQ = <<>>
    BY <1>1, <1>4 DEF DriverIdle, CanConsume
  <1>6. next > NReads
    BY <1>1, <1>2, <1>5 DEF PendingExact, BuffersLeft
  <1>7. lastSeen
    <2>1. PICK d \in 0..NReads : Places(d)
      BY <1>1 DEF InFlight
    <2>2. next - 1 = d /\ (lastSeen <=> d = NReads)
      BY <1>1, <1>4, <1>5, <2>1 DEF Places
    <2>3. QED
      BY <1>1, <1>6, <2>2
  <1>8. lastSent
    BY <1>3, <1>4, <1>7 DEF DriverIdle, CanEnd
  <1>9. QED
    BY <1>1, <1>2, <1>8 DEF LastIsBehind

LEMMA StallStep == FlowInv /\ NoStall /\ [Next]_vars => NoStall'
  <1> SUFFICES ASSUME FlowInv, NoStall, [Next]_vars, pc' = "failed" PROVE NoStall'
    BY DEF NoStall
  <1>1. CASE PollTimeout
    <2>1. exact \/ MayLose
      BY <1>1, NeverStuck DEF PollTimeout
    <2>2. QED
      BY <1>1, <2>1 DEF PollTimeout, NoStall, MayLose, config, driver
  <1>2. CASE SetupFails \/ PollError
    BY <1>2 DEF SetupFails, PollError, Polling, NoStall, driver
  <1>3. CASE HandleOutput
    BY <1>3 DEF HandleOutput, EndCapture, RequeueCapture, ResetCapture, ResetFails, NoStall
  <1>4. CASE Terminated \/ UNCHANGED vars
    BY <1>4 DEF Terminated, vars, config, client, driver, NoStall, MayLose
  <1>5. QED
    BY <1>1, <1>2, <1>3, <1>4
       DEF Next, Client, Setup, Poll, Polling, HandleInput, DriverWork, DriverConsume,
           DriverChange, DriverReturnEmpty, DriverEnd, DriverEmit, Complete, DriverCorrupt,
           DriverBreak, Streaming, client

LEMMA FlowInvariance == Spec => []FlowInv
  <1>1. Init => FlowInv
    <2> SUFFICES ASSUME Init PROVE FlowInv
      OBVIOUS
    <2>1. IInv /\ NReads \in Nat \ {0}
      BY InitIInv, PlayerAssumption
    <2>2. Places(0)
      BY <2>1, CarriesEmpty DEF Init, Places
    <2>3. QED
      BY <2>1, <2>2
         DEF Init, FlowInv, InFlight, LastIsBehind, NothingBehind, BuffersLeft
  <1>2. FlowInv /\ [Next]_vars => FlowInv'
    BY NextIInv, FlightStep, LastStep, BehindStep, BuffersStep DEF FlowInv
  <1>3. QED
    BY <1>1, <1>2, PTL DEF Spec

\* A session of mvx_userptr or mvx_secureplayer that ends well has handed on every frame
\* of the file in order but the one in the LAST buffer, for any numbers of buffers,
\* changes of resolution and reads, unless mvx_userptr took a corrupt buffer for a change.
THEOREM EndsWellComplete == Spec => []DoneComplete
  <1>1. Init => DoneComplete
    BY DEF Init, DoneComplete
  <1>2. QED
    BY <1>1, DoneStep, FlowInvariance, PTL DEF Spec

\* The time limit of poll only ever ends a session on a file that is a multiple of the
\* buffer, or where mvx_userptr lost its LAST buffer: the two players and a driver in
\* order never wait for each other.
THEOREM NeverStalls == Spec => []NoStall
  <1>1. Init => NoStall
    BY DEF Init, NoStall
  <1>2. QED
    BY <1>1, StallStep, FlowInvariance, PTL DEF Spec

-----------------------------------------------------------------------------
(* Nothing goes on for ever. *)

\* How many elements of s are in C.
Hits(s, C) == Cardinality({i \in 1..Len(s) : s[i] \in C})

LEMMA HitsNone == ASSUME NEW C PROVE Hits(<<>>, C) = 0
  <1>1. {i \in 1..Len(<<>>) : <<>>[i] \in C} = {}
    OBVIOUS
  <1>2. QED
    BY <1>1, FS_EmptySet DEF Hits

LEMMA HitsFinite ==
    ASSUME NEW S, NEW s \in Seq(S), NEW C
    PROVE  IsFiniteSet({i \in 1..Len(s) : s[i] \in C}) /\ Hits(s, C) \in Nat
  <1> DEFINE H == {i \in 1..Len(s) : s[i] \in C}
  <1>1. IsFiniteSet(1..Len(s))
    BY FS_Interval
  <1>2. H \in SUBSET (1..Len(s))
    OBVIOUS
  <1>3. IsFiniteSet(H)
    BY <1>1, <1>2, FS_Subset
  <1>4. Cardinality(H) \in Nat
    BY <1>3, FS_CardinalityType
  <1>5. QED
    BY <1>3, <1>4 DEF Hits

LEMMA HitsAppend ==
    ASSUME NEW S, NEW s \in Seq(S), NEW x \in S, NEW C
    PROVE  Hits(Append(s, x), C) = Hits(s, C) + IF x \in C THEN 1 ELSE 0
  <1> DEFINE t == Append(s, x)
             k == Len(s)
             H == {i \in 1..k : s[i] \in C}
             G == {i \in 1..Len(t) : t[i] \in C}
  <1>1. k \in Nat /\ Len(t) = k + 1 /\ t[k + 1] = x /\ \A i \in 1..k : t[i] = s[i]
    OBVIOUS
  <1>2. IsFiniteSet(H) /\ Cardinality(H) \in Nat
    BY HitsFinite DEF Hits
  <1> HIDE DEF t, k
  <1>3. k + 1 \notin H
    BY <1>1
  <1>4. CASE x \in C
    <2>1. G = H \cup {k + 1}
      BY <1>1, <1>4
    <2> HIDE DEF G, H
    <2>2. Cardinality(G) = Cardinality(H) + 1
      BY <1>2, <1>3, <2>1, FS_AddElement
    <2>3. QED
      BY <1>4, <2>2 DEF Hits, G, H, t, k
  <1>5. CASE x \notin C
    <2>1. G = H
      BY <1>1, <1>5
    <2> HIDE DEF G, H
    <2>2. Cardinality(G) = Cardinality(H) + 0
      BY <1>2, <2>1
    <2>3. QED
      BY <1>5, <2>2 DEF Hits, G, H, t, k
  <1>6. QED
    BY <1>4, <1>5

LEMMA HitsTail ==
    ASSUME NEW S, NEW s \in Seq(S), s # <<>>, NEW C
    PROVE  /\ Hits(Tail(s), C) \in Nat /\ Hits(s, C) \in Nat
           /\ Hits(Tail(s), C) + (IF Head(s) \in C THEN 1 ELSE 0) <= Hits(s, C)
  <1> DEFINE t == Tail(s)
             k == Len(s)
             H == {i \in 1..k : s[i] \in C}
             G == {i \in 1..Len(t) : t[i] \in C}
             f == [i \in G |-> i + 1]
  <1>1. /\ k \in Nat /\ k > 0 /\ Len(t) = k - 1 /\ Head(s) = s[1] /\ t \in Seq(S)
        /\ \A i \in 1..Len(t) : t[i] = s[i + 1] /\ i + 1 \in 1..k
    BY TailOf
  <1>2. IsFiniteSet(H) /\ Cardinality(H) \in Nat
    BY HitsFinite DEF Hits
  <1>3. IsFiniteSet(G) /\ Cardinality(G) \in Nat
    BY <1>1, HitsFinite DEF Hits
  <1> HIDE DEF t, k
  <1>4. \A i \in G : i + 1 \in H \ {1}
    BY <1>1
  <1>5. IsFiniteSet(H \ {1}) /\ Cardinality(H \ {1})
                                    = IF 1 \in H THEN Cardinality(H) - 1 ELSE Cardinality(H)
    <2> HIDE DEF H
    <2>1. QED
      BY <1>2, FS_RemoveElement
  <1>6. 1 \in H <=> Head(s) \in C
    BY <1>1
  <1>7. f \in Injection(G, H \ {1})
    <2>1. \A i \in G : i \in Nat
      BY <1>1
    <2> HIDE DEF G, H
    <2>2. f \in [G -> H \ {1}]
      BY <1>4
    <2>3. \A i, j \in G : f[i] = f[j] => i = j
      BY <2>1
    <2>4. QED
      BY <2>2, <2>3, Fun_IsInj
  <1>8. Cardinality(G) <= Cardinality(H \ {1})
    <2> HIDE DEF G, H, f
    <2>1. QED
      BY <1>5, <1>7, FS_Injection
  <1>9. Cardinality(G) + (IF Head(s) \in C THEN 1 ELSE 0) <= Cardinality(H)
    <2> HIDE DEF G, H
    <2>1. QED
      BY <1>2, <1>3, <1>5, <1>6, <1>8
  <1>10. QED
    BY <1>2, <1>3, <1>9 DEF Hits, G, H, t, k

-----------------------------------------------------------------------------
\* What is left of a session.  Each part may rise only where one before it falls: a reset
\* of the capture port fills its queue again, and answers a change or takes a corrupt
\* buffer away.  A read counts four times, once for each queue it has to go through.
Corrupt == {c \in Capture : c.error}
Frames == {c \in Capture : c.frame # 0}

Stage == IF pc = "setup" THEN 2 ELSE IF pc = "run" THEN 1 ELSE 0
InOrder == IF broken THEN 0 ELSE 1
CorruptDone == Hits(outDone, Corrupt)
FramesDone == Hits(outDone, Frames)
Unanswered == (NReads - resolved) + 2 * (MaxErrors - errors) + CorruptDone
Unannounced == IF change THEN 0 ELSE 1
Work == 4 * (NReads + 1 - next) + 4 * Len(inQ) + inDone + 2 * Len(pipe)
        + 2 * FramesDone + outQ
Unpolled == IF revents = {} THEN 1 ELSE 0

Left == <<Stage, InOrder, Unanswered, Unannounced, Work, Unpolled>>

LessThan == {p \in Nat \X Nat : p[1] < p[2]}
Sooner == LexProductOrdering(LessThan, Nat, 6)
Nearer == <<Left', Left>> \in Sooner

LEMMA SoonerIsWellFounded == IsWellFoundedOn(Sooner, [1..6 -> Nat])
  <1>1. OpToRel(<, Nat) = LessThan
    BY DEF OpToRel, LessThan
  <1>2. IsWellFoundedOn(LessThan, Nat)
    BY <1>1, NatLessThanWellFounded
  <1>3. QED
    BY <1>2, WFLexProductOrdering DEF Sooner

\* It is enough that a part falls and none before it rises.
LEMMA Falls ==
    ASSUME NEW u \in [1..6 -> Nat], NEW v \in [1..6 -> Nat], NEW j \in 1..6,
           u[j] < v[j], \A i \in 1..(j - 1) : u[i] <= v[i]
    PROVE  <<u, v>> \in Sooner
  <1>1. \A i \in 1..6 : u[i] \in Nat /\ v[i] \in Nat
    OBVIOUS
  <1>2. ASSUME NEW k \in 1..6, u[k] < v[k], \A i \in 1..(k - 1) : u[i] = v[i]
        PROVE  <<u, v>> \in Sooner
    BY <1>1, <1>2 DEF Sooner, LexProductOrdering, LessThan
  <1>3. \E k \in 1..6 : u[k] < v[k] /\ \A i \in 1..(k - 1) : u[i] = v[i]
    <2>1. CASE u[1] < v[1]
      BY <2>1
    <2>2. CASE u[1] = v[1] /\ u[2] < v[2]
      BY <2>2
    <2>3. CASE u[1] = v[1] /\ u[2] = v[2] /\ u[3] < v[3]
      BY <2>3
    <2>4. CASE u[1] = v[1] /\ u[2] = v[2] /\ u[3] = v[3] /\ u[4] < v[4]
      BY <2>4
    <2>5. CASE u[1] = v[1] /\ u[2] = v[2] /\ u[3] = v[3] /\ u[4] = v[4] /\ u[5] < v[5]
      BY <2>5
    <2>6. CASE /\ u[1] = v[1] /\ u[2] = v[2] /\ u[3] = v[3] /\ u[4] = v[4] /\ u[5] = v[5]
               /\ u[6] < v[6]
      BY <2>6
    <2>7. j = 1 \/ j = 2 \/ j = 3 \/ j = 4 \/ j = 5 \/ j = 6
      OBVIOUS
    <2>8. QED
      BY <1>1, <2>1, <2>2, <2>3, <2>4, <2>5, <2>6, <2>7
  <1>4. QED
    BY <1>2, <1>3

LEMMA Sizes ==
    ASSUME IInv
    PROVE  /\ NReads \in Nat /\ MaxErrors \in Nat /\ resolved \in Nat /\ resolved <= NReads
           /\ errors \in Nat /\ errors <= MaxErrors /\ next \in Nat /\ next <= NReads + 1
           /\ inDone \in Nat /\ outQ \in Nat /\ Len(inQ) \in Nat /\ Len(pipe) \in Nat
           /\ CorruptDone \in Nat /\ FramesDone \in Nat
  <1>1. /\ NReads \in Nat /\ MaxErrors \in Nat /\ resolved \in 0..NReads
        /\ errors \in 0..MaxErrors /\ next \in 1..(NReads + 1)
        /\ inDone \in Nat /\ outQ \in Nat
    BY PlayerAssumption DEF IInv, TypeOK
  <1>2. CorruptDone \in Nat /\ FramesDone \in Nat
    BY Facts, HitsFinite DEF CorruptDone, FramesDone
  <1>3. QED
    BY <1>1, <1>2, Facts

LEMMA PartsAreNat ==
    ASSUME IInv
    PROVE  /\ Stage \in Nat /\ InOrder \in Nat /\ Unanswered \in Nat /\ Unannounced \in Nat
           /\ Work \in Nat /\ Unpolled \in Nat
  <1>1. /\ NReads \in Nat /\ MaxErrors \in Nat /\ resolved \in Nat /\ resolved <= NReads
        /\ errors \in Nat /\ errors <= MaxErrors /\ next \in Nat /\ next <= NReads + 1
        /\ inDone \in Nat /\ outQ \in Nat /\ Len(inQ) \in Nat /\ Len(pipe) \in Nat
        /\ CorruptDone \in Nat /\ FramesDone \in Nat
    BY Sizes
  <1>2. Unanswered \in Nat
    BY <1>1 DEF Unanswered
  <1>3. Work \in Nat
    BY <1>1 DEF Work
  <1>4. QED
    BY <1>2, <1>3 DEF Stage, InOrder, Unannounced, Unpolled

\* Nothing that was done is touched.
LEMMA SameDone == outDone' = outDone => CorruptDone' = CorruptDone /\ FramesDone' = FramesDone
  BY DEF CorruptDone, FramesDone, Hits, Corrupt, Frames, Capture

\* Part j falls and none before it rises.
Part(j) == /\ Left'[j] < Left[j]
           /\ \A i \in 1..(j - 1) : Left'[i] <= Left[i]

LEMMA PartOf ==
    ASSUME IInv
    PROVE  /\ Stage' < Stage => Part(1)
           /\ UNCHANGED Stage /\ InOrder' < InOrder => Part(2)
           /\ UNCHANGED <<Stage, InOrder>> /\ Unanswered' < Unanswered => Part(3)
           /\ UNCHANGED <<Stage, InOrder>> /\ Unanswered' <= Unanswered
                /\ Unannounced' < Unannounced => Part(4)
           /\ UNCHANGED <<Stage, InOrder, Unannounced>> /\ Unanswered' <= Unanswered
                /\ Work' < Work => Part(5)
           /\ UNCHANGED <<Stage, InOrder, Unanswered, Unannounced, Work>>
                /\ Unpolled' < Unpolled => Part(6)
  <1>1. /\ Left[1] = Stage /\ Left[2] = InOrder /\ Left[3] = Unanswered
        /\ Left[4] = Unannounced /\ Left[5] = Work /\ Left[6] = Unpolled
    BY DEF Left
  <1>2. /\ Left'[1] = Stage' /\ Left'[2] = InOrder' /\ Left'[3] = Unanswered'
        /\ Left'[4] = Unannounced' /\ Left'[5] = Work' /\ Left'[6] = Unpolled'
    BY DEF Left
  <1>3. /\ Stage \in Nat /\ InOrder \in Nat /\ Unanswered \in Nat /\ Unannounced \in Nat
        /\ Work \in Nat /\ Unpolled \in Nat
    BY PartsAreNat
  <1>4. QED
    BY <1>1, <1>2, <1>3 DEF Part

\* The program stops, or what the driver holds becomes of no use to it.
LEMMA StopsFall ==
    ASSUME IInv, Setup \/ SetupFails \/ PollError \/ PollTimeout \/ DriverBreak
    PROVE  Part(1) \/ Part(2)
  <1>1. CASE Setup
    BY <1>1, PartOf DEF Setup, Stage
  <1>2. CASE SetupFails
    BY <1>2, PartOf DEF SetupFails, Stage
  <1>3. CASE PollError \/ PollTimeout
    BY <1>3, PartOf DEF PollError, PollTimeout, Polling, Stage
  <1>4. CASE DriverBreak
    BY <1>4, PartOf DEF DriverBreak, Streaming, Stage, InOrder, client
  <1>5. QED
    BY <1>1, <1>2, <1>3, <1>4

LEMMA PollFalls == ASSUME IInv, Poll PROVE Part(6)
  <1>1. UNCHANGED <<Stage, InOrder, Unanswered, Unannounced, Work>>
    BY SameDone DEF Poll, driver, Stage, InOrder, Unanswered, Unannounced, Work
  <1>2. Unpolled' < Unpolled
    BY DEF Poll, Polling, Unpolled
  <1>3. QED
    BY <1>1, <1>2, PartOf

LEMMA InputFalls == ASSUME IInv, HandleInput PROVE Part(5)
  <1>1. /\ NReads \in Nat /\ next \in Nat /\ inDone \in Nat /\ outQ \in Nat
        /\ Len(inQ) \in Nat /\ Len(pipe) \in Nat /\ FramesDone \in Nat
    BY Sizes
  <1>2. inDone > 0 /\ inDone' = inDone - 1
    BY DEF IInv, Reported, HandleInput
  <1>3. UNCHANGED <<Stage, InOrder, Unanswered, Unannounced>>
    BY SameDone DEF HandleInput, driver, Stage, InOrder, Unanswered, Unannounced
  <1>4. outQ' = outQ /\ Len(pipe') = Len(pipe) /\ FramesDone' = FramesDone
    BY SameDone DEF HandleInput, driver
  <1>5. ASSUME KeepInput PROVE next' = next /\ Len(inQ') = Len(inQ)
    BY <1>5 DEF KeepInput
  <1>6. ASSUME RefillInput PROVE next' = next + 1 /\ Len(inQ') = Len(inQ) + 1
    <2>1. inQ \in Seq(Packet)
      BY Facts
    <2>2. QED
      BY <1>6, <2>1 DEF RefillInput
  <1>7. Work' < Work
    <2>1. \/ next' = next /\ Len(inQ') = Len(inQ)
          \/ next' = next + 1 /\ Len(inQ') = Len(inQ) + 1
      BY <1>5, <1>6 DEF HandleInput
    <2>2. CASE next' = next /\ Len(inQ') = Len(inQ)
      BY <1>1, <1>2, <1>4, <2>2 DEF Work
    <2>3. CASE next' = next + 1 /\ Len(inQ') = Len(inQ) + 1
      BY <1>1, <1>2, <1>4, <2>3 DEF Work
    <2>4. QED
      BY <2>1, <2>2, <2>3
  <1>8. Unanswered' <= Unanswered
    BY <1>3, PartsAreNat
  <1>9. QED
    BY <1>3, <1>7, <1>8, PartOf

LEMMA ConsumeFalls == ASSUME IInv, DriverConsume PROVE Part(5)
  <1>1. /\ NReads \in Nat /\ next \in Nat /\ inDone \in Nat /\ outQ \in Nat
        /\ Len(inQ) \in Nat /\ Len(pipe) \in Nat /\ FramesDone \in Nat
    BY Sizes
  <1>2. inDone' = inDone + 1 /\ outQ' = outQ /\ next' = next /\ FramesDone' = FramesDone
    BY SameDone DEF DriverConsume, client
  <1>3. UNCHANGED <<Stage, InOrder, Unanswered, Unannounced>>
    BY SameDone DEF DriverConsume, client, Stage, InOrder, Unanswered, Unannounced
  <1>4. inQ \in Seq(Packet) /\ inQ # <<>> /\ pipe \in Seq(1..NReads)
    BY Facts DEF DriverConsume, CanConsume
  <1>5. Len(inQ') = Len(inQ) - 1
    BY <1>4, TailOf DEF DriverConsume
  <1>6. Len(pipe') = Len(pipe) + 1
    BY <1>4 DEF DriverConsume
  <1>7. Work' < Work
    BY <1>1, <1>2, <1>5, <1>6 DEF Work
  <1>8. Unanswered' <= Unanswered
    BY <1>3, PartsAreNat
  <1>9. QED
    BY <1>3, <1>7, <1>8, PartOf

LEMMA ChangeFalls == ASSUME IInv, DriverChange PROVE Part(4)
  <1>1. UNCHANGED <<Stage, InOrder, Unanswered>>
    BY SameDone DEF DriverChange, client, Stage, InOrder, Unanswered
  <1>2. Unannounced' < Unannounced
    BY DEF DriverChange, CanChange, Unannounced
  <1>3. Unanswered' <= Unanswered
    BY <1>1, PartsAreNat
  <1>4. QED
    BY <1>1, <1>2, <1>3, PartOf

LEMMA DoneAfter == CorruptDone' = Hits(outDone', Corrupt) /\ FramesDone' = Hits(outDone', Frames)
  BY DEF CorruptDone, FramesDone, Hits, Corrupt, Frames, Capture

\* The driver fills a buffer.
LEMMA Completed ==
    ASSUME IInv, NEW f, f \in 0..NReads, NEW l, l \in BOOLEAN, NEW e, e \in BOOLEAN,
           Complete(f, l, e)
    PROVE  /\ (e => CorruptDone' = CorruptDone + 1) /\ (~e => CorruptDone' = CorruptDone)
           /\ (f # 0 => FramesDone' = FramesDone + 1) /\ (f = 0 => FramesDone' = FramesDone)
  <1> DEFINE c == [frame |-> f, last |-> l, error |-> e]
  <1>1. c \in Capture /\ outDone \in Seq(Capture) /\ outDone' = Append(outDone, c)
    BY DEF Capture, IInv, TypeOK, Complete
  <1>2. c.error = e /\ c.frame = f
    OBVIOUS
  <1>3. (c \in Corrupt <=> e) /\ (c \in Frames <=> f # 0)
    BY <1>1, <1>2 DEF Corrupt, Frames
  <1> HIDE DEF c
  <1>4. /\ Hits(outDone', Corrupt) = Hits(outDone, Corrupt) + IF c \in Corrupt THEN 1 ELSE 0
        /\ Hits(outDone', Frames) = Hits(outDone, Frames) + IF c \in Frames THEN 1 ELSE 0
    BY <1>1, HitsAppend
  <1>5. CorruptDone' = Hits(outDone', Corrupt) /\ FramesDone' = Hits(outDone', Frames)
    BY DoneAfter
  <1>6. CorruptDone \in Nat /\ FramesDone \in Nat
    BY Sizes
  <1>7. QED
    BY <1>3, <1>4, <1>5, <1>6 DEF CorruptDone, FramesDone

LEMMA CompletedEmpty ==
    ASSUME IInv, NEW l \in BOOLEAN, NEW e \in BOOLEAN, Complete(0, l, e)
    PROVE  /\ (e => CorruptDone' = CorruptDone + 1) /\ (~e => CorruptDone' = CorruptDone)
           /\ FramesDone' = FramesDone
  <1> DEFINE f == 0
  <1>1. f \in 0..NReads /\ Complete(f, l, e) /\ f = 0
    BY PlayerAssumption
  <1> HIDE DEF f
  <1>2. QED
    BY <1>1, Completed

LEMMA ReturnsFall == ASSUME IInv, DriverReturnEmpty \/ DriverEnd PROVE Part(5)
  <1>1. PICK l \in BOOLEAN : Complete(0, l, FALSE)
    BY DEF DriverReturnEmpty, DriverEnd
  <1>2. /\ NReads \in Nat /\ next \in Nat /\ inDone \in Nat /\ outQ \in Nat /\ outQ > 0
        /\ Len(inQ) \in Nat /\ Len(pipe) \in Nat
    BY Sizes DEF DriverReturnEmpty, DriverEnd, CanReturn, CanEnd
  <1>3. /\ UNCHANGED <<pc, broken, resolved, errors, change, next, inQ, inDone, pipe>>
        /\ outQ' = outQ - 1
    BY <1>1 DEF Complete, client, DriverReturnEmpty, DriverEnd
  <1>4. /\ CorruptDone' = CorruptDone /\ FramesDone' = FramesDone
        /\ CorruptDone \in Nat /\ FramesDone \in Nat
    BY <1>1, <1>2, CompletedEmpty, Sizes
  <1>5. UNCHANGED <<Stage, InOrder, Unanswered, Unannounced>>
    BY <1>3, <1>4 DEF Stage, InOrder, Unanswered, Unannounced
  <1>6. Work' < Work
    BY <1>2, <1>3, <1>4 DEF Work
  <1>7. Unanswered' <= Unanswered
    BY <1>5, PartsAreNat
  <1>8. QED
    BY <1>5, <1>6, <1>7, PartOf

LEMMA EmitFalls == ASSUME IInv, NEW l \in BOOLEAN, DriverEmit(l) PROVE Part(5)
  <1>1. pipe \in Seq(1..NReads) /\ pipe # <<>> /\ NReads \in Nat
    BY PlayerAssumption DEF IInv, TypeOK, DriverEmit, CanEmit
  <1> DEFINE f == Head(pipe)
  <1>2. f \in 1..NReads /\ Complete(f, l, FALSE) /\ Len(pipe) \in Nat /\ Len(pipe') = Len(pipe) - 1
    BY <1>1, TailOf DEF DriverEmit
  <1> HIDE DEF f
  <1>3. /\ next \in Nat /\ inDone \in Nat /\ outQ \in Nat /\ Len(inQ) \in Nat
    BY Sizes
  <1>4. /\ UNCHANGED <<pc, broken, resolved, errors, change, next, inQ, inDone>>
        /\ outQ' = outQ - 1 /\ outQ > 0
    BY <1>2 DEF Complete, client, DriverEmit, CanEmit
  <1>5. CorruptDone' = CorruptDone /\ FramesDone' = FramesDone + 1 /\ FramesDone \in Nat
    <2> DEFINE e == FALSE
    <2>1. f \in 0..NReads /\ f # 0
      BY <1>1, <1>2
    <2>2. e \in BOOLEAN /\ ~e
      OBVIOUS
    <2>3. Complete(f, l, e)
      BY <1>2, Zenon
    <2> HIDE DEF e
    <2>4. QED
      BY <2>1, <2>2, <2>3, Completed, Sizes
  <1>6. UNCHANGED <<Stage, InOrder, Unanswered, Unannounced>>
    BY <1>4, <1>5 DEF Stage, InOrder, Unanswered, Unannounced
  <1>7. Work' < Work
    BY <1>1, <1>2, <1>3, <1>4, <1>5 DEF Work
  <1>8. Unanswered' <= Unanswered
    BY <1>6, PartsAreNat
  <1>9. QED
    BY <1>6, <1>7, <1>8, PartOf

LEMMA CorruptFalls == ASSUME IInv, DriverCorrupt PROVE Part(3)
  <1>1. /\ UNCHANGED <<pc, broken, resolved>> /\ errors' = errors + 1 /\ errors < MaxErrors
        /\ Complete(0, FALSE, TRUE)
    BY DEF DriverCorrupt, Complete, client
  <1>2. NReads \in Nat /\ MaxErrors \in Nat /\ resolved \in 0..NReads /\ errors \in 0..MaxErrors
    BY Sizes
  <1>3. CorruptDone' = CorruptDone + 1 /\ CorruptDone \in Nat
    BY <1>1, CompletedEmpty, Sizes
  <1>4. UNCHANGED <<Stage, InOrder>>
    BY <1>1 DEF Stage, InOrder
  <1>5. Unanswered' < Unanswered
    BY <1>1, <1>2, <1>3 DEF Unanswered
  <1>6. QED
    BY <1>4, <1>5, PartOf

\* A buffer of the capture port is handled: it ends the session, answers a change, or was
\* a corrupt one, or a frame is handed on.
LEMMA OutputFalls ==
    ASSUME IInv, NothingBehind, HandleOutput
    PROVE  \E j \in {1, 3, 5} : Part(j)
  <1>1. outDone \in Seq(Capture) /\ outDone # <<>>
    BY Facts DEF IInv, Reported, HandleOutput
  <1>2. /\ NReads \in Nat /\ MaxErrors \in Nat /\ resolved \in Nat /\ resolved <= NReads
        /\ errors \in Nat /\ errors <= MaxErrors /\ next \in Nat /\ inDone \in Nat /\ outQ \in Nat
        /\ Len(inQ) \in Nat /\ Len(pipe) \in Nat /\ CorruptDone \in Nat /\ FramesDone \in Nat
    BY Sizes
  <1>3. /\ Hits(Tail(outDone), Corrupt) \in Nat /\ Hits(Tail(outDone), Frames) \in Nat
        /\ Hits(Tail(outDone), Corrupt) <= CorruptDone
        /\ Hits(Tail(outDone), Frames) <= FramesDone
        /\ Done \in Corrupt => Hits(Tail(outDone), Corrupt) < CorruptDone
        /\ Done \in Frames => Hits(Tail(outDone), Frames) < FramesDone
    <2>1. /\ Hits(Tail(outDone), Corrupt) \in Nat
          /\ Hits(Tail(outDone), Corrupt) + (IF Done \in Corrupt THEN 1 ELSE 0) <= CorruptDone
      BY <1>1, HitsTail DEF Done, CorruptDone
    <2>2. /\ Hits(Tail(outDone), Frames) \in Nat
          /\ Hits(Tail(outDone), Frames) + (IF Done \in Frames THEN 1 ELSE 0) <= FramesDone
      BY <1>1, HitsTail DEF Done, FramesDone
    <2>3. QED
      BY <1>2, <2>1, <2>2
  <1>4. Done \in Capture
    BY <1>1, HeadIsMember DEF Done
  <1>5. CASE EndCapture \/ ResetFails
    <2>1. Stage' < Stage
      BY <1>5 DEF HandleOutput, EndCapture, ResetFails, Stage
    <2>2. QED
      BY <2>1, PartOf
  <1>6. CASE RequeueCapture
    <2>1. /\ UNCHANGED <<pc, broken, resolved, errors, change, next, inQ, inDone, pipe>>
          /\ outDone' = Tail(outDone) /\ outQ' = outQ + 1
      BY <1>6 DEF HandleOutput, RequeueCapture, driver
    <2>2. CorruptDone' = Hits(Tail(outDone), Corrupt) /\ FramesDone' = Hits(Tail(outDone), Frames)
      BY <2>1, DoneAfter
    <2>3. UNCHANGED <<Stage, InOrder, Unannounced>>
      BY <2>1 DEF Stage, InOrder, Unannounced
    <2>4. CorruptDone' <= CorruptDone /\ CorruptDone' \in Nat
      BY <1>3, <2>2
    <2>5. Unanswered' <= Unanswered
      <3>1. resolved' = resolved /\ errors' = errors
        BY <2>1
      <3>2. PICK n \in Nat : CorruptDone' = n /\ n <= CorruptDone
        BY <2>4
      <3>3. QED
        BY <1>2, <3>1, <3>2 DEF Unanswered
    <2>6. CASE Done.frame # 0
      <3>1. Done \in Frames
        BY <1>4, <2>6 DEF Frames
      <3>2. FramesDone' < FramesDone /\ FramesDone' \in Nat
        BY <1>3, <2>2, <3>1
      <3>3. Work' < Work
        BY <1>2, <2>1, <3>2 DEF Work
      <3>4. Part(5)
        BY <2>3, <2>5, <3>3, PartOf
      <3>5. QED
        BY <3>4
    <2>7. CASE Done.frame = 0
      <3>1. Done \in Corrupt
        BY <1>4, <1>6, <2>7 DEF RequeueCapture, ResetsStream, Corrupt
      <3>2. CorruptDone' < CorruptDone
        BY <1>3, <2>2, <3>1
      <3>3. resolved' = resolved /\ errors' = errors
        BY <2>1
      <3>4. PICK n \in Nat : CorruptDone' = n /\ n < CorruptDone
        BY <2>4, <3>2
      <3>5. Unanswered' < Unanswered
        BY <1>2, <3>3, <3>4 DEF Unanswered
      <3>6. Part(3)
        BY <2>3, <3>5, PartOf
      <3>7. QED
        BY <3>6
    <2>8. QED
      BY <2>6, <2>7
  <1>7. ASSUME NEW n \in ResetCounts, ResetCapture(n) PROVE Part(3)
    <2>1. /\ UNCHANGED <<pc, broken, errors>> /\ outDone' = <<>> /\ ResetsStream
          /\ resolved' = IF change THEN Head(pipe) ELSE resolved
      BY <1>7 DEF ResetCapture
    <2>2. CorruptDone' = 0
      BY <2>1, DoneAfter, HitsNone
    <2>3. UNCHANGED <<Stage, InOrder>>
      BY <2>1 DEF Stage, InOrder
    <2>4. CASE change
      <3>1. Head(pipe) \in Nat /\ Head(pipe) <= NReads /\ Head(pipe) > resolved
        <4>1. pipe \in Seq(1..NReads) /\ pipe # <<>> /\ Head(pipe) > resolved
          BY <2>4, Facts DEF IInv, ChangeWaits, NewResolution
        <4>2. Head(pipe) \in 1..NReads
          BY <4>1, HeadIsMember
        <4>3. QED
          BY <1>2, <4>1, <4>2
      <3>2. Unanswered' < Unanswered
        BY <1>2, <2>1, <2>2, <2>4, <3>1 DEF Unanswered
      <3>3. QED
        BY <2>3, <3>2, PartOf
    <2>5. CASE ~change
      <3>1. Done \in Corrupt
        <4>1. 1 \in 1..Len(outDone) /\ Done = outDone[1]
          BY <1>1 DEF Done
        <4>2. ~Returned(Done)
          BY <2>5, <4>1 DEF NothingBehind
        <4>3. Done.error
          BY <2>1, <4>2 DEF ResetsStream, Returned
        <4>4. QED
          BY <1>4, <4>3 DEF Corrupt
      <3>2. CorruptDone > 0
        BY <1>2, <1>3, <3>1
      <3>3. Unanswered' < Unanswered
        BY <1>2, <2>1, <2>2, <2>5, <3>2 DEF Unanswered
      <3>4. QED
        BY <2>3, <3>3, PartOf
    <2>6. QED
      BY <2>4, <2>5
  <1>8. QED
    BY <1>5, <1>6, <1>7 DEF HandleOutput

LEMMA StepFalls ==
    ASSUME IInv, NothingBehind, [Next]_vars, vars' # vars
    PROVE  \E j \in 1..6 : Part(j)
  <1>1. CASE Setup \/ SetupFails \/ PollError \/ PollTimeout \/ DriverBreak
    BY <1>1, StopsFall
  <1>2. CASE Poll
    BY <1>2, PollFalls
  <1>3. CASE HandleInput
    BY <1>3, InputFalls
  <1>4. CASE HandleOutput
    BY <1>4, OutputFalls
  <1>5. CASE DriverConsume
    BY <1>5, ConsumeFalls
  <1>6. CASE DriverChange
    BY <1>6, ChangeFalls
  <1>7. CASE DriverReturnEmpty \/ DriverEnd
    BY <1>7, ReturnsFall
  <1>8. ASSUME NEW l \in BOOLEAN, DriverEmit(l) PROVE Part(5)
    BY <1>8, EmitFalls
  <1>9. CASE DriverCorrupt
    BY <1>9, CorruptFalls
  <1>10. QED
    BY <1>1, <1>2, <1>3, <1>4, <1>5, <1>6, <1>7, <1>8, <1>9
       DEF Next, Client, DriverWork, Terminated

\* Every step of a session brings it nearer to its end, in an order in which nothing can
\* come nearer for ever: whatever the driver does with its MaxErrors corrupt buffers, no
\* empty buffer is handed back and taken off the queue for ever, and a session has
\* finitely many steps.  That it does not stop before its end is what Ends adds.
THEOREM EveryStepProgresses ==
    /\ IsWellFoundedOn(Sooner, [1..6 -> Nat])
    /\ Spec => [][Nearer]_vars
  <1> DEFINE Measured == Left \in [1..6 -> Nat]
  <1>1. IInv => Measured
    <2> SUFFICES ASSUME IInv PROVE Left \in [1..6 -> Nat]
      OBVIOUS
    <2>1. /\ Stage \in Nat /\ InOrder \in Nat /\ Unanswered \in Nat /\ Unannounced \in Nat
          /\ Work \in Nat /\ Unpolled \in Nat
      BY PartsAreNat
    <2>2. QED
      BY <2>1 DEF Left
  <1>2. IInv /\ NothingBehind /\ Measured /\ Measured' /\ [Next]_vars
          => [Nearer]_vars
    <2> SUFFICES ASSUME IInv, NothingBehind, Measured, Measured', [Next]_vars, vars' # vars
                 PROVE  Nearer
      OBVIOUS
    <2>1. PICK j \in 1..6 : Part(j)
      BY StepFalls
    <2>2. Left \in [1..6 -> Nat] /\ Left' \in [1..6 -> Nat]
      OBVIOUS
    <2>3. QED
      BY <2>1, <2>2, Falls DEF Part, Nearer
  <1>3. FlowInv => IInv /\ NothingBehind
    BY DEF FlowInv
  <1> HIDE DEF Measured
  <1>4. Spec => [][Nearer]_vars
    BY <1>1, <1>2, <1>3, FlowInvariance, PTL DEF Spec
  <1>5. QED
    BY <1>4, SoonerIsWellFounded
=============================================================================
